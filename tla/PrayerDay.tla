----------------------------- MODULE PrayerDay ------------------------------
(***************************************************************************)
(* What svc_prayer_engine_service.c publishes for a day, and for the jamat *)
(* of the next one, out of the engine's times (SunTimes), the rules of the *)
(* mosque and the entries of the year file of svc_timetable.c, which       *)
(* computes its jamats with code of its own.                               *)
(*                                                                         *)
(* Two days of a place. Who recalculates when, and how a file is replaced, *)
(* is PrayerService; here every request and every regeneration is a step.  *)
(***************************************************************************)
EXTENDS SunTimes

CONSTANTS
  Places,      \* days of a place: [date, method, suns], suns the suns the days after may have
  Configs,     \* [adhan, zawal, season, jamat]: what else svc_config_t holds
  Uploads      \* uploaded year files, by how they differ from a generated one: for each field of an
               \* entry by how many seconds, or None for no such field; [without] the days they lack

\* What is known of the astronomy: Maghrib and Isha follow sunset by less than half a day, give or
\* take an hour, wherever the sun crosses the horizon, but for two degrees around the poles.
SunOK(s) ==
  /\ {s.lat, s.ahead, s.tz, s.mid} \subseteq Int /\ Abs(s.lat) <= 900
  /\ {s.rise, s.set, s.asr, s.yellow, s.fajr, s.maghrib, s.isha} \subseteq {None} \cup Int
  /\ s.rise # None /\ s.set # None =>
       /\ s.rise <= s.set /\ s.set <= s.rise + DayLength
       /\ s.fajr # None => s.fajr <= s.rise
       /\ s.maghrib # None => s.set <= s.maghrib /\ s.maghrib <= s.set + 11 * 3600
       /\ s.isha # None => s.set <= s.isha /\ s.isha <= s.set + 13 * 3600
       /\ s.maghrib # None /\ s.isha # None => s.maghrib <= s.isha

ASSUME PlacesOK ==
  \A at \in Places :
    /\ at.date \in [y : Nat, m : 1 .. 12, d : 1 .. 31] /\ at.date.d <= DaysInMonth(at.date.y, at.date.m)
    /\ at.method \in DOMAIN Methods /\ SunOK(at.sun) /\ \A s \in at.suns : SunOK(s)

\* The limits of the setters of svc_config.c.
RoundingOK(min) == min \in {0, 2, 5, 10, 15, 20, 30}
JamatOK(j) ==
  /\ j.anchor \in {"DISABLED", "ADHAN_PLUS", "SUNRISE_MINUS", "MIDNIGHT_MINUS"}
  /\ j.offset \in Nat /\ j.offset <= 1440
ConfigOK(c) ==
  /\ \A p \in Prayers : c.adhan[p] \in 0 .. 60
  /\ c.zawal \in 0 .. 30
  /\ \A p \in Prayers : RoundingOK(c.jamat[p].round) /\ \A s \in {"summer", "winter"} : JamatOK(c.jamat[p][s])

ASSUME ConfigsOK == \A c \in Configs : ConfigOK(c)

ASSUME UploadsOK ==
  \A u \in Uploads :
    /\ {u.adhan, u.jamat} \subseteq {None} \cup Int
    /\ {u.sunrise, u.midnight, u.zawal, u.yellow, u.sehri, u.iftar} \subseteq {None} \cup Int

VARIABLES
  place, rule, cfg,   \* settings, fixed at the start
  sky,                \* the suns of the first day, of the next, and of that one's MM-DD in the first year
  engine,             \* what svc_prayer_engine_calculate() returns for each: a function of what is fixed
  day,                \* 1 or 2
  file,               \* the year file: [source, year, days]
  cache,              \* s_cache, None while it is not valid
  told                \* history: jamat_tomorrow_sec as the first day last published it

vars == <<place, rule, cfg, sky, engine, day, file, cache, told>>

-----------------------------------------------------------------------------
(* Dates and seasons *)

\* date_advance_one_day()
NextDay(d) ==
  IF d.d < DaysInMonth(d.y, d.m) THEN [d EXCEPT !.d = @ + 1]
  ELSE IF d.m < 12 THEN [y |-> d.y, m |-> d.m + 1, d |-> 1] ELSE [y |-> d.y + 1, m |-> 1, d |-> 1]

MonthDay(d) == d.m * 100 + d.d

\* date_in_range(): [s, e), which may go over the end of the year.
DateInRange(v, s, e) == IF s <= e THEN v >= s /\ v < e ELSE v >= s \/ v < e

CurrentSeason(c, d) == IF DateInRange(MonthDay(d), c.season.summer, c.season.winter) THEN "summer" ELSE "winter"

-----------------------------------------------------------------------------
(* Jamats *)

RoundToMin(sec, min) == IF min = 0 THEN sec ELSE LET step == 60 * min IN ((sec + step \div 2) \div step) * step

\* Mutant of ComputeJamat: the anchor may lie before the offset.
ComputeJamatUnchecked(adhan, sunrise, midnight, j, round) ==
  LET off == 60 * j.offset
      From(base) == RoundToMin(base, round)
      Before(anchor) == IF anchor = None THEN None ELSE From(anchor - off)
  IN  IF j.anchor = "ADHAN_PLUS" THEN From(adhan + off)
      ELSE IF j.anchor = "SUNRISE_MINUS" THEN Before(sunrise)
      ELSE IF j.anchor = "MIDNIGHT_MINUS" THEN Before(midnight) ELSE None

\* compute_jamat()
ComputeJamat(adhan, sunrise, midnight, j, round) ==
  LET off == 60 * j.offset
      From(base) == RoundToMin(base, round)
      Before(anchor) == IF anchor = None \/ anchor < off THEN None ELSE From(anchor - off)
  IN  IF j.anchor = "ADHAN_PLUS" THEN From(adhan + off)
      ELSE IF j.anchor = "SUNRISE_MINUS" THEN Before(sunrise)
      ELSE IF j.anchor = "MIDNIGHT_MINUS" THEN Before(midnight) ELSE None

Adhan(raw) == [p \in Prayers |-> raw[p] + 60 * cfg.adhan[p]]

ComputedJamats(adhan, sunrise, midnight, season) ==
  [p \in Prayers |-> ComputeJamat(adhan[p], sunrise, midnight, cfg.jamat[p][season], cfg.jamat[p].round)]

\* Mutant of MergeJamat: the file is always right.
MergeJamatTrusting(inFile, computed, adhan) == IF inFile = None THEN computed ELSE inFile

\* merge_jamat(): a file's jamat before the adhan is not believed.
MergeJamat(inFile, computed, adhan) == IF inFile = None \/ inFile < adhan THEN computed ELSE inFile

-----------------------------------------------------------------------------
(* The year file *)

Aside == {"sunrise", "midnight", "zawal", "yellow", "sehri", "iftar"}
NoTimes == [p \in Prayers |-> None]
NoEntry == [adhan |-> NoTimes, jamat |-> NoTimes, sunrise |-> None, midnight |-> None, zawal |-> None,
            yellow |-> None, sehri |-> None, iftar |-> None]
NoFile  == [source |-> "none", year |-> 0, days |-> [k \in {} |-> NoEntry]]

\* jget_u32(): what is out of its bounds is read as absent.
ReadBack(v) == IF v # None /\ 0 <= v /\ v <= 200000 THEN v ELSE None

Zawal(raw) == Greater(raw.dhuhr - 60 * cfg.zawal, 0)

\* Mutant of BuildDayEntry: the bounds of the summer both belong to it.
BuildDayEntryWideSummer(date) ==
  LET raw == engine[date]
      season == IF DateInRange(MonthDay(date), cfg.season.summer, cfg.season.winter + 1) THEN "summer" ELSE "winter"
      adhan == Adhan(raw)
      jamat == ComputedJamats(adhan, raw.sunrise, raw.midnight, season)
  IN  [adhan |-> [p \in Prayers |-> ReadBack(adhan[p])], jamat |-> [p \in Prayers |-> ReadBack(jamat[p])],
       sunrise |-> ReadBack(raw.sunrise), midnight |-> ReadBack(raw.midnight),
       zawal |-> ReadBack(Zawal(raw)), yellow |-> ReadBack(raw.yellow),
       sehri |-> ReadBack(raw.fajr), iftar |-> ReadBack(raw.sunset)]

\* build_day_entry() for a day that can be calculated, as extract_day_entry() reads it again.
BuildDayEntry(date) ==
  LET raw == engine[date]
      season == IF DateInRange(MonthDay(date), cfg.season.summer, cfg.season.winter) THEN "summer" ELSE "winter"
      adhan == Adhan(raw)
      jamat == ComputedJamats(adhan, raw.sunrise, raw.midnight, season)
  IN  [adhan |-> [p \in Prayers |-> ReadBack(adhan[p])], jamat |-> [p \in Prayers |-> ReadBack(jamat[p])],
       sunrise |-> ReadBack(raw.sunrise), midnight |-> ReadBack(raw.midnight),
       zawal |-> ReadBack(Zawal(raw)), yellow |-> ReadBack(raw.yellow),
       sehri |-> ReadBack(raw.fajr), iftar |-> ReadBack(raw.sunset)]

\* The days of a year that matter here, by their MM-DD; one that cannot be calculated is left out.
Days(year) ==
  LET dates == {d \in DOMAIN sky : d.y = year /\ engine[d] # None}
  IN  [k \in {MonthDay(d) : d \in dates} |-> BuildDayEntry(CHOOSE d \in dates : MonthDay(d) = k)]

GenerateFullYear(year) == [source |-> "firmware", year |-> year, days |-> Days(year)]

\* What extract_day_entry() reads of an entry the mosque wrote otherwise.
Moved(v, by) == IF v = None \/ by = None THEN None ELSE ReadBack(v + by)
Edited(entry, u) ==
  [entry EXCEPT !.adhan = [p \in Prayers |-> Moved(@[p], u.adhan)],
                !.jamat = [p \in Prayers |-> Moved(@[p], u.jamat)],
                !.sunrise = Moved(@, u.sunrise), !.midnight = Moved(@, u.midnight),
                !.zawal = Moved(@, u.zawal), !.yellow = Moved(@, u.yellow),
                !.sehri = Moved(@, u.sehri), !.iftar = Moved(@, u.iftar)]

Uploaded(u, year) ==
  LET days == Days(year) IN
    [source |-> "user", year |-> year, days |-> [k \in DOMAIN days \ u.without |-> Edited(days[k], u)]]

\* Today's and tomorrow's entries are found by their MM-DD, whatever year the file is for.
EntryOf(f, date) == IF MonthDay(date) \in DOMAIN f.days THEN f.days[MonthDay(date)] ELSE NoEntry

-----------------------------------------------------------------------------
(* Recalculation *)

Merge(inFile, fresh) == IF inFile = None THEN fresh ELSE inFile

\* The tripwire: an adhan more than a minute from the engine's is not taken from the file.
Tripped(inFile, fresh) == IF inFile # None /\ Abs(inFile - fresh) <= 60 THEN inFile ELSE fresh

Jamats(entry, adhan, raw, season) ==
  LET computed == ComputedJamats(adhan, Merge(entry.sunrise, raw.sunrise), Merge(entry.midnight, raw.midnight), season)
  IN  [p \in Prayers |-> MergeJamat(entry.jamat[p], computed[p], adhan[p])]

\* Mutant of TomorrowsJamats: tomorrow in today's season.
TomorrowsJamatsThisSeason(f, date) ==
  LET next == NextDay(date)
      raw == engine[next]
  IN  IF raw = None THEN NoTimes
      ELSE Jamats(EntryOf(f, next), Adhan(raw), raw, CurrentSeason(cfg, date))

TomorrowsJamats(f, date) ==
  LET next == NextDay(date)
      raw == engine[next]
  IN  IF raw = None THEN NoTimes
      ELSE Jamats(EntryOf(f, next), Adhan(raw), raw, CurrentSeason(cfg, next))

\* svc_prayer_engine_service_recalculate() with the year file f; None if it fails. Of the second day
\* nothing is told of the next.
Published(f, date) ==
  LET raw == engine[date]
      entry == EntryOf(f, date)
      fresh == Adhan(raw)
      adhan == [p \in Prayers |-> Tripped(entry.adhan[p], fresh[p])]
  IN  IF raw = None THEN None
      ELSE [date |-> date, source |-> f.source, season |-> CurrentSeason(cfg, date),
            astronomical |-> [p \in Prayers |-> raw[p]], adhan |-> adhan,
            sunrise |-> Merge(entry.sunrise, raw.sunrise), sunset |-> raw.sunset,
            midnight |-> Merge(entry.midnight, raw.midnight), yellow |-> Merge(entry.yellow, raw.yellow),
            zawal |-> Merge(entry.zawal, Zawal(raw)),
            sehri |-> Merge(entry.sehri, raw.fajr), iftar |-> Merge(entry.iftar, raw.sunset),
            jamat |-> Jamats(entry, adhan, raw, CurrentSeason(cfg, date)),
            tomorrow |-> IF date = place.date THEN TomorrowsJamats(f, date) ELSE NoTimes]

-----------------------------------------------------------------------------
(* Steps *)

Dates == LET first == place.date IN <<first, NextDay(first)>>
Today == Dates[day]

Init ==
  /\ place \in Places /\ rule \in Rules /\ cfg \in Configs
  /\ LET next == NextDay(place.date)
         others == {next, [next EXCEPT !.y = place.date.y]}
     IN  sky \in {[d \in {place.date} \cup others |-> IF d = place.date THEN place.sun ELSE s[d]] :
                    s \in [others -> place.suns]}
  /\ engine = [d \in DOMAIN sky |-> Engine(sky[d], d, place.method, rule)]
  /\ day = 1 /\ file = NoFile /\ cache = None /\ told = None

\* A recalculation that fails leaves the cache as it is.
Recalculated(f, keep) ==
  LET new == Published(f, Today)
      failed == engine[Today] = None
  IN  /\ cache' = IF failed THEN cache ELSE new
      /\ told' = IF day = 1 /\ ~failed THEN new.tomorrow ELSE IF keep THEN told ELSE None
      /\ file' = f
      /\ UNCHANGED <<place, rule, cfg, sky, engine, day>>

Recalculate == Recalculated(file, TRUE)

\* regen_task(): no file, or the firmware's of another year.
Regenerate ==
  /\ \/ file.source = "none"
     \/ file.source = "firmware" /\ file.year # Today.y
  /\ Recalculated(GenerateFullYear(Today.y), TRUE)

\* The requests of the web page. What a request changes on the second day was not to be foretold.
HttpRegenerate == Recalculated(GenerateFullYear(Today.y), file.source # "user")
HttpDelete     == file # NoFile /\ Recalculated(NoFile, file.source # "user")
HttpUpload(u)  == Recalculated(Uploaded(u, Today.y), FALSE)

Midnight == day = 1 /\ day' = 2 /\ UNCHANGED <<place, rule, cfg, sky, engine, file, cache, told>>

Next ==
  \/ Recalculate \/ Regenerate \/ HttpRegenerate \/ HttpDelete
  \/ \E u \in Uploads : HttpUpload(u)
  \/ Midnight

Spec == Init /\ [][Next]_vars

-----------------------------------------------------------------------------
(* Properties *)

\* The engine's times end with the second day; an adhan may be an hour and the minute of the tripwire
\* later, a jamat a day later and rounded by a quarter of an hour.
Latest == 3 * DayLength + 75 * 60
Times  == {"astronomical", "adhan", "jamat", "tomorrow"}

\* Only an uploaded file may say something else than whole minutes.
IsTime(t, source) == t \in 0 .. Latest /\ (source # "user" => t % 60 = 0)

\* Every published time is a whole minute but for what an uploaded file says, and none is below zero
\* or beyond the latest, whatever the anchors, offsets and roundings
\* (docs/prayer-times-model.md:66-78; svc_prayer_engine_service.c:118-145).
TypeOK ==
  /\ day \in 1 .. 2 /\ file.source \in {"none", "firmware", "user"}
  /\ cache # None =>
       /\ \A f \in Times : \A p \in Prayers : cache[f][p] = None \/ IsTime(cache[f][p], cache.source)
       /\ \A f \in Aside \cup {"sunset"} : cache[f] = None \/ IsTime(cache[f], cache.source)

\* The cache holds times that no file of another year has a part in.
OfItsYear == cache # None /\ (file.source = "none" \/ file.year = cache.date.y)

Shift(s) == s.ahead + 60 * s.tz

\* Times are published in minutes: in a shorter interval there is no order to be kept.
Apart(s) ==
  /\ s.rise + 60 <= s.mid /\ s.mid + 60 <= s.asr /\ s.asr + 60 <= s.set
  /\ s.set - s.rise <= DayLength - 7 * 60
  /\ s.fajr # None => s.fajr + 60 <= s.rise
  /\ s.isha # None => s.isha >= 60 + (IF s.maghrib = None THEN s.set ELSE s.maghrib)

\* A day that lies on its own date of the civil clock from Fajr to Maghrib, its events and a seventh
\* of its night no shorter than a minute.
CivilDay(date) ==
  LET s == sky[date]
      m == Methods[place.method]
      t == Twilight(s, date, m, Effective(rule, s.lat, m))
  IN  t.fajr + Shift(s) >= 0 /\ t.maghrib + Shift(s) < DayLength /\ Apart(s)

\* Whatever the method, the high-latitude rule and the season, the day's prayers and sunset come in
\* their order, and Isha not before Maghrib (PrayerTimes.cpp:279-386). So do sunrise and midnight,
\* midnight not before Isha, unless the mosque's own file says them: it is taken at its word there,
\* with no tripwire (svc_prayer_engine_service.c:424-428).
InOrder ==
  cache # None /\ CivilDay(cache.date) =>
    LET a == cache.astronomical IN
      /\ a.fajr < a.dhuhr /\ a.dhuhr < a.asr /\ a.asr < cache.sunset
      /\ cache.sunset <= a.maghrib /\ a.maghrib < a.isha
      /\ cache.source # "user" /\ OfItsYear =>
           a.fajr < cache.sunrise /\ cache.sunrise < a.dhuhr /\ a.isha <= cache.midnight

\* A file of the firmware for the year changes nothing: what it says is what the engine and the
\* rules say, although another function wrote it, so the tripwire never fires
\* (docs/prayer-times-model.md:296-299). Tomorrow may be in another year.
TableAgrees ==
  file.source = "firmware" /\ file.year = Today.y =>
    LET with == Published(file, Today)  without == Published(NoFile, Today) IN
      \/ with = None /\ without = None
      \/ \A f \in DOMAIN with \ {"source"} :
           with[f] = without[f] \/ (f = "tomorrow" /\ NextDay(Today).y # Today.y)

\* What the first day announced as tomorrow's jamats is what the second publishes, over a change of
\* season, of the UTC offset, of the month and over regenerations of the file in between, as long as
\* no uploaded file and no new year come into it (docs/prayer-times-model.md:317-327).
TomorrowKept ==
  /\ day = 2 /\ told # None /\ cache # None /\ cache.date = Today
  /\ file.source # "user" /\ Today.y = place.date.y
  => cache.jamat = told

\* No jamat is published before its adhan, whatever an uploaded file says of either, unless the rule
\* counts it back from sunrise or midnight, or its rounding takes back more than its offset: then by
\* half a rounding at most (docs/prayer-times-model.md:304-306; svc_prayer_engine_service.c:108-145).
NotBeforeAdhan ==
  cache # None =>
    \A p \in Prayers :
      LET j == cfg.jamat[p][cache.season]  round == cfg.jamat[p].round IN
        \/ j.anchor \in {"SUNRISE_MINUS", "MIDNIGHT_MINUS"}
        \/ cache.jamat[p] = None \/ cache.jamat[p] >= cache.adhan[p]
        \/ j.anchor = "ADHAN_PLUS" /\ 2 * j.offset < round /\ cache.jamat[p] + 30 * round > cache.adhan[p]

\* svc_timetable.c:390-392: "last year's file must never serve this year's dates. (mm-dd keys would
\* still match, so a stale year is a silent wrong-time bug -- regenerate instead.)" So whatever year
\* a file of the firmware is for, it changes nothing of what is published.
LastYearNeverServes ==
  cache # None /\ cache.date = Today /\ file.source = "firmware" =>
    LET without == Published(NoFile, Today) IN
      \A f \in DOMAIN cache \ {"source", "tomorrow"} : cache[f] = without[f]
=============================================================================
