------------------------------ MODULE SunTimes ------------------------------
(***************************************************************************)
(* The times of a day: PrayerTimesCalculator::calculate() and its wrapper  *)
(* svc_prayer_engine_calculate().                                          *)
(*                                                                         *)
(* The astronomy itself (when the sun of a place stands at an angle, the   *)
(* iterated trigonometry of PrayerTimes.cpp:113-229) is data: a sun is a   *)
(* record of the seconds of local mean time it yields, None where the sun  *)
(* never gets there (NaN). Hours are seconds here, rounded down where the  *)
(* code divides a double; angles and latitudes are tenths of a degree.     *)
(***************************************************************************)
EXTENDS Integers

CONSTANT None      \* NaN, and UINT32_MAX
ASSUME NoneOK == None \notin Int

DayLength == 86400
Prayers == {"fajr", "dhuhr", "asr", "maghrib", "isha"}

Lesser(a, b)  == IF a < b THEN a ELSE b
Greater(a, b) == IF a < b THEN b ELSE a
Abs(a)        == IF a < 0 THEN -a ELSE a

-----------------------------------------------------------------------------
(* The calendar *)

Leap(y) == (y % 4 = 0 /\ y % 100 # 0) \/ y % 400 = 0
DaysInMonth(y, m) == IF m = 2 THEN IF Leap(y) THEN 29 ELSE 28
                     ELSE IF m \in {4, 6, 9, 11} THEN 30 ELSE 31

\* days_since_solstice()
DaysSinceSolstice(d, lat) ==
  LET before == <<0, 31, 59, 90, 120, 151, 181, 212, 243, 273, 304, 334>>
      year == IF Leap(d.y) THEN 366 ELSE 365
      ofYear == before[d.m] + d.d + (IF Leap(d.y) /\ d.m > 2 THEN 1 ELSE 0)
  IN  IF lat >= 0 THEN (ofYear + 10) % year ELSE (ofYear - (IF Leap(d.y) THEN 173 ELSE 172)) % year

\* interpolate_season() between the values v at the bounds of its six segments.
Interpolated(v, dyy) ==
  LET bound == <<0, 91, 137, 183, 229, 275, 366>>
      k == CHOOSE i \in 1 .. 6 : bound[i] <= dyy /\ (i = 6 \/ dyy < bound[i + 1])
      width == IF k \in {1, 6} THEN 91 ELSE 46
  IN  v[k] + ((v[k + 1] - v[k]) * (dyy - bound[k])) \div width

\* season_adj_fajr() and season_adj_isha() in seconds; the slopes are hundredths of a minute for
\* 55 degrees, and the interpolation is in units of 1/55000 minutes.
SeasonAdjust(slopes, lat, dyy) ==
  LET at == [k \in 1 .. 4 |-> 75 * 55000 + slopes[k] * Abs(lat)]
      v  == <<at[1], at[2], at[3], at[4], at[3], at[2], at[1]>>
  IN  (Interpolated(v, dyy) * 60 + 27500) \div 55000

FajrSlopes == <<2865, 1944, 3274, 4810>>
IshaSlopes == <<2560, 205, -921, 614>>

-----------------------------------------------------------------------------
(* Calculation *)

Methods == [
  MWL          |-> [fajr |-> 180, isha |-> 170, interval |-> 0,  maghrib |-> 0,  moon |-> FALSE],
  ISNA         |-> [fajr |-> 150, isha |-> 150, interval |-> 0,  maghrib |-> 0,  moon |-> FALSE],
  EGYPTIAN     |-> [fajr |-> 195, isha |-> 175, interval |-> 0,  maghrib |-> 0,  moon |-> FALSE],
  KARACHI      |-> [fajr |-> 180, isha |-> 180, interval |-> 0,  maghrib |-> 0,  moon |-> FALSE],
  UMM_AL_QURA  |-> [fajr |-> 185, isha |-> 0,   interval |-> 90, maghrib |-> 0,  moon |-> FALSE],
  JAFARIA      |-> [fajr |-> 160, isha |-> 140, interval |-> 0,  maghrib |-> 40, moon |-> FALSE],
  MOONSIGHTING |-> [fajr |-> 180, isha |-> 180, interval |-> 0,  maghrib |-> 0,  moon |-> TRUE]]

Rules == {"AUTO", "NONE", "MIDDLE_NIGHT", "SEVENTH", "ANGLE_BASED"}

\* AUTO is decided by the latitude and the method alone.
Effective(rule, lat, m) ==
  IF rule # "AUTO" THEN rule
  ELSE IF \/ Abs(lat) > 480
          \/ m.fajr > 0 /\ Abs(lat) > 665 - m.fajr
          \/ m.interval = 0 /\ m.isha > 0 /\ Abs(lat) > 665 - m.isha
       THEN "SEVENTH" ELSE "MIDDLE_NIGHT"

Portion(rule, night, angle) ==
  IF rule = "MIDDLE_NIGHT" THEN night \div 2
  ELSE IF rule = "SEVENTH" THEN night \div 7
  ELSE IF rule = "ANGLE_BASED" THEN (night * angle) \div 600 ELSE 0

Wrapped(t) == IF t = None THEN None ELSE t % DayLength

\* Mutant of IslamicMidnight: halfway to Fajr, even where Isha is later.
IslamicMidnightHalfway(sun, fajr, isha) ==
  IF fajr = None THEN sun.set + (sun.rise + DayLength - sun.set) \div 2
  ELSE sun.set + (fajr + DayLength - sun.set) \div 2

IslamicMidnight(sun, fajr, isha) ==
  IF fajr = None THEN sun.set + (sun.rise + DayLength - sun.set) \div 2
  ELSE LET half == sun.set + (fajr + DayLength - sun.set) \div 2
       IN  IF isha # None /\ half < isha THEN isha ELSE half

\* Where Fajr and Isha are too far from the day, or not at all: the high-latitude rule first, then
\* the bounds of the Moonsighting Committee.
Twilight(sun, date, m, rule) ==
  LET night == DayLength - (sun.set - sun.rise)
      fajrPart == Portion(rule, night, m.fajr)
      ishaPart == IF m.interval = 0 THEN Portion(rule, night, m.isha) ELSE 0
      maghrib  == IF m.maghrib > 0 /\ sun.maghrib # None THEN sun.maghrib ELSE sun.set
      angled   == IF m.interval > 0 THEN maghrib + 60 * m.interval ELSE sun.isha
      fajr == IF fajrPart > 0 /\ (sun.fajr = None \/ sun.rise - sun.fajr > fajrPart)
              THEN sun.rise - fajrPart ELSE sun.fajr
      isha == IF ishaPart > 0 /\ (angled = None \/ angled - maghrib > ishaPart)
              THEN maghrib + ishaPart ELSE angled
      dyy  == DaysSinceSolstice(date, sun.lat)
      safeFajr == sun.rise - SeasonAdjust(FajrSlopes, sun.lat, dyy)
      safeIsha == sun.set + SeasonAdjust(IshaSlopes, sun.lat, dyy)
  IN  [maghrib |-> maghrib,
       fajr |-> IF m.moon /\ (fajr = None \/ safeFajr > fajr) THEN safeFajr ELSE fajr,
       isha |-> IF m.moon /\ (isha = None \/ safeIsha < isha) THEN safeIsha ELSE isha]

\* calculate(): what follows Maghrib is told from it, beyond 24 hours if need be. An invalid result
\* is None.
Calculate(sun, date, method, rule) ==
  LET m == Methods[method]
      t == Twilight(sun, date, m, Effective(rule, sun.lat, m))
      midnight == IslamicMidnight(sun, t.fajr, t.isha)
      Local(x) == IF x = None THEN None ELSE Wrapped(x + sun.ahead + 60 * sun.tz)
  IN  IF sun.rise = None \/ sun.set = None THEN None
      ELSE IF None \in {t.fajr, t.isha, sun.asr} THEN None
      ELSE [fajr |-> Local(t.fajr), sunrise |-> Local(sun.rise), dhuhr |-> Local(sun.mid),
            asr |-> Local(sun.asr), yellow |-> Local(sun.yellow), sunset |-> Local(sun.set),
            maghrib |-> Local(t.maghrib), isha |-> Local(t.maghrib) + t.isha - t.maghrib,
            midnight |-> Local(sun.set) + midnight - sun.set]

\* hours_to_sec(): up to the whole minute.
HoursToSec(t) == Lesser(Greater(60 * ((t + 59) \div 60), 0), 2 * DayLength - 1)

\* svc_prayer_engine_calculate()
Engine(sun, date, method, rule) ==
  LET t == Calculate(sun, date, method, rule) IN
    IF \/ date.y \notin 1900 .. 2100 \/ date.m \notin 1 .. 12
       \/ date.d \notin 1 .. DaysInMonth(date.y, date.m) \/ t = None
    THEN None
    ELSE [e \in DOMAIN t |-> IF e = "yellow" /\ t[e] = None THEN None ELSE HoursToSec(t[e])]
=============================================================================
