--------------------------- MODULE PrayerService ---------------------------
(***************************************************************************)
(* The prayer service and the year timetable behind it:                    *)
(* svc_prayer_engine_service.c, svc_timetable.c and the requests of        *)
(* svc_http.c that change either.                                          *)
(*                                                                         *)
(* A recalculation, svc_prayer_engine_service_recalculate(), runs in the   *)
(* caller's task: the service's own, the HTTP server's (first app_main's), *)
(* or a regeneration task, which first writes the year file. They share    *)
(* the file, its .tmp, the statics of svc_timetable.c and s_regenerating   *)
(* without a lock; only the cache has one.                                 *)
(*                                                                         *)
(* A time of prayer is abstracted to its origin: the day and the           *)
(* configuration it was computed for. A year file is its header and the    *)
(* days of the year it has an entry for; an entry is found by month and    *)
(* day alone, so it is that of the file's year. The zone is fixed (nothing *)
(* calls svc_time_set_timezone_posix) and Offset is its offset at noon.    *)
(* Locks that time out, days the engine cannot compute, years outside      *)
(* 2020-2100, allocations inside cJSON and the entry of tomorrow are left  *)
(* out. Mutants are names ending in what they get wrong.                   *)
(***************************************************************************)
EXTENDS Naturals

CONSTANTS
  Configs,     \* configurations with a location that may be set
  Exact,       \* those that serialize_calc() and cJSON print alike, see NeedsRegen
  LastDay,     \* bound: the last day the clock reaches
  YearLength,  \* days in a year
  Offset,      \* tz_offset_minutes_at_noon() of each day
  Regens,      \* the regeneration tasks that can exist at once
  Requests,    \* what the web client does, of "config", "regenerate", "delete", "upload"
  Uploads,     \* the days of the year that a file of the mosque's may give
  Refused,     \* days and configurations whose adhan is after the mosque's jamat
  Faults,      \* what may go wrong, of "spawn", "flash", "full", "heap", "setter", "reset"
  None

ASSUME ConstantsOK ==
  /\ Exact \subseteq Configs
  /\ LastDay \in Nat /\ YearLength \in Nat \ {0}
  /\ Regens \cap {"task", "http"} = {}
  /\ Requests \subseteq {"config", "regenerate", "delete", "upload"}
  /\ Uploads \subseteq SUBSET (0 .. YearLength - 1)
  /\ Faults \subseteq {"spawn", "flash", "full", "heap", "setter", "reset"}

VARIABLES
  cfg,           \* svc_config: a configuration, or None without a location
  day, early,    \* local date; the clock shows 00:00
  time,          \* s_snapshot: "invalid", "untrusted", "trusted"
  news,          \* an EVENT_TIME_UPDATE waits in s_mailbox
  pending,       \* s_date_changed_pending
  cache,         \* s_cache, None while s_cache_valid is false
  regenerating,  \* s_regenerating
  tt,            \* statics of svc_timetable.c: s_meta, s_today, s_today_ymd
  file, tmp,     \* timetable.json and timetable.json.tmp on flash
  pc, job,       \* where each thread is, and its local variables
  failed,        \* history: a step failed after the last recalculation had begun
  starved        \* history: parse_file() has lacked memory since the reset

clockVars == <<day, early, time>>
taskVars  == <<news, pending>>
diskVars  == <<file, tmp>>
vars == <<cfg, clockVars, taskVars, cache, regenerating, tt, diskVars, pc, job, failed,
          starved>>

-----------------------------------------------------------------------------
Days    == 0 .. LastDay
Threads == {"task", "http"} \cup Regens
Year(d) == d \div YearLength

YearDays == 0 .. YearLength - 1

Firmwares(y, c) == [source : {"firmware"}, year : {y}, by : {c}, days : SUBSET YearDays]
Firmware(y, c)  == [source |-> "firmware", year |-> y, by |-> c, days |-> YearDays]
UserFiles == [source : {"user"}, year : {None}, by : {"mosque"}, days : SUBSET YearDays]
Nameless(kind) == [source |-> kind, year |-> None, by |-> None, days |-> {}]
Blank    == Nameless("none")
Headers  == UserFiles \cup
  [source : {"firmware"}, year : 0 .. Year(LastDay), by : Configs, days : SUBSET YearDays]
Junk     == Nameless("junk")   \* no timetable, or the beginning of the header of one
Torn     == Nameless("torn")   \* being written
Mixed    == Nameless("mixed")  \* written by two at once
Empty    == Nameless("empty")
Unreadable == {Junk, Torn, Mixed}
Contents == Headers \cup Unreadable \cup {Empty, None}

Origins  == [day : Nat, by : Configs \cup {"mosque"}]
Origin(d, c) == [day |-> d, by |-> c]

\* None is no day, configuration, file, origin or request.
ASSUME NoneIsNothing ==
  /\ None \notin Days /\ None \notin Configs /\ None \notin Headers
  /\ None \notin Unreadable \cup {Empty} /\ None \notin Origins /\ None # "upload"

\* parse_file() looks for the month and the day only.
EntryFor(f, d) ==
  IF d % YearLength \notin f.days THEN None
  ELSE IF f.source = "user" THEN Origin(d, f.by)
  ELSE Origin(f.year * YearLength + (d % YearLength), f.by)

NoJob == [kind |-> None, cfg |-> None, day |-> None, file |-> None, date |-> None, reload |-> FALSE]
NoTable == [meta |-> None, today |-> None, ymd |-> None]

ReadPlaces  == {"read", "parse", "days", "test", "claim", "create", "store"}
WritePlaces == {"generate", "write", "rename", "remove", "again"}
Places == ReadPlaces \cup WritePlaces \cup {"idle"}
Reading(t) == pc[t] \in ReadPlaces
Writing(t) == pc[t] \in WritePlaces
Quiet == \A t \in Threads : pc[t] = "idle"

Entry == [day : Days, offset : {Offset[d] : d \in Days}, jamat : Origins]

TypeOK ==
  /\ cfg \in Configs \cup {None} /\ day \in Days /\ time \in {"invalid", "untrusted", "trusted"}
  /\ cache \in Entry \cup {None}
  /\ tt.meta \in Headers \cup {Blank, None} /\ tt.today \in Origins \cup {None}
  /\ tt.ymd \in Days \cup {None}
  /\ file \in Contents /\ tmp \in Contents
  /\ {early, news, pending, regenerating, failed, starved} \subseteq BOOLEAN
  /\ pc \in [Threads -> Places]

\* The statics once svc_timetable_init() has parsed the file.
Loaded(f, now) ==
  IF f \in {None, Empty} THEN NoTable
  ELSE IF f \in Unreadable THEN [NoTable EXCEPT !.meta = Blank]
  ELSE IF now = "invalid" THEN [NoTable EXCEPT !.meta = f]
  ELSE [meta |-> f, today |-> EntryFor(f, day), ymd |-> day]

\* app_main, which becomes the HTTP server here, is about to do the first recalculation.
Starting == [t \in Threads |-> IF t = "http" THEN "read" ELSE "idle"]
NoJobs   == [t \in Threads |-> NoJob]

Init ==
  /\ cfg \in Configs \cup {None} /\ day = 0 /\ early = FALSE
  /\ time \in {"invalid", "untrusted", "trusted"}
  /\ file = None /\ tmp = None /\ tt = Loaded(None, time)
  /\ news = FALSE /\ pending = FALSE /\ cache = None /\ regenerating = FALSE
  /\ pc = Starting /\ job = NoJobs
  /\ failed = FALSE /\ starved = FALSE

Move(t, place, j) == pc' = [pc EXCEPT ![t] = place] /\ job' = [job EXCEPT ![t] = j]
\* The end of a recalculation or of a request; a regeneration task also clears the flag.
Finish(t) ==
  /\ Move(t, "idle", NoJob)
  /\ regenerating' = (regenerating /\ t \notin Regens)

-----------------------------------------------------------------------------
(* svc_prayer_engine_service_recalculate() *)

\* Configuration and snapshot, and whether svc_timetable_set_current_date() has to parse.
RecalcRead(t) ==
  /\ pc[t] = "read"
  /\ IF cfg = None \/ time # "trusted"
     THEN Finish(t) /\ UNCHANGED failed
     ELSE /\ Move(t, IF tt.ymd = day THEN "test" ELSE "parse",
                  [job[t] EXCEPT !.cfg = cfg, !.day = day, !.reload = FALSE])
          /\ failed' = FALSE /\ UNCHANGED regenerating
  /\ UNCHANGED <<cfg, clockVars, taskVars, cache, tt, diskVars, starved>>

\* Mutants: the year is not compared; the source is not looked at.
NeedsRegenAnyYear ==
  tt.meta = None \/ (tt.meta.source = "firmware" /\ (tt.meta.by # cfg \/ cfg \notin Exact))
NeedsRegenAnySource ==
  tt.meta = None \/ (time # "invalid" /\ tt.meta.year # Year(day)) \/ tt.meta.by # cfg

OldYear == time # "invalid" /\ tt.meta.year # Year(day)

\* The calculation block of the file is compared as text: serialize_calc() writes "%.3f" and
\* "%.6f", s_meta holds what cJSON made of it, without trailing zeros.
NeedsRegen ==
  \/ tt.meta = None
  \/ tt.meta.source = "firmware" /\ (OldYear \/ tt.meta.by # cfg \/ cfg \notin Exact)

\* Without memory for the text to compare with, a file of this year is left as it is.
RecalcTest(t) ==
  /\ pc[t] = "test"
  /\ \/ /\ Move(t, IF ~ regenerating /\ NeedsRegen THEN "claim" ELSE "store", job[t])
        /\ UNCHANGED failed
     \/ /\ "heap" \in Faults /\ tt.meta # None /\ tt.meta.source = "firmware" /\ ~ OldYear
        /\ Move(t, "store", job[t]) /\ failed' = TRUE
  /\ UNCHANGED <<cfg, clockVars, taskVars, cache, regenerating, tt, diskVars, starved>>

RecalcClaim(t) ==
  /\ pc[t] = "claim"
  /\ Move(t, "create", job[t])
  /\ regenerating' = TRUE
  /\ UNCHANGED <<cfg, clockVars, taskVars, cache, tt, diskVars, failed, starved>>

RecalcSpawn(t, r) ==
  /\ pc[t] = "create" /\ r \in Regens /\ pc[r] = "idle"
  /\ pc' = [pc EXCEPT ![t] = "store", ![r] = "generate"]
  /\ UNCHANGED <<cfg, clockVars, taskVars, cache, regenerating, tt, diskVars, job, failed, starved>>

\* Mutant: the flag stays set.
RecalcSpawnFailsSet(t) ==
  /\ pc[t] = "create" /\ ("spawn" \in Faults \/ \A r \in Regens : pc[r] # "idle")
  /\ Move(t, "store", job[t]) /\ failed' = TRUE
  /\ UNCHANGED <<cfg, clockVars, taskVars, cache, regenerating, tt, diskVars, starved>>

RecalcSpawnFails(t) ==
  /\ pc[t] = "create" /\ ("spawn" \in Faults \/ \A r \in Regens : pc[r] # "idle")
  /\ Move(t, "store", job[t])
  /\ regenerating' = FALSE /\ failed' = TRUE
  /\ UNCHANGED <<cfg, clockVars, taskVars, cache, tt, diskVars, starved>>

\* The jamat of the file if it has one; one before the adhan is replaced, which may be the mosque's,
\* another day's or another configuration's.
Jamats(t) ==
  LET fresh   == Origin(job[t].day, job[t].cfg)
      mosques == Origin(job[t].day, "mosque")
      refused == <<job[t].day, job[t].cfg>> \in Refused
  IN  IF tt.today = None \/ (tt.today = mosques /\ refused) THEN {fresh}
      ELSE IF tt.today = mosques THEN {mosques} ELSE {tt.today, fresh}

RecalcStore(t) ==
  /\ pc[t] = "store"
  /\ \E j \in Jamats(t) :
       cache' = [day |-> job[t].day, offset |-> Offset[job[t].day], jamat |-> j]
  /\ Finish(t)
  /\ UNCHANGED <<cfg, clockVars, taskVars, tt, diskVars, failed, starved>>

-----------------------------------------------------------------------------
(* parse_file(), for svc_timetable_set_current_date() or svc_timetable_reload() *)

\* Where a parse returns to. Only svc_timetable_generate_full_year() minds its failure.
Parsed(t, ok) ==
  LET j == [job[t] EXCEPT !.file = None, !.date = None]
  IN  IF ~ job[t].reload THEN Move(t, "test", j) /\ UNCHANGED <<regenerating, failed>>
      ELSE IF ok \/ job[t].kind = "upload" THEN Move(t, "read", j) /\ UNCHANGED <<regenerating, failed>>
      ELSE Finish(t) /\ failed' = TRUE

\* The file is read, the statics are cleared (by svc_timetable_init() all but the date even if there
\* is nothing to read) and filled from the header. One that is none leaves s_meta present, without a
\* source.
Unread(t) == tt' = IF job[t].reload THEN [NoTable EXCEPT !.ymd = tt.ymd] ELSE tt
ParseHeader(t) ==
  /\ pc[t] = "parse"
  /\ IF file \in {None, Empty}
     THEN Unread(t) /\ Parsed(t, FALSE)
     ELSE IF file \in Unreadable
     THEN tt' = [NoTable EXCEPT !.meta = Blank] /\ Parsed(t, FALSE)
     ELSE IF time = "invalid"
     THEN tt' = [NoTable EXCEPT !.meta = file] /\ Parsed(t, TRUE)
     ELSE /\ tt' = [meta |-> file, today |-> None, ymd |-> day]
          /\ Move(t, "days", [job[t] EXCEPT !.file = file, !.date = day])
          /\ UNCHANGED <<regenerating, failed>>
  /\ UNCHANGED <<cfg, clockVars, taskVars, cache, diskVars, starved>>

\* No memory for the 128 KB of the file, or for the copy of its header.
ParseStarves(t) ==
  /\ pc[t] = "parse" /\ "heap" \in Faults /\ file \notin {None, Empty}
  /\ Unread(t) \/ tt' = [NoTable EXCEPT !.meta = Blank]
  /\ Parsed(t, FALSE) /\ starved' = TRUE
  /\ UNCHANGED <<cfg, clockVars, taskVars, cache, diskVars>>

\* Without memory for a copy of it the entry is passed over.
ParseDays(t) ==
  /\ pc[t] = "days"
  /\ \/ tt' = [tt EXCEPT !.today = EntryFor(job[t].file, job[t].date)] /\ UNCHANGED starved
     \/ "heap" \in Faults /\ UNCHANGED tt /\ starved' = TRUE
  /\ Parsed(t, TRUE)
  /\ UNCHANGED <<cfg, clockVars, taskVars, cache, diskVars>>

-----------------------------------------------------------------------------
(* svc_timetable_generate_full_year() and the upload: .tmp is written and renamed *)

OtherWrites(t) == \E u \in Threads \ {t} : pc[u] = "write"
\* Opening .tmp truncates it, also under another writer.
Truncated(t) == IF OtherWrites(t) THEN Mixed ELSE Torn

GenerateOpen(t) ==
  /\ pc[t] = "generate" /\ cfg # None /\ time # "invalid"
  /\ tmp' = Truncated(t)
  /\ Move(t, "write", [job[t] EXCEPT !.file = Firmware(Year(day), cfg)])
  /\ UNCHANGED <<cfg, clockVars, taskVars, cache, regenerating, tt, file, failed, starved>>

GenerateFails(t) ==
  /\ pc[t] = "generate" /\ (cfg = None \/ time = "invalid" \/ "flash" \in Faults)
  /\ Finish(t) /\ failed' = TRUE
  /\ UNCHANGED <<cfg, clockVars, taskVars, cache, tt, diskVars, starved>>

\* What is left of a file when the flash does not take all of it: some of its days, the beginning of
\* its header, nothing.
Cut(f) ==
  {Junk, Empty} \cup
  IF f = Junk THEN {} ELSE {[f EXCEPT !.days = {d \in @ : d < n}] : n \in 0 .. YearLength}

\* Only the first write of a regeneration, see GenerateFails, is checked for having written all.
Written(t) == {job[t].file} \cup (IF "full" \in Faults THEN Cut(job[t].file) ELSE {})

\* What two writers of one file leave is undefined; what is written to a file renamed away is lost.
WriteFile(t) ==
  /\ pc[t] = "write"
  /\ tmp' \in CASE tmp = None -> {None}
                [] tmp = Mixed -> {Mixed} \cup (IF OtherWrites(t) THEN {} ELSE Written(t))
                [] OTHER -> Written(t)
  /\ Move(t, "rename", [job[t] EXCEPT !.file = None])
  /\ UNCHANGED <<cfg, clockVars, taskVars, cache, regenerating, tt, file, failed, starved>>

\* rename() of FATFS refuses a destination that exists.
CanRename == tmp # None /\ file = None

Renamed(t) ==
  /\ file' = tmp /\ tmp' = None
  /\ Move(t, "parse", [job[t] EXCEPT !.reload = TRUE])
  /\ UNCHANGED <<regenerating, failed>>

\* An upload gives up, a regeneration removes the destination first.
Rename(t) ==
  /\ pc[t] = "rename"
  /\ \/ CanRename /\ Renamed(t)
     \/ /\ ~ CanRename /\ job[t].kind = "upload"
        /\ tmp' = None /\ Finish(t) /\ UNCHANGED <<file, failed>>
     \/ /\ ~ CanRename /\ job[t].kind # "upload"
        /\ Move(t, "remove", job[t]) /\ UNCHANGED <<diskVars, regenerating, failed>>
  /\ UNCHANGED <<cfg, clockVars, taskVars, cache, tt, starved>>

RemoveOld(t) ==
  /\ pc[t] = "remove"
  /\ file' = None /\ Move(t, "again", job[t])
  /\ UNCHANGED <<cfg, clockVars, taskVars, cache, regenerating, tt, tmp, failed, starved>>

RenameAgain(t) ==
  /\ pc[t] = "again"
  /\ \/ CanRename /\ Renamed(t)
     \/ ~ CanRename /\ tmp' = None /\ Finish(t) /\ failed' = TRUE /\ UNCHANGED file
  /\ UNCHANGED <<cfg, clockVars, taskVars, cache, tt, starved>>

-----------------------------------------------------------------------------
(* Requests of the web client; one task serves them *)

Request(q) == q \in Requests /\ pc["http"] = "idle"
Asked(q, place) == Move("http", place, [NoJob EXCEPT !.kind = q])

\* post_config_handler(), post_preset_handler(): the setters, then a recalculation, unless one of
\* the setters fails.
HttpConfig(c) ==
  /\ Request("config") /\ c \in Configs
  /\ cfg' = c
  /\ \/ Asked("config", "read") /\ UNCHANGED failed
     \/ "setter" \in Faults /\ failed' = TRUE /\ UNCHANGED <<pc, job>>
  /\ UNCHANGED <<clockVars, taskVars, cache, regenerating, tt, diskVars, starved>>

HttpRegenerate ==
  /\ Request("regenerate") /\ Asked("regenerate", "generate")
  /\ UNCHANGED <<cfg, clockVars, taskVars, cache, regenerating, tt, diskVars, failed, starved>>

HttpDelete ==
  /\ Request("delete") /\ Asked("delete", "read")
  /\ file' = None /\ tt' = NoTable
  /\ UNCHANGED <<cfg, clockVars, taskVars, cache, regenerating, tmp, failed, starved>>

Sent == {f \in UserFiles : f.days \in Uploads} \cup {Junk}
HttpUpload(f) ==
  /\ Request("upload") /\ f \in Sent
  /\ Move("http", "write", [NoJob EXCEPT !.kind = "upload", !.file = f])
  /\ tmp' = Truncated("http")
  /\ UNCHANGED <<cfg, clockVars, taskVars, cache, regenerating, tt, file, failed, starved>>

\* Mutant: the end of the connection is taken for the end of the file.
HttpUploadAbortsKept ==
  /\ pc["http"] = "write" /\ job["http"].kind = "upload"
  /\ Move("http", "rename", [job["http"] EXCEPT !.file = None])
  /\ UNCHANGED <<cfg, clockVars, taskVars, cache, regenerating, tt, diskVars, failed, starved>>

HttpUploadAborts ==
  /\ pc["http"] = "write" /\ job["http"].kind = "upload"
  /\ tmp' = None /\ Finish("http")
  /\ UNCHANGED <<cfg, clockVars, taskVars, cache, tt, file, failed, starved>>

-----------------------------------------------------------------------------
(* prayer_task(), and what happens around it *)

\* Mutant: a new date is acted on only if the task saw 00:00.
TaskWakeAtMidnight ==
  LET deferred == pending /\ ~ news
      shifted  == cache # None /\ cache.offset # Offset[day]
      wait     == ~ shifted /\ (deferred \/ (cache # None /\ cache.day # day /\ early))
  IN  /\ pc["task"] = "idle"
      /\ news' = FALSE
      /\ pending' = IF time = "invalid" THEN deferred ELSE wait /\ early
      /\ pc' = [pc EXCEPT !["task"] = IF news \/ (time # "invalid" /\ (shifted \/ (~ early /\ wait)
                                                    \/ (~ wait /\ cache = None)))
                                     THEN "read" ELSE "idle"]
      /\ UNCHANGED <<cfg, clockVars, cache, regenerating, tt, diskVars, job, failed, starved>>

\* One turn of the loop, after an event or the 60 s timeout: what the clock and the cache's key call
\* for. EVENT_TIME_DATE_CHANGED only wakes the task earlier.
TaskWake ==
  LET deferred == pending /\ ~ news
      shifted  == cache # None /\ cache.offset # Offset[day]
      dated    == cache # None /\ cache.day # day /\ ~ shifted
      wait     == IF shifted THEN FALSE ELSE IF dated THEN early ELSE deferred
      recalc   == news \/ (/\ time # "invalid"
                           /\ shifted \/ (~ early /\ (dated \/ wait)) \/ (~ wait /\ cache = None))
  IN  /\ pc["task"] = "idle"
      /\ news' = FALSE
      /\ pending' = IF time = "invalid" THEN deferred ELSE wait /\ early
      /\ pc' = [pc EXCEPT !["task"] = IF recalc THEN "read" ELSE "idle"]
      /\ UNCHANGED <<cfg, clockVars, cache, regenerating, tt, diskVars, job, failed, starved>>

\* A sync ends well: the time is trusted, and may be a later one than before. The bus or a full
\* mailbox may lose the event.
TimeUpdate(d) ==
  /\ d \in IF time = "trusted" THEN {day} ELSE day .. LastDay
  /\ time' = "trusted" /\ day' = d /\ early' = (early /\ d = day)
  /\ news' \in {news, TRUE}
  /\ UNCHANGED <<cfg, pending, cache, regenerating, tt, diskVars, pc, job, failed, starved>>

Midnight ==
  /\ time # "invalid" /\ day < LastDay
  /\ day' = day + 1 /\ early' = TRUE
  /\ UNCHANGED <<cfg, time, taskVars, cache, regenerating, tt, diskVars, pc, job,
                 failed, starved>>

MinutePasses ==
  /\ early /\ early' = FALSE
  /\ UNCHANGED <<cfg, day, time, taskVars, cache, regenerating, tt, diskVars, pc, job,
                 failed, starved>>

Reset ==
  /\ "reset" \in Faults
  /\ UNCHANGED <<cfg, day, early, diskVars>>
  /\ time' \in {"invalid", "untrusted", "trusted"}
  /\ \/ tt' = Loaded(file, time') /\ starved' = FALSE
     \/ /\ "heap" \in Faults /\ file \notin {None, Empty} /\ starved' = TRUE
        /\ tt' \in {NoTable, [NoTable EXCEPT !.meta = Blank], [Loaded(file, time') EXCEPT !.today = None]}
  /\ news' = FALSE /\ pending' = FALSE /\ cache' = None /\ regenerating' = FALSE
  /\ pc' = Starting /\ job' = NoJobs
  /\ failed' = FALSE

-----------------------------------------------------------------------------
ThreadStep(t) ==
  \/ RecalcRead(t) \/ RecalcTest(t) \/ RecalcClaim(t) \/ (\E r \in Regens : RecalcSpawn(t, r))
  \/ RecalcSpawnFails(t) \/ RecalcStore(t)
  \/ ParseHeader(t) \/ ParseStarves(t) \/ ParseDays(t)
  \/ GenerateOpen(t) \/ GenerateFails(t) \/ WriteFile(t)
  \/ Rename(t) \/ RemoveOld(t) \/ RenameAgain(t)

HttpRequest ==
  \/ (\E c \in Configs : HttpConfig(c)) \/ HttpRegenerate \/ HttpDelete
  \/ (\E f \in Sent : HttpUpload(f)) \/ HttpUploadAborts

Environment ==
  \/ (\E d \in Days : TimeUpdate(d)) \/ Midnight \/ MinutePasses \/ Reset

\* Somebody gets into somebody's way: two threads recalculate or parse at once, two write .tmp at
\* once, or the date or the configuration changes under a thread.
Collision ==
  \/ \E t, u \in Threads : t # u /\ ((Reading(t) /\ Reading(u)) \/ (Writing(t) /\ Writing(u)))'
  \/ (<<day, cfg>>' # <<day, cfg>> /\ ~ Quiet)

Next ==
  \/ \E t \in Threads : ThreadStep(t)
  \/ HttpRequest
  \/ TaskWake
  \/ Environment

Spec == Init /\ [][Next]_vars

\* A constraint on the steps of some runs: what the code promises of files and times it can only
\* keep as long as nothing collides.
Orderly == ~ Collision

\* A constraint on the states of that run: of what follows a lack of memory only NoTornFile speaks.
Fed == ~ starved

\* Tasks get to run, the mailbox is read or times out, minutes pass.
Fairness == (\A t \in Threads : WF_vars(ThreadStep(t))) /\ WF_vars(TaskWake) /\ WF_vars(MinutePasses)

FairSpec == Spec /\ Fairness

-----------------------------------------------------------------------------
Calculable == time = "trusted" /\ cfg # None
Current    == Calculable /\ cache # None /\ cache.day = day
\* Where the jamat of a day should come from: the mosque's file, if it has one for the day that does
\* not lie before the adhan, else the configuration in force.
Right ==
  IF file \in UserFiles /\ day % YearLength \in file.days /\ <<day, cfg>> \notin Refused
  THEN Origin(day, "mosque") ELSE Origin(day, cfg)

\* When nothing runs and the cache claims to be today's, its times come from where they should, and
\* a year file of the firmware's is that of this year and this configuration: over any sequence of
\* requests, midnights and resets at any step (svc_prayer_engine_service.c:319, svc_timetable.c:525)
\* and whatever the flash has not taken of a file, as long as nothing collides, nothing has failed
\* since, and parse_file() has not lacked memory.
QuietIsRight ==
  Quiet /\ Current /\ ~ failed /\ ~ starved
    => cache.jamat = Right /\ file \in Firmwares(Year(day), cfg) \cup UserFiles \cup {Junk}

\* The file that is parsed at boot is never one whose writer had not come to its end, wherever a reset
\* falls between the write, the removal and the rename (svc_timetable.c:544-628), or the upload
\* breaks off, as long as one task writes at a time. Whether the flash took all that was written
\* nobody checks: see WriteFile.
NoTornFile == file \notin {Torn, Mixed}

\* s_regenerating never stays set without a task that will clear it
\* (svc_prayer_engine_service.c:359-363, 171-184), though three tasks test and set it unlocked.
FlagBacked ==
  regenerating => (\E r \in Regens : pc[r] # "idle") \/ (\E t \in Threads : pc[t] = "create")

\* A timetable the mosque uploaded is replaced or removed only by the web client, never by a
\* recalculation, a new year, a reset or another upload (svc_timetable.c:387-388,
\* svc_http.c:766-770), as long as nothing collides. If parse_file() lacks memory when it reloads the
\* upload, though, the next test finds no file, and the regeneration replaces it.
UserFileKept ==
  [][~ starved /\ file \in UserFiles /\ file' # file
       => (Writing("http") /\ job["http"].kind = "regenerate") \/ job'["http"].kind = "delete"]_vars

\* Once the date and a trusted time stand still, the cache is that day's for good, whatever events
\* the bus lost, whatever was deferred at 00:00 and whoever recalculates in between
\* (svc_prayer_engine_service.c:640-753).
KeyCatchesUp ==
  \A d \in Days : <>[](day = d /\ Calculable) => <>[](cache # None /\ cache.day = d)

=============================================================================
