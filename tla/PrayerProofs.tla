---------------------------- MODULE PrayerProofs ----------------------------
(***************************************************************************)
(* s_regenerating, the types, and, as long as nothing collides, the files  *)
(* and the cache: any number of regeneration tasks, days, requests, resets *)
(* and faults.                                                             *)
(***************************************************************************)
EXTENDS PrayerService, TLAPS

\* Where the threads are, and a flag that is backed.
FlagInv == pc \in [Threads -> Places] /\ FlagBacked

\* The regeneration tasks are threads.
LEMMA RegensAreThreads == Regens \subseteq Threads
BY DEF Threads

\* The first recalculation is about to run, with the flag clear.
LEMMA FlagInit == Init => FlagInv
BY DEF Init, FlagInv, FlagBacked, Starting, Places, ReadPlaces, Threads

\* A thread that moves anywhere but away from the creation of a task, or from a regeneration
\* task to idle, leaves the flag backed.
LEMMA MoveKeeps ==
  ASSUME FlagInv, NEW t \in Threads, NEW place \in Places,
         pc' = [pc EXCEPT ![t] = place], pc[t] # "create" \/ place = "create",
         t \in Regens => place # "idle", UNCHANGED regenerating
  PROVE  FlagInv'
<1>1. pc \in [Threads -> Places]
  BY DEF FlagInv
<1>2. pc' \in [Threads -> Places] /\ pc'[t] = place
  BY <1>1
<1>3. \A u \in Threads : u # t => pc'[u] = pc[u]
  BY <1>1
<1>4. ASSUME regenerating'
      PROVE  (\E r \in Regens : pc'[r] # "idle") \/ (\E u \in Threads : pc'[u] = "create")
  <2>1. CASE \E r \in Regens : pc[r] # "idle"
    <3>1. PICK r \in Regens : pc[r] # "idle"
      BY <2>1
    <3>2. pc'[r] # "idle"
      BY <3>1, <1>2, <1>3, RegensAreThreads
    <3> QED BY <3>2
  <2>2. CASE \E u \in Threads : pc[u] = "create"
    <3>1. PICK u \in Threads : pc[u] = "create"
      BY <2>2
    <3>2. pc'[u] = "create"
      BY <3>1, <1>2, <1>3
    <3> QED BY <3>2
  <2> QED BY <1>4, <2>1, <2>2 DEF FlagInv, FlagBacked
<1> QED BY <1>2, <1>4 DEF FlagInv, FlagBacked

\* The end of a call or of a task: a regeneration task clears the flag, and any other thread was
\* not the one that backs it.
LEMMA FinishKeeps ==
  ASSUME FlagInv, NEW t \in Threads, Finish(t), pc[t] # "create"
  PROVE  FlagInv'
<1>1. pc' = [pc EXCEPT ![t] = "idle"] /\ pc \in [Threads -> Places]
  BY DEF Finish, Move, FlagInv
<1>2. pc' \in [Threads -> Places]
  BY <1>1 DEF Places
<1>3. CASE t \in Regens
  <2>1. ~ regenerating'
    BY <1>3 DEF Finish
  <2> QED BY <1>2, <2>1 DEF FlagInv, FlagBacked
<1>4. CASE t \notin Regens
  <2>1. \A u \in Threads : u # t => pc'[u] = pc[u]
    BY <1>1
  <2>2. ASSUME regenerating'
        PROVE  (\E r \in Regens : pc'[r] # "idle") \/ (\E u \in Threads : pc'[u] = "create")
    <3>1. regenerating
      BY <2>2 DEF Finish
    <3>2. CASE \E r \in Regens : pc[r] # "idle"
      BY <3>2, <1>4, <2>1, RegensAreThreads
    <3>3. CASE \E u \in Threads : pc[u] = "create"
      BY <3>3, <2>1
    <3> QED BY <3>1, <3>2, <3>3 DEF FlagInv, FlagBacked
  <2> QED BY <1>2, <2>2 DEF FlagInv, FlagBacked
<1> QED BY <1>3, <1>4

\* Nobody moves and the flag stays.
LEMMA StillKeeps == ASSUME FlagInv, UNCHANGED <<pc, regenerating>> PROVE FlagInv'
BY DEF FlagInv, FlagBacked

\* A step of a recalculation.
LEMMA RecalcKeeps ==
  ASSUME FlagInv, NEW t \in Threads,
         \/ RecalcRead(t) \/ RecalcTest(t) \/ RecalcClaim(t) \/ (\E r \in Regens : RecalcSpawn(t, r))
         \/ RecalcSpawnFails(t) \/ RecalcStore(t)
  PROVE  FlagInv'
<1>1. CASE RecalcRead(t)
  <2>1. CASE Finish(t)
    BY <1>1, <2>1, FinishKeeps DEF RecalcRead
  <2>2. CASE ~ Finish(t)
    <3>1. PICK p \in {"test", "parse"} :
            pc' = [pc EXCEPT ![t] = p] /\ UNCHANGED regenerating /\ pc[t] = "read"
      BY <1>1, <2>2 DEF RecalcRead, Move
    <3> QED BY <3>1, MoveKeeps DEF Places, ReadPlaces
  <2> QED BY <2>1, <2>2
<1>2. CASE RecalcTest(t)
  <2>1. PICK p \in {"claim", "store"} :
          pc' = [pc EXCEPT ![t] = p] /\ UNCHANGED regenerating /\ pc[t] = "test"
    BY <1>2 DEF RecalcTest, Move
  <2> QED BY <2>1, MoveKeeps DEF Places, ReadPlaces
<1>3. CASE RecalcClaim(t)
  <2>1. pc' = [pc EXCEPT ![t] = "create"] /\ pc \in [Threads -> Places]
    BY <1>3 DEF RecalcClaim, Move, FlagInv
  <2>2. pc' \in [Threads -> Places] /\ pc'[t] = "create"
    BY <2>1 DEF Places, ReadPlaces
  <2> QED BY <2>2 DEF FlagInv, FlagBacked
<1>4. CASE \E r \in Regens : RecalcSpawn(t, r)
  <2>1. PICK r \in Regens : RecalcSpawn(t, r)
    BY <1>4
  <2>2. pc' = [pc EXCEPT ![t] = "store", ![r] = "generate"] /\ pc \in [Threads -> Places]
    BY <2>1 DEF RecalcSpawn, FlagInv
  <2>3. pc' \in [Threads -> Places] /\ pc'[r] = "generate"
    BY <2>2, RegensAreThreads DEF Places, ReadPlaces, WritePlaces
  <2>4. \E q \in Regens : pc'[q] # "idle"
    BY <2>3
  <2> QED BY <2>3, <2>4 DEF FlagInv, FlagBacked
<1>5. CASE RecalcSpawnFails(t)
  <2>1. pc' = [pc EXCEPT ![t] = "store"] /\ pc \in [Threads -> Places] /\ ~ regenerating'
    BY <1>5 DEF RecalcSpawnFails, Move, FlagInv
  <2>2. pc' \in [Threads -> Places]
    BY <2>1 DEF Places, ReadPlaces
  <2> QED BY <2>1, <2>2 DEF FlagInv, FlagBacked
<1>6. CASE RecalcStore(t)
  BY <1>6, FinishKeeps DEF RecalcStore
<1> QED BY <1>1, <1>2, <1>3, <1>4, <1>5, <1>6

\* Where a parse returns to.
LEMMA ParsedKeeps ==
  ASSUME FlagInv, NEW t \in Threads, NEW ok, Parsed(t, ok), pc[t] # "create"
  PROVE  FlagInv'
<1>1. CASE Finish(t)
  BY <1>1, FinishKeeps
<1>2. CASE ~ Finish(t)
  <2>1. PICK p \in {"test", "read"} : pc' = [pc EXCEPT ![t] = p] /\ UNCHANGED regenerating
    BY <1>2 DEF Parsed, Move
  <2> QED BY <2>1, MoveKeeps DEF Places, ReadPlaces
<1> QED BY <1>1, <1>2

\* A step of the parsing of a year file.
LEMMA ParseKeeps ==
  ASSUME FlagInv, NEW t \in Threads, ParseHeader(t) \/ ParseStarves(t) \/ ParseDays(t)
  PROVE  FlagInv'
<1>1. pc[t] \in {"parse", "days"}
  BY DEF ParseHeader, ParseStarves, ParseDays
<1>2. CASE \E ok \in BOOLEAN : Parsed(t, ok)
  BY <1>1, <1>2, ParsedKeeps
<1>3. CASE \A ok \in BOOLEAN : ~ Parsed(t, ok)
  <2>1. pc' = [pc EXCEPT ![t] = "days"] /\ UNCHANGED regenerating
    BY <1>3 DEF ParseHeader, ParseStarves, ParseDays, Move
  <2> QED BY <1>1, <2>1, MoveKeeps DEF Places, ReadPlaces
<1> QED BY <1>2, <1>3

\* A step of the writing of a year file.
LEMMA WriteKeeps ==
  ASSUME FlagInv, NEW t \in Threads,
         \/ GenerateOpen(t) \/ GenerateFails(t) \/ WriteFile(t)
         \/ Rename(t) \/ RemoveOld(t) \/ RenameAgain(t)
  PROVE  FlagInv'
<1>1. pc[t] \in WritePlaces
  BY DEF GenerateOpen, GenerateFails, WriteFile, Rename, RemoveOld, RenameAgain, WritePlaces
<1>2. CASE Finish(t)
  BY <1>1, <1>2, FinishKeeps DEF WritePlaces
<1>3. CASE ~ Finish(t)
  <2>1. PICK p \in {"write", "rename", "remove", "again", "parse"} :
          pc' = [pc EXCEPT ![t] = p] /\ UNCHANGED regenerating
    BY <1>3
    DEF GenerateOpen, GenerateFails, WriteFile, Rename, RemoveOld, RenameAgain, Renamed, Move
  <2> QED BY <1>1, <2>1, MoveKeeps DEF Places, ReadPlaces, WritePlaces
<1> QED BY <1>2, <1>3

\* A request of the web client begins when its task is idle.
LEMMA RequestKeeps == FlagInv /\ HttpRequest => FlagInv'
<1> SUFFICES ASSUME FlagInv, HttpRequest PROVE FlagInv'
  OBVIOUS
<1> DEFINE Begun == \E p \in {"read", "generate", "write"} :
                      pc' = [pc EXCEPT !["http"] = p] /\ UNCHANGED regenerating /\ pc["http"] = "idle"
<1>1. "http" \in Threads
  BY DEF Threads
<1>2. CASE Begun
  BY <1>1, <1>2, MoveKeeps DEF Places, ReadPlaces, WritePlaces
<1>3. CASE \E c \in Configs : HttpConfig(c)
  <2>1. CASE UNCHANGED <<pc, regenerating>>
    BY <2>1, StillKeeps
  <2>2. CASE ~ UNCHANGED <<pc, regenerating>>
    BY <1>2, <1>3, <2>2 DEF HttpConfig, Asked, Request, Move
  <2> QED BY <2>1, <2>2
<1>4. CASE HttpRegenerate
  BY <1>2, <1>4 DEF HttpRegenerate, Asked, Request, Move
<1>5. CASE HttpDelete
  BY <1>2, <1>5 DEF HttpDelete, Asked, Request, Move
<1>6. CASE \E f \in Sent : HttpUpload(f)
  BY <1>2, <1>6 DEF HttpUpload, Request, Move
<1>7. CASE HttpUploadAborts
  BY <1>1, <1>7, FinishKeeps DEF HttpUploadAborts
<1> QED BY <1>3, <1>4, <1>5, <1>6, <1>7 DEF HttpRequest

\* The turn of the service's own task, and what happens around it.
LEMMA OthersKeep == FlagInv /\ (TaskWake \/ Environment) => FlagInv'
<1> SUFFICES ASSUME FlagInv, TaskWake \/ Environment PROVE FlagInv'
  OBVIOUS
<1>1. CASE TaskWake
  <2>1. PICK p \in {"read", "idle"} :
          pc' = [pc EXCEPT !["task"] = p] /\ UNCHANGED <<regenerating, job>> /\ pc["task"] = "idle"
    BY <1>1 DEF TaskWake
  <2>2. Threads = {"task", "http"} \cup Regens /\ "task" \notin Regens
    BY ConstantsOK DEF Threads
  <2>3. pc' \in [Threads -> Places] /\ \A u \in Threads : u # "task" => pc'[u] = pc[u]
    BY <2>1, <2>2 DEF FlagInv, Places, ReadPlaces
  <2>4. ASSUME regenerating'
        PROVE  (\E r \in Regens : pc'[r] # "idle") \/ (\E u \in Threads : pc'[u] = "create")
    <3>1. regenerating
      BY <2>1, <2>4
    <3>2. CASE \E r \in Regens : pc[r] # "idle"
      BY <3>2, <2>2, <2>3
    <3>3. CASE \E u \in Threads : pc[u] = "create"
      BY <3>3, <2>1, <2>3
    <3> QED BY <3>1, <3>2, <3>3 DEF FlagInv, FlagBacked
  <2> QED BY <2>3, <2>4 DEF FlagInv, FlagBacked
<1>2. CASE (\E d \in Days : TimeUpdate(d)) \/ Midnight \/ MinutePasses
  <2>1. UNCHANGED <<pc, regenerating>>
    BY <1>2 DEF TimeUpdate, Midnight, MinutePasses
  <2> QED BY <2>1, StillKeeps
<1>3. CASE Reset
  <2>1. ~ regenerating' /\ pc' = Starting
    BY <1>3 DEF Reset
  <2>2. pc' \in [Threads -> Places]
    BY <2>1 DEF Starting, Threads, Places, ReadPlaces
  <2> QED BY <2>1, <2>2 DEF FlagInv, FlagBacked
<1> QED BY <1>1, <1>2, <1>3 DEF Environment

\* Every step keeps a set s_regenerating backed by the thread that claimed it.
LEMMA FlagStep == FlagInv /\ [Next]_vars => FlagInv'
<1> SUFFICES ASSUME FlagInv, [Next]_vars PROVE FlagInv'
  OBVIOUS
<1>1. ASSUME NEW t \in Threads, ThreadStep(t) PROVE FlagInv'
  BY <1>1, RecalcKeeps, ParseKeeps, WriteKeeps DEF ThreadStep
<1>2. CASE HttpRequest
  BY <1>2, RequestKeeps
<1>3. CASE TaskWake \/ Environment
  BY <1>3, OthersKeep
<1>4. CASE UNCHANGED vars
  BY <1>4, StillKeeps DEF vars
<1> QED BY <1>1, <1>2, <1>3, <1>4 DEF Next

\* s_regenerating is set only while a regeneration task runs or its creation is under way
\* (svc_prayer_engine_service.c:171-184, 357-364), however many tasks test and set it: no step
\* leaves it set for good, which would end the regenerations until the next reset.
THEOREM FlagNeverStuck == Spec => []FlagBacked
<1>1. FlagInv => FlagBacked
  BY DEF FlagInv
<1> QED BY <1>1, FlagInit, FlagStep, PTL DEF Spec

-----------------------------------------------------------------------------
(* Types *)

Tables == [meta : Headers \cup {Blank, None}, today : Origins \cup {None}, ymd : Days \cup {None}]
Whole  == Headers \cup {Junk}
Jobs   == [kind : {None, "config", "regenerate", "delete", "upload"}, cfg : Configs \cup {None},
           day : Days \cup {None}, file : Whole \cup {None}, date : Days \cup {None},
           reload : BOOLEAN]

Recalculates(place, j) ==
  place \in {"test", "claim", "create", "store"} \/ (place \in {"parse", "days"} /\ ~ j.reload)

\* What the local variables hold at each place.
Fits(place, j) ==
  /\ place = "idle" => j = NoJob
  /\ Recalculates(place, j) => j.cfg \in Configs /\ j.day \in Days
  /\ place = "days" => j.file \in Headers /\ j.date \in Days
  /\ place = "write" => j.file \in Whole

ThreadTypes ==
  /\ pc \in [Threads -> Places] /\ job \in [Threads -> Jobs]
  /\ \A t \in Threads : Fits(pc[t], job[t])

ClockTypes == cfg \in Configs \cup {None} /\ day \in Days /\ time \in {"invalid", "untrusted", "trusted"}
DiskTypes  == file \in Contents /\ tmp \in Contents
FlagTypes  ==
  /\ early \in BOOLEAN /\ news \in BOOLEAN /\ pending \in BOOLEAN
  /\ regenerating \in BOOLEAN /\ failed \in BOOLEAN /\ starved \in BOOLEAN

TypeInv ==
  ThreadTypes /\ ClockTypes /\ DiskTypes /\ FlagTypes /\ cache \in Entry \cup {None} /\ tt \in Tables

\* The strengthened types imply the stated ones.
LEMMA TypesImplyTypeOK == TypeInv => TypeOK
BY DEF TypeInv, ThreadTypes, ClockTypes, DiskTypes, FlagTypes, Tables, TypeOK

\* Quotient and remainder.
LEMMA Division ==
  ASSUME NEW d \in Nat, NEW k \in Nat \ {0}
  PROVE  d \div k \in Nat /\ d % k \in 0 .. k - 1 /\ d = (d \div k) * k + (d % k)
OBVIOUS

\* A day of the calendar lies in a year of the calendar.
LEMMA YearInRange == ASSUME NEW d \in Days PROVE Year(d) \in 0 .. Year(LastDay)
<1>1. d \in Nat /\ LastDay \in Nat /\ d <= LastDay /\ YearLength \in Nat \ {0}
  BY ConstantsOK DEF Days
<1> DEFINE a == Year(d)
           b == Year(LastDay)
<1>2. a \in Nat /\ b \in Nat
  BY <1>1, Division DEF Year
<1>3. /\ d % YearLength \in 0 .. YearLength - 1 /\ LastDay % YearLength \in 0 .. YearLength - 1
      /\ d = a * YearLength + (d % YearLength)
      /\ LastDay = b * YearLength + (LastDay % YearLength)
  BY <1>1, Division DEF Year
<1> HIDE DEF a, b
<1>4. a * YearLength <= b * YearLength + YearLength - 1
  BY <1>1, <1>2, <1>3
<1>5. ASSUME a >= b + 1 PROVE FALSE
  <2>1. a * YearLength >= (b + 1) * YearLength
    BY <1>1, <1>2, <1>5
  <2>2. (b + 1) * YearLength = b * YearLength + YearLength
    BY <1>1, <1>2
  <2> QED BY <1>1, <1>2, <1>4, <2>1, <2>2
<1>6. a \in 0 .. b
  BY <1>2, <1>5
<1> QED BY <1>6 DEF a, b

\* A file a regeneration writes has a header.
LEMMA FirmwareIsHeader ==
  ASSUME NEW d \in Days, NEW c \in Configs
  PROVE  Firmwares(Year(d), c) \subseteq Headers /\ Firmware(Year(d), c) \in Firmwares(Year(d), c)
<1>1. Firmwares(Year(d), c) \subseteq Headers
  BY YearInRange DEF Headers, Firmwares
<1>2. Firmware(Year(d), c) \in Firmwares(Year(d), c)
  BY DEF Firmware, Firmwares
<1> QED BY <1>1, <1>2

\* The files without a header, and the mosque's, are different from each other and from the firmware's.
LEMMA OtherFiles ==
  /\ Blank.source = "none" /\ Junk.source = "junk" /\ Torn.source = "torn"
  /\ Mixed.source = "mixed" /\ Empty.source = "empty"
  /\ \A f \in UserFiles : f.source = "user" /\ f.by = "mosque"
  /\ \A y, c : \A f \in Firmwares(y, c) : f.source = "firmware" /\ f.year = y /\ f.by = c
  /\ Junk # Blank /\ Empty # Blank /\ Junk # Empty /\ Torn # Empty /\ Mixed # Empty
  /\ Torn # Junk /\ Mixed # Junk /\ Torn # Mixed
BY DEF UserFiles, Firmwares, Junk, Torn, Mixed, Blank, Empty, Nameless

\* A file with a header is the firmware's or the mosque's.
LEMMA HeaderCases ==
  ASSUME NEW f \in Headers
  PROVE  f \in UserFiles \/ \E y \in 0 .. Year(LastDay), c \in Configs : f \in Firmwares(y, c)
BY DEF Headers, Firmwares

\* What a header may be, and that it is none of the other files.
LEMMA HeaderIs ==
  ASSUME NEW f \in Headers
  PROVE  /\ f \notin {Junk, Torn, Mixed, Blank, Empty}
         /\ \/ f \in UserFiles
            \/ f.source = "firmware" /\ f.year \in Nat /\ f.by \in Configs /\ f \in Firmwares(f.year, f.by)
<1>1. Year(LastDay) \in Nat
  BY ConstantsOK, Division DEF Year
<1>2. CASE f \in UserFiles
  BY <1>2, OtherFiles
<1>3. CASE f \notin UserFiles
  <2>1. PICK y \in 0 .. Year(LastDay), c \in Configs : f \in Firmwares(y, c)
    BY <1>3, HeaderCases
  <2>2. y \in Nat
    BY <1>1, <2>1
  <2> QED BY <2>1, <2>2, OtherFiles
<1> QED BY <1>2, <1>3

\* What the flash took of a file belongs to the same year and the same author, or has no header.
LEMMA CutIs ==
  /\ \A f \in UserFiles : Cut(f) \subseteq UserFiles \cup {Junk, Empty}
  /\ \A y, c : \A f \in Firmwares(y, c) : Cut(f) \subseteq Firmwares(y, c) \cup {Junk, Empty}
  /\ Cut(Junk) = {Junk, Empty}
<1>1. \A n : \A f \in UserFiles : [f EXCEPT !.days = {d \in @ : d < n}] \in UserFiles
  BY DEF UserFiles
<1>2. \A n, y, c : \A f \in Firmwares(y, c) : [f EXCEPT !.days = {d \in @ : d < n}] \in Firmwares(y, c)
  BY DEF Firmwares
<1>3. \A f \in UserFiles : f # Junk
  BY OtherFiles
<1>4. \A y, c : \A f \in Firmwares(y, c) : f # Junk
  BY OtherFiles
<1>5. ASSUME NEW f \in UserFiles PROVE Cut(f) \subseteq UserFiles \cup {Junk, Empty}
  BY <1>1, <1>3 DEF Cut
<1>6. ASSUME NEW y, NEW c, NEW f \in Firmwares(y, c) PROVE Cut(f) \subseteq Firmwares(y, c) \cup {Junk, Empty}
  BY <1>2, <1>4 DEF Cut
<1>7. Cut(Junk) = {Junk, Empty}
  BY DEF Cut
<1> QED BY <1>5, <1>6, <1>7

\* The entry of a date comes from some file or from none.
LEMMA EntryIsOrigin ==
  ASSUME NEW f \in Headers, NEW d \in Days
  PROVE  EntryFor(f, d) \in Origins \cup {None}
<1>1. d \in Nat /\ YearLength \in Nat \ {0}
  BY ConstantsOK DEF Days
<1>2. CASE f \in UserFiles
  BY <1>1, <1>2, OtherFiles DEF EntryFor, Origin, Origins
<1>3. CASE f.source = "firmware" /\ f.year \in Nat /\ f.by \in Configs
  <2>1. d % YearLength \in Nat /\ f.year * YearLength \in Nat
    BY <1>1, <1>3, Division
  <2>2. f.year * YearLength + (d % YearLength) \in Nat
    BY <2>1
  <2> QED BY <1>3, <2>2 DEF EntryFor, Origin, Origins
<1> QED BY <1>2, <1>3, HeaderIs

\* What is loaded from a file is a table, also if the memory does not suffice for an entry.
LEMMA LoadedIsTable ==
  ASSUME NEW f \in Contents, NEW now, day \in Days
  PROVE  Loaded(f, now) \in Tables /\ [Loaded(f, now) EXCEPT !.today = None] \in Tables
<1>1. NoTable \in Tables /\ [NoTable EXCEPT !.meta = Blank] \in Tables
  BY DEF NoTable, Tables
<1>2. Loaded(f, now) \in Tables
  <2>1. CASE f \in {None, Empty} \/ f \in Unreadable
    BY <1>1, <2>1 DEF Loaded
  <2>2. CASE f \notin {None, Empty} /\ f \notin Unreadable
    <3>1. f \in Headers
      BY <2>2 DEF Contents
    <3>2. EntryFor(f, day) \in Origins \cup {None}
      BY <3>1, EntryIsOrigin
    <3>3. /\ [NoTable EXCEPT !.meta = f] \in Tables
          /\ [meta |-> f, today |-> EntryFor(f, day), ymd |-> day] \in Tables
      BY <3>1, <3>2 DEF NoTable, Tables
    <3> QED BY <2>2, <3>3 DEF Loaded
  <2> QED BY <2>1, <2>2
<1> QED BY <1>2 DEF Tables

\* An idle thread needs nothing in its local variables.
LEMMA IdleFits == NoJob \in Jobs /\ Fits("idle", NoJob)
BY DEF NoJob, Jobs, Fits, Recalculates

\* Where a thread goes, and that the others stay where they are.
LEMMA MoveTypes ==
  ASSUME ThreadTypes, NEW t \in Threads, NEW place \in Places, NEW j \in Jobs,
         Fits(place, j), Move(t, place, j)
  PROVE  ThreadTypes'
<1>1. pc' = [pc EXCEPT ![t] = place] /\ job' = [job EXCEPT ![t] = j]
  BY DEF Move
<1>2. pc' \in [Threads -> Places] /\ job' \in [Threads -> Jobs]
  BY <1>1 DEF ThreadTypes
<1>3. ASSUME NEW u \in Threads PROVE Fits(pc'[u], job'[u])
  <2>1. CASE u = t
    BY <1>1, <2>1 DEF ThreadTypes
  <2>2. CASE u # t
    <3>1. pc'[u] = pc[u] /\ job'[u] = job[u]
      BY <1>1, <2>2 DEF ThreadTypes
    <3> QED BY <3>1 DEF ThreadTypes
  <2> QED BY <2>1, <2>2
<1> QED BY <1>2, <1>3 DEF ThreadTypes

\* A thread that returns leaves its variables in their types.
LEMMA FinishTypes ==
  ASSUME ThreadTypes, FlagTypes, NEW t \in Threads, Finish(t)
  PROVE  ThreadTypes' /\ regenerating' \in BOOLEAN
<1>1. "idle" \in Places
  BY DEF Places
<1>2. ThreadTypes'
  BY <1>1, IdleFits, MoveTypes DEF Finish
<1> QED BY <1>2 DEF Finish, FlagTypes

\* The types hold at the start.
LEMMA InitTypes == Init => TypeInv
<1> SUFFICES ASSUME Init PROVE TypeInv
  OBVIOUS
<1>1. 0 \in Days /\ NoJob \in Jobs
  BY ConstantsOK, IdleFits DEF Days
<1>2. ThreadTypes
  BY <1>1, IdleFits
  DEF Init, ThreadTypes, Starting, NoJobs, Places, ReadPlaces, Fits, Recalculates
<1>3. tt \in Tables
  BY DEF Init, Loaded, NoTable, Tables
<1> QED BY <1>1, <1>2, <1>3
      DEF Init, TypeInv, ClockTypes, DiskTypes, FlagTypes, Contents

\* The places named are places of the program.
LEMMA PlaceNames ==
  /\ {"idle", "read", "parse", "days", "test", "claim", "create", "store"} \subseteq Places
  /\ {"generate", "write", "rename", "remove", "again"} \subseteq Places
BY DEF Places, ReadPlaces, WritePlaces

\* The steps of a recalculation keep the types.
LEMMA RecalcTypes ==
  ASSUME TypeInv, NEW t \in Threads,
         \/ RecalcRead(t) \/ RecalcTest(t) \/ RecalcClaim(t) \/ (\E r \in Regens : RecalcSpawn(t, r))
         \/ RecalcSpawnFails(t) \/ RecalcStore(t)
  PROVE  TypeInv'
<1> USE DEF TypeInv, clockVars, taskVars, diskVars
<1>1. job[t] \in Jobs /\ Fits(pc[t], job[t])
  BY DEF ThreadTypes
<1>2. CASE RecalcRead(t)
  <2>1. CASE cfg = None \/ time # "trusted"
    BY <1>2, <2>1, FinishTypes DEF RecalcRead, ClockTypes, DiskTypes, FlagTypes
  <2>2. CASE ~ (cfg = None \/ time # "trusted")
    <3> DEFINE j == [job[t] EXCEPT !.cfg = cfg, !.day = day, !.reload = FALSE]
    <3>1. PICK p \in {"test", "parse"} : Move(t, p, j)
      BY <1>2, <2>2 DEF RecalcRead
    <3>2. j \in Jobs /\ Fits(p, j)
      BY <1>1, <2>2 DEF Jobs, Fits, Recalculates, ClockTypes
    <3>3. ThreadTypes'
      BY <3>1, <3>2, MoveTypes, PlaceNames
    <3> QED BY <1>2, <2>2, <3>3 DEF RecalcRead, ClockTypes, DiskTypes, FlagTypes
  <2> QED BY <2>1, <2>2
<1>3. CASE RecalcTest(t) \/ RecalcClaim(t) \/ RecalcSpawnFails(t)
  <2>1. PICK p \in {"claim", "store", "create"} :
          Move(t, p, job[t]) /\ pc[t] \in {"test", "claim", "create"}
    BY <1>3 DEF RecalcTest, RecalcClaim, RecalcSpawnFails
  <2>2. Fits(p, job[t])
    BY <1>1, <2>1 DEF Fits, Recalculates
  <2>3. ThreadTypes'
    BY <1>1, <2>1, <2>2, MoveTypes, PlaceNames
  <2> QED BY <1>3, <2>3
        DEF RecalcTest, RecalcClaim, RecalcSpawnFails, ClockTypes, DiskTypes, FlagTypes
<1>4. CASE \E r \in Regens : RecalcSpawn(t, r)
  <2>1. PICK r \in Regens : RecalcSpawn(t, r)
    BY <1>4
  <2>2. pc' = [pc EXCEPT ![t] = "store", ![r] = "generate"] /\ job' = job /\ pc[t] = "create"
    BY <2>1 DEF RecalcSpawn
  <2>3. pc' \in [Threads -> Places]
    BY <2>2, RegensAreThreads, PlaceNames DEF ThreadTypes
  <2>4. ASSUME NEW u \in Threads PROVE Fits(pc'[u], job[u])
    <3>1. Fits(pc[u], job[u]) /\ pc \in [Threads -> Places]
      BY DEF ThreadTypes
    <3>2. pc'[u] = IF u = r THEN "generate" ELSE IF u = t THEN "store" ELSE pc[u]
      BY <2>2, <3>1, RegensAreThreads
    <3> QED BY <1>1, <2>2, <3>1, <3>2 DEF Fits, Recalculates
  <2>5. ThreadTypes'
    BY <2>2, <2>3, <2>4 DEF ThreadTypes
  <2> QED BY <2>1, <2>5 DEF RecalcSpawn, ClockTypes, DiskTypes, FlagTypes
<1>5. CASE RecalcStore(t)
  <2>1. ThreadTypes' /\ regenerating' \in BOOLEAN
    BY <1>5, FinishTypes DEF RecalcStore
  <2>2. job[t].cfg \in Configs /\ job[t].day \in Days
    BY <1>1, <1>5 DEF RecalcStore, Fits, Recalculates
  <2>3. PICK j \in Jamats(t) : cache' = [day |-> job[t].day, offset |-> Offset[job[t].day], jamat |-> j]
    BY <1>5 DEF RecalcStore
  <2>4. Origin(job[t].day, job[t].cfg) \in Origins
    BY <2>2, ConstantsOK DEF Origin, Origins, Days
  <2>5. j \in Origins
    BY <2>3, <2>4 DEF Jamats, Tables
  <2>6. cache' \in Entry
    BY <2>2, <2>3, <2>5 DEF Entry
  <2> QED BY <1>5, <2>1, <2>6 DEF RecalcStore, ClockTypes, DiskTypes, FlagTypes
<1> QED BY <1>2, <1>3, <1>4, <1>5

\* The end of parsing leaves the thread in its types.
LEMMA ParsedTypes ==
  ASSUME ThreadTypes, FlagTypes, NEW t \in Threads, NEW ok \in BOOLEAN, Parsed(t, ok),
         pc[t] \in {"parse", "days"}
  PROVE  ThreadTypes' /\ regenerating' \in BOOLEAN /\ failed' \in BOOLEAN
<1> DEFINE j == [job[t] EXCEPT !.file = None, !.date = None]
<1>1. job[t] \in Jobs /\ Fits(pc[t], job[t])
  BY DEF ThreadTypes
<1>2. CASE Finish(t) /\ failed' = TRUE
  BY <1>2, FinishTypes
<1>3. CASE ~ (Finish(t) /\ failed' = TRUE)
  <2>1. PICK p \in {"test", "read"} :
          Move(t, p, j) /\ UNCHANGED <<regenerating, failed>> /\ (p = "test" => ~ job[t].reload)
    BY <1>3 DEF Parsed
  <2>2. j \in Jobs /\ Fits(p, j)
    BY <1>1, <2>1 DEF Jobs, Fits, Recalculates
  <2>3. ThreadTypes'
    BY <2>1, <2>2, MoveTypes, PlaceNames
  <2> QED BY <2>1, <2>3 DEF FlagTypes
<1> QED BY <1>2, <1>3

\* The steps of parsing a file keep the types.
LEMMA ParseTypes ==
  ASSUME TypeInv, NEW t \in Threads, ParseHeader(t) \/ ParseStarves(t) \/ ParseDays(t)
  PROVE  TypeInv'
<1> USE DEF TypeInv, clockVars, taskVars, diskVars
<1>1. job[t] \in Jobs /\ Fits(pc[t], job[t])
  BY DEF ThreadTypes
<1>2. NoTable \in Tables /\ [NoTable EXCEPT !.meta = Blank] \in Tables
      /\ [NoTable EXCEPT !.ymd = tt.ymd] \in Tables
  BY DEF NoTable, Tables
<1>3. CASE ParseHeader(t)
  <2>1. CASE file \in {None, Empty} \/ file \in Unreadable
    <3>1. tt' \in Tables /\ Parsed(t, FALSE)
      BY <1>2, <1>3, <2>1 DEF ParseHeader, Unread
    <3> QED BY <1>3, <3>1, ParsedTypes DEF ParseHeader, ClockTypes, DiskTypes, FlagTypes
  <2>2. CASE file \notin {None, Empty} /\ file \notin Unreadable
    <3>1. file \in Headers
      BY <2>2 DEF DiskTypes, Contents
    <3>2. [NoTable EXCEPT !.meta = file] \in Tables /\ [meta |-> file, today |-> None, ymd |-> day] \in Tables
      BY <3>1 DEF NoTable, Tables, ClockTypes
    <3>3. CASE time = "invalid"
      <4>1. tt' \in Tables /\ Parsed(t, TRUE)
        BY <1>3, <2>2, <3>2, <3>3 DEF ParseHeader
      <4> QED BY <1>3, <4>1, ParsedTypes DEF ParseHeader, ClockTypes, DiskTypes, FlagTypes
    <3>4. CASE time # "invalid"
      <4> DEFINE j == [job[t] EXCEPT !.file = file, !.date = day]
      <4>1. /\ tt' \in Tables /\ Move(t, "days", j) /\ pc[t] = "parse"
            /\ UNCHANGED <<regenerating, failed>>
        BY <1>3, <2>2, <3>2, <3>4 DEF ParseHeader
      <4>2. j \in Jobs /\ Fits("days", j)
        BY <1>1, <3>1, <4>1 DEF Jobs, Fits, Recalculates, ClockTypes, Whole
      <4>3. ThreadTypes'
        BY <4>1, <4>2, MoveTypes, PlaceNames
      <4> QED BY <1>3, <4>1, <4>3 DEF ParseHeader, ClockTypes, DiskTypes, FlagTypes
    <3> QED BY <3>3, <3>4
  <2> QED BY <2>1, <2>2
<1>4. CASE ParseDays(t)
  <2>1. EntryFor(job[t].file, job[t].date) \in Origins \cup {None}
    BY <1>1, <1>4, EntryIsOrigin DEF ParseDays, Fits
  <2>2. tt' \in Tables
    BY <1>4, <2>1 DEF ParseDays, Tables
  <2> QED BY <1>4, <2>2, ParsedTypes DEF ParseDays, ClockTypes, DiskTypes, FlagTypes
<1>5. CASE ParseStarves(t)
  <2>1. tt' \in Tables
    BY <1>2, <1>5 DEF ParseStarves, Unread
  <2> QED BY <1>5, <2>1, ParsedTypes DEF ParseStarves, ClockTypes, DiskTypes, FlagTypes
<1> QED BY <1>3, <1>4, <1>5

\* What comes of a file that is written has a header, or the beginning of one, or is empty.
LEMMA WrittenIs ==
  ASSUME NEW t \in Threads, job[t].file \in Whole
  PROVE  Written(t) \subseteq Headers \cup {Junk, Empty}
<1>1. CASE job[t].file \in UserFiles
  BY <1>1, CutIs DEF Written, Headers
<1>2. CASE \E y \in 0 .. Year(LastDay), c \in Configs : job[t].file \in Firmwares(y, c)
  <2>1. PICK y \in 0 .. Year(LastDay), c \in Configs : job[t].file \in Firmwares(y, c)
    BY <1>2
  <2>2. Firmwares(y, c) \subseteq Headers
    BY DEF Headers, Firmwares
  <2> QED BY <2>1, <2>2, CutIs DEF Written
<1>3. CASE job[t].file = Junk
  BY <1>3, CutIs DEF Written
<1> QED BY <1>1, <1>2, <1>3, HeaderCases DEF Whole

\* The steps of writing a file keep the types.
LEMMA WriteTypes ==
  ASSUME TypeInv, NEW t \in Threads,
         \/ GenerateOpen(t) \/ GenerateFails(t) \/ WriteFile(t)
         \/ Rename(t) \/ RemoveOld(t) \/ RenameAgain(t)
  PROVE  TypeInv'
<1> USE DEF TypeInv, clockVars, taskVars, diskVars
<1>1. job[t] \in Jobs /\ Fits(pc[t], job[t])
  BY DEF ThreadTypes
<1>2. None \in Contents /\ Torn \in Contents /\ Mixed \in Contents
  BY DEF Contents, Unreadable
<1>3. CASE GenerateOpen(t)
  <2> DEFINE j == [job[t] EXCEPT !.file = Firmware(Year(day), cfg)]
  <2>1. Move(t, "write", j) /\ cfg \in Configs /\ day \in Days /\ pc[t] = "generate"
    BY <1>3 DEF GenerateOpen, ClockTypes
  <2>2. j \in Jobs /\ Fits("write", j)
    BY <1>1, <2>1, FirmwareIsHeader DEF Jobs, Fits, Recalculates, Whole
  <2>3. ThreadTypes'
    BY <2>1, <2>2, MoveTypes, PlaceNames
  <2> QED BY <1>2, <1>3, <2>3 DEF GenerateOpen, Truncated, ClockTypes, DiskTypes, FlagTypes
<1>4. CASE GenerateFails(t)
  BY <1>4, FinishTypes DEF GenerateFails, ClockTypes, DiskTypes, FlagTypes
<1>5. CASE WriteFile(t)
  <2> DEFINE j == [job[t] EXCEPT !.file = None]
  <2>1. Move(t, "rename", j) /\ job[t].file \in Whole
    BY <1>1, <1>5 DEF WriteFile, Fits
  <2>2. j \in Jobs /\ Fits("rename", j)
    BY <1>1 DEF Jobs, Fits, Recalculates
  <2>3. ThreadTypes'
    BY <2>1, <2>2, MoveTypes, PlaceNames
  <2>4. Written(t) \subseteq Contents
    BY <2>1, WrittenIs DEF Contents, Unreadable
  <2>5. tmp' \in Contents
    BY <1>2, <1>5, <2>4 DEF WriteFile
  <2> QED BY <1>5, <2>3, <2>5 DEF WriteFile, ClockTypes, DiskTypes, FlagTypes
<1>6. ASSUME Renamed(t), pc[t] \in {"rename", "again"}
      PROVE  ThreadTypes' /\ DiskTypes' /\ UNCHANGED <<regenerating, failed>>
  <2> DEFINE j == [job[t] EXCEPT !.reload = TRUE]
  <2>1. j \in Jobs /\ Fits("parse", j)
    BY <1>1 DEF Jobs, Fits, Recalculates
  <2>2. ThreadTypes'
    BY <1>6, <2>1, MoveTypes, PlaceNames DEF Renamed
  <2> QED BY <1>2, <1>6, <2>2 DEF Renamed, DiskTypes
<1>7. CASE Rename(t)
  <2>1. pc[t] = "rename" /\ UNCHANGED <<cfg, clockVars, taskVars, cache, tt, starved>>
    BY <1>7 DEF Rename
  <2>2. CASE Renamed(t)
    BY <1>6, <2>1, <2>2 DEF ClockTypes, FlagTypes, clockVars, taskVars
  <2>3. CASE tmp' = None /\ Finish(t) /\ UNCHANGED <<file, failed>>
    BY <1>2, <2>1, <2>3, FinishTypes DEF ClockTypes, DiskTypes, FlagTypes, clockVars, taskVars
  <2>4. CASE Move(t, "remove", job[t]) /\ UNCHANGED <<diskVars, regenerating, failed>>
    <3>1. Fits("remove", job[t])
      BY DEF Fits, Recalculates
    <3>2. ThreadTypes'
      BY <1>1, <2>4, <3>1, MoveTypes, PlaceNames
    <3> QED BY <2>1, <2>4, <3>2 DEF ClockTypes, DiskTypes, FlagTypes, clockVars, taskVars, diskVars
  <2> QED BY <1>7, <2>2, <2>3, <2>4 DEF Rename
<1>8. CASE RemoveOld(t)
  <2>1. Fits("again", job[t])
    BY DEF Fits, Recalculates
  <2>2. ThreadTypes'
    BY <1>1, <1>8, <2>1, MoveTypes, PlaceNames DEF RemoveOld
  <2> QED BY <1>2, <1>8, <2>2 DEF RemoveOld, ClockTypes, DiskTypes, FlagTypes
<1>9. CASE RenameAgain(t)
  <2>1. pc[t] = "again" /\ UNCHANGED <<cfg, clockVars, taskVars, cache, tt, starved>>
    BY <1>9 DEF RenameAgain
  <2>2. CASE Renamed(t)
    BY <1>6, <2>1, <2>2 DEF ClockTypes, FlagTypes, clockVars, taskVars
  <2>3. CASE tmp' = None /\ Finish(t) /\ failed' = TRUE /\ UNCHANGED file
    BY <1>2, <2>1, <2>3, FinishTypes DEF ClockTypes, DiskTypes, FlagTypes, clockVars, taskVars
  <2> QED BY <1>9, <2>2, <2>3 DEF RenameAgain
<1> QED BY <1>3, <1>4, <1>5, <1>7, <1>8, <1>9

\* The HTTP requests keep the types.
LEMMA RequestTypes == TypeInv /\ HttpRequest => TypeInv'
<1> SUFFICES ASSUME TypeInv, HttpRequest PROVE TypeInv'
  OBVIOUS
<1> USE DEF TypeInv, clockVars, taskVars, diskVars
<1>0. Sent \subseteq Whole
  BY DEF Sent, Whole, Headers
<1>1. "http" \in Threads /\ Sent \subseteq Whole /\ None \in Contents /\ NoTable \in Tables
  BY <1>0 DEF Threads, Contents, NoTable, Tables
<1>2. ASSUME NEW q \in {"config", "regenerate", "delete"}, NEW p \in {"read", "generate"}, Asked(q, p)
      PROVE  ThreadTypes'
  <2> DEFINE j == [NoJob EXCEPT !.kind = q]
  <2>1. j \in Jobs /\ Fits(p, j)
    BY DEF NoJob, Jobs, Fits, Recalculates
  <2> QED BY <1>1, <1>2, <2>1, MoveTypes, PlaceNames DEF Asked
<1>3. CASE \E c \in Configs : HttpConfig(c)
  <2>1. PICK c \in Configs : HttpConfig(c)
    BY <1>3
  <2>2. ThreadTypes'
    BY <1>2, <2>1 DEF HttpConfig, ThreadTypes
  <2> QED BY <2>1, <2>2 DEF HttpConfig, ClockTypes, DiskTypes, FlagTypes
<1>4. CASE HttpRegenerate
  BY <1>2, <1>4 DEF HttpRegenerate, ClockTypes, DiskTypes, FlagTypes
<1>5. CASE HttpDelete
  BY <1>1, <1>2, <1>5 DEF HttpDelete, ClockTypes, DiskTypes, FlagTypes
<1>6. CASE \E f \in Sent : HttpUpload(f)
  <2>1. PICK f \in Sent : HttpUpload(f)
    BY <1>6
  <2> DEFINE j == [NoJob EXCEPT !.kind = "upload", !.file = f]
  <2>2. j \in Jobs /\ Fits("write", j)
    BY <1>1 DEF NoJob, Jobs, Fits, Recalculates
  <2>3. ThreadTypes'
    BY <1>1, <2>1, <2>2, MoveTypes, PlaceNames DEF HttpUpload
  <2>4. tmp' \in Contents
    BY <2>1 DEF HttpUpload, Truncated, Contents, Unreadable
  <2> QED BY <2>1, <2>3, <2>4 DEF HttpUpload, ClockTypes, DiskTypes, FlagTypes
<1>7. CASE HttpUploadAborts
  BY <1>1, <1>7, FinishTypes DEF HttpUploadAborts, ClockTypes, DiskTypes, FlagTypes
<1> QED BY <1>3, <1>4, <1>5, <1>6, <1>7 DEF HttpRequest

\* The wakes of the task and the environment keep the types.
LEMMA OtherTypes == TypeInv /\ (TaskWake \/ Environment) => TypeInv'
<1> SUFFICES ASSUME TypeInv, TaskWake \/ Environment PROVE TypeInv'
  OBVIOUS
<1> USE DEF TypeInv, clockVars, taskVars, diskVars
<1>1. CASE TaskWake
  <2>1. PICK p \in {"read", "idle"} :
          pc' = [pc EXCEPT !["task"] = p] /\ job' = job /\ pc["task"] = "idle"
    BY <1>1 DEF TaskWake
  <2>2. pc' \in [Threads -> Places]
    BY <2>1, PlaceNames DEF ThreadTypes
  <2>3. ASSUME NEW u \in Threads PROVE Fits(pc'[u], job[u])
    <3>1. pc'[u] = pc[u] \/ (pc[u] = "idle" /\ pc'[u] = "read")
      BY <2>1 DEF ThreadTypes
    <3> QED BY <3>1 DEF ThreadTypes, Fits, Recalculates
  <2>4. pending' \in BOOLEAN
    BY <1>1 DEF TaskWake, FlagTypes
  <2> QED BY <1>1, <2>1, <2>2, <2>3, <2>4
        DEF TaskWake, ThreadTypes, ClockTypes, DiskTypes, FlagTypes, clockVars, diskVars
<1>2. CASE \E d \in Days : TimeUpdate(d)
  BY <1>2 DEF TimeUpdate, ThreadTypes, ClockTypes, DiskTypes, FlagTypes, diskVars
<1>3. CASE Midnight
  <2>1. day' \in Days
    BY <1>3, ConstantsOK DEF Midnight, ClockTypes, Days
  <2> QED BY <1>3, <2>1
        DEF Midnight, ThreadTypes, ClockTypes, DiskTypes, FlagTypes, diskVars, taskVars
<1>4. CASE MinutePasses
  BY <1>4 DEF MinutePasses, ThreadTypes, ClockTypes, DiskTypes, FlagTypes, diskVars, taskVars
<1>5. CASE Reset
  <2>1. tt' \in Tables
    <3>1. NoTable \in Tables /\ [NoTable EXCEPT !.meta = Blank] \in Tables
      BY DEF NoTable, Tables
    <3> QED BY <1>5, <3>1, LoadedIsTable DEF Reset, ClockTypes, DiskTypes
  <2>2. ThreadTypes'
    BY <1>5, IdleFits
    DEF Reset, ThreadTypes, Starting, NoJobs, Places, ReadPlaces, Fits, Recalculates
  <2> QED BY <1>5, <2>1, <2>2 DEF Reset, ClockTypes, DiskTypes, FlagTypes, diskVars
<1> QED BY <1>1, <1>2, <1>3, <1>4, <1>5 DEF Environment

\* Every step keeps the types.
LEMMA TypeStep == TypeInv /\ [Next]_vars => TypeInv'
<1> SUFFICES ASSUME TypeInv, [Next]_vars PROVE TypeInv'
  OBVIOUS
<1>1. ASSUME NEW t \in Threads, ThreadStep(t) PROVE TypeInv'
  BY <1>1, RecalcTypes, ParseTypes, WriteTypes DEF ThreadStep
<1>2. CASE HttpRequest
  BY <1>2, RequestTypes
<1>3. CASE TaskWake \/ Environment
  BY <1>3, OtherTypes
<1>4. CASE UNCHANGED vars
  BY <1>4 DEF vars, clockVars, taskVars, diskVars,
              TypeInv, ThreadTypes, ClockTypes, DiskTypes, FlagTypes
<1> QED BY <1>1, <1>2, <1>3, <1>4 DEF Next

\* The types of the prayer service: in particular the cache and today's entry only ever hold what
\* comes from some day and configuration or from the mosque (svc_prayer_engine_service.c:391-470,
\* svc_timetable.c:276-370), and a thread has parsed the file whose entries it takes.
THEOREM PrayerTypeCorrect == Spec => []TypeOK
BY InitTypes, TypeStep, TypesImplyTypeOK, PTL DEF Spec

-----------------------------------------------------------------------------
(* Files and times, as long as nothing collides *)

OrderlySpec == Init /\ [][Next /\ Orderly]_vars

OneReader == \A t, u \in Threads : Reading(t) /\ Reading(u) => t = u
OneWriter == \A t, u \in Threads : Writing(t) /\ Writing(u) => t = u

\* A writer that ends in a recalculation or in a failure; an upload may end without either.
Generating(t) == Writing(t) /\ job[t].kind # "upload"
\* Between the removal of the old file and the rename, and between the rename and the parse.
Replacing == \E t \in Threads : pc[t] = "again"
Unparsed  == \E t \in Threads : pc[t] = "parse" /\ job[t].reload

\* Which thread does what.
Roles ==
  /\ ~ Writing("task")
  /\ \A r \in Regens : pc[r] # "idle" => job[r].kind = None
  /\ Writing("http") => job["http"].kind \in {"upload", "regenerate"}
  /\ \A t \in Threads : pc[t] \in {"generate", "remove", "again"} => Generating(t)

\* A recalculation under way is one of today and of the configuration in force; what is in the cache
\* was calculated with a trusted time, and for no later day.
Aligned ==
  /\ \A t \in Threads : Recalculates(pc[t], job[t]) =>
       job[t].cfg = cfg /\ job[t].day = day /\ time = "trusted"
  /\ cache # None => time = "trusted" /\ cache.day <= day

\* What a writer is about to put in the place of the file.
Meant(t) ==
  {Junk, Empty} \cup IF job[t].kind = "upload" THEN UserFiles ELSE Firmwares(Year(day), cfg)

Draft(t) ==
  /\ pc[t] = "write" => tmp = Torn /\ job[t].file \in Meant(t) \ {Empty}
  /\ pc[t] \in {"rename", "remove", "again"} => tmp \in Meant(t) \ {None}
  /\ pc[t] = "again" => file = None

Drafts == NoTornFile /\ \A t \in Threads : Draft(t)

\* The statics of svc_timetable.c follow the file, but for the time it is being replaced, as long as
\* parse_file() has the memory it needs.
MetaOf(f)     == IF f \in {None, Empty} THEN None ELSE IF f = Junk THEN Blank ELSE f
TodayOf(f, d) == IF f \in Headers THEN EntryFor(f, d) ELSE None

Midway(t) == job[t].file = file /\ job[t].date = day /\ tt.ymd = day
Synced ==
  ~ starved /\ ~ Replacing /\ ~ Unparsed =>
    /\ tt.meta = MetaOf(file)
    /\ \A t \in Threads : pc[t] = "days" => Midway(t)
    /\ (\A t \in Threads : pc[t] # "days") =>
         /\ file \notin Headers => tt.today = None
         /\ file \in Headers /\ tt.ymd # None => tt.today = EntryFor(file, tt.ymd)
    /\ \A t \in Threads : pc[t] = "test" /\ file \in Headers => tt.ymd = day

\* The file a regeneration task works with after its rename is the one it wrote, or what the flash
\* took of it, and has a header once it has been parsed; one that is about to be replaced is not the
\* mosque's.
OwnFile ==
  \A r \in Regens : Reading(r) /\ ~ Replacing =>
    /\ file \in Firmwares(Year(day), cfg) \cup {Junk, Empty}
    /\ ~ Unparsed => file \in Firmwares(Year(day), cfg)
NotUsers ==
  \A t \in Threads :
    ~ starved /\ (pc[t] \in {"claim", "create"} \/ (Generating(t) /\ t # "http")) => file \notin UserFiles

GoodFile == file \in Firmwares(Year(day), cfg) \cup UserFiles \cup {Junk}

\* What is about to be stored, and what is in the cache when nothing is under way.
Storing ==
  \A t \in Threads :
    pc[t] = "store" /\ ~ failed /\ ~ starved /\ (\A u \in Threads : ~ Generating(u)) =>
      GoodFile /\ tt.today = TodayOf(file, day)
Settled ==
  Current /\ ~ failed /\ ~ starved /\ (\A t \in Threads : ~ Reading(t) /\ ~ Generating(t)) =>
    cache.jamat = Right /\ GoodFile

OrderlyInv ==
  /\ TypeInv /\ FlagInv /\ OneReader /\ OneWriter
  /\ Roles /\ Aligned /\ Drafts /\ Synced /\ OwnFile /\ NotUsers /\ Storing /\ Settled

\* None is nothing else.
LEMMA NoneFacts ==
  /\ None \notin Days /\ None \notin Configs /\ None \notin Headers /\ None \notin Origins
  /\ None # Torn /\ None # Mixed /\ None # Junk /\ None # Empty /\ None # "upload"
  /\ None \notin UserFiles /\ \A d \in Days, c \in Configs : None \notin Firmwares(Year(d), c)
<1>1. None \notin UserFiles
  BY NoneIsNothing DEF Headers
<1>2. \A d \in Days, c \in Configs : None \notin Firmwares(Year(d), c)
  BY NoneIsNothing, FirmwareIsHeader
<1> QED BY <1>1, <1>2, NoneIsNothing DEF Unreadable

\* The entry of a day in a year file of its year and of some configuration, if it has one.
LEMMA EntryOfYear ==
  ASSUME NEW d \in Days, NEW c, NEW f \in Firmwares(Year(d), c)
  PROVE  EntryFor(f, d) \in {None, Origin(d, c)}
<1>1. d \in Nat /\ YearLength \in Nat \ {0}
  BY ConstantsOK DEF Days
<1>2. Year(d) * YearLength + (d % YearLength) = d
  BY <1>1 DEF Year
<1>3. f.source = "firmware" /\ f.year = Year(d) /\ f.by = c
  BY OtherFiles
<1> QED BY <1>2, <1>3 DEF EntryFor

\* Where a thread goes, and that the others stay where they are.
LEMMA Moved ==
  ASSUME ThreadTypes, NEW t \in Threads, NEW place, NEW j, Move(t, place, j)
  PROVE  /\ pc'[t] = place /\ job'[t] = j
         /\ \A u \in Threads : u # t => pc'[u] = pc[u] /\ job'[u] = job[u]
BY DEF Move, ThreadTypes

\* Where a parse returns to.
LEMMA ParsedMoves ==
  ASSUME TypeInv, NEW t \in Threads, NEW ok, Parsed(t, ok)
  PROVE  /\ \A u \in Threads : u # t => pc'[u] = pc[u] /\ job'[u] = job[u]
         /\ \/ /\ pc'[t] = (IF job[t].reload THEN "read" ELSE "test")
               /\ UNCHANGED failed
               /\ job'[t].kind = job[t].kind /\ job'[t].cfg = job[t].cfg /\ job'[t].day = job[t].day
               /\ job'[t].reload = job[t].reload
               /\ job[t].reload => ok \/ job[t].kind = "upload"
            \/ pc'[t] = "idle" /\ job'[t] = NoJob /\ failed' /\ job[t].reload /\ ~ ok
<1> DEFINE j == [job[t] EXCEPT !.file = None, !.date = None]
<1>1. job[t] \in Jobs
  BY DEF TypeInv, ThreadTypes
<1>2. /\ j.kind = job[t].kind /\ j.cfg = job[t].cfg /\ j.day = job[t].day
      /\ j.reload = job[t].reload
  BY <1>1 DEF Jobs
<1>3. CASE Finish(t) /\ failed' = TRUE /\ job[t].reload /\ ~ ok
  BY <1>3, Moved DEF Finish, TypeInv
<1>4. CASE /\ Move(t, IF job[t].reload THEN "read" ELSE "test", j) /\ UNCHANGED <<regenerating, failed>>
           /\ job[t].reload => ok \/ job[t].kind = "upload"
  <2>1. PICK p : p = (IF job[t].reload THEN "read" ELSE "test") /\ Move(t, p, j)
    BY <1>4
  <2> HIDE DEF j
  <2>2. pc'[t] = p /\ job'[t] = j /\ \A u \in Threads : u # t => pc'[u] = pc[u] /\ job'[u] = job[u]
    BY <2>1, Moved DEF TypeInv
  <2> QED BY <1>2, <1>4, <2>1, <2>2
<1> QED BY <1>3, <1>4 DEF Parsed

\* What a writer is about to put in place is not being written, and is the mosque's only if it was
\* uploaded.
LEMMA MeantIs ==
  ASSUME NEW t \in Threads, NEW f \in Meant(t)
  PROVE  f \notin {Torn, Mixed} /\ (f \in UserFiles => job[t].kind = "upload")
BY OtherFiles DEF Meant

\* A thread at work keeps its role, unless it begins to write.
LEMMA RolesKept ==
  ASSUME Roles, NEW t \in Threads, pc[t] # "idle", Writing(t)' => Writing(t),
         pc'[t] \in {"generate", "remove", "again"} => job[t].kind # "upload",
         pc'[t] # "idle" => job'[t].kind = job[t].kind,
         \A u \in Threads : u # t => pc'[u] = pc[u] /\ job'[u] = job[u]
  PROVE  Roles'
<1>1. "task" \in Threads /\ "http" \in Threads
  BY DEF Threads
<1>2. ~ Writing("task")'
  BY <1>1 DEF Roles, Writing
<1>3. \A r \in Regens : pc'[r] # "idle" => job'[r].kind = None
  BY RegensAreThreads DEF Roles
<1>4. Writing("http")' => job'["http"].kind \in {"upload", "regenerate"}
  BY <1>1 DEF Roles, Writing, WritePlaces
<1>5. \A u \in Threads : pc'[u] \in {"generate", "remove", "again"} => Generating(u)'
  BY DEF Roles, Generating, Writing, WritePlaces
<1> QED BY <1>2, <1>3, <1>4, <1>5 DEF Roles

\* What is to be shown of a step, besides the types, the flag and that nothing collides.
Ordered == Roles /\ Aligned /\ Drafts /\ Synced /\ OwnFile /\ NotUsers /\ Storing /\ Settled

\* A recalculation begins, with today and the configuration in force, or finds that it cannot.
LEMMA ReadKeeps ==
  ASSUME OrderlyInv, NEW t \in Threads, RecalcRead(t), OneReader', OneWriter'
  PROVE  Ordered'
<1> DEFINE p == IF tt.ymd = day THEN "test" ELSE "parse"
           j == [job[t] EXCEPT !.cfg = cfg, !.day = day, !.reload = FALSE]
<1>a. job[t] \in Jobs
  BY DEF OrderlyInv, TypeInv, ThreadTypes
<1>b. j.kind = job[t].kind /\ j.cfg = cfg /\ j.day = day /\ ~ j.reload
  BY <1>a DEF Jobs
<1>1. /\ pc[t] = "read" /\ UNCHANGED <<cfg, day, time, cache, tt, file, tmp, starved>>
      /\ \/ ~ Calculable /\ pc'[t] = "idle" /\ job'[t] = NoJob /\ UNCHANGED failed
         \/ /\ Calculable /\ pc'[t] = p /\ ~ failed'
            /\ job'[t].kind = job[t].kind /\ job'[t].cfg = cfg /\ job'[t].day = day /\ ~ job'[t].reload
      /\ \A u \in Threads : u # t => pc'[u] = pc[u] /\ job'[u] = job[u]
  <2>1. /\ pc[t] = "read" /\ UNCHANGED <<cfg, day, time, cache, tt, file, tmp, starved>>
        /\ \/ ~ Calculable /\ Move(t, "idle", NoJob) /\ UNCHANGED failed
           \/ Calculable /\ Move(t, p, j) /\ failed' = FALSE
    BY DEF RecalcRead, Finish, Calculable, clockVars, diskVars
  <2> HIDE DEF p, j
  <2>2. CASE Calculable
    BY <1>b, <2>1, Moved DEF OrderlyInv, TypeInv
  <2>3. CASE ~ Calculable
    BY <2>1, <2>3, Moved DEF OrderlyInv, TypeInv
  <2> QED BY <2>2, <2>3
<1>2. Roles'
  BY <1>1, RolesKept DEF OrderlyInv, Writing, WritePlaces
<1>3. Aligned'
  BY <1>1 DEF OrderlyInv, Aligned, Recalculates, Calculable
<1>4. Drafts'
  BY <1>1 DEF OrderlyInv, Drafts, Draft, Meant, NoTornFile
<1>5. Synced'
  BY <1>1 DEF OrderlyInv, Synced, Replacing, Unparsed, OneReader, Reading, ReadPlaces
<1>6. OwnFile'
  BY <1>1, RegensAreThreads DEF OrderlyInv, OwnFile, Replacing, Unparsed, Reading, ReadPlaces
<1>7. NotUsers'
  BY <1>1 DEF OrderlyInv, NotUsers, Generating, Writing, WritePlaces
<1>8. Storing'
  BY <1>1 DEF OrderlyInv, Storing, OneReader, Reading, ReadPlaces
<1>9. Settled'
  BY <1>1 DEF OrderlyInv, Settled, Current, Calculable, Reading, ReadPlaces
<1> QED BY <1>2, <1>3, <1>4, <1>5, <1>6, <1>7, <1>8, <1>9 DEF Ordered

\* A recalculation goes on with the file as it is if that is a right one, or if a task is to replace
\* it: the flag is backed by a task that writes, or by the task itself, which works with its own.
LEMMA TestKeeps ==
  ASSUME OrderlyInv, NEW t \in Threads, RecalcTest(t), OneReader', OneWriter'
  PROVE  Ordered'
<1>a. ~ Unparsed /\ (Replacing => file = None)
  BY DEF OrderlyInv, RecalcTest, Unparsed, Replacing, OneReader, Reading, ReadPlaces, Drafts, Draft
<1>1. /\ pc[t] = "test" /\ job' = job
      /\ UNCHANGED <<cfg, day, time, cache, tt, file, tmp, starved>>
      /\ \/ pc'[t] = (IF ~ regenerating /\ NeedsRegen THEN "claim" ELSE "store") /\ UNCHANGED failed
         \/ pc'[t] = "store" /\ failed'
      /\ \A u \in Threads : u # t => pc'[u] = pc[u] /\ job'[u] = job[u]
  BY DEF RecalcTest, Move, OrderlyInv, TypeInv, ThreadTypes, clockVars, diskVars
<1>2. Roles'
  BY <1>1 DEF OrderlyInv, Roles, Generating, Writing, WritePlaces, Threads
<1>3. Aligned'
  BY <1>1 DEF OrderlyInv, Aligned, Recalculates
<1>4. Drafts'
  BY <1>1 DEF OrderlyInv, Drafts, Draft, Meant, NoTornFile
<1>5. Synced'
  BY <1>1 DEF OrderlyInv, Synced, Replacing, Unparsed, OneReader, Reading, ReadPlaces
<1>6. OwnFile'
  BY <1>1, RegensAreThreads DEF OrderlyInv, OwnFile, Replacing, Unparsed, Reading, ReadPlaces
<1>7. NotUsers'
  <2>1. pc'[t] = "claim" => NeedsRegen
    BY <1>1
  <2>2. ~ starved /\ file \in UserFiles => ~ NeedsRegen
    BY <1>a, NoneFacts, OtherFiles DEF OrderlyInv, Synced, NeedsRegen, MetaOf
  <2> QED BY <1>1, <2>2 DEF OrderlyInv, NotUsers, Generating, Writing, WritePlaces
<1>8. Storing'
  <2>1. SUFFICES ASSUME pc'[t] = "store", ~ failed', ~ starved, \A u \in Threads : ~ Generating(u)
                 PROVE  GoodFile /\ tt.today = TodayOf(file, day)
    BY <1>1 DEF OrderlyInv, Storing, GoodFile, TodayOf, Generating, Writing, WritePlaces, OneReader,
                Reading, ReadPlaces
  <2>2. ~ Replacing
    BY <2>1 DEF OrderlyInv, Roles, Replacing
  <2>3. tt.meta = MetaOf(file) /\ tt.today = TodayOf(file, day)
    BY <1>a, <1>1, <2>1, <2>2, NoneFacts DEF OrderlyInv, Synced, TodayOf, OneReader, Reading, ReadPlaces,
                                      TypeInv, ClockTypes
  <2>4. CASE regenerating
    <3>1. PICK r \in Regens : pc[r] # "idle"
      BY <1>1, <2>4 DEF OrderlyInv, FlagInv, FlagBacked, OneReader, Reading, ReadPlaces
    <3>2. r \in Threads /\ ~ Writing(r) /\ pc[r] \in Places
      BY <2>1, <3>1, RegensAreThreads, NoneFacts
      DEF OrderlyInv, Roles, Generating, TypeInv, ThreadTypes
    <3>3. Reading(r)
      BY <3>1, <3>2 DEF Places, Reading, Writing
    <3> QED BY <1>a, <2>2, <2>3, <3>3 DEF OrderlyInv, OwnFile, GoodFile
  <2>5. CASE ~ NeedsRegen
    <3>1. file \in Headers \cup {Junk}
      BY <2>1, <2>3, <2>5 DEF OrderlyInv, Drafts, NoTornFile, TypeInv, DiskTypes, Contents, Unreadable,
                       MetaOf, NeedsRegen
    <3>2. CASE file \in Headers /\ file.source = "firmware" /\ file \in Firmwares(file.year, file.by)
      <4>1. tt.meta = file /\ time = "trusted"
        BY <1>1, <2>3, <3>2, NoneFacts, HeaderIs DEF MetaOf, OrderlyInv, Aligned, Recalculates
      <4>2. file.year = Year(day) /\ file.by = cfg
        BY <2>5, <3>2, <4>1 DEF NeedsRegen, OldYear
      <4> QED BY <2>3, <3>2, <4>2 DEF GoodFile
    <3> QED BY <2>3, <3>1, <3>2, HeaderIs DEF GoodFile
  <2> QED BY <1>1, <2>1, <2>4, <2>5
<1>9. Settled'
  BY <1>1 DEF OrderlyInv, Settled, Reading, ReadPlaces
<1> QED BY <1>2, <1>3, <1>4, <1>5, <1>6, <1>7, <1>8, <1>9 DEF Ordered

\* The flag is set: the thread is still the one that found that the file is not right.
LEMMA ClaimKeeps ==
  ASSUME OrderlyInv, NEW t \in Threads, RecalcClaim(t), OneReader', OneWriter'
  PROVE  Ordered'
<1>1. /\ pc[t] = "claim" /\ pc'[t] = "create" /\ job' = job
      /\ UNCHANGED <<cfg, day, time, cache, tt, file, tmp, failed, starved>>
      /\ \A u \in Threads : u # t => pc'[u] = pc[u] /\ job'[u] = job[u]
  BY DEF RecalcClaim, Move, OrderlyInv, TypeInv, ThreadTypes, clockVars, diskVars
<1>2. Roles'
  BY <1>1 DEF OrderlyInv, Roles, Generating, Writing, WritePlaces, Threads
<1>3. Aligned'
  BY <1>1 DEF OrderlyInv, Aligned, Recalculates
<1>4. Drafts'
  BY <1>1 DEF OrderlyInv, Drafts, Draft, Meant, NoTornFile
<1>5. Synced'
  BY <1>1 DEF OrderlyInv, Synced, Replacing, Unparsed, OneReader, Reading, ReadPlaces
<1>6. OwnFile'
  BY <1>1, RegensAreThreads DEF OrderlyInv, OwnFile, Replacing, Unparsed, Reading, ReadPlaces
<1>7. NotUsers'
  BY <1>1 DEF OrderlyInv, NotUsers
<1>8. Storing'
  BY <1>1 DEF OrderlyInv, Storing, OneReader, Reading, ReadPlaces
<1>9. Settled'
  BY <1>1 DEF OrderlyInv, Settled, Reading, ReadPlaces
<1> QED BY <1>2, <1>3, <1>4, <1>5, <1>6, <1>7, <1>8, <1>9 DEF Ordered

\* The task that is created writes; the file it will replace is not the mosque's.
LEMMA SpawnKeeps ==
  ASSUME OrderlyInv, NEW t \in Threads, NEW r \in Regens, RecalcSpawn(t, r), OneReader', OneWriter'
  PROVE  Ordered'
<1>1. /\ pc[t] = "create" /\ pc'[t] = "store" /\ pc[r] = "idle" /\ pc'[r] = "generate"
      /\ r # t /\ r \in Threads /\ job' = job /\ job[r].kind = None
      /\ UNCHANGED <<cfg, day, time, cache, tt, file, tmp, failed, starved>>
      /\ \A u \in Threads : u # t /\ u # r => pc'[u] = pc[u]
  BY RegensAreThreads
  DEF RecalcSpawn, Fits, NoJob, OrderlyInv, TypeInv, ThreadTypes, clockVars, diskVars
<1>2. Roles'
  BY <1>1, NoneFacts, ConstantsOK DEF OrderlyInv, Roles, Generating, Writing, WritePlaces, Threads
<1>3. Aligned'
  BY <1>1 DEF OrderlyInv, Aligned, Recalculates
<1>4. Drafts'
  BY <1>1 DEF OrderlyInv, Drafts, Draft, NoTornFile, OneWriter, Writing, WritePlaces
<1>5. Synced'
  BY <1>1 DEF OrderlyInv, Synced, Replacing, Unparsed, OneReader, Reading, ReadPlaces
<1>6. OwnFile'
  BY <1>1, RegensAreThreads DEF OrderlyInv, OwnFile, Replacing, Unparsed, Reading, ReadPlaces
<1>7. NotUsers'
  BY <1>1 DEF OrderlyInv, NotUsers
<1>8. Storing'
  BY <1>1, NoneFacts DEF OrderlyInv, Storing, Generating, Writing, WritePlaces
<1>9. Settled'
  BY <1>1 DEF OrderlyInv, Settled, Reading, ReadPlaces
<1> QED BY <1>2, <1>3, <1>4, <1>5, <1>6, <1>7, <1>8, <1>9 DEF Ordered

\* No task is created; what is stored after that is marked as failed.
LEMMA SpawnFailsKeeps ==
  ASSUME OrderlyInv, NEW t \in Threads, RecalcSpawnFails(t), OneReader', OneWriter'
  PROVE  Ordered'
<1>1. /\ pc[t] = "create" /\ pc'[t] = "store" /\ job' = job /\ failed'
      /\ UNCHANGED <<cfg, day, time, cache, tt, file, tmp, starved>>
      /\ \A u \in Threads : u # t => pc'[u] = pc[u] /\ job'[u] = job[u]
  BY DEF RecalcSpawnFails, Move, OrderlyInv, TypeInv, ThreadTypes, clockVars, diskVars
<1>2. Roles'
  BY <1>1 DEF OrderlyInv, Roles, Generating, Writing, WritePlaces, Threads
<1>3. Aligned'
  BY <1>1 DEF OrderlyInv, Aligned, Recalculates
<1>4. Drafts'
  BY <1>1 DEF OrderlyInv, Drafts, Draft, Meant, NoTornFile
<1>5. Synced'
  BY <1>1 DEF OrderlyInv, Synced, Replacing, Unparsed, OneReader, Reading, ReadPlaces
<1>6. OwnFile'
  BY <1>1, RegensAreThreads DEF OrderlyInv, OwnFile, Replacing, Unparsed, Reading, ReadPlaces
<1>7. NotUsers'
  BY <1>1 DEF OrderlyInv, NotUsers
<1>8. Storing'
  BY <1>1 DEF OrderlyInv, Storing
<1>9. Settled'
  BY <1>1 DEF OrderlyInv, Settled
<1> QED BY <1>2, <1>3, <1>4, <1>5, <1>6, <1>7, <1>8, <1>9 DEF Ordered

\* What is stored comes from the right place.
LEMMA StoreKeeps ==
  ASSUME OrderlyInv, NEW t \in Threads, RecalcStore(t), OneReader', OneWriter'
  PROVE  Ordered'
<1>1. /\ pc[t] = "store" /\ pc'[t] = "idle" /\ job'[t] = NoJob
      /\ UNCHANGED <<cfg, day, time, tt, file, tmp, failed, starved>>
      /\ \E j \in Jamats(t) :
           cache' = [day |-> job[t].day, offset |-> Offset[job[t].day], jamat |-> j]
      /\ \A u \in Threads : u # t => pc'[u] = pc[u] /\ job'[u] = job[u]
  BY Moved DEF RecalcStore, Finish, OrderlyInv, TypeInv, clockVars, diskVars
<1>2. Roles'
  BY <1>1, RegensAreThreads, NoneFacts
  DEF OrderlyInv, Roles, Generating, Writing, WritePlaces, Threads
<1>3. Aligned'
  <2>1. cache' # None => time' = "trusted" /\ cache'.day = day'
    BY <1>1 DEF OrderlyInv, Aligned, Recalculates
  <2>2. day \in Nat
    BY DEF OrderlyInv, TypeInv, ClockTypes, Days
  <2> QED BY <1>1, <2>2 DEF OrderlyInv, Aligned, Recalculates
<1>4. Drafts'
  BY <1>1 DEF OrderlyInv, Drafts, Draft, Meant, NoTornFile
<1>5. Synced'
  BY <1>1 DEF OrderlyInv, Synced, Replacing, Unparsed, OneReader, Reading, ReadPlaces
<1>6. OwnFile'
  BY <1>1, RegensAreThreads DEF OrderlyInv, OwnFile, Unparsed, OneReader, Reading, ReadPlaces
<1>7. NotUsers'
  BY <1>1 DEF OrderlyInv, NotUsers, Generating, Writing, WritePlaces
<1>8. Storing'
  BY <1>1 DEF OrderlyInv, Storing, OneReader, Reading, ReadPlaces
<1>9. Settled'
  <2>1. SUFFICES ASSUME ~ failed, ~ starved, \A u \in Threads : ~ Generating(u)
                 PROVE  cache'.jamat = Right /\ GoodFile
    BY <1>1 DEF OrderlyInv, Settled, Current, Calculable, Right, GoodFile, Generating, Reading,
                ReadPlaces, Writing, WritePlaces
  <2>2. GoodFile /\ tt.today = TodayOf(file, day)
    BY <1>1, <2>1 DEF OrderlyInv, Storing
  <2>3. job[t].cfg = cfg /\ job[t].day = day /\ day \in Days /\ cfg \in Configs
    BY <1>1 DEF OrderlyInv, Aligned, Recalculates, TypeInv, ThreadTypes, Fits
  <2>4. PICK j \in Jamats(t) : cache'.jamat = j
    BY <1>1
  <2> DEFINE fresh   == Origin(day, cfg)
             mosques == Origin(day, "mosque")
  <2>8. j \in IF tt.today = None \/ (tt.today = mosques /\ <<day, cfg>> \in Refused) THEN {fresh}
              ELSE IF tt.today = mosques THEN {mosques} ELSE {tt.today, fresh}
    BY <2>3, <2>4 DEF Jamats
  <2>9. mosques \in Origins /\ None # mosques
    BY <2>3, NoneFacts DEF Origin, Origins, Days
  <2>10. Right = IF file \in UserFiles /\ day % YearLength \in file.days /\ <<day, cfg>> \notin Refused
                 THEN mosques ELSE fresh
    BY DEF Right
  <2>5. CASE file \in UserFiles
    <3>1. tt.today = IF day % YearLength \in file.days THEN mosques ELSE None
      <4>1. file \in Headers /\ file.source = "user" /\ file.by = "mosque"
        BY <2>5, OtherFiles DEF Headers
      <4> QED BY <2>2, <4>1 DEF TodayOf, EntryFor
    <3> HIDE DEF fresh, mosques
    <3>2. cache'.jamat = Right
      BY <2>4, <2>5, <2>8, <2>9, <2>10, <3>1
    <3> QED BY <2>2, <3>2
  <2>6. CASE file \in Firmwares(Year(day), cfg)
    <3>1. tt.today \in {None, fresh} /\ file \notin UserFiles
      <4>1. file \in Headers /\ file \notin UserFiles
        BY <2>3, <2>6, FirmwareIsHeader, OtherFiles
      <4> QED BY <2>2, <2>3, <2>6, <4>1, EntryOfYear DEF TodayOf
    <3> HIDE DEF fresh, mosques
    <3>2. cache'.jamat = Right
      BY <2>4, <2>8, <2>10, <3>1
    <3> QED BY <2>2, <3>2
  <2>7. CASE file = Junk
    <3>1. tt.today = None /\ file \notin UserFiles
      BY <2>2, <2>7, HeaderIs, OtherFiles DEF TodayOf
    <3> HIDE DEF fresh, mosques
    <3>2. cache'.jamat = Right
      BY <2>4, <2>8, <2>10, <3>1
    <3> QED BY <2>2, <3>2
  <2> QED BY <2>2, <2>5, <2>6, <2>7 DEF GoodFile
<1> QED BY <1>2, <1>3, <1>4, <1>5, <1>6, <1>7, <1>8, <1>9 DEF Ordered

\* The statics take the header of the file as it is, or that there is none.
LEMMA HeaderKeeps ==
  ASSUME OrderlyInv, NEW t \in Threads, ParseHeader(t), OneReader', OneWriter'
  PROVE  Ordered'
<1>a. /\ pc[t] = "parse" /\ UNCHANGED <<cfg, day, time, cache, file, tmp, starved>>
      /\ file \in Headers \cup {None, Empty, Junk} /\ job[t] \in Jobs
  BY DEF ParseHeader, OrderlyInv, Drafts, NoTornFile, TypeInv, DiskTypes, ThreadTypes, Contents,
         Unreadable, clockVars, taskVars, diskVars
<1> DEFINE Others == \A u \in Threads : u # t => pc'[u] = pc[u] /\ job'[u] = job[u]
           Kept   == job'[t].kind = job[t].kind /\ job'[t].reload = job[t].reload
                     /\ job'[t].cfg = job[t].cfg /\ job'[t].day = job[t].day
           Back   == \/ /\ pc'[t] = (IF job[t].reload THEN "read" ELSE "test")
                        /\ UNCHANGED failed /\ Kept
                        /\ job[t].reload => file \in Headers \/ job[t].kind = "upload"
                     \/ pc'[t] = "idle" /\ job'[t] = NoJob /\ failed' /\ job[t].reload
<1>1. /\ pc[t] = "parse" /\ Others /\ UNCHANGED <<cfg, day, time, cache, file, tmp, starved>>
      /\ file \in Headers \cup {None, Empty, Junk}
      /\ pc'[t] # "idle" => Kept /\ (job[t].reload => file \in Headers \/ job[t].kind = "upload")
      /\ \/ /\ file \in {None, Empty} /\ Back
            /\ IF job[t].reload THEN tt'.meta = None /\ tt'.today = None ELSE tt' = tt
         \/ /\ file = Junk /\ Back
            /\ tt'.meta = Blank /\ tt'.today = None /\ tt'.ymd = None
         \/ /\ file \in Headers /\ Back /\ job[t].reload
            /\ tt'.meta = file /\ tt'.today = None /\ tt'.ymd = None
         \/ /\ file \in Headers /\ pc'[t] = "days" /\ UNCHANGED failed /\ Kept
            /\ job'[t].file = file /\ job'[t].date = day
            /\ tt'.meta = file /\ tt'.today = None /\ tt'.ymd = day
  <2>1. ASSUME Parsed(t, FALSE) \/ (Parsed(t, TRUE) /\ file \in Headers) PROVE Others /\ Back
    BY <2>1, ParsedMoves DEF OrderlyInv
  <2>2. CASE file \in {None, Empty}
    BY <1>a, <2>1, <2>2 DEF ParseHeader, Unread, NoTable
  <2>3. CASE file = Junk
    BY <1>a, <2>1, <2>3, NoneFacts, OtherFiles DEF ParseHeader, NoTable, Unreadable
  <2>4. CASE file \in Headers
    <3>1. file \notin {None, Empty} /\ file \notin Unreadable
      BY <2>4, NoneFacts, HeaderIs DEF Unreadable
    <3>2. CASE time = "invalid"
      <4>1. job[t].reload
        BY <1>a, <3>2 DEF OrderlyInv, Aligned, Recalculates
      <4> QED BY <1>a, <2>1, <2>4, <3>1, <3>2, <4>1 DEF ParseHeader, NoTable
    <3>3. CASE time # "invalid"
      <4> DEFINE j == [job[t] EXCEPT !.file = file, !.date = day]
      <4>1. /\ j.kind = job[t].kind /\ j.reload = job[t].reload /\ j.cfg = job[t].cfg
            /\ j.day = job[t].day /\ j.file = file /\ j.date = day
        BY <1>a DEF Jobs
      <4>2. /\ Move(t, "days", j) /\ UNCHANGED failed
            /\ tt' = [meta |-> file, today |-> None, ymd |-> day]
        BY <3>1, <3>3 DEF ParseHeader
      <4> HIDE DEF j
      <4>3. pc'[t] = "days" /\ job'[t] = j /\ Others
        BY <4>2, Moved DEF OrderlyInv, TypeInv
      <4> QED BY <1>a, <2>4, <4>1, <4>2, <4>3
    <3> QED BY <3>2, <3>3
  <2> QED BY <1>a, <2>2, <2>3, <2>4
<1>2. Roles'
  <2>1. /\ pc'[t] \in {"idle", "test", "read", "days"}
        /\ pc'[t] # "idle" => job'[t].kind = job[t].kind
    BY <1>1
  <2> HIDE DEF Others, Back, Kept
  <2>2. Others
    BY <1>1
  <2> QED BY <1>1, <2>1, RolesKept DEF Others, OrderlyInv, Writing, WritePlaces
<1>3. Aligned'
  BY <1>1 DEF OrderlyInv, Aligned, Recalculates
<1>4. Drafts'
  BY <1>1 DEF OrderlyInv, Drafts, Draft, Meant, NoTornFile
<1>5. Synced'
  <2>1. SUFFICES ASSUME ~ starved, ~ Replacing', ~ Unparsed'
                 PROVE  /\ tt'.meta = MetaOf(file)
                        /\ pc'[t] = "days" => job'[t].file = file /\ job'[t].date = day /\ tt'.ymd = day
                        /\ pc'[t] # "days" => /\ file \notin Headers => tt'.today = None
                                              /\ file \in Headers => tt'.ymd = None
                        /\ pc'[t] = "test" => file \notin Headers
    <3>1. \A u \in Threads : pc'[u] \in {"days", "test"} => u = t
      BY <1>1 DEF OrderlyInv, OneReader, Reading, ReadPlaces
    <3> QED BY <1>1, <3>1 DEF Synced, Midway
  <2>2. CASE file \in {None, Empty} /\ ~ job[t].reload
    <3>1. ~ Unparsed
      BY <1>1, <2>2 DEF Unparsed, OrderlyInv, OneReader, Reading, ReadPlaces
    <3>2. ~ Replacing
      BY <1>1, <2>1 DEF Replacing
    <3>3. tt.meta = None /\ tt.today = None
      BY <1>1, <2>1, <2>2, <3>1, <3>2, NoneFacts, HeaderIs
      DEF OrderlyInv, Synced, MetaOf, OneReader, Reading, ReadPlaces
    <3>4. file \notin Headers /\ tt' = tt /\ pc'[t] = "test"
      BY <1>1, <2>2, NoneFacts, HeaderIs, OtherFiles
    <3> QED BY <2>2, <3>3, <3>4 DEF MetaOf
  <2>3. CASE ~ (file \in {None, Empty} /\ ~ job[t].reload)
    BY <1>1, <2>3, NoneFacts, HeaderIs, OtherFiles DEF MetaOf
  <2> QED BY <2>2, <2>3
<1>6. OwnFile'
  <2>1. SUFFICES ASSUME NEW r \in Regens, Reading(r)', ~ Replacing'
                 PROVE  file \in Firmwares(Year(day), cfg)
    BY <1>1 DEF OwnFile
  <2>2. r = t
    BY <1>1, <2>1, RegensAreThreads DEF OrderlyInv, OneReader, Reading, ReadPlaces
  <2>3. job[t].kind = None /\ pc'[t] # "idle" /\ Reading(t)
    BY <1>1, <2>1, <2>2 DEF OrderlyInv, Roles, Reading, ReadPlaces
  <2>4. ~ Replacing
    BY <1>1, <2>1 DEF Replacing
  <2>5. CASE job[t].reload
    <3>1. file \in Headers
      BY <1>1, <2>3, <2>5, NoneFacts
    <3> QED BY <2>2, <2>3, <2>4, <3>1, HeaderIs DEF OrderlyInv, OwnFile
  <2>6. CASE ~ job[t].reload
    <3>1. ~ Unparsed
      BY <1>1, <2>6 DEF Unparsed, OrderlyInv, OneReader, Reading, ReadPlaces
    <3> QED BY <2>2, <2>3, <2>4, <3>1 DEF OrderlyInv, OwnFile
  <2> QED BY <2>5, <2>6
<1>7. NotUsers'
  BY <1>1 DEF OrderlyInv, NotUsers, Generating, Writing, WritePlaces
<1>8. Storing'
  BY <1>1 DEF OrderlyInv, Storing, OneReader, Reading, ReadPlaces
<1>9. Settled'
  BY <1>1 DEF OrderlyInv, Settled, Reading, ReadPlaces
<1> QED BY <1>2, <1>3, <1>4, <1>5, <1>6, <1>7, <1>8, <1>9 DEF Ordered

\* The entry of today is that of the file whose header was taken.
LEMMA DaysKeeps ==
  ASSUME OrderlyInv, NEW t \in Threads, ParseDays(t), OneReader', OneWriter'
  PROVE  Ordered'
<1>1. /\ pc[t] = "days"
      /\ UNCHANGED <<cfg, day, time, cache, file, tmp>>
      /\ \/ tt' = [tt EXCEPT !.today = EntryFor(job[t].file, job[t].date)] /\ UNCHANGED starved
         \/ starved'
      /\ pc'[t] = (IF job[t].reload THEN "read" ELSE "test") /\ UNCHANGED failed
      /\ job'[t].kind = job[t].kind /\ job'[t].cfg = job[t].cfg /\ job'[t].day = job[t].day
      /\ job'[t].reload = job[t].reload
      /\ \A u \in Threads : u # t => pc'[u] = pc[u] /\ job'[u] = job[u]
  BY ParsedMoves DEF ParseDays, OrderlyInv, clockVars, diskVars
<1>2. Roles'
  BY <1>1 DEF OrderlyInv, Roles, Generating, Writing, WritePlaces, Threads
<1>3. Aligned'
  BY <1>1 DEF OrderlyInv, Aligned, Recalculates
<1>4. Drafts'
  BY <1>1 DEF OrderlyInv, Drafts, Draft, Meant, NoTornFile
<1>5. Synced'
  <2>0. SUFFICES ASSUME ~ starved' PROVE Synced'
    BY DEF Synced
  <2>1. tt \in Tables
    BY DEF OrderlyInv, TypeInv
  <2>2. /\ tt'.meta = tt.meta /\ tt'.ymd = tt.ymd
        /\ tt'.today = EntryFor(job[t].file, job[t].date)
    BY <1>1, <2>0, <2>1 DEF Tables
  <2>3. \A u \in Threads : pc'[u] \notin {"days", "parse"} /\ (pc'[u] = "test" => u = t)
    BY <1>1 DEF OrderlyInv, OneReader, Reading, ReadPlaces
  <2>4. (Replacing' <=> Replacing) /\ ~ Unparsed
    BY <1>1 DEF Replacing, Unparsed, OrderlyInv, OneReader, Reading, ReadPlaces
  <2>5. ~ Replacing => tt.meta = MetaOf(file) /\ Midway(t) /\ file \in Headers
    BY <1>1, <2>0, <2>4 DEF OrderlyInv, Synced, TypeInv, ThreadTypes, Fits, Midway
  <2> QED BY <1>1, <2>2, <2>3, <2>4, <2>5 DEF Synced, Midway
<1>6. OwnFile'
  BY <1>1, RegensAreThreads DEF OrderlyInv, OwnFile, Replacing, Unparsed, Reading, ReadPlaces
<1>7. NotUsers'
  BY <1>1 DEF OrderlyInv, NotUsers, Generating, Writing, WritePlaces
<1>8. Storing'
  BY <1>1 DEF OrderlyInv, Storing, OneReader, Reading, ReadPlaces
<1>9. Settled'
  BY <1>1 DEF OrderlyInv, Settled, Reading, ReadPlaces
<1> QED BY <1>2, <1>3, <1>4, <1>5, <1>6, <1>7, <1>8, <1>9 DEF Ordered

\* Without memory for it the file stays as it is, and a regeneration gives up.
LEMMA StarvesKeeps ==
  ASSUME OrderlyInv, NEW t \in Threads, ParseStarves(t), OneReader', OneWriter'
  PROVE  Ordered'
<1>1. /\ pc[t] = "parse" /\ UNCHANGED <<cfg, day, time, cache, file, tmp>> /\ starved'
      /\ \/ /\ pc'[t] = (IF job[t].reload THEN "read" ELSE "test")
            /\ job'[t].kind = job[t].kind /\ job'[t].cfg = job[t].cfg /\ job'[t].day = job[t].day
            /\ job'[t].reload = job[t].reload
            /\ job[t].reload => job[t].kind = "upload"
         \/ pc'[t] = "idle" /\ job'[t] = NoJob
      /\ \A u \in Threads : u # t => pc'[u] = pc[u] /\ job'[u] = job[u]
  BY ParsedMoves DEF ParseStarves, OrderlyInv, clockVars, diskVars
<1>2. Roles'
  BY <1>1, RolesKept DEF OrderlyInv, Writing, WritePlaces
<1>3. Aligned'
  BY <1>1 DEF OrderlyInv, Aligned, Recalculates
<1>4. Drafts'
  BY <1>1 DEF OrderlyInv, Drafts, Draft, Meant, NoTornFile
<1>5. OwnFile'
  BY <1>1, RegensAreThreads, NoneFacts
  DEF OrderlyInv, Roles, OwnFile, Replacing, Unparsed, OneReader, Reading, ReadPlaces
<1>6. Synced' /\ NotUsers' /\ Storing' /\ Settled'
  BY <1>1 DEF Synced, NotUsers, Storing, Settled
<1> QED BY <1>2, <1>3, <1>4, <1>5, <1>6 DEF Ordered

\* A writer that opens .tmp is alone with it.
LEMMA OpenKeeps ==
  ASSUME OrderlyInv, NEW t \in Threads, GenerateOpen(t), OneReader', OneWriter'
  PROVE  Ordered'
<1>1. /\ pc[t] = "generate" /\ pc'[t] = "write" /\ tmp' = Torn
      /\ job'[t].kind = job[t].kind /\ job'[t].file = Firmware(Year(day), cfg)
      /\ UNCHANGED <<cfg, day, time, cache, tt, file, failed, starved>>
      /\ \A u \in Threads : u # t => pc'[u] = pc[u] /\ job'[u] = job[u]
  BY Moved
  DEF GenerateOpen, Truncated, OtherWrites, OneWriter, Writing, WritePlaces, Jobs, OrderlyInv,
      TypeInv, ThreadTypes, clockVars
<1>2. Roles'
  BY <1>1, RolesKept DEF OrderlyInv, Roles, Writing, WritePlaces
<1>3. Aligned'
  BY <1>1 DEF OrderlyInv, Aligned, Recalculates
<1>4. Drafts'
  <2>1. job'[t].kind # "upload"
    BY <1>1 DEF OrderlyInv, Roles, Generating
  <2>2. job'[t].file \in Firmwares(Year(day), cfg) \ {Empty}
    BY <1>1, FirmwareIsHeader, OtherFiles DEF GenerateOpen, OrderlyInv, TypeInv, ClockTypes
  <2> QED BY <1>1, <2>1, <2>2
          DEF OrderlyInv, Drafts, Draft, Meant, NoTornFile, OneWriter, Writing, WritePlaces
<1>5. Synced'
  BY <1>1 DEF OrderlyInv, Synced, Replacing, Unparsed, Midway
<1>6. OwnFile'
  BY <1>1, RegensAreThreads DEF OrderlyInv, OwnFile, Replacing, Unparsed, Reading, ReadPlaces
<1>7. NotUsers'
  BY <1>1 DEF OrderlyInv, NotUsers, Generating, Writing, WritePlaces
<1>8. Storing'
  BY <1>1 DEF OrderlyInv, Storing, GoodFile, Generating, Writing, WritePlaces
<1>9. Settled'
  BY <1>1
  DEF OrderlyInv, Settled, Current, Calculable, Right, GoodFile, Generating, Reading, ReadPlaces,
      Writing, WritePlaces
<1> QED BY <1>2, <1>3, <1>4, <1>5, <1>6, <1>7, <1>8, <1>9 DEF Ordered

\* A regeneration that fails before it opens .tmp leaves the file as it was.
LEMMA GenFailsKeeps ==
  ASSUME OrderlyInv, NEW t \in Threads, GenerateFails(t), OneReader', OneWriter'
  PROVE  Ordered'
<1>1. /\ pc[t] = "generate" /\ pc'[t] = "idle" /\ job'[t] = NoJob /\ failed'
      /\ UNCHANGED <<cfg, day, time, cache, tt, file, tmp, starved>>
      /\ \A u \in Threads : u # t => pc'[u] = pc[u] /\ job'[u] = job[u]
  BY Moved DEF GenerateFails, Finish, OrderlyInv, TypeInv, clockVars, diskVars
<1>2. Roles'
  BY <1>1, RegensAreThreads, NoneFacts
  DEF OrderlyInv, Roles, Generating, Writing, WritePlaces, Threads
<1>3. Aligned'
  BY <1>1 DEF OrderlyInv, Aligned, Recalculates
<1>4. Drafts'
  BY <1>1 DEF OrderlyInv, Drafts, Draft, NoTornFile, OneWriter, Writing, WritePlaces
<1>5. Synced'
  BY <1>1 DEF OrderlyInv, Synced, Replacing, Unparsed, Midway
<1>6. OwnFile'
  BY <1>1, RegensAreThreads DEF OrderlyInv, OwnFile, Replacing, Unparsed, Reading, ReadPlaces
<1>7. NotUsers'
  BY <1>1 DEF OrderlyInv, NotUsers, Generating, Writing, WritePlaces
<1>8. Storing'
  BY <1>1 DEF OrderlyInv, Storing
<1>9. Settled'
  BY <1>1 DEF OrderlyInv, Settled
<1> QED BY <1>2, <1>3, <1>4, <1>5, <1>6, <1>7, <1>8, <1>9 DEF Ordered

\* What is in .tmp after the last write is what was meant.
LEMMA WrittenKeeps ==
  ASSUME OrderlyInv, NEW t \in Threads, WriteFile(t), OneReader', OneWriter'
  PROVE  Ordered'
<1>1. /\ pc[t] = "write" /\ pc'[t] = "rename" /\ job'[t].kind = job[t].kind
      /\ tmp' \in Meant(t) \ {None}
      /\ UNCHANGED <<cfg, day, time, cache, tt, file, failed, starved>>
      /\ \A u \in Threads : u # t => pc'[u] = pc[u] /\ job'[u] = job[u]
  <2>1. /\ tmp = Torn /\ job[t].file \in Meant(t) \ {Empty} /\ job[t].file \in Whole
        /\ job[t] \in Jobs
    BY DEF WriteFile, OrderlyInv, Drafts, Draft, Fits, TypeInv, ThreadTypes
  <2>2. tmp' \in Written(t)
    BY <2>1, NoneFacts, OtherFiles DEF WriteFile
  <2>3. Written(t) \subseteq Meant(t)
    BY <2>1, CutIs DEF Written, Meant
  <2>4. None \notin Written(t)
    BY <2>1, WrittenIs, NoneFacts
  <2>5. [job[t] EXCEPT !.file = None].kind = job[t].kind
    BY <2>1 DEF Jobs
  <2> QED BY <2>2, <2>3, <2>4, <2>5, Moved DEF WriteFile, OrderlyInv, TypeInv, clockVars
<1>2. Roles'
  BY <1>1, RolesKept DEF OrderlyInv, Roles, Writing, WritePlaces
<1>3. Aligned'
  BY <1>1 DEF OrderlyInv, Aligned, Recalculates
<1>4. Drafts'
  BY <1>1 DEF OrderlyInv, Drafts, Draft, Meant, NoTornFile, OneWriter, Writing, WritePlaces
<1>5. Synced'
  BY <1>1 DEF OrderlyInv, Synced, Replacing, Unparsed, Midway
<1>6. OwnFile'
  BY <1>1, RegensAreThreads DEF OrderlyInv, OwnFile, Replacing, Unparsed, Reading, ReadPlaces
<1>7. NotUsers'
  BY <1>1 DEF OrderlyInv, NotUsers, Generating, Writing, WritePlaces
<1>8. Storing'
  BY <1>1 DEF OrderlyInv, Storing, GoodFile, Generating, Writing, WritePlaces
<1>9. Settled'
  BY <1>1
  DEF OrderlyInv, Settled, Current, Calculable, Right, GoodFile, Generating, Reading, ReadPlaces,
      Writing, WritePlaces
<1> QED BY <1>2, <1>3, <1>4, <1>5, <1>6, <1>7, <1>8, <1>9 DEF Ordered

\* The file that is put in place is parsed next, and nobody else reads at that time.
LEMMA RenamedKeeps ==
  ASSUME OrderlyInv, NEW t \in Threads, pc[t] \in {"rename", "again"}, CanRename, Renamed(t),
         UNCHANGED <<cfg, clockVars, taskVars, cache, tt, starved>>,
         OneReader', OneWriter'
  PROVE  Ordered'
<1>a. job[t] \in Jobs /\ [job[t] EXCEPT !.reload = TRUE].reload
      /\ [job[t] EXCEPT !.reload = TRUE].kind = job[t].kind
  BY DEF OrderlyInv, TypeInv, ThreadTypes, Jobs
<1>1. /\ pc[t] \in {"rename", "again"} /\ pc'[t] = "parse" /\ job'[t].reload /\ job'[t].kind = job[t].kind
      /\ file = None /\ file' = tmp /\ tmp' = None /\ tmp \in Meant(t)
      /\ UNCHANGED <<cfg, day, time, cache, tt, failed>>
      /\ \A u \in Threads : u # t => pc'[u] = pc[u] /\ job'[u] = job[u]
  BY <1>a, Moved DEF CanRename, Renamed, Drafts, Draft, OrderlyInv, TypeInv, ThreadTypes, clockVars
<1>2. Roles'
  BY <1>1, RolesKept DEF OrderlyInv, Roles, Writing, WritePlaces
<1>3. Aligned'
  BY <1>1 DEF OrderlyInv, Aligned, Recalculates
<1>4. Drafts'
  BY <1>1, MeantIs DEF OrderlyInv, Drafts, Draft, NoTornFile, OneWriter, Writing, WritePlaces
<1>5. Synced'
  BY <1>1 DEF OrderlyInv, Synced, Unparsed
<1>6. OwnFile'
  <2>1. t \in Regens => file' \in Firmwares(Year(day), cfg) \cup {Junk, Empty}
    BY <1>1, NoneFacts DEF OrderlyInv, Roles, Meant
  <2>2. \A r \in Regens : Reading(r)' => r = t
    BY <1>1, RegensAreThreads DEF OneReader, Reading, ReadPlaces
  <2>3. t \in Threads /\ pc'[t] = "parse" /\ job'[t].reload
    BY <1>1
  <2>4. Unparsed'
    BY <2>3 DEF Unparsed
  <2> QED BY <1>1, <2>1, <2>2, <2>4 DEF OwnFile
<1>7. NotUsers'
  <2>1. \A u \in Threads : Writing(u)' => FALSE
    BY <1>1 DEF OrderlyInv, OneWriter, Writing, WritePlaces
  <2>2. \A u \in Threads : pc'[u] \notin {"claim", "create"}
    BY <1>1 DEF OneReader, Reading, ReadPlaces
  <2> QED BY <2>1, <2>2 DEF NotUsers, Generating
<1>8. Storing'
  BY <1>1 DEF OrderlyInv, Storing, OneReader, Reading, ReadPlaces
<1>9. Settled'
  BY <1>1 DEF OrderlyInv, Settled, Reading, ReadPlaces
<1> QED BY <1>2, <1>3, <1>4, <1>5, <1>6, <1>7, <1>8, <1>9 DEF Ordered

\* The old file is not the mosque's: only the web client asks to replace that.
LEMMA RemoveKeeps ==
  ASSUME OrderlyInv, NEW t \in Threads, RemoveOld(t), OneReader', OneWriter'
  PROVE  Ordered'
<1>1. /\ pc[t] = "remove" /\ pc'[t] = "again" /\ job'[t] = job[t] /\ file' = None
      /\ UNCHANGED <<cfg, day, time, cache, tt, tmp, failed, starved>>
      /\ \A u \in Threads : u # t => pc'[u] = pc[u] /\ job'[u] = job[u]
  BY Moved DEF RemoveOld, OrderlyInv, TypeInv, clockVars
<1>b. Generating(t)'
  BY <1>1 DEF OrderlyInv, Roles, Generating, Writing, WritePlaces
<1>2. Roles'
  BY <1>1, RolesKept DEF OrderlyInv, Roles, Generating
<1>3. Aligned'
  BY <1>1 DEF OrderlyInv, Aligned, Recalculates
<1>4. Drafts'
  <2>1. job[t].kind # "upload" /\ tmp \in Meant(t) \ {None}
    BY <1>1 DEF OrderlyInv, Roles, Generating, Drafts, Draft
  <2>2. Draft(t)'
    BY <1>1, <2>1 DEF Draft, Meant
  <2>3. \A u \in Threads : u # t => ~ Writing(u)'
    BY <1>1 DEF OrderlyInv, OneWriter, Writing, WritePlaces
  <2> QED BY <1>1, <2>2, <2>3, NoneFacts DEF Drafts, Draft, NoTornFile, Writing, WritePlaces
<1>5. Synced'
  BY <1>1 DEF OrderlyInv, Synced, Replacing
<1>6. OwnFile'
  BY <1>1 DEF OrderlyInv, OwnFile, Replacing
<1>7. NotUsers'
  BY <1>1, NoneFacts DEF OrderlyInv, NotUsers
<1>8. Storing'
  BY <1>b DEF OrderlyInv, Storing
<1>9. Settled'
  BY <1>b DEF OrderlyInv, Settled
<1> QED BY <1>2, <1>3, <1>4, <1>5, <1>6, <1>7, <1>8, <1>9 DEF Ordered

\* An upload that gives up leaves the file as it was.
LEMMA GiveUpKeeps ==
  ASSUME OrderlyInv, NEW t \in Threads, pc[t] \in {"rename", "write"}, job[t].kind = "upload",
         Finish(t), tmp' = None, UNCHANGED <<cfg, clockVars, taskVars, cache, tt, file, failed, starved>>,
         OneReader', OneWriter'
  PROVE  Ordered'
<1>1. /\ pc[t] \in {"rename", "write"} /\ pc'[t] = "idle" /\ job'[t] = NoJob /\ job[t].kind = "upload"
      /\ UNCHANGED <<cfg, day, time, cache, tt, file, failed, starved>>
      /\ \A u \in Threads : u # t => pc'[u] = pc[u] /\ job'[u] = job[u]
  BY Moved DEF Finish, OrderlyInv, TypeInv, clockVars
<1>2. Roles'
  BY <1>1, RolesKept DEF OrderlyInv, Roles, Writing, WritePlaces
<1>3. Aligned'
  BY <1>1 DEF OrderlyInv, Aligned, Recalculates
<1>4. Drafts'
  BY <1>1 DEF OrderlyInv, Drafts, Draft, NoTornFile, OneWriter, Writing, WritePlaces
<1>5. Synced'
  BY <1>1 DEF OrderlyInv, Synced, Replacing, Unparsed, Midway
<1>6. OwnFile'
  BY <1>1, RegensAreThreads DEF OrderlyInv, OwnFile, Replacing, Unparsed, Reading, ReadPlaces
<1>7. NotUsers'
  BY <1>1 DEF OrderlyInv, NotUsers, Generating, Writing, WritePlaces
<1>8. Storing'
  BY <1>1 DEF OrderlyInv, Storing, GoodFile, Generating, Writing
<1>9. Settled'
  BY <1>1
  DEF OrderlyInv, Settled, Current, Calculable, Right, GoodFile, Generating, Reading, ReadPlaces,
      Writing
<1> QED BY <1>2, <1>3, <1>4, <1>5, <1>6, <1>7, <1>8, <1>9 DEF Ordered

\* A regeneration that finds a file in its way will remove it.
LEMMA ToRemoveKeeps ==
  ASSUME OrderlyInv, NEW t \in Threads, pc[t] = "rename", job[t].kind # "upload", Move(t, "remove", job[t]),
         UNCHANGED <<cfg, clockVars, taskVars, cache, tt, diskVars, failed, starved>>,
         OneReader', OneWriter'
  PROVE  Ordered'
<1>1. /\ pc[t] = "rename" /\ pc'[t] = "remove" /\ job'[t] = job[t] /\ job[t].kind # "upload"
      /\ UNCHANGED <<cfg, day, time, cache, tt, file, tmp, failed, starved>>
      /\ \A u \in Threads : u # t => pc'[u] = pc[u] /\ job'[u] = job[u]
  BY Moved DEF OrderlyInv, TypeInv, clockVars, diskVars
<1>2. Roles'
  BY <1>1, RolesKept DEF OrderlyInv, Roles, Writing, WritePlaces
<1>3. Aligned'
  BY <1>1 DEF OrderlyInv, Aligned, Recalculates
<1>4. Drafts'
  BY <1>1 DEF OrderlyInv, Drafts, Draft, Meant, NoTornFile
<1>5. Synced'
  BY <1>1 DEF OrderlyInv, Synced, Replacing, Unparsed, Midway
<1>6. OwnFile'
  BY <1>1, RegensAreThreads DEF OrderlyInv, OwnFile, Replacing, Unparsed, Reading, ReadPlaces
<1>7. NotUsers'
  BY <1>1 DEF OrderlyInv, NotUsers, Generating, Writing, WritePlaces
<1>8. Storing'
  BY <1>1 DEF OrderlyInv, Storing, Generating, Writing, WritePlaces
<1>9. Settled'
  BY <1>1 DEF OrderlyInv, Settled, Generating, Writing, WritePlaces
<1> QED BY <1>2, <1>3, <1>4, <1>5, <1>6, <1>7, <1>8, <1>9 DEF Ordered

\* A rename succeeds, gives up or goes on to the removal; the second one always succeeds.
LEMMA RenameKeeps ==
  ASSUME OrderlyInv, NEW t \in Threads, Rename(t) \/ RenameAgain(t), OneReader', OneWriter'
  PROVE  Ordered'
<1>1. CASE CanRename
  BY <1>1, RenamedKeeps DEF Rename, RenameAgain
<1>2. CASE ~ CanRename /\ Rename(t)
  <2>1. CASE job[t].kind = "upload"
    BY <1>2, <2>1, GiveUpKeeps DEF Rename
  <2>2. CASE job[t].kind # "upload"
    BY <1>2, <2>2, ToRemoveKeeps DEF Rename
  <2> QED BY <2>1, <2>2
<1>3. CASE ~ CanRename /\ RenameAgain(t)
  <2>1. tmp # None /\ file = None
    BY <1>3 DEF RenameAgain, OrderlyInv, Drafts, Draft
  <2> QED BY <1>3, <2>1 DEF CanRename
<1> QED BY <1>1, <1>2, <1>3

\* The web client asks for a new year file.
LEMMA RegenerateKeeps ==
  ASSUME OrderlyInv, HttpRegenerate, OneReader', OneWriter'
  PROVE  Ordered'
<1>a. "http" \in Threads /\ "http" \notin Regens /\ "http" # "task"
  BY ConstantsOK DEF Threads
<1>1. /\ pc["http"] = "idle" /\ pc'["http"] = "generate" /\ job'["http"].kind = "regenerate"
      /\ UNCHANGED <<cfg, day, time, cache, tt, file, tmp, failed, starved>>
      /\ \A u \in Threads : u # "http" => pc'[u] = pc[u] /\ job'[u] = job[u]
  BY <1>a, Moved DEF HttpRegenerate, Request, Asked, NoJob, OrderlyInv, TypeInv, clockVars, diskVars
<1>2. Roles'
  BY <1>1, RegensAreThreads, NoneFacts, <1>a
  DEF OrderlyInv, Roles, Generating, Writing, WritePlaces, Threads
<1>3. Aligned'
  BY <1>1 DEF OrderlyInv, Aligned, Recalculates
<1>4. Drafts'
  BY <1>1 DEF OrderlyInv, Drafts, Draft, Meant, NoTornFile
<1>5. Synced'
  BY <1>1 DEF OrderlyInv, Synced, Replacing, Unparsed, Midway
<1>6. OwnFile'
  BY <1>1, RegensAreThreads DEF OrderlyInv, OwnFile, Replacing, Unparsed, Reading, ReadPlaces
<1>7. NotUsers'
  BY <1>1 DEF OrderlyInv, NotUsers, Generating, Writing
<1>8. Storing'
  BY <1>1 DEF OrderlyInv, Storing, GoodFile, Generating, Writing, WritePlaces
<1>9. Settled'
  BY <1>1
  DEF OrderlyInv, Settled, Current, Calculable, Right, GoodFile, Generating, Reading, Writing,
      WritePlaces
<1> QED BY <1>2, <1>3, <1>4, <1>5, <1>6, <1>7, <1>8, <1>9 DEF Ordered

\* The web client removes the file: file and statics go together.
LEMMA DeleteKeeps ==
  ASSUME OrderlyInv, HttpDelete, OneReader', OneWriter'
  PROVE  Ordered'
<1>a. "http" \in Threads /\ "http" \notin Regens /\ "http" # "task"
  BY ConstantsOK DEF Threads
<1>1. /\ pc["http"] = "idle" /\ pc'["http"] = "read"
      /\ file' = None /\ tt'.meta = None /\ tt'.today = None
      /\ UNCHANGED <<cfg, day, time, cache, tmp, failed, starved>>
      /\ \A u \in Threads : u # "http" => pc'[u] = pc[u] /\ job'[u] = job[u]
  BY <1>a, Moved DEF HttpDelete, Request, Asked, NoTable, OrderlyInv, TypeInv, clockVars
<1>2. Roles'
  BY <1>1, RegensAreThreads, NoneFacts, <1>a
  DEF OrderlyInv, Roles, Generating, Writing, WritePlaces, Threads
<1>3. Aligned'
  BY <1>1 DEF OrderlyInv, Aligned, Recalculates
<1>4. Drafts'
  <2>1. \A u \in Threads : Writing(u)' => Writing(u) /\ pc'[u] = pc[u] /\ job'[u] = job[u]
    BY <1>1 DEF Writing, WritePlaces
  <2> QED BY <1>1, NoneFacts DEF OrderlyInv, Drafts, Draft, Meant, NoTornFile
<1>5. Synced'
  <2>1. \A u \in Threads : pc'[u] \notin {"days", "test"}
    BY <1>a, <1>1 DEF OneReader, Reading, ReadPlaces
  <2> QED BY <1>1, <2>1, NoneFacts DEF Synced, MetaOf
<1>6. OwnFile'
  BY <1>1, RegensAreThreads, <1>a DEF OrderlyInv, OwnFile, Unparsed, OneReader, Reading, ReadPlaces
<1>7. NotUsers'
  BY <1>1, NoneFacts DEF OrderlyInv, NotUsers
<1>8. Storing'
  BY <1>1, <1>a DEF OrderlyInv, Storing, OneReader, Reading, ReadPlaces
<1>9. Settled'
  BY <1>1, <1>a DEF OrderlyInv, Settled, Reading, ReadPlaces
<1> QED BY <1>2, <1>3, <1>4, <1>5, <1>6, <1>7, <1>8, <1>9 DEF Ordered

\* An upload opens .tmp, with which it is alone.
LEMMA UploadKeeps ==
  ASSUME OrderlyInv, NEW f \in Sent, HttpUpload(f), OneReader', OneWriter'
  PROVE  Ordered'
<1>a. "http" \in Threads /\ "http" \notin Regens /\ "http" # "task"
  BY ConstantsOK DEF Threads
<1> DEFINE j == [NoJob EXCEPT !.kind = "upload", !.file = f]
<1>b. j.kind = "upload" /\ j.file = f /\ f \in UserFiles \cup {Junk}
  BY DEF NoJob, Sent
<1>1. /\ pc["http"] = "idle" /\ pc'["http"] = "write" /\ tmp' = Torn
      /\ job'["http"].kind = "upload" /\ job'["http"].file \in UserFiles \cup {Junk}
      /\ UNCHANGED <<cfg, day, time, cache, tt, file, failed, starved>>
      /\ \A u \in Threads : u # "http" => pc'[u] = pc[u] /\ job'[u] = job[u]
  <2>1. /\ pc["http"] = "idle" /\ Move("http", "write", j)
        /\ UNCHANGED <<cfg, day, time, cache, tt, file, failed, starved>>
    BY DEF HttpUpload, Request, clockVars
  <2> HIDE DEF j
  <2>2. /\ pc'["http"] = "write" /\ job'["http"] = j
        /\ \A u \in Threads : u # "http" => pc'[u] = pc[u] /\ job'[u] = job[u]
    BY <1>a, <2>1, Moved DEF OrderlyInv, TypeInv
  <2>3. tmp' = Torn
    BY <1>a, <2>2 DEF HttpUpload, Truncated, OtherWrites, OneWriter, Writing, WritePlaces
  <2> QED BY <1>b, <2>1, <2>2, <2>3
<1>2. Roles'
  <2>1. \A u \in Threads : u # "http" => pc'[u] = pc[u] /\ job'[u] = job[u]
    BY <1>1
  <2>2. ~ Writing("task")' /\ "task" \in Threads
    BY <1>1 DEF OrderlyInv, Roles, Writing, Threads
  <2>3. \A r \in Regens : pc'[r] # "idle" => job'[r].kind = None
    BY <1>a, <2>1, RegensAreThreads DEF OrderlyInv, Roles
  <2>4. \A u \in Threads : pc'[u] \in {"generate", "remove", "again"} => Generating(u)'
    BY <1>1 DEF OrderlyInv, Roles, Generating, Writing
  <2> QED BY <1>1, <2>2, <2>3, <2>4 DEF Roles
<1>3. Aligned'
  BY <1>1 DEF OrderlyInv, Aligned, Recalculates
<1>4. Drafts'
  BY <1>1, <1>a, OtherFiles
  DEF OrderlyInv, Drafts, Draft, Meant, NoTornFile, OneWriter, Writing, WritePlaces
<1>5. Synced'
  BY <1>1 DEF OrderlyInv, Synced, Replacing, Unparsed, Midway
<1>6. OwnFile'
  BY <1>1, RegensAreThreads DEF OrderlyInv, OwnFile, Replacing, Unparsed, Reading, ReadPlaces
<1>7. NotUsers'
  BY <1>1 DEF OrderlyInv, NotUsers, Generating, Writing
<1>8. Storing'
  BY <1>1 DEF OrderlyInv, Storing, GoodFile, Generating, Writing, WritePlaces
<1>9. Settled'
  BY <1>1
  DEF OrderlyInv, Settled, Current, Calculable, Right, GoodFile, Generating, Reading, ReadPlaces,
      Writing, WritePlaces
<1> QED BY <1>2, <1>3, <1>4, <1>5, <1>6, <1>7, <1>8, <1>9 DEF Ordered

\* The configuration changes when nothing else is under way; a recalculation or a failure follows.
LEMMA ConfigKeeps ==
  ASSUME OrderlyInv, NEW c \in Configs, HttpConfig(c), OneReader', OneWriter',
         Quiet \/ UNCHANGED <<day, cfg>>
  PROVE  Ordered'
<1>a. "http" \in Threads /\ "http" \notin Regens /\ "http" # "task"
  BY ConstantsOK DEF Threads
<1>1. /\ pc["http"] = "idle" /\ UNCHANGED <<day, time, cache, tt, file, tmp, starved>>
      /\ \/ pc'["http"] = "read" /\ UNCHANGED failed
         \/ pc'["http"] = "idle" /\ failed' /\ job'["http"] = job["http"]
      /\ \A u \in Threads : u # "http" => pc'[u] = pc[u] /\ job'[u] = job[u]
  BY <1>a, Moved DEF HttpConfig, Request, Asked, OrderlyInv, TypeInv, clockVars, diskVars
<1>b. cfg' = cfg \/ \A u \in Threads : pc[u] = "idle" /\ pc'[u] \in {"idle", "read"}
  BY <1>1 DEF Quiet
<1>2. Roles'
  BY <1>1, RegensAreThreads, NoneFacts, <1>a
  DEF OrderlyInv, Roles, Generating, Writing, WritePlaces, Threads
<1>3. Aligned'
  BY <1>1, <1>b DEF OrderlyInv, Aligned, Recalculates
<1>4. Drafts'
  BY <1>1, <1>b DEF OrderlyInv, Drafts, Draft, Meant, NoTornFile
<1>5. Synced'
  BY <1>1 DEF OrderlyInv, Synced, Replacing, Unparsed, Midway
<1>6. OwnFile'
  BY <1>1, RegensAreThreads, <1>a, <1>b DEF OrderlyInv, OwnFile, Replacing, Unparsed, Reading, ReadPlaces
<1>7. NotUsers'
  BY <1>1 DEF OrderlyInv, NotUsers, Generating, Writing
<1>8. Storing'
  BY <1>1, <1>a DEF OrderlyInv, Storing, OneReader, Reading, ReadPlaces
<1>9. Settled'
  BY <1>1, <1>a DEF OrderlyInv, Settled, Reading, ReadPlaces
<1> QED BY <1>2, <1>3, <1>4, <1>5, <1>6, <1>7, <1>8, <1>9 DEF Ordered

\* A turn of the service's own task.
LEMMA WakeKeeps ==
  ASSUME OrderlyInv, TaskWake, OneReader', OneWriter'
  PROVE  Ordered'
<1>a. "task" \in Threads /\ "task" \notin Regens /\ "task" # "http"
  BY ConstantsOK DEF Threads
<1>1. /\ pc["task"] = "idle" /\ pc'["task"] \in {"idle", "read"} /\ job' = job
      /\ \A u \in Threads : u # "task" => pc'[u] = pc[u]
      /\ UNCHANGED <<cfg, day, time, cache, tt, file, tmp, failed, starved>>
  BY DEF TaskWake, OrderlyInv, clockVars, diskVars
<1>2. Roles'
  BY <1>1, <1>a DEF OrderlyInv, Roles, Generating, Writing, WritePlaces, Threads
<1>3. Aligned'
  BY <1>1 DEF OrderlyInv, Aligned, Recalculates
<1>4. Drafts'
  BY <1>1 DEF OrderlyInv, Drafts, Draft, Meant, NoTornFile
<1>5. Synced'
  BY <1>1 DEF OrderlyInv, Synced, Replacing, Unparsed, Midway
<1>6. OwnFile'
  BY <1>1, RegensAreThreads, <1>a DEF OrderlyInv, OwnFile, Replacing, Unparsed, Reading
<1>7. NotUsers'
  BY <1>1 DEF OrderlyInv, NotUsers, Generating, Writing, WritePlaces
<1>8. Storing'
  BY <1>1 DEF OrderlyInv, Storing, GoodFile, Generating, Writing, OneReader, Reading, ReadPlaces
<1>9. Settled'
  BY <1>1
  DEF OrderlyInv, Settled, Current, Calculable, Right, GoodFile, Generating, Reading, ReadPlaces,
      Writing
<1> QED BY <1>2, <1>3, <1>4, <1>5, <1>6, <1>7, <1>8, <1>9 DEF Ordered

\* A sync moves the date only while the time is not trusted, when there is no cache.
LEMMA UpdateKeeps ==
  ASSUME OrderlyInv, NEW d \in Days, TimeUpdate(d), OneReader', OneWriter',
         Quiet \/ UNCHANGED <<day, cfg>>
  PROVE  Ordered'
<1>1. /\ d \in Nat /\ day \in Nat /\ d >= day /\ (d = day \/ Quiet) /\ (time = "trusted" => d = day)
      /\ day' = d /\ time' = "trusted"
      /\ UNCHANGED <<cfg, cache, tt, file, tmp, pc, job, failed, starved>>
  BY DEF TimeUpdate, Days, OrderlyInv, TypeInv, diskVars, ClockTypes
<1>b. \A u \in Threads : d = day \/ pc[u] = "idle"
  BY <1>1 DEF Quiet
<1>2. Roles'
  BY <1>1 DEF OrderlyInv, Roles, Generating, Writing
<1>3. Aligned'
  BY <1>1 DEF OrderlyInv, Aligned
<1>4. Drafts'
  BY <1>1, <1>b DEF OrderlyInv, Drafts, Draft, Meant, NoTornFile
<1>5. Synced'
  BY <1>1, <1>b DEF OrderlyInv, Synced, Replacing, Unparsed, Midway
<1>6. OwnFile'
  BY <1>1, RegensAreThreads, <1>b DEF OrderlyInv, OwnFile, Replacing, Unparsed, Reading, ReadPlaces
<1>7. NotUsers'
  BY <1>1 DEF OrderlyInv, NotUsers, Generating, Writing
<1>8. Storing'
  BY <1>1, <1>b DEF OrderlyInv, Storing, GoodFile, Generating, Writing
<1>9. Settled'
  <2>1. Current' => d = day
    BY <1>1 DEF OrderlyInv, Aligned, Current
  <2> QED BY <1>1, <2>1 DEF OrderlyInv, Aligned, Settled, Current, Calculable, Right, GoodFile,
                            Reading, Generating, Writing
<1> QED BY <1>2, <1>3, <1>4, <1>5, <1>6, <1>7, <1>8, <1>9 DEF Ordered

\* After midnight the cache is that of an earlier day.
LEMMA MidnightKeeps ==
  ASSUME OrderlyInv, Midnight, OneReader', OneWriter',
         Quiet \/ UNCHANGED <<day, cfg>>
  PROVE  Ordered'
<1>1. /\ day \in Nat /\ day' = day + 1 /\ Quiet
      /\ UNCHANGED <<cfg, time, cache, tt, file, tmp, pc, job, failed, starved>>
  BY DEF Midnight, Days, OrderlyInv, TypeInv, diskVars, ClockTypes
<1>b. \A u \in Threads : pc[u] = "idle"
  BY <1>1 DEF Quiet
<1>2. Roles'
  BY <1>1 DEF OrderlyInv, Roles, Generating, Writing
<1>3. Aligned'
  <2>1. cache # None => cache.day \in Nat /\ cache.day <= day
    BY DEF OrderlyInv, Aligned, TypeInv, Entry, Days
  <2>2. \A u \in Threads : ~ Recalculates(pc[u], job[u])
    BY <1>b DEF Recalculates
  <2> QED BY <1>1, <2>1, <2>2 DEF OrderlyInv, Aligned
<1>4. Drafts'
  BY <1>1, <1>b DEF OrderlyInv, Drafts, Draft, NoTornFile
<1>5. Synced'
  BY <1>1, <1>b DEF OrderlyInv, Synced, Replacing, Unparsed
<1>6. OwnFile'
  BY <1>1, RegensAreThreads, <1>b DEF OrderlyInv, OwnFile, Unparsed, Reading, ReadPlaces
<1>7. NotUsers'
  BY <1>1 DEF OrderlyInv, NotUsers, Generating, Writing
<1>8. Storing'
  BY <1>1, <1>b DEF OrderlyInv, Storing
<1>9. Settled'
  <2>1. cache # None => cache.day \in Nat /\ cache.day <= day
    BY DEF OrderlyInv, Aligned, TypeInv, Entry, Days
  <2> QED BY <1>1, <2>1 DEF Settled, Current
<1> QED BY <1>2, <1>3, <1>4, <1>5, <1>6, <1>7, <1>8, <1>9 DEF Ordered

\* After a reset the file is parsed again.
LEMMA ResetKeeps ==
  ASSUME OrderlyInv, Reset, OneReader', OneWriter'
  PROVE  Ordered'
<1>a. "http" \in Threads /\ "http" \notin Regens /\ "http" # "task" /\ "task" \in Threads
  BY ConstantsOK DEF Threads
<1>1. /\ \A u \in Threads : pc'[u] = (IF u = "http" THEN "read" ELSE "idle") /\ job'[u] = NoJob
      /\ cache' = None /\ (starved' \/ tt' = Loaded(file, time'))
      /\ UNCHANGED <<cfg, day, file, tmp>>
  BY DEF Reset, Starting, NoJobs, diskVars
<1>b. file \in Headers \cup {None, Empty, Junk}
  BY DEF OrderlyInv, Drafts, NoTornFile, TypeInv, DiskTypes, Contents, Unreadable
<1>2. Roles'
  BY <1>1, <1>a DEF OrderlyInv, Roles, Writing, WritePlaces, Threads
<1>3. Aligned'
  BY <1>1 DEF OrderlyInv, Aligned, Recalculates
<1>4. Drafts'
  BY <1>1 DEF OrderlyInv, Drafts, Draft, NoTornFile
<1>5. Synced'
  <2>1. CASE file \in {None, Empty}
    BY <1>1, <2>1, NoneFacts, HeaderIs DEF Loaded, NoTable, Synced, MetaOf
  <2>2. CASE file = Junk
    BY <1>1, <2>2, NoneFacts, HeaderIs, OtherFiles DEF Loaded, NoTable, Synced, MetaOf, Unreadable
  <2>3. CASE file \in Headers
    <3>1. file \notin {None, Empty, Junk} /\ file \notin Unreadable
      BY <2>3, NoneFacts, HeaderIs DEF Unreadable
    <3> QED BY <1>1, <2>3, <3>1 DEF Loaded, NoTable, Synced, MetaOf
  <2> QED BY <1>b, <2>1, <2>2, <2>3
<1>6. OwnFile'
  BY <1>1, RegensAreThreads, <1>a DEF OrderlyInv, OwnFile, Unparsed, Reading, ReadPlaces
<1>7. NotUsers'
  BY <1>1 DEF OrderlyInv, NotUsers, Generating, Writing, WritePlaces
<1>8. Storing'
  BY <1>1 DEF OrderlyInv, Storing
<1>9. Settled'
  BY <1>1 DEF OrderlyInv, Settled, Current
<1> QED BY <1>2, <1>3, <1>4, <1>5, <1>6, <1>7, <1>8, <1>9 DEF Ordered

\* Nothing moves that Ordered speaks of.
LEMMA OrderedStill ==
  ASSUME OrderlyInv, UNCHANGED <<cfg, day, time, cache, tt, file, tmp, pc, job, failed, starved>>
  PROVE  Ordered'
BY DEF OrderlyInv, Ordered, Roles, Aligned, Recalculates, Drafts, Draft, Meant, NoTornFile, Synced,
       Replacing, Unparsed, Midway, OwnFile, NotUsers, Storing, Settled, GoodFile, Right, Current,
       Calculable, Generating, Reading, Writing

\* app_main is about to do the first recalculation, with no file.
LEMMA OrderedInit == Init => OrderlyInv
<1> SUFFICES ASSUME Init PROVE OrderlyInv
  OBVIOUS
<1>1. /\ \A u \in Threads : pc[u] = (IF u = "http" THEN "read" ELSE "idle") /\ job[u] = NoJob
      /\ cache = None /\ tt = NoTable /\ file = None
      /\ "http" \in Threads /\ "http" \notin Regens /\ "http" # "task" /\ "task" \in Threads
  BY ConstantsOK DEF Init, Starting, NoJobs, Loaded, Threads
<1>2. OneReader /\ OneWriter /\ Roles
  BY <1>1, RegensAreThreads
  DEF OneReader, OneWriter, Roles, Reading, Writing, ReadPlaces, WritePlaces
<1>3. Aligned /\ Drafts
  BY <1>1, NoneFacts DEF Aligned, Recalculates, Drafts, Draft, NoTornFile
<1>4. Synced
  BY <1>1 DEF Synced, MetaOf, NoTable
<1>5. OwnFile /\ NotUsers /\ Storing /\ Settled
  BY <1>1, RegensAreThreads
  DEF OwnFile, NotUsers, Storing, Settled, Generating, Reading, Writing, ReadPlaces, WritePlaces
<1> QED BY <1>2, <1>3, <1>4, <1>5, InitTypes, FlagInit DEF OrderlyInv

\* A step that collides with nothing leaves at most one reader and one writer, and does not change
\* the date or the configuration under a thread at work.
LEMMA OrderlyStep == OrderlyInv /\ [Next /\ Orderly]_vars => OrderlyInv'
<1> SUFFICES ASSUME OrderlyInv, [Next /\ Orderly]_vars PROVE OrderlyInv'
  OBVIOUS
<1>1. TypeInv' /\ FlagInv'
  BY TypeStep, FlagStep DEF OrderlyInv
<1>2. CASE UNCHANGED vars
  <2>1. Ordered'
    BY <1>2, OrderedStill DEF vars, clockVars, diskVars
  <2>2. OneReader' /\ OneWriter'
    BY <1>2 DEF vars, OrderlyInv, OneReader, OneWriter, Reading, Writing
  <2> QED BY <1>1, <2>1, <2>2 DEF OrderlyInv, Ordered
<1>3. CASE Next /\ Orderly
  <2>1. OneReader' /\ OneWriter'
    BY <1>3 DEF Orderly, Collision, OneReader, OneWriter
  <2>2. Quiet \/ UNCHANGED <<day, cfg>>
    BY <1>3 DEF Orderly, Collision
  <2>. SUFFICES Ordered'
    BY <1>1, <2>1 DEF OrderlyInv, Ordered
  <2>3. ASSUME NEW t \in Threads, ThreadStep(t) PROVE Ordered'
    <3>1. CASE \/ RecalcRead(t) \/ RecalcTest(t) \/ RecalcClaim(t) \/ (\E r \in Regens : RecalcSpawn(t, r))
               \/ RecalcSpawnFails(t) \/ RecalcStore(t)
      BY <2>1, <3>1, ReadKeeps, TestKeeps, ClaimKeeps, SpawnKeeps, SpawnFailsKeeps, StoreKeeps
    <3>2. CASE ParseHeader(t) \/ ParseStarves(t) \/ ParseDays(t)
      BY <2>1, <3>2, HeaderKeeps, StarvesKeeps, DaysKeeps
    <3>3. CASE \/ GenerateOpen(t) \/ GenerateFails(t) \/ WriteFile(t)
               \/ Rename(t) \/ RemoveOld(t) \/ RenameAgain(t)
      BY <2>1, <3>3, OpenKeeps, GenFailsKeeps, WrittenKeeps, RenameKeeps, RemoveKeeps
    <3> QED BY <2>3, <3>1, <3>2, <3>3 DEF ThreadStep
  <2>4. CASE HttpRequest
    <3>1. CASE HttpUploadAborts
      <4>1. /\ "http" \in Threads /\ pc["http"] \in {"rename", "write"} /\ job["http"].kind = "upload"
            /\ Finish("http") /\ tmp' = None
            /\ UNCHANGED <<cfg, clockVars, taskVars, cache, tt, file, failed, starved>>
        BY <3>1 DEF HttpUploadAborts, Threads
      <4> QED BY <2>1, <4>1, GiveUpKeeps
    <3>2. CASE ~ HttpUploadAborts
      BY <2>1, <2>2, <2>4, <3>2, ConfigKeeps, RegenerateKeeps, DeleteKeeps, UploadKeeps
      DEF HttpRequest
    <3> QED BY <3>1, <3>2
  <2>5. CASE TaskWake
    BY <2>1, <2>5, WakeKeeps
  <2>6. CASE Environment
    <3>1. CASE MinutePasses
      BY <3>1, OrderedStill DEF MinutePasses, diskVars
    <3>2. CASE ~ MinutePasses
      BY <2>1, <2>2, <2>6, <3>2, UpdateKeeps, MidnightKeeps, ResetKeeps DEF Environment
    <3> QED BY <3>1, <3>2
  <2> QED BY <1>3, <2>3, <2>4, <2>5, <2>6 DEF Next
<1> QED BY <1>2, <1>3

\* Without collisions the invariant of file and cache holds throughout.
LEMMA OrderlyThroughout == OrderlySpec => []OrderlyInv
BY OrderedInit, OrderlyStep, PTL DEF OrderlySpec

\* As long as nothing collides, the file that is parsed at boot is never one whose writer had not come
\* to its end (svc_timetable.c:544-628), wherever resets and failures fall. It may be one that the
\* flash had not taken all of: nobody checks that (svc_timetable.c:609-618, svc_http.c:760-764).
THEOREM FileIsNotTorn == OrderlySpec => []NoTornFile
<1>1. OrderlyInv => NoTornFile
  BY DEF OrderlyInv, Drafts
<1> QED BY <1>1, OrderlyThroughout, PTL

\* As long as nothing collides, a cache that claims to be today's has its times from where they should
\* come when nothing runs, nothing has failed since and parse_file() has not lacked memory
\* (svc_prayer_engine_service.c:319, svc_timetable.c:525): over any number of days, requests,
\* midnights and resets, and whatever the flash has not taken of a file.
THEOREM CacheIsRight == OrderlySpec => []QuietIsRight
<1>1. OrderlyInv => QuietIsRight
  BY DEF OrderlyInv, Settled, QuietIsRight, Quiet, GoodFile, Generating, Reading, Writing,
         ReadPlaces, WritePlaces
<1> QED BY <1>1, OrderlyThroughout, PTL

\* A step that takes the mosque's file away.
LEMMA UserFileStep ==
  ASSUME OrderlyInv, [Next /\ Orderly]_vars, ~ starved, file \in UserFiles, file' # file
  PROVE  (Writing("http") /\ job["http"].kind = "regenerate") \/ job'["http"].kind = "delete"
<1>1. file # None /\ "http" \in Threads
  BY NoneFacts DEF Threads
<1>2. Next
  BY DEF vars, diskVars
<1>3. ASSUME NEW t \in Threads, ThreadStep(t)
      PROVE  Writing("http") /\ job["http"].kind = "regenerate"
  <2>1. RemoveOld(t)
    BY <1>1, <1>3
    DEF ThreadStep, RecalcRead, RecalcTest, RecalcClaim, RecalcSpawn, RecalcSpawnFails, RecalcStore,
        ParseHeader, ParseStarves, ParseDays, GenerateOpen, GenerateFails, WriteFile, Rename, RenameAgain, Renamed,
        CanRename, diskVars
  <2>2. Generating(t)
    BY <2>1 DEF RemoveOld, OrderlyInv, Roles
  <2>3. t = "http"
    BY <2>2 DEF OrderlyInv, NotUsers
  <2> QED BY <2>2, <2>3 DEF Generating, OrderlyInv, Roles
<1>4. CASE HttpRequest
  <2>1. HttpDelete
    BY <1>4 DEF HttpRequest, HttpConfig, HttpRegenerate, HttpUpload, HttpUploadAborts, diskVars
  <2> DEFINE j == [NoJob EXCEPT !.kind = "delete"]
  <2>2. Move("http", "read", j) /\ j.kind = "delete"
    BY <2>1 DEF HttpDelete, Asked
  <2> HIDE DEF j
  <2>3. job'["http"] = j
    BY <1>1, <2>2, Moved DEF OrderlyInv, TypeInv
  <2> QED BY <2>2, <2>3
<1>5. ~ TaskWake /\ ~ Environment
  BY DEF TaskWake, Environment, TimeUpdate, Midnight, MinutePasses, Reset, diskVars
<1> QED BY <1>2, <1>3, <1>4, <1>5 DEF Next

\* As long as nothing collides, only a request of the web client replaces or removes the timetable the
\* mosque uploaded (svc_timetable.c:387-388, svc_http.c:766-770): no new year, no change of the
\* calculation, no reset and no other upload, over any number of them; unless parse_file() has lacked
\* memory since the reset.
THEOREM MosqueFileIsKept == OrderlySpec => UserFileKept
<1>1. OrderlyInv /\ [Next /\ Orderly]_vars
        => [~ starved /\ file \in UserFiles /\ file' # file
              => (Writing("http") /\ job["http"].kind = "regenerate") \/ job'["http"].kind = "delete"]_vars
  BY UserFileStep
<1> QED BY <1>1, OrderlyThroughout, PTL DEF OrderlySpec, UserFileKept
=============================================================================
