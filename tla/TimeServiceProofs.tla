------------------------- MODULE TimeServiceProofs -------------------------
(***************************************************************************)
(* Safety of the time service, for any tasks and faults and any sizes.     *)
(*                                                                         *)
(* Who holds s_sync_lock is the only one inside do_ntp_sync(), and with    *)
(* that LwIP's buffers are left alone and syncs are spaced. Then the       *)
(* types, for which the epoch of a sync must be shown to be usable.        *)
(*                                                                         *)
(* What follows a failed sync: the delays start again after a success, and *)
(* no failure is forgotten where the daily sync does not compete and       *)
(* s_state_lock comes in time.                                             *)
(*                                                                         *)
(* Which of the three clocks may be wrong while it is trusted: a snapshot  *)
(* shown as trusted is right, and the oscillator-stop flag is honest, up   *)
(* to the two exceptions of "tainted".                                     *)
(***************************************************************************)
EXTENDS TimeService, TLAPS

\* Where the tasks stand and who holds s_sync_lock: the part of TypeOK the argument needs.
Pcs == pc \in [Tasks -> Places] /\ syncLock \in Tasks \cup {NoTask}

\* s_sync_lock is held by the task that is inside run_ntp_sync(), and by no other.
OneSync == \A t \in Tasks : pc[t] \in Inside <=> syncLock = t

\* The inductive invariant of the sync.
SyncInv == Pcs /\ OneSync /\ BuffersQuiet /\ SyncsSpaced

\* The names the argument turns on: nobody is no task, the worker is one, and neither who rests
\* nor who asks for s_sync_lock is inside it.
LEMMA TaskFacts ==
  /\ NoTask \notin Tasks /\ "worker" \in Tasks
  /\ "idle" \notin Inside /\ "request" \notin Inside
  BY ConstantsOK DEF NoTask, Inside

\* What a task does inside the lock leaves every other task alone.
LEMMA SyncStepKeeps ==
  ASSUME SyncInv, NEW t \in Tasks, SyncStep(t)
  PROVE  SyncInv'
<1> USE DEF At, Go, StateFree, LockTimeout, Leave, NoTask
<1>0. /\ pc \in [Tasks -> Places] /\ syncLock \in Tasks \cup {"nobody"} /\ "nobody" \notin Tasks
      /\ \A u \in Tasks : pc[u] \in Inside <=> syncLock = u
  BY TaskFacts DEF SyncInv, Pcs, OneSync
<1>1. CASE SyncRequest(t)
  BY <1>0, <1>1 DEF SyncRequest, SyncInv, Pcs, OneSync, BuffersQuiet, SyncsSpaced, Inside, Places, netVars
<1>2. CASE SyncBegin(t)
  BY <1>0, <1>2 DEF SyncBegin, SyncInv, Pcs, OneSync, BuffersQuiet, SyncsSpaced, Inside, Places, netVars
<1>3. CASE SyncCollect(t)
  BY <1>0, <1>3 DEF SyncCollect, SyncInv, Pcs, OneSync, BuffersQuiet, SyncsSpaced, Inside, Places, netVars
<1>4. CASE SyncStart(t)
  BY <1>0, <1>4 DEF SyncStart, SyncInv, Pcs, OneSync, BuffersQuiet, SyncsSpaced, Inside, Places, lockVars
<1>5. CASE SyncStartFails(t)
  BY <1>0, <1>5 DEF SyncStartFails, Fail, SyncInv, Pcs, OneSync, BuffersQuiet, SyncsSpaced, Inside, Places
<1>6. CASE SyncAnswered(t)
  BY <1>0, <1>6 DEF SyncAnswered, SyncInv, Pcs, OneSync, BuffersQuiet, SyncsSpaced, Inside, Places, lockVars, netVars
<1>7. CASE SyncTimedOut(t)
  BY <1>0, <1>7 DEF SyncTimedOut, Fail, SyncInv, Pcs, OneSync, BuffersQuiet, SyncsSpaced, Inside, Places, netVars
<1>8. CASE SyncStamp(t)
  BY <1>0, <1>8 DEF SyncStamp, SyncInv, Pcs, OneSync, BuffersQuiet, SyncsSpaced, Inside, Places, lockVars, netVars
<1>9. CASE SyncWrite(t)
  BY <1>0, <1>9 DEF SyncWrite, SyncInv, Pcs, OneSync, BuffersQuiet, SyncsSpaced, Inside, Places, netVars
<1>10. CASE SyncClear(t)
  BY <1>0, <1>10 DEF SyncClear, SyncInv, Pcs, OneSync, BuffersQuiet, SyncsSpaced, Inside, Places, lockVars, netVars
<1>11. CASE SyncStore(t)
  BY <1>0, <1>11 DEF SyncStore, SyncInv, Pcs, OneSync, BuffersQuiet, SyncsSpaced, Inside, Places
<1>12. CASE SyncDone(t)
  BY <1>0, <1>12 DEF SyncDone, SyncInv, Pcs, OneSync, BuffersQuiet, SyncsSpaced, Inside, Places, netVars
<1>13. CASE ArmStart(t)
  BY <1>0, <1>13 DEF ArmStart, SyncInv, Pcs, OneSync, BuffersQuiet, SyncsSpaced, Inside, Places, lockVars, netVars
<1>14. CASE ArmBump(t)
  BY <1>0, <1>14 DEF ArmBump, SyncInv, Pcs, OneSync, BuffersQuiet, SyncsSpaced, Inside, Places, netVars
<1> QED BY <1>1, <1>2, <1>3, <1>4, <1>5, <1>6, <1>7, <1>8, <1>9, <1>10, <1>11, <1>12, <1>13, <1>14
           DEF SyncStep

\* The worker moves about outside the lock only, and hands the daily task, at rest, its request.
LEMMA WorkerStepKeeps ==
  ASSUME SyncInv, WorkerStep \/ TimerFires \/ ManualSync
  PROVE  SyncInv'
<1> USE DEF At, Go, StateFree
<1>0. /\ pc \in [Tasks -> Places] /\ \A u \in Tasks : pc[u] \in Inside <=> syncLock = u
  BY DEF SyncInv, Pcs, OneSync
<1>1. UNCHANGED <<syncLock, session, fresh>>
  BY DEF WorkerStep, TimerFires, ManualSync, WorkerEvent, WorkerCancel, WorkerStop, TickSnapshot,
         TickPeriodic, HourlyRead, HourlyCheck, HourlySet, TickDaily, lockVars, netVars
<1> DEFINE Outside == Places \ Inside
<1>2. /\ pc' \in [Tasks -> Places]
      /\ \A u \in Tasks : pc'[u] = pc[u] \/ (pc[u] \in Outside /\ pc'[u] \in Outside)
  <2>1. CASE TimerFires \/ ManualSync
    BY <1>0, <2>1 DEF TimerFires, ManualSync, Places, Inside
  <2>2. CASE WorkerEvent \/ WorkerCancel \/ WorkerStop \/ TickSnapshot \/ TickPeriodic
    BY <1>0, <2>2 DEF WorkerEvent, WorkerCancel, WorkerStop, TickSnapshot, TickPeriodic, Places,
                      Inside
  <2>3. CASE HourlyRead \/ HourlyCheck \/ HourlySet
    BY <1>0, <2>3 DEF HourlyRead, HourlyCheck, HourlySet, Places, Inside
  <2>4. CASE TickDaily
    BY <1>0, <2>4 DEF TickDaily, Places, Inside
  <2> QED BY <2>1, <2>2, <2>3, <2>4 DEF WorkerStep
<1>3. \A u \in Tasks : pc'[u] \in Inside => pc'[u] = pc[u]
  BY <1>2
<1>4. \A u \in Tasks : pc'[u] \in Inside <=> pc[u] \in Inside
  BY <1>2
<1>5. Pcs' /\ OneSync'
  BY <1>0, <1>1, <1>2, <1>4 DEF SyncInv, Pcs, OneSync
<1>6. BuffersQuiet'
  BY <1>1, <1>3 DEF SyncInv, BuffersQuiet, Inside
<1>7. SyncsSpaced'
  BY <1>1, <1>3 DEF SyncInv, SyncsSpaced, LockTimeout
<1> QED BY <1>5, <1>6, <1>7 DEF SyncInv

\* An answer needs a session, which nobody at "collect" or "start" leaves, and time can only make
\* a sync stale.
LEMMA EnvironmentKeeps ==
  ASSUME SyncInv, Environment
  PROVE  SyncInv'
<1> USE DEF SyncInv, Pcs, OneSync, BuffersQuiet, SyncsSpaced, LockTimeout
<1>1. CASE SntpAnswer
  BY <1>1 DEF SntpAnswer, lockVars
<1>2. CASE NetworkUp \/ SetServer \/ \E e \in {"up", "down"} : LinkEvent(e)
  BY <1>2 DEF NetworkUp, SetServer, LinkEvent, lockVars
<1>3. CASE TimePasses
  BY <1>3 DEF TimePasses, lockVars
<1>4. CASE Reset
  BY <1>4, TaskFacts DEF Reset, Places, Inside, NoTask
<1> QED BY <1>1, <1>2, <1>3, <1>4 DEF Environment

\* The invariant holds of the started service and through every step, a restart of the chip in
\* the middle of a sync included.
THEOREM SyncHolds == Spec => []SyncInv
<1>1. Init => SyncInv
  BY TaskFacts DEF Init, SyncInv, Pcs, OneSync, BuffersQuiet, SyncsSpaced, Places, Inside, NoTask
<1>2. SyncInv /\ [Next]_vars => SyncInv'
  <2> SUFFICES ASSUME SyncInv, [Next]_vars PROVE SyncInv'
    OBVIOUS
  <2>1. CASE \E t \in Tasks : SyncStep(t)
    BY <2>1, SyncStepKeeps
  <2>2. CASE WorkerStep \/ TimerFires \/ ManualSync
    BY <2>2, WorkerStepKeeps
  <2>3. CASE Environment
    BY <2>3, EnvironmentKeeps
  <2>4. CASE UNCHANGED vars
    BY <2>4 DEF vars, lockVars, netVars, SyncInv, Pcs, OneSync, BuffersQuiet, SyncsSpaced,
                LockTimeout
  <2> QED BY <2>1, <2>2, <2>3, <2>4 DEF Next
<1> QED BY <1>1, <1>2, PTL DEF Spec

\* s_lwip_servers is never rewritten under an SNTP session: who rewrites it has stopped the
\* session, and only the holder of s_sync_lock starts one.
THEOREM BuffersLeftAlone == Spec => []BuffersQuiet
  BY SyncHolds, PTL DEF SyncInv

\* Nobody asks a server within the freshness window of the last sync, since who would set the
\* window anew is the holder of s_sync_lock, at the end of its own sync.
THEOREM SyncsAreSpaced == Spec => []SyncsSpaced
  BY SyncHolds, PTL DEF SyncInv

-----------------------------------------------------------------------------
(* Types *)

\* The flags of TypeOK, one by one, and the rest of it.
Flags ==
  /\ anyServer \in BOOLEAN /\ ready \in BOOLEAN /\ fresh \in BOOLEAN /\ armed \in BOOLEAN
  /\ connected \in BOOLEAN /\ hourDue \in BOOLEAN /\ dailyDue \in BOOLEAN /\ osf \in BOOLEAN
  /\ owed \in BOOLEAN /\ tainted \in BOOLEAN

\* Where the tasks stand and who holds the locks.
Standing ==
  /\ pc \in [Tasks -> Places]
  /\ syncLock \in Tasks \cup {NoTask} /\ stateLock \in Tasks \cup {NoTask}

\* The two indices into k_backoff_ms and the count of failures.
Backoff == delay \in 1 .. Steps /\ idx \in 1 .. Steps /\ fails \in 0 .. Steps

\* The SNTP session and the worker's mailbox.
Links == /\ session \in {"none", "silent", "asking", "answered"}
         /\ mailbox \in Seq({"up", "down"}) /\ Len(mailbox) <= MailboxLen

\* The three clocks and the readings taken of them.
Clocks == /\ rtc \in {"true", "off", "absent"}
          /\ sys \in Reading /\ epoch \in Reading /\ seenRtc \in {"true", "off"}
          /\ snap \in Snapshot

\* time() is read after an SNTP answer only, and what it returned is a time ever since: the epoch a
\* sync writes into the RTC never counts from power-up.
Usable == /\ session = "answered" => sys # "unset"
          /\ \A t \in Tasks : /\ pc[t] = "stamp" => sys # "unset"
                              /\ pc[t] = "write" => epoch # "unset"

\* TypeOK is these five groups.
LEMMA TypeParts == TypeOK <=> Flags /\ Standing /\ Backoff /\ Links /\ Clocks
<1> DEFINE Set == {anyServer, ready, fresh, armed, connected, hourDue, dailyDue, osf, owed, tainted}
<1>1. Flags <=> Set \subseteq BOOLEAN
  BY ZenonT(60) DEF Flags
<1>2. {sys, epoch} \subseteq Reading <=> sys \in Reading /\ epoch \in Reading
  BY Zenon
<1>3. TypeOK <=> Set \subseteq BOOLEAN /\ Standing /\ Backoff /\ Links
                   /\ rtc \in {"true", "off", "absent"} /\ {sys, epoch} \subseteq Reading
                   /\ seenRtc \in {"true", "off"} /\ snap \in Snapshot
  <2> HIDE DEF Set
  <2>1. Set = {anyServer, ready, fresh, armed, connected, hourDue, dailyDue, osf, owed, tainted}
    BY DEF Set
  <2> QED BY <2>1, Zenon DEF TypeOK, Standing, Backoff, Links
<1> HIDE DEF Set
<1> QED BY <1>1, <1>2, <1>3, Zenon DEF Clocks

\* Whatever load_initial_time_from_rtc() makes of the RTC is a snapshot.
LEMMA LoadedTyped ==
  ASSUME NEW r \in {"true", "off", "absent"}, NEW flag, NEW x \in LoadedFrom(r, flag)
  PROVE  x \in Snapshot
<1>1. CASE x = Unsynced
  BY <1>1 DEF Unsynced, Snapshot, Reading
<1>2. CASE x # Unsynced
  <2>1. r # "absent"
    BY <1>2 DEF LoadedFrom
  <2>2. x \in {[state |-> "RTC_ONLY", utc |-> r, valid |-> TRUE, untrusted |-> u] :
                 u \in IF flag THEN {TRUE} ELSE BOOLEAN}
    <3>1. (IF "rtc_read" \in Faults THEN {Unsynced} ELSE {}) \subseteq {Unsynced}
      OBVIOUS
    <3> QED BY <1>2, <2>1, <3>1, Zenon DEF LoadedFrom
  <2>3. PICK u \in IF flag THEN {TRUE} ELSE BOOLEAN :
               x = [state |-> "RTC_ONLY", utc |-> r, valid |-> TRUE, untrusted |-> u]
    BY <2>2, Zenon
  <2>4. u \in BOOLEAN
    BY <2>3, Zenon
  <2> QED BY <2>1, <2>3, <2>4 DEF Snapshot, Reading
<1> QED BY <1>1, <1>2

\* Every component of the started service has its type, with an RTC or without.
LEMMA InitTyped == Init => TypeOK
<1> SUFFICES ASSUME Init PROVE Flags /\ Standing /\ Backoff /\ Links /\ Clocks
  BY TypeParts
<1>1. Clocks
  <2>1. rtc \in {"true", "off", "absent"}
    BY DEF Init
  <2>2. snap \in Snapshot
    BY <2>1, LoadedTyped DEF Init
  <2> QED BY <2>1, <2>2 DEF Init, Reading, Clocks
<1>2. Links
  BY ConstantsOK DEF Init, Links
<1>3. Standing
  BY DEF Init, Standing, Places
<1>4. Backoff
  BY ConstantsOK DEF Init, Backoff
<1>5. Flags
  BY Zenon DEF Init, Flags
<1> QED BY <1>1, <1>2, <1>3, <1>4, <1>5

\* No step sends a task to a place that is none, or gives a lock to anything but a task.
LEMMA StandingKept == TypeOK /\ Next => Standing'
<1> SUFFICES ASSUME TypeOK, Next PROVE Standing'
  OBVIOUS
<1>0. Standing
  BY TypeParts
<1> USE DEF Standing, At, Go, Leave, Fail, Places, Inside, lockVars
<1>1. ASSUME NEW t \in Tasks, SyncStep(t) PROVE Standing'
  <2>1. CASE SyncRequest(t) \/ SyncBegin(t) \/ SyncCollect(t) \/ SyncStart(t)
    BY <1>0, <2>1 DEF SyncRequest, SyncBegin, SyncCollect, SyncStart
  <2>2. CASE SyncStartFails(t) \/ SyncAnswered(t) \/ SyncTimedOut(t) \/ SyncStamp(t)
    BY <1>0, <2>2 DEF SyncStartFails, SyncAnswered, SyncTimedOut, SyncStamp
  <2>3. CASE SyncClear(t) \/ SyncStore(t) \/ SyncDone(t) \/ ArmStart(t) \/ ArmBump(t)
    BY <1>0, <2>3 DEF SyncClear, SyncStore, SyncDone, ArmStart, ArmBump
  <2>4. CASE SyncWrite(t)
    <3>1. /\ syncLock' = syncLock /\ stateLock' \in {t, stateLock}
          /\ \E place \in {"clear", "store", "arm"} : pc' = [pc EXCEPT ![t] = place]
      BY <2>4, Zenon DEF SyncWrite
    <3> QED BY <1>0, <3>1
  <2> QED BY <1>1, <2>1, <2>2, <2>3, <2>4 DEF SyncStep
<1>2. CASE WorkerStep
  BY <1>0, <1>2 DEF WorkerStep, WorkerEvent, WorkerCancel, WorkerStop, TickSnapshot, TickPeriodic,
                    HourlyRead, HourlyCheck, HourlySet, TickDaily
<1>3. CASE TimerFires \/ ManualSync
  BY <1>0, <1>3 DEF TimerFires, ManualSync
<1>4. CASE Environment
  BY <1>0, <1>4 DEF Environment, SntpAnswer, NetworkUp, SetServer, TimePasses, Reset, LinkEvent
<1> QED BY <1>1, <1>2, <1>3, <1>4 DEF Next

\* The index into k_backoff_ms stays in the table, though two tasks write it.
LEMMA BackoffKept == TypeOK /\ Next => Backoff'
<1> SUFFICES ASSUME TypeOK, Next PROVE Backoff'
  OBVIOUS
<1>0. Backoff
  BY TypeParts
<1> USE ConstantsOK DEF Backoff, timerVars
<1>1. ASSUME NEW t \in Tasks, SyncStep(t) PROVE Backoff'
  <2>1. CASE SyncRequest(t) \/ SyncBegin(t) \/ SyncCollect(t) \/ SyncStart(t)
    BY <1>0, <2>1 DEF SyncRequest, SyncBegin, SyncCollect, SyncStart
  <2>2. CASE SyncStartFails(t) \/ SyncAnswered(t) \/ SyncTimedOut(t) \/ SyncStamp(t)
    BY <1>0, <2>2 DEF SyncStartFails, SyncAnswered, SyncTimedOut, SyncStamp
  <2>3. CASE SyncDone(t)
    BY <1>0, <2>3 DEF SyncDone
  <2>5. CASE SyncWrite(t) \/ SyncClear(t) \/ SyncStore(t)
    <3>1. UNCHANGED <<delay, idx, fails>>
      BY <2>5, Zenon DEF SyncWrite, SyncClear, SyncStore
    <3> QED BY <1>0, <3>1
  <2>4. CASE ArmStart(t) \/ ArmBump(t)
    BY <1>0, <2>4 DEF ArmStart, ArmBump
  <2> QED BY <1>1, <2>1, <2>2, <2>3, <2>4, <2>5 DEF SyncStep
<1>2. CASE WorkerStep
  BY <1>0, <1>2 DEF WorkerStep, WorkerEvent, WorkerCancel, WorkerStop, TickSnapshot, TickPeriodic,
                    HourlyRead, HourlyCheck, HourlySet, TickDaily
<1>3. CASE TimerFires \/ ManualSync
  BY <1>0, <1>3 DEF TimerFires, ManualSync
<1>4. CASE Environment
  BY <1>0, <1>4 DEF Environment, SntpAnswer, NetworkUp, SetServer, TimePasses, Reset, LinkEvent
<1> QED BY <1>1, <1>2, <1>3, <1>4 DEF Next

\* The mailbox of the worker never exceeds its length.
LEMMA LinksKept == TypeOK /\ Next => Links'
<1> SUFFICES ASSUME TypeOK, Next PROVE Links'
  OBVIOUS
<1>0. Links
  BY TypeParts
<1> USE ConstantsOK DEF Links, netVars
<1>1. ASSUME NEW t \in Tasks, SyncStep(t) PROVE Links'
  BY <1>0, <1>1 DEF SyncStep, SyncRequest, SyncBegin, SyncCollect, SyncStart, SyncStartFails,
     SyncAnswered, SyncTimedOut, SyncStamp, SyncWrite, SyncClear, SyncStore, SyncDone, ArmStart,
     ArmBump
<1>2. CASE WorkerEvent
  BY <1>0, <1>2 DEF WorkerEvent
<1>3. CASE WorkerStep /\ ~ WorkerEvent
  BY <1>0, <1>3 DEF WorkerStep, WorkerCancel, WorkerStop, TickSnapshot, TickPeriodic,
                    HourlyRead, HourlyCheck, HourlySet, TickDaily
<1>4. CASE TimerFires \/ ManualSync
  BY <1>0, <1>4 DEF TimerFires, ManualSync
<1>5. CASE Environment
  <2>1. ASSUME NEW e \in {"up", "down"}, LinkEvent(e) PROVE Links'
    BY <1>0, <2>1 DEF LinkEvent
  <2>2. CASE SntpAnswer \/ NetworkUp \/ SetServer \/ TimePasses
    BY <1>0, <2>2 DEF SntpAnswer, NetworkUp, SetServer, TimePasses
  <2>3. CASE Reset
    BY <2>3 DEF Reset
  <2> QED BY <1>5, <2>1, <2>2, <2>3 DEF Environment
<1> QED BY <1>1, <1>2, <1>3, <1>4, <1>5 DEF Next

\* Clocks and snapshot are written with readings of each other only.
LEMMA ClocksKept == TypeOK /\ Usable /\ Next => Clocks'
<1> SUFFICES ASSUME TypeOK, Usable, Next PROVE Clocks'
  OBVIOUS
<1>0. Clocks
  BY TypeParts
<1> USE DEF clockVars, workVars
<1>1. ASSUME NEW t \in Tasks, SyncStep(t) PROVE Clocks'
  <2>1. CASE SyncStore(t)
    BY <1>0, <2>1 DEF SyncStore, Snapshot, Clocks
  <2>2. CASE SyncStamp(t) \/ SyncClear(t)
    BY <1>0, <2>2 DEF SyncStamp, SyncClear, Clocks, Reading
  <2>5. CASE SyncWrite(t)
    <3>1. UNCHANGED <<sys, epoch, seenRtc, snap>> /\ rtc' \in {rtc, epoch}
      BY <2>5, Zenon DEF SyncWrite
    <3>2. epoch # "unset"
      BY <1>1, <2>5 DEF SyncWrite, At, Usable
    <3> QED BY <1>0, <3>1, <3>2 DEF Clocks, Reading
  <2>3. CASE SyncRequest(t) \/ SyncBegin(t) \/ SyncCollect(t) \/ SyncStart(t) \/ SyncStartFails(t)
    BY <1>0, <2>3 DEF SyncRequest, SyncBegin, SyncCollect, SyncStart, SyncStartFails, Clocks
  <2>4. CASE SyncAnswered(t) \/ SyncTimedOut(t) \/ SyncDone(t) \/ ArmStart(t) \/ ArmBump(t)
    BY <1>0, <2>4 DEF SyncAnswered, SyncTimedOut, SyncDone, ArmStart, ArmBump, Clocks
  <2> QED BY <1>1, <2>1, <2>2, <2>3, <2>4, <2>5 DEF SyncStep
<1>2. CASE TickSnapshot
  <2>1. UNCHANGED <<rtc, sys, epoch, seenRtc>>
    BY <1>2 DEF TickSnapshot
  <2>2. PICK r \in Reading : snap' = [snap EXCEPT !.utc = r, !.valid = TRUE]
    BY <1>0, <1>2 DEF TickSnapshot, Clocks, Reading
  <2>3. snap' \in Snapshot
    BY <1>0, <2>2 DEF Snapshot, Clocks
  <2> QED BY <1>0, <2>1, <2>3 DEF Clocks
<1>3. CASE WorkerStep /\ ~ TickSnapshot
  BY <1>0, <1>3 DEF WorkerStep, WorkerEvent, WorkerCancel, WorkerStop, TickPeriodic, HourlyRead,
                    HourlyCheck, HourlySet, TickDaily, Clocks, Reading
<1>4. CASE TimerFires \/ ManualSync
  BY <1>0, <1>4 DEF TimerFires, ManualSync, Clocks
<1>5. CASE Environment
  <2>1. CASE Reset
    <3>1. rtc' \in {"true", "off", "absent"} /\ snap' \in LoadedFrom(rtc', osf')
      BY <1>0, <2>1 DEF Reset, Clocks
    <3>2. snap' \in Snapshot
      BY <3>1, LoadedTyped
    <3> QED BY <1>0, <2>1, <3>1, <3>2 DEF Reset, Reading, Clocks
  <2>2. CASE SntpAnswer
    BY <1>0, <2>2 DEF SntpAnswer, Clocks, Reading
  <2>3. CASE NetworkUp \/ SetServer \/ TimePasses \/ \E e \in {"up", "down"} : LinkEvent(e)
    BY <1>0, <2>3 DEF NetworkUp, SetServer, TimePasses, LinkEvent, Clocks
  <2> QED BY <1>5, <2>1, <2>2, <2>3 DEF Environment
<1> QED BY <1>1, <1>2, <1>3, <1>4, <1>5 DEF Next

\* A sync reads time() only after an answer, and until it has written that reading to the RTC
\* nobody takes the clock back to power-up but a reset, which ends the sync.
LEMMA UsableKept == TypeOK /\ Usable /\ Next => Usable'
<1> SUFFICES ASSUME TypeOK, Usable, Next PROVE Usable'
  OBVIOUS
<1>0. Standing /\ Clocks
  BY TypeParts
<1> USE DEF Usable, At, Go, Leave, Fail, Standing, clockVars, netVars, workVars
<1>1. ASSUME NEW t \in Tasks, SyncStep(t) PROVE Usable'
  <2>1. CASE SyncRequest(t) \/ SyncBegin(t) \/ SyncCollect(t) \/ SyncStart(t)
    BY <1>0, <2>1 DEF SyncRequest, SyncBegin, SyncCollect, SyncStart
  <2>2. CASE SyncStartFails(t) \/ SyncAnswered(t) \/ SyncTimedOut(t) \/ SyncStamp(t)
    BY <1>0, <2>2 DEF SyncStartFails, SyncAnswered, SyncTimedOut, SyncStamp
  <2>3. CASE SyncClear(t) \/ SyncStore(t) \/ SyncDone(t) \/ ArmStart(t) \/ ArmBump(t)
    BY <1>0, <2>3 DEF SyncClear, SyncStore, SyncDone, ArmStart, ArmBump
  <2>4. CASE SyncWrite(t)
    <3>1. /\ UNCHANGED <<sys, epoch, session>>
          /\ \E place \in {"clear", "store", "arm"} : pc' = [pc EXCEPT ![t] = place]
      BY <2>4, Zenon DEF SyncWrite
    <3> QED BY <1>0, <3>1
  <2> QED BY <1>1, <2>1, <2>2, <2>3, <2>4 DEF SyncStep
<1>2. CASE WorkerStep
  BY <1>0, <1>2 DEF WorkerStep, WorkerEvent, WorkerCancel, WorkerStop, TickSnapshot, TickPeriodic,
                    HourlyRead, HourlyCheck, HourlySet, TickDaily, Clocks
<1>3. CASE TimerFires \/ ManualSync
  BY <1>0, <1>3 DEF TimerFires, ManualSync
<1>4. CASE Environment
  BY <1>0, <1>4 DEF Environment, SntpAnswer, NetworkUp, SetServer, TimePasses, Reset, LinkEvent
<1> QED BY <1>1, <1>2, <1>3, <1>4 DEF Next

\* The flags of the service are Boolean whoever writes them.
LEMMA FlagsKept == TypeOK /\ Next => Flags'
<1> SUFFICES ASSUME TypeOK, Next PROVE Flags'
  OBVIOUS
<1>0. Flags
  BY TypeParts
<1> USE DEF Flags
<1>1. ASSUME NEW t \in Tasks, SyncStep(t) PROVE Flags'
  <2>1. CASE SyncRequest(t)
    BY <1>0, <2>1, Zenon DEF SyncRequest, timerVars, workVars, clockVars, netVars
  <2>2. CASE SyncBegin(t)
    BY <1>0, <2>2, Zenon DEF SyncBegin, timerVars, workVars, clockVars
  <2>3. CASE SyncCollect(t)
    BY <1>0, <2>3, Zenon DEF SyncCollect, timerVars, workVars, clockVars, netVars
  <2>4. CASE SyncStart(t)
    BY <1>0, <2>4, Zenon DEF SyncStart, timerVars, workVars, clockVars
  <2>5. CASE SyncAnswered(t)
    BY <1>0, <2>5, Zenon DEF SyncAnswered, timerVars, workVars, clockVars, netVars
  <2>6. CASE SyncStamp(t)
    BY <1>0, <2>6, Zenon DEF SyncStamp, timerVars, workVars, netVars
  <2>7. CASE SyncClear(t)
    BY <1>0, <2>7, Zenon DEF SyncClear, timerVars, workVars, netVars
  <2>8. CASE SyncStore(t)
    BY <1>0, <2>8, Zenon DEF SyncStore, workVars
  <2>9. CASE SyncDone(t)
    BY <1>0, <2>9, Zenon DEF SyncDone, workVars, clockVars, netVars
  <2>10. CASE ArmStart(t)
    BY <1>0, <2>10, Zenon DEF ArmStart, workVars, clockVars, netVars
  <2>11. CASE ArmBump(t)
    BY <1>0, <2>11, Zenon DEF ArmBump, workVars, clockVars, netVars
  <2>12. CASE SyncStartFails(t) \/ SyncTimedOut(t)
    <3>1. owed' \in {owed, TRUE}
      BY <2>12, Zenon DEF SyncStartFails, SyncTimedOut, Fail
    <3>2. UNCHANGED <<anyServer, ready, fresh, armed, connected, hourDue, dailyDue, osf, tainted>>
      BY <2>12, Zenon DEF SyncStartFails, SyncTimedOut, workVars, clockVars, netVars
    <3> QED BY <1>0, <3>1, <3>2, Zenon
  <2>13. CASE SyncWrite(t)
    <3>1. UNCHANGED <<anyServer, ready, fresh, armed, connected, hourDue, dailyDue, osf>>
      BY <2>13, Zenon DEF SyncWrite, workVars, netVars
    <3>2. owed' \in BOOLEAN
      BY <1>0, <2>13, Zenon DEF SyncWrite
    <3>3. tainted' \in BOOLEAN
      BY <1>0, <2>13, Zenon DEF SyncWrite
    <3> QED BY <1>0, <3>1, <3>2, <3>3, Zenon
  <2> QED BY <1>1, <2>1, <2>2, <2>3, <2>4, <2>5, <2>6, <2>7, <2>8, <2>9, <2>10, <2>11, <2>12, <2>13 DEF SyncStep
<1>2. CASE WorkerStep
  <2>1. CASE WorkerEvent
    BY <1>0, <2>1, Zenon DEF WorkerEvent, timerVars, clockVars
  <2>2. CASE WorkerCancel
    BY <1>0, <2>2, Zenon DEF WorkerCancel, workVars, clockVars, netVars
  <2>3. CASE WorkerStop
    BY <1>0, <2>3, Zenon DEF WorkerStop, workVars, clockVars, netVars
  <2>4. CASE TickSnapshot
    BY <1>0, <2>4, Zenon DEF TickSnapshot, timerVars, workVars, netVars
  <2>5. CASE TickPeriodic
    BY <1>0, <2>5, Zenon DEF TickPeriodic, timerVars, clockVars, netVars
  <2>6. CASE HourlyRead
    BY <1>0, <2>6, Zenon DEF HourlyRead, timerVars, clockVars, netVars
  <2>7. CASE HourlyCheck
    BY <1>0, <2>7, Zenon DEF HourlyCheck, timerVars, workVars, clockVars, netVars
  <2>8. CASE HourlySet
    BY <1>0, <2>8, Zenon DEF HourlySet, Spoils, timerVars, workVars, netVars
  <2>9. CASE TickDaily
    BY <1>0, <2>9, Zenon DEF TickDaily, timerVars, clockVars, netVars
  <2> QED BY <1>2, <2>1, <2>2, <2>3, <2>4, <2>5, <2>6, <2>7, <2>8, <2>9 DEF WorkerStep
<1>3. CASE TimerFires
  BY <1>0, <1>3, Zenon DEF TimerFires, workVars, clockVars, netVars
<1>4. CASE ManualSync
  BY <1>0, <1>4, Zenon DEF ManualSync, timerVars, workVars, clockVars, netVars
<1>5. CASE Environment
  <2>1. CASE SntpAnswer
    BY <1>0, <2>1, Zenon DEF SntpAnswer, timerVars, workVars
  <2>2. CASE NetworkUp
    BY <1>0, <2>2, Zenon DEF NetworkUp, timerVars, workVars, clockVars
  <2>3. CASE SetServer
    BY <1>0, <2>3, Zenon DEF SetServer, timerVars, workVars, clockVars
  <2>4. CASE TimePasses
    BY <1>0, <2>4, Zenon DEF TimePasses, timerVars, clockVars
  <2>5. CASE Reset
    BY <1>0, <2>5, Zenon DEF Reset
  <2>6. ASSUME NEW e \in {"up", "down"}, LinkEvent(e) PROVE Flags'
    BY <1>0, <2>6, Zenon DEF LinkEvent, timerVars, workVars, clockVars
  <2> QED BY <1>5, <2>1, <2>2, <2>3, <2>4, <2>5, <2>6 DEF Environment
<1> QED BY <1>1, <1>2, <1>3, <1>4, <1>5 DEF Next

\* Clocks, locks, backoff index and mailbox always have their types, and an epoch that counts from
\* power-up is never written to the RTC.
THEOREM TypeHolds == Spec => [](TypeOK /\ Usable)
<1>1. Init => TypeOK /\ Usable
  BY InitTyped DEF Init, Usable
<1>2. TypeOK /\ Usable /\ [Next]_vars => TypeOK' /\ Usable'
  <2> SUFFICES ASSUME TypeOK, Usable, [Next]_vars PROVE TypeOK' /\ Usable'
    OBVIOUS
  <2>1. CASE Next
    <3>1. Flags' /\ Standing' /\ Backoff' /\ Links' /\ Clocks'
      BY <2>1, FlagsKept, StandingKept, BackoffKept, LinksKept, ClocksKept
    <3>2. TypeOK'
      BY <3>1, TypeParts, PTL
    <3> QED BY <2>1, <3>2, UsableKept
  <2>2. CASE UNCHANGED vars
    BY <2>2, Zenon DEF vars, lockVars, timerVars, workVars, clockVars, netVars, TypeOK, Usable
  <2> QED BY <2>1, <2>2
<1> QED BY <1>1, <1>2, PTL DEF Spec

\* TypeOK by itself: the property the runs check.
THEOREM TypeCorrect == Spec => []TypeOK
  BY TypeHolds, PTL

-----------------------------------------------------------------------------
(* After a failed sync *)

\* What the steps of the retry start from: types, and who is inside s_sync_lock.
Base == TypeOK /\ SyncInv

\* Base, spelled out as far as it is needed.
LEMMA BaseFacts ==
  ASSUME Base
  PROVE  /\ pc \in [Tasks -> Places] /\ \A u \in Tasks : pc[u] \in Inside <=> syncLock = u
         /\ delay \in 1 .. Steps /\ idx \in 1 .. Steps /\ fails \in 0 .. Steps
         /\ Steps \in Nat \ {0}
  BY TypeParts, ConstantsOK DEF Base, Standing, Backoff, SyncInv, OneSync

\* Two tasks are never inside the lock together.
LEMMA Alone ==
  ASSUME Base, NEW t \in Tasks, pc[t] \in Inside, NEW u \in Tasks, pc[u] \in Inside
  PROVE  u = t
  BY BaseFacts

-----------------------------------------------------------------------------
(* The delays start again *)

\* s_backoff_idx is at most one step ahead of the failures, and not ahead at all in the middle of
\* arm_backoff(), where the task that holds the lock has counted its failure but not raised it.
DelayInv ==
  /\ idx <= fails + 1
  /\ \A t \in Tasks : pc[t] = "bump" => idx <= fails
  /\ BackoffRestarts

\* A sync arms the timer with at most the step its failures allow.
LEMMA SyncStepDelay ==
  ASSUME Base, DelayInv, NEW t \in Tasks, SyncStep(t)
  PROVE  DelayInv'
<1> USE BaseFacts DEF DelayInv, BackoffRestarts, At, Go, Leave, Fail, timerVars
<1>1. CASE SyncRequest(t) \/ SyncBegin(t) \/ SyncCollect(t) \/ SyncStart(t)
  BY <1>1 DEF SyncRequest, SyncBegin, SyncCollect, SyncStart
<1>2. CASE SyncStartFails(t) \/ SyncAnswered(t) \/ SyncTimedOut(t) \/ SyncStamp(t)
  BY <1>2 DEF SyncStartFails, SyncAnswered, SyncTimedOut, SyncStamp
<1>3. CASE SyncWrite(t) \/ SyncClear(t) \/ SyncStore(t)
  <2>1. /\ UNCHANGED <<armed, delay, idx, fails>>
        /\ \E place \in {"clear", "store", "arm", "done"} : pc' = [pc EXCEPT ![t] = place]
    BY <1>3, Zenon DEF SyncWrite, SyncClear, SyncStore
  <2> QED BY <2>1
<1>4. CASE SyncDone(t)
  BY <1>4, Alone DEF SyncDone, Inside
<1>5. CASE ArmStart(t)
  BY <1>5 DEF ArmStart
<1>6. CASE ArmBump(t)
  BY <1>6, Alone DEF ArmBump, Inside
<1> QED BY <1>1, <1>2, <1>3, <1>4, <1>5, <1>6 DEF SyncStep

\* Nobody else raises the index or the delay, and resetting the index is always safe.
LEMMA OtherStepDelay ==
  ASSUME Base, DelayInv, WorkerStep \/ TimerFires \/ ManualSync \/ Environment
  PROVE  DelayInv'
<1> USE BaseFacts DEF DelayInv, BackoffRestarts, At, Go, timerVars
<1>1. CASE WorkerStep
  BY <1>1 DEF WorkerStep, WorkerEvent, WorkerCancel, WorkerStop, TickSnapshot, TickPeriodic,
              HourlyRead, HourlyCheck, HourlySet, TickDaily
<1>2. CASE TimerFires \/ ManualSync
  BY <1>2 DEF TimerFires, ManualSync
<1>3. CASE Environment
  BY <1>3 DEF Environment, SntpAnswer, NetworkUp, SetServer, TimePasses, Reset, LinkEvent
<1> QED BY <1>1, <1>2, <1>3

\* After a success the delays start again at the first step, although the worker resets
\* s_backoff_idx without a lock in the middle of another task's arm_backoff().
THEOREM DelaysRestart == Spec => []BackoffRestarts
<1>1. Init => DelayInv
  BY DEF Init, DelayInv, BackoffRestarts
<1>2. Base /\ DelayInv /\ [Next]_vars => DelayInv'
  <2>1. ASSUME UNCHANGED vars, DelayInv PROVE DelayInv'
    BY <2>1 DEF vars, timerVars, DelayInv, BackoffRestarts
  <2> QED BY <2>1, SyncStepDelay, OtherStepDelay DEF Next
<1>3. Spec => []Base
  BY TypeHolds, SyncHolds, PTL DEF Base
<1> QED BY <1>1, <1>2, <1>3, PTL DEF Spec, DelayInv

-----------------------------------------------------------------------------
(* No failure is forgotten *)

\* Where no task but the daily one loses a failure: see RetryPending in the README.
NoneLost == "daily" \notin Tasks /\ ~ LockTimeout

\* The tasks on the way to an attempt that are not inside the lock.
Coming == {"cancel", "stop", "request"}

\* While a failed sync is owed, none of the silent returns is possible: there is a server and a
\* stack, no sync is fresh, and who has just succeeded owes nothing. Between the start of the timer
\* and the release of the lock only a task on its way to an attempt can have stopped it.
OwedInv ==
  /\ owed => ready /\ anyServer /\ ~ fresh
  /\ \A t \in Tasks :
       /\ pc[t] \in Inside \ {"begin"} => ready
       /\ pc[t] \in Inside \ {"begin", "collect"} => anyServer
       /\ pc[t] = "done" => ~ owed
       /\ pc[t] = "bump" => armed \/ \E u \in Tasks : pc[u] \in Coming
  /\ RetryPending

\* A sync that fails arms the timer, and one that returns early owes nothing.
LEMMA SyncStepOwed ==
  ASSUME NoneLost, Base, OwedInv, NEW t \in Tasks, SyncStep(t)
  PROVE  OwedInv'
<1> USE BaseFacts DEF OwedInv, RetryPending, Coming, Inside, At, Go, Leave, NoneLost, LockTimeout
<1>0. t # "daily" /\ SyncsSpaced
  BY DEF Base, SyncInv
<1>1. CASE SyncRequest(t)
  <2>1. UNCHANGED <<armed, owed, ready, anyServer, fresh>> /\ pc[t] = "request"
    BY <1>1 DEF SyncRequest, netVars, timerVars
  <2>2. syncLock \in Tasks \cup {NoTask}
    BY TypeParts DEF Base, Standing
  <2>3. CASE syncLock = NoTask
    <3>1. \A u \in Tasks : pc[u] \notin Inside
      BY <2>3, TaskFacts
    <3>2. pc' = [pc EXCEPT ![t] = "begin"]
      BY <1>1, <2>3 DEF SyncRequest
    <3> QED BY <2>1, <3>1, <3>2
  <2>4. CASE syncLock # NoTask
    <3>1. /\ pc' = [pc EXCEPT ![t] = "idle"] /\ syncLock \in Tasks
          /\ pc[syncLock] \in Inside /\ pc[syncLock] # "bump"
      BY <1>1, <2>2, <2>4 DEF SyncRequest
    <3>2. \A u \in Tasks : pc[u] # "bump"
      BY <3>1, Alone
    <3> QED BY <2>1, <3>1, <3>2
  <2> QED BY <2>3, <2>4
<1>2. CASE SyncBegin(t)
  BY <1>0, <1>2 DEF SyncBegin, netVars, timerVars
<1>3. CASE SyncCollect(t)
  BY <1>0, <1>3 DEF SyncCollect, netVars, timerVars
<1>4. CASE SyncStart(t)
  BY <1>0, <1>4 DEF SyncStart, netVars, timerVars
<1>5. CASE SyncStartFails(t)
  BY <1>0, <1>5 DEF SyncStartFails, Fail, SyncsSpaced
<1>6. CASE SyncAnswered(t)
  BY <1>0, <1>6 DEF SyncAnswered, netVars, timerVars
<1>7. CASE SyncTimedOut(t)
  BY <1>0, <1>7 DEF SyncTimedOut, Fail, netVars, SyncsSpaced
<1>8. CASE SyncStamp(t)
  BY <1>0, <1>8 DEF SyncStamp, netVars, timerVars
<1>9. CASE SyncWrite(t)
  <2>1. /\ UNCHANGED <<armed, owed, ready, anyServer, fresh>>
        /\ \E place \in {"clear", "store"} : pc' = [pc EXCEPT ![t] = place]
    BY <1>9, Zenon DEF SyncWrite, netVars
  <2>2. pc[t] = "write"
    BY <1>9 DEF SyncWrite
  <2> QED BY <2>1, <2>2
<1>10. CASE SyncClear(t)
  BY <1>0, <1>10 DEF SyncClear, netVars, timerVars
<1>11. CASE SyncStore(t)
  BY <1>0, <1>11 DEF SyncStore
<1>12. CASE SyncDone(t)
  BY <1>0, <1>12, Alone DEF SyncDone, netVars
<1>13. CASE ArmStart(t)
  BY <1>0, <1>13 DEF ArmStart, netVars
<1>14. CASE ArmBump(t)
  BY <1>0, <1>14 DEF ArmBump, netVars
<1> QED BY <1>1, <1>2, <1>3, <1>4, <1>5, <1>6, <1>7, <1>8, <1>9, <1>10, <1>11, <1>12, <1>13, <1>14
           DEF SyncStep

\* Who takes the timer's shot, or stops the timer, is on its way to an attempt itself.
LEMMA OtherStepOwed ==
  ASSUME NoneLost, Base, OwedInv, WorkerStep \/ TimerFires \/ ManualSync \/ Environment
  PROVE  OwedInv'
<1> USE BaseFacts DEF OwedInv, RetryPending, Coming, Inside, At, Go, timerVars, netVars, NoneLost
<1>1. CASE WorkerEvent
  BY <1>1 DEF WorkerEvent
<1>2. CASE WorkerCancel
  BY <1>2 DEF WorkerCancel
<1>3. CASE WorkerStop
  BY <1>3 DEF WorkerStop
<1>4. CASE TickSnapshot \/ TickPeriodic \/ HourlyRead \/ HourlyCheck \/ HourlySet \/ TickDaily
  BY <1>4 DEF TickSnapshot, TickPeriodic, HourlyRead, HourlyCheck, HourlySet, TickDaily
<1>5. CASE TimerFires
  BY <1>5 DEF TimerFires
<1>6. CASE ManualSync
  BY <1>6 DEF ManualSync
<1>7. CASE Environment
  BY <1>7 DEF Environment, SntpAnswer, NetworkUp, SetServer, TimePasses, Reset, LinkEvent
<1> QED BY <1>1, <1>2, <1>3, <1>4, <1>5, <1>6, <1>7 DEF WorkerStep

\* A failed sync is followed up until one succeeds, whatever the order in which the timer, the
\* worker and a manual caller come to the lock, on a device without the daily sync whose state
\* lock is never late. With the daily sync RetryPending fails, see the README.
THEOREM FailuresFollowedUp == ASSUME NoneLost PROVE Spec => []RetryPending
<1>1. Init => OwedInv
  BY DEF Init, OwedInv, RetryPending, Inside
<1>2. Base /\ OwedInv /\ [Next]_vars => OwedInv'
  <2>1. ASSUME UNCHANGED vars, OwedInv PROVE OwedInv'
    BY <2>1 DEF vars, timerVars, netVars, OwedInv, RetryPending, Coming
  <2> QED BY <2>1, SyncStepOwed, OtherStepOwed DEF Next
<1>3. Spec => []Base
  BY TypeHolds, SyncHolds, PTL DEF Base
<1> QED BY <1>1, <1>2, <1>3, PTL DEF Spec, OwedInv

-----------------------------------------------------------------------------
(* The three clocks *)

\* The four copies that lead from an answer to the snapshot: each is right while nothing is
\* tainted, and the session that delivered the answer is still the same at the end.
Chain ==
  /\ \A t \in Tasks : pc[t] \in {"stamp", "write", "clear", "store"} => session = "answered"
  /\ ~ tainted =>
       /\ session = "answered" => sys = "true"
       /\ \A t \in Tasks : /\ pc[t] \in {"write", "clear", "store"} => epoch = "true"
                           /\ pc[t] = "clear" => rtc = "true"
                           /\ pc[t] = "store" => rtc # "off"

\* What the tick copies into a snapshot that is shown as trusted: the RTC, or the libc clock.
Sources ==
  ~ tainted => /\ snap.state = "NTP_SYNCED" => sys = "true"
               /\ snap.state # "UNSYNCED" /\ ~ snap.untrusted => rtc # "off"

\* The inductive invariant of the clocks, beside TrustBase.
HonestInv == Chain /\ Sources /\ ShownIsTrue /\ FlagIsHonest

\* What the steps of the clocks start from: types, a usable epoch, and who holds s_sync_lock.
TrustBase == TypeOK /\ Usable /\ SyncInv

\* TrustBase, spelled out as far as it is needed.
LEMMA TrustFacts ==
  ASSUME TrustBase
  PROVE  /\ pc \in [Tasks -> Places] /\ \A u \in Tasks : pc[u] \in Inside <=> syncLock = u
         /\ rtc \in {"true", "off", "absent"} /\ sys \in Reading /\ epoch \in Reading
         /\ seenRtc \in {"true", "off"} /\ snap \in Snapshot
         /\ \A t \in Tasks : pc[t] \in {"collect", "start"} => session = "none"
  BY TypeParts DEF TrustBase, Standing, Clocks, SyncInv, OneSync, BuffersQuiet

\* Two tasks are never inside the lock together.
LEMMA AloneInside ==
  ASSUME TrustBase, NEW t \in Tasks, pc[t] \in Inside, NEW u \in Tasks, pc[u] \in Inside
  PROVE  u = t
  BY TrustFacts

\* A step that leaves the clocks alone, and moves tasks only where they owe the clocks nothing.
LEMMA Aside ==
  ASSUME HonestInv, UNCHANGED <<rtc, osf, sys, snap, epoch, tainted>>,
         session' = "answered" => session = "answered",
         \A t \in Tasks : pc'[t] \in {"stamp", "write", "clear", "store"} =>
                            pc'[t] = pc[t] /\ session' = session
  PROVE  HonestInv'
<1>1. Chain'
  BY DEF HonestInv, Chain
<1>2. Sources' /\ ShownIsTrue' /\ FlagIsHonest'
  BY DEF HonestInv, Sources, ShownIsTrue, FlagIsHonest
<1> QED BY <1>1, <1>2 DEF HonestInv

\* The sync up to the answer, and from the stored result on.
LEMMA QuietSteps ==
  ASSUME TrustBase, HonestInv, NEW t \in Tasks,
         \/ SyncRequest(t) \/ SyncBegin(t) \/ SyncCollect(t) \/ SyncStart(t) \/ SyncStartFails(t)
         \/ SyncTimedOut(t) \/ SyncDone(t) \/ ArmStart(t) \/ ArmBump(t)
  PROVE  HonestInv'
<1> USE DEF At, Go, Leave, Fail, clockVars, netVars
<1>1. UNCHANGED <<rtc, osf, sys, snap, epoch, tainted>>
  BY Zenon DEF SyncRequest, SyncBegin, SyncCollect, SyncStart, SyncStartFails, SyncTimedOut,
               SyncDone, ArmStart, ArmBump
<1>2. session' = "answered" => session = "answered"
  BY DEF SyncRequest, SyncBegin, SyncCollect, SyncStart, SyncStartFails, SyncTimedOut,
               SyncDone, ArmStart, ArmBump
<1>3. \E place \in Places \ {"stamp", "write", "clear", "store"} : pc' = [pc EXCEPT ![t] = place]
  BY DEF SyncRequest, SyncBegin, SyncCollect, SyncStart, SyncStartFails, SyncTimedOut,
               SyncDone, ArmStart, ArmBump, Places, Inside
<1>4. \A u \in Tasks : pc'[u] \in {"stamp", "write", "clear", "store"} => pc'[u] = pc[u] /\ u # t
  BY <1>3, TrustFacts
<1>5. pc[t] \in Inside \/ SyncRequest(t)
  BY DEF SyncBegin, SyncCollect, SyncStart, SyncStartFails, SyncTimedOut, SyncDone, ArmStart,
         ArmBump, Inside
<1>6. SyncRequest(t) => session' = session
  BY DEF SyncRequest
<1>7. \A u \in Tasks : pc'[u] \in {"stamp", "write", "clear", "store"} => session' = session
  BY <1>4, <1>5, <1>6, AloneInside DEF Inside
<1> QED BY <1>1, <1>2, <1>4, <1>7, Aside

\* An answer has set the libc clock; it is read, written to the RTC and stored, each from the one
\* before. A refused write taints unless it changes nothing, and a result that is stored untaints
\* only where all three agree.
LEMMA ClockSteps ==
  ASSUME TrustBase, HonestInv, NEW t \in Tasks,
         SyncAnswered(t) \/ SyncStamp(t) \/ SyncWrite(t) \/ SyncClear(t) \/ SyncStore(t)
  PROVE  HonestInv'
<1> USE TrustFacts DEF At, Go
<1>0. Chain /\ Sources /\ ShownIsTrue /\ FlagIsHonest
  BY DEF HonestInv
<1>a. pc[t] \in Inside /\ \A u \in Tasks : pc[u] \in Inside => u = t
  BY AloneInside DEF SyncAnswered, SyncStamp, SyncWrite, SyncClear, SyncStore, Inside
<1>1. CASE SyncAnswered(t)
  <2>1. /\ UNCHANGED <<rtc, osf, sys, snap, epoch, tainted, session>>
        /\ session = "answered" /\ pc' = [pc EXCEPT ![t] = "stamp"]
    BY <1>1, Zenon DEF SyncAnswered, clockVars, netVars
  <2>2. Chain'
    BY <1>0, <2>1 DEF Chain
  <2> QED BY <1>0, <2>1, <2>2 DEF HonestInv, Sources, ShownIsTrue, FlagIsHonest
<1>2. CASE SyncStamp(t)
  <2>1. /\ UNCHANGED <<rtc, osf, sys, snap, tainted, session>> /\ pc[t] = "stamp"
        /\ epoch' = sys /\ pc' = [pc EXCEPT ![t] = "write"]
    BY <1>2, Zenon DEF SyncStamp, netVars
  <2>2. Chain'
    BY <1>0, <1>a, <2>1 DEF Chain, Inside
  <2> QED BY <1>0, <2>1, <2>2 DEF HonestInv, Sources, ShownIsTrue, FlagIsHonest
<1>3. CASE SyncWrite(t)
  <2>0. /\ UNCHANGED <<osf, sys, snap, epoch, session>> /\ pc[t] = "write"
    BY <1>3, Zenon DEF SyncWrite, netVars
  <2>1. CASE rtc' = epoch /\ tainted' = tainted /\ pc' = [pc EXCEPT ![t] = "clear"]
    <3>1. Chain'
      BY <1>0, <1>a, <2>0, <2>1 DEF Chain, Inside
    <3> QED BY <1>0, <2>0, <2>1, <3>1 DEF Chain, HonestInv, Sources, ShownIsTrue, FlagIsHonest
  <2>2. CASE /\ rtc' = rtc /\ tainted' = (tainted \/ rtc \notin {"absent", epoch})
             /\ pc' = [pc EXCEPT ![t] = "store"]
    <3>1. ~ tainted' => ~ tainted /\ rtc \in {"absent", epoch}
      BY <2>2, Zenon
    <3>2. Chain'
      BY <1>0, <1>a, <2>0, <2>2, <3>1 DEF Chain, Inside
    <3> QED BY <1>0, <2>0, <2>2, <3>1, <3>2 DEF HonestInv, Sources, ShownIsTrue, FlagIsHonest
  <2>3. CASE rtc' = rtc /\ tainted' = tainted /\ pc' = [pc EXCEPT ![t] = "arm"]
    <3>1. Chain'
      BY <1>0, <1>a, <2>0, <2>3 DEF Chain, Inside
    <3> QED BY <1>0, <2>0, <2>3, <3>1 DEF HonestInv, Sources, ShownIsTrue, FlagIsHonest
  <2> QED BY <1>3, <2>1, <2>2, <2>3, Zenon DEF SyncWrite
<1>4. CASE SyncClear(t)
  <2>1. /\ UNCHANGED <<rtc, sys, snap, epoch, tainted, session>> /\ pc[t] = "clear"
        /\ pc' = [pc EXCEPT ![t] = "store"]
    BY <1>4, Zenon DEF SyncClear, netVars
  <2>2. Chain'
    BY <1>0, <1>a, <2>1 DEF Chain, Inside
  <2>3. FlagIsHonest'
    <3>1. ~ tainted' => ~ tainted
      BY <2>1, Zenon
    <3>2. ~ tainted' => rtc' # "off"
      BY <1>0, <2>1, <3>1 DEF Chain
    <3> QED BY <3>2 DEF FlagIsHonest
  <2> QED BY <1>0, <2>1, <2>2, <2>3 DEF HonestInv, Sources, ShownIsTrue
<1>5. CASE SyncStore(t)
  <2>1. /\ UNCHANGED <<rtc, osf, sys, epoch, session>> /\ pc[t] = "store"
        /\ pc' = [pc EXCEPT ![t] = "done"]
        /\ snap' = [state |-> "NTP_SYNCED", utc |-> epoch, valid |-> TRUE, untrusted |-> FALSE]
    BY <1>5, Zenon DEF SyncStore
  <2>2. ~ tainted' => ~ tainted \/ (epoch = "true" /\ sys = "true" /\ rtc # "off")
    BY <1>5, Zenon DEF SyncStore
  <2>3. ~ tainted' => epoch = "true" /\ sys = "true" /\ rtc # "off"
    BY <1>0, <2>1, <2>2 DEF Chain
  <2>4. Chain'
    BY <1>0, <1>a, <2>1, <2>3 DEF Chain, Inside
  <2> QED BY <1>0, <2>1, <2>3, <2>4 DEF HonestInv, Sources, ShownIsTrue, FlagIsHonest
<1> QED BY <1>1, <1>2, <1>3, <1>4, <1>5

\* The tick copies right clocks into the snapshot, and the hourly correction taints where it takes
\* a right libc clock back.
LEMMA WorkerSteps ==
  ASSUME TrustBase, HonestInv, WorkerStep \/ TimerFires \/ ManualSync
  PROVE  HonestInv'
<1> USE TrustFacts DEF At, Go
<1>0. Chain /\ Sources /\ ShownIsTrue /\ FlagIsHonest
  BY DEF HonestInv
<1>1. CASE TickSnapshot
  <2>1. /\ UNCHANGED <<rtc, osf, sys, epoch, tainted, session>>
        /\ pc' = [pc EXCEPT !["worker"] = "periodic"]
    BY <1>1, Zenon DEF TickSnapshot, netVars
  <2>2. Chain'
    BY <1>0, <2>1 DEF Chain
  <2> DEFINE From(r) == snap' = [snap EXCEPT !.utc = r, !.valid = TRUE]
  <2>a. /\ snap.state # "UNSYNCED"
        /\ \/ rtc # "absent" /\ From(rtc)
           \/ snap.state = "NTP_SYNCED" /\ From(sys)
    BY <1>1, Zenon DEF TickSnapshot
  <2>3. PICK r \in {rtc, sys} :
          /\ snap.state # "UNSYNCED" /\ From(r)
          /\ (r = rtc /\ rtc # "absent") \/ (r = sys /\ snap.state = "NTP_SYNCED")
    BY <2>a, Zenon
  <2>4. /\ snap'.state = snap.state /\ snap'.untrusted = snap.untrusted /\ snap'.utc = r
    BY <2>3 DEF Snapshot
  <2>5. Sources' /\ FlagIsHonest'
    BY <1>0, <2>1, <2>4 DEF Sources, FlagIsHonest
  <2>6. ShownIsTrue'
    BY <1>0, <2>1, <2>3, <2>4 DEF Sources, ShownIsTrue
  <2> QED BY <2>2, <2>5, <2>6 DEF HonestInv
<1>2. CASE HourlySet
  <2>1. /\ UNCHANGED <<rtc, osf, snap, epoch, session>> /\ sys' = seenRtc
        /\ pc' = [pc EXCEPT !["worker"] = "daily"]
    BY <1>2, Zenon DEF HourlySet, netVars
  <2>2. ~ tainted' => ~ tainted /\ (sys = "true" => sys' = "true")
    BY <1>2, Zenon DEF HourlySet, Spoils
  <2>3. Chain'
    BY <1>0, <2>1, <2>2 DEF Chain
  <2> QED BY <1>0, <2>1, <2>2, <2>3 DEF HonestInv, Sources, ShownIsTrue, FlagIsHonest
<1>3. CASE \/ WorkerEvent \/ WorkerCancel \/ WorkerStop \/ TickPeriodic \/ HourlyRead
           \/ HourlyCheck \/ TickDaily \/ TimerFires \/ ManualSync
  <2> USE DEF clockVars, netVars
  <2>1. UNCHANGED <<rtc, osf, sys, snap, epoch, tainted, session>>
    BY <1>3 DEF WorkerEvent, WorkerCancel, WorkerStop, TickPeriodic, HourlyRead, HourlyCheck,
                TickDaily, TimerFires, ManualSync
  <2>2. \A u \in Tasks : pc'[u] \in {"stamp", "write", "clear", "store"} => pc'[u] = pc[u]
    <3>1. CASE WorkerEvent \/ WorkerCancel \/ WorkerStop \/ TickPeriodic \/ HourlyRead
      BY <3>1 DEF WorkerEvent, WorkerCancel, WorkerStop, TickPeriodic, HourlyRead
    <3>2. CASE HourlyCheck \/ TimerFires \/ ManualSync
      BY <3>2 DEF HourlyCheck, TimerFires, ManualSync
    <3>3. CASE TickDaily
      BY <3>3 DEF TickDaily
    <3> QED BY <1>3, <3>1, <3>2, <3>3
  <2> QED BY <2>1, <2>2, Aside
<1> QED BY <1>1, <1>2, <1>3 DEF WorkerStep

\* A snapshot loaded from an RTC whose flag is clear is trusted, and only then can it be.
LEMMA LoadedTrust ==
  ASSUME NEW r \in {"true", "off", "absent"}, NEW flag, ~ flag => r # "off",
         NEW x \in LoadedFrom(r, flag)
  PROVE  /\ x.state # "NTP_SYNCED"
         /\ x.state # "UNSYNCED" /\ ~ x.untrusted => r # "off"
         /\ x.valid /\ ~ x.untrusted => x.utc = "true"
<1>1. CASE x = Unsynced
  BY <1>1 DEF Unsynced
<1>2. CASE x # Unsynced
  <2>1. r # "absent"
    BY <1>2 DEF LoadedFrom
  <2>2. x \in {[state |-> "RTC_ONLY", utc |-> r, valid |-> TRUE, untrusted |-> u] :
                 u \in IF flag THEN {TRUE} ELSE BOOLEAN}
    <3>1. (IF "rtc_read" \in Faults THEN {Unsynced} ELSE {}) \subseteq {Unsynced}
      OBVIOUS
    <3> QED BY <1>2, <2>1, <3>1, Zenon DEF LoadedFrom
  <2>3. PICK u \in IF flag THEN {TRUE} ELSE BOOLEAN :
               x = [state |-> "RTC_ONLY", utc |-> r, valid |-> TRUE, untrusted |-> u]
    BY <2>2, Zenon
  <2>4. flag => u = TRUE
    BY <2>3, Zenon
  <2>5. /\ x.state = "RTC_ONLY" /\ x.utc = r /\ x.untrusted = u
    BY <2>3
  <2>6. ~ x.untrusted => r = "true"
    BY <2>1, <2>4, <2>5
  <2> QED BY <2>1, <2>5, <2>6
<1> QED BY <1>1, <1>2

\* A server's answer rights the libc clock; a reset ends the chain, and what it leaves of the RTC
\* and its flag decides what the new snapshot may claim.
LEMMA EnvironmentSteps ==
  ASSUME TrustBase, HonestInv, Environment
  PROVE  HonestInv'
<1> USE TrustFacts
<1>0. Chain /\ Sources /\ ShownIsTrue /\ FlagIsHonest
  BY DEF HonestInv
<1>1. CASE SntpAnswer
  <2>1. UNCHANGED <<pc, rtc, osf, snap, epoch, tainted>> /\ session' = "answered" /\ sys' = "true"
    BY <1>1, Zenon DEF SntpAnswer
  <2> QED BY <1>0, <2>1 DEF HonestInv, Chain, Sources, ShownIsTrue, FlagIsHonest
<1>2. CASE NetworkUp \/ SetServer \/ TimePasses \/ \E e \in {"up", "down"} : LinkEvent(e)
  <2>1. UNCHANGED <<pc, rtc, osf, sys, snap, epoch, tainted, session>>
    BY <1>2 DEF NetworkUp, SetServer, TimePasses, LinkEvent, clockVars
  <2> QED BY <2>1, Aside
<1>3. CASE Reset
  <2>1. /\ pc' = [t \in Tasks |-> "idle"] /\ session' = "none" /\ tainted' = tainted
        /\ snap' \in LoadedFrom(rtc', osf')
    BY <1>3, Zenon DEF Reset
  <2>2. \/ rtc' = rtc /\ osf' = osf
        \/ osf' = TRUE /\ rtc' \in {"absent", "off"}
    BY <1>3 DEF Reset
  <2>3. rtc' \in {"true", "off", "absent"}
    BY <2>2
  <2>4. FlagIsHonest'
    BY <1>0, <2>1, <2>2 DEF FlagIsHonest
  <2>5. Chain'
    BY <2>1 DEF Chain
  <2>6. Sources' /\ ShownIsTrue'
    BY <2>1, <2>3, <2>4, LoadedTrust DEF FlagIsHonest, Sources, ShownIsTrue
  <2> QED BY <2>4, <2>5, <2>6 DEF HonestInv
<1> QED BY <1>1, <1>2, <1>3 DEF Environment

\* All of it together holds of the started service and through every step.
THEOREM HonestHolds == Spec => []HonestInv
<1>1. Init => HonestInv
  <2> SUFFICES ASSUME Init PROVE HonestInv
    OBVIOUS
  <2>1. rtc \in {"true", "off", "absent"} /\ (~ osf => rtc # "off") /\ snap \in LoadedFrom(rtc, osf)
    BY DEF Init
  <2>2. Sources /\ ShownIsTrue
    BY <2>1, LoadedTrust DEF Sources, ShownIsTrue
  <2>3. Chain /\ FlagIsHonest
    BY <2>1 DEF Init, Chain, FlagIsHonest
  <2> QED BY <2>2, <2>3 DEF HonestInv
<1>2. TrustBase /\ HonestInv /\ [Next]_vars => HonestInv'
  <2>1. ASSUME UNCHANGED vars, HonestInv PROVE HonestInv'
    BY <2>1, Aside DEF vars, clockVars, netVars
  <2> QED BY <2>1, QuietSteps, ClockSteps, WorkerSteps, EnvironmentSteps DEF Next, SyncStep
<1>3. Spec => []TrustBase
  BY TypeHolds, SyncHolds, PTL DEF TrustBase
<1> QED BY <1>1, <1>2, <1>3, PTL DEF Spec

\* A time shown as trusted is right, whichever tasks sync, whatever fails and whenever the chip
\* restarts, unless one of the two exceptions has happened since the last full success.
THEOREM TrustedTimeIsRight == Spec => []ShownIsTrue
  BY HonestHolds, PTL DEF HonestInv

\* A clear oscillator-stop flag stands over a right RTC, with the same exceptions: a reset after
\* any step of the sync leaves nothing behind that the next boot would wrongly trust.
THEOREM FlagTellsTheTruth == Spec => []FlagIsHonest
  BY HonestHolds, PTL DEF HonestInv
=============================================================================
