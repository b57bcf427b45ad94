---------------------------- MODULE TimeService ----------------------------
(***************************************************************************)
(* The time service, svc_time.c: who may run an NTP sync and when, and     *)
(* which of the three clocks (DS3231M, libc, snapshot) each step copies    *)
(* into which.                                                             *)
(*                                                                         *)
(* Four tasks reach run_ntp_sync(): the worker on a new link, the          *)
(* esp_timer task when a backoff has elapsed, the 23:00 one-shot task, and *)
(* any caller of the public API. s_sync_lock serialises them; the worker's *)
(* hourly correction of the libc clock takes no lock at all.               *)
(*                                                                         *)
(* A clock's reading is abstracted to how it relates to real time: "true"  *)
(* (within a second), "off", or "unset" (libc counting from power-up).     *)
(* Two readings differ by more than a second exactly if they differ here.  *)
(* The oscillators are taken to hold a second from one sync to the next.   *)
(* Hours, 23:00 and the 60 s freshness window come and go at any time.     *)
(* Date-change events, the zone and the NVS telemetry are left out.        *)
(***************************************************************************)
EXTENDS Naturals, Sequences, FiniteSets

CONSTANTS
  Tasks,       \* the tasks that may sync, of "worker", "timer", "daily", "manual"
  MailboxLen,  \* SVC_TIME_MAILBOX_LEN
  Steps,       \* SVC_TIME_BACKOFF_STEPS
  Faults       \* what may go wrong, of "no_rtc", "rtc_read", "rtc_write", "lock", "reset"

ASSUME ConstantsOK ==
  /\ Tasks \subseteq {"worker", "timer", "daily", "manual"} /\ "worker" \in Tasks
  /\ MailboxLen \in Nat /\ Steps \in Nat \ {0}
  /\ Faults \subseteq {"no_rtc", "rtc_read", "rtc_write", "lock", "reset"}

VARIABLES
  pc,         \* where each task stands
  syncLock,   \* holder of s_sync_lock
  stateLock,  \* holder of s_state_lock across steps: only a sync that stores its result
  session,    \* the SNTP client: "none", "silent" (not started), "asking", "answered"
  anyServer,  \* some NTP slot is not disabled
  ready,      \* network_stack_ready()
  fresh,      \* the last sync is younger than SVC_TIME_RESYNC_MIN_MS
  armed,      \* s_backoff_timer is running
  delay,      \* the step of k_backoff_ms it was armed with
  idx,        \* s_backoff_idx, counted from 1
  mailbox,    \* link events on their way to the worker
  connected,  \* s_network_connected
  hourDue, dailyDue,  \* the hour, or 23:00, has changed since the worker last acted on it
  rtc, osf,   \* the DS3231M: its reading and its oscillator-stop flag
  sys,        \* the libc clock
  snap,       \* s_snapshot
  epoch,      \* the running sync's reading of time()
  seenRtc,    \* the hourly correction's reading of the RTC
  owed,       \* history: a sync other than the daily one failed, and none succeeded since
  fails,      \* history: failures that armed the timer since the last success, at most Steps
  tainted     \* history: see Spoils and SyncWrite

lockVars  == <<syncLock, stateLock>>
timerVars == <<armed, delay, idx, fails, owed>>
workVars  == <<connected, hourDue, dailyDue, seenRtc>>
clockVars == <<rtc, osf, sys, snap, epoch, tainted>>
netVars   == <<session, anyServer, ready, fresh, mailbox>>
vars == <<pc, lockVars, timerVars, workVars, clockVars, netVars>>

-----------------------------------------------------------------------------
NoTask  == "nobody"
Inside  == {"begin", "collect", "start", "wait", "stamp", "write", "clear", "store", "done",
            "arm", "bump"}
Places  == {"idle", "cancel", "stop", "request", "periodic", "hourly", "check", "set", "daily"}
             \cup Inside
Reading == {"true", "off", "unset"}
Snapshot == [state : {"UNSYNCED", "RTC_ONLY", "NTP_SYNCED"}, utc : Reading, valid : BOOLEAN,
             untrusted : BOOLEAN]

TypeOK ==
  /\ pc \in [Tasks -> Places]
  /\ syncLock \in Tasks \cup {NoTask} /\ stateLock \in Tasks \cup {NoTask}
  /\ session \in {"none", "silent", "asking", "answered"}
  /\ {anyServer, ready, fresh, armed, connected, hourDue, dailyDue, osf, owed, tainted}
       \subseteq BOOLEAN
  /\ delay \in 1 .. Steps /\ idx \in 1 .. Steps /\ fails \in 0 .. Steps
  /\ mailbox \in Seq({"up", "down"}) /\ Len(mailbox) <= MailboxLen
  /\ rtc \in {"true", "off", "absent"}
  /\ {sys, epoch} \subseteq Reading /\ seenRtc \in {"true", "off"}
  /\ snap \in Snapshot

Unsynced == [state |-> "UNSYNCED", utc |-> "unset", valid |-> FALSE, untrusted |-> FALSE]

\* load_initial_time_from_rtc(): an unreadable flag counts as set, and a reading that is off may
\* lie before the year of the build.
LoadedFrom(r, flag) ==
  IF r = "absent" THEN {Unsynced}
  ELSE {[state |-> "RTC_ONLY", utc |-> r, valid |-> TRUE, untrusted |-> u] :
          u \in IF flag THEN {TRUE} ELSE BOOLEAN}
       \cup (IF "rtc_read" \in Faults THEN {Unsynced} ELSE {})

\* svc_time_start() has returned. A flag that is clear was cleared by an earlier sync.
Init ==
  /\ rtc \in {"true", "off"} \cup (IF "no_rtc" \in Faults THEN {"absent"} ELSE {})
  /\ osf \in BOOLEAN /\ (~ osf => rtc # "off")
  /\ snap \in LoadedFrom(rtc, osf)
  /\ sys = "unset" /\ epoch = "unset" /\ seenRtc = "off" /\ tainted = FALSE
  /\ pc = [t \in Tasks |-> "idle"] /\ syncLock = NoTask /\ stateLock = NoTask
  /\ session = "none" /\ anyServer \in BOOLEAN /\ ready = FALSE /\ fresh = FALSE
  /\ armed = FALSE /\ delay = 1 /\ idx = 1 /\ fails = 0 /\ owed = FALSE
  /\ mailbox = << >> /\ connected = FALSE /\ hourDue = TRUE /\ dailyDue = FALSE

At(t, place) == t \in Tasks /\ pc[t] = place
Go(t, place) == pc' = [pc EXCEPT ![t] = place]
StateFree    == stateLock = NoTask
LockTimeout  == "lock" \in Faults   \* s_state_lock was not to be had within a second

\* Give s_sync_lock back and return.
Leave(t) == Go(t, "idle") /\ syncLock' = NoTask

-----------------------------------------------------------------------------
(* run_ntp_sync() and do_ntp_sync(), one step per call other tasks may come between *)

\* Mutant of SyncRequest: the lock is not tested.
SyncRequestUnlocked(t) ==
  /\ At(t, "request") /\ syncLock' = t /\ Go(t, "begin")
  /\ UNCHANGED <<stateLock, timerVars, workVars, clockVars, netVars>>

\* The lock is waited for 100 ms, which a holder two instructions from the end does not need.
SyncRequest(t) ==
  /\ At(t, "request")
  /\ \/ syncLock = NoTask /\ syncLock' = t /\ Go(t, "begin")
     \/ /\ syncLock # NoTask /\ pc[syncLock] # "bump"   \* ignored after 100 ms
        /\ Go(t, "idle") /\ UNCHANGED syncLock
  /\ UNCHANGED <<stateLock, timerVars, workVars, clockVars, netVars>>

\* Mutant of SyncBegin: the previous session is not stopped.
SyncBeginOver(t) ==
  /\ At(t, "begin") /\ StateFree
  /\ IF fresh \/ ~ ready THEN Leave(t) ELSE Go(t, "collect") /\ UNCHANGED syncLock
  /\ UNCHANGED <<stateLock, timerVars, workVars, clockVars, netVars>>

\* Fresh enough, no network stack yet, or stop the previous SNTP session.
SyncBegin(t) ==
  /\ At(t, "begin")
  /\ \/ StateFree /\ fresh /\ Leave(t) /\ UNCHANGED session
     \/ /\ (StateFree /\ ~ fresh) \/ LockTimeout
        /\ \/ ~ ready /\ Leave(t) /\ UNCHANGED session
           \/ ready /\ session' = "none" /\ Go(t, "collect") /\ UNCHANGED syncLock
  /\ UNCHANGED <<stateLock, timerVars, workVars, clockVars, anyServer, ready, fresh, mailbox>>

\* Rewrite s_lwip_servers, the buffers LwIP keeps pointers into.
SyncCollect(t) ==
  /\ At(t, "collect")
  /\ \/ StateFree /\ anyServer /\ Go(t, "start") /\ UNCHANGED syncLock
     \/ StateFree /\ ~ anyServer /\ Leave(t)
     \/ LockTimeout /\ Leave(t)
  /\ UNCHANGED <<stateLock, timerVars, workVars, clockVars, netVars>>

\* Mutants of Fail: nobody arms the timer, or nobody does after the last step.
FailSilently(t) == Leave(t) /\ owed' = TRUE

FailGivesUp(t) ==
  /\ owed' = TRUE
  /\ IF idx = Steps THEN Leave(t) ELSE Go(t, "arm") /\ UNCHANGED syncLock

\* A failed attempt arms the timer, unless it is the daily one.
Fail(t) ==
  IF t = "daily" THEN Leave(t) /\ UNCHANGED owed
                 ELSE Go(t, "arm") /\ owed' = TRUE /\ UNCHANGED syncLock

\* Mutant of SyncStart: the answer is not waited for.
SyncStartNoWait(t) ==
  /\ At(t, "start")
  /\ session' = "asking" /\ Go(t, "stamp")
  /\ UNCHANGED <<lockVars, timerVars, workVars, clockVars, anyServer, ready, fresh, mailbox>>

SyncStart(t) ==
  /\ At(t, "start")
  /\ session' = "asking" /\ Go(t, "wait")
  /\ UNCHANGED <<lockVars, timerVars, workVars, clockVars, anyServer, ready, fresh, mailbox>>

\* esp_netif_sntp_init() or esp_netif_sntp_start() fails.
SyncStartFails(t) ==
  /\ At(t, "start")
  /\ session' \in {"none", "silent"} /\ Fail(t)
  /\ UNCHANGED <<stateLock, armed, delay, idx, fails, workVars, clockVars, anyServer, ready,
                 fresh, mailbox>>

\* esp_netif_sntp_sync_wait() returns. After a timeout the session goes on by itself.
SyncAnswered(t) ==
  /\ At(t, "wait") /\ session = "answered" /\ Go(t, "stamp")
  /\ UNCHANGED <<lockVars, timerVars, workVars, clockVars, netVars>>

\* Mutant of SyncTimedOut: the wait has no limit.
SyncTimedOutNever(t) == FALSE

SyncTimedOut(t) ==
  /\ At(t, "wait") /\ session = "asking" /\ Fail(t)
  /\ UNCHANGED <<stateLock, armed, delay, idx, fails, workVars, clockVars, netVars>>

\* time(NULL). Its value is usable: an SNTP answer has set the clock by now.
SyncStamp(t) ==
  /\ At(t, "stamp")
  /\ epoch' = sys /\ Go(t, "write")
  /\ UNCHANGED <<lockVars, timerVars, workVars, rtc, osf, sys, snap, tainted, netVars>>

\* Mutant of SyncWrite: the RTC is left alone.
SyncWriteSkipped(t) ==
  /\ At(t, "write") /\ StateFree
  /\ stateLock' = t /\ Go(t, "store")
  /\ UNCHANGED <<syncLock, timerVars, workVars, clockVars, netVars>>

\* Take s_state_lock and write the RTC. Failing to get the lock arms the timer for any task.
SyncWrite(t) ==
  /\ At(t, "write")
  /\ \/ /\ StateFree /\ stateLock' = t
        /\ \/ rtc # "absent" /\ rtc' = epoch /\ Go(t, "clear") /\ UNCHANGED tainted
           \/ /\ rtc = "absent" \/ "rtc_write" \in Faults
              /\ Go(t, "store")
              /\ tainted' = (tainted \/ rtc \notin {"absent", epoch})
              /\ UNCHANGED rtc
        /\ UNCHANGED owed
     \/ /\ LockTimeout /\ Go(t, "arm") /\ owed' = (owed \/ t # "daily")
        /\ UNCHANGED <<stateLock, rtc, tainted>>
  /\ UNCHANGED <<syncLock, armed, delay, idx, fails, workVars, osf, sys, snap, epoch, netVars>>

\* The driver clears the oscillator-stop flag after the write, and the service once more.
SyncClear(t) ==
  /\ At(t, "clear")
  /\ osf' \in {FALSE} \cup (IF "rtc_write" \in Faults THEN {osf} ELSE {})
  /\ Go(t, "store")
  /\ UNCHANGED <<lockVars, timerVars, workVars, rtc, sys, snap, epoch, tainted, netVars>>

SyncStore(t) ==
  /\ At(t, "store")
  /\ snap' = [state |-> "NTP_SYNCED", utc |-> epoch, valid |-> TRUE, untrusted |-> FALSE]
  /\ fresh' = TRUE /\ owed' = FALSE
  /\ tainted' = (tainted /\ ~ (epoch = "true" /\ sys = "true" /\ rtc # "off"))
  /\ stateLock' = NoTask /\ Go(t, "done")
  /\ UNCHANGED <<syncLock, armed, delay, idx, fails, workVars, rtc, osf, sys, epoch, session,
                 anyServer, ready, mailbox>>

\* Mutant of SyncDone: the backoff is not cancelled.
SyncDoneUncancelled(t) ==
  /\ At(t, "done") /\ fails' = 0 /\ Leave(t)
  /\ UNCHANGED <<stateLock, armed, delay, idx, owed, workVars, clockVars, netVars>>

\* cancel_backoff(), EVENT_TIME_UPDATE, and the lock is given back.
SyncDone(t) ==
  /\ At(t, "done")
  /\ idx' = 1 /\ armed' = FALSE /\ fails' = 0 /\ Leave(t)
  /\ UNCHANGED <<stateLock, delay, owed, workVars, clockVars, netVars>>

\* arm_backoff(): s_backoff_idx is read again after the timer was started.
ArmStart(t) ==
  /\ At(t, "arm")
  /\ armed' = TRUE /\ delay' = idx /\ Go(t, "bump")
  /\ fails' = IF fails < Steps THEN fails + 1 ELSE Steps
  /\ UNCHANGED <<lockVars, idx, owed, workVars, clockVars, netVars>>

ArmBump(t) ==
  /\ At(t, "bump")
  /\ idx' = (IF idx < Steps THEN idx + 1 ELSE Steps) /\ Leave(t)
  /\ UNCHANGED <<stateLock, armed, delay, fails, owed, workVars, clockVars, netVars>>

SyncStep(t) ==
  \/ SyncRequest(t) \/ SyncBegin(t) \/ SyncCollect(t) \/ SyncStart(t) \/ SyncStartFails(t)
  \/ SyncAnswered(t) \/ SyncTimedOut(t) \/ SyncStamp(t) \/ SyncWrite(t) \/ SyncClear(t)
  \/ SyncStore(t) \/ SyncDone(t) \/ ArmStart(t) \/ ArmBump(t)

-----------------------------------------------------------------------------
(* The entrances: the timer's callback, the public API, the worker on a new link *)

\* The shortest delay, a minute, outlasts the rest of arm_backoff().
TimerFires ==
  /\ At("timer", "idle") /\ armed /\ \A t \in Tasks : pc[t] # "bump"
  /\ armed' = FALSE /\ Go("timer", "request")
  /\ UNCHANGED <<lockVars, delay, idx, fails, owed, workVars, clockVars, netVars>>

ManualSync ==
  /\ At("manual", "idle") /\ Go("manual", "request")
  /\ UNCHANGED <<lockVars, timerVars, workVars, clockVars, netVars>>

WorkerEvent ==
  /\ At("worker", "idle") /\ mailbox # << >>
  /\ mailbox' = Tail(mailbox)
  /\ connected' = (Head(mailbox) = "up")
  /\ IF Head(mailbox) = "up" THEN Go("worker", "cancel") ELSE UNCHANGED pc
  /\ UNCHANGED <<lockVars, timerVars, hourDue, dailyDue, seenRtc, clockVars, session, anyServer,
                 ready, fresh>>

\* cancel_backoff() on the worker, without s_sync_lock: the index first, then the timer.
WorkerCancel ==
  /\ At("worker", "cancel") /\ idx' = 1 /\ Go("worker", "stop")
  /\ UNCHANGED <<lockVars, armed, delay, fails, owed, workVars, clockVars, netVars>>

WorkerStop ==
  /\ At("worker", "stop") /\ armed' = FALSE /\ Go("worker", "request")
  /\ UNCHANGED <<lockVars, delay, idx, fails, owed, workVars, clockVars, netVars>>

-----------------------------------------------------------------------------
(* The worker's 1 Hz tick *)

\* tick_snapshot(): the RTC first, the libc clock only after a sync this boot.
TickSnapshot ==
  /\ At("worker", "idle") /\ mailbox = << >> /\ StateFree /\ snap.state # "UNSYNCED"
  /\ \/ /\ rtc # "absent"
        /\ snap' = [snap EXCEPT !.utc = rtc, !.valid = TRUE]
     \/ /\ rtc = "absent" \/ "rtc_read" \in Faults
        /\ snap.state = "NTP_SYNCED"
        /\ snap' = [snap EXCEPT !.utc = sys, !.valid = TRUE]
  /\ Go("worker", "periodic")
  /\ UNCHANGED <<lockVars, timerVars, workVars, rtc, osf, sys, epoch, tainted, netVars>>

\* run_periodic_clock_tasks(): give up without the snapshot, else the hourly task if due.
TickPeriodic ==
  /\ At("worker", "periodic")
  /\ \/ LockTimeout /\ Go("worker", "idle") /\ UNCHANGED hourDue
     \/ StateFree /\ hourDue /\ hourDue' = FALSE /\ Go("worker", "hourly")
     \/ StateFree /\ ~ hourDue /\ Go("worker", "daily") /\ UNCHANGED hourDue
  /\ UNCHANGED <<lockVars, timerVars, connected, dailyDue, seenRtc, clockVars, netVars>>

\* run_hourly_rtc_correction(): read the RTC, then time(), then settimeofday(), under no lock.
HourlyRead ==
  /\ At("worker", "hourly")
  /\ \/ rtc # "absent" /\ seenRtc' = rtc /\ Go("worker", "check")
     \/ (rtc = "absent" \/ "rtc_read" \in Faults) /\ Go("worker", "daily") /\ UNCHANGED seenRtc
  /\ UNCHANGED <<lockVars, timerVars, connected, hourDue, dailyDue, clockVars, netVars>>

HourlyCheck ==
  /\ At("worker", "check") /\ Go("worker", IF sys = seenRtc THEN "daily" ELSE "set")
  /\ UNCHANGED <<lockVars, timerVars, workVars, clockVars, netVars>>

\* The correction takes a libc clock that is right back to an RTC reading that is not.
Spoils == sys = "true" /\ seenRtc # "true"

HourlySet ==
  /\ At("worker", "set")
  /\ sys' = seenRtc /\ tainted' = (tainted \/ Spoils) /\ Go("worker", "daily")
  /\ UNCHANGED <<lockVars, timerVars, workVars, rtc, osf, snap, epoch, netVars>>

\* The 23:00 sync: marked done first, then a task of its own if there is a link and memory.
TickDaily ==
  /\ At("worker", "daily") /\ dailyDue' = FALSE
  /\ \/ /\ dailyDue /\ connected /\ At("daily", "idle")
        /\ pc' = [pc EXCEPT !["worker"] = "idle", !["daily"] = "request"]
     \/ Go("worker", "idle")
  /\ UNCHANGED <<lockVars, timerVars, connected, hourDue, seenRtc, clockVars, netVars>>

WorkerStep ==
  \/ WorkerEvent \/ WorkerCancel \/ WorkerStop \/ TickSnapshot \/ TickPeriodic
  \/ HourlyRead \/ HourlyCheck \/ HourlySet \/ TickDaily

-----------------------------------------------------------------------------
(* What happens to the service *)

\* An SNTP server answers, as often as the session asks: the libc clock is stepped.
SntpAnswer ==
  /\ session \in {"asking", "answered"}
  /\ session' = "answered" /\ sys' = "true"
  /\ UNCHANGED <<pc, lockVars, timerVars, workVars, rtc, osf, snap, epoch, tainted, anyServer,
                 ready, fresh, mailbox>>

NetworkUp ==
  /\ ~ ready /\ ready' = TRUE
  /\ UNCHANGED <<pc, lockVars, timerVars, workVars, clockVars, session, anyServer, fresh, mailbox>>

LinkEvent(e) ==
  /\ ready /\ Len(mailbox) < MailboxLen /\ mailbox' = Append(mailbox, e)
  /\ UNCHANGED <<pc, lockVars, timerVars, workVars, clockVars, session, anyServer, ready, fresh>>

\* svc_time_set_ntp_server() refuses an empty host, so it can only enable a slot.
SetServer ==
  /\ ~ anyServer /\ StateFree /\ anyServer' = TRUE
  /\ UNCHANGED <<pc, lockVars, timerVars, workVars, clockVars, session, ready, fresh, mailbox>>

TimePasses ==
  /\ \/ fresh /\ fresh' = FALSE /\ UNCHANGED <<hourDue, dailyDue>>
     \/ ~ hourDue /\ hourDue' = TRUE /\ UNCHANGED <<fresh, dailyDue>>
     \/ ~ dailyDue /\ At("daily", "idle") /\ dailyDue' = TRUE /\ UNCHANGED <<fresh, hourDue>>
  /\ UNCHANGED <<pc, lockVars, timerVars, connected, seenRtc, clockVars, session, anyServer,
                 ready, mailbox>>

\* The chip restarts. The libc clock may survive; with the battery gone the RTC does not.
Reset ==
  /\ "reset" \in Faults
  /\ \/ sys' \in {sys, "unset"} /\ UNCHANGED <<rtc, osf>>
     \/ sys' = "unset" /\ rtc' = (IF rtc = "absent" THEN rtc ELSE "off") /\ osf' = TRUE
  /\ snap' \in LoadedFrom(rtc', osf')
  /\ pc' = [t \in Tasks |-> "idle"] /\ syncLock' = NoTask /\ stateLock' = NoTask
  /\ session' = "none" /\ ready' = FALSE /\ fresh' = FALSE /\ mailbox' = << >>
  /\ armed' = FALSE /\ delay' = 1 /\ idx' = 1 /\ fails' = 0 /\ owed' = FALSE
  /\ connected' = FALSE /\ hourDue' = TRUE /\ dailyDue' = FALSE
  /\ seenRtc' = "off" /\ epoch' = "unset"
  /\ UNCHANGED <<anyServer, tainted>>

Environment == \/ SntpAnswer \/ NetworkUp \/ SetServer \/ TimePasses \/ Reset
               \/ \E e \in {"up", "down"} : LinkEvent(e)

Next == \/ \E t \in Tasks : SyncStep(t)
        \/ WorkerStep \/ TimerFires \/ ManualSync
        \/ Environment

Spec == Init /\ [][Next]_vars

\* Every task gets to run, the timer goes off, and waiting for s_sync_lock ends after 100 ms
\* however often it changes hands.
FairSpec == /\ Spec
            /\ WF_vars(WorkerStep) /\ WF_vars(TimerFires)
            /\ \A t \in Tasks : WF_vars(SyncStep(t)) /\ SF_vars(SyncRequest(t))

\* Not all of endlessly many attempts fail: SNTP can be started sometimes, and sometimes a
\* server answers while a task waits for it.
ServersAnswer == /\ \A t \in Tasks : SF_vars(SyncStart(t))
                 /\ SF_vars(SntpAnswer /\ \E t \in Tasks : At(t, "wait"))

-----------------------------------------------------------------------------
(* Properties *)

\* The buffers LwIP points into are rewritten only while no SNTP session exists, whichever of
\* the four tasks syncs, and however the session before ended.
BuffersQuiet == \A t \in Tasks : pc[t] \in {"collect", "start"} => session = "none"

\* No sync is repeated within the freshness window: a second request for one link, a backoff
\* that fires just after a manual sync, or the daily sync right behind either is answered
\* without asking a server. Holds while s_state_lock can be had in time.
SyncsSpaced == ~ LockTimeout =>
  \A t \in Tasks : pc[t] \in Inside \ {"begin", "done"} => ~ fresh

\* After a success the delays start again at the first step.
BackoffRestarts == armed => delay <= fails

\* A failed sync is always followed up: until one succeeds, the timer is armed or somebody is
\* on the way to another attempt.
RetryPending ==
  owed => armed \/ \E t \in Tasks : pc[t] \in Inside \cup {"cancel", "stop", "request"}

\* A time shown as trusted, from NTP or from an RTC whose flag is clear, is right, unless an
\* hourly correction undid an NTP answer or an RTC that can be read refused the write.
ShownIsTrue == snap.valid /\ ~ snap.untrusted /\ ~ tainted => snap.utc = "true"

\* The oscillator-stop flag is clear only over an RTC that holds a right time, across resets
\* between any two steps, with the same two exceptions.
FlagIsHonest == ~ osf /\ ~ tainted => rtc # "off"

\* The worker always gets back to its mailbox and its tick, though no server may ever answer:
\* no sync, its own or another task's, holds it up for good.
WorkerReturns == pc["worker"] # "idle" ~> pc["worker"] = "idle"

\* A failed sync is made good in the end, by whoever attempts it, if servers ever answer.
FailureMadeGood == ServersAnswer => (owed ~> ~ owed)
=============================================================================
