------------------------------ MODULE EventBus ------------------------------
(***************************************************************************)
(* The kernel event bus: event_bus.c and the dispatcher task of core_os.c. *)
(*                                                                         *)
(* Any task or timer callback publishes into one bounded FreeRTOS queue    *)
(* and is never blocked: a full queue loses its oldest entry. The          *)
(* dispatcher task drains that queue and copies each event into the        *)
(* mailbox of every rule registered for its type. The application task     *)
(* registers the rules, one slot of a fixed table per rule, while the      *)
(* dispatcher is already running. Each FreeRTOS queue call is one step,    *)
(* and so is each store of a registration: nothing makes them atomic       *)
(* together. Drop counters feed log lines only. missed, evicted, refused   *)
(* and copies are histories the properties are stated with.                *)
(***************************************************************************)
EXTENDS Naturals, Sequences, FiniteSets

CONSTANTS
  Publishers,    \* tasks and timers that call event_bus_publish()
  Mailboxes,     \* subscriber queues
  Types,         \* event types in use
  Rules,         \* the event_bus_subscribe() calls, in the order app_main makes them
  Slots,         \* EVENT_BUS_MAX_SUBSCRIBERS
  QueueLen,      \* length of g_event_queue
  MailboxLen,    \* length of every mailbox
  MaxPublish,    \* bound: events per publisher
  None           \* no event, no mailbox, no type

ASSUME ConstantsOK ==
  /\ Slots \in Nat /\ QueueLen \in Nat \ {0} /\ MailboxLen \in Nat /\ MaxPublish \in Nat
  /\ Rules \in Seq([q : Mailboxes, type : Types])
  /\ None \notin Mailboxes \cup Types

Event == [by : Publishers, n : 1 .. MaxPublish, type : Types]

ASSUME NoneIsNoEvent == None \notin Event

VARIABLES
  mode,      \* "normal", "undrained" (no dispatcher task), "no_queue" (no g_event_queue) or
             \* "halted": xQueueSend() on a NULL queue, the assertion resets the chip
  queue,     \* g_event_queue, oldest first
  sent,      \* sent[p]: number of events p has tried to publish
  step,      \* step[p]: where p stands inside event_bus_publish()
  held,      \* held[p]: the event p is publishing after its first send failed
  table,     \* s_subs: queue and type of each slot
  used,      \* s_subs: the slots whose used flag is set
  rule,      \* index in Rules of the registration under way or next
  reg,       \* the slot being filled and the stores not yet done
  cur, pos,  \* the event being dispatched and the slot looked at next
  seen,      \* history: slots whose registration preceded the dispatch of cur
  copies,    \* history: copies[m], every copy placed in mailbox m
  unread,    \* unread[m]: how many of them still sit in m
  missed,    \* history: missed[m], copies m had no room for
  evicted,   \* history: events discarded as the oldest
  refused    \* history: events dropped by their own publisher

publishVars  == <<sent, step, held, evicted, refused>>
registerVars == <<table, used, rule, reg>>
dispatchVars == <<cur, pos, seen, copies, missed>>
vars == <<mode, queue, publishVars, registerVars, dispatchVars, unread>>

-----------------------------------------------------------------------------
Fields   == {"q", "type", "used"}
FreeSlot == [q |-> None, type |-> None]
NoReg    == [slot |-> 0, todo |-> {}]
Elems(s) == {s[i] : i \in DOMAIN s}

Serves(i, r) == i \in used /\ table[i] = r

PublishTypeOK ==
  /\ queue \in Seq(Event) /\ Len(queue) <= QueueLen
  /\ sent \in [Publishers -> 0 .. MaxPublish]
  /\ step \in [Publishers -> {"idle", "evict", "retry"}]
  /\ held \in [Publishers -> Event \cup {None}]
  /\ \A p \in Publishers : held[p] = None <=> step[p] = "idle"
  /\ evicted \subseteq Event /\ refused \subseteq Event

SubscribeTypeOK ==
  /\ table \in [1 .. Slots -> [q : Mailboxes \cup {None}, type : Types \cup {None}]]
  /\ used \subseteq 1 .. Slots
  /\ rule \in 1 .. Len(Rules) + 1
  /\ reg \in [slot : 0 .. Slots, todo : SUBSET Fields]
  /\ reg # NoReg => reg.slot # 0 /\ rule \in DOMAIN Rules

DispatchTypeOK ==
  /\ cur \in Event \cup {None} /\ pos \in 1 .. Slots + 1 /\ seen \subseteq 1 .. Slots
  /\ copies \in [Mailboxes -> Seq(Event)]
  /\ unread \in [Mailboxes -> 0 .. MailboxLen]
  /\ missed \in [Mailboxes -> SUBSET Event]

\* The queue and the mailboxes never exceed their capacity, the dispatcher never leaves the
\* table of event_bus.c, and a publisher holds an event exactly in the middle of a call.
TypeOK ==
  /\ mode \in {"normal", "undrained", "no_queue", "halted"}
  /\ PublishTypeOK /\ SubscribeTypeOK /\ DispatchTypeOK

Init ==
  /\ mode \in {"normal", "undrained", "no_queue"}
  /\ queue = << >>
  /\ sent = [p \in Publishers |-> 0]
  /\ step = [p \in Publishers |-> "idle"]
  /\ held = [p \in Publishers |-> None]
  /\ table = [i \in 1 .. Slots |-> FreeSlot]
  /\ used = {} /\ rule = 1 /\ reg = NoReg
  /\ cur = None /\ pos = 1 /\ seen = {}
  /\ copies = [m \in Mailboxes |-> << >>]
  /\ unread = [m \in Mailboxes |-> 0]
  /\ missed = [m \in Mailboxes |-> {}]
  /\ evicted = {} /\ refused = {}

-----------------------------------------------------------------------------
(* event_bus_publish(): three queue calls that other tasks may come between. *)

\* The first zero-timeout send. Without a queue the event is dropped at once.
PublishSend(p, t) ==
  LET e == [by |-> p, n |-> sent[p] + 1, type |-> t] IN
  /\ mode # "halted" /\ step[p] = "idle" /\ sent[p] < MaxPublish
  /\ sent' = [sent EXCEPT ![p] = @ + 1]
  /\ \/ /\ mode = "no_queue"
        /\ refused' = refused \cup {e}
        /\ UNCHANGED <<queue, step, held>>
     \/ /\ mode # "no_queue" /\ Len(queue) < QueueLen
        /\ queue' = Append(queue, e)
        /\ UNCHANGED <<refused, step, held>>
     \/ /\ mode # "no_queue" /\ Len(queue) = QueueLen
        /\ step' = [step EXCEPT ![p] = "evict"]
        /\ held' = [held EXCEPT ![p] = e]
        /\ UNCHANGED <<queue, refused>>
  /\ UNCHANGED <<mode, registerVars, dispatchVars, unread, evicted>>

\* Mutant of PublishEvict: the newest entry goes.
PublishEvictNewest(p) ==
  /\ mode # "halted" /\ step[p] = "evict" /\ queue # << >>
  /\ evicted' = evicted \cup {queue[Len(queue)]}
  /\ queue' = SubSeq(queue, 1, Len(queue) - 1)
  /\ step' = [step EXCEPT ![p] = "retry"]
  /\ UNCHANGED <<mode, sent, held, refused, registerVars, dispatchVars, unread>>

\* Take the oldest entry out. If nothing is left to take, the new event is dropped.
PublishEvict(p) ==
  /\ mode # "halted" /\ step[p] = "evict"
  /\ \/ /\ queue # << >>
        /\ evicted' = evicted \cup {Head(queue)}
        /\ queue' = Tail(queue)
        /\ step' = [step EXCEPT ![p] = "retry"]
        /\ UNCHANGED <<held, refused>>
     \/ /\ queue = << >>
        /\ refused' = refused \cup {held[p]}
        /\ step' = [step EXCEPT ![p] = "idle"]
        /\ held' = [held EXCEPT ![p] = None]
        /\ UNCHANGED <<queue, evicted>>
  /\ UNCHANGED <<mode, sent, registerVars, dispatchVars, unread>>

\* Mutants of PublishRetry: the event jumps the queue, or the publisher waits for room.
PublishRetryFront(p) ==
  /\ mode # "halted" /\ step[p] = "retry" /\ Len(queue) < QueueLen
  /\ step' = [step EXCEPT ![p] = "idle"]
  /\ held' = [held EXCEPT ![p] = None]
  /\ queue' = <<held[p]>> \o queue
  /\ UNCHANGED <<mode, sent, evicted, refused, registerVars, dispatchVars, unread>>

PublishRetryWait(p) ==
  /\ mode # "halted" /\ step[p] = "retry" /\ Len(queue) < QueueLen
  /\ step' = [step EXCEPT ![p] = "idle"]
  /\ held' = [held EXCEPT ![p] = None]
  /\ queue' = Append(queue, held[p])
  /\ UNCHANGED <<mode, sent, evicted, refused, registerVars, dispatchVars, unread>>

\* The only retry: if another publisher took the room, the new event is dropped.
PublishRetry(p) ==
  /\ mode # "halted" /\ step[p] = "retry"
  /\ step' = [step EXCEPT ![p] = "idle"]
  /\ held' = [held EXCEPT ![p] = None]
  /\ \/ /\ Len(queue) < QueueLen
        /\ queue' = Append(queue, held[p])
        /\ UNCHANGED refused
     \/ /\ Len(queue) = QueueLen
        /\ refused' = refused \cup {held[p]}
        /\ UNCHANGED queue
  /\ UNCHANGED <<mode, sent, evicted, registerVars, dispatchVars, unread>>

-----------------------------------------------------------------------------
(* event_bus_subscribe(): app_main's calls, one after the other. *)

\* The rule is registered already, or the table is full: nothing is stored.
SubscribeSkip ==
  /\ mode # "halted" /\ reg = NoReg /\ rule <= Len(Rules)
  /\ \/ \E i \in 1 .. Slots : Serves(i, Rules[rule])
     \/ 1 .. Slots = used
  /\ rule' = rule + 1
  /\ UNCHANGED <<mode, queue, publishVars, table, used, reg, dispatchVars, unread>>

\* Mutant of SubscribeClaim: the scan for the same rule is left out.
SubscribeClaimAgain ==
  /\ mode # "halted" /\ reg = NoReg /\ rule <= Len(Rules)
  /\ \E i \in 1 .. Slots :
       /\ i \notin used /\ 1 .. i - 1 \subseteq used
       /\ reg' = [slot |-> i, todo |-> Fields]
  /\ UNCHANGED <<mode, queue, publishVars, table, used, rule, dispatchVars, unread>>

\* The first free slot is chosen. Its fields are stored one by one below.
SubscribeClaim ==
  /\ mode # "halted" /\ reg = NoReg /\ rule <= Len(Rules)
  /\ ~ \E i \in 1 .. Slots : Serves(i, Rules[rule])
  /\ \E i \in 1 .. Slots :
       /\ i \notin used /\ 1 .. i - 1 \subseteq used
       /\ reg' = [slot |-> i, todo |-> Fields]
  /\ UNCHANGED <<mode, queue, publishVars, table, used, rule, dispatchVars, unread>>

\* One store. They are plain stores to a shared object: a build may order them as it likes.
SubscribeStore(f) ==
  LET i == reg.slot IN
  /\ mode # "halted" /\ f \in reg.todo
  /\ \/ f = "q"    /\ table' = [table EXCEPT ![i].q = Rules[rule].q] /\ UNCHANGED used
     \/ f = "type" /\ table' = [table EXCEPT ![i].type = Rules[rule].type] /\ UNCHANGED used
     \/ f = "used" /\ used' = used \cup {i} /\ UNCHANGED table
  /\ IF reg.todo = {f} THEN reg' = NoReg /\ rule' = rule + 1
                       ELSE reg' = [reg EXCEPT !.todo = @ \ {f}] /\ UNCHANGED rule
  /\ UNCHANGED <<mode, queue, publishVars, dispatchVars, unread>>

-----------------------------------------------------------------------------
(* event_dispatch_task() and event_bus_dispatch(). *)

DispatchReceive ==
  /\ mode # "halted" /\ mode = "normal" /\ cur = None /\ queue # << >>
  /\ cur' = Head(queue) /\ queue' = Tail(queue) /\ pos' = 1
  /\ seen' = used \ {reg.slot}
  /\ UNCHANGED <<mode, publishVars, registerVars, copies, missed, unread>>

\* Slot pos has no rule for the type of cur.
DispatchPass ==
  /\ mode # "halted" /\ cur # None /\ pos <= Slots
  /\ pos \notin used \/ table[pos].type # cur.type
  /\ pos' = pos + 1
  /\ UNCHANGED <<mode, queue, publishVars, registerVars, cur, seen, copies, missed, unread>>

\* Mutants of DispatchForward: a miss that ends the scan, a send that waits for room.
DispatchForwardTo(room, afterMiss) ==
  LET m == table[pos].q IN
  /\ mode # "halted" /\ cur # None /\ pos <= Slots
  /\ pos \in used /\ table[pos].type = cur.type /\ m # None
  /\ \/ /\ unread[m] < room
        /\ copies' = [copies EXCEPT ![m] = Append(@, cur)]
        /\ unread' = [unread EXCEPT ![m] = @ + 1]
        /\ pos' = pos + 1
        /\ UNCHANGED missed
     \/ /\ unread[m] = room /\ afterMiss # None
        /\ missed' = [missed EXCEPT ![m] = @ \cup {cur}]
        /\ pos' = afterMiss
        /\ UNCHANGED <<copies, unread>>
  /\ UNCHANGED <<mode, queue, publishVars, registerVars, cur, seen>>

DispatchForwardStop == DispatchForwardTo(MailboxLen, Slots + 1)
DispatchForwardWait == DispatchForwardTo(MailboxLen, None)

\* Slot pos has one: a zero-timeout send, whose failure is only counted.
DispatchForward ==
  LET m == table[pos].q IN
  /\ mode # "halted" /\ cur # None /\ pos <= Slots
  /\ pos \in used /\ table[pos].type = cur.type
  /\ \/ /\ m = None
        /\ mode' = "halted"
        /\ UNCHANGED <<copies, unread, missed, pos>>
     \/ /\ m # None /\ unread[m] < MailboxLen
        /\ copies' = [copies EXCEPT ![m] = Append(@, cur)]
        /\ unread' = [unread EXCEPT ![m] = @ + 1]
        /\ pos' = pos + 1
        /\ UNCHANGED <<mode, missed>>
     \/ /\ m # None /\ unread[m] = MailboxLen
        /\ missed' = [missed EXCEPT ![m] = @ \cup {cur}]
        /\ pos' = pos + 1
        /\ UNCHANGED <<mode, copies, unread>>
  /\ UNCHANGED <<queue, publishVars, registerVars, cur, seen>>

DispatchDone ==
  /\ mode # "halted" /\ cur # None /\ pos = Slots + 1
  /\ cur' = None /\ pos' = 1 /\ seen' = {}
  /\ UNCHANGED <<mode, queue, publishVars, registerVars, copies, missed, unread>>

\* A service takes a copy out of its mailbox, whenever it gets to it.
MailboxReceive(m) ==
  /\ mode # "halted" /\ unread[m] > 0
  /\ unread' = [unread EXCEPT ![m] = @ - 1]
  /\ UNCHANGED <<mode, queue, publishVars, registerVars, dispatchVars>>

-----------------------------------------------------------------------------
Dispatch  == DispatchReceive \/ DispatchPass \/ DispatchForward \/ DispatchDone
Publish(p) == (\E t \in Types : PublishSend(p, t)) \/ PublishEvict(p) \/ PublishRetry(p)
Subscribe == SubscribeSkip \/ SubscribeClaim \/ \E f \in Fields : SubscribeStore(f)

Next == \/ \E p \in Publishers : Publish(p)
        \/ Subscribe
        \/ Dispatch
        \/ \E m \in Mailboxes : MailboxReceive(m)

Spec == Init /\ [][Next]_vars

(* A task that is inside a bus call goes on, and the dispatcher outranks the *)
(* services. Nobody has to publish, and no service has to read its mailbox.  *)
FairSpec == /\ Spec
            /\ \A p \in Publishers : WF_vars(PublishEvict(p) \/ PublishRetry(p))
            /\ WF_vars(Dispatch)

-----------------------------------------------------------------------------
(* Properties *)

\* A mailbox sees the events of one publisher in the order they were published, none twice.
InOrderOnce ==
  \A m \in Mailboxes : \A i, j \in DOMAIN copies[m] :
    i < j /\ copies[m][i].by = copies[m][j].by => copies[m][i].n < copies[m][j].n

\* The bus never gives up a newer event of a publisher while it keeps an older one queued.
EvictsOldestFirst ==
  \A e \in evicted, i \in DOMAIN queue : e.by = queue[i].by => e.n < queue[i].n

\* When the dispatcher lets go of an event, every rule registered before it took the event
\* has had its copy or a counted miss: a full mailbox never costs another mailbox its copy.
FanoutComplete ==
  [][ cur # None /\ cur' = None =>
        \A i \in seen : table[i].type = cur.type =>
          \/ cur \in Elems(copies[table[i].q])
          \/ cur \in missed[table[i].q] ]_vars

\* Nobody waits for anybody: a publisher's call ends, whoever else stops making progress, and a
\* running dispatcher gets every event out of the queue, though no service may ever read its
\* mailbox (event_bus.c:47-80, 124-144).
PublishReturns == \A p \in Publishers : []<>(step[p] = "idle" \/ mode = "halted")
QueueDrains    == []<>(queue = << >> \/ mode # "normal")
NobodyWaits == PublishReturns /\ QueueDrains

\* What each mailbox may rely on.
Interest == [m \in Mailboxes |-> {Rules[k].type : k \in {r \in DOMAIN Rules : Rules[r].q = m}}]
Pending(m) ==
  (IF cur # None /\ cur \notin Elems(copies[m]) THEN <<cur>> ELSE << >>) \o queue
Fanout == INSTANCE LossyFanout
            WITH lane <- [m \in Mailboxes |-> Pending(m)], got <- copies
FanoutSpec == Fanout!Spec
=============================================================================
