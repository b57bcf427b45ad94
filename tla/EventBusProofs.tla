--------------------------- MODULE EventBusProofs ---------------------------
(***************************************************************************)
(* The event bus, for any publishers, mailboxes, rules and sizes: its      *)
(* types, the order of delivery and of eviction, and that it is a lossy    *)
(* fan-out.                                                                *)
(*                                                                         *)
(* The order of delivery is inductive only together with two facts: the    *)
(* events on their way form one line per publisher (Line), and no two      *)
(* slots serve the same rule (TableInv), so that the dispatcher cannot     *)
(* hand the event it holds to a mailbox a second time (OncePerScan). The   *)
(* refinement rests on the same facts.                                     *)
(***************************************************************************)
EXTENDS EventBus, TLAPS

-----------------------------------------------------------------------------
(* Types *)

\* What Append and Tail do to a sequence and to its entries.
LEMMA AppendFacts ==
  ASSUME NEW S, NEW s \in Seq(S), NEW e \in S
  PROVE  /\ Append(s, e) \in Seq(S)
         /\ Len(Append(s, e)) = Len(s) + 1
         /\ DOMAIN s = 1 .. Len(s) /\ DOMAIN Append(s, e) = 1 .. Len(s) + 1
         /\ \A i \in DOMAIN s : Append(s, e)[i] = s[i] /\ s[i] \in S
         /\ Append(s, e)[Len(s) + 1] = e
  OBVIOUS

\* The tail of a non-empty sequence, element by element.
LEMMA TailFacts ==
  ASSUME NEW S, NEW s \in Seq(S), s # << >>
  PROVE  /\ Tail(s) \in Seq(S) /\ Head(s) \in S /\ Head(s) = s[1] /\ 1 \in DOMAIN s
         /\ Len(s) \in Nat \ {0} /\ Len(Tail(s)) = Len(s) - 1
         /\ DOMAIN s = 1 .. Len(s) /\ DOMAIN Tail(s) = 1 .. Len(s) - 1
         /\ \A i \in DOMAIN Tail(s) : i + 1 \in DOMAIN s /\ Tail(s)[i] = s[i + 1]
  OBVIOUS

\* Every variable stays in its type: queue and mailboxes within their capacity, the dispatcher
\* within the table, whatever the order of the steps.
THEOREM TypeCorrect == Spec => []TypeOK
<1>1. Init => TypeOK
  <2> SUFFICES ASSUME Init PROVE TypeOK
    OBVIOUS
  <2>1. queue \in Seq(Event) /\ Len(queue) <= QueueLen
    BY ConstantsOK DEF Init
  <2>2. PublishTypeOK
    BY <2>1, ConstantsOK DEF Init, PublishTypeOK
  <2>3. SubscribeTypeOK
    BY ConstantsOK DEF Init, SubscribeTypeOK, FreeSlot, NoReg
  <2>4. DispatchTypeOK
    BY ConstantsOK DEF Init, DispatchTypeOK
  <2> QED BY <2>2, <2>3, <2>4 DEF Init, TypeOK
<1>2. TypeOK /\ [Next]_vars => TypeOK'
  <2> SUFFICES ASSUME TypeOK, [Next]_vars PROVE TypeOK'
    OBVIOUS
  <2>0. /\ PublishTypeOK /\ SubscribeTypeOK /\ DispatchTypeOK
        /\ mode \in {"normal", "undrained", "no_queue", "halted"}
    BY DEF TypeOK
  <2>P. UNCHANGED <<queue, publishVars>> => PublishTypeOK'
    BY <2>0 DEF PublishTypeOK, publishVars
  <2>S. UNCHANGED registerVars => SubscribeTypeOK'
    BY <2>0 DEF SubscribeTypeOK, registerVars
  <2>D. UNCHANGED <<dispatchVars, unread>> => DispatchTypeOK'
    BY <2>0 DEF DispatchTypeOK, dispatchVars
  <2>1. ASSUME NEW p \in Publishers, NEW t \in Types, PublishSend(p, t) PROVE TypeOK'
    <3> DEFINE e == [by |-> p, n |-> sent[p] + 1, type |-> t]
    <3>0. sent[p] < MaxPublish /\ step[p] = "idle" /\ sent[p] \in 0 .. MaxPublish
      BY <2>0, <2>1 DEF PublishSend, PublishTypeOK
    <3>1. sent[p] + 1 \in 0 .. MaxPublish /\ sent[p] + 1 \in 1 .. MaxPublish
      BY <3>0, ConstantsOK
    <3>2. e \in Event
      BY <3>1 DEF Event
    <3>3. /\ sent' = [sent EXCEPT ![p] = sent[p] + 1] /\ evicted' = evicted
          /\ \/ queue' = queue
             \/ queue' = Append(queue, e) /\ Len(queue) < QueueLen
          /\ \/ step' = step /\ held' = held
             \/ step' = [step EXCEPT ![p] = "evict"] /\ held' = [held EXCEPT ![p] = e]
          /\ refused' = refused \/ refused' = refused \cup {e}
      <4>1. sent' = [sent EXCEPT ![p] = sent[p] + 1] /\ evicted' = evicted
        BY <2>1 DEF PublishSend
      <4>2. \/ refused' = refused \cup {e} /\ queue' = queue /\ step' = step /\ held' = held
            \/ /\ Len(queue) < QueueLen /\ queue' = Append(queue, e)
               /\ refused' = refused /\ step' = step /\ held' = held
            \/ /\ step' = [step EXCEPT ![p] = "evict"] /\ held' = [held EXCEPT ![p] = e]
               /\ refused' = refused /\ queue' = queue
        BY <2>1, Zenon DEF PublishSend
      <4> HIDE DEF e
      <4> QED BY <4>1, <4>2
    <3>4. UNCHANGED <<mode, registerVars, dispatchVars, unread>>
      BY <2>1 DEF PublishSend
    <3> HIDE DEF e
    <3>5. queue' \in Seq(Event) /\ Len(queue') <= QueueLen
      <4>0. queue \in Seq(Event) /\ Len(queue) \in Nat /\ Len(queue) <= QueueLen
        BY <2>0 DEF PublishTypeOK
      <4>1. Append(queue, e) \in Seq(Event) /\ Len(Append(queue, e)) = Len(queue) + 1
        BY <3>2, <4>0, AppendFacts
      <4>2. Len(queue) < QueueLen => Len(queue) + 1 <= QueueLen
        BY <4>0, ConstantsOK
      <4> QED BY <3>3, <4>0, <4>1, <4>2
    <3>6. sent' \in [Publishers -> 0 .. MaxPublish]
      BY <2>0, <3>1, <3>3 DEF PublishTypeOK
    <3>7. /\ step' \in [Publishers -> {"idle", "evict", "retry"}]
          /\ held' \in [Publishers -> Event \cup {None}]
          /\ \A r \in Publishers : held'[r] = None <=> step'[r] = "idle"
          /\ refused' \subseteq Event /\ evicted' \subseteq Event
      BY <2>0, <3>2, <3>3, NoneIsNoEvent DEF PublishTypeOK
    <3>8. PublishTypeOK'
      BY <3>5, <3>6, <3>7 DEF PublishTypeOK
    <3> QED BY <2>0, <2>S, <2>D, <3>4, <3>8 DEF TypeOK
  <2>2. ASSUME NEW p \in Publishers, PublishEvict(p) PROVE TypeOK'
    <3>1. /\ step[p] = "evict" /\ sent' = sent
          /\ \/ /\ queue' = Tail(queue) /\ queue # << >>
                /\ evicted' = evicted \cup {Head(queue)} /\ refused' = refused
                /\ step' = [step EXCEPT ![p] = "retry"] /\ held' = held
             \/ /\ queue' = queue /\ evicted' = evicted
                /\ refused' = refused \cup {held[p]}
                /\ step' = [step EXCEPT ![p] = "idle"] /\ held' = [held EXCEPT ![p] = None]
      BY <2>2 DEF PublishEvict
    <3>2. queue' \in Seq(Event) /\ Len(queue') <= QueueLen /\ evicted' \subseteq Event
      <4>0. queue \in Seq(Event) /\ Len(queue) \in Nat /\ Len(queue) <= QueueLen
        BY <2>0 DEF PublishTypeOK
      <4>1. queue # << >> => /\ Tail(queue) \in Seq(Event) /\ Head(queue) \in Event
                             /\ Len(Tail(queue)) <= QueueLen
        BY <4>0, TailFacts, ConstantsOK
      <4> QED BY <2>0, <3>1, <4>0, <4>1 DEF PublishTypeOK
    <3>3. /\ step' \in [Publishers -> {"idle", "evict", "retry"}]
          /\ held' \in [Publishers -> Event \cup {None}]
          /\ \A r \in Publishers : held'[r] = None <=> step'[r] = "idle"
          /\ refused' \subseteq Event /\ sent' \in [Publishers -> 0 .. MaxPublish]
      BY <2>0, <3>1 DEF PublishTypeOK
    <3>4. UNCHANGED <<mode, registerVars, dispatchVars, unread>>
      BY <2>2 DEF PublishEvict
    <3>5. PublishTypeOK'
      BY <3>2, <3>3 DEF PublishTypeOK
    <3> QED BY <2>0, <2>S, <2>D, <3>4, <3>5 DEF TypeOK
  <2>3. ASSUME NEW p \in Publishers, PublishRetry(p) PROVE TypeOK'
    <3>1. /\ step[p] = "retry" /\ sent' = sent /\ evicted' = evicted
          /\ step' = [step EXCEPT ![p] = "idle"] /\ held' = [held EXCEPT ![p] = None]
          /\ \/ queue' = Append(queue, held[p]) /\ Len(queue) < QueueLen /\ refused' = refused
             \/ queue' = queue /\ refused' = refused \cup {held[p]}
      BY <2>3 DEF PublishRetry
    <3>2. held[p] \in Event
      BY <2>0, <3>1 DEF PublishTypeOK
    <3>3. queue' \in Seq(Event) /\ Len(queue') <= QueueLen
      <4>0. queue \in Seq(Event) /\ Len(queue) \in Nat /\ Len(queue) <= QueueLen
        BY <2>0 DEF PublishTypeOK
      <4>1. /\ Append(queue, held[p]) \in Seq(Event)
            /\ Len(Append(queue, held[p])) = Len(queue) + 1
        BY <3>2, <4>0, AppendFacts
      <4>2. Len(queue) < QueueLen => Len(queue) + 1 <= QueueLen
        BY <4>0, ConstantsOK
      <4> QED BY <3>1, <4>0, <4>1, <4>2
    <3>4. /\ step' \in [Publishers -> {"idle", "evict", "retry"}]
          /\ held' \in [Publishers -> Event \cup {None}]
          /\ \A r \in Publishers : held'[r] = None <=> step'[r] = "idle"
          /\ refused' \subseteq Event /\ evicted' \subseteq Event
          /\ sent' \in [Publishers -> 0 .. MaxPublish]
      BY <2>0, <3>1, <3>2 DEF PublishTypeOK
    <3>5. UNCHANGED <<mode, registerVars, dispatchVars, unread>>
      BY <2>3 DEF PublishRetry
    <3>6. PublishTypeOK'
      BY <3>3, <3>4 DEF PublishTypeOK
    <3> QED BY <2>0, <2>S, <2>D, <3>5, <3>6 DEF TypeOK
  <2>4. CASE SubscribeSkip
    <3>1. UNCHANGED <<mode, queue, publishVars, table, used, reg, dispatchVars, unread>>
      BY <2>4 DEF SubscribeSkip
    <3>2. rule \in Nat /\ Len(Rules) \in Nat /\ rule <= Len(Rules) /\ rule' = rule + 1
      BY <2>0, <2>4, ConstantsOK DEF SubscribeSkip, SubscribeTypeOK
    <3>3. rule' \in 1 .. Len(Rules) + 1
      BY <3>2
    <3>4. SubscribeTypeOK'
      BY <2>0, <2>4, <3>1, <3>3 DEF SubscribeTypeOK, SubscribeSkip
    <3> QED BY <2>0, <2>P, <2>D, <3>1, <3>4 DEF TypeOK
  <2>5. CASE SubscribeClaim
    <3>1. UNCHANGED <<mode, queue, publishVars, table, used, rule, dispatchVars, unread>>
      BY <2>5 DEF SubscribeClaim
    <3>2. PICK i \in 1 .. Slots : reg' = [slot |-> i, todo |-> Fields]
      BY <2>5 DEF SubscribeClaim
    <3>3. i \in 0 .. Slots
      BY ConstantsOK
    <3>4. reg' \in [slot : 0 .. Slots, todo : SUBSET Fields]
      BY <3>2, <3>3
    <3>5. rule \in DOMAIN Rules /\ i # 0
      BY <2>0, <2>5, ConstantsOK DEF SubscribeTypeOK, SubscribeClaim
    <3>6. SubscribeTypeOK'
      BY <2>0, <3>1, <3>2, <3>4, <3>5 DEF SubscribeTypeOK
    <3> QED BY <2>0, <2>P, <2>D, <3>1, <3>6 DEF TypeOK
  <2>6. ASSUME NEW f \in Fields, SubscribeStore(f) PROVE TypeOK'
    <3>1. UNCHANGED <<mode, queue, publishVars, dispatchVars, unread>>
      BY <2>6 DEF SubscribeStore
    <3> DEFINE i == reg.slot
    <3>2. /\ reg # NoReg /\ i \in 1 .. Slots /\ rule \in DOMAIN Rules
          /\ reg.todo \subseteq Fields
      BY <2>0, <2>6 DEF SubscribeTypeOK, SubscribeStore, NoReg
    <3>3. Rules[rule] \in [q : Mailboxes, type : Types]
      <4> DEFINE R == [q : Mailboxes, type : Types]
      <4>1. Rules \in Seq(R)
        BY ConstantsOK
      <4> HIDE DEF R
      <4>2. Rules[rule] \in R
        BY <3>2, <4>1
      <4> QED BY <4>2 DEF R
    <3>4. table' \in [1 .. Slots -> [q : Mailboxes \cup {None}, type : Types \cup {None}]]
      <4>1. \/ table' = table
            \/ table' = [table EXCEPT ![i].q = Rules[rule].q]
            \/ table' = [table EXCEPT ![i].type = Rules[rule].type]
        BY <2>6, Zenon DEF SubscribeStore
      <4> HIDE DEF i
      <4> QED BY <2>0, <3>2, <3>3, <4>1 DEF SubscribeTypeOK
    <3>5. used' \subseteq 1 .. Slots
      <4>1. used' = used \/ used' = used \cup {i}
        BY <2>6, Zenon DEF SubscribeStore
      <4> QED BY <2>0, <3>2, <4>1 DEF SubscribeTypeOK
    <3>6. \/ reg' = NoReg /\ rule' = rule + 1
          \/ reg' = [reg EXCEPT !.todo = reg.todo \ {f}] /\ rule' = rule
      BY <2>6, Zenon DEF SubscribeStore
    <3>7. /\ reg' \in [slot : 0 .. Slots, todo : SUBSET Fields]
          /\ reg' # NoReg => reg'.slot # 0 /\ rule' = rule
      <4>1. NoReg \in [slot : 0 .. Slots, todo : SUBSET Fields]
        BY ConstantsOK DEF NoReg
      <4>2. reg \in [slot : 0 .. Slots, todo : SUBSET Fields] /\ reg.slot # 0
        BY <2>0, <3>2 DEF SubscribeTypeOK
      <4>3. /\ [reg EXCEPT !.todo = reg.todo \ {f}] \in [slot : 0 .. Slots, todo : SUBSET Fields]
            /\ [reg EXCEPT !.todo = reg.todo \ {f}].slot = reg.slot
        BY <4>2
      <4> QED BY <3>6, <4>1, <4>2, <4>3
    <3>8. rule' \in 1 .. Len(Rules) + 1
      BY <2>0, <3>2, <3>6, ConstantsOK DEF SubscribeTypeOK
    <3>9. SubscribeTypeOK'
      BY <3>2, <3>4, <3>5, <3>7, <3>8 DEF SubscribeTypeOK
    <3> QED BY <2>0, <2>P, <2>D, <3>1, <3>9 DEF TypeOK
  <2>7. CASE DispatchReceive
    <3>1. /\ queue # << >> /\ cur' = Head(queue) /\ queue' = Tail(queue) /\ pos' = 1
          /\ seen' = used \ {reg.slot}
      BY <2>7 DEF DispatchReceive
    <3>2. UNCHANGED <<mode, publishVars, registerVars, copies, missed, unread>>
      BY <2>7 DEF DispatchReceive
    <3>3. queue' \in Seq(Event) /\ Len(queue') <= QueueLen /\ cur' \in Event
      BY <2>0, <3>1, TailFacts, ConstantsOK DEF PublishTypeOK
    <3>4. PublishTypeOK'
      BY <2>0, <3>2, <3>3 DEF PublishTypeOK, publishVars
    <3>5. pos' \in 1 .. Slots + 1 /\ seen' \subseteq 1 .. Slots
      <4>1. 1 \in 1 .. Slots + 1
        BY ConstantsOK
      <4>2. used \subseteq 1 .. Slots
        BY <2>0 DEF SubscribeTypeOK
      <4> QED BY <3>1, <4>1, <4>2
    <3>6. DispatchTypeOK'
      BY <2>0, <3>2, <3>3, <3>5 DEF DispatchTypeOK
    <3> QED BY <2>0, <2>S, <3>2, <3>4, <3>6 DEF TypeOK
  <2>8. CASE DispatchPass
    <3>1. /\ pos <= Slots /\ pos' = pos + 1
          /\ UNCHANGED <<mode, queue, publishVars, registerVars, cur, seen, copies, missed, unread>>
      BY <2>8 DEF DispatchPass
    <3>2. pos' \in 1 .. Slots + 1
      BY <2>0, <3>1, ConstantsOK DEF DispatchTypeOK
    <3>3. DispatchTypeOK'
      BY <2>0, <3>1, <3>2 DEF DispatchTypeOK
    <3> QED BY <2>0, <2>P, <2>S, <3>1, <3>3 DEF TypeOK
  <2>9. CASE DispatchForward
    <3> DEFINE m == table[pos].q
    <3>1. /\ pos <= Slots /\ cur # None
          /\ UNCHANGED <<queue, publishVars, registerVars, cur, seen>>
          /\ \/ mode' = "halted" /\ UNCHANGED <<copies, unread, missed, pos>>
             \/ /\ m # None /\ unread[m] < MailboxLen
                /\ copies' = [copies EXCEPT ![m] = Append(@, cur)]
                /\ unread' = [unread EXCEPT ![m] = @ + 1]
                /\ pos' = pos + 1 /\ UNCHANGED <<mode, missed>>
             \/ /\ m # None
                /\ missed' = [missed EXCEPT ![m] = @ \cup {cur}]
                /\ pos' = pos + 1 /\ UNCHANGED <<mode, copies, unread>>
      BY <2>9 DEF DispatchForward
    <3>2. pos \in 1 .. Slots /\ pos + 1 \in 1 .. Slots + 1 /\ cur \in Event
      BY <2>0, <3>1, ConstantsOK DEF DispatchTypeOK
    <3>3. m \in Mailboxes \cup {None}
      BY <2>0, <3>2 DEF SubscribeTypeOK
    <3> HIDE DEF m
    <3>4. copies' \in [Mailboxes -> Seq(Event)]
      <4>1. copies \in [Mailboxes -> Seq(Event)]
        BY <2>0 DEF DispatchTypeOK
      <4>2. m \in Mailboxes => copies[m] \in Seq(Event) /\ Append(copies[m], cur) \in Seq(Event)
        BY <4>1, <3>2
      <4>3. \/ copies' = copies
            \/ m \in Mailboxes /\ copies' = [copies EXCEPT ![m] = Append(copies[m], cur)]
        BY <3>1, <3>3
      <4> QED BY <4>1, <4>2, <4>3
    <3>5. unread' \in [Mailboxes -> 0 .. MailboxLen]
      BY <2>0, <3>1, <3>3, ConstantsOK DEF DispatchTypeOK
    <3>6. missed' \in [Mailboxes -> SUBSET Event]
      BY <2>0, <3>1, <3>2, <3>3 DEF DispatchTypeOK
    <3>7. DispatchTypeOK'
      BY <2>0, <3>1, <3>2, <3>4, <3>5, <3>6 DEF DispatchTypeOK
    <3>8. mode' = "halted" \/ mode' = mode
      BY <3>1
    <3> QED BY <2>0, <2>P, <2>S, <3>1, <3>7, <3>8 DEF TypeOK
  <2>10. CASE DispatchDone
    <3>1. UNCHANGED <<mode, queue, publishVars, registerVars, copies, missed, unread>>
      BY <2>10 DEF DispatchDone
    <3>2. DispatchTypeOK'
      BY <2>0, <2>10, <3>1, ConstantsOK DEF DispatchDone, DispatchTypeOK
    <3> QED BY <2>0, <2>P, <2>S, <3>1, <3>2 DEF TypeOK
  <2>11. ASSUME NEW m \in Mailboxes, MailboxReceive(m) PROVE TypeOK'
    <3>1. /\ UNCHANGED <<mode, queue, publishVars, registerVars, dispatchVars>>
          /\ unread[m] > 0 /\ unread' = [unread EXCEPT ![m] = @ - 1]
      BY <2>11 DEF MailboxReceive
    <3>2. unread' \in [Mailboxes -> 0 .. MailboxLen]
      BY <2>0, <3>1, ConstantsOK DEF DispatchTypeOK
    <3>3. DispatchTypeOK'
      BY <2>0, <3>1, <3>2 DEF DispatchTypeOK, dispatchVars
    <3> QED BY <2>0, <2>P, <2>S, <3>1, <3>3 DEF TypeOK
  <2>12. CASE UNCHANGED vars
    BY <2>0, <2>P, <2>S, <2>D, <2>12 DEF TypeOK, vars
  <2> QED
    BY <2>1, <2>2, <2>3, <2>4, <2>5, <2>6, <2>7, <2>8, <2>9, <2>10, <2>11, <2>12
       DEF Next, Publish, Subscribe, Dispatch
<1> QED BY <1>1, <1>2, PTL DEF Spec

-----------------------------------------------------------------------------
(* Order *)

\* e was published before f, as far as they come from one publisher.
Before(e, f) == e.by = f.by => e.n < f.n

\* The slot being filled shows exactly the stores done so far, every other slot is free or
\* complete, no other slot serves the rule being registered, and no two slots serve one rule.
TableInv ==
  /\ reg.todo = {} <=> reg = NoReg
  /\ reg # NoReg =>
       /\ reg.slot \in 1 .. Slots /\ rule \in DOMAIN Rules
       /\ table[reg.slot].q = IF "q" \in reg.todo THEN None ELSE Rules[rule].q
       /\ table[reg.slot].type = IF "type" \in reg.todo THEN None ELSE Rules[rule].type
       /\ reg.slot \in used <=> "used" \notin reg.todo
       /\ \A i \in 1 .. Slots : i # reg.slot => ~ Serves(i, Rules[rule])
  /\ \A i \in 1 .. Slots : i # reg.slot =>
       \/ i \notin used /\ table[i] = FreeSlot
       \/ i \in used /\ table[i].q # None /\ table[i].type # None
  /\ \A i, j \in used : table[i] = table[j] /\ table[i].q # None /\ table[i].type # None => i = j

\* No event on its way is younger than the last one its publisher sent, and while a publisher
\* holds that one, everything else of it on the way is older.
Fresh(e) == e.n <= sent[e.by] /\ (step[e.by] # "idle" => e.n < sent[e.by])

\* Every event in the queue, in dispatch, in a copy or evicted is in that sense older.
FreshInv ==
  /\ \A i \in DOMAIN queue : Fresh(queue[i])
  /\ cur # None => Fresh(cur)
  /\ \A m \in Mailboxes : \A k \in DOMAIN copies[m] : Fresh(copies[m][k])
  /\ \A e \in evicted : Fresh(e)
  /\ \A p \in Publishers : step[p] # "idle" =>
       held[p] \in Event /\ held[p].by = p /\ held[p].n = sent[p]

\* Per publisher, the copies precede the event being dispatched, which precedes the queue.
Line ==
  /\ \A i, j \in DOMAIN queue : i < j => Before(queue[i], queue[j])
  /\ cur # None => \A i \in DOMAIN queue : Before(cur, queue[i])
  /\ \A m \in Mailboxes : \A k \in DOMAIN copies[m] : \A i \in DOMAIN queue :
       Before(copies[m][k], queue[i])
  /\ cur # None => \A m \in Mailboxes : \A k \in DOMAIN copies[m] :
       copies[m][k] = cur \/ Before(copies[m][k], cur)

\* A mailbox that has its copy of the event being dispatched got it from a slot already passed.
OncePerScan ==
  cur # None => \A m \in Mailboxes : \A k \in DOMAIN copies[m] :
    copies[m][k] = cur => \E j \in 1 .. pos - 1 : Serves(j, [q |-> m, type |-> cur.type])

\* The inductive invariant, beside TypeOK.
OrderInv == TableInv /\ FreshInv /\ Line /\ OncePerScan /\ InOrderOnce /\ EvictsOldestFirst

-----------------------------------------------------------------------------
\* A rule names a mailbox and a type, so that a slot that holds it is complete.
LEMMA RuleFacts ==
  ASSUME NEW k \in DOMAIN Rules
  PROVE  /\ Rules[k] \in [q : Mailboxes, type : Types]
         /\ Rules[k].q # None /\ Rules[k].type # None
         /\ Rules[k] = [q |-> Rules[k].q, type |-> Rules[k].type]
<1> DEFINE R == [q : Mailboxes, type : Types]
<1>1. Rules \in Seq(R)
  BY ConstantsOK
<1> HIDE DEF R
<1>2. Rules[k] \in R
  BY <1>1
<1> QED BY <1>2, ConstantsOK DEF R

\* A registration keeps TableInv, whichever of its stores comes first.
LEMMA StoreKeepsTable ==
  ASSUME TypeOK, TableInv, NEW f \in Fields, SubscribeStore(f)
  PROVE  TableInv'
<1> DEFINE i == reg.slot
           R == Rules[rule]
           left == reg.todo \ {f}
<1>0. /\ table \in [1 .. Slots -> [q : Mailboxes \cup {None}, type : Types \cup {None}]]
      /\ used \subseteq 1 .. Slots /\ reg.todo \subseteq Fields
  BY DEF TypeOK, SubscribeTypeOK
<1>1. /\ f \in reg.todo /\ reg # NoReg /\ i \in 1 .. Slots /\ rule \in DOMAIN Rules
  BY DEF SubscribeStore, TableInv, NoReg
<1>2. R \in [q : Mailboxes, type : Types] /\ R.q # None /\ R.type # None
  BY <1>1, RuleFacts
<1>3. /\ \/ f = "q" /\ table' = [table EXCEPT ![i].q = R.q] /\ used' = used
         \/ f = "type" /\ table' = [table EXCEPT ![i].type = R.type] /\ used' = used
         \/ f = "used" /\ used' = used \cup {i} /\ table' = table
      /\ \/ left = {} /\ reg' = NoReg
         \/ left # {} /\ reg' = [reg EXCEPT !.todo = left] /\ rule' = rule
  <2>1. \/ f = "q" /\ table' = [table EXCEPT ![i].q = R.q] /\ used' = used
        \/ f = "type" /\ table' = [table EXCEPT ![i].type = R.type] /\ used' = used
        \/ f = "used" /\ used' = used \cup {i} /\ table' = table
    BY Zenon DEF SubscribeStore
  <2>2. IF reg.todo = {f} THEN reg' = NoReg /\ rule' = rule + 1
        ELSE reg' = [reg EXCEPT !.todo = left] /\ rule' = rule
    BY Zenon DEF SubscribeStore
  <2> QED BY <2>1, <2>2, <1>1
<1>4. /\ table[i].q = IF "q" \in reg.todo THEN None ELSE R.q
      /\ table[i].type = IF "type" \in reg.todo THEN None ELSE R.type
      /\ i \in used <=> "used" \notin reg.todo
      /\ \A j \in 1 .. Slots : j # i => ~ (j \in used /\ table[j] = R)
      /\ \A j \in 1 .. Slots : j # i =>
           \/ j \notin used /\ table[j] = FreeSlot
           \/ j \in used /\ table[j].q # None /\ table[j].type # None
      /\ \A j, k \in used :
           table[j] = table[k] /\ table[j].q # None /\ table[j].type # None => j = k
  BY <1>1 DEF TableInv, Serves
<1> HIDE DEF i, R
<1>5. /\ table' \in [1 .. Slots -> [q : Mailboxes \cup {None}, type : Types \cup {None}]]
      /\ \A j \in 1 .. Slots : j # i => table'[j] = table[j] /\ (j \in used' <=> j \in used)
      /\ table'[i].q = IF "q" \in left THEN None ELSE R.q
      /\ table'[i].type = IF "type" \in left THEN None ELSE R.type
      /\ i \in used' <=> "used" \notin left
      /\ used' \subseteq 1 .. Slots
  <2>0. /\ R.q \in Mailboxes /\ R.type \in Types
        /\ table[i] \in [q : Mailboxes \cup {None}, type : Types \cup {None}]
    BY <1>0, <1>1, <1>2
  <2>1. CASE f = "q"
    <3>1. table' = [table EXCEPT ![i].q = R.q] /\ used' = used
      BY <1>3, <2>1
    <3>2. table'[i] = [table[i] EXCEPT !.q = R.q]
      BY <1>0, <1>1, <3>1
    <3>3. table'[i].q = R.q /\ table'[i].type = table[i].type
      BY <2>0, <3>2
    <3>4. table' \in [1 .. Slots -> [q : Mailboxes \cup {None}, type : Types \cup {None}]]
      BY <1>0, <1>1, <2>0, <3>1
    <3>5. \A j \in 1 .. Slots : j # i => table'[j] = table[j]
      BY <1>0, <3>1
    <3> QED BY <1>0, <1>1, <1>4, <2>1, <3>1, <3>3, <3>4, <3>5
  <2>2. CASE f = "type"
    <3>1. table' = [table EXCEPT ![i].type = R.type] /\ used' = used
      BY <1>3, <2>2
    <3>2. table'[i] = [table[i] EXCEPT !.type = R.type]
      BY <1>0, <1>1, <3>1
    <3>3. table'[i].type = R.type /\ table'[i].q = table[i].q
      BY <2>0, <3>2
    <3>4. table' \in [1 .. Slots -> [q : Mailboxes \cup {None}, type : Types \cup {None}]]
      BY <1>0, <1>1, <2>0, <3>1
    <3>5. \A j \in 1 .. Slots : j # i => table'[j] = table[j]
      BY <1>0, <3>1
    <3> QED BY <1>0, <1>1, <1>4, <2>2, <3>1, <3>3, <3>4, <3>5
  <2>3. CASE f = "used"
    <3>1. used' = used \cup {i} /\ table' = table
      BY <1>3, <2>3
    <3> QED BY <1>0, <1>1, <1>4, <2>3, <3>1
  <2> QED BY <2>1, <2>2, <2>3 DEF Fields
<1> HIDE DEF left
<1>6. left \subseteq Fields
  BY <1>0 DEF left
<1>7. left = {} => i \in used' /\ table'[i] = R
  BY <1>1, <1>2, <1>5
<1>8. \A j, k \in used' :
        table'[j] = table'[k] /\ table'[j].q # None /\ table'[j].type # None => j = k
  <2> SUFFICES ASSUME NEW j \in used', NEW k \in used', table'[j] = table'[k],
                      table'[j].q # None, table'[j].type # None, j # k
               PROVE  FALSE
    OBVIOUS
  <2>1. table'[i].q # None /\ table'[i].type # None => table'[i] = R
    BY <1>1, <1>2, <1>5
  <2>2. j \in 1 .. Slots /\ k \in 1 .. Slots
    BY <1>5
  <2>3. CASE j = i
    BY <1>4, <1>5, <2>1, <2>2, <2>3
  <2>4. CASE k = i
    BY <1>4, <1>5, <2>1, <2>2, <2>4
  <2>5. CASE j # i /\ k # i
    BY <1>4, <1>5, <2>2, <2>5
  <2> QED BY <2>3, <2>4, <2>5
<1>9. CASE left = {}
  <2>1. reg' = NoReg
    BY <1>3, <1>9
  <2>2. i \in used' /\ table'[i].q # None /\ table'[i].type # None
    BY <1>2, <1>7, <1>9
  <2>3. \A j \in 1 .. Slots :
           \/ j \notin used' /\ table'[j] = FreeSlot
           \/ j \in used' /\ table'[j].q # None /\ table'[j].type # None
    BY <1>4, <1>5, <2>2
  <2> QED BY <1>8, <2>1, <2>3 DEF TableInv, NoReg
<1>10. CASE left # {}
  <2>1. reg' = [reg EXCEPT !.todo = left] /\ rule' = rule
    BY <1>3, <1>10
  <2>2. reg'.slot = i /\ reg'.todo = left /\ reg' # NoReg
    BY <2>1, <1>10 DEF TypeOK, SubscribeTypeOK, NoReg, i
  <2>3. \A j \in 1 .. Slots : j # i =>
           /\ ~ (j \in used' /\ table'[j] = R)
           /\ \/ j \notin used' /\ table'[j] = FreeSlot
              \/ j \in used' /\ table'[j].q # None /\ table'[j].type # None
    BY <1>4, <1>5
  <2> QED BY <1>1, <1>5, <1>8, <1>10, <2>1, <2>2, <2>3 DEF TableInv, Serves, R
<1> QED BY <1>9, <1>10

\* Every step keeps TableInv: only a registration touches the table.
LEMMA TableStep ==
  ASSUME TypeOK, TableInv, [Next]_vars
  PROVE  TableInv'
<1>1. ASSUME UNCHANGED registerVars PROVE TableInv'
  BY <1>1 DEF TableInv, Serves, registerVars
<1>2. ASSUME NEW p \in Publishers, Publish(p) PROVE UNCHANGED registerVars
  BY <1>2 DEF Publish, PublishSend, PublishEvict, PublishRetry
<1>3. CASE SubscribeSkip
  BY <1>3 DEF SubscribeSkip, TableInv, Serves
<1>4. CASE SubscribeClaim
  <2>1. /\ reg = NoReg /\ rule \in DOMAIN Rules /\ UNCHANGED <<table, used, rule>>
        /\ \A i \in 1 .. Slots : ~ Serves(i, Rules[rule])
    BY <1>4, ConstantsOK DEF SubscribeClaim, TypeOK, SubscribeTypeOK
  <2>2. PICK i \in 1 .. Slots : i \notin used /\ reg' = [slot |-> i, todo |-> Fields]
    BY <1>4 DEF SubscribeClaim
  <2>3. reg.slot = 0 /\ reg'.slot = i /\ reg'.todo = Fields /\ reg' # NoReg
    BY <2>1, <2>2, ConstantsOK DEF NoReg
  <2>4. \A j \in 1 .. Slots :
          \/ j \notin used /\ table[j] = FreeSlot
          \/ j \in used /\ table[j].q # None /\ table[j].type # None
    BY <2>3 DEF TableInv
  <2>5. table[i].q = None /\ table[i].type = None
    BY <2>2, <2>4 DEF FreeSlot
  <2>6. \A j, k \in used :
          table[j] = table[k] /\ table[j].q # None /\ table[j].type # None => j = k
    BY DEF TableInv
  <2> QED BY <2>1, <2>2, <2>3, <2>4, <2>5, <2>6 DEF TableInv, Serves, Fields
<1>5. ASSUME NEW f \in Fields, SubscribeStore(f) PROVE TableInv'
  BY <1>5, StoreKeepsTable
<1>6. CASE Dispatch
  BY <1>1, <1>6 DEF Dispatch, DispatchReceive, DispatchPass, DispatchForward, DispatchDone
<1>7. ASSUME NEW m \in Mailboxes, MailboxReceive(m) PROVE UNCHANGED registerVars
  BY <1>7 DEF MailboxReceive
<1>8. CASE UNCHANGED vars
  BY <1>1, <1>8 DEF vars
<1> QED BY <1>1, <1>2, <1>3, <1>4, <1>5, <1>6, <1>7, <1>8 DEF Next, Subscribe

-----------------------------------------------------------------------------
\* An event keeps its place behind the ones its publisher still has to send.
LEMMA FreshStays ==
  ASSUME TypeOK, [Next]_vars, NEW x \in Event, Fresh(x)
  PROVE  Fresh(x)'
<1>0. /\ sent \in [Publishers -> 0 .. MaxPublish]
      /\ step \in [Publishers -> {"idle", "evict", "retry"}]
      /\ x.by \in Publishers /\ x.n \in Nat /\ MaxPublish \in Nat
  BY ConstantsOK DEF TypeOK, PublishTypeOK, Event
<1>1. ASSUME UNCHANGED <<sent, step>> PROVE Fresh(x)'
  BY <1>1 DEF Fresh
<1>2. ASSUME NEW p \in Publishers, NEW t \in Types, PublishSend(p, t) PROVE Fresh(x)'
  <2>1. /\ step[p] = "idle" /\ sent' = [sent EXCEPT ![p] = sent[p] + 1]
        /\ step' = step \/ step' = [step EXCEPT ![p] = "evict"]
    <3>1. step[p] = "idle" /\ sent' = [sent EXCEPT ![p] = sent[p] + 1]
      BY <1>2 DEF PublishSend
    <3>2. step' = step \/ step' = [step EXCEPT ![p] = "evict"]
      BY <1>2, Zenon DEF PublishSend
    <3> QED BY <3>1, <3>2
  <2> QED BY <1>0, <2>1 DEF Fresh
<1>3. ASSUME NEW p \in Publishers, PublishEvict(p) PROVE Fresh(x)'
  <2>1. /\ step[p] = "evict" /\ sent' = sent
        /\ step' = [step EXCEPT ![p] = "retry"] \/ step' = [step EXCEPT ![p] = "idle"]
    BY <1>3 DEF PublishEvict
  <2> QED BY <1>0, <2>1 DEF Fresh
<1>4. ASSUME NEW p \in Publishers, PublishRetry(p) PROVE Fresh(x)'
  <2>1. sent' = sent /\ step' = [step EXCEPT ![p] = "idle"]
    BY <1>4 DEF PublishRetry
  <2> QED BY <1>0, <2>1 DEF Fresh
<1>5. ASSUME Subscribe \/ Dispatch \/ \E m \in Mailboxes : MailboxReceive(m)
      PROVE  UNCHANGED <<sent, step>>
  BY <1>5 DEF Subscribe, SubscribeSkip, SubscribeClaim, SubscribeStore, Dispatch, DispatchReceive,
             DispatchPass, DispatchForward, DispatchDone, MailboxReceive, publishVars
<1>6. CASE UNCHANGED vars
  BY <1>1, <1>6 DEF vars, publishVars
<1> QED BY <1>1, <1>2, <1>3, <1>4, <1>5, <1>6 DEF Next, Publish

\* An entry of Append(s, e) is one of s in its place, or e in the last.
LEMMA AppendCases ==
  ASSUME NEW S, NEW s \in Seq(S), NEW e \in S, NEW i \in DOMAIN Append(s, e)
  PROVE  \/ i \in DOMAIN s /\ Append(s, e)[i] = s[i]
         \/ i = Len(s) + 1 /\ Append(s, e)[i] = e
<1>1. DOMAIN s = 1 .. Len(s) /\ i \in 1 .. Len(s) + 1 /\ Len(s) \in Nat
  BY AppendFacts
<1>2. i \in DOMAIN s \/ i = Len(s) + 1
  BY <1>1
<1> QED BY <1>2, AppendFacts

\* What TypeOK says of the events a step may move.
LEMMA EventFacts ==
  ASSUME TypeOK
  PROVE  /\ queue \in Seq(Event) /\ \A i \in DOMAIN queue : queue[i] \in Event
         /\ cur # None => cur \in Event
         /\ copies \in [Mailboxes -> Seq(Event)]
         /\ \A m \in Mailboxes : copies[m] \in Seq(Event)
         /\ \A m \in Mailboxes : \A k \in DOMAIN copies[m] : copies[m][k] \in Event
         /\ evicted \subseteq Event
         /\ \A e \in Event : e.by \in Publishers /\ e.n \in Nat
<1>1. queue \in Seq(Event) /\ evicted \subseteq Event
  BY DEF TypeOK, PublishTypeOK
<1>2. copies \in [Mailboxes -> Seq(Event)] /\ (cur # None => cur \in Event)
  BY DEF TypeOK, DispatchTypeOK
<1>3. \A e \in Event : e.by \in Publishers /\ e.n \in Nat
  BY ConstantsOK DEF Event
<1>4. \A s \in Seq(Event) : \A i \in DOMAIN s : s[i] \in Event
  OBVIOUS
<1> QED BY <1>1, <1>2, <1>3, <1>4

\* Every step keeps FreshInv: events move along and none gains an age, and a new one is the youngest.
LEMMA FreshStep ==
  ASSUME TypeOK, FreshInv, [Next]_vars
  PROVE  FreshInv'
<1> DEFINE Later(x) == x.n <= sent'[x.by] /\ (step'[x.by] # "idle" => x.n < sent'[x.by])
           Own(p, x) == x \in Event /\ x.by = p /\ x.n = sent'[p]
<1>0. /\ sent \in [Publishers -> 0 .. MaxPublish]
      /\ step \in [Publishers -> {"idle", "evict", "retry"}]
      /\ held \in [Publishers -> Event \cup {None}]
  BY DEF TypeOK, PublishTypeOK
<1>1. \A x \in Event : Fresh(x) => Later(x)
  BY FreshStays DEF Fresh
<1>2. /\ \A i \in DOMAIN queue : Later(queue[i])
      /\ cur # None => Later(cur)
      /\ \A m \in Mailboxes : \A k \in DOMAIN copies[m] : Later(copies[m][k])
      /\ \A x \in evicted : Later(x)
  <2> HIDE DEF Later
  <2> QED BY <1>1, EventFacts DEF FreshInv
<1>3. \A p \in Publishers : step[p] # "idle" => held[p] \in Event /\ held[p].by = p /\ held[p].n = sent[p]
  BY DEF FreshInv
<1> SUFFICES /\ \A i \in DOMAIN queue' : Later(queue'[i])
             /\ cur' # None => Later(cur')
             /\ \A m \in Mailboxes : \A k \in DOMAIN copies'[m] : Later(copies'[m][k])
             /\ \A x \in evicted' : Later(x)
             /\ \A p \in Publishers : step'[p] # "idle" => Own(p, held'[p])
  BY DEF FreshInv, Fresh
<1>4. ASSUME NEW p \in Publishers, NEW t \in Types, PublishSend(p, t)
      PROVE  /\ \A i \in DOMAIN queue' : Later(queue'[i])
             /\ UNCHANGED <<cur, copies, evicted>>
             /\ \A r \in Publishers : step'[r] # "idle" => Own(r, held'[r])
  <2> DEFINE e == [by |-> p, n |-> sent[p] + 1, type |-> t]
  <2>1. step[p] = "idle" /\ sent[p] < MaxPublish /\ sent' = [sent EXCEPT ![p] = sent[p] + 1]
    BY <1>4 DEF PublishSend
  <2>2. \/ queue' = queue /\ step' = step /\ held' = held
        \/ queue' = Append(queue, e) /\ step' = step /\ held' = held
        \/ /\ queue' = queue /\ step' = [step EXCEPT ![p] = "evict"]
           /\ held' = [held EXCEPT ![p] = e]
    BY <1>4, Zenon DEF PublishSend
  <2>3. sent[p] \in 0 .. MaxPublish /\ sent[p] + 1 \in 1 .. MaxPublish
    BY <1>0, <2>1, ConstantsOK
  <2>4. e \in Event /\ Own(p, e)
    BY <1>0, <2>1, <2>3 DEF Event
  <2>5. step' = step => Later(e)
    BY <1>0, <2>1, <2>3
  <2>6. UNCHANGED <<cur, copies, evicted>>
    BY <1>4 DEF PublishSend, dispatchVars
  <2> HIDE DEF e, Later
  <2>7. \A i \in DOMAIN queue' : Later(queue'[i])
    BY <1>2, <2>2, <2>4, <2>5, AppendCases, EventFacts
  <2>8. \A r \in Publishers : step'[r] # "idle" => Own(r, held'[r])
    <3> SUFFICES ASSUME NEW r \in Publishers, step'[r] # "idle" PROVE Own(r, held'[r])
      OBVIOUS
    <3>1. CASE r = p
      <4>1. held'[p] = e
        BY <1>0, <2>1, <2>2, <3>1
      <4> QED BY <2>4, <3>1, <4>1
    <3>2. CASE r # p
      <4>1. step'[r] = step[r] /\ held'[r] = held[r] /\ sent'[r] = sent[r]
        BY <1>0, <2>1, <2>2, <3>2
      <4> QED BY <1>3, <4>1
    <3> QED BY <3>1, <3>2
  <2> QED BY <2>6, <2>7, <2>8
<1>5. ASSUME NEW p \in Publishers, PublishEvict(p)
      PROVE  /\ \A i \in DOMAIN queue' : Later(queue'[i])
             /\ UNCHANGED <<cur, copies>>
             /\ \A x \in evicted' : Later(x)
             /\ \A r \in Publishers : step'[r] # "idle" => Own(r, held'[r])
  <2>1. /\ step[p] = "evict" /\ sent' = sent /\ UNCHANGED <<cur, copies>>
        /\ \/ /\ queue' = Tail(queue) /\ queue # << >> /\ evicted' = evicted \cup {Head(queue)}
              /\ step' = [step EXCEPT ![p] = "retry"] /\ held' = held
           \/ /\ queue' = queue /\ evicted' = evicted
              /\ step' = [step EXCEPT ![p] = "idle"] /\ held' = [held EXCEPT ![p] = None]
    BY <1>5 DEF PublishEvict, dispatchVars
  <2> HIDE DEF Later
  <2>2. (\A i \in DOMAIN queue' : Later(queue'[i])) /\ (\A x \in evicted' : Later(x))
    <3>1. queue # << >> => /\ Head(queue) = queue[1] /\ 1 \in DOMAIN queue
                           /\ \A i \in DOMAIN Tail(queue) : i + 1 \in DOMAIN queue /\ Tail(queue)[i] = queue[i + 1]
      BY TailFacts, EventFacts
    <3> QED BY <1>2, <2>1, <3>1
  <2>3. \A r \in Publishers : step'[r] # "idle" => held'[r] = held[r] /\ step[r] # "idle"
    BY <1>0, <2>1
  <2>4. \A r \in Publishers : step'[r] # "idle" => Own(r, held'[r])
    BY <1>3, <2>1, <2>3
  <2> QED BY <2>1, <2>2, <2>4
<1>6. ASSUME NEW p \in Publishers, PublishRetry(p)
      PROVE  /\ \A i \in DOMAIN queue' : Later(queue'[i])
             /\ UNCHANGED <<cur, copies, evicted>>
             /\ \A r \in Publishers : step'[r] # "idle" => Own(r, held'[r])
  <2>1. /\ step[p] = "retry" /\ sent' = sent /\ UNCHANGED <<cur, copies, evicted>>
        /\ queue' = queue \/ queue' = Append(queue, held[p])
        /\ step' = [step EXCEPT ![p] = "idle"] /\ held' = [held EXCEPT ![p] = None]
    BY <1>6 DEF PublishRetry, dispatchVars
  <2>2. held[p] \in Event /\ Later(held[p])
    BY <1>0, <1>3, <2>1
  <2> HIDE DEF Later
  <2>3. \A i \in DOMAIN queue' : Later(queue'[i])
    <3>1. \A i \in DOMAIN Append(queue, held[p]) :
             \/ i \in DOMAIN queue /\ Append(queue, held[p])[i] = queue[i]
             \/ Append(queue, held[p])[i] = held[p]
      BY <2>2, AppendCases, EventFacts
    <3> QED BY <1>2, <2>1, <2>2, <3>1
  <2>4. \A r \in Publishers : step'[r] # "idle" => held'[r] = held[r] /\ step[r] # "idle"
    BY <1>0, <2>1
  <2>5. \A r \in Publishers : step'[r] # "idle" => Own(r, held'[r])
    BY <1>3, <2>1, <2>4
  <2> QED BY <2>1, <2>3, <2>5
<1>7. ASSUME UNCHANGED publishVars PROVE \A p \in Publishers : step'[p] # "idle" => Own(p, held'[p])
  BY <1>3, <1>7 DEF publishVars
<1> HIDE DEF Later, Own
<1>8. CASE DispatchReceive
  <2>1. /\ queue # << >> /\ cur' = Head(queue) /\ queue' = Tail(queue)
        /\ UNCHANGED <<publishVars, copies, evicted>>
    BY <1>8 DEF DispatchReceive, publishVars
  <2> QED BY <1>2, <1>7, <2>1, TailFacts, EventFacts
<1>9. CASE DispatchForward
  <2> DEFINE m == table[pos].q
  <2>1. /\ cur # None /\ UNCHANGED <<queue, publishVars, cur, evicted>>
        /\ copies' = copies \/ copies' = [copies EXCEPT ![m] = Append(copies[m], cur)]
    BY <1>9 DEF DispatchForward, publishVars
  <2> HIDE DEF m
  <2>2. \A b \in Mailboxes : \A k \in DOMAIN copies'[b] : Later(copies'[b][k])
    <3> SUFFICES ASSUME NEW b \in Mailboxes, NEW k \in DOMAIN copies'[b] PROVE Later(copies'[b][k])
      OBVIOUS
    <3>1. copies'[b] = copies[b] \/ copies'[b] = Append(copies[b], cur)
      BY <2>1, EventFacts
    <3>2. cur \in Event /\ copies[b] \in Seq(Event)
      BY <2>1, EventFacts
    <3>3. \A i \in DOMAIN Append(copies[b], cur) :
             \/ i \in DOMAIN copies[b] /\ Append(copies[b], cur)[i] = copies[b][i]
             \/ Append(copies[b], cur)[i] = cur
      BY <3>2, AppendCases
    <3> QED BY <1>2, <2>1, <3>1, <3>3
  <2> QED BY <1>2, <1>7, <2>1, <2>2
<1>10. CASE DispatchDone
  BY <1>2, <1>7, <1>10 DEF DispatchDone, publishVars
<1>11. ASSUME UNCHANGED <<queue, publishVars, cur, copies>>
       PROVE  /\ \A i \in DOMAIN queue' : Later(queue'[i])
              /\ cur' # None => Later(cur')
              /\ \A m \in Mailboxes : \A k \in DOMAIN copies'[m] : Later(copies'[m][k])
              /\ \A x \in evicted' : Later(x)
              /\ \A p \in Publishers : step'[p] # "idle" => Own(p, held'[p])
  BY <1>2, <1>7, <1>11 DEF publishVars
<1>12. ASSUME \/ Subscribe
              \/ DispatchPass
              \/ \E m \in Mailboxes : MailboxReceive(m)
              \/ UNCHANGED vars
       PROVE  UNCHANGED <<queue, publishVars, cur, copies>>
  BY <1>12 DEF Subscribe, SubscribeSkip, SubscribeClaim, SubscribeStore, DispatchPass,
               MailboxReceive, dispatchVars, vars
<1> QED
  BY <1>2, <1>4, <1>5, <1>6, <1>8, <1>9, <1>10, <1>11, <1>12 DEF Next, Publish, Dispatch

-----------------------------------------------------------------------------
\* A slot that serves a rule goes on serving it.
LEMMA StillServes ==
  ASSUME TypeOK, TableInv, [Next]_vars,
         NEW j \in 1 .. Slots, NEW m \in Mailboxes, NEW t \in Types,
         Serves(j, [q |-> m, type |-> t])
  PROVE  Serves(j, [q |-> m, type |-> t])'
<1>1. j \in used /\ table[j].q # None /\ table[j].type # None
  BY ConstantsOK DEF Serves
<1>2. ASSUME NEW f \in Fields, SubscribeStore(f) PROVE j \in used' /\ table'[j] = table[j]
  <2>1. reg # NoReg /\ f \in reg.todo
    BY <1>2 DEF SubscribeStore, TableInv
  <2>2. j = reg.slot => f # "q" /\ f # "type" /\ f # "used"
    BY <1>1, <2>1 DEF TableInv
  <2>3. j # reg.slot
    BY <2>2 DEF Fields
  <2>4. \/ table' = table
        \/ table' = [table EXCEPT ![reg.slot].q = Rules[rule].q]
        \/ table' = [table EXCEPT ![reg.slot].type = Rules[rule].type]
    BY <1>2, Zenon DEF SubscribeStore
  <2>5. used' = used \/ used' = used \cup {reg.slot}
    BY <1>2, Zenon DEF SubscribeStore
  <2> QED BY <1>1, <2>3, <2>4, <2>5 DEF TypeOK, SubscribeTypeOK
<1>3. ASSUME ~ \E f \in Fields : SubscribeStore(f) PROVE UNCHANGED <<table, used>>
  <2>1. ASSUME NEW p \in Publishers, Publish(p) PROVE UNCHANGED <<table, used>>
    BY <2>1 DEF Publish, PublishSend, PublishEvict, PublishRetry, registerVars
  <2>2. ASSUME SubscribeSkip \/ SubscribeClaim PROVE UNCHANGED <<table, used>>
    BY <2>2 DEF SubscribeSkip, SubscribeClaim
  <2>3. CASE Dispatch
    BY <2>3 DEF Dispatch, DispatchReceive, DispatchPass, DispatchForward, DispatchDone, registerVars
  <2>4. ASSUME NEW b \in Mailboxes, MailboxReceive(b) PROVE UNCHANGED <<table, used>>
    BY <2>4 DEF MailboxReceive, registerVars
  <2>5. CASE UNCHANGED vars
    BY <2>5 DEF vars, registerVars
  <2> QED BY <1>3, <2>1, <2>2, <2>3, <2>4, <2>5 DEF Next, Subscribe
<1> QED BY <1>1, <1>2, <1>3 DEF Serves

\* The part of OrderInv that speaks of the order.
Ordered == Line /\ OncePerScan /\ InOrderOnce /\ EvictsOldestFirst

\* An event that joins the queue stands behind everything else of its publisher.
LEMMA JoinsLast ==
  ASSUME TypeOK, Ordered, NEW e \in Event, queue' = Append(queue, e),
         UNCHANGED <<cur, pos, copies, evicted, table, used>>,
         \A i \in DOMAIN queue : Before(queue[i], e),
         cur # None => Before(cur, e),
         \A m \in Mailboxes : \A k \in DOMAIN copies[m] : Before(copies[m][k], e),
         \A x \in evicted : Before(x, e)
  PROVE  Ordered'
<1>1. \A i \in DOMAIN queue' :
        \/ i \in DOMAIN queue /\ queue'[i] = queue[i]
        \/ i = Len(queue) + 1 /\ queue'[i] = e
  BY AppendCases, EventFacts
<1>2. DOMAIN queue = 1 .. Len(queue) /\ Len(queue) \in Nat
  BY EventFacts
<1>3. \A i, j \in DOMAIN queue' : i < j => Before(queue'[i], queue'[j])
  <2> SUFFICES ASSUME NEW i \in DOMAIN queue', NEW j \in DOMAIN queue', i < j
               PROVE  Before(queue'[i], queue'[j])
    OBVIOUS
  <2>1. i \in DOMAIN queue /\ queue'[i] = queue[i]
    <3>1. DOMAIN queue' = 1 .. Len(queue) + 1
      BY EventFacts, AppendFacts
    <3>2. i # Len(queue) + 1
      BY <1>2, <3>1
    <3> QED BY <1>1, <3>2
  <2> QED BY <1>1, <2>1 DEF Ordered, Line
<1>4. Line'
  BY <1>1, <1>3 DEF Ordered, Line, Before
<1>5. OncePerScan' /\ InOrderOnce'
  BY DEF Ordered, OncePerScan, InOrderOnce, Serves
<1>6. EvictsOldestFirst'
  BY <1>1 DEF Ordered, EvictsOldestFirst, Before
<1> QED BY <1>4, <1>5, <1>6 DEF Ordered

\* Every step keeps the order: new events join the end of the queue, evictions and receptions take
\* its front, and a copy is the event in dispatch, which the mailbox does not have yet.
LEMMA OrderStep ==
  ASSUME TypeOK, TypeOK', TableInv, FreshInv, Ordered, [Next]_vars
  PROVE  Ordered'
<1>1. ASSUME NEW e \in Event, queue' = Append(queue, e),
             UNCHANGED <<cur, pos, copies, evicted, table, used>>,
             \A x \in Event : Fresh(x) => Before(x, e)
      PROVE  Ordered'
  <2>1. /\ \A i \in DOMAIN queue : Before(queue[i], e)
        /\ cur # None => Before(cur, e)
        /\ \A m \in Mailboxes : \A k \in DOMAIN copies[m] : Before(copies[m][k], e)
        /\ \A x \in evicted : Before(x, e)
    BY <1>1, EventFacts DEF FreshInv
  <2> QED BY <1>1, <2>1, JoinsLast
<1>2. ASSUME UNCHANGED <<queue, cur, copies, evicted>>, pos' = pos \/ pos' = pos + 1
      PROVE  Ordered'
  <2>1. Line' /\ InOrderOnce' /\ EvictsOldestFirst'
    BY <1>2 DEF Ordered, Line, InOrderOnce, EvictsOldestFirst, Before
  <2>2. OncePerScan'
    <3> SUFFICES ASSUME cur # None, NEW m \in Mailboxes, NEW k \in DOMAIN copies[m],
                        copies[m][k] = cur
                 PROVE  \E j \in 1 .. pos' - 1 : Serves(j, [q |-> m, type |-> cur.type])'
      BY <1>2 DEF OncePerScan, Serves
    <3>1. PICK j \in 1 .. pos - 1 : Serves(j, [q |-> m, type |-> cur.type])
      BY DEF Ordered, OncePerScan
    <3>2. j \in 1 .. Slots /\ cur.type \in Types /\ j \in 1 .. pos' - 1
      <4>1. pos \in 1 .. Slots + 1 /\ Slots \in Nat
        BY ConstantsOK DEF TypeOK, DispatchTypeOK
      <4>2. cur \in Event
        BY EventFacts
      <4>3. cur.type \in Types
        BY <4>2 DEF Event
      <4> QED BY <1>2, <4>1, <4>3
    <3>3. Serves(j, [q |-> m, type |-> cur.type])'
      <4>1. \A t \in Types : Serves(j, [q |-> m, type |-> t]) => Serves(j, [q |-> m, type |-> t])'
        BY <3>2, StillServes
      <4> QED BY <1>2, <3>1, <3>2, <4>1 DEF Serves
    <3> QED BY <3>2, <3>3
  <2> QED BY <2>1, <2>2 DEF Ordered
<1>3. ASSUME NEW p \in Publishers, NEW t \in Types, PublishSend(p, t) PROVE Ordered'
  <2> DEFINE e == [by |-> p, n |-> sent[p] + 1, type |-> t]
  <2>1. sent[p] < MaxPublish /\ UNCHANGED <<cur, pos, copies, evicted, table, used>>
    BY <1>3 DEF PublishSend, dispatchVars, registerVars
  <2>2. queue' = queue \/ queue' = Append(queue, e)
    BY <1>3, Zenon DEF PublishSend
  <2>3. sent[p] \in 0 .. MaxPublish /\ sent[p] + 1 \in 1 .. MaxPublish
    BY <2>1, ConstantsOK DEF TypeOK, PublishTypeOK
  <2>4. e \in Event
    BY <2>3 DEF Event
  <2>5. \A x \in Event : Fresh(x) => Before(x, e)
    BY <2>3, EventFacts DEF Fresh, Before
  <2> HIDE DEF e
  <2> QED BY <1>1, <1>2, <2>1, <2>2, <2>4, <2>5
<1>4. ASSUME NEW p \in Publishers, PublishRetry(p) PROVE Ordered'
  <2>1. /\ step[p] = "retry" /\ UNCHANGED <<cur, pos, copies, evicted, table, used>>
        /\ queue' = queue \/ queue' = Append(queue, held[p])
    BY <1>4 DEF PublishRetry, dispatchVars, registerVars
  <2>2. held[p] \in Event /\ held[p].by = p /\ held[p].n = sent[p]
    BY <2>1 DEF FreshInv
  <2>3. \A x \in Event : Fresh(x) => Before(x, held[p])
    BY <2>1, <2>2 DEF Fresh, Before
  <2> QED BY <1>1, <1>2, <2>1, <2>2, <2>3
<1>5. ASSUME NEW p \in Publishers, PublishEvict(p) PROVE Ordered'
  <2>1. /\ UNCHANGED <<cur, pos, copies, table, used>>
        /\ \/ queue' = queue /\ evicted' = evicted
           \/ queue # << >> /\ queue' = Tail(queue) /\ evicted' = evicted \cup {Head(queue)}
    BY <1>5 DEF PublishEvict, dispatchVars, registerVars
  <2>2. CASE queue # << >> /\ queue' = Tail(queue) /\ evicted' = evicted \cup {Head(queue)}
    <3>1. /\ Head(queue) = queue[1] /\ 1 \in DOMAIN queue
          /\ \A i \in DOMAIN queue' : i \in Nat \ {0} /\ i + 1 \in DOMAIN queue /\ queue'[i] = queue[i + 1]
      BY <2>2, TailFacts, EventFacts
    <3>2. Line'
      <4>1. \A i, j \in DOMAIN queue' : i < j => Before(queue'[i], queue'[j])
        <5> SUFFICES ASSUME NEW i \in DOMAIN queue', NEW j \in DOMAIN queue', i < j
                     PROVE  Before(queue'[i], queue'[j])
          OBVIOUS
        <5>1. i + 1 \in DOMAIN queue /\ j + 1 \in DOMAIN queue /\ i + 1 < j + 1
          BY <3>1
        <5> QED BY <3>1, <5>1 DEF Ordered, Line
      <4>2. /\ cur # None => \A i \in DOMAIN queue' : Before(cur, queue'[i])
            /\ \A m \in Mailboxes : \A k \in DOMAIN copies[m] : \A i \in DOMAIN queue' :
                 Before(copies[m][k], queue'[i])
        BY <3>1 DEF Ordered, Line
      <4>3. cur # None => \A m \in Mailboxes : \A k \in DOMAIN copies[m] :
              copies[m][k] = cur \/ Before(copies[m][k], cur)
        BY DEF Ordered, Line
      <4> QED BY <2>1, <4>1, <4>2, <4>3 DEF Line, Before
    <3>3. OncePerScan' /\ InOrderOnce'
      BY <2>1 DEF Ordered, OncePerScan, InOrderOnce, Serves
    <3>4. \A i \in DOMAIN queue' : Before(Head(queue), queue'[i])
      BY <3>1 DEF Ordered, Line
    <3>5. EvictsOldestFirst'
      BY <2>2, <3>1, <3>4 DEF Ordered, EvictsOldestFirst, Before
    <3> QED BY <3>2, <3>3, <3>5 DEF Ordered
  <2> QED BY <1>2, <2>1, <2>2
<1>6. CASE DispatchReceive
  <2>1. /\ queue # << >> /\ cur' = Head(queue) /\ queue' = Tail(queue)
        /\ UNCHANGED <<copies, evicted>>
    BY <1>6 DEF DispatchReceive, publishVars
  <2>2. /\ Head(queue) = queue[1] /\ 1 \in DOMAIN queue
        /\ \A i \in DOMAIN queue' : i \in Nat \ {0} /\ i + 1 \in DOMAIN queue /\ queue'[i] = queue[i + 1]
    BY <2>1, TailFacts, EventFacts
  <2>3. \A m \in Mailboxes : \A k \in DOMAIN copies[m] : Before(copies[m][k], queue[1])
    BY <2>2 DEF Ordered, Line
  <2>4. Line'
    BY <2>1, <2>2, <2>3 DEF Ordered, Line, Before
  <2>5. InOrderOnce' /\ EvictsOldestFirst'
    BY <2>1, <2>2 DEF Ordered, InOrderOnce, EvictsOldestFirst
  <2>6. \A m \in Mailboxes : \A k \in DOMAIN copies[m] : copies[m][k] # queue[1]
    BY <2>2, <2>3, EventFacts DEF Before
  <2>7. OncePerScan'
    BY <2>1, <2>2, <2>6 DEF OncePerScan
  <2> QED BY <2>4, <2>5, <2>7 DEF Ordered
<1>7. CASE DispatchForward
  <2> DEFINE m == table[pos].q
  <2>1. /\ cur # None /\ pos <= Slots /\ pos \in used /\ table[pos].type = cur.type
        /\ UNCHANGED <<queue, cur, evicted, table, used>>
        /\ \/ UNCHANGED <<copies, pos>>
           \/ copies' = copies /\ pos' = pos + 1
           \/ m # None /\ copies' = [copies EXCEPT ![m] = Append(copies[m], cur)] /\ pos' = pos + 1
    BY <1>7 DEF DispatchForward, publishVars, registerVars
  <2>2. CASE m # None /\ copies' = [copies EXCEPT ![m] = Append(copies[m], cur)] /\ pos' = pos + 1
    <3>1. pos \in 1 .. Slots /\ cur \in Event /\ cur.type \in Types
      BY <2>1, ConstantsOK DEF TypeOK, DispatchTypeOK, Event
    <3>2. m \in Mailboxes /\ table[pos] = [q |-> m, type |-> cur.type]
      BY <2>1, <2>2, <3>1 DEF TypeOK, SubscribeTypeOK
    <3>3. Serves(pos, [q |-> m, type |-> cur.type])
      BY <2>1, <3>2 DEF Serves
    <3>4. \A k \in DOMAIN copies[m] : copies[m][k] # cur
      <4> SUFFICES ASSUME NEW k \in DOMAIN copies[m], copies[m][k] = cur PROVE FALSE
        OBVIOUS
      <4>1. PICK j \in 1 .. pos - 1 : Serves(j, [q |-> m, type |-> cur.type])
        BY <2>1, <3>2 DEF Ordered, OncePerScan
      <4>2. j \in used /\ table[j] = table[pos]
        BY <3>2, <4>1 DEF Serves
      <4>3. table[pos].q # None /\ table[pos].type # None
        BY <2>1, <2>2, <3>1, ConstantsOK
      <4>4. j = pos
        BY <2>1, <4>2, <4>3 DEF TableInv
      <4> QED BY <3>1, <4>1, <4>4
    <3> HIDE DEF m
    <3>5. /\ copies'[m] = Append(copies[m], cur)
          /\ \A b \in Mailboxes : b # m => copies'[b] = copies[b]
      BY <2>2, <3>2, EventFacts
    <3>6. /\ \A k \in DOMAIN copies'[m] :
               \/ k \in DOMAIN copies[m] /\ copies'[m][k] = copies[m][k]
               \/ k = Len(copies[m]) + 1 /\ copies'[m][k] = cur
          /\ DOMAIN copies[m] = 1 .. Len(copies[m]) /\ Len(copies[m]) \in Nat
          /\ DOMAIN copies'[m] = 1 .. Len(copies[m]) + 1
      <4>1. copies[m] \in Seq(Event)
        BY <3>2, EventFacts
      <4>2. \A k \in DOMAIN Append(copies[m], cur) :
               \/ k \in DOMAIN copies[m] /\ Append(copies[m], cur)[k] = copies[m][k]
               \/ k = Len(copies[m]) + 1 /\ Append(copies[m], cur)[k] = cur
        BY <3>1, <4>1, AppendCases
      <4>3. /\ DOMAIN copies[m] = 1 .. Len(copies[m]) /\ Len(copies[m]) \in Nat
            /\ DOMAIN Append(copies[m], cur) = 1 .. Len(copies[m]) + 1
        BY <3>1, <4>1, AppendFacts
      <4> QED BY <3>5, <4>2, <4>3
    <3>7. \A b \in Mailboxes : \A k \in DOMAIN copies'[b] :
             \/ k \in DOMAIN copies[b] /\ copies'[b][k] = copies[b][k]
             \/ b = m /\ copies'[b][k] = cur
      BY <3>5, <3>6
    <3>8. Line'
      BY <2>1, <3>7 DEF Ordered, Line, Before
    <3>9. OncePerScan'
      <4> SUFFICES ASSUME NEW b \in Mailboxes, NEW k \in DOMAIN copies'[b], copies'[b][k] = cur
                   PROVE  \E j \in 1 .. pos' - 1 : Serves(j, [q |-> b, type |-> cur.type])
        BY <2>1 DEF OncePerScan, Serves
      <4>1. CASE b = m
        BY <2>2, <3>1, <3>3, <4>1
      <4>2. CASE b # m
        <5>1. k \in DOMAIN copies[b] /\ copies[b][k] = cur
          BY <3>7, <4>2
        <5>2. PICK j \in 1 .. pos - 1 : Serves(j, [q |-> b, type |-> cur.type])
          BY <2>1, <5>1 DEF Ordered, OncePerScan
        <5> QED BY <2>2, <3>1, <5>2
      <4> QED BY <4>1, <4>2
    <3>10. InOrderOnce'
      <4> SUFFICES ASSUME NEW b \in Mailboxes, NEW i \in DOMAIN copies'[b], NEW j \in DOMAIN copies'[b],
                          i < j
                   PROVE  Before(copies'[b][i], copies'[b][j])
        BY DEF InOrderOnce, Before
      <4>1. CASE b = m
        <5>1. i \in DOMAIN copies[m] /\ copies'[m][i] = copies[m][i]
          BY <3>6, <4>1
        <5>2. Before(copies[m][i], cur)
          BY <2>1, <3>2, <3>4, <5>1 DEF Ordered, Line
        <5> QED BY <3>2, <3>6, <4>1, <5>1, <5>2 DEF Ordered, InOrderOnce, Before
      <4>2. CASE b # m
        BY <3>5, <4>2 DEF Ordered, InOrderOnce, Before
      <4> QED BY <4>1, <4>2
    <3>11. EvictsOldestFirst'
      BY <2>1 DEF Ordered, EvictsOldestFirst
    <3> QED BY <3>8, <3>9, <3>10, <3>11 DEF Ordered
  <2> HIDE DEF m
  <2> QED BY <1>2, <2>1, <2>2
<1>8. CASE DispatchDone
  <2>1. cur' = None /\ UNCHANGED <<queue, copies, evicted>>
    BY <1>8 DEF DispatchDone, publishVars
  <2> QED BY <2>1 DEF Ordered, Line, OncePerScan, InOrderOnce, EvictsOldestFirst, Before
<1>9. ASSUME \/ Subscribe
             \/ DispatchPass
             \/ \E m \in Mailboxes : MailboxReceive(m)
             \/ UNCHANGED vars
      PROVE  UNCHANGED <<queue, cur, copies, evicted>> /\ (pos' = pos \/ pos' = pos + 1)
  BY <1>9 DEF Subscribe, SubscribeSkip, SubscribeClaim, SubscribeStore, DispatchPass,
              MailboxReceive, dispatchVars, publishVars, vars
<1> QED
  BY <1>2, <1>3, <1>4, <1>5, <1>6, <1>7, <1>8, <1>9 DEF Next, Publish, Dispatch

-----------------------------------------------------------------------------
\* The inductive invariant of the order holds in every reachable state.
THEOREM OrderHolds == Spec => []OrderInv
<1>1. Init => OrderInv
  BY DEF Init, OrderInv, TableInv, FreeSlot, NoReg, FreshInv, Line, OncePerScan, InOrderOnce,
         EvictsOldestFirst
<1>2. TypeOK /\ TypeOK' /\ OrderInv /\ [Next]_vars => OrderInv'
  BY TableStep, FreshStep, OrderStep DEF OrderInv, Ordered
<1> QED BY <1>1, <1>2, TypeCorrect, PTL DEF Spec

\* No two slots of s_subs ever serve one rule, and a slot in use is complete but for the one
\* being filled.
THEOREM TableCorrect == Spec => []TableInv
<1>1. OrderInv => TableInv
  BY DEF OrderInv
<1> QED BY <1>1, OrderHolds, PTL

\* A mailbox sees the events of a publisher in the order of event_bus_publish(), none twice.
THEOREM DeliveryInOrder == Spec => []InOrderOnce
<1>1. OrderInv => InOrderOnce
  BY DEF OrderInv
<1> QED BY <1>1, OrderHolds, PTL

\* A full queue gives up a publisher's older events before its newer ones.
THEOREM EvictionInOrder == Spec => []EvictsOldestFirst
<1>1. OrderInv => EvictsOldestFirst
  BY DEF OrderInv
<1> QED BY <1>1, OrderHolds, PTL

-----------------------------------------------------------------------------
(* Fan-out *)

\* A slot that was complete when the event was taken stays as it is, and those the scan has passed have
\* had their copy or their miss.
ScanInv ==
  cur # None =>
    /\ seen \subseteq used /\ reg.slot \notin seen
    /\ \A i \in seen : i < pos /\ table[i].type = cur.type =>
         cur \in Elems(copies[table[i].q]) \/ cur \in missed[table[i].q]

\* Every complete slot holds one of the rules.
RuleInv ==
  \A i \in 1 .. Slots :
    table[i].q # None /\ table[i].type # None => \E k \in DOMAIN Rules : Rules[k] = table[i]

\* Every step keeps a rule in every complete slot.
LEMMA RuleStep ==
  ASSUME TypeOK, TableInv, RuleInv, [Next]_vars
  PROVE  RuleInv'
<1>1. ASSUME NEW f \in Fields, SubscribeStore(f) PROVE RuleInv'
  <2>1. reg # NoReg /\ f \in reg.todo
    BY <1>1 DEF SubscribeStore, TableInv
  <2>2. reg.slot \in 1 .. Slots /\ rule \in DOMAIN Rules
    BY <2>1 DEF TableInv
  <2>3. Rules[rule] = [q |-> Rules[rule].q, type |-> Rules[rule].type]
    BY <2>2, RuleFacts
  <2>4. \/ table' = table
        \/ table' = [table EXCEPT ![reg.slot].q = Rules[rule].q]
        \/ table' = [table EXCEPT ![reg.slot].type = Rules[rule].type]
    BY <1>1, Zenon DEF SubscribeStore
  <2>5. /\ table \in [1 .. Slots -> [q : Mailboxes \cup {None}, type : Types \cup {None}]]
        /\ table' \in [1 .. Slots -> [q : Mailboxes \cup {None}, type : Types \cup {None}]]
    <3>1. table \in [1 .. Slots -> [q : Mailboxes \cup {None}, type : Types \cup {None}]]
      BY DEF TypeOK, SubscribeTypeOK
    <3>2. Rules[rule].q \in Mailboxes /\ Rules[rule].type \in Types
      BY <2>2, RuleFacts
    <3> QED BY <2>2, <2>4, <3>1, <3>2
  <2>6. /\ table[reg.slot].q \in {None, Rules[rule].q}
        /\ table[reg.slot].type \in {None, Rules[rule].type}
    BY <2>1 DEF TableInv
  <2>7. /\ table'[reg.slot].q \in {None, Rules[rule].q}
        /\ table'[reg.slot].type \in {None, Rules[rule].type}
        /\ \A i \in 1 .. Slots : i # reg.slot => table'[i] = table[i]
    BY <2>2, <2>4, <2>5, <2>6
  <2> SUFFICES ASSUME NEW i \in 1 .. Slots, table'[i].q # None, table'[i].type # None
               PROVE  \E k \in DOMAIN Rules : Rules[k] = table'[i]
    BY DEF RuleInv
  <2>8. CASE i = reg.slot
    <3>1. table'[i].q = Rules[rule].q /\ table'[i].type = Rules[rule].type
      BY <2>7, <2>8
    <3>2. table'[i] = [q |-> table'[i].q, type |-> table'[i].type]
      BY <2>5
    <3>3. table'[i] = Rules[rule]
      BY <2>3, <3>1, <3>2
    <3> QED BY <2>2, <3>3
  <2>9. CASE i # reg.slot
    BY <2>7, <2>9 DEF RuleInv
  <2> QED BY <2>8, <2>9
<1>2. ASSUME ~ \E f \in Fields : SubscribeStore(f) PROVE table' = table
  <2>1. ASSUME NEW p \in Publishers, Publish(p) PROVE table' = table
    BY <2>1 DEF Publish, PublishSend, PublishEvict, PublishRetry, registerVars
  <2>2. ASSUME SubscribeSkip \/ SubscribeClaim PROVE table' = table
    BY <2>2 DEF SubscribeSkip, SubscribeClaim
  <2>3. CASE Dispatch
    BY <2>3 DEF Dispatch, DispatchReceive, DispatchPass, DispatchForward, DispatchDone, registerVars
  <2>4. ASSUME NEW b \in Mailboxes, MailboxReceive(b) PROVE table' = table
    BY <2>4 DEF MailboxReceive, registerVars
  <2>5. CASE UNCHANGED vars
    BY <2>5 DEF vars, registerVars
  <2> QED BY <1>2, <2>1, <2>2, <2>3, <2>4, <2>5 DEF Next, Subscribe
<1> QED BY <1>1, <1>2 DEF RuleInv

\* What was copied or missed stays so.
LEMMA ScanStep ==
  ASSUME TypeOK, TypeOK', TableInv, ScanInv, [Next]_vars
  PROVE  ScanInv'
<1>0. /\ seen \subseteq 1 .. Slots /\ Slots \in Nat /\ pos \in 1 .. Slots + 1
      /\ table \in [1 .. Slots -> [q : Mailboxes \cup {None}, type : Types \cup {None}]]
      /\ copies \in [Mailboxes -> Seq(Event)] /\ missed \in [Mailboxes -> SUBSET Event]
  BY ConstantsOK DEF TypeOK, SubscribeTypeOK, DispatchTypeOK
<1>1. ASSUME UNCHANGED <<cur, seen, copies, missed>>, pos' = pos,
             cur # None => seen \subseteq used' /\ reg'.slot \notin seen,
             cur # None => \A i \in seen : table'[i] = table[i]
      PROVE  ScanInv'
  BY <1>1 DEF ScanInv, Elems
<1>2. ASSUME UNCHANGED <<cur, pos, seen, copies, missed, table, used, reg>> PROVE ScanInv'
  BY <1>2 DEF ScanInv, Elems
<1>3. ASSUME NEW p \in Publishers, Publish(p) PROVE ScanInv'
  <2>1. UNCHANGED <<cur, pos, seen, copies, missed, table, used, reg>>
    BY <1>3 DEF Publish, PublishSend, PublishEvict, PublishRetry, dispatchVars, registerVars
  <2> QED BY <1>2, <2>1
<1>4. CASE SubscribeSkip \/ (\E m \in Mailboxes : MailboxReceive(m)) \/ UNCHANGED vars
  <2>1. UNCHANGED <<cur, pos, seen, copies, missed, table, used, reg>>
    BY <1>4 DEF SubscribeSkip, MailboxReceive, dispatchVars, registerVars, vars
  <2> QED BY <1>2, <2>1
<1>5. CASE SubscribeClaim
  <2>1. UNCHANGED <<cur, pos, seen, copies, missed, table, used>>
    BY <1>5 DEF SubscribeClaim, dispatchVars
  <2>2. PICK i \in 1 .. Slots : i \notin used /\ reg' = [slot |-> i, todo |-> Fields]
    BY <1>5 DEF SubscribeClaim
  <2>3. cur # None => seen \subseteq used /\ reg'.slot \notin seen
    BY <2>2 DEF ScanInv
  <2> QED BY <1>1, <2>1, <2>3
<1>6. ASSUME NEW f \in Fields, SubscribeStore(f) PROVE ScanInv'
  <2>1. UNCHANGED <<cur, pos, seen, copies, missed>>
    BY <1>6 DEF SubscribeStore, dispatchVars
  <2>2. \/ table' = table
        \/ table' = [table EXCEPT ![reg.slot].q = Rules[rule].q]
        \/ table' = [table EXCEPT ![reg.slot].type = Rules[rule].type]
    BY <1>6, Zenon DEF SubscribeStore
  <2>3. used' = used \/ used' = used \cup {reg.slot}
    BY <1>6, Zenon DEF SubscribeStore
  <2>4. reg' = NoReg \/ reg' = [reg EXCEPT !.todo = @ \ {f}]
    BY <1>6 DEF SubscribeStore
  <2>5. reg'.slot \in {0, reg.slot}
    BY <2>4 DEF NoReg, TypeOK, SubscribeTypeOK
  <2>6. 0 \notin seen
    BY <1>0
  <2>7. cur # None => \A i \in seen : table'[i] = table[i]
    BY <1>0, <2>2 DEF ScanInv
  <2>8. cur # None => seen \subseteq used' /\ reg'.slot \notin seen
    BY <2>3, <2>5, <2>6 DEF ScanInv
  <2> QED BY <1>1, <2>1, <2>7, <2>8
<1>7. CASE DispatchReceive
  <2>1. pos' = 1 /\ seen' = used \ {reg.slot} /\ UNCHANGED <<table, used, reg>>
    BY <1>7 DEF DispatchReceive, registerVars
  <2>2. \A i \in seen' : ~ i < pos'
    BY <2>1 DEF TypeOK, SubscribeTypeOK
  <2> QED BY <2>1, <2>2 DEF ScanInv
<1>8. CASE DispatchPass
  <2>1. /\ UNCHANGED <<cur, seen, copies, missed, table, used, reg>> /\ pos' = pos + 1 /\ cur # None
        /\ pos \notin used \/ table[pos].type # cur.type
    BY <1>8 DEF DispatchPass, registerVars
  <2>2. \A i \in seen : i < pos' => i < pos \/ i = pos
    BY <1>0, <2>1
  <2> QED BY <2>1, <2>2 DEF ScanInv, Elems
<1>9. CASE DispatchForward
  <2> DEFINE m == table[pos].q
  <2>1. /\ UNCHANGED <<cur, seen, table, used, reg>> /\ cur # None /\ pos <= Slots
        /\ \/ m = None /\ UNCHANGED <<copies, missed, pos>>
           \/ /\ m # None /\ copies' = [copies EXCEPT ![m] = Append(copies[m], cur)]
              /\ pos' = pos + 1 /\ UNCHANGED missed
           \/ /\ m # None /\ missed' = [missed EXCEPT ![m] = missed[m] \cup {cur}]
              /\ pos' = pos + 1 /\ UNCHANGED copies
    BY <1>9 DEF DispatchForward, registerVars
  <2>2. pos \in 1 .. Slots /\ (m # None => m \in Mailboxes) /\ cur \in Event
    BY <1>0, <2>1, EventFacts
  <2> HIDE DEF m
  <2>3. CASE UNCHANGED <<copies, missed, pos>>
    BY <1>1, <2>1, <2>3 DEF ScanInv
  <2>4. CASE /\ m # None /\ copies' = [copies EXCEPT ![m] = Append(copies[m], cur)]
             /\ pos' = pos + 1 /\ UNCHANGED missed
    <3>1. \A b \in Mailboxes : Elems(copies[b]) \subseteq Elems(copies'[b])
      <4>1. ASSUME NEW s \in Seq(Event) PROVE Elems(s) \subseteq Elems(Append(s, cur))
        BY <2>2, AppendFacts DEF Elems
      <4> QED BY <1>0, <2>2, <2>4, <4>1
    <3>2. cur \in Elems(copies'[m])
      <4>1. ASSUME NEW s \in Seq(Event) PROVE cur \in Elems(Append(s, cur))
        BY <2>2, AppendFacts DEF Elems
      <4> QED BY <1>0, <2>2, <2>4, <4>1
    <3>3. ASSUME NEW i \in seen, i < pos', table[i].type = cur.type
          PROVE  cur \in Elems(copies'[table[i].q]) \/ cur \in missed[table[i].q]
      <4>1. i \in used /\ i # reg.slot /\ i \in 1 .. Slots
        BY <1>0, <2>1 DEF ScanInv
      <4>2. table[i].q \in Mailboxes
        BY <1>0, <4>1 DEF TableInv
      <4>3. CASE i = pos
        BY <3>2, <4>3 DEF m
      <4>4. CASE i < pos
        BY <2>1, <3>1, <3>3, <4>2, <4>4 DEF ScanInv
      <4> QED BY <1>0, <2>4, <3>3, <4>1, <4>3, <4>4
    <3> QED BY <2>1, <2>4, <3>3 DEF ScanInv
  <2>5. CASE /\ m # None /\ missed' = [missed EXCEPT ![m] = missed[m] \cup {cur}]
             /\ pos' = pos + 1 /\ UNCHANGED copies
    <3>1. cur \in missed'[m] /\ \A b \in Mailboxes : missed[b] \subseteq missed'[b]
      BY <1>0, <2>2, <2>5
    <3>2. ASSUME NEW i \in seen, i < pos', table[i].type = cur.type
          PROVE  cur \in Elems(copies[table[i].q]) \/ cur \in missed'[table[i].q]
      <4>1. i \in used /\ i # reg.slot /\ i \in 1 .. Slots
        BY <1>0, <2>1 DEF ScanInv
      <4>2. table[i].q \in Mailboxes
        BY <1>0, <4>1 DEF TableInv
      <4>3. CASE i = pos
        BY <3>1, <4>3 DEF m
      <4>4. CASE i < pos
        BY <2>1, <3>1, <3>2, <4>2, <4>4 DEF ScanInv
      <4> QED BY <1>0, <2>5, <3>2, <4>1, <4>3, <4>4
    <3> QED BY <2>1, <2>5, <3>2 DEF ScanInv
  <2> QED BY <2>1, <2>3, <2>4, <2>5
<1>10. CASE DispatchDone
  BY <1>10 DEF DispatchDone, ScanInv
<1> QED BY <1>3, <1>4, <1>5, <1>6, <1>7, <1>8, <1>9, <1>10 DEF Next, Subscribe, Dispatch

\* When the dispatcher lets go of an event the scan has passed every slot.
LEMMA ScanEnds ==
  ASSUME TypeOK, ScanInv, [Next]_vars, cur # None, cur' = None, NEW i \in seen, table[i].type = cur.type
  PROVE  cur \in Elems(copies[table[i].q]) \/ cur \in missed[table[i].q]
<1>1. ASSUME NEW p \in Publishers, Publish(p) PROVE cur' = cur
  BY <1>1 DEF Publish, PublishSend, PublishEvict, PublishRetry, dispatchVars
<1>2. ASSUME Subscribe \/ (\E m \in Mailboxes : MailboxReceive(m)) \/ UNCHANGED vars PROVE cur' = cur
  BY <1>2 DEF Subscribe, SubscribeSkip, SubscribeClaim, SubscribeStore, MailboxReceive, dispatchVars, vars
<1>3. ASSUME DispatchPass \/ DispatchForward PROVE cur' = cur
  BY <1>3 DEF DispatchPass, DispatchForward
<1>4. ASSUME DispatchReceive PROVE FALSE
  BY <1>4 DEF DispatchReceive
<1>5. DispatchDone
  BY <1>1, <1>2, <1>3, <1>4 DEF Next, Dispatch
<1>6. i < pos
  BY <1>5, ConstantsOK DEF DispatchDone, TypeOK, DispatchTypeOK
<1> QED BY <1>6 DEF ScanInv

-----------------------------------------------------------------------------
\* A sequence with one entry put before it.
LEMMA JoinFacts ==
  ASSUME NEW S, NEW c \in S, NEW s \in Seq(S)
  PROVE  /\ <<c>> \o s \in Seq(S) /\ <<c>> \o s # << >> /\ Len(<<c>> \o s) = Len(s) + 1
         /\ Head(<<c>> \o s) = c /\ Tail(<<c>> \o s) = s
         /\ DOMAIN (<<c>> \o s) = 1 .. Len(s) + 1 /\ (<<c>> \o s)[1] = c
         /\ \A i \in 1 .. Len(s) : (<<c>> \o s)[i + 1] = s[i]
<1>1. <<c>> \in Seq(S) /\ Len(<<c>>) = 1 /\ <<c>>[1] = c
  OBVIOUS
<1> QED BY <1>1

\* The event in dispatch comes before the queue, whatever joins at its end.
LEMMA JoinAppend ==
  ASSUME NEW S, NEW c \in S, NEW s \in Seq(S), NEW e \in S
  PROVE  <<c>> \o Append(s, e) = Append(<<c>> \o s, e)
OBVIOUS

\* Taking the head of a lane is losing its first event.
LEMMA TailDropsFirst ==
  ASSUME NEW S, NEW s \in Seq(S), s # << >>
  PROVE  Fanout!WithoutNth(s, 1) = Tail(s)
<1> DEFINE t == [i \in 1 .. Len(s) - 1 |-> s[i + 1]]
<1>1. Len(s) \in Nat \ {0} /\ DOMAIN Tail(s) = 1 .. Len(s) - 1 /\ Tail(s) \in Seq(S)
      /\ \A i \in 1 .. Len(s) - 1 : Tail(s)[i] = s[i + 1]
  BY TailFacts
<1>2. \A r \in Seq(S) : r = [i \in DOMAIN r |-> r[i]]
  OBVIOUS
<1>3. Tail(s) = t
  <2>1. Tail(s) = [i \in DOMAIN Tail(s) |-> Tail(s)[i]]
    BY <1>1, <1>2
  <2> QED BY <1>1, <2>1
<1>4. \A i \in 1 .. Len(s) - 1 : ~ i < 1
  BY <1>1
<1>5. Fanout!WithoutNth(s, 1) = t
  BY <1>4 DEF Fanout!WithoutNth
<1> QED BY <1>3, <1>5

\* Evicting the oldest of the queue is losing the second event of the lane, behind the one in
\* dispatch.
LEMMA JoinDropsSecond ==
  ASSUME NEW S, NEW c \in S, NEW s \in Seq(S), s # << >>
  PROVE  Fanout!WithoutNth(<<c>> \o s, 2) = <<c>> \o Tail(s)
<1> DEFINE j == <<c>> \o s
           t == <<c>> \o Tail(s)
<1>1. Len(s) \in Nat \ {0} /\ Tail(s) \in Seq(S) /\ Len(Tail(s)) = Len(s) - 1
      /\ \A i \in 1 .. Len(s) - 1 : Tail(s)[i] = s[i + 1]
  BY TailFacts
<1>2. Len(j) = Len(s) + 1 /\ j[1] = c /\ \A i \in 1 .. Len(s) : j[i + 1] = s[i]
  BY JoinFacts
<1>3. /\ t \in Seq(S) /\ Len(t) = Len(s) /\ t[1] = c
      /\ \A i \in 1 .. Len(s) - 1 : t[i + 1] = s[i + 1]
  BY <1>1, JoinFacts
<1> HIDE DEF j, t
<1>4. t = [i \in 1 .. Len(s) |-> t[i]]
  BY <1>3
<1>5. ASSUME NEW i \in 1 .. Len(s) PROVE t[i] = IF i < 2 THEN j[i] ELSE j[i + 1]
  <2>1. CASE i = 1
    BY <1>2, <1>3, <2>1
  <2>2. CASE i # 1
    <3>1. i - 1 \in 1 .. Len(s) - 1 /\ (i - 1) + 1 = i
      BY <1>1, <2>2
    <3>2. t[i] = s[i]
      BY <1>3, <3>1
    <3>3. j[i + 1] = s[i]
      BY <1>2
    <3> QED BY <2>2, <3>2, <3>3
  <2> QED BY <2>1, <2>2
<1>6. Fanout!WithoutNth(j, 2) = [i \in 1 .. Len(s) |-> IF i < 2 THEN j[i] ELSE j[i + 1]]
  BY <1>1, <1>2 DEF Fanout!WithoutNth
<1>7. Fanout!WithoutNth(j, 2) = t
  BY <1>4, <1>5, <1>6
<1> QED BY <1>7 DEF j, t

-----------------------------------------------------------------------------
\* The event in dispatch is on its way to a mailbox that does not have it yet.
Waits(m) == cur # None /\ cur \notin Elems(copies[m])

\* What is on its way to a mailbox: the event in dispatch, if the mailbox still waits for it, and
\* the queue.
LEMMA PendingIs ==
  ASSUME TypeOK, NEW m \in Mailboxes
  PROVE  /\ Waits(m) => Pending(m) = <<cur>> \o queue
         /\ ~ Waits(m) => Pending(m) = queue
         /\ Pending(m) \in Seq(Event)
<1>1. queue \in Seq(Event) /\ (cur # None => cur \in Event)
  BY EventFacts
<1>2. << >> \o queue = queue
  BY <1>1
<1>3. CASE Waits(m)
  BY <1>1, <1>3, JoinFacts DEF Pending, Waits
<1>4. CASE ~ Waits(m)
  BY <1>1, <1>2, <1>4 DEF Pending, Waits
<1> QED BY <1>3, <1>4

\* The same of the next state.
LEMMA PendingThen ==
  ASSUME TypeOK', NEW m \in Mailboxes
  PROVE  /\ Waits(m)' => Pending(m)' = <<cur'>> \o queue'
         /\ ~ Waits(m)' => Pending(m)' = queue'
<1>1. (TypeOK => /\ Waits(m) => Pending(m) = <<cur>> \o queue
                 /\ ~ Waits(m) => Pending(m) = queue)'
  BY PendingIs, PTL
<1> QED BY <1>1

\* The four ways a step looks to a mailbox.
LEMMA FanoutStutters ==
  ASSUME UNCHANGED copies, \A m \in Mailboxes : Pending(m)' = Pending(m)
  PROVE  UNCHANGED Fanout!vars
BY DEF Fanout!vars

\* A step that drops at most one event of every lane is a loss of the abstract bus.
LEMMA FanoutLoses ==
  ASSUME UNCHANGED copies,
         \A m \in Mailboxes : \/ Pending(m)' = Pending(m)
                              \/ \E k \in DOMAIN Pending(m) : Pending(m)' = Fanout!WithoutNth(Pending(m), k)
  PROVE  Fanout!Lose
BY DEF Fanout!Lose

\* A step that moves the head of one lane into its mailbox is a delivery of the abstract bus.
LEMMA FanoutDelivers ==
  ASSUME TypeOK, NEW m \in Mailboxes, Pending(m) # << >>, Head(Pending(m)).type \in Interest[m],
         copies' = [copies EXCEPT ![m] = Append(copies[m], Head(Pending(m)))],
         Pending(m)' = Tail(Pending(m)), \A b \in Mailboxes \ {m} : Pending(b)' = Pending(b)
  PROVE  Fanout!Deliver(m)
BY DEF Fanout!Deliver

\* A step that appends a younger event to every lane is an acceptance of the abstract bus.
LEMMA FanoutAccepts ==
  ASSUME NEW e \in Event, UNCHANGED copies,
         \A m \in Mailboxes : /\ Pending(m)' = Append(Pending(m), e)
                              /\ \A i \in DOMAIN Pending(m) : Before(Pending(m)[i], e)
                              /\ \A i \in DOMAIN copies[m] : Before(copies[m][i], e)
  PROVE  Fanout!Accept(e)
BY DEF Fanout!Accept, Fanout!NewerThan, Before

\* An event that joins the queue joins every lane, behind everything of its publisher.
LEMMA JoinAccepts ==
  ASSUME TypeOK, TypeOK', FreshInv, NEW e \in Event, queue' = Append(queue, e), UNCHANGED <<cur, copies>>,
         \A x \in Event : Fresh(x) => Before(x, e)
  PROVE  Fanout!Accept(e)
<1> SUFFICES ASSUME NEW m \in Mailboxes
             PROVE  /\ Pending(m)' = Append(Pending(m), e)
                    /\ \A i \in DOMAIN Pending(m) : Before(Pending(m)[i], e)
                    /\ \A i \in DOMAIN copies[m] : Before(copies[m][i], e)
  BY FanoutAccepts
<1>1. queue \in Seq(Event) /\ (cur # None => cur \in Event)
  BY EventFacts
<1>2. /\ \A i \in DOMAIN queue : Before(queue[i], e)
      /\ cur # None => Before(cur, e)
      /\ \A i \in DOMAIN copies[m] : Before(copies[m][i], e)
  BY EventFacts DEF FreshInv
<1>3. Waits(m)' <=> Waits(m)
  BY DEF Waits
<1>4. /\ Waits(m)' => Pending(m)' = <<cur>> \o queue'
      /\ ~ Waits(m)' => Pending(m)' = queue'
  BY PendingThen
<1>5. CASE Waits(m)
  <2>1. cur \in Event /\ Pending(m) = <<cur>> \o queue
    BY <1>1, <1>5, PendingIs DEF Waits
  <2>2. Pending(m)' = Append(Pending(m), e)
    BY <1>1, <1>3, <1>4, <1>5, <2>1, JoinAppend
  <2>3. ASSUME NEW i \in DOMAIN Pending(m) PROVE Before(Pending(m)[i], e)
    <3>1. DOMAIN Pending(m) = 1 .. Len(queue) + 1 /\ Pending(m)[1] = cur
          /\ \A k \in 1 .. Len(queue) : Pending(m)[k + 1] = queue[k]
      BY <1>1, <2>1, JoinFacts
    <3>2. CASE i = 1
      BY <1>2, <1>5, <3>1, <3>2 DEF Waits
    <3>3. CASE i # 1
      <4>1. i - 1 \in 1 .. Len(queue) /\ i - 1 \in DOMAIN queue /\ (i - 1) + 1 = i
        BY <1>1, <3>1, <3>3
      <4> QED BY <1>2, <3>1, <4>1
    <3> QED BY <3>2, <3>3
  <2> QED BY <1>2, <2>2, <2>3
<1>6. CASE ~ Waits(m)
  <2>1. Pending(m) = queue /\ Pending(m)' = queue'
    BY <1>3, <1>4, <1>6, PendingIs
  <2> QED BY <1>2, <2>1
<1> QED BY <1>5, <1>6

\* An eviction takes the oldest event of the queue from every lane.
LEMMA EvictionLoses ==
  ASSUME TypeOK, TypeOK', queue # << >>, queue' = Tail(queue), UNCHANGED <<cur, copies>>
  PROVE  Fanout!Lose
<1> SUFFICES ASSUME NEW m \in Mailboxes
             PROVE  \E k \in DOMAIN Pending(m) : Pending(m)' = Fanout!WithoutNth(Pending(m), k)
  BY FanoutLoses
<1>1. queue \in Seq(Event) /\ Len(queue) \in Nat \ {0} /\ 1 \in DOMAIN queue
  BY EventFacts, TailFacts
<1>2. Waits(m)' <=> Waits(m)
  BY DEF Waits
<1>3. CASE Waits(m)
  <2>1. cur \in Event /\ Pending(m) = <<cur>> \o queue /\ Pending(m)' = <<cur>> \o Tail(queue)
    BY <1>2, <1>3, PendingIs, PendingThen, EventFacts DEF Waits
  <2>2. 2 \in DOMAIN Pending(m)
    BY <1>1, <2>1, JoinFacts
  <2>3. Pending(m)' = Fanout!WithoutNth(Pending(m), 2)
    BY <1>1, <2>1, JoinDropsSecond
  <2> QED BY <2>2, <2>3
<1>4. CASE ~ Waits(m)
  <2>1. Pending(m) = queue /\ Pending(m)' = Tail(queue)
    BY <1>2, <1>4, PendingIs, PendingThen
  <2>2. Pending(m)' = Fanout!WithoutNth(Pending(m), 1)
    BY <1>1, <2>1, TailDropsFirst
  <2> QED BY <1>1, <2>1, <2>2
<1> QED BY <1>3, <1>4

\* The event that is taken from the queue stays first in every lane, since no mailbox has it yet.
LEMMA ReceiveStutters ==
  ASSUME TypeOK, TypeOK', Ordered, DispatchReceive
  PROVE  UNCHANGED Fanout!vars
<1>1. cur = None /\ queue # << >> /\ cur' = Head(queue) /\ queue' = Tail(queue) /\ copies' = copies
  BY DEF DispatchReceive
<1>2. queue \in Seq(Event) /\ Head(queue) = queue[1] /\ 1 \in DOMAIN queue /\ Head(queue) \in Event
      /\ Head(queue) # None
  BY <1>1, EventFacts, TailFacts, NoneIsNoEvent
<1>3. <<Head(queue)>> \o Tail(queue) = queue
  BY <1>1, <1>2
<1> SUFFICES ASSUME NEW m \in Mailboxes PROVE Pending(m)' = Pending(m)
  BY <1>1, FanoutStutters
<1>4. Pending(m) = queue
  BY <1>1, PendingIs DEF Waits
<1>5. \A k \in DOMAIN copies[m] : copies[m][k] # queue[1]
  <2>1. \A k \in DOMAIN copies[m] : Before(copies[m][k], queue[1])
    BY <1>2 DEF Ordered, Line
  <2> QED BY <1>2, <2>1, EventFacts DEF Before
<1>6. Waits(m)'
  BY <1>1, <1>2, <1>5 DEF Waits, Elems
<1> QED BY <1>1, <1>3, <1>4, <1>6, PendingThen

\* The event that is let go of is lost to the mailboxes that did not get it.
LEMMA DoneLoses ==
  ASSUME TypeOK, TypeOK', DispatchDone
  PROVE  Fanout!Lose
<1>1. cur # None /\ cur' = None /\ queue' = queue /\ copies' = copies
  BY DEF DispatchDone
<1> SUFFICES ASSUME NEW m \in Mailboxes
             PROVE  \/ Pending(m)' = Pending(m)
                    \/ \E k \in DOMAIN Pending(m) : Pending(m)' = Fanout!WithoutNth(Pending(m), k)
  BY <1>1, FanoutLoses
<1>2. Pending(m)' = queue
  BY <1>1, PendingThen DEF Waits
<1>3. CASE Waits(m)
  <2>1. cur \in Event /\ queue \in Seq(Event) /\ Pending(m) = <<cur>> \o queue /\ Pending(m) \in Seq(Event)
    BY <1>1, <1>3, PendingIs, EventFacts
  <2>2. Pending(m) # << >> /\ 1 \in DOMAIN Pending(m) /\ Tail(Pending(m)) = queue
    BY <2>1, JoinFacts
  <2>3. Pending(m)' = Fanout!WithoutNth(Pending(m), 1)
    BY <1>2, <2>1, <2>2, TailDropsFirst
  <2> QED BY <2>2, <2>3
<1>4. CASE ~ Waits(m)
  BY <1>2, <1>4, PendingIs
<1> QED BY <1>3, <1>4

\* A copy goes to a mailbox that asked for the type and does not have the event yet; a miss changes no
\* lane until the event is let go of.
LEMMA ForwardDelivers ==
  ASSUME TypeOK, TypeOK', TableInv, RuleInv, Ordered, DispatchForward
  PROVE  [Fanout!Next]_(Fanout!vars)
<1>1. /\ cur # None /\ pos <= Slots /\ pos \in used /\ table[pos].type = cur.type
      /\ UNCHANGED <<queue, cur>>
      /\ \/ copies' = copies
         \/ /\ table[pos].q # None
            /\ copies' = [copies EXCEPT ![table[pos].q] = Append(copies[table[pos].q], cur)]
  BY DEF DispatchForward
<1>2. CASE copies' = copies
  <2>1. \A b \in Mailboxes : Pending(b)' = Pending(b)
    BY <1>1, <1>2 DEF Pending
  <2> QED BY <1>2, <2>1, FanoutStutters
<1>3. ASSUME NEW m \in Mailboxes, m = table[pos].q, copies' = [copies EXCEPT ![m] = Append(copies[m], cur)]
      PROVE  [Fanout!Next]_(Fanout!vars)
  <2>1. pos \in 1 .. Slots /\ cur \in Event /\ cur.type \in Types
    BY <1>1, ConstantsOK DEF TypeOK, DispatchTypeOK, Event
  <2>2. m # None /\ table[pos] = [q |-> m, type |-> cur.type] /\ table[pos].type # None
    BY <1>1, <1>3, <2>1, ConstantsOK DEF TypeOK, SubscribeTypeOK
  <2>3. \A k \in DOMAIN copies[m] : copies[m][k] # cur
    <3> SUFFICES ASSUME NEW k \in DOMAIN copies[m], copies[m][k] = cur PROVE FALSE
      OBVIOUS
    <3>1. PICK j \in 1 .. pos - 1 : Serves(j, [q |-> m, type |-> cur.type])
      BY <1>1, <2>2 DEF Ordered, OncePerScan
    <3>2. j \in used /\ table[j] = table[pos]
      BY <2>2, <3>1 DEF Serves
    <3>3. j = pos
      BY <1>1, <1>3, <2>2, <3>2 DEF TableInv
    <3> QED BY <2>1, <3>1, <3>3
  <2>4. cur.type \in Interest[m]
    <3>1. PICK k \in DOMAIN Rules : Rules[k] = table[pos]
      BY <1>3, <2>1, <2>2 DEF RuleInv
    <3>2. k \in {r \in DOMAIN Rules : Rules[r].q = m} /\ Rules[k].type = cur.type
      BY <1>1, <1>3, <3>1
    <3> QED BY <3>2 DEF Interest
  <2>5. /\ copies'[m] = Append(copies[m], cur) /\ copies[m] \in Seq(Event)
        /\ \A b \in Mailboxes \ {m} : copies'[b] = copies[b]
    BY <1>3, <2>2, EventFacts
  <2>6. cur \in Elems(copies'[m])
    BY <2>1, <2>5, AppendFacts DEF Elems
  <2>7. Pending(m) = <<cur>> \o queue
    BY <1>1, <2>2, <2>3, PendingIs DEF Waits, Elems
  <2>8. Pending(m)' = queue
    BY <1>1, <2>2, <2>6, PendingThen DEF Waits
  <2>9. Pending(m) # << >> /\ Head(Pending(m)) = cur /\ Tail(Pending(m)) = queue
    BY <2>1, <2>7, JoinFacts, EventFacts
  <2>10. \A b \in Mailboxes \ {m} : Pending(b)' = Pending(b)
    BY <1>1, <2>5 DEF Pending
  <2>11. Fanout!Deliver(m)
    BY <1>3, <2>2, <2>4, <2>8, <2>9, <2>10, FanoutDelivers
  <2> QED BY <2>11 DEF Fanout!Next
<1>4. table[pos].q # None => table[pos].q \in Mailboxes
  BY <1>1, ConstantsOK DEF TypeOK, SubscribeTypeOK, DispatchTypeOK
<1> QED BY <1>1, <1>2, <1>3, <1>4

\* The bus starts as the abstract one does.
LEMMA FanoutInitial == Init => Fanout!Init
<1> SUFFICES ASSUME Init PROVE Fanout!Init
  OBVIOUS
<1>1. queue = << >> /\ cur = None /\ copies = [m \in Mailboxes |-> << >>]
  BY DEF Init
<1>2. \A m \in Mailboxes : Pending(m) = << >>
  BY <1>1 DEF Pending
<1> QED BY <1>1, <1>2 DEF Fanout!Init

\* Every step of the bus is one of the abstract bus or leaves it alone.
LEMMA FanoutStep ==
  ASSUME TypeOK, TypeOK', OrderInv, RuleInv, [Next]_vars
  PROVE  [Fanout!Next]_(Fanout!vars)
<1>0. TableInv /\ FreshInv /\ Ordered
  BY DEF OrderInv, Ordered
<1>1. ASSUME UNCHANGED <<queue, cur, copies>> PROVE [Fanout!Next]_(Fanout!vars)
  <2>1. \A m \in Mailboxes : Pending(m)' = Pending(m)
    BY <1>1 DEF Pending
  <2> QED BY <1>1, <2>1, FanoutStutters
<1>2. ASSUME NEW e \in Event, queue' = Append(queue, e), UNCHANGED <<cur, copies>>,
             \A x \in Event : Fresh(x) => Before(x, e)
      PROVE  [Fanout!Next]_(Fanout!vars)
  <2>1. Fanout!Accept(e)
    BY <1>0, <1>2, JoinAccepts
  <2> QED BY <2>1 DEF Fanout!Next
<1>3. ASSUME NEW p \in Publishers, NEW t \in Types, PublishSend(p, t) PROVE [Fanout!Next]_(Fanout!vars)
  <2> DEFINE e == [by |-> p, n |-> sent[p] + 1, type |-> t]
  <2>1. sent[p] < MaxPublish /\ UNCHANGED <<cur, copies>>
    BY <1>3 DEF PublishSend, dispatchVars
  <2>2. queue' = queue \/ queue' = Append(queue, e)
    BY <1>3, Zenon DEF PublishSend
  <2>3. sent[p] \in 0 .. MaxPublish /\ sent[p] + 1 \in 1 .. MaxPublish
    BY <2>1, ConstantsOK DEF TypeOK, PublishTypeOK
  <2>4. e \in Event
    BY <2>3 DEF Event
  <2>5. \A x \in Event : Fresh(x) => Before(x, e)
    BY <2>3, EventFacts DEF Fresh, Before
  <2> HIDE DEF e
  <2> QED BY <1>1, <1>2, <2>1, <2>2, <2>4, <2>5
<1>4. ASSUME NEW p \in Publishers, PublishRetry(p) PROVE [Fanout!Next]_(Fanout!vars)
  <2>1. /\ step[p] = "retry" /\ UNCHANGED <<cur, copies>>
        /\ queue' = queue \/ queue' = Append(queue, held[p])
    BY <1>4 DEF PublishRetry, dispatchVars
  <2>2. held[p] \in Event /\ held[p].by = p /\ held[p].n = sent[p]
    BY <1>0, <2>1 DEF FreshInv
  <2>3. \A x \in Event : Fresh(x) => Before(x, held[p])
    BY <2>1, <2>2 DEF Fresh, Before
  <2> QED BY <1>1, <1>2, <2>1, <2>2, <2>3
<1>5. ASSUME NEW p \in Publishers, PublishEvict(p) PROVE [Fanout!Next]_(Fanout!vars)
  <2>1. /\ UNCHANGED <<cur, copies>>
        /\ queue' = queue \/ (queue # << >> /\ queue' = Tail(queue))
    BY <1>5 DEF PublishEvict, dispatchVars
  <2>2. CASE queue # << >> /\ queue' = Tail(queue)
    <3>1. Fanout!Lose
      BY <2>1, <2>2, EvictionLoses
    <3> QED BY <3>1 DEF Fanout!Next
  <2> QED BY <1>1, <2>1, <2>2
<1>6. CASE DispatchReceive
  BY <1>0, <1>6, ReceiveStutters
<1>7. CASE DispatchForward
  BY <1>0, <1>7, ForwardDelivers
<1>8. CASE DispatchDone
  <2>1. Fanout!Lose
    BY <1>8, DoneLoses
  <2> QED BY <2>1 DEF Fanout!Next
<1>9. ASSUME \/ Subscribe
             \/ DispatchPass
             \/ \E m \in Mailboxes : MailboxReceive(m)
             \/ UNCHANGED vars
      PROVE  UNCHANGED <<queue, cur, copies>>
  BY <1>9 DEF Subscribe, SubscribeSkip, SubscribeClaim, SubscribeStore, DispatchPass, MailboxReceive,
              dispatchVars, vars
<1> QED
  BY <1>1, <1>3, <1>4, <1>5, <1>6, <1>7, <1>8, <1>9 DEF Next, Publish, Dispatch

-----------------------------------------------------------------------------

\* What the refinement and the completeness rest on holds throughout.
LEMMA RuleAndScanHold == Spec => []RuleInv /\ []ScanInv
<1>1. Init => RuleInv /\ ScanInv
  BY DEF Init, RuleInv, ScanInv, FreeSlot
<1>2. TypeOK /\ TypeOK' /\ OrderInv /\ RuleInv /\ ScanInv /\ [Next]_vars => RuleInv' /\ ScanInv'
  BY RuleStep, ScanStep DEF OrderInv
<1> QED BY <1>1, <1>2, TypeCorrect, OrderHolds, PTL DEF Spec

\* When event_bus_dispatch() is done with an event, every rule that was registered before has had its
\* copy or a counted miss: a full mailbox never costs another one its copy.
THEOREM FanoutIsComplete == Spec => FanoutComplete
<1>1. TypeOK /\ ScanInv /\ [Next]_vars
        => [cur # None /\ cur' = None =>
              \A i \in seen : table[i].type = cur.type =>
                \/ cur \in Elems(copies[table[i].q])
                \/ cur \in missed[table[i].q]]_vars
  BY ScanEnds
<1> QED BY <1>1, TypeCorrect, RuleAndScanHold, PTL DEF Spec, FanoutComplete

\* The bus is a lossy fan-out: whatever the tasks, the table and the sizes, a mailbox may rely on
\* LossyFanout.
THEOREM BusIsLossyFanout == Spec => FanoutSpec
<1>1. TypeOK /\ TypeOK' /\ OrderInv /\ RuleInv /\ [Next]_vars => [Fanout!Next]_(Fanout!vars)
  BY FanoutStep
<1> QED
  BY <1>1, FanoutInitial, TypeCorrect, OrderHolds, RuleAndScanHold, PTL DEF Spec, FanoutSpec, Fanout!Spec
=============================================================================
