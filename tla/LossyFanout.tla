----------------------------- MODULE LossyFanout -----------------------------
(***************************************************************************)
(* What a subscriber of the event bus may rely on, and all it may rely on. *)
(* Every event the bus accepts joins the lane of every mailbox at once. An *)
(* event may vanish from a lane at any time, each lane losing on its own,  *)
(* and what is left of a lane reaches its mailbox in order of acceptance,  *)
(* each event at most once and only if the mailbox asked for its type.     *)
(***************************************************************************)
EXTENDS Naturals, Sequences

CONSTANTS Mailboxes,
          Event,      \* records [by, n, type]: n counts the events of publisher by
          Interest    \* Interest[m]: the types mailbox m asked for

VARIABLES lane,       \* lane[m]: accepted events on their way to m, oldest first
          got         \* got[m]: the copies placed in m so far, oldest first

vars == <<lane, got>>

NewerThan(e, s) == \A i \in DOMAIN s : s[i].by = e.by => s[i].n < e.n

WithoutNth(s, k) ==
  [i \in 1 .. Len(s) - 1 |-> IF i < k THEN s[i] ELSE s[i + 1]]

Init == /\ lane = [m \in Mailboxes |-> << >>]
        /\ got = [m \in Mailboxes |-> << >>]

Accept(e) ==
  /\ \A m \in Mailboxes : NewerThan(e, lane[m]) /\ NewerThan(e, got[m])
  /\ lane' = [m \in Mailboxes |-> Append(lane[m], e)]
  /\ UNCHANGED got

Lose ==
  /\ \A m \in Mailboxes :
       \/ lane'[m] = lane[m]
       \/ \E k \in DOMAIN lane[m] : lane'[m] = WithoutNth(lane[m], k)
  /\ DOMAIN lane' = Mailboxes
  /\ UNCHANGED got

Deliver(m) ==
  /\ lane[m] # << >>
  /\ Head(lane[m]).type \in Interest[m]
  /\ got' = [got EXCEPT ![m] = Append(@, Head(lane[m]))]
  /\ lane' = [lane EXCEPT ![m] = Tail(@)]

Next == \/ \E e \in Event : Accept(e)
        \/ Lose
        \/ \E m \in Mailboxes : Deliver(m)

Spec == Init /\ [][Next]_vars
=============================================================================
