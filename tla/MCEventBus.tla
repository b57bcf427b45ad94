----------------------------- MODULE MCEventBus -----------------------------
(* EventBus on a small instance: a duplicate rule and a rule too many for the table. *)
EXTENDS EventBus

CONSTANTS m1, m2, t1, t2

MCRules == << [q |-> m1, type |-> t1], [q |-> m1, type |-> t1],
              [q |-> m2, type |-> t1], [q |-> m2, type |-> t2] >>
=============================================================================
