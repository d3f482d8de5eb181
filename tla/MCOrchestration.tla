--------------------------- MODULE MCOrchestration ---------------------------
(* Instances of Orchestration for TLC.                                      *)
EXTENDS Orchestration, TLC

CONSTANTS a, b, c

(* One task on its own.                                                     *)
Single == [t \in Tasks |-> {}]

(* b runs after a.                                                          *)
Chain == (a :> {}) @@ (b :> {a})

(* c runs after a and b.                                                    *)
Join == (a :> {}) @@ (b :> {}) @@ (c :> {a, b})

(* The first task may be tried twice, the others once.                      *)
RetryFirst == [t \in Tasks |-> IF t = a THEN 2 ELSE 1]

Once == [t \in Tasks |-> 1]
==============================================================================
