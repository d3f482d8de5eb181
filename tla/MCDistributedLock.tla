------------------------- MODULE MCDistributedLock -------------------------
(* Instances of DistributedLock for TLC: t1 and t2 share one               *)
(* DistributedLock instance (one holder id), t3 has its own.               *)
EXTENDS DistributedLock, TLC, FiniteSets

CONSTANTS t1, t2, t3, h1, h2

SharedHolder == [t \in Tasks |-> IF t = t3 THEN h2 ELSE h1]

OwnHolder == [t \in Tasks |-> IF t = t1 THEN h1 ELSE h2]

MCSymmetry == Permutations({t1, t2})
=============================================================================
