------------------------- MODULE MCDeltaCoordinator -------------------------
(* Instances of DeltaCoordinator for TLC.  A model value names both the    *)
(* key and the payload of a request.                                       *)
EXTENDS DeltaCoordinator, TLC

CONSTANTS a, b, c, w1, w2

Request(k, rv, p) == [key |-> k, rv |-> rv, payload |-> p]

(* Two clients race for version 0, a third one goes for version 1.         *)
RaceRequests == {Request(a, -1, a), Request(b, -1, b), Request(c, 0, c)}

TwoRequests == {Request(a, -1, a), Request(b, 0, b)}

(* A client sends its key again with the next payload.                     *)
ReusedKey == {Request(a, -1, a), Request(a, 0, b)}

WorkerSymmetry == Permutations({w1, w2})
=============================================================================
