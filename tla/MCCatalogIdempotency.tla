----------------------- MODULE MCCatalogIdempotency -----------------------
(* Instances of CatalogIdempotency for TLC.                               *)
EXTENDS CatalogIdempotency, TLC

CONSTANTS j, k, n, o, c1, c2

Request(key, name) == [key |-> key, name |-> name]

(* Two keys and a call without a key for one name, and a key that comes   *)
(* again with another body.                                               *)
Rivals == {Request(k, n), Request(j, n), Request(j, o), Request(NoKey, n)}

CallSymmetry == Permutations({c1, c2})
============================================================================
