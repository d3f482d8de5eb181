------------------------- MODULE MCTier1WritePath -------------------------
(* Instances of Tier1WritePath for TLC.                                    *)
EXTENDS Tier1WritePath, TLC

CONSTANTS a, b, c

(* Two requests for one name.                                              *)
SameName == [t \in Writers |-> 1]

(* Every request wants a name of its own.                                  *)
OwnName == [t \in Writers |-> t]

WriterSymmetry == Permutations(Writers)
===========================================================================
