--------------------------- MODULE OptimisticLog ---------------------------
(***************************************************************************)
(* What the Delta commit coordinator promises to its clients               *)
(* (crates/arco-delta/src/coordinator.rs): one append-only sequence of     *)
(* commits, in which a request lands at most once and only right after the *)
(* version its client read.  DeltaCoordinator.tla is the implementation.   *)
(***************************************************************************)
EXTENDS Integers, Sequences

CONSTANT Requests       \* records with fields key, rv (read_version), payload

VARIABLE committed      \* payloads; the first one is version 0

LogInit == committed = <<>>

(* Version numbers start at 0, so the next version is Len(committed).      *)
Append1(r) ==
    /\ r.rv = Len(committed) - 1
    /\ \A i \in 1..Len(committed) : committed[i] # r.payload
    /\ committed' = Append(committed, r.payload)

LogNext == \E r \in Requests : Append1(r)

LogSpec == LogInit /\ [][LogNext]_committed
=============================================================================
