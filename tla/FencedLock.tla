----------------------------- MODULE FencedLock -----------------------------
(***************************************************************************)
(* What arco's distributed lock promises to the code that uses it          *)
(* (crates/arco-core/src/lock.rs, crates/arco-core/src/publish.rs): a      *)
(* lease that may lapse under its holder at any moment, and a fencing      *)
(* token that grows strictly with every grant.  There is no storage here,  *)
(* no versions and no clock: DistributedLock.tla is the implementation.    *)
(*                                                                         *)
(* A guard outlives its lease: a task that stalls keeps believing that it  *)
(* holds the lock, which is why the users of the lock fence their writes   *)
(* with the token.                                                         *)
(***************************************************************************)
EXTENDS Naturals

CONSTANT Tasks          \* the tasks that may ask for the lock

VARIABLES
    token,              \* highest fencing token granted so far
    live,               \* the lease of that token has not lapsed
    guard               \* the token of the guard each task has, 0 for none

lockVars == <<token, live, guard>>

LockTypeOK ==
    /\ token \in Nat
    /\ live \in BOOLEAN
    /\ guard \in [Tasks -> Nat]

LockInit ==
    /\ token = 0
    /\ live = FALSE
    /\ guard = [t \in Tasks |-> 0]

(* A grant needs a lapsed lease and hands out a token never seen before.   *)
(* The lease may have lapsed by the time the grant is written.             *)
Grant(t) ==
    /\ ~live
    /\ guard[t] = 0
    /\ token' = token + 1
    /\ live' \in BOOLEAN
    /\ guard' = [guard EXCEPT ![t] = token + 1]

(* A grant whose answer never reaches the task that asked for it.          *)
Waste ==
    /\ ~live
    /\ token' = token + 1
    /\ live' \in BOOLEAN
    /\ UNCHANGED guard

(* The lease lapses: its time is up, or its record was released.           *)
Lapse ==
    /\ live
    /\ live' = FALSE
    /\ UNCHANGED <<token, guard>>

(* A task gives its guard up; the lease ends only if it is still its own.  *)
GiveUp(t) ==
    /\ guard[t] # 0
    /\ guard' = [guard EXCEPT ![t] = 0]
    /\ live' = live \/ (guard[t] = token /\ live' = FALSE)
    /\ UNCHANGED token

LockNext ==
    \/ \E t \in Tasks : Grant(t) \/ GiveUp(t)
    \/ Waste
    \/ Lapse

LockSpec == LockInit /\ [][LockNext]_lockVars
=============================================================================
