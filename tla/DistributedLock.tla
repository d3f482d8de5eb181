-------------------------- MODULE DistributedLock --------------------------
(***************************************************************************)
(* The distributed lock of crates/arco-core/src/lock.rs: one object in an  *)
(* object store, written with preconditions, that carries a holder, an     *)
(* expiry and a sequence number (the fencing token).                       *)
(*                                                                         *)
(* Every storage call is one atomic step; whatever the code keeps between  *)
(* two calls is kept in the task's local state, so tasks interleave        *)
(* between any two calls.  Expiry times are modelled by the time that is   *)
(* left (LockInfo::remaining_ttl): Tick lets one unit of time pass for     *)
(* every record, the ones already built but not yet written included.      *)
(***************************************************************************)
EXTENDS Integers

CONSTANTS
    Tasks,          \* tasks that acquire, hold and release the lock
    Holders,        \* holder ids
    HolderOf,       \* the holder id of the DistributedLock a task uses;
                    \* tasks that share one instance share its holder id
    NoHolder,       \* the holder of an absent record
    TTL,            \* lifetime of a lock record, in ticks
    MaxRetries,     \* max_retries of acquire()
    MaxAcquires,    \* bound: calls of acquire() by each task
    MaxExtends,     \* bound: calls of extend() in all
    MaxBreaks,      \* bound: calls of force_break() in all
    MaxFaults       \* bound: failed storage calls in all

ASSUME LockAssumption ==
    /\ HolderOf \in [Tasks -> Holders]
    /\ NoHolder \notin Holders
    /\ TTL \in Nat \ {0}
    /\ MaxRetries \in Nat
    /\ {MaxAcquires, MaxExtends, MaxBreaks, MaxFaults} \subseteq Nat

VARIABLES
    obj,            \* the lock object: version, holder, left, seq
    nextVersion,    \* the version the store gives to its next write
    pc,             \* the storage call each task makes next
    attempts,       \* attempts of acquire() so far
    cas,            \* version returned by the last HEAD
    seq,            \* sequence number of the record about to be written
    prep,           \* lifetime left to the record about to be written
    ver, tok,       \* LockGuard's version and fencing token
    lease,          \* lifetime left to the record the guard was built for
    acquires, extends, breaks, faults    \* counters for the bounds

locals == <<cas, seq, prep>>
guards == <<ver, tok, lease>>
bounds == <<acquires, extends, breaks, faults>>
vars == <<obj, nextVersion, pc, attempts, locals, guards, bounds>>

----------------------------------------------------------------------------
(* States of a task, named for the storage call it makes next.             *)

AcquirePc == {"create", "head", "get", "takeover", "backoff"}
ExtendPc  == {"extGet", "extHead", "extPut"}
HoldPc    == {"held"} \cup ExtendPc
ReleasePc == {"relGet", "relPut"}
DropPc    == {"dropHead", "dropGet", "dropPut"}
GuardPc   == HoldPc \cup ReleasePc \cup DropPc
Pc        == {"idle", "crashed"} \cup AcquirePc \cup GuardPc

(* The task is inside the critical section, as far as it can tell.         *)
Holding(t) == pc[t] \in HoldPc

Records ==
    [version : Nat, holder : Holders \cup {NoHolder}, left : Nat, seq : Nat]

(* No object at the lock path.                                             *)
NoLock == [version |-> 0, holder |-> NoHolder, left |-> 0, seq |-> 0]

Exists == obj.version # 0

(* Mutant of IsExpired: a record counts as expired one tick early.         *)
ExpiredEarly == obj.left <= 1

(* LockInfo::is_expired                                                    *)
IsExpired == obj.left = 0

(* Every variable keeps its type: the lock object, the guards and the steps*)
(* of every task.                                                          *)
TypeOK ==
    /\ obj \in Records
    /\ nextVersion \in Nat \ {0}
    /\ pc \in [Tasks -> Pc]
    /\ attempts \in [Tasks -> Nat]
    /\ cas \in [Tasks -> Nat]
    /\ seq \in [Tasks -> Nat]
    /\ prep \in [Tasks -> Nat]
    /\ ver \in [Tasks -> Nat]
    /\ tok \in [Tasks -> Nat]
    /\ lease \in [Tasks -> Nat]
    /\ acquires \in [Tasks -> Nat]
    /\ extends \in Nat
    /\ breaks \in Nat
    /\ faults \in Nat

Init ==
    /\ obj = NoLock
    /\ nextVersion = 1
    /\ pc = [t \in Tasks |-> "idle"]
    /\ attempts = [t \in Tasks |-> 0]
    /\ cas = [t \in Tasks |-> 0]
    /\ seq = [t \in Tasks |-> 0]
    /\ prep = [t \in Tasks |-> 0]
    /\ ver = [t \in Tasks |-> 0]
    /\ tok = [t \in Tasks |-> 0]
    /\ lease = [t \in Tasks |-> 0]
    /\ acquires = [t \in Tasks |-> 0]
    /\ extends = 0
    /\ breaks = 0
    /\ faults = 0

----------------------------------------------------------------------------
(* Building blocks.                                                        *)

Goto(t, label) == pc' = [pc EXCEPT ![t] = label]

(* StorageBackend::put whose precondition holds: a new, unique version.    *)
Write(t, left, s) ==
    /\ obj' = [version |-> nextVersion, holder |-> HolderOf[t],
               left |-> left, seq |-> s]
    /\ nextVersion' = nextVersion + 1

(* WritePrecondition::MatchesVersion                                       *)
Matches(v) == Exists /\ obj.version = v

NoWrite == UNCHANGED <<obj, nextVersion>>

(* The locals of a finished call leave scope.                              *)
Forget(t) ==
    /\ cas' = [cas EXCEPT ![t] = 0]
    /\ seq' = [seq EXCEPT ![t] = 0]
    /\ prep' = [prep EXCEPT ![t] = 0]

(* LockInfo::new: the expiry is fixed before the record is written.        *)
Prepare(t, s) ==
    /\ seq' = [seq EXCEPT ![t] = s]
    /\ prep' = [prep EXCEPT ![t] = TTL]

(* A successful put of try_acquire becomes a LockGuard.                    *)
Win(t) ==
    /\ Write(t, prep[t], seq[t])
    /\ ver' = [ver EXCEPT ![t] = nextVersion]
    /\ tok' = [tok EXCEPT ![t] = seq[t]]
    /\ lease' = [lease EXCEPT ![t] = prep[t]]
    /\ Goto(t, "held")
    /\ Forget(t)

(* LockError::AlreadyHeld: back off and try again, or report failure.      *)
AlreadyHeld(t) ==
    /\ attempts' = [attempts EXCEPT ![t] = @ + 1]
    /\ Goto(t, IF attempts[t] + 1 >= MaxRetries THEN "idle" ELSE "backoff")
    /\ Forget(t)
    /\ NoWrite

(* The guard is gone.                                                      *)
Discard(t, label) ==
    /\ Goto(t, label)
    /\ Forget(t)
    /\ ver' = [ver EXCEPT ![t] = 0]
    /\ tok' = [tok EXCEPT ![t] = 0]
    /\ lease' = [lease EXCEPT ![t] = 0]

----------------------------------------------------------------------------
(* acquire_with_operation and try_acquire.                                 *)

Acquire(t) ==
    /\ pc[t] = "idle"
    /\ acquires[t] < MaxAcquires
    /\ acquires' = [acquires EXCEPT ![t] = @ + 1]
    /\ attempts' = [attempts EXCEPT ![t] = 0]
    /\ Prepare(t, 1)
    /\ Goto(t, "create")
    /\ NoWrite
    /\ UNCHANGED <<cas, guards, extends, breaks, faults>>

(* The back-off sleep is over: the loop calls try_acquire again.           *)
Retry(t) ==
    /\ pc[t] = "backoff"
    /\ Prepare(t, 1)
    /\ Goto(t, "create")
    /\ NoWrite
    /\ UNCHANGED <<attempts, cas, guards, bounds>>

(* put DoesNotExist                                                        *)
Create(t) ==
    /\ pc[t] = "create"
    /\ IF Exists
       THEN Goto(t, "head") /\ Forget(t) /\ NoWrite /\ UNCHANGED guards
       ELSE Win(t)
    /\ UNCHANGED <<attempts, bounds>>

(* head: the version the takeover will be conditional on                   *)
Head(t) ==
    /\ pc[t] = "head"
    /\ \/ /\ Exists
          /\ cas' = [cas EXCEPT ![t] = obj.version]
          /\ Goto(t, "get")
          /\ NoWrite
          /\ UNCHANGED <<attempts, seq, prep>>
       \/ ~Exists /\ AlreadyHeld(t)
    /\ UNCHANGED <<guards, bounds>>

(* read_lock, after the head: decide on the contents                       *)
Get(t) ==
    /\ pc[t] = "get"
    /\ \/ /\ Exists /\ IsExpired
          /\ Prepare(t, obj.seq + 1)
          /\ Goto(t, "takeover")
          /\ NoWrite
          /\ UNCHANGED <<attempts, cas>>
       \/ ~(Exists /\ IsExpired) /\ AlreadyHeld(t)
    /\ UNCHANGED <<guards, bounds>>

(* Mutant of Takeover: the put carries no precondition.                    *)
TakeoverBlind(t) ==
    /\ pc[t] = "takeover"
    /\ Win(t)
    /\ UNCHANGED <<attempts, bounds>>

(* put MatchesVersion(meta.version)                                        *)
Takeover(t) ==
    /\ pc[t] = "takeover"
    /\ \/ Matches(cas[t]) /\ Win(t) /\ UNCHANGED attempts
       \/ ~Matches(cas[t]) /\ AlreadyHeld(t) /\ UNCHANGED guards
    /\ UNCHANGED bounds

----------------------------------------------------------------------------
(* LockGuard::release (do_release).                                        *)

Release(t) ==
    /\ pc[t] = "held"
    /\ Goto(t, "relGet")
    /\ NoWrite
    /\ UNCHANGED <<attempts, locals, guards, bounds>>

(* Read the record; go on only if it names this holder.                    *)
ReleaseGet(t) ==
    /\ pc[t] = "relGet"
    /\ IF Exists /\ obj.holder = HolderOf[t]
       THEN /\ Goto(t, "relPut")
            /\ seq' = [seq EXCEPT ![t] = obj.seq]
            /\ UNCHANGED <<cas, prep, guards>>
       ELSE Discard(t, "idle")
    /\ NoWrite
    /\ UNCHANGED <<attempts, bounds>>

(* Mutant of ReleasePut: the record is deleted instead of expired.         *)
ReleaseDelete(t) ==
    /\ pc[t] = "relPut"
    /\ IF Matches(ver[t]) THEN obj' = NoLock ELSE UNCHANGED obj
    /\ UNCHANGED nextVersion
    /\ Discard(t, "idle")
    /\ UNCHANGED <<attempts, bounds>>

(* Mutant of ReleasePut: the put carries no precondition.                  *)
ReleaseBlind(t) ==
    /\ pc[t] = "relPut"
    /\ Write(t, 0, seq[t])
    /\ Discard(t, "idle")
    /\ UNCHANGED <<attempts, bounds>>

(* put of an expired record, MatchesVersion(self.version); the result is   *)
(* ignored                                                                 *)
ReleasePut(t) ==
    /\ pc[t] = "relPut"
    /\ IF Matches(ver[t]) THEN Write(t, 0, seq[t]) ELSE NoWrite
    /\ Discard(t, "idle")
    /\ UNCHANGED <<attempts, bounds>>

----------------------------------------------------------------------------
(* Drop of a guard that was not released: a spawned task expires the       *)
(* record, or, outside a runtime, nothing does.                            *)

Drop(t) ==
    /\ pc[t] = "held"
    /\ \/ Goto(t, "dropHead") /\ UNCHANGED <<locals, guards>>
       \/ Discard(t, "idle")
    /\ NoWrite
    /\ UNCHANGED <<attempts, bounds>>

DropHead(t) ==
    /\ pc[t] = "dropHead"
    /\ IF Matches(ver[t])
       THEN Goto(t, "dropGet") /\ UNCHANGED <<locals, guards>>
       ELSE Discard(t, "idle")
    /\ NoWrite
    /\ UNCHANGED <<attempts, bounds>>

DropGet(t) ==
    /\ pc[t] = "dropGet"
    /\ IF Exists /\ obj.holder = HolderOf[t]
       THEN /\ Goto(t, "dropPut")
            /\ seq' = [seq EXCEPT ![t] = obj.seq]
            /\ UNCHANGED <<cas, prep, guards>>
       ELSE Discard(t, "idle")
    /\ NoWrite
    /\ UNCHANGED <<attempts, bounds>>

DropPut(t) ==
    /\ pc[t] = "dropPut"
    /\ IF Matches(ver[t]) THEN Write(t, 0, seq[t]) ELSE NoWrite
    /\ Discard(t, "idle")
    /\ UNCHANGED <<attempts, bounds>>

----------------------------------------------------------------------------
(* The environment: time, crashes and failing storage calls.               *)

(* Mutant of Dec: time left is not clamped at zero.                        *)
DecBelowZero(n) == n - 1

Dec(n) == IF n = 0 THEN 0 ELSE n - 1

Tick ==
    /\ obj.left > 0 \/ \E t \in Tasks : prep[t] > 0 \/ lease[t] > 0
    /\ obj' = [obj EXCEPT !.left = Dec(@)]
    /\ prep' = [t \in Tasks |-> Dec(prep[t])]
    /\ lease' = [t \in Tasks |-> Dec(lease[t])]
    /\ UNCHANGED <<nextVersion, pc, attempts, cas, seq, ver, tok, bounds>>

(* The process dies; a restarted process uses a new holder id, so it is    *)
(* another task.                                                           *)
Crash(t) ==
    /\ pc[t] \notin {"idle", "crashed"}
    /\ Discard(t, "crashed")
    /\ NoWrite
    /\ UNCHANGED <<attempts, bounds>>

(* What a task does when a storage call returns an error: acquire gives    *)
(* up, release drops the guard it consumed (and Drop tries again), the     *)
(* spawned task of Drop stops, extend leaves the guard as it was.          *)
OnError(t) ==
    \/ pc[t] \in AcquirePc \ {"backoff"} /\ Discard(t, "idle")
    \/ pc[t] \in ReleasePc /\ Goto(t, "dropHead") /\ Forget(t)
         /\ UNCHANGED guards
    \/ pc[t] \in DropPc /\ Discard(t, "idle")
    \/ pc[t] \in ExtendPc /\ Goto(t, "held") /\ Forget(t)
         /\ UNCHANGED guards

(* A storage call fails without effect.                                    *)
StorageError(t) ==
    /\ faults < MaxFaults
    /\ faults' = faults + 1
    /\ OnError(t)
    /\ NoWrite
    /\ UNCHANGED <<attempts, acquires, extends, breaks>>

(* A put takes effect and its answer is lost.                              *)
LostAnswer(t) ==
    /\ faults < MaxFaults
    /\ faults' = faults + 1
    /\ \/ pc[t] = "create" /\ ~Exists /\ Write(t, prep[t], seq[t])
       \/ pc[t] \in {"takeover", "extPut"} /\ Matches(cas[t])
            /\ Write(t, prep[t], seq[t])
       \/ pc[t] \in {"relPut", "dropPut"} /\ Matches(ver[t])
            /\ Write(t, 0, seq[t])
    /\ OnError(t)
    /\ UNCHANGED <<attempts, acquires, extends, breaks>>

----------------------------------------------------------------------------
(* LockGuard::extend and DistributedLock::force_break: public operations   *)
(* that the rest of the repository does not call.                          *)

Extend(t) ==
    /\ pc[t] = "held"
    /\ extends < MaxExtends
    /\ extends' = extends + 1
    /\ Goto(t, "extGet")
    /\ NoWrite
    /\ UNCHANGED <<attempts, locals, guards, acquires, breaks, faults>>

(* The contents are read before the version.                               *)
ExtendGet(t) ==
    /\ pc[t] = "extGet"
    /\ IF Exists /\ obj.holder = HolderOf[t]
       THEN Goto(t, "extHead") /\ Prepare(t, obj.seq) /\ UNCHANGED cas
       ELSE Goto(t, "held") /\ Forget(t)
    /\ NoWrite
    /\ UNCHANGED <<attempts, guards, bounds>>

ExtendHead(t) ==
    /\ pc[t] = "extHead"
    /\ IF Exists
       THEN Goto(t, "extPut") /\ cas' = [cas EXCEPT ![t] = obj.version]
            /\ UNCHANGED <<seq, prep>>
       ELSE Goto(t, "held") /\ Forget(t)
    /\ NoWrite
    /\ UNCHANGED <<attempts, guards, bounds>>

ExtendPut(t) ==
    /\ pc[t] = "extPut"
    /\ \/ /\ Matches(cas[t])
          /\ Write(t, prep[t], seq[t])
          /\ ver' = [ver EXCEPT ![t] = nextVersion]
          /\ lease' = [lease EXCEPT ![t] = prep[t]]
          /\ UNCHANGED tok
       \/ ~Matches(cas[t]) /\ NoWrite /\ UNCHANGED guards
    /\ Goto(t, "held")
    /\ Forget(t)
    /\ UNCHANGED <<attempts, bounds>>

ForceBreak ==
    /\ breaks < MaxBreaks
    /\ breaks' = breaks + 1
    /\ Exists
    /\ obj' = NoLock
    /\ UNCHANGED <<nextVersion, pc, attempts, locals, guards,
                   acquires, extends, faults>>

----------------------------------------------------------------------------
AcquireStep(t) == Acquire(t) \/ Retry(t) \/ Create(t) \/ Head(t) \/ Get(t)
                    \/ Takeover(t)
ReleaseStep(t) == Release(t) \/ ReleaseGet(t) \/ ReleasePut(t)
DropStep(t)    == Drop(t) \/ DropHead(t) \/ DropGet(t) \/ DropPut(t)
ExtendStep(t)  == Extend(t) \/ ExtendGet(t) \/ ExtendHead(t) \/ ExtendPut(t)
FaultStep(t)   == Crash(t) \/ StorageError(t) \/ LostAnswer(t)

(* The operations the repository uses: acquire, release, drop.             *)
Next ==
    \/ \E t \in Tasks : AcquireStep(t) \/ ReleaseStep(t) \/ DropStep(t)
                          \/ FaultStep(t)
    \/ Tick

Spec == Init /\ [][Next]_vars

(* The whole public interface.                                             *)
FullNext == Next \/ (\E t \in Tasks : ExtendStep(t)) \/ ForceBreak

FullSpec == Init /\ [][FullNext]_vars

(* extend() without force_break().                                         *)
ExtendSpec == Init /\ [][Next \/ \E t \in Tasks : ExtendStep(t)]_vars

----------------------------------------------------------------------------
(* Properties.                                                             *)

HasGuard(t) == pc[t] \in GuardPc

(* Two guards never carry the same fencing token, however many takeovers,  *)
(* releases, drops, crashes and lost answers lie between them: no two      *)
(* writers can pass the same fence.                                        *)
TokensUnique ==
    \A t1, t2 \in Tasks :
        (t1 # t2 /\ HasGuard(t1) /\ HasGuard(t2)) => tok[t1] # tok[t2]

(* Whoever gets the lock gets a higher token than every guard that is      *)
(* still around, stalled ones included ("New lock holder always has higher *)
(* token than stale holder", publish.rs).                                  *)
NewHolderHigher ==
    [][\A t, u \in Tasks :
         (~HasGuard(t) /\ HasGuard(t)' /\ t # u /\ HasGuard(u))
           => tok[u] < tok'[t]]_vars

(* While the lease of a guard runs and its holder has not let go, the lock *)
(* object is the very record that guard wrote: nobody took over, and no    *)
(* release or drop of an older guard, of the same holder id or not, has    *)
(* overwritten it.                                                         *)
LiveGuardOwnsLock ==
    \A t \in Tasks :
        (Holding(t) /\ lease[t] > 0) =>
            /\ Matches(ver[t])
            /\ obj.seq = tok[t]
            /\ obj.left = lease[t]

(* A release or a drop never expires a record that somebody else wrote     *)
(* after the releasing guard: what it replaces has its holder and its      *)
(* sequence number, and was written by no younger guard.  Holds for the    *)
(* whole public interface.                                                 *)
ReleaseKeepsOthers ==
    [][\A t \in Tasks :
         (pc[t] \in {"relPut", "dropPut"} /\ pc'[t] # pc[t] /\ obj' # obj) =>
            /\ obj.seq = obj'.seq
            /\ \A u \in Tasks \ {t} : HasGuard(u) => obj.version # ver[u]]_vars

(* The lock object implements the abstract fenced lock.                    *)
Fenced == INSTANCE FencedLock
            WITH token <- obj.seq,
                 live  <- obj.left > 0,
                 guard <- [t \in Tasks |-> IF HasGuard(t) THEN tok[t] ELSE 0]

(* Every step of the storage protocol is a grant, a wasted grant, a lapse, *)
(* a hand-back or no step of FencedLock: a grant only over a lapsed lease, *)
(* a token one above the last, and only its own lease ended by a release.  *)
ImplementsFencedLock == Fenced!LockSpec
=============================================================================
