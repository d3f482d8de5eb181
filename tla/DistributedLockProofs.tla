----------------------- MODULE DistributedLockProofs -----------------------
(***************************************************************************)
(* Proofs about DistributedLock for any number of tasks, any assignment of *)
(* holder ids, any lifetime and any bounds: the type invariant, unique and *)
(* growing fencing tokens, the exclusion of a live lease, and that the     *)
(* storage protocol implements FencedLock.                                 *)
(***************************************************************************)
EXTENDS DistributedLock, TLAPS

(* Versions are handed out once: whatever was read is older than the next  *)
(* write, and an absent object has no sequence number.                     *)
VersionInv ==
    /\ obj.version < nextVersion
    /\ ~Exists => obj.seq = 0 /\ obj.left = 0
    /\ \A t \in Tasks : cas[t] < nextVersion /\ ver[t] < nextVersion

(* What a task knows of the object it is about to overwrite: if the object *)
(* still has the version of the precondition, the record prepared for the  *)
(* put was derived from that very object.                                  *)
PutInv(t) ==
    /\ pc[t] \notin ExtendPc
    /\ pc[t] = "create" => seq[t] = 1
    /\ pc[t] = "takeover" =>
         /\ seq[t] > 0
         /\ Matches(cas[t]) => seq[t] = obj.seq + 1 /\ obj.left = 0
    /\ (pc[t] \in {"relPut", "dropPut"} /\ Matches(ver[t]))
         => seq[t] = obj.seq

(* A guard's token was granted, and belongs to the record it wrote.        *)
GuardInv(t) ==
    HasGuard(t) =>
        /\ tok[t] > 0
        /\ tok[t] <= obj.seq
        /\ Matches(ver[t]) => tok[t] = obj.seq

IndInv ==
    /\ TypeOK
    /\ VersionInv
    /\ \A t \in Tasks : PutInv(t) /\ GuardInv(t)
    /\ TokensUnique
    /\ LiveGuardOwnsLock

----------------------------------------------------------------------------
(* The type invariant by itself: every action of Next keeps every variable *)
(* in its type.                                                            *)
LEMMA TypeStep == TypeOK /\ [Next]_vars => TypeOK'
<1> SUFFICES ASSUME TypeOK, [Next]_vars PROVE TypeOK'
    OBVIOUS
<1> USE LockAssumption DEF TypeOK, Records, Pc, AcquirePc, GuardPc, HoldPc,
        ExtendPc, ReleasePc, DropPc, Goto, NoWrite, bounds
<1>1. ASSUME NEW t \in Tasks, Acquire(t) PROVE TypeOK'
    BY <1>1 DEF Acquire, Prepare, guards
<1>2. ASSUME NEW t \in Tasks, Retry(t) PROVE TypeOK'
    BY <1>2 DEF Retry, Prepare, guards
<1>3. ASSUME NEW t \in Tasks, Create(t) PROVE TypeOK'
    BY <1>3 DEF Create, Win, Write, Forget, guards
<1>4. ASSUME NEW t \in Tasks, Head(t) PROVE TypeOK'
    BY <1>4 DEF Head, AlreadyHeld, Forget, guards
<1>5. ASSUME NEW t \in Tasks, Get(t) PROVE TypeOK'
    BY <1>5 DEF Get, Prepare, AlreadyHeld, Forget, guards
<1>6. ASSUME NEW t \in Tasks, Takeover(t) PROVE TypeOK'
    BY <1>6 DEF Takeover, Win, Write, AlreadyHeld, Forget, guards
<1>7. ASSUME NEW t \in Tasks, Release(t) PROVE TypeOK'
    BY <1>7 DEF Release, locals, guards
<1>8. ASSUME NEW t \in Tasks, ReleaseGet(t) PROVE TypeOK'
    BY <1>8 DEF ReleaseGet, Discard, Forget, guards
<1>9. ASSUME NEW t \in Tasks, ReleasePut(t) PROVE TypeOK'
    BY <1>9 DEF ReleasePut, Write, Discard, Forget
<1>10. ASSUME NEW t \in Tasks, Drop(t) PROVE TypeOK'
    BY <1>10 DEF Drop, Discard, Forget, locals, guards
<1>11. ASSUME NEW t \in Tasks, DropHead(t) PROVE TypeOK'
    BY <1>11 DEF DropHead, Discard, Forget, locals, guards
<1>12. ASSUME NEW t \in Tasks, DropGet(t) PROVE TypeOK'
    BY <1>12 DEF DropGet, Discard, Forget, guards
<1>13. ASSUME NEW t \in Tasks, DropPut(t) PROVE TypeOK'
    BY <1>13 DEF DropPut, Write, Discard, Forget
<1>14. ASSUME NEW t \in Tasks, Crash(t) PROVE TypeOK'
    BY <1>14 DEF Crash, Discard, Forget
<1>15. ASSUME NEW t \in Tasks, StorageError(t) PROVE TypeOK'
    BY <1>15 DEF StorageError, OnError, Discard, Forget, guards
<1>16. ASSUME NEW t \in Tasks, LostAnswer(t) PROVE TypeOK'
    BY <1>16 DEF LostAnswer, Write, OnError, Discard, Forget, guards
<1>17. CASE Tick
    BY <1>17 DEF Tick, Dec
<1>18. CASE UNCHANGED vars
    BY <1>18 DEF vars, locals, guards
<1>19. QED
    BY <1>1, <1>2, <1>3, <1>4, <1>5, <1>6, <1>7, <1>8, <1>9, <1>10, <1>11, <1>12, <1>13, <1>14, <1>15, <1>16, <1>17, <1>18
    DEF Next, AcquireStep, ReleaseStep, DropStep, FaultStep

(* The inductive step: one case for every action, under it one for every   *)
(* conjunct of the invariant that the action can disturb.                  *)
LEMMA IndStep == IndInv /\ [Next]_vars => IndInv'
<1> SUFFICES ASSUME IndInv, [Next]_vars PROVE IndInv'
    OBVIOUS
<1>0. TypeOK'
    BY TypeStep DEF IndInv
<1> USE <1>0, LockAssumption DEF IndInv, TypeOK, Records, Pc, AcquirePc, GuardPc, HoldPc,
        ExtendPc, ReleasePc, DropPc, Goto, NoWrite, VersionInv, PutInv,
        GuardInv, TokensUnique, LiveGuardOwnsLock, Exists, Matches, HasGuard,
        Holding
<1>1. ASSUME NEW t \in Tasks, Acquire(t) PROVE IndInv'
    BY <1>1 DEF Acquire, Prepare, guards
<1>2. ASSUME NEW t \in Tasks, Retry(t) PROVE IndInv'
    BY <1>2 DEF Retry, Prepare, guards
<1>3. ASSUME NEW t \in Tasks, Create(t) PROVE IndInv'
    <2>1. CASE Exists
        BY <1>3, <2>1 DEF Create, Forget, guards
    <2>2. CASE ~Exists
        <3>1. \A u \in Tasks : ~HasGuard(u)
            BY <2>2
        <3>2. Win(t) /\ seq[t] = 1 /\ UNCHANGED <<attempts, bounds>>
            BY <1>3, <2>2 DEF Create
        <3>3. QED
            BY <3>1, <3>2 DEF Win, Write, Forget
    <2>3. QED
        BY <2>1, <2>2
<1>4. ASSUME NEW t \in Tasks, Head(t) PROVE IndInv'
    BY <1>4 DEF Head, AlreadyHeld, Forget, guards
<1>5. ASSUME NEW t \in Tasks, Get(t) PROVE IndInv'
    <2>1. CASE Exists /\ IsExpired
        BY <1>5, <2>1 DEF Get, Prepare, guards, IsExpired
    <2>2. CASE ~(Exists /\ IsExpired)
        BY <1>5, <2>2 DEF Get, AlreadyHeld, Forget, guards
    <2>3. QED
        BY <2>1, <2>2
<1>6. ASSUME NEW t \in Tasks, Takeover(t) PROVE IndInv'
    <2>1. CASE Matches(cas[t])
        <3>1. /\ seq[t] = obj.seq + 1 /\ obj.left = 0
              /\ Win(t) /\ UNCHANGED <<attempts, bounds>>
            BY <1>6, <2>1 DEF Takeover
        <3>2. \A u \in Tasks : HasGuard(u) => tok[u] < seq[t]
            BY <3>1
        <3>3. QED
            BY <2>1, <3>1, <3>2 DEF Win, Write, Forget
    <2>2. CASE ~Matches(cas[t])
        BY <1>6, <2>2 DEF Takeover, AlreadyHeld, Forget, guards
    <2>3. QED
        BY <2>1, <2>2
<1>7. ASSUME NEW t \in Tasks, Release(t) PROVE IndInv'
    BY <1>7 DEF Release, locals, guards
<1>8. ASSUME NEW t \in Tasks, ReleaseGet(t) PROVE IndInv'
    <2>1. CASE Exists /\ obj.holder = HolderOf[t]
        BY <1>8, <2>1 DEF ReleaseGet, guards
    <2>2. CASE ~(Exists /\ obj.holder = HolderOf[t])
        <3>1. Discard(t, "idle") /\ NoWrite /\ UNCHANGED <<attempts, bounds>>
            BY <1>8, <2>2 DEF ReleaseGet
        <3>2. QED
            BY <3>1 DEF Discard, Forget
    <2>3. QED
        BY <2>1, <2>2
<1>9. ASSUME NEW t \in Tasks, ReleasePut(t) PROVE IndInv'
    <2>1. CASE Matches(ver[t])
        BY <1>9, <2>1 DEF ReleasePut, Write, Discard, Forget
    <2>2. CASE ~Matches(ver[t])
        BY <1>9, <2>2 DEF ReleasePut, Discard, Forget
    <2>3. QED
        BY <2>1, <2>2
<1>10. ASSUME NEW t \in Tasks, Drop(t) PROVE IndInv'
    BY <1>10 DEF Drop, Discard, Forget, locals, guards
<1>11. ASSUME NEW t \in Tasks, DropHead(t) PROVE IndInv'
    <2>1. CASE Matches(ver[t])
        BY <1>11, <2>1 DEF DropHead, locals, guards
    <2>2. CASE ~Matches(ver[t])
        BY <1>11, <2>2 DEF DropHead, Discard, Forget
    <2>3. QED
        BY <2>1, <2>2
<1>12. ASSUME NEW t \in Tasks, DropGet(t) PROVE IndInv'
    <2>1. CASE Exists /\ obj.holder = HolderOf[t]
        BY <1>12, <2>1 DEF DropGet, guards
    <2>2. CASE ~(Exists /\ obj.holder = HolderOf[t])
        <3>1. Discard(t, "idle") /\ NoWrite /\ UNCHANGED <<attempts, bounds>>
            BY <1>12, <2>2 DEF DropGet
        <3>2. QED
            BY <3>1 DEF Discard, Forget
    <2>3. QED
        BY <2>1, <2>2
<1>13. ASSUME NEW t \in Tasks, DropPut(t) PROVE IndInv'
    <2>1. CASE Matches(ver[t])
        BY <1>13, <2>1 DEF DropPut, Write, Discard, Forget
    <2>2. CASE ~Matches(ver[t])
        BY <1>13, <2>2 DEF DropPut, Discard, Forget
    <2>3. QED
        BY <2>1, <2>2
<1>14. ASSUME NEW t \in Tasks, Crash(t) PROVE IndInv'
    BY <1>14 DEF Crash, Discard, Forget
<1>15. ASSUME NEW t \in Tasks, StorageError(t) PROVE IndInv'
    BY <1>15 DEF StorageError, OnError, Discard, Forget, guards
<1>16. ASSUME NEW t \in Tasks, LostAnswer(t) PROVE IndInv'
    <2>1. CASE pc[t] = "create"
        <3>1. \A u \in Tasks : ~HasGuard(u)
            BY <1>16, <2>1 DEF LostAnswer
        <3>2. ~Exists /\ Write(t, prep[t], 1) /\ Discard(t, "idle")
            BY <1>16, <2>1 DEF LostAnswer, OnError
        <3>3. QED
            BY <3>1, <3>2, <1>16 DEF Write, Discard, Forget, LostAnswer
    <2>2. CASE pc[t] = "takeover"
        <3>1. /\ Matches(cas[t])
              /\ Write(t, prep[t], obj.seq + 1)
              /\ Discard(t, "idle")
            BY <1>16, <2>2 DEF LostAnswer, OnError
        <3>2. QED
            BY <3>1, <2>2, <1>16 DEF Write, Discard, Forget, LostAnswer
    <2>3. CASE pc[t] = "relPut"
        <3>1. /\ Matches(ver[t])
              /\ Write(t, 0, obj.seq)
              /\ Goto(t, "dropHead") /\ Forget(t) /\ UNCHANGED guards
            BY <1>16, <2>3 DEF LostAnswer, OnError
        <3>2. QED
            BY <3>1, <2>3, <1>16 DEF Write, Forget, guards, LostAnswer
    <2>4. CASE pc[t] = "dropPut"
        <3>1. Matches(ver[t]) /\ Write(t, 0, obj.seq) /\ Discard(t, "idle")
            BY <1>16, <2>4 DEF LostAnswer, OnError
        <3>2. QED
            BY <3>1, <2>4, <1>16 DEF Write, Discard, Forget, LostAnswer
    <2>5. QED
        BY <1>16, <2>1, <2>2, <2>3, <2>4 DEF LostAnswer
<1>17. CASE Tick
    BY <1>17 DEF Tick, Dec
<1>18. CASE UNCHANGED vars
    BY <1>18 DEF vars, locals, guards
<1>19. QED
    BY <1>1, <1>2, <1>3, <1>4, <1>5, <1>6, <1>7, <1>8, <1>9, <1>10, <1>11, <1>12, <1>13, <1>14, <1>15, <1>16, <1>17, <1>18
    DEF Next, AcquireStep, ReleaseStep, DropStep, FaultStep

(* No lock record, no guard and nothing in preparation: the invariant      *)
(* holds at the start.                                                     *)
LEMMA IndInit == Init => IndInv
    BY LockAssumption
    DEF Init, IndInv, TypeOK, Records, NoLock, Pc, AcquirePc, GuardPc, HoldPc,
        ExtendPc, ReleasePc, DropPc, VersionInv, PutInv, GuardInv,
        TokensUnique, LiveGuardOwnsLock, Exists, Matches, HasGuard, Holding

(* The inductive invariant holds in every reachable state.                 *)
THEOREM LockInvariant == Spec => []IndInv
<1>1. Init => IndInv
    BY IndInit
<1>2. IndInv /\ [Next]_vars => IndInv'
    BY IndStep
<1>3. QED
    BY <1>1, <1>2, PTL DEF Spec

(* Type correctness of the lock, its locals and its guards.                *)
THEOREM LockTypes == Spec => []TypeOK
<1>1. IndInv => TypeOK
    BY DEF IndInv
<1>2. QED
    BY <1>1, LockInvariant, PTL

(* No two guards ever carry the same fencing token.                        *)
THEOREM TokensAreUnique == Spec => []TokensUnique
<1>1. IndInv => TokensUnique
    BY DEF IndInv
<1>2. QED
    BY <1>1, LockInvariant, PTL

(* While a lease runs, the lock object is the record its guard wrote.      *)
THEOREM LiveLeaseIsExclusive == Spec => []LiveGuardOwnsLock
<1>1. IndInv => LiveGuardOwnsLock
    BY DEF IndInv
<1>2. QED
    BY <1>1, LockInvariant, PTL

(* A step that leaves the object and the set of guards alone is no step of *)
(* the abstract lock.                                                      *)
LEMMA Stutter ==
    ASSUME UNCHANGED obj,
           \A u \in Tasks : /\ HasGuard(u)' = HasGuard(u)
                            /\ HasGuard(u) => tok'[u] = tok[u]
    PROVE  UNCHANGED Fenced!lockVars
    BY DEF Fenced!lockVars

(* A step that only takes the guard of one task away, and ends the lease   *)
(* only if that guard has the latest token, is GiveUp.                     *)
LEMMA HandBack ==
    ASSUME IndInv, NEW t \in Tasks, HasGuard(t),
           Discard(t, "idle") \/ Discard(t, "crashed"),
           \/ NoWrite
           \/ Matches(ver[t]) /\ Write(t, 0, obj.seq)
    PROVE  Fenced!GiveUp(t)
<1> USE DEF IndInv, TypeOK, HasGuard, GuardPc, HoldPc, ExtendPc, ReleasePc,
        DropPc, Pc
<1>1. /\ ~HasGuard(t)'
      /\ \A u \in Tasks \ {t} : HasGuard(u)' = HasGuard(u) /\ tok'[u] = tok[u]
    BY DEF Discard, Goto
<1>2. obj'.seq = obj.seq
    BY DEF NoWrite, Write
<1>3. tok[t] > 0 /\ (Matches(ver[t]) => tok[t] = obj.seq)
    BY DEF GuardInv
<1>4. obj'.left = obj.left \/ (tok[t] = obj.seq /\ obj'.left = 0)
    BY <1>3 DEF NoWrite, Write
<1> DEFINE G == [u \in Tasks |-> IF HasGuard(u) THEN tok[u] ELSE 0]
<1>5. G[t] = tok[t] /\ G' = [G EXCEPT ![t] = 0]
    BY <1>1
<1>6. (obj.left > 0)' = (obj.left > 0) \/ (G[t] = obj.seq /\ (obj.left > 0)' = FALSE)
    BY <1>4, <1>5 DEF Records
<1>7. QED
    BY <1>2, <1>3, <1>5, <1>6 DEF Fenced!GiveUp

(* The put of try_acquire is Grant: over a lapsed lease, one token higher. *)
LEMMA WinIsGrant ==
    ASSUME IndInv, NEW t \in Tasks, ~HasGuard(t), Win(t),
           obj.left = 0, seq[t] = obj.seq + 1
    PROVE  Fenced!Grant(t)
<1> USE DEF IndInv, TypeOK, HasGuard, GuardPc, HoldPc, ExtendPc, ReleasePc,
        DropPc, Pc
<1>1. /\ HasGuard(t)' /\ tok'[t] = obj.seq + 1
      /\ \A u \in Tasks \ {t} : HasGuard(u)' = HasGuard(u) /\ tok'[u] = tok[u]
    BY DEF Win, Goto
<1>2. obj'.seq = obj.seq + 1
    BY DEF Win, Write
<1> DEFINE G == [u \in Tasks |-> IF HasGuard(u) THEN tok[u] ELSE 0]
<1>3. G[t] = 0 /\ G' = [G EXCEPT ![t] = obj.seq + 1]
    BY <1>1
<1>4. (obj.left > 0)' \in BOOLEAN
    OBVIOUS
<1>5. QED
    BY <1>2, <1>3, <1>4 DEF Fenced!Grant

(* Every step of the lock maps to a step of FencedLock or to a stutter.    *)
LEMMA AbstractStep ==
    IndInv /\ [Next]_vars => [Fenced!LockNext]_Fenced!lockVars
<1> SUFFICES ASSUME IndInv, [Next]_vars
             PROVE  Fenced!LockNext \/ UNCHANGED Fenced!lockVars
    OBVIOUS
<1> DEFINE Quiet == UNCHANGED <<obj, tok>>
                    /\ \A u \in Tasks : HasGuard(u)' = HasGuard(u)
           Back(t) == /\ HasGuard(t)
                      /\ Discard(t, "idle") \/ Discard(t, "crashed")
                      /\ \/ NoWrite
                         \/ Matches(ver[t]) /\ Write(t, 0, obj.seq)
           Goal == Fenced!LockNext \/ UNCHANGED Fenced!lockVars
<1>q. Quiet => Goal
    BY Stutter
<1>b. \A t \in Tasks : Back(t) => Goal
    BY HandBack DEF Fenced!LockNext
<1> SUFFICES Goal
    OBVIOUS
<1> HIDE DEF Goal
<1>1. ASSUME NEW t \in Tasks, AcquireStep(t) PROVE Goal
    <2>1. CASE Create(t) /\ ~Exists
        BY <2>1, WinIsGrant DEF Create, IndInv, VersionInv, PutInv, Goal,
            Fenced!LockNext, HasGuard, GuardPc, HoldPc, ExtendPc, ReleasePc,
            DropPc
    <2>2. CASE Takeover(t) /\ Matches(cas[t])
        BY <2>2, WinIsGrant DEF Takeover, IndInv, PutInv, Goal,
            Fenced!LockNext, HasGuard, GuardPc, HoldPc, ExtendPc, ReleasePc,
            DropPc
    <2>3. CASE ~(Create(t) /\ ~Exists) /\ ~(Takeover(t) /\ Matches(cas[t]))
        <3>1. Quiet
            BY <1>1, <2>3 DEF AcquireStep, Acquire, Retry, Create, Head, Get,
                Takeover, AlreadyHeld, IndInv, TypeOK, HasGuard, GuardPc, HoldPc, ExtendPc, ReleasePc, DropPc, AcquirePc, Pc, Goto, NoWrite, guards
        <3>2. QED
            BY <3>1, <1>q
    <2>4. QED
        BY <2>1, <2>2, <2>3
<1>2. ASSUME NEW t \in Tasks, ReleaseStep(t) PROVE Goal
    <2>1. CASE Release(t)
        BY <2>1, <1>q DEF Release, IndInv, TypeOK, HasGuard, GuardPc, HoldPc, ExtendPc, ReleasePc, DropPc, AcquirePc, Pc, Goto, NoWrite, guards
    <2>2. CASE ReleaseGet(t)
        <3>1. CASE pc'[t] = "relPut"
            BY <2>2, <3>1, <1>q DEF ReleaseGet, Discard, IndInv, TypeOK,
                HasGuard, GuardPc, HoldPc, ExtendPc, ReleasePc, DropPc, AcquirePc, Pc, Goto, NoWrite, guards
        <3>2. CASE pc'[t] # "relPut"
            BY <2>2, <3>2, <1>b DEF ReleaseGet, IndInv, TypeOK, HasGuard, GuardPc, HoldPc, ExtendPc, ReleasePc, DropPc, AcquirePc, Pc, Goto, NoWrite, guards
        <3>3. QED
            BY <3>1, <3>2
    <2>3. CASE ReleasePut(t)
        BY <2>3, <1>b DEF ReleasePut, IndInv, PutInv, HasGuard, GuardPc,
            ReleasePc
    <2>4. QED
        BY <1>2, <2>1, <2>2, <2>3 DEF ReleaseStep
<1>3. ASSUME NEW t \in Tasks, DropStep(t) PROVE Goal
    <2>1. CASE Discard(t, "idle") /\ ~DropPut(t)
        BY <1>3, <2>1, <1>b DEF DropStep, Drop, DropHead, DropGet, HasGuard,
            GuardPc, HoldPc, DropPc
    <2>2. CASE DropPut(t)
        BY <2>2, <1>b DEF DropPut, IndInv, PutInv, HasGuard, GuardPc, DropPc
    <2>3. CASE ~Discard(t, "idle") /\ ~DropPut(t)
        BY <1>3, <2>3, <1>q DEF DropStep, Drop, DropHead, DropGet, IndInv,
            TypeOK, HasGuard, GuardPc, HoldPc, ExtendPc, ReleasePc, DropPc, AcquirePc, Pc, Goto, NoWrite, guards
    <2>4. QED
        BY <2>1, <2>2, <2>3
<1>4. ASSUME NEW t \in Tasks, Crash(t) PROVE Goal
    <2>1. CASE HasGuard(t)
        BY <1>4, <2>1, <1>b DEF Crash
    <2>2. CASE ~HasGuard(t)
        <3>1. \A u \in Tasks : HasGuard(u)' = HasGuard(u)
            BY <1>4, <2>2 DEF Crash, Discard, IndInv, TypeOK, HasGuard, GuardPc, HoldPc,
            ExtendPc, ReleasePc, DropPc, AcquirePc, Pc, Goto, NoWrite, guards
        <3>2. UNCHANGED obj
            BY <1>4 DEF Crash, NoWrite
        <3>3. \A u \in Tasks : HasGuard(u) => tok'[u] = tok[u]
            BY <1>4, <2>2 DEF Crash, Discard, IndInv, TypeOK
        <3>4. QED
            BY <3>1, <3>2, <3>3, Stutter DEF Goal
    <2>3. QED
        BY <2>1, <2>2
<1>5. ASSUME NEW t \in Tasks, StorageError(t) PROVE Goal
    <2>1. CASE pc[t] \in DropPc
        BY <1>5, <2>1, <1>b DEF StorageError, OnError, HasGuard, GuardPc,
            DropPc, AcquirePc, ReleasePc, ExtendPc
    <2>2. CASE pc[t] \notin DropPc
        <3>1. \A u \in Tasks : HasGuard(u)' = HasGuard(u)
            BY <1>5, <2>2 DEF StorageError, OnError, Discard, IndInv, PutInv,
                TypeOK, HasGuard, GuardPc, HoldPc,
            ExtendPc, ReleasePc, DropPc, AcquirePc, Pc, Goto, NoWrite, guards
        <3>2. UNCHANGED obj
            BY <1>5 DEF StorageError, NoWrite
        <3>3. \A u \in Tasks : HasGuard(u) => tok'[u] = tok[u]
            BY <1>5, <2>2 DEF StorageError, OnError, Discard, IndInv, PutInv,
                TypeOK, HasGuard, GuardPc, HoldPc,
            ExtendPc, ReleasePc, DropPc, AcquirePc, Pc, Goto, NoWrite, guards
        <3>4. QED
            BY <3>1, <3>2, <3>3, Stutter DEF Goal
    <2>3. QED
        BY <2>1, <2>2
<1>6. ASSUME NEW t \in Tasks, LostAnswer(t) PROVE Goal
    <2>1. CASE pc[t] \in {"create", "takeover"}
        <3>1. obj.left = 0 /\ seq[t] = obj.seq + 1
            BY <1>6, <2>1 DEF LostAnswer, IndInv, VersionInv, PutInv
        <3>2. obj'.seq = obj.seq + 1
            BY <1>6, <2>1, <3>1 DEF LostAnswer, Write
        <3>3. \A u \in Tasks : /\ HasGuard(u)' = HasGuard(u)
                               /\ HasGuard(u) => tok'[u] = tok[u]
            BY <1>6, <2>1 DEF LostAnswer, OnError, Discard, IndInv, TypeOK,
                HasGuard, GuardPc, HoldPc,
            ExtendPc, ReleasePc, DropPc, AcquirePc, Pc, Goto, NoWrite, guards
        <3>4. Fenced!Waste
            <4>1. (obj.left > 0)' \in BOOLEAN
                OBVIOUS
            <4>2. QED
                BY <3>1, <3>2, <3>3, <4>1 DEF Fenced!Waste
        <3>5. QED
            BY <3>4 DEF Goal, Fenced!LockNext
    <2>2. CASE pc[t] = "relPut"
        <3>1. Matches(ver[t]) /\ Write(t, 0, obj.seq) /\ UNCHANGED tok
            BY <1>6, <2>2 DEF LostAnswer, OnError, IndInv, PutInv, AcquirePc,
                DropPc, ExtendPc, guards
        <3>2. \A u \in Tasks : HasGuard(u)' = HasGuard(u)
            BY <1>6, <2>2 DEF LostAnswer, OnError, IndInv, TypeOK, HasGuard, GuardPc, HoldPc,
            ExtendPc, ReleasePc, DropPc, AcquirePc, Pc, Goto, NoWrite, guards
        <3>3. CASE obj.left > 0
            <4>1. (obj.left > 0)' = FALSE /\ obj'.seq = obj.seq
                BY <3>1 DEF Write
            <4>2. Fenced!Lapse
                BY <3>1, <3>2, <3>3, <4>1 DEF Fenced!Lapse
            <4>3. QED
                BY <4>2 DEF Goal, Fenced!LockNext
        <3>4. CASE ~(obj.left > 0)
            <4>1. (obj.left > 0)' = (obj.left > 0) /\ obj'.seq = obj.seq
                BY <3>1, <3>4 DEF Write
            <4>2. QED
                BY <3>1, <3>2, <4>1 DEF Goal, Fenced!lockVars
        <3>5. QED
            BY <3>3, <3>4
    <2>3. CASE pc[t] = "dropPut"
        <3>1. Back(t)
            BY <1>6, <2>3 DEF LostAnswer, OnError, IndInv, PutInv, AcquirePc,
                HasGuard, GuardPc, ReleasePc, DropPc, ExtendPc
        <3>2. QED
            BY <3>1, <1>b
    <2>4. QED
        BY <1>6, <2>1, <2>2, <2>3 DEF LostAnswer, IndInv, PutInv, ExtendPc
<1>7. CASE Tick
    <2>1. obj'.seq = obj.seq /\ UNCHANGED <<pc, tok>>
        BY <1>7 DEF Tick, IndInv, TypeOK, Records
    <2>2. obj'.left = Dec(obj.left)
        BY <1>7 DEF Tick, IndInv, TypeOK, Records
    <2>3. CASE obj.left = 1
        <3>1. (obj.left > 0)' = FALSE /\ obj.left > 0
            BY <2>2, <2>3 DEF Dec
        <3>2. Fenced!Lapse
            BY <2>1, <3>1 DEF Fenced!Lapse, HasGuard
        <3>3. QED
            BY <3>2 DEF Goal, Fenced!LockNext
    <2>4. CASE obj.left # 1
        <3>1. (obj.left > 0)' = (obj.left > 0)
            BY <2>2, <2>4 DEF Dec, IndInv, TypeOK, Records
        <3>2. QED
            BY <2>1, <3>1 DEF Goal, Fenced!lockVars, HasGuard
    <2>5. QED
        BY <2>3, <2>4
<1>8. CASE UNCHANGED vars
    BY <1>8, <1>q DEF vars, guards, HasGuard
<1>9. QED
    BY <1>1, <1>2, <1>3, <1>4, <1>5, <1>6, <1>7, <1>8
    DEF Next, FaultStep, Goal

(* The storage protocol implements the abstract fenced lock.               *)
THEOREM LockRefinement == Spec => ImplementsFencedLock
<1>1. Init => Fenced!LockInit
    <2>1. Init => obj.seq = 0 /\ (obj.left > 0) = FALSE
        BY DEF Init, NoLock
    <2>2. Init => \A t \in Tasks : ~HasGuard(t)
        BY DEF Init, HasGuard, GuardPc, HoldPc, ExtendPc, ReleasePc, DropPc
    <2>3. QED
        BY <2>1, <2>2 DEF Fenced!LockInit
<1>2. IndInv /\ [Next]_vars => [Fenced!LockNext]_Fenced!lockVars
    BY AbstractStep
<1>3. QED
    BY <1>1, <1>2, LockInvariant, PTL
    DEF Spec, ImplementsFencedLock, Fenced!LockSpec

(* A new holder's token is above the token of every guard still around:    *)
(* the step that gives it the guard is a Grant of the abstract lock.       *)
THEOREM NewHolderIsHigher == Spec => NewHolderHigher
<1> DEFINE Higher(t, u) ==
      (~HasGuard(t) /\ HasGuard(t)' /\ t # u /\ HasGuard(u))
        => tok[u] < tok'[t]
<1>1. ASSUME IndInv, IndInv', [Next]_vars, NEW t \in Tasks, NEW u \in Tasks
      PROVE  Higher(t, u)
    <2> SUFFICES ASSUME ~HasGuard(t), HasGuard(t)', t # u, HasGuard(u)
                 PROVE  tok[u] < tok'[t]
        OBVIOUS
    <2> DEFINE G == [x \in Tasks |-> IF HasGuard(x) THEN tok[x] ELSE 0]
    <2>1. G[t] = 0 /\ G'[t] = tok'[t] /\ tok'[t] # 0
        BY <1>1 DEF IndInv, GuardInv
    <2>2. Fenced!LockNext \/ UNCHANGED Fenced!lockVars
        BY <1>1, AbstractStep
    <2>3. Fenced!Grant(t)
        <3>1. G' # G
            BY <2>1
        <3>2. PICK x \in Tasks : Fenced!Grant(x) \/ Fenced!GiveUp(x)
            BY <2>2, <3>1 DEF Fenced!LockNext, Fenced!lockVars, Fenced!Waste,
                Fenced!Lapse
        <3>3. \/ Fenced!Grant(x) /\ G' = [G EXCEPT ![x] = obj.seq + 1]
              \/ Fenced!GiveUp(x) /\ G' = [G EXCEPT ![x] = 0]
            BY <3>2 DEF Fenced!Grant, Fenced!GiveUp
        <3>4. QED
            BY <2>1, <3>3
    <2>4. G' = [G EXCEPT ![t] = obj.seq + 1]
        BY <2>3 DEF Fenced!Grant
    <2>5. tok'[t] = obj.seq + 1
        BY <2>1, <2>4
    <2>6. tok[u] <= obj.seq
        BY <1>1 DEF IndInv, GuardInv
    <2>7. QED
        BY <1>1, <2>5, <2>6 DEF IndInv, TypeOK, Records
<1>2. IndInv /\ IndInv' /\ [Next]_vars
        => [\A t, u \in Tasks : Higher(t, u)]_vars
    BY <1>1
<1>3. QED
    BY <1>2, LockInvariant, PTL DEF Spec, NewHolderHigher

============================================================================
