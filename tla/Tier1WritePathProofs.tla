----------------------- MODULE Tier1WritePathProofs -----------------------
(***************************************************************************)
(* Proofs about Tier1WritePath for any number of API writers and consumer  *)
(* deliveries, any assignment of names, any number of retries and any      *)
(* bounds.  Four inductive invariants, each resting on the ones before:    *)
(* what a compaction knows of the storage, who owns a fencing token, what  *)
(* a writer's event id says about visibility, and which snapshots the      *)
(* collector may have picked.                                              *)
(***************************************************************************)
EXTENDS Tier1WritePath, NumberSetLemmas, FiniteSetTheorems, TLAPS

(* No name twice.                                                          *)
Unique(state) == \A u, v \in state : NameOf[u] = NameOf[v] => u = v

HasHead    == {"get", "alloc", "snapshot", "put", "revalidate", "publish"}
HasPrev    == {"alloc", "snapshot", "put", "revalidate", "publish"}
HasNext    == {"snapshot", "put", "revalidate", "publish"}
HasFiles   == {"put", "revalidate", "publish"}
HasWritten == {"revalidate", "publish"}

(* A compaction and the storage.  Its events are written; the manifest it  *)
(* builds on was the current one when it was read, still is if the         *)
(* pointer has the version of the precondition, and the events apply to it;*)
(* the manifest it has written is the successor of that one.               *)
TaskInv(t) ==
    /\ \A e \in events[t] : ledger[e] # NoTask
    /\ cpc[t] \in HasHead => cas[t] <= pointer.version
    /\ cpc[t] \in HasPrev =>
         /\ prev[t] \in DOMAIN manifests
         /\ Unapplied(t, manifests[prev[t]]) # {}
         /\ Applies(t, manifests[prev[t]])
         /\ cas[t] = pointer.version =>
              prev[t] = pointer.manifest /\ pointer.epoch <= tok[t]
    /\ cpc[t] \in HasNext => next[t] > prev[t]
    /\ cpc[t] \in HasWritten =>
         next[t] \in DOMAIN manifests /\ manifests[next[t]] = NextManifest(t)

StoreInv ==
    /\ pointer.manifest \in DOMAIN manifests
    /\ \A id \in DOMAIN manifests : Unique(manifests[id].state)

(* A consumer appends nothing.                                             *)
OnlyWriters ==
    \A t \in Tasks : pc[t] \in {"read", "watermark", "append"} => t \in Writers

CompactInv ==
    TypeOK /\ OnlyWriters /\ StoreInv /\ \A t \in Tasks : TaskInv(t)

(* Tokens: a guard's token is its own, and the compaction a writer waits   *)
(* for carries it.                                                         *)
TokenInv ==
    /\ \A t \in Tasks : guard[t] <= token /\ tok[t] <= token
    /\ \A t, u \in Tasks : guard[t] # 0 /\ guard[u] = guard[t] => u = t
    /\ \A t, u \in Tasks : guard[t] # 0 /\ tok[u] = guard[t] => u = t
    /\ \A t \in Tasks :
         /\ pc[t] \in {"start", "read", "watermark", "append", "rpc"} =>
              cpc[t] = "none" /\ tok[t] = 0
         /\ pc[t] \in {"read", "watermark", "append", "rpc", "wait"} =>
              guard[t] # 0
         /\ pc[t] = "wait" /\ cpc[t] # "none" => tok[t] = guard[t]
         /\ reply[t] # "none" => pc[t] = "wait"

(* Ids: they are handed out in order, and a writer's compaction is for the *)
(* writer's event.                                                         *)
IdInv ==
    /\ \A e \in EventIds : ledger[e] # NoTask => e <= lastId
    /\ \A id \in DOMAIN manifests : manifests[id].watermark <= lastId
    /\ \A t \in Writers :
         /\ eid[t] <= lastId
         /\ pc[t] = "append" => eid[t] \in EventIds
         /\ pc[t] \in {"rpc", "wait"} => eid[t] \in EventIds /\ ledger[eid[t]] = t
         /\ pc[t] = "wait" /\ cpc[t] # "none" => events[t] = {eid[t]}

(* A compaction that passed the lock check.                                *)
PastLock(u) == cpc[u] \notin {"none", "lock"}

Pending(t) == pc[t] \in {"append", "rpc", "wait"}

(* Visibility: the compactions that were let in under an earlier token are *)
(* all for earlier events, so that under tokens up to the writer's own     *)
(* nothing passes the writer's event without applying it.                  *)
Ahead(t) ==
    Pending(t) =>
        /\ \A u \in Tasks : PastLock(u) /\ tok[u] < guard[t] =>
             \A e \in events[u] : e < eid[t]
        /\ pointer.epoch <= guard[t] /\ eid[t] <= Current.watermark =>
             t \in Current.state

AckInv ==
    \A t \in Writers :
        /\ Ahead(t)
        /\ reply[t] = "ok" \/ answer[t] = "ok" => t \in Current.state

(* Snapshots: nothing is ahead of the visible version by more than one,    *)
(* the collector has picked only older ones, and the files of a compaction *)
(* that can still publish are there.                                       *)
FilesOf(t) ==
    /\ cpc[t] \in HasPrev => manifests[prev[t]].version <= Current.version
    /\ cpc[t] \in HasFiles /\ cas[t] = pointer.version =>
         SnapshotDir(t) \in snapshots

FilesInv ==
    /\ VisibleIsReadable
    /\ \A d \in snapshots : d.version <= Current.version + 1
    /\ \A v \in doomed : v < Current.version
    /\ \A t \in Tasks : FilesOf(t)

----------------------------------------------------------------------------
----------------------------------------------------------------------------
(* TypeOK in two parts besides that of the lock: the storage and the tasks.*)
StoreTypes ==
    /\ pointer \in [version : Nat, epoch : Nat, manifest : ManifestIds]
    /\ DOMAIN manifests \subseteq ManifestIds
    /\ \A id \in DOMAIN manifests : manifests[id] \in Manifests
    /\ snapshots \subseteq
         [version : Nat, id : ManifestIds, by : Tasks \cup {NoTask}]
    /\ doomed \subseteq Nat
    /\ ledger \in [EventIds -> Writers \cup {NoTask}]

TaskTypes ==
    /\ lastId \in 0..MaxId
    /\ pc \in [Tasks -> WriterPc]
    /\ eid \in [Tasks -> 0..MaxId]
    /\ answer \in [Tasks -> Answers]
    /\ crashes \in Nat

CompactTypes ==
    /\ cpc \in [Tasks -> CompactPc]
    /\ events \in [Tasks -> SUBSET EventIds]
    /\ tok \in [Tasks -> Nat]
    /\ attempt \in [Tasks -> 0..CasMaxRetries]
    /\ cas \in [Tasks -> Nat]
    /\ prev \in [Tasks -> ManifestIds]
    /\ next \in [Tasks -> ManifestIds]
    /\ reply \in [Tasks -> Answers]

LEMMA TypeParts ==
    TypeOK <=> LockTypeOK /\ StoreTypes /\ TaskTypes /\ CompactTypes
    BY DEF TypeOK, StoreTypes, TaskTypes, CompactTypes

LEMMA Bounds ==
    /\ MaxToken \in Nat /\ MaxId \in Nat /\ MaxManifest \in Nat
    /\ MaxCrashes \in Nat /\ CasMaxRetries \in Nat \ {0}
    /\ KeepSnapshots \in Nat \ {0} /\ Before \in 0..MaxManifest
    /\ Writers \subseteq Tasks /\ NoTask \notin Tasks
    BY Tier1Assumption

(* What the next manifest of a compaction is made of.                      *)
LEMMA NextFacts ==
    ASSUME TypeOK, NEW t \in Tasks, TaskInv(t), cpc[t] \in HasPrev
    PROVE  LET p == manifests[prev[t]]
               m == NextManifest(t)
           IN  /\ m \in Manifests
               /\ p.state \subseteq m.state
               /\ Unique(m.state)
               /\ m.watermark \in events[t] /\ m.watermark > p.watermark
               /\ ledger[m.watermark] \in m.state
               /\ m.version = p.version + 1 /\ m.epoch = tok[t]
               /\ m.parent = prev[t] /\ m.by = t
<1> DEFINE p == manifests[prev[t]]
           U == Unapplied(t, p)
<1>1. /\ prev[t] \in DOMAIN manifests /\ prev[t] \in ManifestIds
      /\ p \in Manifests /\ tok[t] \in Nat
      /\ events[t] \subseteq EventIds
      /\ \A e \in events[t] : ledger[e] \in Writers
      /\ U # {} /\ Applies(t, p)
    BY DEF TypeOK, TaskInv, HasPrev
<1>2. /\ U \subseteq events[t] /\ U \subseteq Int /\ IsFiniteSet(U)
      /\ \A e \in U : e > p.watermark
    <2>1. U \subseteq events[t] /\ \A e \in U : e > p.watermark
        BY DEF Unapplied
    <2>2. U \subseteq 1..MaxId
        BY <1>1, <2>1 DEF EventIds
    <2>3. IsFiniteSet(1..MaxId)
        BY FS_Interval, Bounds
    <2>4. IsFiniteSet(U)
        BY <2>2, <2>3, FS_Subset
    <2>5. 1..MaxId \subseteq Int
        BY Bounds
    <2> HIDE DEF U
    <2> QED  BY <2>1, <2>2, <2>4, <2>5
<1> HIDE DEF U
<1>3. Max(U) \in U
    BY <1>1, <1>2, MaxFacts
<1>4. NextManifest(t) =
        [state |-> p.state \cup {ledger[e] : e \in U}, watermark |-> Max(U),
         version |-> p.version + 1, epoch |-> tok[t], parent |-> prev[t],
         by |-> t]
    BY DEF NextManifest, U
<1>5. NextManifest(t).state = p.state \cup {ledger[e] : e \in U}
    BY <1>4
<1>6. Unique(NextManifest(t).state)
    BY <1>1, <1>5 DEF Applies, Unique, U
<1>7. p.state \subseteq Writers /\ p.version \in Nat
    BY <1>1 DEF Manifests
<1>8. NextManifest(t).state \subseteq Writers
    BY <1>1, <1>2, <1>5, <1>7
<1>9. Max(U) \in 0..MaxId
    <2>1. Max(U) \in 1..MaxId
        BY <1>1, <1>2, <1>3 DEF EventIds
    <2>2. \A x \in 1..MaxId : x \in 0..MaxId
        BY Bounds
    <2> QED  BY <2>1, <2>2
<1>10. NextManifest(t) \in Manifests
    BY <1>1, <1>4, <1>5, <1>7, <1>8, <1>9 DEF Manifests
<1> QED  BY <1>2, <1>3, <1>4, <1>5, <1>6, <1>10

----------------------------------------------------------------------------
(* How the storage may change under a compaction: the pointer moves one    *)
(* version on, manifests and ledger events stay as they were written.      *)
Keeps ==
    /\ pointer' = pointer \/ pointer'.version = pointer.version + 1
    /\ \A id \in DOMAIN manifests :
         id \in DOMAIN manifests' /\ manifests'[id] = manifests[id]
    /\ \A e \in EventIds : ledger[e] # NoTask => ledger'[e] = ledger[e]

Same(t) ==
    /\ cpc'[t] = cpc[t] /\ events'[t] = events[t] /\ tok'[t] = tok[t]
    /\ cas'[t] = cas[t] /\ prev'[t] = prev[t] /\ next'[t] = next[t]

Ended(t) == cpc'[t] = "none" /\ events'[t] = {}

(* What a compaction knows survives the steps of the others.               *)
LEMMA TaskKeeps ==
    ASSUME TypeOK, Keeps, NEW t \in Tasks, Same(t), TaskInv(t)
    PROVE  TaskInv(t)'
<1>1. /\ pointer.version \in Nat /\ cas[t] \in Nat
      /\ events[t] \subseteq EventIds
    BY DEF TypeOK
<1>2. \A e \in events'[t] : ledger'[e] = ledger[e] /\ ledger[e] # NoTask
    BY <1>1 DEF Keeps, Same, TaskInv
<1>3. cpc'[t] \in HasHead => cas'[t] <= pointer'.version
    BY <1>1 DEF Keeps, Same, TaskInv
<1>4. ASSUME cpc'[t] \in HasPrev
      PROVE  /\ prev'[t] \in DOMAIN manifests'
             /\ Unapplied(t, manifests[prev[t]])' # {}
             /\ Applies(t, manifests[prev[t]])'
             /\ cas'[t] = pointer'.version =>
                  prev'[t] = pointer'.manifest /\ pointer'.epoch <= tok'[t]
             /\ cpc'[t] \in HasWritten => NextManifest(t)' = NextManifest(t)
    <2>1. prev'[t] = prev[t] /\ prev[t] \in DOMAIN manifests
          /\ manifests'[prev[t]] = manifests[prev[t]]
          /\ prev[t] \in DOMAIN manifests'
        BY <1>4 DEF TaskInv, Keeps, Same
    <2>3. Unapplied(t, manifests[prev[t]])' = Unapplied(t, manifests[prev[t]])
        BY <2>1 DEF Unapplied, Same
    <2>4. {ledger[e] : e \in Unapplied(t, manifests[prev[t]])}' =
          {ledger[e] : e \in Unapplied(t, manifests[prev[t]])}
        <3>1. \A e \in Unapplied(t, manifests[prev[t]]) : e \in events'[t]
            BY DEF Unapplied, Same
        <3> QED  BY <1>2, <2>3, <3>1
    <2>5. Applies(t, manifests[prev[t]])'
        BY <1>4, <2>1, <2>4 DEF Applies, TaskInv, Same
    <2>6. NextManifest(t)' = NextManifest(t)
        BY <2>1, <2>3, <2>4 DEF NextManifest, Same
    <2>7. cas'[t] = pointer'.version =>
            prev'[t] = pointer'.manifest /\ pointer'.epoch <= tok'[t]
        BY <1>1, <1>4 DEF HasPrev, HasHead, TaskInv, Keeps, Same
    <2>8. Unapplied(t, manifests[prev[t]])' # {}
        BY <1>4, <2>3 DEF TaskInv, Same
    <2> QED  BY <2>1, <2>5, <2>6, <2>7, <2>8
<1>5. cpc'[t] \in HasNext => next'[t] > prev'[t]
    BY DEF Same, TaskInv
<1>6. cpc'[t] \in HasWritten =>
        /\ next'[t] \in DOMAIN manifests'
        /\ manifests'[next'[t]] = NextManifest(t)'
    BY <1>4 DEF Same, TaskInv, Keeps, HasWritten, HasPrev
<1> QED  BY <1>2, <1>3, <1>4, <1>5, <1>6 DEF TaskInv

LEMMA TaskEnds ==
    ASSUME NEW t \in Tasks, Ended(t)
    PROVE  TaskInv(t)'
    BY DEF Ended, TaskInv, HasHead, HasPrev, HasNext, HasWritten

----------------------------------------------------------------------------
(* Types of the parts, one action after the other.                         *)
LEMMA LockTypeStep ==
    ASSUME LockTypeOK,
           \/ \E t \in Tasks : Grant(t) \/ GiveUp(t)
           \/ Waste \/ Lapse \/ UNCHANGED lockVars
    PROVE  LockTypeOK'
<1>1. token' \in Nat
    BY DEF LockTypeOK, Grant, GiveUp, Waste, Lapse, lockVars
<1>2. guard' \in [Tasks -> Nat]
    BY DEF LockTypeOK, Grant, GiveUp, Waste, Lapse, lockVars
<1>3. live' \in BOOLEAN
    BY Zenon DEF LockTypeOK, Grant, GiveUp, Waste, Lapse, lockVars
<1> QED  BY <1>1, <1>2, <1>3 DEF LockTypeOK

LEMMA LockTypeNext ==
    ASSUME LockTypeOK, Next
    PROVE  LockTypeOK'
<1>1. \/ \E t \in Tasks : Grant(t) \/ GiveUp(t)
      \/ Waste \/ Lapse \/ UNCHANGED lockVars
    <2>1. ASSUME NEW t \in Tasks, WriterStep(t)
          PROVE  Grant(t) \/ GiveUp(t) \/ UNCHANGED lockVars
        BY <2>1 DEF WriterStep, Acquire, AcquireFails, SyncCompact, Response,
            Timeout, Release, WriterCrash, ReadState, ReadWatermark, Append,
            lockVars
    <2>2. ASSUME NEW t \in Tasks, CompactionStep(t)
          PROVE  UNCHANGED lockVars
        BY <2>2 DEF CompactionStep, CheckLock, HeadPointer, GetPointer,
            AllocManifest, WriteSnapshot, PutManifest, RevalidateLock,
            PublishPointer, CompactionCrash
    <2> QED  BY <2>1, <2>2 DEF Next, LeaseLapses, GrantWasted,
                FindOldSnapshots, DeletePrefix
<1> QED  BY <1>1, LockTypeStep

(* Ids that are generated stay within the bound.                           *)
LEMMA GenerateTypes ==
    ASSUME TaskTypes, NEW t \in Tasks, NEW floor \in 0..MaxId,
           Generate(t, floor)
    PROVE  /\ eid' \in [Tasks -> 0..MaxId] /\ lastId' \in 0..MaxId
           /\ eid'[t] \in EventIds
           /\ eid' = [eid EXCEPT ![t] = eid'[t]]
           /\ lastId' >= lastId /\ lastId' >= eid'[t]
           /\ eid'[t] > floor
           /\ ~SkewedClocks => eid'[t] > lastId
<1>1. PICK id \in GenerateAfter(floor) :
        /\ id <= MaxId
        /\ eid' = [eid EXCEPT ![t] = id]
        /\ lastId' = Max({lastId, id})
    BY DEF Generate
<1>2. id \in Nat /\ id > floor /\ (~SkewedClocks => id > lastId)
    BY <1>1, Bounds DEF GenerateAfter, Candidates, EventIds, TaskTypes
<1>3. lastId' \in {lastId, id} /\ lastId' >= lastId /\ lastId' >= id
    <2>1. {lastId, id} \subseteq Int /\ IsFiniteSet({lastId, id})
        <3>1. IsFiniteSet({lastId} \cup {id})
            BY FS_Singleton, FS_AddElement
        <3>2. {lastId} \cup {id} = {lastId, id}
            OBVIOUS
        <3> QED  BY <1>2, <3>1, <3>2, Bounds DEF TaskTypes
    <2> QED  BY <1>1, <2>1, MaxFacts
<1> QED  BY <1>1, <1>2, <1>3, Bounds DEF TaskTypes, EventIds

LEMMA TaskTypeNext ==
    ASSUME TypeOK, StoreInv, Next
    PROVE  TaskTypes'
<1>0. TaskTypes /\ CompactTypes /\ StoreTypes
    BY TypeParts
<1>1. ASSUME NEW t \in Tasks, WriterStep(t) PROVE TaskTypes'
    <2> USE <1>0 DEF TaskTypes, Goto, writer
    <2>1. CASE Acquire(t) \/ AcquireFails(t) \/ SyncCompact(t) \/ Release(t)
        BY <2>1 DEF Acquire, AcquireFails, SyncCompact, Release, WriterPc,
            Answers
    <2>2. CASE Response(t) \/ Timeout(t) \/ ReadState(t)
        BY <2>2 DEF Response, Timeout, ReadState, WriterPc, Answers,
            CompactTypes
    <2>3. CASE WriterCrash(t)
        BY <2>3 DEF WriterCrash, WriterPc, Answers
    <2>4. CASE ReadWatermark(t)
        <3>1. Current.watermark \in 0..MaxId
            BY DEF StoreInv, StoreTypes, Manifests, Current
        <3> QED  BY <2>4, <3>1, GenerateTypes DEF ReadWatermark, WriterPc
    <2>5. CASE Append(t)
        <3>1. eid[t] \in 0..MaxId
            OBVIOUS
        <3> QED  BY <2>5, <3>1, GenerateTypes DEF Append, WriterPc
    <2> QED  BY <1>1, <2>1, <2>2, <2>3, <2>4, <2>5 DEF WriterStep
<1>2. ASSUME NEW t \in Tasks, CompactionStep(t) PROVE TaskTypes'
    BY <1>0, <1>2 DEF CompactionStep, CheckLock, HeadPointer, GetPointer,
        AllocManifest, WriteSnapshot, PutManifest, RevalidateLock,
        PublishPointer, CompactionCrash, TaskTypes, writer
<1> QED  BY <1>0, <1>1, <1>2 DEF Next, LeaseLapses, GrantWasted,
            FindOldSnapshots, DeletePrefix, TaskTypes, writer

(* The three ways a compaction goes on with its variables.                 *)
LEMMA RespondTypes ==
    ASSUME CompactTypes, NEW t \in Tasks, NEW r \in Answers, Respond(t, r)
    PROVE  CompactTypes' /\ Ended(t)
<1>1. Return(t) /\ reply' \in [Tasks -> Answers]
    BY DEF Respond, CompactTypes
<1>2. 0 \in ManifestIds /\ 0 \in 0..CasMaxRetries
    BY Bounds DEF ManifestIds
<1> QED  BY <1>1, <1>2 DEF Return, CompactTypes, CompactPc, Ended

LEMMA RetryTypes ==
    ASSUME CompactTypes, NEW t \in Tasks, Retry(t)
    PROVE  /\ CompactTypes'
           /\ Ended(t) \/ (cpc'[t] = "head" /\ events'[t] = events[t])
<1>1. CASE attempt[t] = CasMaxRetries
    BY <1>1, RespondTypes DEF Retry, Reject, Answers
<1>2. CASE attempt[t] # CasMaxRetries
    <2>1. attempt[t] + 1 \in 0..CasMaxRetries
        BY <1>2, Bounds DEF CompactTypes
    <2> QED  BY <1>2, <2>1 DEF Retry, Step, CompactTypes, CompactPc, request
<1> QED  BY <1>1, <1>2

LEMMA CompactTypeNext ==
    ASSUME TypeOK, Next
    PROVE  CompactTypes'
<1>0. CompactTypes /\ StoreTypes /\ LockTypeOK
    BY TypeParts
<1>1. ASSUME NEW t \in Tasks, WriterStep(t) PROVE CompactTypes'
    <2> USE <1>0
    <2>1. CASE SyncCompact(t)
        <3>1. 1 \in 0..CasMaxRetries
            BY Bounds
        <3> QED  BY <2>1, <3>1 DEF SyncCompact, CompactTypes, CompactPc,
                    LockTypeOK
    <2>2. CASE Response(t) \/ Timeout(t)
        BY <2>2 DEF Response, Timeout, CompactTypes, Answers, request, locals
    <2>3. CASE WriterCrash(t)
        <3>1. reply' \in [Tasks -> Answers]
            BY <2>3 DEF WriterCrash, CompactTypes, Answers
        <3>2. 0 \in ManifestIds /\ 0 \in 0..CasMaxRetries
            BY Bounds DEF ManifestIds
        <3> QED  BY <2>3, <3>1, <3>2 DEF WriterCrash, Return, CompactTypes,
                    CompactPc, request, locals
    <2> QED  BY <1>1, <2>1, <2>2, <2>3 DEF WriterStep, Acquire, AcquireFails,
                Release, ReadState, ReadWatermark, Append, CompactTypes,
                compaction, request, locals
<1>2. ASSUME NEW t \in Tasks, CompactionStep(t) PROVE CompactTypes'
    <2> USE <1>0
    <2>1. Respond(t, "ok") \/ Reject(t) \/ Retry(t) => CompactTypes'
        BY RespondTypes, RetryTypes DEF Reject, Answers
    <2>2. CASE CheckLock(t) \/ RevalidateLock(t) \/ CompactionCrash(t)
        BY <2>1, <2>2 DEF CheckLock, RevalidateLock, CompactionCrash, Step,
            CompactTypes, CompactPc, request, locals
    <2>3. CASE HeadPointer(t)
        BY <2>3 DEF HeadPointer, Step, StoreTypes, CompactTypes, CompactPc,
            request
    <2>4. CASE GetPointer(t)
        BY <2>1, <2>4 DEF GetPointer, Step, StoreTypes, CompactTypes,
            CompactPc, request
    <2>5. CASE AllocManifest(t)
        <3> DEFINE free == {id \in ManifestIds : id > prev[t] /\ ~Written(id)}
        <3>1. free # {} /\ next' = [next EXCEPT ![t] = Min(free)]
            BY <2>5 DEF AllocManifest
        <3>2. Min(free) \in ManifestIds
            <4>1. free \subseteq 0..MaxManifest /\ free \subseteq Int
                BY Bounds DEF ManifestIds
            <4>2. IsFiniteSet(free)
                <5>1. IsFiniteSet(0..MaxManifest)
                    BY FS_Interval, Bounds
                <5> HIDE DEF free
                <5> QED  BY <4>1, <5>1, FS_Subset
            <4> QED  BY <3>1, <4>1, <4>2, MinFacts DEF ManifestIds
        <3> HIDE DEF free
        <3> QED  BY <2>5, <3>1, <3>2 DEF AllocManifest, Step, CompactTypes,
                    CompactPc, request
    <2>6. CASE WriteSnapshot(t) \/ PutManifest(t) \/ PublishPointer(t)
        BY <2>1, <2>6 DEF WriteSnapshot, PutManifest, PublishPointer,
            MovePointer, Step, CompactTypes, CompactPc, request, locals
    <2> QED  BY <1>2, <2>2, <2>3, <2>4, <2>5, <2>6 DEF CompactionStep
<1> QED  BY <1>0, <1>1, <1>2 DEF Next, LeaseLapses, GrantWasted,
            FindOldSnapshots, DeletePrefix, CompactTypes, compaction, request,
            locals

LEMMA StoreTypeNext ==
    ASSUME CompactInv, Next
    PROVE  StoreTypes'
<1>0. CompactTypes /\ StoreTypes /\ TypeOK
    BY TypeParts DEF CompactInv
<1>1. ASSUME NEW t \in Tasks, WriterStep(t) PROVE StoreTypes'
    <2>1. CASE Append(t)
        <3>1. ledger' \in [EventIds -> Writers \cup {NoTask}]
            BY <1>0, <2>1 DEF Append, StoreTypes, CompactInv, OnlyWriters
        <3> QED  BY <1>0, <2>1, <3>1 DEF Append, StoreTypes
    <2> QED  BY <1>0, <1>1, <2>1 DEF WriterStep, Acquire, AcquireFails,
                SyncCompact, Response, Timeout, Release, WriterCrash,
                ReadState, ReadWatermark, StoreTypes, storage
<1>2. ASSUME NEW t \in Tasks, CompactionStep(t) PROVE StoreTypes'
    <2>1. CASE WriteSnapshot(t)
        <3>1. SnapshotDir(t) \in
                [version : Nat, id : ManifestIds, by : Tasks \cup {NoTask}]
            BY <1>0, <2>1 DEF WriteSnapshot, SnapshotDir, CompactInv, TaskInv,
                HasPrev, StoreTypes, CompactTypes, Manifests
        <3> QED  BY <1>0, <2>1, <3>1 DEF WriteSnapshot, StoreTypes
    <2>2. CASE PutManifest(t)
        <3>1. NextManifest(t) \in Manifests /\ next[t] \in ManifestIds
            BY <1>0, <2>2, NextFacts DEF PutManifest, CompactInv, HasPrev,
                CompactTypes
        <3> QED  BY <1>0, <2>2, <3>1 DEF PutManifest, StoreTypes
    <2>3. CASE PublishPointer(t)
        <3>1. pointer' \in [version : Nat, epoch : Nat, manifest : ManifestIds]
            BY <1>0, <2>3 DEF PublishPointer, MovePointer, StoreTypes,
                CompactTypes
        <3> QED  BY <1>0, <2>3, <3>1 DEF PublishPointer, StoreTypes
    <2> QED  BY <1>0, <1>2, <2>1, <2>2, <2>3 DEF CompactionStep, CheckLock,
                HeadPointer, GetPointer, AllocManifest, RevalidateLock,
                CompactionCrash, StoreTypes, storage
<1>3. CASE FindOldSnapshots
    <2>1. \A d \in snapshots : d.version \in Nat
        BY <1>0 DEF StoreTypes
    <2> DEFINE listed == {d.version : d \in snapshots}
    <2>2. doomed' \subseteq listed
        BY <1>3 DEF FindOldSnapshots
    <2>3. doomed' \subseteq Nat
        BY <2>1, <2>2
    <2> QED  BY <1>0, <1>3, <2>3 DEF FindOldSnapshots, StoreTypes, storage
<1>4. CASE DeletePrefix
    BY <1>0, <1>4 DEF DeletePrefix, StoreTypes
<1> QED  BY <1>0, <1>1, <1>2, <1>3, <1>4 DEF Next, LeaseLapses, GrantWasted,
            StoreTypes, storage

----------------------------------------------------------------------------
(* The storage only ever grows, and a publication that succeeds moves the  *)
(* pointer to the manifest the compaction wrote on top of the current one. *)
Publishes(t) ==
    /\ cpc[t] = "publish" /\ pointer.version = cas[t]
    /\ pointer' = [version |-> pointer.version + 1, epoch |-> tok[t],
                   manifest |-> next[t]]
    /\ UNCHANGED <<manifests, snapshots, ledger>>
    /\ Respond(t, "ok")

LEMMA KeepsNext ==
    ASSUME CompactInv, Next
    PROVE  Keeps /\ (pointer' = pointer \/ \E t \in Tasks : Publishes(t))
<1>0. CompactTypes /\ StoreTypes /\ TypeOK
    BY TypeParts DEF CompactInv
<1>1. ASSUME NEW t \in Tasks, WriterStep(t) PROVE Keeps /\ pointer' = pointer
    BY <1>0, <1>1 DEF WriterStep, Acquire, AcquireFails, SyncCompact, Response,
        Timeout, Release, WriterCrash, ReadState, ReadWatermark, Append,
        StoreTypes, storage, Keeps
<1>2. ASSUME NEW t \in Tasks, CompactionStep(t)
      PROVE  Keeps /\ (pointer' = pointer \/ Publishes(t))
    <2>1. CASE UNCHANGED <<pointer, manifests, ledger>>
        BY <2>1 DEF Keeps
    <2>2. CASE PutManifest(t)
        BY <2>2 DEF PutManifest, Keeps, Written
    <2>3. CASE PublishPointer(t)
        BY <2>3 DEF PublishPointer, MovePointer, Publishes, Keeps
    <2> QED  BY <1>2, <2>1, <2>2, <2>3 DEF CompactionStep, CheckLock,
                HeadPointer, GetPointer, AllocManifest, WriteSnapshot,
                RevalidateLock, CompactionCrash, storage
<1> QED  BY <1>1, <1>2 DEF Next, LeaseLapses, GrantWasted, FindOldSnapshots,
            DeletePrefix, storage, Keeps

LEMMA StoreInvNext ==
    ASSUME CompactInv, Next
    PROVE  StoreInv'
<1>0. CompactTypes /\ StoreTypes /\ TypeOK /\ Keeps
    BY TypeParts, KeepsNext DEF CompactInv
<1>1. pointer'.manifest \in DOMAIN manifests'
    <2>1. ASSUME NEW t \in Tasks, Publishes(t)
          PROVE  pointer'.manifest \in DOMAIN manifests
        BY <2>1 DEF Publishes, CompactInv, TaskInv, HasWritten
    <2> QED  BY <1>0, <2>1, KeepsNext DEF CompactInv, StoreInv, Keeps
<1>2. \A id \in DOMAIN manifests' : Unique(manifests'[id].state)
    <2>1. ASSUME NEW t \in Tasks, PutManifest(t)
          PROVE  \A id \in DOMAIN manifests' : Unique(manifests'[id].state)
        <3>1. Unique(NextManifest(t).state)
            BY <1>0, <2>1, NextFacts DEF PutManifest, CompactInv, HasPrev
        <3> QED  BY <2>1, <3>1 DEF PutManifest, CompactInv, StoreInv
    <2>2. CASE UNCHANGED manifests
        BY <2>2 DEF CompactInv, StoreInv
    <2>3. UNCHANGED manifests \/ \E t \in Tasks : PutManifest(t)
        <3>1. ASSUME NEW t \in Tasks, WriterStep(t) PROVE UNCHANGED manifests
            BY <3>1 DEF WriterStep, Acquire, AcquireFails, SyncCompact,
                Response, Timeout, Release, WriterCrash, ReadState,
                ReadWatermark, Append, storage
        <3>2. ASSUME NEW t \in Tasks, CompactionStep(t)
              PROVE  UNCHANGED manifests \/ PutManifest(t)
            BY <3>2 DEF CompactionStep, CheckLock, HeadPointer, GetPointer,
                AllocManifest, WriteSnapshot, RevalidateLock, PublishPointer,
                CompactionCrash, storage
        <3> QED  BY <3>1, <3>2 DEF Next, LeaseLapses, GrantWasted,
                    FindOldSnapshots, DeletePrefix, storage
    <2> QED  BY <2>1, <2>2, <2>3
<1> QED  BY <1>1, <1>2 DEF StoreInv

(* What the step of one task does to the compactions.                      *)
LEMMA OthersSame ==
    ASSUME TypeOK, NEW t \in Tasks, WriterStep(t) \/ CompactionStep(t),
           NEW u \in Tasks, u # t
    PROVE  Same(u)
<1>0. CompactTypes
    BY TypeParts
<1>1. Return(t) => Same(u)
    BY <1>0 DEF Return, Same, CompactTypes
<1>2. UNCHANGED <<cpc, request, locals>> => Same(u)
    BY DEF Same, request, locals
<1>3. CASE WriterStep(t)
    BY <1>0, <1>1, <1>2, <1>3 DEF WriterStep, Acquire, AcquireFails,
        SyncCompact, Response, Timeout, Release, WriterCrash, ReadState,
        ReadWatermark, Append, compaction, Same, CompactTypes, locals
<1>4. Retry(t) => Same(u)
    BY <1>0, <1>1 DEF Retry, Reject, Respond, Step, Same, CompactTypes, request
<1>5. CASE CompactionStep(t)
    <2>1. CASE CheckLock(t) \/ RevalidateLock(t) \/ CompactionCrash(t)
               \/ WriteSnapshot(t) \/ PutManifest(t) \/ PublishPointer(t)
        BY <1>0, <1>1, <1>4, <2>1 DEF CheckLock, RevalidateLock,
            CompactionCrash, WriteSnapshot, PutManifest, PublishPointer,
            MovePointer, Reject, Respond, Step, Same, CompactTypes, request,
            locals
    <2>2. CASE HeadPointer(t) \/ GetPointer(t) \/ AllocManifest(t)
        BY <1>0, <1>1, <2>2 DEF HeadPointer, GetPointer, AllocManifest,
            Reject, Respond, Step, Same, CompactTypes, request
    <2> QED  BY <1>5, <2>1, <2>2 DEF CompactionStep
<1> QED  BY <1>3, <1>5

LEMMA TaskStarts ==
    ASSUME TypeOK, Keeps, NEW t \in Tasks, TaskInv(t),
           cpc'[t] \in {"lock", "head"}, events'[t] = events[t]
    PROVE  TaskInv(t)'
<1>1. events[t] \subseteq EventIds
    BY DEF TypeOK
<1> QED  BY <1>1 DEF TaskInv, Keeps, HasHead, HasPrev, HasNext, HasWritten

(* A compaction goes on with what it has, pointer and ledger unchanged.    *)
LEMMA TaskGoesOn ==
    ASSUME TypeOK, NEW t \in Tasks, TaskInv(t), cpc[t] \in HasPrev,
           UNCHANGED <<pointer, ledger, events, tok, cas, prev>>,
           manifests'[prev[t]] = manifests[prev[t]],
           DOMAIN manifests \subseteq DOMAIN manifests',
           cpc'[t] \in HasPrev,
           cpc'[t] \in HasNext => next'[t] > prev[t],
           cpc'[t] \in HasWritten =>
             next'[t] \in DOMAIN manifests' /\ manifests'[next'[t]] = NextManifest(t)
    PROVE  TaskInv(t)'
<1>1. /\ Unapplied(t, manifests[prev[t]])' = Unapplied(t, manifests[prev[t]])
      /\ Applies(t, manifests[prev[t]])' <=> Applies(t, manifests[prev[t]])
    BY DEF Unapplied, Applies
<1>2. NextManifest(t)' = NextManifest(t)
    BY <1>1 DEF NextManifest
<1> QED  BY <1>1, <1>2 DEF TaskInv, HasPrev, HasHead

LEMMA TaskStep ==
    ASSUME CompactInv, Keeps, NEW t \in Tasks,
           WriterStep(t) \/ CompactionStep(t)
    PROVE  TaskInv(t)'
<1>0. /\ CompactTypes /\ StoreTypes /\ TypeOK /\ TaskInv(t)
      /\ pointer.version \in Nat
    BY TypeParts DEF CompactInv, StoreTypes
<1>1. Same(t) \/ Ended(t) => TaskInv(t)'
    BY <1>0, TaskKeeps, TaskEnds
<1>2. CASE WriterStep(t)
    <2>1. CASE SyncCompact(t)
        <3>1. /\ cpc'[t] = "lock" /\ UNCHANGED ledger
              /\ \A e \in events'[t] : ledger[e] # NoTask
            BY <1>0, <2>1 DEF SyncCompact, CompactTypes, storage
        <3> QED  BY <3>1 DEF TaskInv, HasHead, HasPrev, HasNext, HasWritten
    <2>2. CASE WriterCrash(t)
        <3>1. Return(t) => Ended(t)
            BY <1>0 DEF Return, Ended, CompactTypes
        <3> QED  BY <1>1, <2>2, <3>1 DEF WriterCrash, Same, request, locals
    <2> QED  BY <1>1, <1>2, <2>1, <2>2 DEF WriterStep, Acquire, AcquireFails,
                Response, Timeout, Release, ReadState, ReadWatermark, Append,
                Same, compaction, request, locals
<1>3. CASE CompactionStep(t)
    <2>1. Respond(t, "ok") \/ Reject(t) \/ Retry(t) => TaskInv(t)'
        BY <1>0, <1>1, RespondTypes, RetryTypes, TaskStarts DEF Reject, Answers
    <2>2. CASE CheckLock(t)
        <3>1. Step(t, "head") => cpc'[t] = "head"
            BY <1>0 DEF Step, CompactTypes
        <3> QED  BY <1>0, <2>1, <2>2, <3>1, TaskStarts DEF CheckLock, request
    <2>3. CASE HeadPointer(t)
        <3>1. /\ cpc'[t] = "get" /\ cas'[t] = pointer.version
              /\ UNCHANGED <<pointer, events, ledger>>
            BY <1>0, <2>3 DEF HeadPointer, Step, CompactTypes, storage, request
        <3> QED  BY <1>0, <3>1 DEF TaskInv, HasHead, HasPrev, HasNext,
                    HasWritten
    <2>4. CASE GetPointer(t)
        <3>1. CASE /\ ~(tok[t] < pointer.epoch)
                   /\ Unapplied(t, Current) # {} /\ Applies(t, Current)
                   /\ prev' = [prev EXCEPT ![t] = pointer.manifest]
                   /\ Step(t, "alloc")
                   /\ UNCHANGED <<request, attempt, cas, next, reply>>
            <4>1. /\ cpc'[t] = "alloc" /\ prev'[t] = pointer.manifest
                  /\ UNCHANGED <<pointer, manifests, events, ledger, tok, cas>>
                BY <1>0, <2>4, <3>1 DEF GetPointer, Step, CompactTypes,
                    storage, request
            <4>2. /\ Unapplied(t, manifests[prev[t]])' = Unapplied(t, Current)
                  /\ Applies(t, manifests[prev[t]])' <=> Applies(t, Current)
                BY <4>1 DEF Unapplied, Applies, Current
            <4>3. pointer.epoch <= tok[t] /\ pointer.manifest \in DOMAIN manifests
                BY <1>0, <3>1 DEF StoreTypes, CompactTypes, CompactInv, StoreInv
            <4>4. cas[t] <= pointer.version
                BY <1>0, <2>4 DEF GetPointer, TaskInv, HasHead
            <4>5. \A e \in events[t] : ledger[e] # NoTask
                BY <1>0 DEF TaskInv
            <4> QED  BY <3>1, <4>1, <4>2, <4>3, <4>4, <4>5 DEF TaskInv,
                        HasHead, HasPrev, HasNext, HasWritten
        <3> QED  BY <2>1, <2>4, <3>1 DEF GetPointer
    <2>5. CASE AllocManifest(t)
        <3> DEFINE free == {id \in ManifestIds : id > prev[t] /\ ~Written(id)}
        <3>1. free # {} /\ next'[t] = Min(free)
            BY <1>0, <2>5 DEF AllocManifest, CompactTypes
        <3>2. next'[t] > prev[t]
            <4>1. free \subseteq 0..MaxManifest /\ free \subseteq Int
                BY Bounds DEF ManifestIds
            <4>2. IsFiniteSet(free)
                <5>1. IsFiniteSet(0..MaxManifest)
                    BY FS_Interval, Bounds
                <5> HIDE DEF free
                <5> QED  BY <4>1, <5>1, FS_Subset
            <4>3. Min(free) \in free
                BY <3>1, <4>1, <4>2, MinFacts
            <4> QED  BY <3>1, <4>3
        <3>3. /\ cpc[t] = "alloc" /\ cpc'[t] = "snapshot"
              /\ UNCHANGED <<pointer, manifests, ledger, events, tok, cas, prev>>
            BY <1>0, <2>5 DEF AllocManifest, Step, CompactTypes, storage,
                request
        <3> QED  BY <1>0, <3>2, <3>3, TaskGoesOn DEF HasPrev, HasWritten
    <2>6. CASE WriteSnapshot(t) \/ RevalidateLock(t)
        <3>1. CASE /\ cpc[t] \in HasPrev /\ cpc'[t] \in HasPrev
                   /\ cpc'[t] \in HasNext => cpc[t] \in HasNext
                   /\ cpc'[t] \in HasWritten => cpc[t] \in HasWritten
                   /\ UNCHANGED <<pointer, manifests, ledger, request, locals>>
            <4>1. UNCHANGED <<pointer, manifests, ledger, events, tok, cas,
                              prev, next>>
                BY <3>1 DEF request, locals
            <4>2. /\ cpc'[t] \in HasNext => next'[t] > prev[t]
                  /\ cpc'[t] \in HasWritten =>
                       /\ next'[t] \in DOMAIN manifests'
                       /\ manifests'[next'[t]] = NextManifest(t)
                BY <1>0, <3>1, <4>1 DEF TaskInv
            <4> QED  BY <1>0, <3>1, <4>1, <4>2, TaskGoesOn
        <3> QED  BY <1>0, <2>1, <2>6, <3>1 DEF WriteSnapshot, RevalidateLock,
                    Step, CompactTypes, storage, HasPrev, HasNext, HasWritten
    <2>7. CASE PutManifest(t)
        <3>1. CASE /\ ~Written(next[t]) /\ Step(t, "revalidate")
                   /\ manifests' = [id \in DOMAIN manifests \cup {next[t]} |->
                              IF id = next[t] THEN NextManifest(t)
                              ELSE manifests[id]]
                   /\ UNCHANGED <<request, locals, reply>>
            <4>1. /\ cpc[t] = "put" /\ cpc'[t] = "revalidate"
                  /\ UNCHANGED <<pointer, ledger, events, tok, cas, prev, next>>
                BY <1>0, <2>7, <3>1 DEF PutManifest, Step, CompactTypes,
                    request, locals
            <4>2. /\ prev[t] \in DOMAIN manifests
                  /\ manifests'[prev[t]] = manifests[prev[t]]
                  /\ next[t] > prev[t]
                BY <1>0, <3>1, <4>1 DEF TaskInv, HasPrev, HasNext, Keeps
            <4>3. /\ next[t] \in DOMAIN manifests'
                  /\ manifests'[next[t]] = NextManifest(t)
                BY <3>1
            <4>4. DOMAIN manifests \subseteq DOMAIN manifests'
                BY <3>1
            <4> QED  BY <1>0, <4>1, <4>2, <4>3, <4>4, TaskGoesOn DEF HasPrev
        <3> QED  BY <2>1, <2>7, <3>1 DEF PutManifest
    <2>8. CASE PublishPointer(t) \/ CompactionCrash(t)
        BY <2>1, <2>8 DEF PublishPointer, MovePointer, CompactionCrash
    <2> QED  BY <1>3, <2>2, <2>3, <2>4, <2>5, <2>6, <2>7, <2>8
             DEF CompactionStep
<1> QED  BY <1>2, <1>3

----------------------------------------------------------------------------
LEMMA OnlyWritersNext ==
    ASSUME TypeOK, OnlyWriters, Next
    PROVE  OnlyWriters'
<1>0. pc \in [Tasks -> WriterPc]
    BY DEF TypeOK
<1>1. ASSUME NEW t \in Tasks, WriterStep(t) PROVE OnlyWriters'
    BY <1>0, <1>1 DEF OnlyWriters, WriterStep, Acquire, AcquireFails,
        SyncCompact, Response, Timeout, Release, WriterCrash, ReadState,
        ReadWatermark, Append, Goto
<1>2. ASSUME NEW t \in Tasks, CompactionStep(t) PROVE UNCHANGED pc
    BY <1>2 DEF CompactionStep, CheckLock, HeadPointer, GetPointer,
        AllocManifest, WriteSnapshot, PutManifest, RevalidateLock,
        PublishPointer, CompactionCrash, writer
<1> QED  BY <1>1, <1>2 DEF Next, LeaseLapses, GrantWasted, FindOldSnapshots,
            DeletePrefix, writer, OnlyWriters

LEMMA CompactStep == CompactInv /\ [Next]_vars => CompactInv'
<1>1. ASSUME CompactInv, Next PROVE CompactInv'
    <2>0. TypeOK /\ OnlyWriters /\ StoreInv /\ LockTypeOK
        BY <1>1, TypeParts DEF CompactInv
    <2>1. TypeOK'
        <3>1. LockTypeOK' /\ StoreTypes' /\ TaskTypes' /\ CompactTypes'
            BY <1>1, <2>0, LockTypeNext, StoreTypeNext, TaskTypeNext,
               CompactTypeNext
        <3> QED  BY <3>1 DEF TypeOK, StoreTypes, TaskTypes, CompactTypes
    <2>2. Keeps
        BY <1>1, KeepsNext
    <2>3. ASSUME NEW t \in Tasks, WriterStep(t) \/ CompactionStep(t),
                 NEW u \in Tasks
          PROVE  TaskInv(u)'
        <3>1. CASE u = t
            BY <1>1, <2>2, <2>3, <3>1, TaskStep
        <3>2. CASE u # t
            BY <1>1, <2>0, <2>2, <2>3, <3>2, OthersSame, TaskKeeps
               DEF CompactInv
        <3> QED  BY <3>1, <3>2
    <2>4. ASSUME LeaseLapses \/ GrantWasted \/ FindOldSnapshots \/ DeletePrefix,
                 NEW u \in Tasks
          PROVE  TaskInv(u)'
        <3>1. Same(u)
            BY <2>4 DEF LeaseLapses, GrantWasted, FindOldSnapshots,
                DeletePrefix, Same, request, compaction, locals
        <3> QED  BY <1>1, <2>0, <2>2, <3>1, TaskKeeps DEF CompactInv
    <2>5. \A u \in Tasks : TaskInv(u)'
        BY <1>1, <2>3, <2>4 DEF Next
    <2> QED  BY <1>1, <2>0, <2>1, <2>5, StoreInvNext, OnlyWritersNext
             DEF CompactInv
<1>2. ASSUME CompactInv, UNCHANGED vars PROVE CompactInv'
    <2>1. /\ UNCHANGED <<token, live, guard>>
          /\ UNCHANGED <<pointer, manifests, snapshots, ledger, doomed>>
          /\ UNCHANGED <<lastId, pc, eid, answer, crashes>>
          /\ UNCHANGED <<cpc, events, tok, attempt, cas, prev, next, reply>>
        BY <1>2 DEF vars, lockVars, storage, writer, request, compaction, locals
    <2>2. LockTypeOK' /\ StoreTypes' /\ TaskTypes' /\ CompactTypes'
        BY <1>2, <2>1, TypeParts DEF CompactInv, LockTypeOK, StoreTypes,
            TaskTypes, CompactTypes
    <2>3. TypeOK'
        BY <2>2 DEF TypeOK, StoreTypes, TaskTypes, CompactTypes
    <2>4. OnlyWriters' /\ StoreInv'
        BY <1>2, <2>1 DEF CompactInv, OnlyWriters, StoreInv
    <2>5. ASSUME NEW u \in Tasks PROVE TaskInv(u)'
        <3>1. Keeps /\ Same(u)
            BY <2>1 DEF Keeps, Same
        <3> QED  BY <1>2, <3>1, TaskKeeps DEF CompactInv
    <2> QED  BY <2>3, <2>4, <2>5 DEF CompactInv
<1> QED  BY <1>1, <1>2

LEMMA EarlierFacts ==
    ASSUME NEW id \in 0..MaxManifest
    PROVE  /\ Earlier(id) \in Manifests
           /\ Earlier(id).state = {} /\ Earlier(id).version = id
           /\ Earlier(id).watermark = 0 /\ Earlier(id).by = NoTask
<1>1. Max({0, id - 1}) \in {0, id - 1} /\ Max({0, id - 1}) >= 0
    <2>1. IsFiniteSet({0} \cup {id - 1}) /\ {0} \cup {id - 1} = {0, id - 1}
        BY FS_Singleton, FS_AddElement
    <2>2. {0, id - 1} \subseteq Int
        BY Bounds
    <2> QED  BY <2>1, <2>2, MaxFacts
<1>2. Max({0, id - 1}) \in ManifestIds
    BY <1>1, Bounds DEF ManifestIds
<1> QED  BY <1>2, Bounds DEF Earlier, Manifests

LEMMA CompactInit == Init => CompactInv
<1> SUFFICES ASSUME Init PROVE CompactInv
    OBVIOUS
<1>1. LockTypeOK
    BY DEF Init, LockInit, LockTypeOK
<1>2. StoreTypes
    <2>1. pointer \in [version : Nat, epoch : Nat, manifest : ManifestIds]
        BY Bounds DEF Init, ManifestIds
    <2>2. /\ DOMAIN manifests = 0..Before /\ 0..Before \subseteq ManifestIds
          /\ \A id \in 0..Before : manifests[id] = Earlier(id)
        BY Bounds DEF Init, ManifestIds
    <2>3. \A id \in 0..Before : manifests[id] \in Manifests
        BY <2>2, EarlierFacts DEF ManifestIds
    <2>4. snapshots \subseteq
            [version : Nat, id : ManifestIds, by : Tasks \cup {NoTask}]
        BY Bounds DEF Init, ManifestIds
    <2>5. doomed \subseteq Nat /\ ledger \in [EventIds -> Writers \cup {NoTask}]
        BY DEF Init
    <2> QED  BY <2>1, <2>2, <2>3, <2>4, <2>5 DEF StoreTypes
<1>3. TaskTypes
    BY Bounds DEF Init, TaskTypes, WriterPc, Answers
<1>4. CompactTypes
    BY Bounds DEF Init, CompactTypes, CompactPc, Answers, ManifestIds
<1>5. StoreInv
    <2>1. DOMAIN manifests = 0..Before /\ pointer.manifest = Before
        BY DEF Init
    <2>2. \A id \in 0..Before : manifests[id].state = {}
        BY Bounds, EarlierFacts DEF Init
    <2>3. Before \in 0..Before
        BY Bounds
    <2> QED  BY <2>1, <2>2, <2>3 DEF StoreInv, Unique
<1>6. OnlyWriters /\ \A t \in Tasks : TaskInv(t)
    BY DEF Init, OnlyWriters, TaskInv, HasHead, HasPrev, HasNext, HasWritten
<1> QED  BY <1>1, <1>2, <1>3, <1>4, <1>5, <1>6, TypeParts DEF CompactInv

----------------------------------------------------------------------------
(* A publication that succeeds puts a successor of the current manifest in *)
(* its place.                                                              *)
LEMMA PublishFacts ==
    ASSUME CompactInv, NEW t \in Tasks, Publishes(t)
    PROVE  LET m == manifests[next[t]]
           IN  /\ pointer'.manifest = next[t] /\ manifests'[next[t]] = m
               /\ Current' = m /\ m = NextManifest(t)
               /\ prev[t] = pointer.manifest
               /\ pointer'.epoch = tok[t] /\ pointer.epoch <= tok[t]
               /\ pointer'.version = pointer.version + 1
               /\ next[t] > pointer.manifest
               /\ m.parent = pointer.manifest
               /\ m.version = Current.version + 1
               /\ Current.state \subseteq m.state
               /\ m.epoch = tok[t] /\ m.by = t
               /\ m.watermark \in events[t]
               /\ ledger[m.watermark] \in m.state
<1>1. /\ cpc[t] = "publish" /\ pointer.version = cas[t] /\ TypeOK /\ TaskInv(t)
      /\ pointer'.manifest = next[t] /\ pointer'.epoch = tok[t]
      /\ pointer'.version = pointer.version + 1 /\ manifests' = manifests
    BY DEF Publishes, CompactInv
<1>2. /\ prev[t] = pointer.manifest /\ pointer.epoch <= tok[t]
      /\ next[t] > prev[t] /\ manifests[next[t]] = NextManifest(t)
    BY <1>1 DEF TaskInv, HasPrev, HasNext, HasWritten
<1>3. /\ manifests[prev[t]].state \subseteq NextManifest(t).state
      /\ NextManifest(t).watermark \in events[t]
      /\ ledger[NextManifest(t).watermark] \in NextManifest(t).state
      /\ NextManifest(t).version = manifests[prev[t]].version + 1
      /\ NextManifest(t).epoch = tok[t]
      /\ NextManifest(t).parent = prev[t] /\ NextManifest(t).by = t
    BY <1>1, NextFacts DEF HasPrev
<1> QED  BY <1>1, <1>2, <1>3 DEF Current

(* CompactInv is an invariant of every behaviour.                          *)
THEOREM CompactInvariant == Spec => []CompactInv
<1>1. CompactInv /\ [Next]_vars => CompactInv'
    BY CompactStep
<1> QED  BY CompactInit, <1>1, PTL DEF Spec

(* Every variable keeps its type, for any number of writers, deliveries,   *)
(* retries, publications and crashes.                                      *)
THEOREM Tier1Types == Spec => []TypeOK
<1>1. CompactInv => TypeOK
    BY DEF CompactInv
<1> QED  BY <1>1, CompactInvariant, PTL

(* No two catalogs of one name ever become visible: apply_catalog_event    *)
(* checks the names against the manifest that the pointer's                *)
(* compare-and-swap then insists on.                                       *)
THEOREM VisibleNamesUnique == Spec => []NamesUnique
<1>1. CompactInv => NamesUnique
    BY DEF CompactInv, StoreInv, Unique, NamesUnique, Current
<1> QED  BY <1>1, CompactInvariant, PTL

(* The pointer moves only to a successor of the current manifest that      *)
(* keeps everything visible, with an epoch that never decreases, whatever  *)
(* compactions race.                                                       *)
THEOREM HistoryIsLinear == Spec => HistoryLinear
<1>1. ASSUME CompactInv, [Next]_vars
      PROVE  [pointer' # pointer =>
                LET m == manifests'[pointer'.manifest]
                IN  /\ m.parent = pointer.manifest
                    /\ m.version = Current.version + 1
                    /\ Current.state \subseteq m.state
                    /\ pointer'.epoch = m.epoch /\ m.epoch >= pointer.epoch
                    /\ pointer'.manifest > pointer.manifest]_vars
    <2>1. CASE UNCHANGED vars
        BY <2>1
    <2>2. CASE Next
        <3>1. pointer' = pointer \/ \E t \in Tasks : Publishes(t)
            BY <1>1, <2>2, KeepsNext
        <3>2. ASSUME NEW t \in Tasks, Publishes(t)
              PROVE  LET m == manifests'[pointer'.manifest]
                     IN  /\ m.parent = pointer.manifest
                         /\ m.version = Current.version + 1
                         /\ Current.state \subseteq m.state
                         /\ pointer'.epoch = m.epoch
                         /\ m.epoch >= pointer.epoch
                         /\ pointer'.manifest > pointer.manifest
            <4>1. pointer.epoch \in Nat /\ tok[t] \in Nat
                BY <1>1 DEF CompactInv, TypeOK
            <4> QED  BY <1>1, <3>2, <4>1, PublishFacts
        <3> QED  BY <3>1, <3>2
    <2> QED  BY <1>1, <2>1, <2>2
<1> QED  BY <1>1, CompactInvariant, PTL DEF Spec, HistoryLinear

----------------------------------------------------------------------------
(* What a step of a compaction means for the writers: it ends or goes on   *)
(* with its request, passes the lock check only under the current token,   *)
(* and says "ok" only after publishing or with nothing left to apply.      *)
Finds(t) ==
    pointer.epoch <= tok[t] /\ Unapplied(t, Current) = {} /\ pointer' = pointer

LEMMA CompactionMoves ==
    ASSUME TypeOK, NEW t \in Tasks, CompactionStep(t)
    PROVE  /\ UNCHANGED <<token, live, guard, lastId, pc, eid, answer, ledger>>
           /\ cpc[t] # "none"
           /\ \/ cpc'[t] = "none" /\ tok'[t] = 0 /\ events'[t] = {}
              \/ /\ cpc'[t] \notin {"none", "lock"}
                 /\ tok'[t] = tok[t] /\ events'[t] = events[t]
                 /\ cpc[t] = "lock" => token = tok[t]
           /\ \A u \in Tasks \ {t} : reply'[u] = reply[u]
           /\ reply'[t] # reply[t] => pc[t] = "wait"
           /\ reply'[t] = "ok" /\ reply[t] # "ok" => Publishes(t) \/ Finds(t)
<1>0. CompactTypes /\ StoreTypes
    BY TypeParts
<1>1. UNCHANGED <<token, live, guard, lastId, pc, eid, answer, ledger>>
    BY DEF CompactionStep, CheckLock, HeadPointer, GetPointer, AllocManifest,
        WriteSnapshot, PutManifest, RevalidateLock, PublishPointer,
        CompactionCrash, lockVars, storage, writer
<1>2. cpc[t] # "none"
    BY DEF CompactionStep, CheckLock, HeadPointer, GetPointer, AllocManifest,
        WriteSnapshot, PutManifest, RevalidateLock, PublishPointer,
        CompactionCrash
<1> DEFINE Gone == cpc'[t] = "none" /\ tok'[t] = 0 /\ events'[t] = {}
           On == cpc'[t] \notin {"none", "lock"} /\ tok'[t] = tok[t]
                   /\ events'[t] = events[t]
<1>3. ASSUME NEW r \in Answers, Respond(t, r)
      PROVE  /\ Gone /\ \A u \in Tasks \ {t} : reply'[u] = reply[u]
             /\ reply'[t] = IF pc[t] = "wait" THEN r ELSE reply[t]
    BY <1>0, <1>3 DEF Respond, Return, CompactTypes
<1>4. "ok" \in Answers /\ "err" \in Answers
    BY DEF Answers
<1>5. ASSUME Reject(t)
      PROVE  /\ Gone /\ \A u \in Tasks \ {t} : reply'[u] = reply[u]
             /\ reply'[t] # reply[t] => pc[t] = "wait"
             /\ reply'[t] = "ok" => reply[t] = "ok"
    BY <1>3, <1>4, <1>5 DEF Reject
<1>6. ASSUME Retry(t)
      PROVE  /\ Gone \/ On
             /\ reply'[t] # reply[t] => pc[t] = "wait"
             /\ reply'[t] = "ok" => reply[t] = "ok"
             /\ \A u \in Tasks \ {t} : reply'[u] = reply[u]
    BY <1>0, <1>5, <1>6 DEF Retry, Step, CompactTypes, request
<1>7. ASSUME NEW l, Step(t, l), l \notin {"none", "lock"},
             UNCHANGED <<request, reply>>
      PROVE  On /\ UNCHANGED reply
    BY <1>0, <1>7 DEF Step, CompactTypes, request
<1> HIDE DEF Gone, On
<1>8. CASE CheckLock(t)
    <2>1. CASE TokenIsCurrent(t) /\ Step(t, "head")
               /\ UNCHANGED <<request, locals, reply>>
        BY <1>1, <1>2, <1>7, <2>1 DEF TokenIsCurrent, On
    <2>2. CASE Reject(t)
        BY <1>1, <1>2, <1>5, <2>2 DEF Gone
    <2> QED  BY <1>8, <2>1, <2>2 DEF CheckLock
<1>9. CASE GetPointer(t)
    <2>1. CASE Reject(t)
        BY <1>1, <1>2, <1>5, <2>1 DEF Gone
    <2>2. CASE ~(tok[t] < pointer.epoch) /\ Unapplied(t, Current) = {}
               /\ Respond(t, "ok")
        <3>1. Finds(t)
            BY <1>0, <1>9, <2>2 DEF Finds, GetPointer, storage, StoreTypes,
                CompactTypes
        <3> QED  BY <1>1, <1>2, <1>3, <1>4, <2>2, <3>1 DEF Gone
    <2>3. CASE Step(t, "alloc") /\ UNCHANGED <<request, reply>>
        BY <1>1, <1>2, <1>7, <1>9, <2>3 DEF GetPointer, On
    <2> QED  BY <1>9, <2>1, <2>2, <2>3 DEF GetPointer
<1>10. CASE PublishPointer(t)
    <2>1. CASE pointer.version = cas[t] /\ MovePointer(t)
        <3>1. Publishes(t)
            BY <1>10, <2>1 DEF PublishPointer, MovePointer, Publishes
        <3> QED  BY <1>1, <1>2, <1>3, <1>4, <2>1, <3>1 DEF MovePointer, Gone
    <2>2. CASE Retry(t)
        BY <1>1, <1>2, <1>6, <1>10, <2>2 DEF PublishPointer, Gone, On
    <2> QED  BY <1>10, <2>1, <2>2 DEF PublishPointer
<1>11. CASE \/ HeadPointer(t) \/ AllocManifest(t) \/ WriteSnapshot(t)
            \/ PutManifest(t) \/ RevalidateLock(t)
    <2>1. \/ Reject(t) \/ Retry(t)
          \/ On /\ UNCHANGED reply
        BY <1>7, <1>11 DEF HeadPointer, AllocManifest, WriteSnapshot,
            PutManifest, RevalidateLock, request
    <2>2. cpc[t] # "lock"
        BY <1>11 DEF HeadPointer, AllocManifest, WriteSnapshot, PutManifest,
            RevalidateLock
    <2> QED  BY <1>1, <1>2, <1>5, <1>6, <2>1, <2>2 DEF Gone, On
<1>12. CASE CompactionCrash(t)
    BY <1>1, <1>2, <1>5, <1>12 DEF CompactionCrash, Gone
<1> QED  BY <1>8, <1>9, <1>10, <1>11, <1>12 DEF CompactionStep

----------------------------------------------------------------------------
LEMMA TokenStep == CompactInv /\ TokenInv /\ [Next]_vars => TokenInv'
<1> SUFFICES ASSUME CompactInv, TokenInv, [Next]_vars PROVE TokenInv'
    OBVIOUS
<1>0. /\ TypeOK /\ token \in Nat
      /\ guard \in [Tasks -> Nat] /\ tok \in [Tasks -> Nat]
      /\ pc \in [Tasks -> WriterPc] /\ cpc \in [Tasks -> CompactPc]
      /\ reply \in [Tasks -> Answers]
    BY DEF CompactInv, TypeOK, LockTypeOK
<1>1. ASSUME NEW t \in Tasks, CompactionStep(t) PROVE TokenInv'
    <2>1. /\ UNCHANGED <<token, guard, pc>> /\ cpc[t] # "none"
          /\ \/ cpc'[t] = "none" /\ tok'[t] = 0
             \/ cpc'[t] # "none" /\ tok'[t] = tok[t]
          /\ \A u \in Tasks \ {t} : reply'[u] = reply[u]
          /\ reply'[t] # reply[t] => pc[t] = "wait"
        BY <1>0, <1>1, CompactionMoves
    <2>2. \A u \in Tasks \ {t} : cpc'[u] = cpc[u] /\ tok'[u] = tok[u]
        BY <1>0, <1>1, OthersSame DEF Same
    <2>3. \A u \in Tasks : guard[u] \in Nat /\ tok[u] \in Nat
        BY <1>0
    <2> QED  BY <1>0, <2>1, <2>2, <2>3 DEF TokenInv
<1>2. ASSUME NEW t \in Tasks, WriterStep(t) PROVE TokenInv'
    <2> USE <1>0 DEF TokenInv, Goto, WriterPc, compaction, request, locals
    <2>1. CASE Acquire(t)
        BY <2>1 DEF Acquire, Grant
    <2>2. CASE AcquireFails(t) \/ ReadState(t) \/ ReadWatermark(t) \/ Append(t)
        BY <2>2 DEF AcquireFails, ReadState, ReadWatermark, Append, lockVars
    <2>3. CASE SyncCompact(t)
        BY <2>3 DEF SyncCompact, lockVars
    <2>4. CASE Response(t) \/ Timeout(t)
        BY <2>4 DEF Response, Timeout, lockVars
    <2>5. CASE Release(t)
        BY <2>5 DEF Release, GiveUp
    <2>6. CASE WriterCrash(t)
        BY <2>6 DEF WriterCrash, GiveUp, Return
    <2> QED  BY <1>2, <2>1, <2>2, <2>3, <2>4, <2>5, <2>6 DEF WriterStep
<1>3. CASE LeaseLapses \/ FindOldSnapshots \/ DeletePrefix \/ UNCHANGED vars
    <2>1. UNCHANGED <<token, guard, tok, pc, cpc, reply>>
        BY <1>3 DEF LeaseLapses, Lapse, FindOldSnapshots, DeletePrefix, vars,
            lockVars, writer, request, compaction
    <2> QED  BY <2>1 DEF TokenInv
<1>4. CASE GrantWasted
    BY <1>0, <1>4 DEF GrantWasted, Waste, TokenInv, writer, request, compaction
<1> QED  BY <1>1, <1>2, <1>3, <1>4 DEF Next

LEMMA TokenInit == Init => TokenInv
    BY DEF Init, LockInit, TokenInv

----------------------------------------------------------------------------
(* The manifests after a step are those of before and at most the          *)
(* successor some compaction made.                                         *)
LEMMA NewManifest ==
    ASSUME CompactInv, Next, NEW id \in DOMAIN manifests'
    PROVE  \/ id \in DOMAIN manifests /\ manifests'[id] = manifests[id]
           \/ \E t \in Tasks : /\ manifests'[id] = NextManifest(t)
                               /\ NextManifest(t).watermark \in events[t]
<1>1. ASSUME NEW t \in Tasks, WriterStep(t) PROVE UNCHANGED manifests
    BY <1>1 DEF WriterStep, Acquire, AcquireFails, SyncCompact, Response,
        Timeout, Release, WriterCrash, ReadState, ReadWatermark, Append, storage
<1>2. ASSUME NEW t \in Tasks, CompactionStep(t)
      PROVE  UNCHANGED manifests \/ PutManifest(t)
    BY <1>2 DEF CompactionStep, CheckLock, HeadPointer, GetPointer,
        AllocManifest, WriteSnapshot, RevalidateLock, PublishPointer,
        CompactionCrash, storage
<1>3. ASSUME NEW t \in Tasks, PutManifest(t)
      PROVE  \/ id \in DOMAIN manifests /\ manifests'[id] = manifests[id]
             \/ /\ manifests'[id] = NextManifest(t)
                /\ NextManifest(t).watermark \in events[t]
    <2>1. NextManifest(t).watermark \in events[t]
        BY <1>3, NextFacts DEF PutManifest, CompactInv, HasPrev
    <2> QED  BY <1>3, <2>1 DEF PutManifest
<1> QED  BY <1>1, <1>2, <1>3 DEF Next, LeaseLapses, GrantWasted,
            FindOldSnapshots, DeletePrefix, storage

LEMMA IdStep ==
    CompactInv /\ TokenInv /\ IdInv /\ [Next]_vars => IdInv'
<1> SUFFICES ASSUME CompactInv, TokenInv, IdInv, [Next]_vars PROVE IdInv'
    OBVIOUS
<1>0. /\ TypeOK /\ TaskTypes /\ CompactTypes /\ StoreTypes
      /\ lastId \in Int /\ MaxId \in Nat
      /\ eid \in [Tasks -> 0..MaxId] /\ pc \in [Tasks -> WriterPc]
      /\ ledger \in [EventIds -> Writers \cup {NoTask}]
      /\ events \in [Tasks -> SUBSET EventIds]
      /\ Writers \subseteq Tasks /\ NoTask \notin Writers
    BY TypeParts, Bounds DEF CompactInv, TypeOK
<1>1. ASSUME NEW t \in Tasks, events[t] \subseteq EventIds
      PROVE  \A e \in events[t] : e <= lastId
    BY <1>1 DEF CompactInv, TaskInv, IdInv
<1>2. CASE Next
    <2>1. /\ lastId' \in Int /\ lastId <= lastId'
          /\ \A t \in Tasks : eid'[t] = eid[t] \/ eid'[t] <= lastId'
          /\ UNCHANGED <<lastId, eid>> \/
               \E t \in Tasks : ReadWatermark(t) \/ Append(t)
        <3>1. ASSUME NEW t \in Tasks, WriterStep(t)
              PROVE  \/ UNCHANGED <<lastId, eid>>
                     \/ ReadWatermark(t)
                     \/ Append(t)
            BY <3>1 DEF WriterStep, Acquire, AcquireFails, SyncCompact,
                Response, Timeout, Release, WriterCrash, ReadState
        <3>2. ASSUME NEW t \in Tasks, CompactionStep(t)
              PROVE  UNCHANGED <<lastId, eid>>
            BY <1>0, <3>2, CompactionMoves
        <3>3. \/ UNCHANGED <<lastId, eid>>
              \/ \E t \in Tasks : ReadWatermark(t) \/ Append(t)
            BY <1>2, <3>1, <3>2 DEF Next, LeaseLapses, GrantWasted,
                FindOldSnapshots, DeletePrefix, writer
        <3>4. ASSUME NEW t \in Tasks, NEW floor \in 0..MaxId,
                     Generate(t, floor)
              PROVE  /\ lastId' \in Int /\ lastId <= lastId'
                     /\ \A u \in Tasks : eid'[u] = eid[u] \/ eid'[u] <= lastId'
            <4>1. /\ lastId' \in 0..MaxId /\ lastId' >= lastId
                  /\ eid'[t] \in EventIds
                  /\ eid' = [eid EXCEPT ![t] = eid'[t]] /\ lastId' >= eid'[t]
                BY <1>0, <3>4, GenerateTypes
            <4> QED  BY <1>0, <4>1 DEF EventIds
        <3>5. Current.watermark \in 0..MaxId
            BY <1>0 DEF CompactInv, StoreInv, StoreTypes, Manifests, Current
        <3>6. ASSUME NEW t \in Tasks, ReadWatermark(t) \/ Append(t)
              PROVE  /\ lastId' \in Int /\ lastId <= lastId'
                     /\ \A u \in Tasks : eid'[u] = eid[u] \/ eid'[u] <= lastId'
            <4>1. eid[t] \in 0..MaxId
                BY <1>0
            <4> QED  BY <1>0, <3>4, <3>5, <3>6, <4>1 DEF ReadWatermark, Append
        <3> QED  BY <1>0, <3>3, <3>6
    <2>2. \A t \in Writers : eid'[t] <= lastId'
        BY <1>0, <2>1 DEF IdInv
    <2>3. \A id \in DOMAIN manifests' : manifests'[id].watermark <= lastId'
        <3> TAKE id \in DOMAIN manifests'
        <3>1. CASE id \in DOMAIN manifests /\ manifests'[id] = manifests[id]
            <4>1. manifests[id].watermark \in Int
                BY <1>0, <3>1 DEF StoreTypes, Manifests
            <4> QED  BY <1>0, <2>1, <3>1, <4>1 DEF IdInv
        <3>2. ASSUME NEW t \in Tasks, manifests'[id] = NextManifest(t),
                     NextManifest(t).watermark \in events[t]
              PROVE  manifests'[id].watermark <= lastId'
            <4>1. /\ NextManifest(t).watermark \in Int
                  /\ NextManifest(t).watermark <= lastId
                BY <1>0, <1>1, <3>2 DEF EventIds
            <4> QED  BY <1>0, <2>1, <3>2, <4>1
        <3> QED  BY <1>2, <3>1, <3>2, NewManifest
    <2>4. \A e \in EventIds : ledger'[e] # NoTask => e <= lastId'
        <3>1. UNCHANGED ledger \/ \E t \in Tasks : Append(t) /\ UNCHANGED lastId
                /\ pc[t] = "append" /\ ledger' = [ledger EXCEPT ![eid[t]] = t]
            <4>1. ASSUME NEW t \in Tasks, WriterStep(t)
                  PROVE  \/ UNCHANGED ledger
                         \/ /\ Append(t) /\ UNCHANGED lastId
                            /\ pc[t] = "append"
                            /\ ledger' = [ledger EXCEPT ![eid[t]] = t]
                BY <4>1 DEF WriterStep, Acquire, AcquireFails, SyncCompact,
                    Response, Timeout, Release, WriterCrash, ReadState,
                    ReadWatermark, Append, storage
            <4>2. ASSUME NEW t \in Tasks, CompactionStep(t)
                  PROVE  UNCHANGED ledger
                BY <1>0, <4>2, CompactionMoves
            <4> QED  BY <1>2, <4>1, <4>2 DEF Next, LeaseLapses, GrantWasted,
                        FindOldSnapshots, DeletePrefix, storage
        <3>2. \A e \in EventIds : e \in Int
            BY <1>0 DEF EventIds
        <3>3. ASSUME NEW t \in Tasks, pc[t] = "append", UNCHANGED lastId,
                     ledger' = [ledger EXCEPT ![eid[t]] = t]
              PROVE  \A e \in EventIds : ledger'[e] # NoTask => e <= lastId'
            <4>1. eid[t] <= lastId
                BY <3>3 DEF CompactInv, OnlyWriters, IdInv
            <4> QED  BY <1>0, <3>2, <3>3, <4>1 DEF IdInv
        <3> QED  BY <1>0, <2>1, <3>1, <3>2, <3>3 DEF IdInv
    <2>5. ASSUME NEW t \in Writers
          PROVE  /\ pc'[t] = "append" => eid'[t] \in EventIds
                 /\ pc'[t] \in {"rpc", "wait"} =>
                      eid'[t] \in EventIds /\ ledger'[eid'[t]] = t
                 /\ pc'[t] = "wait" /\ cpc'[t] # "none" =>
                      events'[t] = {eid'[t]}
        <3>0. t \in Tasks
            BY <1>0
        <3>1. ASSUME UNCHANGED <<pc, eid>>,
                     \/ cpc'[t] = "none"
                     \/ events'[t] = events[t] /\ cpc[t] # "none"
                     \/ events'[t] = events[t] /\ cpc'[t] = cpc[t]
              PROVE  /\ pc'[t] = "append" => eid'[t] \in EventIds
                     /\ pc'[t] \in {"rpc", "wait"} =>
                          eid'[t] \in EventIds /\ ledger'[eid'[t]] = t
                     /\ pc'[t] = "wait" /\ cpc'[t] # "none" =>
                      events'[t] = {eid'[t]}
            BY <1>0, <1>2, <3>1, KeepsNext DEF Keeps, IdInv
        <3>2. ASSUME NEW u \in Tasks, CompactionStep(u)
              PROVE  /\ UNCHANGED <<pc, eid>>
                     /\ \/ cpc'[t] = "none"
                        \/ events'[t] = events[t] /\ cpc[t] # "none"
                        \/ events'[t] = events[t] /\ cpc'[t] = cpc[t]
            BY <1>0, <3>0, <3>2, CompactionMoves, OthersSame DEF Same
        <3>3. ASSUME LeaseLapses \/ GrantWasted \/ FindOldSnapshots
                     \/ DeletePrefix
              PROVE  UNCHANGED <<pc, eid, events, cpc>>
            BY <3>3 DEF LeaseLapses, GrantWasted, FindOldSnapshots,
                DeletePrefix, writer, request, compaction
        <3>4. ASSUME NEW u \in Tasks, WriterStep(u), u # t
              PROVE  /\ pc'[t] = pc[t] /\ eid'[t] = eid[t]
                     /\ events'[t] = events[t] /\ cpc'[t] = cpc[t]
            <4>1. events'[t] = events[t] /\ cpc'[t] = cpc[t]
                BY <1>0, <3>0, <3>4, OthersSame DEF Same
            <4>2. pc'[t] = pc[t] /\ eid'[t] = eid[t]
                BY <1>0, <3>0, <3>4 DEF WriterStep, Acquire, AcquireFails,
                    SyncCompact, Response, Timeout, Release, WriterCrash,
                    ReadState, ReadWatermark, Append, Goto, Generate
            <4> QED  BY <4>1, <4>2
        <3>5. ASSUME WriterStep(t)
              PROVE  /\ pc'[t] = "append" => eid'[t] \in EventIds
                     /\ pc'[t] \in {"rpc", "wait"} =>
                          eid'[t] \in EventIds /\ ledger'[eid'[t]] = t
                     /\ pc'[t] = "wait" /\ cpc'[t] # "none" =>
                      events'[t] = {eid'[t]}
            <4> USE <1>0, <3>0 DEF Goto, IdInv
            <4>1. CASE ReadWatermark(t)
                <5>1. Current.watermark \in 0..MaxId
                    BY DEF CompactInv, StoreInv, StoreTypes, Manifests, Current
                <5>2. eid'[t] \in EventIds
                    BY <4>1, <5>1, GenerateTypes DEF ReadWatermark
                <5> QED  BY <4>1, <5>2 DEF ReadWatermark
            <4>2. CASE Append(t)
                <5>1. CASE ledger' = [ledger EXCEPT ![eid[t]] = t]
                           /\ Goto(t, "rpc") /\ UNCHANGED <<lastId, eid>>
                    BY <4>2, <5>1 DEF Append
                <5>2. CASE Generate(t, eid[t]) /\ UNCHANGED <<ledger, pc>>
                    <6>1. eid'[t] \in EventIds
                        BY <5>2, GenerateTypes
                    <6> QED  BY <4>2, <5>2, <6>1 DEF Append
                <5> QED  BY <4>2, <5>1, <5>2 DEF Append
            <4>3. CASE SyncCompact(t)
                BY <4>3 DEF SyncCompact, storage
            <4> QED  BY <3>5, <4>1, <4>2, <4>3 DEF WriterStep, Acquire,
                        AcquireFails, Response, Timeout, Release, WriterCrash,
                        ReadState
        <3>6. ASSUME NEW u \in Tasks, WriterStep(u), u # t
              PROVE  /\ pc'[t] = "append" => eid'[t] \in EventIds
                     /\ pc'[t] \in {"rpc", "wait"} =>
                          eid'[t] \in EventIds /\ ledger'[eid'[t]] = t
                     /\ pc'[t] = "wait" /\ cpc'[t] # "none" =>
                      events'[t] = {eid'[t]}
            BY <1>0, <1>2, <3>4, <3>6, KeepsNext DEF Keeps, IdInv
        <3> QED  BY <1>2, <3>1, <3>2, <3>3, <3>5, <3>6 DEF Next
    <2> QED  BY <2>2, <2>3, <2>4, <2>5 DEF IdInv
<1>3. CASE UNCHANGED vars
    <2>1. UNCHANGED <<ledger, lastId, manifests, eid, pc, events, cpc>>
        BY <1>3 DEF vars, storage, writer, request, compaction
    <2> QED  BY <2>1 DEF IdInv
<1> QED  BY <1>2, <1>3

LEMMA IdInit == Init => IdInv
<1> SUFFICES ASSUME Init PROVE IdInv
    OBVIOUS
<1>1. \A id \in 0..Before : manifests[id].watermark = 0
    BY Bounds, EarlierFacts DEF Init
<1>2. DOMAIN manifests = 0..Before /\ Writers \subseteq Tasks
    BY Bounds DEF Init
<1>3. \A t \in Tasks : eid[t] = 0 /\ pc[t] = "start"
    BY DEF Init
<1>4. lastId = 0 /\ \A e \in EventIds : ledger[e] = NoTask
    BY DEF Init
<1> QED  BY <1>1, <1>2, <1>3, <1>4 DEF IdInv

----------------------------------------------------------------------------
KnownInv == CompactInv /\ TokenInv /\ IdInv

(* A publication under such a token.                                       *)
LEMMA PublishAhead ==
    ASSUME KnownInv, NEW t \in Writers, Ahead(t), Pending(t),
           NEW u \in Tasks, Publishes(u), tok[u] <= guard[t],
           eid[t] <= Current'.watermark
    PROVE  t \in Current'.state
<1>0. /\ t \in Tasks /\ tok[u] \in Nat /\ guard[t] \in Nat
      /\ eid[t] \in Int /\ events[u] \subseteq EventIds
      /\ cpc[u] = "publish" /\ CompactInv
    BY Bounds DEF KnownInv, CompactInv, TypeOK, LockTypeOK, Publishes
<1>1. /\ Current'.watermark \in events[u]
      /\ ledger[Current'.watermark] \in Current'.state
    BY <1>0, PublishFacts
<1>2. Current'.watermark \in Int
    BY <1>0, <1>1, Bounds DEF EventIds
<1>3. ~(tok[u] < guard[t])
    BY <1>0, <1>1, <1>2 DEF Ahead, PastLock
<1>4. u = t
    BY <1>0, <1>3 DEF KnownInv, TokenInv, Pending
<1>5. pc[t] = "wait"
    BY <1>0, <1>4 DEF KnownInv, TokenInv, Pending
<1>6. Current'.watermark = eid[t] /\ ledger[eid[t]] = t
    BY <1>0, <1>1, <1>4, <1>5 DEF KnownInv, IdInv
<1> QED  BY <1>1, <1>6

LEMMA CurrentGrows ==
    ASSUME CompactInv, Next
    PROVE  /\ Current.state \subseteq Current'.state
           /\ pointer' = pointer => Current' = Current
<1>1. Keeps /\ pointer.manifest \in DOMAIN manifests
    BY KeepsNext DEF CompactInv, StoreInv
<1>2. pointer' = pointer => Current' = Current
    BY <1>1 DEF Keeps, Current
<1> QED  BY <1>2, KeepsNext, PublishFacts

LEMMA AheadKeeps ==
    ASSUME KnownInv, AckInv, NEW t \in Writers, NEW u \in Tasks,
           CompactionStep(u), Next
    PROVE  Ahead(t)'
<1>0. /\ CompactInv /\ TypeOK /\ t \in Tasks /\ Ahead(t)
      /\ tok[u] \in Nat /\ guard[t] \in Nat /\ token \in Nat
      /\ guard[t] <= token
    BY Bounds DEF KnownInv, CompactInv, TypeOK, LockTypeOK, TokenInv, AckInv,
        Ahead
<1>1. UNCHANGED <<token, guard, pc, eid>>
    BY <1>0, CompactionMoves
<1> SUFFICES ASSUME Pending(t)
             PROVE  /\ \A v \in Tasks : PastLock(v)' /\ tok'[v] < guard[t] =>
                         \A e \in events'[v] : e < eid[t]
                    /\ pointer'.epoch <= guard[t]
                         /\ eid[t] <= Current'.watermark => t \in Current'.state
    BY <1>1 DEF Ahead, Pending
<1>2. ASSUME NEW v \in Tasks, PastLock(v)', tok'[v] < guard[t]
      PROVE  \A e \in events'[v] : e < eid[t]
    <2>1. CASE v # u
        <3>1. Same(v)
            BY <1>0, <2>1, OthersSame
        <3> QED  BY <1>0, <1>2, <3>1 DEF Same, PastLock, Ahead
    <2>2. CASE v = u
        <3>1. /\ tok'[u] = tok[u] /\ events'[u] = events[u] /\ cpc[u] # "none"
              /\ cpc[u] = "lock" => token = tok[u]
            BY <1>0, <1>2, <2>2, CompactionMoves DEF PastLock
        <3>2. PastLock(u)
            BY <1>0, <1>2, <2>2, <3>1 DEF PastLock
        <3> QED  BY <1>0, <1>2, <2>2, <3>1, <3>2 DEF Ahead
    <2> QED  BY <2>1, <2>2
<1>3. ASSUME pointer'.epoch <= guard[t], eid[t] <= Current'.watermark
      PROVE  t \in Current'.state
    <2>1. CASE pointer' = pointer
        BY <1>0, <1>3, <2>1, CurrentGrows DEF Ahead
    <2>2. ASSUME NEW v \in Tasks, Publishes(v) PROVE t \in Current'.state
        <3>1. tok[v] <= guard[t]
            BY <1>0, <1>3, <2>2, PublishFacts
        <3> QED  BY <1>0, <1>3, <2>2, <3>1, PublishAhead
    <2> QED  BY <1>0, <2>1, <2>2, KeepsNext
<1> QED  BY <1>2, <1>3

(* The answers after a step of a compaction.                               *)
LEMMA ReplyTrue ==
    ASSUME KnownInv, AckInv, NEW t \in Writers, NEW u \in Tasks,
           CompactionStep(u), Next, reply'[t] = "ok" \/ answer'[t] = "ok"
    PROVE  t \in Current'.state
<1>0. CompactInv /\ TypeOK /\ t \in Tasks /\ Ahead(t)
    BY Bounds DEF KnownInv, CompactInv, AckInv, Ahead
<1>1. CASE reply[t] = "ok" \/ answer[t] = "ok"
    BY <1>0, <1>1, CurrentGrows DEF AckInv
<1>2. CASE ~(reply[t] = "ok" \/ answer[t] = "ok")
    <2>1. /\ u = t /\ cpc[t] # "none" /\ pc[t] = "wait"
          /\ Publishes(t) \/ Finds(t)
        BY <1>0, <1>2, CompactionMoves
    <2>2. /\ tok[t] = guard[t] /\ events[t] = {eid[t]} /\ Pending(t)
          /\ tok[t] \in Nat /\ eid[t] \in EventIds
        BY <1>0, <2>1 DEF KnownInv, TokenInv, IdInv, TypeOK, Pending
    <2>3. CASE Publishes(t)
        <3>1. Current'.watermark = eid[t]
            BY <1>0, <2>2, <2>3, PublishFacts
        <3>2. eid[t] \in Int /\ tok[t] <= guard[t]
            BY <2>2, Bounds DEF EventIds
        <3> QED  BY <1>0, <2>2, <2>3, <3>1, <3>2, PublishAhead
    <2>4. CASE Finds(t)
        <3>1. Current.watermark \in Int /\ eid[t] \in Int
            BY <1>0, <2>2, Bounds DEF CompactInv, StoreInv, TypeOK, Manifests,
                Current, EventIds
        <3>2. eid[t] <= Current.watermark
            BY <2>2, <2>4, <3>1 DEF Finds, Unapplied
        <3> QED  BY <1>0, <2>2, <2>4, <3>2, CurrentGrows DEF Finds, Ahead
    <2> QED  BY <2>1, <2>3, <2>4
<1> QED  BY <1>1, <1>2

(* A writer that generates its id now is ahead of everything.              *)
LEMMA AheadStarts ==
    ASSUME KnownInv, ~SkewedClocks, NEW t \in Writers, NEW floor \in 0..MaxId,
           Generate(t, floor), UNCHANGED <<pointer, manifests, events>>
    PROVE  Ahead(t)'
<1>0. /\ t \in Tasks /\ TaskTypes /\ lastId \in Int /\ CompactInv
      /\ Current.watermark \in Int /\ MaxId \in Nat
    BY Bounds, TypeParts DEF KnownInv, CompactInv, TypeOK, StoreInv, Manifests,
        Current
<1>1. eid'[t] > lastId /\ eid'[t] \in Int
    BY <1>0, GenerateTypes DEF EventIds
<1>2. \A u \in Tasks : \A e \in events[u] : e \in Int /\ e <= lastId
    BY <1>0 DEF KnownInv, CompactInv, TypeOK, TaskInv, IdInv, EventIds
<1>3. Current.watermark <= lastId
    BY <1>0 DEF KnownInv, IdInv, CompactInv, StoreInv, Current
<1>4. Current' = Current
    BY DEF Current
<1>5. ~(eid'[t] <= Current'.watermark)
    BY <1>0, <1>1, <1>3, <1>4
<1>6. \A u \in Tasks : \A e \in events'[u] : e < eid'[t]
    BY <1>0, <1>1, <1>2
<1> QED  BY <1>5, <1>6 DEF Ahead

(* Nothing changes for the writer, and a compaction at most ends.          *)
LEMMA AheadStays ==
    ASSUME KnownInv, AckInv, NEW t \in Writers,
           UNCHANGED <<pointer, manifests>>,
           Pending(t)' => Pending(t) /\ guard'[t] = guard[t] /\ eid'[t] = eid[t],
           \A u \in Tasks : ~PastLock(u)' \/ Same(u)
    PROVE  Ahead(t)'
<1>1. Current' = Current /\ Ahead(t)
    BY DEF Current, AckInv
<1>2. \A u \in Tasks : PastLock(u)' =>
         PastLock(u) /\ tok'[u] = tok[u] /\ events'[u] = events[u]
    BY DEF Same, PastLock
<1> QED  BY <1>1, <1>2 DEF Ahead

LEMMA AckWriter ==
    ASSUME KnownInv, AckInv, ~SkewedClocks, NEW u \in Tasks, WriterStep(u)
    PROVE  AckInv'
<1>0. /\ CompactInv /\ TypeOK /\ Writers \subseteq Tasks
      /\ pc \in [Tasks -> WriterPc] /\ eid \in [Tasks -> 0..MaxId]
      /\ guard \in [Tasks -> Nat] /\ answer \in [Tasks -> Answers]
      /\ reply \in [Tasks -> Answers] /\ cpc \in [Tasks -> CompactPc]
    BY Bounds DEF KnownInv, CompactInv, TypeOK, LockTypeOK
<1>1. UNCHANGED <<pointer, manifests>> /\ Current' = Current
    BY DEF WriterStep, Acquire, AcquireFails, SyncCompact, Response, Timeout,
        Release, WriterCrash, ReadState, ReadWatermark, Append, storage, Current
<1>2. \A v \in Tasks \ {u} : Same(v)
    BY <1>0, OthersSame
<1>3. ~PastLock(u)' \/ Same(u)
    <2>1. Return(u) => ~PastLock(u)'
        BY <1>0 DEF Return, PastLock
    <2>2. SyncCompact(u) => ~PastLock(u)'
        BY <1>0 DEF SyncCompact, PastLock
    <2> QED  BY <2>1, <2>2 DEF WriterStep, Acquire, AcquireFails, Response,
                Timeout, Release, WriterCrash, ReadState, ReadWatermark, Append,
                Same, compaction, request, locals
<1>4. ASSUME NEW t \in Writers PROVE Ahead(t)'
    <2>1. CASE t # u
        <3>1. pc'[t] = pc[t] /\ guard'[t] = guard[t] /\ eid'[t] = eid[t]
            BY <1>0, <2>1 DEF WriterStep, Acquire, AcquireFails, SyncCompact,
                Response, Timeout, Release, WriterCrash, ReadState,
                ReadWatermark, Append, Goto, Grant, GiveUp, Generate, lockVars
        <3> QED  BY <1>1, <1>2, <1>3, <3>1, AheadStays DEF Pending
    <2>2. CASE t = u /\ (ReadWatermark(u) \/ Append(u)) /\ eid' # eid
        <3>1. Current.watermark \in 0..MaxId /\ eid[t] \in 0..MaxId
            BY <1>0 DEF CompactInv, StoreInv, TypeOK, Manifests, Current
        <3>2. UNCHANGED events
            BY <2>2 DEF ReadWatermark, Append, request
        <3>3. Generate(t, Current.watermark) \/ Generate(t, eid[t])
            BY <2>2 DEF ReadWatermark, Append
        <3> QED  BY <1>1, <3>1, <3>2, <3>3, AheadStarts
    <2>3. CASE t = u /\ ReadWatermark(u) /\ eid' = eid
        <3>1. Current.watermark \in 0..MaxId /\ Generate(t, Current.watermark)
            BY <1>0, <2>3 DEF CompactInv, StoreInv, TypeOK, Manifests, Current,
                ReadWatermark
        <3>2. UNCHANGED events
            BY <2>3 DEF ReadWatermark, request
        <3> QED  BY <1>1, <3>1, <3>2, AheadStarts
    <2>4. CASE /\ t = u /\ ~ReadWatermark(u)
               /\ ~(Append(u) /\ eid' # eid)
        <3>1. Pending(t)' =>
                Pending(t) /\ guard'[t] = guard[t] /\ eid'[t] = eid[t]
            BY <1>0, <1>4, <2>4 DEF WriterStep, Acquire, AcquireFails,
                SyncCompact, Response, Timeout, Release, WriterCrash, ReadState,
                Append, Goto, lockVars, Pending
        <3> QED  BY <1>1, <1>2, <1>3, <3>1, AheadStays
    <2> QED  BY <2>1, <2>2, <2>3, <2>4
<1>5. ASSUME NEW t \in Writers, reply'[t] = "ok" \/ answer'[t] = "ok"
      PROVE  reply[t] = "ok" \/ answer[t] = "ok"
    BY <1>0, <1>5 DEF WriterStep, Acquire, AcquireFails, SyncCompact, Response,
        Timeout, Release, WriterCrash, ReadState, ReadWatermark, Append,
        compaction
<1> QED  BY <1>1, <1>4, <1>5 DEF AckInv

LEMMA AckStep ==
    ASSUME ~SkewedClocks
    PROVE  KnownInv /\ AckInv /\ [Next]_vars => AckInv'
<1> SUFFICES ASSUME KnownInv, AckInv, [Next]_vars PROVE AckInv'
    OBVIOUS
<1>1. ASSUME NEW u \in Tasks, CompactionStep(u) PROVE AckInv'
    <2>1. Next
        BY <1>1 DEF Next
    <2> QED  BY <1>1, <2>1, AheadKeeps, ReplyTrue DEF AckInv
<1>2. ASSUME NEW u \in Tasks, WriterStep(u) PROVE AckInv'
    BY <1>2, AckWriter
<1>3. CASE \/ LeaseLapses \/ GrantWasted \/ FindOldSnapshots \/ DeletePrefix
           \/ UNCHANGED vars
    <2>1. UNCHANGED <<guard, pointer, manifests, pc, eid, answer, cpc, events,
                      tok, cas, prev, next, reply>>
        BY <1>3 DEF LeaseLapses, Lapse, GrantWasted, Waste, FindOldSnapshots,
            DeletePrefix, vars, lockVars, storage, writer, request, compaction,
            locals
    <2>2. Current' = Current /\ \A u \in Tasks : Same(u)
        BY <2>1 DEF Current, Same
    <2> QED  BY <2>1, <2>2, AheadStays DEF AckInv, Pending
<1> QED  BY <1>1, <1>2, <1>3 DEF Next

LEMMA AckInit == Init => AckInv
    BY Bounds DEF Init, AckInv, Ahead, Pending

(* With clocks that give event ids in the order they are generated, what   *)
(* a client was told is visible stays visible.  The writer's token fences  *)
(* later compactions off, and earlier ones are for earlier ids.            *)
THEOREM AckedStaysVisible ==
    ASSUME ~SkewedClocks
    PROVE  Spec => []AckedVisible
<1>1. Init => KnownInv /\ AckInv
    BY CompactInit, TokenInit, IdInit, AckInit DEF KnownInv
<1>2. KnownInv /\ AckInv /\ [Next]_vars => (KnownInv /\ AckInv)'
    BY CompactStep, TokenStep, IdStep, AckStep DEF KnownInv
<1>3. AckInv => AckedVisible
    BY DEF AckInv, AckedVisible
<1> QED  BY <1>1, <1>2, <1>3, PTL DEF Spec

----------------------------------------------------------------------------
LEMMA CurrentVersion ==
    ASSUME CompactInv, Next
    PROVE  /\ Current.version \in Nat /\ Current'.version \in Nat
           /\ Current.version <= Current'.version
<1>1. Current.version \in Nat
    BY DEF CompactInv, TypeOK, StoreInv, Manifests, Current
<1>2. ASSUME NEW t \in Tasks, Publishes(t)
      PROVE  Current'.version = Current.version + 1
    BY <1>2, PublishFacts
<1> QED  BY <1>1, <1>2, KeepsNext, CurrentGrows

(* A compaction that does not move keeps its files, as long as what is     *)
(* deleted is older than the visible version.                              *)
LEMMA FilesKeep ==
    ASSUME CompactInv, FilesInv, Next, NEW t \in Tasks, Same(t),
           \A d \in snapshots : d.version > Current.version => d \in snapshots'
    PROVE  FilesOf(t)'
<1>0. /\ TypeOK /\ TaskInv(t) /\ Keeps /\ FilesOf(t)
      /\ cas[t] \in Nat /\ pointer.version \in Nat
    BY KeepsNext DEF CompactInv, TypeOK, FilesInv
<1>1. ASSUME cpc[t] \in HasPrev
      PROVE  /\ prev[t] \in DOMAIN manifests
             /\ manifests'[prev'[t]] = manifests[prev[t]]
             /\ manifests[prev[t]].version \in Nat
             /\ SnapshotDir(t)' = SnapshotDir(t)
    BY <1>0, <1>1 DEF TaskInv, Keeps, Same, SnapshotDir, TypeOK, Manifests
<1>2. cpc'[t] \in HasPrev => manifests'[prev'[t]].version <= Current'.version
    BY <1>0, <1>1, CurrentVersion DEF Same, FilesOf
<1>3. ASSUME cpc'[t] \in HasFiles, cas'[t] = pointer'.version
      PROVE  SnapshotDir(t)' \in snapshots'
    <2>1. cpc[t] \in HasFiles /\ cpc[t] \in HasPrev /\ cpc[t] \in HasHead
        BY <1>3 DEF Same, HasFiles, HasPrev, HasHead
    <2>2. pointer' = pointer /\ cas[t] = pointer.version
        BY <1>0, <1>3, <2>1 DEF Same, TaskInv, Keeps
    <2>3. SnapshotDir(t) \in snapshots /\ prev[t] = pointer.manifest
        BY <1>0, <2>1, <2>2 DEF FilesOf, TaskInv
    <2>4. SnapshotDir(t).version > Current.version
        BY <1>1, <2>1, <2>3 DEF SnapshotDir, Current
    <2> QED  BY <1>1, <2>1, <2>3, <2>4
<1> QED  BY <1>2, <1>3 DEF FilesOf

(* The visible files stay, for the same reason.                            *)
LEMMA VisibleKeeps ==
    ASSUME CompactInv, FilesInv, Next,
           \A d \in snapshots : d.version >= Current.version => d \in snapshots'
    PROVE  VisibleIsReadable'
<1>1. CASE pointer' = pointer
    <2>1. Current' = Current /\ Current.version \in Nat
        BY <1>1, CurrentGrows, CurrentVersion
    <2> QED  BY <1>1, <2>1 DEF VisibleIsReadable, FilesInv
<1>2. ASSUME NEW t \in Tasks, Publishes(t) PROVE VisibleIsReadable'
    <2>1. /\ Current'.version = Current.version + 1 /\ Current'.by = t
          /\ pointer'.manifest = next[t] /\ prev[t] = pointer.manifest
          /\ cpc[t] = "publish" /\ cas[t] = pointer.version
        BY <1>2, PublishFacts DEF Publishes
    <2>2. SnapshotDir(t) \in snapshots
        BY <2>1 DEF FilesInv, FilesOf, HasFiles
    <2>3. SnapshotDir(t) = [version |-> Current.version + 1, id |-> next[t],
                            by |-> t]
        BY <2>1 DEF SnapshotDir, Current
    <2>4. SnapshotDir(t) \in snapshots'
        BY <2>2, <2>3, CurrentVersion
    <2> QED  BY <2>1, <2>3, <2>4 DEF VisibleIsReadable
<1> QED  BY <1>1, <1>2, KeepsNext

(* The step of a task itself: it gets to what is behind "put" only through *)
(* a manifest it read or files it wrote.                                   *)
LEMMA FilesOwn ==
    ASSUME CompactInv, FilesInv, Next, NEW t \in Tasks,
           WriterStep(t) \/ CompactionStep(t)
    PROVE  FilesOf(t)' /\ snapshots' \subseteq snapshots \cup {SnapshotDir(t)}
           /\ snapshots \subseteq snapshots'
           /\ (cpc[t] \in HasPrev \/ snapshots' = snapshots)
<1>0. /\ CompactTypes /\ TypeOK /\ TaskInv(t) /\ FilesOf(t)
      /\ Current.version \in Nat
    BY TypeParts, CurrentVersion DEF CompactInv, FilesInv
<1>1. cpc'[t] \notin HasPrev => FilesOf(t)'
    BY DEF FilesOf, HasPrev, HasFiles
<1>2. CASE WriterStep(t)
    <2>1. UNCHANGED snapshots
        BY <1>2 DEF WriterStep, Acquire, AcquireFails, SyncCompact, Response,
            Timeout, Release, WriterCrash, ReadState, ReadWatermark, Append,
            storage
    <2>2. Same(t) \/ cpc'[t] \notin HasPrev
        <3>1. SyncCompact(t) \/ Return(t) => cpc'[t] \notin HasPrev
            BY <1>0 DEF SyncCompact, Return, HasPrev, CompactTypes
        <3> QED  BY <1>2, <3>1 DEF WriterStep, Acquire, AcquireFails, Response,
                    Timeout, Release, WriterCrash, ReadState, ReadWatermark,
                    Append, Same, compaction, request, locals
    <2> QED  BY <1>1, <2>1, <2>2, FilesKeep
<1>3. CASE CompactionStep(t)
    <2>1. Respond(t, "ok") \/ Reject(t) \/ Retry(t) => cpc'[t] \notin HasPrev
        BY <1>0, RespondTypes, RetryTypes DEF Reject, Answers, HasPrev, Ended
    <2>2. CASE CheckLock(t) \/ HeadPointer(t) \/ PublishPointer(t)
               \/ CompactionCrash(t)
        <3>1. cpc'[t] \notin HasPrev /\ UNCHANGED snapshots
            BY <1>0, <2>1, <2>2 DEF CheckLock, HeadPointer, PublishPointer,
                MovePointer, CompactionCrash, Step, CompactTypes, HasPrev,
                storage
        <3> QED  BY <1>1, <3>1
    <2>3. CASE GetPointer(t)
        <3>1. UNCHANGED <<snapshots, manifests, pointer>>
              /\ Current' = Current
            BY <2>3 DEF GetPointer, storage, Current
        <3>2. \/ cpc'[t] \notin HasPrev
              \/ cpc'[t] = "alloc" /\ prev'[t] = pointer.manifest
            BY <1>0, <2>1, <2>3 DEF GetPointer, Step, CompactTypes
        <3>3. cpc'[t] = "alloc" /\ prev'[t] = pointer.manifest => FilesOf(t)'
            BY <1>0, <3>1 DEF FilesOf, HasFiles, Current
        <3> QED  BY <1>1, <3>1, <3>2, <3>3
    <2>4. CASE AllocManifest(t)
        <3>1. /\ UNCHANGED <<snapshots, manifests, pointer, prev>>
              /\ cpc[t] = "alloc" /\ cpc'[t] = "snapshot" /\ Current' = Current
            BY <1>0, <2>4 DEF AllocManifest, Step, CompactTypes, storage,
                Current
        <3> QED  BY <1>0, <3>1 DEF FilesOf, HasPrev, HasFiles
    <2>5. CASE WriteSnapshot(t)
        <3>1. /\ UNCHANGED <<manifests, pointer>> /\ Current' = Current
              /\ cpc[t] = "snapshot"
              /\ \/ snapshots' = snapshots /\ cpc'[t] \notin HasPrev
                 \/ /\ snapshots' = snapshots \cup {SnapshotDir(t)}
                    /\ UNCHANGED <<prev, next>>
            BY <1>0, <2>1, <2>5 DEF WriteSnapshot, Current, locals
        <3>2. UNCHANGED <<prev, next>> => SnapshotDir(t)' = SnapshotDir(t)
            BY <3>1 DEF SnapshotDir
        <3>3. CASE /\ snapshots' = snapshots \cup {SnapshotDir(t)}
                   /\ UNCHANGED <<prev, next>>
            BY <1>0, <3>1, <3>2, <3>3 DEF FilesOf, HasPrev
        <3> QED  BY <1>1, <3>1, <3>3 DEF HasPrev
    <2>6. CASE PutManifest(t) \/ RevalidateLock(t)
        <3>1. /\ UNCHANGED <<snapshots, pointer>>
              /\ cpc[t] \in HasPrev /\ cpc[t] \in HasFiles
              /\ cpc'[t] \notin HasPrev \/ UNCHANGED <<cas, prev, next>>
            BY <1>0, <2>1, <2>6 DEF PutManifest, RevalidateLock, HasPrev,
                HasFiles, storage, locals
        <3>2. CASE UNCHANGED <<cas, prev, next>>
            <4>1. manifests'[prev'[t]] = manifests[prev[t]] /\ Current' = Current
                BY <1>0, <3>1, <3>2, KeepsNext, CurrentGrows DEF TaskInv, Keeps
            <4>2. SnapshotDir(t)' = SnapshotDir(t)
                BY <3>2, <4>1 DEF SnapshotDir
            <4> QED  BY <1>0, <3>1, <3>2, <4>1, <4>2 DEF FilesOf
        <3> QED  BY <1>1, <3>1, <3>2
    <2> QED  BY <1>3, <2>2, <2>3, <2>4, <2>5, <2>6 DEF CompactionStep
<1> QED  BY <1>2, <1>3

(* The collector picks only versions behind the visible one: at most one   *)
(* version is ahead of it.                                                 *)
LEMMA PicksOld ==
    ASSUME CompactInv, FilesInv, KeepSnapshots >= 2, FindOldSnapshots
    PROVE  \A v \in doomed' : v < Current.version
<1>0. Current.version \in Nat /\ KeepSnapshots \in Nat
    BY Bounds DEF CompactInv, TypeOK, StoreInv, Manifests, Current
<1> DEFINE listed == {d.version : d \in snapshots}
<1>1. \A v \in doomed' :
        v \in listed /\ Cardinality({w \in listed : w > v}) >= KeepSnapshots
    BY DEF FindOldSnapshots
<1>2. \A w \in listed : w \in Nat /\ w <= Current.version + 1
    BY DEF CompactInv, TypeOK, FilesInv
<1> HIDE DEF listed
<1>3. ASSUME NEW v \in doomed', ~(v < Current.version) PROVE FALSE
    <2> DEFINE newer == {w \in listed : w > v}
               one == {Current.version + 1}
    <2>1. v \in Nat /\ Cardinality(newer) >= KeepSnapshots
        BY <1>1, <1>2
    <2>2. newer \subseteq one
        BY <1>0, <1>2, <1>3, <2>1
    <2>3. IsFiniteSet(one) /\ Cardinality(one) = 1
        BY FS_Singleton
    <2> HIDE DEF newer, one
    <2>4. IsFiniteSet(newer) /\ Cardinality(newer) <= 1
        BY <2>2, <2>3, FS_Subset
    <2>5. Cardinality(newer) \in Nat
        BY <2>4, FS_CardinalityType
    <2> QED  BY <1>0, <2>1, <2>4, <2>5
<1> QED  BY <1>3

LEMMA FilesStep ==
    ASSUME KeepSnapshots >= 2
    PROVE  CompactInv /\ FilesInv /\ [Next]_vars => FilesInv'
<1> SUFFICES ASSUME CompactInv, FilesInv, [Next]_vars PROVE FilesInv'
    OBVIOUS
<1>1. CASE Next
    <2>0. /\ Current.version \in Nat /\ Current'.version \in Nat
          /\ Current.version <= Current'.version
        BY <1>1, CurrentVersion
    <2>1. /\ \A d \in snapshots : d.version \in Nat /\ d.version <= Current.version + 1
          /\ \A v \in doomed : v \in Nat /\ v < Current.version
        BY DEF FilesInv, CompactInv, TypeOK
    <2>2. ASSUME NEW t \in Tasks, WriterStep(t) \/ CompactionStep(t)
          PROVE  FilesInv'
        <3>1. /\ snapshots' \subseteq snapshots \cup {SnapshotDir(t)}
              /\ snapshots \subseteq snapshots' /\ FilesOf(t)'
              /\ cpc[t] \in HasPrev \/ snapshots' = snapshots
            BY <1>1, <2>2, FilesOwn
        <3>2. UNCHANGED doomed
            BY <2>2 DEF WriterStep, Acquire, AcquireFails, SyncCompact,
                Response, Timeout, Release, WriterCrash, ReadState,
                ReadWatermark, Append, CompactionStep, CheckLock, HeadPointer,
                GetPointer, AllocManifest, WriteSnapshot, PutManifest,
                RevalidateLock, PublishPointer, CompactionCrash
        <3>3. VisibleIsReadable'
            BY <1>1, <3>1, VisibleKeeps
        <3>4. \A u \in Tasks : FilesOf(u)'
            <4>1. ASSUME NEW u \in Tasks, u # t PROVE FilesOf(u)'
                <5>1. Same(u)
                    BY <2>2, <4>1, OthersSame DEF CompactInv
                <5> QED  BY <1>1, <3>1, <5>1, FilesKeep
            <4> QED  BY <3>1, <4>1
        <3>5. \A d \in snapshots' : d.version <= Current'.version + 1
            <4>1. ASSUME cpc[t] \in HasPrev
                  PROVE  /\ SnapshotDir(t).version \in Nat
                         /\ SnapshotDir(t).version <= Current.version + 1
                <5>1. /\ manifests[prev[t]].version \in Nat
                      /\ manifests[prev[t]].version <= Current.version
                    BY <4>1 DEF CompactInv, TaskInv, TypeOK, Manifests, FilesInv,
                        FilesOf
                <5> QED  BY <2>0, <5>1 DEF SnapshotDir
            <4> QED  BY <2>0, <2>1, <3>1, <4>1
        <3>6. \A v \in doomed' : v < Current'.version
            BY <2>0, <2>1, <3>2
        <3> QED  BY <3>3, <3>4, <3>5, <3>6 DEF FilesInv
    <2>3. CASE LeaseLapses \/ GrantWasted \/ FindOldSnapshots \/ DeletePrefix
        <3>1. /\ UNCHANGED <<pointer, manifests, cpc, events, tok, cas, prev,
                             next>>
              /\ Current' = Current
            BY <2>3 DEF LeaseLapses, GrantWasted, FindOldSnapshots,
                DeletePrefix, storage, request, compaction, locals, Current
        <3>2. \A d \in snapshots : d.version >= Current.version => d \in snapshots'
            BY <2>0, <2>1, <2>3 DEF LeaseLapses, GrantWasted, FindOldSnapshots,
                DeletePrefix, storage
        <3>3. VisibleIsReadable'
            BY <1>1, <3>2, VisibleKeeps
        <3>4. \A u \in Tasks : FilesOf(u)'
            <4>1. \A u \in Tasks : Same(u)
                BY <3>1 DEF Same
            <4>2. \A d \in snapshots :
                    d.version > Current.version => d \in snapshots'
                BY <2>0, <2>1, <3>2
            <4> QED  BY <1>1, <4>1, <4>2, FilesKeep
        <3>5. snapshots' \subseteq snapshots
            BY <2>3 DEF LeaseLapses, GrantWasted, FindOldSnapshots,
                DeletePrefix, storage
        <3>6. \A v \in doomed' : v < Current'.version
            <4>1. CASE FindOldSnapshots
                BY <3>1, <4>1, PicksOld
            <4>2. CASE LeaseLapses \/ GrantWasted \/ DeletePrefix
                BY <2>1, <3>1, <4>2 DEF LeaseLapses, GrantWasted, DeletePrefix
            <4> QED  BY <2>3, <4>1, <4>2
        <3>7. \A d \in snapshots' : d.version <= Current'.version + 1
            BY <2>1, <3>1, <3>5
        <3> QED  BY <3>3, <3>4, <3>6, <3>7 DEF FilesInv
    <2> QED  BY <1>1, <2>2, <2>3 DEF Next
<1>2. CASE UNCHANGED vars
    <2>1. UNCHANGED <<pointer, manifests, snapshots, doomed, cpc, cas, prev,
                      next>>
        BY <1>2 DEF vars, storage, compaction, locals
    <2>2. Current' = Current /\ \A t \in Tasks : SnapshotDir(t)' = SnapshotDir(t)
        BY <2>1 DEF Current, SnapshotDir
    <2> QED  BY <2>1, <2>2 DEF FilesInv, FilesOf, VisibleIsReadable
<1> QED  BY <1>1, <1>2

LEMMA FilesInit == Init => FilesInv
<1> SUFFICES ASSUME Init PROVE FilesInv
    OBVIOUS
<1>1. /\ pointer.manifest = Before /\ Before \in 0..Before /\ Before \in Nat
      /\ snapshots = {[version |-> id, id |-> id, by |-> NoTask] : id \in 1..Before}
      /\ doomed = {} /\ \A t \in Tasks : cpc[t] = "none"
    BY Bounds DEF Init
<1>2. Current.version = Before /\ Current.by = NoTask
    BY <1>1, Bounds, EarlierFacts DEF Init, Current
<1>3. \A d \in snapshots : d.version <= Current.version + 1
    BY <1>1, <1>2
<1>4. VisibleIsReadable
    BY <1>1, <1>2 DEF VisibleIsReadable
<1> QED  BY <1>1, <1>3, <1>4 DEF FilesInv, FilesOf, HasPrev, HasFiles

(* With a retention of two snapshots or more the files of the visible      *)
(* snapshot are there, although the collector's reference check never      *)
(* matches.                                                                *)
THEOREM VisibleStaysReadable ==
    ASSUME KeepSnapshots >= 2
    PROVE  Spec => []VisibleIsReadable
<1>1. Init => CompactInv /\ FilesInv
    BY CompactInit, FilesInit
<1>2. CompactInv /\ FilesInv /\ [Next]_vars => (CompactInv /\ FilesInv)'
    BY CompactStep, FilesStep
<1>3. FilesInv => VisibleIsReadable
    BY DEF FilesInv
<1> QED  BY <1>1, <1>2, <1>3, PTL DEF Spec
=============================================================================
