--------------------------- MODULE Tier1WritePath ---------------------------
(***************************************************************************)
(* The Tier-1 write path of the catalog: an API writer takes the lock,     *)
(* appends a ledger event and asks the compactor to publish it; the        *)
(* compactor writes an immutable snapshot and manifest and moves the       *)
(* manifest pointer with a compare-and-swap                                *)
(* (crates/arco-catalog/src/writer.rs, tier1_writer.rs, tier1_compactor.rs,*)
(* tier1_snapshot.rs).  The notification consumer of the compactor is a    *)
(* second source of compactions, for events whose writer is gone           *)
(* (crates/arco-compactor/src/notification_consumer.rs), and the garbage   *)
(* collector deletes old snapshot versions meanwhile                       *)
(* (crates/arco-catalog/src/gc/collector.rs).                              *)
(*                                                                         *)
(* The lock is FencedLock, which DistributedLock implements.  A lease may  *)
(* lapse under its holder, and a compaction goes on after the writer that  *)
(* asked for it has timed out or died, so compactions of several tokens    *)
(* run at once.  One step per storage call that decides something; objects *)
(* that are written once are read in the step that needs them.             *)
(***************************************************************************)
EXTENDS FencedLock, FiniteSets, FiniteSetsExt

CONSTANTS
    Writers,        \* API requests: each creates one catalog
    NameOf,         \* the name each of them wants
    NoTask,         \* the writer of an absent ledger event
    SkewedClocks,   \* FALSE: event ids grow in the order they are generated
    CasMaxRetries,  \* cas_max_retries
    KeepSnapshots,  \* RetentionPolicy::keep_snapshots
    Before,         \* publications before the behaviour starts
    MaxToken,       \* bound: grants of the lock
    MaxId,          \* bound: event ids
    MaxManifest,    \* bound: manifest ids
    MaxCrashes      \* bound: crashes of writers and of compactions in all

(* The other tasks are deliveries of the notification consumer.            *)
Consumers == Tasks \ Writers

ASSUME Tier1Assumption ==
    /\ Writers \subseteq Tasks /\ NoTask \notin Tasks
    /\ DOMAIN NameOf = Writers
    /\ SkewedClocks \in BOOLEAN
    /\ {CasMaxRetries, KeepSnapshots} \subseteq Nat \ {0}
    /\ Before \in 0..MaxManifest
    /\ {MaxToken, MaxId, MaxManifest, MaxCrashes} \subseteq Nat

VARIABLES
    pointer,        \* manifest pointer: object version, epoch, manifest
    manifests,      \* the manifests written so far, by id
    snapshots,      \* snapshot directories: version, attempt and writer
    ledger,         \* event id -> the writer whose catalog it creates
    lastId,         \* the latest event id generated
    pc,             \* what each task does next
    eid,            \* a writer's event id
    answer,         \* what a writer is going to tell its client
    cpc,            \* what the compaction of each task does next
    events, tok,    \* the compaction request: event ids, fencing token
    attempt,
    cas, prev, next,\* pointer version, manifest read and manifest written
    reply,          \* the compaction's response
    doomed,         \* the snapshot versions the collector is going to delete
    crashes

storage == <<pointer, manifests, snapshots, ledger>>
writer == <<lastId, pc, eid, answer>>
request == <<events, tok>>
locals == <<attempt, cas, prev, next>>
compaction == <<cpc, locals, reply>>
vars == <<lockVars, storage, writer, request, compaction, doomed, crashes>>

----------------------------------------------------------------------------
EventIds    == 1..MaxId
ManifestIds == 0..MaxManifest

(* Event id 0 stands for "no watermark".  "state" abstracts the Parquet    *)
(* snapshot: the writers whose catalog is in it; "by" is the task whose    *)
(* compaction wrote the manifest.                                          *)
Manifests ==
    [state : SUBSET Writers, watermark : 0..MaxId, version : Nat, epoch : Nat,
     parent : ManifestIds, by : Tasks \cup {NoTask}]

(* What bootstrap_tier1_manifest leaves, an empty catalog, and what the    *)
(* earlier publications made of it, which concern other names.             *)
Earlier(id) == [state |-> {}, watermark |-> 0, version |-> id, epoch |-> 0,
                parent |-> Max({0, id - 1}), by |-> NoTask]

Current == manifests[pointer.manifest]

Written(id) == id \in DOMAIN manifests

WriterPc  == {"start", "read", "watermark", "append", "rpc", "wait",
              "release", "done"}
CompactPc == {"none", "lock", "head", "get", "alloc", "snapshot", "put",
              "revalidate", "publish"}
Answers   == {"none", "ok", "err"}

(* Every variable keeps its type; only catalogs whose event was written are*)
(* visible, and ids stay within what was generated.                        *)
TypeOK ==
    /\ LockTypeOK
    /\ pointer \in [version : Nat, epoch : Nat, manifest : ManifestIds]
    /\ DOMAIN manifests \subseteq ManifestIds
    /\ \A id \in DOMAIN manifests : manifests[id] \in Manifests
    /\ snapshots \subseteq
         [version : Nat, id : ManifestIds, by : Tasks \cup {NoTask}]
    /\ doomed \subseteq Nat
    /\ ledger \in [EventIds -> Writers \cup {NoTask}]
    /\ lastId \in 0..MaxId
    /\ pc \in [Tasks -> WriterPc]
    /\ eid \in [Tasks -> 0..MaxId]
    /\ answer \in [Tasks -> Answers]
    /\ cpc \in [Tasks -> CompactPc]
    /\ events \in [Tasks -> SUBSET EventIds]
    /\ tok \in [Tasks -> Nat]
    /\ attempt \in [Tasks -> 0..CasMaxRetries]
    /\ cas \in [Tasks -> Nat]
    /\ prev \in [Tasks -> ManifestIds]
    /\ next \in [Tasks -> ManifestIds]
    /\ reply \in [Tasks -> Answers]
    /\ crashes \in Nat

Init ==
    /\ LockInit
    /\ pointer = [version |-> 1, epoch |-> 0, manifest |-> Before]
    /\ manifests = [id \in 0..Before |-> Earlier(id)]
    /\ snapshots =
         {[version |-> id, id |-> id, by |-> NoTask] : id \in 1..Before}
    /\ doomed = {}
    /\ ledger = [e \in EventIds |-> NoTask]
    /\ lastId = 0
    /\ pc = [t \in Tasks |-> "start"]
    /\ eid = [t \in Tasks |-> 0]
    /\ answer = [t \in Tasks |-> "none"]
    /\ cpc = [t \in Tasks |-> "none"]
    /\ events = [t \in Tasks |-> {}]
    /\ tok = [t \in Tasks |-> 0]
    /\ attempt = [t \in Tasks |-> 0]
    /\ cas = [t \in Tasks |-> 0]
    /\ prev = [t \in Tasks |-> 0]
    /\ next = [t \in Tasks |-> 0]
    /\ reply = [t \in Tasks |-> "none"]
    /\ crashes = 0

----------------------------------------------------------------------------
(* The writer: create_catalog_with_metadata.                               *)

Goto(t, label) == pc' = [pc EXCEPT ![t] = label]

(* A compaction ends, and its variables with it.                           *)
Return(t) ==
    /\ cpc' = [cpc EXCEPT ![t] = "none"]
    /\ events' = [events EXCEPT ![t] = {}]
    /\ tok' = [tok EXCEPT ![t] = 0]
    /\ attempt' = [attempt EXCEPT ![t] = 0]
    /\ cas' = [cas EXCEPT ![t] = 0]
    /\ prev' = [prev EXCEPT ![t] = 0]
    /\ next' = [next EXCEPT ![t] = 0]

(* acquire_lock; a consumer already has its batch and goes on to compact.  *)
Acquire(t) ==
    /\ pc[t] = "start"
    /\ token < MaxToken
    /\ Grant(t)
    /\ Goto(t, IF t \in Writers THEN "read" ELSE "rpc")
    /\ UNCHANGED <<storage, lastId, eid, answer, request, compaction,
                   crashes, doomed>>

(* The retries of acquire_lock are used up while the lease of another task *)
(* is live.                                                                *)
AcquireFails(t) ==
    /\ pc[t] = "start" /\ live
    /\ Goto(t, "done")
    /\ answer' = [answer EXCEPT ![t] = "err"]
    /\ UNCHANGED <<lockVars, storage, lastId, eid, request, compaction,
                   crashes, doomed>>

(* read_manifest, load_catalog_state and the check for a duplicate         *)
ReadState(t) ==
    /\ pc[t] = "read"
    /\ \/ /\ \A u \in Current.state : NameOf[u] # NameOf[t]
          /\ Goto(t, "watermark")
          /\ UNCHANGED answer
       \/ /\ \E u \in Current.state : NameOf[u] = NameOf[t]
          /\ answer' = [answer EXCEPT ![t] = "err"]
          /\ Goto(t, "release")
    /\ UNCHANGED <<lockVars, storage, lastId, eid, request, compaction,
                   crashes, doomed>>

(* What EventId::generate may return.                                      *)
Candidates == IF SkewedClocks THEN EventIds ELSE {lastId + 1}

(* EventId::generate_after                                                 *)
GenerateAfter(floor) == {IF c > floor THEN c ELSE floor + 1 : c \in Candidates}

Generate(t, floor) ==
    \E id \in GenerateAfter(floor) :
        /\ id <= MaxId
        /\ eid' = [eid EXCEPT ![t] = id]
        /\ lastId' = Max({lastId, id})

(* append_ledger_event: the id is generated from the watermark read here.  *)
ReadWatermark(t) ==
    /\ pc[t] = "watermark"
    /\ Generate(t, Current.watermark)
    /\ Goto(t, "append")
    /\ UNCHANGED <<lockVars, storage, answer, request, compaction,
                   crashes, doomed>>

(* put_ledger, DoesNotExist; after a collision with another event the next *)
(* id is tried.                                                            *)
Append(t) ==
    /\ pc[t] = "append"
    /\ \/ /\ ledger[eid[t]] = NoTask
          /\ ledger' = [ledger EXCEPT ![eid[t]] = t]
          /\ Goto(t, "rpc")
          /\ UNCHANGED <<lastId, eid>>
       \/ /\ ledger[eid[t]] # NoTask
          /\ Generate(t, eid[t])
          /\ UNCHANGED <<ledger, pc>>
    /\ UNCHANGED <<lockVars, pointer, manifests, snapshots, answer, request,
                   compaction, crashes, doomed>>

(* The sync-compact request: a writer sends the path of its event, the     *)
(* consumer any events it was notified of, with the token of the guard.    *)
SyncCompact(t) ==
    /\ pc[t] = "rpc"
    /\ \E E \in SUBSET {e \in EventIds : ledger[e] # NoTask} :
          /\ E # {}
          /\ t \in Writers => E = {eid[t]}
          /\ events' = [events EXCEPT ![t] = E]
    /\ tok' = [tok EXCEPT ![t] = guard[t]]
    /\ cpc' = [cpc EXCEPT ![t] = "lock"]
    /\ attempt' = [attempt EXCEPT ![t] = 1]
    /\ Goto(t, "wait")
    /\ UNCHANGED <<lockVars, storage, lastId, eid, answer, cas, prev, next,
                   reply, crashes, doomed>>

Response(t) ==
    /\ pc[t] = "wait" /\ reply[t] # "none"
    /\ answer' = [answer EXCEPT ![t] = reply[t]]
    /\ reply' = [reply EXCEPT ![t] = "none"]
    /\ Goto(t, "release")
    /\ UNCHANGED <<lockVars, storage, lastId, eid, request, cpc, locals,
                   crashes, doomed>>

(* The HTTP client times out; the compaction it asked for goes on.         *)
Timeout(t) ==
    /\ pc[t] = "wait" /\ t \in Writers
    /\ answer' = [answer EXCEPT ![t] = "err"]
    /\ reply' = [reply EXCEPT ![t] = "none"]
    /\ Goto(t, "release")
    /\ UNCHANGED <<lockVars, storage, lastId, eid, request, cpc, locals,
                   crashes, doomed>>

(* guard.release(), whether it succeeds or not, and the client's answer    *)
Release(t) ==
    /\ pc[t] = "release"
    /\ GiveUp(t)
    /\ Goto(t, "done")
    /\ UNCHANGED <<storage, lastId, eid, answer, request, compaction,
                   crashes, doomed>>

(* The process dies, or a storage call fails and the guard is dropped.  A  *)
(* consumer runs its compaction itself.                                    *)
WriterCrash(t) ==
    /\ pc[t] \notin {"start", "done"}
    /\ crashes < MaxCrashes
    /\ crashes' = crashes + 1
    /\ GiveUp(t)
    /\ Goto(t, "done")
    /\ answer' = [answer EXCEPT ![t] = "err"]
    /\ \/ t \in Consumers /\ Return(t)
       \/ t \in Writers /\ UNCHANGED <<cpc, request, locals>>
    /\ reply' = [reply EXCEPT ![t] = "none"]
    /\ UNCHANGED <<storage, lastId, eid, doomed>>

----------------------------------------------------------------------------
(* The compaction: sync_compact and sync_compact_catalog.                  *)

Step(t, label) == cpc' = [cpc EXCEPT ![t] = label]

(* A writer that gave up waiting never sees the response.                  *)
Respond(t, r) ==
    /\ Return(t)
    /\ reply' = IF pc[t] = "wait" THEN [reply EXCEPT ![t] = r] ELSE reply

(* Every early return with an error.                                       *)
Reject(t) == Respond(t, "err")

(* A lost race: the next turn of the loop, or PublishFailed.               *)
Retry(t) ==
    IF attempt[t] = CasMaxRetries
    THEN Reject(t)
    ELSE /\ Step(t, "head")
         /\ attempt' = [attempt EXCEPT ![t] = @ + 1]
         /\ UNCHANGED <<request, cas, prev, next, reply>>

(* The lock record exists, has not expired and carries the token.          *)
TokenIsCurrent(t) == live /\ token = tok[t]

CheckLock(t) ==
    /\ cpc[t] = "lock"
    /\ \/ /\ TokenIsCurrent(t)
          /\ Step(t, "head")
          /\ UNCHANGED <<request, locals, reply>>
       \/ ~TokenIsCurrent(t) /\ Reject(t)
    /\ UNCHANGED <<lockVars, storage, writer, crashes, doomed>>

HeadPointer(t) ==
    /\ cpc[t] = "head"
    /\ cas' = [cas EXCEPT ![t] = pointer.version]
    /\ Step(t, "get")
    /\ UNCHANGED <<lockVars, storage, writer, request, attempt, prev, next,
                   reply, crashes, doomed>>

(* unapplied_event_paths_after_watermark                                   *)
Unapplied(t, m) == {e \in events[t] : e > m.watermark}

(* Mutant of Applies: names are not compared.                              *)
AppliesAny(t, m) == TRUE

(* apply_catalog_event succeeds for every event: a catalog that is there   *)
(* already is skipped, a second one of the same name is an error.          *)
Applies(t, m) ==
    LET state == m.state \cup {ledger[e] : e \in Unapplied(t, m)}
    IN  \A u, v \in state : NameOf[u] = NameOf[v] => u = v

(* get of the pointer, and what follows from the manifest it names         *)
GetPointer(t) ==
    /\ cpc[t] = "get"
    /\ LET fenced == tok[t] < pointer.epoch
           m == Current
       IN \/ (fenced \/ (Unapplied(t, m) # {} /\ ~Applies(t, m))) /\ Reject(t)
          \/ ~fenced /\ Unapplied(t, m) = {} /\ Respond(t, "ok")
          \/ /\ ~fenced /\ Unapplied(t, m) # {} /\ Applies(t, m)
             /\ prev' = [prev EXCEPT ![t] = pointer.manifest]
             /\ Step(t, "alloc")
             /\ UNCHANGED <<request, attempt, cas, next, reply>>
    /\ UNCHANGED <<lockVars, storage, writer, crashes, doomed>>

(* next_available_manifest_id: the first free id after the previous one    *)
AllocManifest(t) ==
    /\ cpc[t] = "alloc"
    /\ LET free == {id \in ManifestIds : id > prev[t] /\ ~Written(id)}
       IN  free # {} /\ next' = [next EXCEPT ![t] = Min(free)]
    /\ Step(t, "snapshot")
    /\ UNCHANGED <<lockVars, storage, writer, request, attempt, cas, prev,
                   reply, crashes, doomed>>

(* The directory of this attempt, snapshot_attempt_dir.                    *)
SnapshotDir(t) == [version |-> manifests[prev[t]].version + 1, id |-> next[t],
                   by |-> t]

(* Files another attempt left in that directory; their content differs, at *)
(* least in the commit ULID.                                               *)
Occupied(t) ==
    \E d \in snapshots : [d EXCEPT !.by = t] = SnapshotDir(t) /\ d.by # t

(* Mutant of WriteSnapshot: files that are there are overwritten.          *)
OverwriteSnapshot(t) ==
    /\ cpc[t] = "snapshot"
    /\ snapshots' = {d \in snapshots : [d EXCEPT !.by = t] # SnapshotDir(t)}
                      \cup {SnapshotDir(t)}
    /\ Step(t, "put")
    /\ UNCHANGED <<lockVars, pointer, manifests, ledger, writer, request,
                   locals, reply, crashes, doomed>>

(* write_catalog_snapshot_in_dir, put_state_if_absent                      *)
WriteSnapshot(t) ==
    /\ cpc[t] = "snapshot"
    /\ \/ Occupied(t) /\ Reject(t) /\ UNCHANGED snapshots
       \/ /\ ~Occupied(t)
          /\ snapshots' = snapshots \cup {SnapshotDir(t)}
          /\ Step(t, "put")
          /\ UNCHANGED <<request, locals, reply>>
    /\ UNCHANGED <<lockVars, pointer, manifests, ledger, writer, crashes,
                   doomed>>

(* Mutant of NextManifest: all ids up to the last one are applied, those   *)
(* whose event is not written yet included.                                *)
NextManifestRange(t) ==
    LET p == manifests[prev[t]]
        last == Max(Unapplied(t, p))
    IN  [state |-> p.state \cup {ledger[e] : e \in p.watermark + 1 .. last},
         watermark |-> last, version |-> p.version + 1, epoch |-> tok[t],
         parent |-> prev[t], by |-> t]

NextManifest(t) ==
    LET p == manifests[prev[t]]
    IN  [state |-> p.state \cup {ledger[e] : e \in Unapplied(t, p)},
         watermark |-> Max(Unapplied(t, p)),
         version |-> p.version + 1, epoch |-> tok[t], parent |-> prev[t],
         by |-> t]

(* put_raw of the manifest, DoesNotExist.  validate_succession, which runs *)
(* before it, repeats what GetPointer and AllocManifest established about  *)
(* the manifest they read.                                                 *)
PutManifest(t) ==
    /\ cpc[t] = "put"
    /\ \/ Written(next[t]) /\ Retry(t) /\ UNCHANGED manifests
       \/ /\ ~Written(next[t])
          /\ manifests' = [id \in DOMAIN manifests \cup {next[t]} |->
                              IF id = next[t] THEN NextManifest(t)
                              ELSE manifests[id]]
          /\ Step(t, "revalidate")
          /\ UNCHANGED <<request, locals, reply>>
    /\ UNCHANGED <<lockVars, pointer, snapshots, ledger, writer, crashes,
                   doomed>>

(* Mutant of RevalidateLock: the pointer's version is read again here.     *)
RevalidateAndHead(t) ==
    /\ cpc[t] = "revalidate"
    /\ Step(t, "publish")
    /\ cas' = [cas EXCEPT ![t] = pointer.version]
    /\ UNCHANGED <<lockVars, storage, writer, request, attempt, prev, next,
                   reply, crashes, doomed>>

(* revalidate_lock                                                         *)
RevalidateLock(t) ==
    /\ cpc[t] = "revalidate"
    /\ \/ /\ TokenIsCurrent(t)
          /\ Step(t, "publish")
          /\ UNCHANGED <<request, locals, reply>>
       \/ ~TokenIsCurrent(t) /\ Reject(t)
    /\ UNCHANGED <<lockVars, storage, writer, crashes, doomed>>

MovePointer(t) ==
    /\ pointer' = [version |-> pointer.version + 1, epoch |-> tok[t],
                   manifest |-> next[t]]
    /\ Respond(t, "ok")

(* Mutant of PublishPointer: the put carries no precondition.              *)
PublishBlind(t) ==
    /\ cpc[t] = "publish"
    /\ MovePointer(t)
    /\ UNCHANGED <<lockVars, manifests, snapshots, ledger, writer, crashes,
                   doomed>>

(* Publisher::publish: put of the pointer, MatchesVersion                  *)
PublishPointer(t) ==
    /\ cpc[t] = "publish"
    /\ \/ pointer.version = cas[t] /\ MovePointer(t)
       \/ pointer.version # cas[t] /\ Retry(t) /\ UNCHANGED pointer
    /\ UNCHANGED <<lockVars, manifests, snapshots, ledger, writer, crashes,
                   doomed>>

(* The compactor dies, or a storage call of it fails.                      *)
CompactionCrash(t) ==
    /\ cpc[t] # "none"
    /\ crashes < MaxCrashes
    /\ crashes' = crashes + 1
    /\ Reject(t)
    /\ UNCHANGED <<lockVars, storage, writer, doomed>>

----------------------------------------------------------------------------
(* The garbage collector, for old versions; its other phases find nothing  *)
(* of this domain (README).                                                *)

(* get_referenced_snapshots: the directory of the attempt that is visible  *)
Referenced == {[version |-> Current.version, id |-> pointer.manifest]}

(* extract_snapshot_version_dir: the parent of all attempts of a version   *)
VersionDir(v) == [version |-> v]

(* find_old_snapshot_versions: the newest KeepSnapshots versions are kept. *)
(* Any of the others may be older than delay_hours.                        *)
FindOldSnapshots ==
    LET listed == {d.version : d \in snapshots}
        beyond == {v \in listed :
                      Cardinality({w \in listed : w > v}) >= KeepSnapshots}
    IN  \E old \in SUBSET {v \in beyond : VersionDir(v) \notin Referenced} :
            old # {} /\ doomed' = old
    /\ UNCHANGED <<lockVars, storage, writer, request, compaction, crashes>>

(* delete_prefix, all attempts of the version: the check is made again     *)
DeletePrefix ==
    /\ \E v \in doomed :
          /\ doomed' = doomed \ {v}
          /\ snapshots' = IF VersionDir(v) \in Referenced THEN snapshots
                          ELSE {d \in snapshots : d.version # v}
    /\ UNCHANGED <<lockVars, pointer, manifests, ledger, writer, request,
                   compaction, crashes>>

----------------------------------------------------------------------------
(* The lease lapses, or a grant is wasted, whatever the tasks do.          *)
LeaseLapses == Lapse /\ UNCHANGED <<storage, writer, request, compaction,
                                    crashes, doomed>>

GrantWasted ==
    /\ token < MaxToken
    /\ Waste
    /\ UNCHANGED <<storage, writer, request, compaction, crashes, doomed>>

WriterStep(t) ==
    \/ Acquire(t) \/ AcquireFails(t) \/ SyncCompact(t) \/ Response(t)
    \/ Timeout(t) \/ Release(t) \/ WriterCrash(t)
    \/ ReadState(t) \/ ReadWatermark(t) \/ Append(t)

CompactionStep(t) ==
    \/ CheckLock(t) \/ HeadPointer(t) \/ GetPointer(t) \/ AllocManifest(t)
    \/ WriteSnapshot(t) \/ PutManifest(t) \/ RevalidateLock(t)
    \/ PublishPointer(t) \/ CompactionCrash(t)

Next ==
    \/ \E t \in Tasks : WriterStep(t) \/ CompactionStep(t)
    \/ LeaseLapses
    \/ GrantWasted
    \/ FindOldSnapshots
    \/ DeletePrefix

Spec == Init /\ [][Next]_vars

----------------------------------------------------------------------------
(* Properties.                                                             *)

(* What a client was told is visible stays visible: the catalog of every   *)
(* request answered with success is in the current snapshot, whatever      *)
(* stale compactions, retries and redeliveries do meanwhile.               *)
AckedVisible ==
    \A t \in Writers :
        pc[t] = "done" /\ answer[t] = "ok" => t \in Current.state

(* The files of the visible snapshot are there and are those of the        *)
(* attempt that published it (sole writer, atomic visibility), although    *)
(* the collector's reference check compares version directories with       *)
(* attempt directories and never matches: an attempt that died, one        *)
(* version ahead, counts as the newest, and the retention must spare the   *)
(* version behind it.                                                      *)
VisibleIsReadable ==
    pointer.manifest # 0 =>
        [version |-> Current.version, id |-> pointer.manifest,
         by |-> Current.by] \in snapshots

(* No two catalogs of one name ever become visible, although the writers'  *)
(* own check is made on a snapshot that may be stale when the event is     *)
(* applied.                                                                *)
NamesUnique ==
    \A u, v \in Current.state : NameOf[u] = NameOf[v] => u = v

(* History is linear: the pointer moves only from a manifest to a          *)
(* successor of it, one version on, that keeps everything visible, with an *)
(* epoch and a manifest id that never decrease, while compactions of       *)
(* several tokens race (ADR-032, invariants 5 and 6).                      *)
HistoryLinear ==
    [][pointer' # pointer =>
        LET m == manifests'[pointer'.manifest]
        IN  /\ m.parent = pointer.manifest
            /\ m.version = Current.version + 1
            /\ Current.state \subseteq m.state
            /\ pointer'.epoch = m.epoch /\ m.epoch >= pointer.epoch
            /\ pointer'.manifest > pointer.manifest]_vars

(* "If another process takes over the lock (token=N+1) before compaction   *)
(* completes, the compactor rejects the stale request" (ADR-018): a        *)
(* compaction publishes only under the highest token granted.              *)
StaleRejected == [][pointer' # pointer => pointer'.epoch = token]_vars

(* "immutable snapshot or manifest snapshot write fails ... retry safely"  *)
(* (ADR-034): a compaction that runs alone is not refused because of files *)
(* that an earlier one left behind.                                        *)
RetriesSafely ==
    \A t \in Tasks :
        cpc[t] = "snapshot" /\ (\A u \in Tasks \ {t} : cpc[u] = "none")
          => ~Occupied(t)
=============================================================================
