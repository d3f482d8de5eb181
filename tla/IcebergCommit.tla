--------------------------- MODULE IcebergCommit ---------------------------
(***************************************************************************)
(* Commits to Iceberg tables over an object store without transactions     *)
(* (crates/arco-iceberg/src): single-table commits guarded by an           *)
(* idempotency marker (commit.rs, idempotency.rs), multi-table             *)
(* transactions whose record is the commit point (coordinator.rs,          *)
(* transactions.rs), and the collectors of markers and of metadata files   *)
(* (gc.rs).  They meet in the table pointer, which every one of them moves *)
(* with a compare-and-swap and which a transaction decorates with a        *)
(* pending update that counts once the transaction's record says so        *)
(* (pointer.rs).                                                           *)
(*                                                                         *)
(* A call is one HTTP request; two calls may carry the same idempotency    *)
(* key, one being the client's retry of the other, before or after the     *)
(* other has ended or died.  One step per storage call; metadata files are *)
(* written once and are read in the step that needs them.                  *)
(***************************************************************************)
EXTENDS Naturals, Sequences, FiniteSets, FiniteSetsExt, SequencesExt

CONSTANTS
    Tables,         \* table uuids, in their order
    Calls,          \* the requests that are made
    Keys,           \* idempotency keys of single-table commits
    Txs,            \* idempotency keys of multi-table transactions
    Mixes,          \* the ways the requests may carry keys
    OpTables,       \* the tables each key is about
    Guarded,        \* keys whose request asserts the snapshot it was built on
    None,           \* no takeover, no pending update, no operation
    MaxTakeover,    \* MAX_TAKEOVER_ATTEMPTS
    PreviousVersionsMax,  \* metadata.previous-versions-max
    MaxCrashes,     \* bound: calls that die
    MaxCollections  \* bound: markers and tables the collectors work on

Ops == Keys \cup Txs

ASSUME IcebergAssumption ==
    /\ Tables \subseteq Nat \ {0} /\ IsFiniteSet(Tables)
    /\ Keys \cap Txs = {} /\ None \notin Ops \cup Calls
    /\ Mixes \subseteq [Calls -> Ops]
    /\ OpTables \in [Ops -> (SUBSET Tables) \ {{}}]
    /\ \A k \in Keys : Cardinality(OpTables[k]) = 1
    /\ Guarded \subseteq Ops
    /\ {MaxTakeover, PreviousVersionsMax, MaxCrashes, MaxCollections} \subseteq Nat

VARIABLES
    pointer,    \* per table: version, current and previous location, pending
    files,      \* metadata location -> its metadata log, the locations before
    gone,       \* the locations whose file has been deleted
    marker,     \* per key: the idempotency marker
    record,     \* per transaction: the status in its record
    txStale,    \* transactions that began longer than the timeout ago
    op,         \* the key each request carries
    base,       \* per guarded key: the locations its request was built on
    pc,         \* what each call does next
    call,       \* the local variables of each call
    reply,      \* what each call answers
    gcMarker,   \* the marker the marker collector is working on
    gcOrphans,  \* the files the metadata collector has yet to delete
    collections, crashes

locals  == <<pc, call, reply>>
gc      == <<gcMarker, gcOrphans, collections>>
rest    == <<txStale, op, base, gc, crashes>>
storage == <<pointer, files, gone, marker, record>>
vars    == <<storage, locals, rest>>

----------------------------------------------------------------------------
(* build_metadata_location and build_takeover_metadata_location: the next  *)
(* sequence number, the key and, for a takeover, its event id, for which   *)
(* the call stands.  The operation None made the table.                    *)
Location(t, seq, o, by) == [table |-> t, seq |-> seq, op |-> o, by |-> by]

First(t) == Location(t, 0, None, None)

NoPending == [tx |-> None, loc |-> None]
NoMarker  == [status |-> "none", loc |-> None, age |-> "fresh", ver |-> 0]
NoPointer == [ver |-> 0, cur |-> None, prev |-> None, pending |-> NoPending]

TableOf(c) == CHOOSE t \in OpTables[op[c]] : TRUE
IsTx(c)    == op[c] \in Txs
Exists(l)  == l \in DOMAIN files \ gone
Put(l, log) == [x \in DOMAIN files \cup {l} |-> IF x = l THEN log ELSE files[x]]

(* finalize_metadata: a metadata file's log is its base's with the base    *)
(* appended, so the log and the location are the table's whole history.    *)
History(l) == Append(files[l], l)
OpsOf(h)   == [i \in DOMAIN h |-> h[i].op]

(* resolve_effective_metadata_location: a pending update counts exactly    *)
(* when its transaction is committed.                                      *)
EffectiveLocation(p) ==
    IF p.pending # NoPending /\ record[p.pending.tx] = "committed"
    THEN p.pending.loc ELSE p.cur

Effective(t) == EffectiveLocation(pointer[t])

(* finalize_pending and without_pending.                                   *)
FinalizePending(p) ==
    [p EXCEPT !.prev = p.cur, !.cur = p.pending.loc, !.pending = NoPending]
WithoutPending(p) == [p EXCEPT !.pending = NoPending]

(* Mutant of RequirementsHold: a commit's own assertion is skipped.        *)
RequirementsSkipped(o, p) == o \in Txs => base[o][p.cur.table] = p.cur

(* validate_requirements: the request asserts the snapshot its client saw. *)
(* Every commit adds a snapshot, so the location stands for it; a table    *)
(* rolled back to an earlier snapshot id is outside the model.             *)
RequirementsHold(o, p) == o \in Guarded => base[o][p.cur.table] = p.cur

----------------------------------------------------------------------------
(* Conditional writes of the object store.                                 *)

(* Mutant of PointerIs: the swap carries no condition.                     *)
SwapBlind(t, ver) == TRUE

(* PointerStore::compare_and_swap: the condition and the write.            *)
PointerIs(t, ver) == pointer[t].ver = ver
SetPointer(t, p)  == pointer' = [pointer EXCEPT ![t] = [p EXCEPT !.ver = pointer[t].ver + 1]]

(* IdempotencyStore::finalize.                                             *)
MarkerIs(k, ver) == marker[k].status # "none" /\ marker[k].ver = ver
SetMarker(k, status, l) ==
    marker' = [marker EXCEPT ![k] = [status |-> status, loc |-> l, age |-> "fresh",
                                     ver |-> @.ver + 1]]

(* TransactionStore::compare_and_swap.  A record is never in one status    *)
(* twice, so the status stands for the version.                            *)
SetRecord(x, status) == record' = [record EXCEPT ![x] = status]

(* The locals of a call: turns of the loop, pointer read, marker claimed or *)
(* read, status of the other transaction, version of its own record, tables *)
(* still to visit.                                                          *)
Fresh == [round |-> 0, ptr |-> NoPointer, mk |-> NoMarker, seen |-> "none", own |-> "none",
          todo |-> {}]

Goto(c, l, r) ==
    /\ pc' = [pc EXCEPT ![c] = l]
    /\ call' = [call EXCEPT ![c] = r]
    /\ UNCHANGED reply

On(c, l) == Goto(c, l, call[c])

Answer(c, a) ==
    /\ pc' = [pc EXCEPT ![c] = "done"]
    /\ call' = [call EXCEPT ![c] = Fresh]
    /\ reply' = [reply EXCEPT ![c] = a]

----------------------------------------------------------------------------
Live(c) == pc[c] \notin {"idle", "done", "dead"}

Init ==
    /\ pointer = [t \in Tables |-> [NoPointer EXCEPT !.ver = 1, !.cur = First(t)]]
    /\ files = [l \in {First(t) : t \in Tables} |-> <<>>]
    /\ gone = {}
    /\ marker = [k \in Keys |-> NoMarker]
    /\ record = [x \in Txs |-> "none"]
    /\ txStale = {}
    /\ op \in Mixes
    /\ base = [o \in Guarded |-> [t \in OpTables[o] |-> None]]
    /\ pc = [c \in Calls |-> "idle"]
    /\ call = [c \in Calls |-> Fresh]
    /\ reply = [c \in Calls |-> "none"]
    /\ gcMarker = None /\ gcOrphans = {}
    /\ collections = 0 /\ crashes = 0

(* A request arrives.  The first one with its key fixes what it asserts:   *)
(* the metadata its client has just read.                                  *)
Begin(c) ==
    /\ pc[c] = "idle"
    /\ On(c, IF IsTx(c) THEN "lookup" ELSE "load")
    /\ base' = [o \in Guarded |->
                  IF o = op[c] /\ \A d \in Calls : op[d] = o => pc[d] = "idle"
                  THEN [t \in OpTables[o] |-> Effective(t)] ELSE base[o]]
    /\ UNCHANGED <<storage, txStale, op, gc, crashes>>

(* Mutant of Load: takeovers are not counted.                              *)
LoadForever(c) ==
    /\ pc[c] = "load"
    /\ LET p == pointer[TableOf(c)] IN
       Goto(c, IF p.pending # NoPending THEN "pending" ELSE "claim",
            [Fresh EXCEPT !.round = call[c].round + 1, !.ptr = p])
    /\ UNCHANGED <<storage, rest>>

(* commit_table: the top of the loop.                                      *)
Load(c) ==
    /\ pc[c] = "load"
    /\ LET p == pointer[TableOf(c)] IN
       IF call[c].round = MaxTakeover THEN Answer(c, "retry")
       ELSE Goto(c, IF p.pending # NoPending THEN "pending" ELSE "claim",
                 [Fresh EXCEPT !.round = call[c].round + 1, !.ptr = p])
    /\ UNCHANGED <<storage, rest>>

----------------------------------------------------------------------------
(* What to do about the pending update of another transaction: shared by   *)
(* handle_pending_transaction and prepare_table.                           *)

At(c) == IF IsTx(c) THEN Min(call[c].todo) ELSE TableOf(c)
Other(c) == call[c].ptr.pending.tx

(* A single-table call turns to its loop again; a transaction's call gives *)
(* up its own transaction.                                                 *)
GiveUp(c, a) ==
    /\ pc' = [pc EXCEPT ![c] = "abort"]
    /\ call' = [call EXCEPT ![c].ptr = NoPointer, ![c].seen = "none"]
    /\ reply' = [reply EXCEPT ![c] = a]

Settled(c) == IF IsTx(c) THEN GiveUp(c, "retry") ELSE On(c, "load")

Pending(c) ==
    /\ pc[c] = "pending"
    /\ LET status == record[Other(c)] IN
       CASE status = "committed" -> On(c, "finalize")
         [] status \in {"none", "aborted"} -> On(c, "clear")
         [] status \in {"preparing", "prepared"} ->
              IF Other(c) \in txStale
              THEN Goto(c, "abortStale", [call[c] EXCEPT !.seen = status])
              ELSE IF IsTx(c) THEN GiveUp(c, "retry") ELSE Answer(c, "retry")
    /\ UNCHANGED <<storage, rest>>

(* Mutant of AbortStale: the loser of the race clears as well.             *)
AbortStaleUnchecked(c) ==
    /\ pc[c] = "abortStale"
    /\ IF record[Other(c)] = call[c].seen THEN SetRecord(Other(c), "aborted")
                                          ELSE UNCHANGED record
    /\ On(c, "clear")
    /\ UNCHANGED <<pointer, files, gone, marker, rest>>

(* The abort of a stale transaction: only the winner of the record's       *)
(* compare-and-swap goes on to clear the pending update.                   *)
AbortStale(c) ==
    /\ pc[c] = "abortStale"
    /\ \/ /\ record[Other(c)] = call[c].seen
          /\ SetRecord(Other(c), "aborted")
          /\ On(c, "clear")
       \/ /\ record[Other(c)] # call[c].seen
          /\ Settled(c)
          /\ UNCHANGED record
    /\ UNCHANGED <<pointer, files, gone, marker, rest>>

(* Both ignore whether the pointer has moved.                              *)
RepairPending(c) ==
    /\ pc[c] \in {"clear", "finalize"}
    /\ LET p == call[c].ptr IN
       IF PointerIs(At(c), p.ver)
       THEN SetPointer(At(c), IF pc[c] = "clear" THEN WithoutPending(p)
                                                 ELSE FinalizePending(p))
       ELSE UNCHANGED pointer
    /\ Settled(c)
    /\ UNCHANGED <<files, gone, marker, record, rest>>

----------------------------------------------------------------------------
(* commit_table: from the claim of the marker to its end.                  *)

Key(c) == op[c]
Mine(c) == MarkerIs(Key(c), call[c].mk.ver)
NextLocation(c, by) ==
    Location(TableOf(c), Len(files[call[c].ptr.cur]) + 1, Key(c), by)

(* The call's marker is written, and the call goes on with it.             *)
TakeMarker(c, l) ==
    /\ SetMarker(Key(c), "inProgress", l)
    /\ Goto(c, "write", [call[c] EXCEPT !.mk = marker'[Key(c)]])

(* A Committed marker answers with the metadata it names, if the file is   *)
(* still there; a Failed one with the failure it records.                  *)
Claim(c) ==
    /\ pc[c] = "claim"
    /\ LET m == marker[Key(c)] IN
       \/ /\ ~Exists(call[c].ptr.cur)
          /\ Answer(c, "error")
          /\ UNCHANGED marker
       \/ /\ Exists(call[c].ptr.cur) /\ m.status = "none"
          /\ TakeMarker(c, NextLocation(c, None))
       \/ /\ Exists(call[c].ptr.cur) /\ m.status = "inProgress"
          /\ Goto(c, "recheck", [call[c] EXCEPT !.mk = m])
          /\ UNCHANGED marker
       \/ /\ Exists(call[c].ptr.cur) /\ m.status \in {"committed", "failed"}
          /\ Answer(c, IF m.status = "failed" THEN "failed"
                       ELSE IF Exists(m.loc) THEN "ok" ELSE "error")
          /\ UNCHANGED marker
    /\ UNCHANGED <<pointer, files, gone, record, rest>>

(* Mutant of Recheck: another call's marker is taken for its success.      *)
RecheckAny(c) ==
    /\ pc[c] = "recheck"
    /\ On(c, "found")
    /\ UNCHANGED <<storage, rest>>

(* Another call's marker is in progress: has its metadata become current?  *)
Recheck(c) ==
    /\ pc[c] = "recheck"
    /\ LET m == call[c].mk
           current == Effective(TableOf(c)) = m.loc IN
       CASE current /\ Exists(m.loc) -> On(c, "found")
         [] current /\ ~Exists(m.loc) -> Answer(c, "error")
         [] ~current /\ m.age # "fresh" -> On(c, "takeover")
         [] ~current /\ m.age = "fresh" -> Answer(c, "retry")
    /\ UNCHANGED <<storage, rest>>

Found(c) ==
    /\ pc[c] = "found"
    /\ IF Mine(c) THEN SetMarker(Key(c), "committed", call[c].mk.loc) ELSE UNCHANGED marker
    /\ Answer(c, "ok")
    /\ UNCHANGED <<pointer, files, gone, record, rest>>

Takeover(c) ==
    /\ pc[c] = "takeover"
    /\ IF Mine(c) THEN TakeMarker(c, NextLocation(c, c))
                  ELSE On(c, "load") /\ UNCHANGED marker
    /\ UNCHANGED <<pointer, files, gone, record, rest>>

(* Steps 5 to 7: requirements, the new metadata, its file.                 *)
Write(c) ==
    /\ pc[c] = "write"
    /\ LET l == call[c].mk.loc  p == call[c].ptr IN
       IF RequirementsHold(Key(c), p) /\ ~Exists(l)
       THEN /\ files' = Put(l, History(p.cur))
            /\ gone' = gone \ {l}
            /\ On(c, "swap")
       ELSE /\ On(c, "fail")
            /\ UNCHANGED <<files, gone>>
    /\ UNCHANGED <<pointer, marker, record, rest>>

(* Step 9: the pointer moves, if it is the one that was read.              *)
Swap(c) ==
    /\ pc[c] = "swap"
    /\ LET p == call[c].ptr IN
       IF PointerIs(TableOf(c), p.ver)
       THEN /\ SetPointer(TableOf(c), [p EXCEPT !.cur = call[c].mk.loc, !.prev = p.cur,
                                                !.pending = NoPending])
            /\ On(c, "finish")
       ELSE On(c, "fail") /\ UNCHANGED pointer
    /\ UNCHANGED <<files, gone, marker, record, rest>>

(* finalize_failed_marker and finalize_committed_marker.                   *)
Fail(c) ==
    /\ pc[c] = "fail"
    /\ \/ /\ Mine(c)
          /\ SetMarker(Key(c), "failed", call[c].mk.loc)
          /\ Answer(c, "failed")
       \/ /\ ~Mine(c)
          /\ Answer(c, "retry")
          /\ UNCHANGED marker
    /\ UNCHANGED <<pointer, files, gone, record, rest>>

Finish(c) ==
    /\ pc[c] = "finish"
    /\ \/ /\ Mine(c)
          /\ SetMarker(Key(c), "committed", call[c].mk.loc)
          /\ Answer(c, "ok")
       \/ /\ ~Mine(c)
          /\ On(c, "reread")
          /\ UNCHANGED marker
    /\ UNCHANGED <<pointer, files, gone, record, rest>>

Reread(c) ==
    /\ pc[c] = "reread"
    /\ Answer(c, IF marker[Key(c)].status = "committed" THEN "ok" ELSE "retry")
    /\ UNCHANGED <<storage, rest>>

----------------------------------------------------------------------------
(* MultiTableTransactionCoordinator::commit.                               *)

Tx(c) == op[c]
Held(c) == record[Tx(c)] = call[c].own
TxLocation(c) == Location(At(c), Len(files[call[c].ptr.cur]) + 1, Tx(c), None)

(* What an existing record answers; a stale one is aborted first.          *)
Lookup(c) ==
    /\ pc[c] = "lookup"
    /\ LET status == record[Tx(c)] IN
       CASE status = "none" -> On(c, "create")
         [] status = "committed" -> Answer(c, "ok")
         [] status = "aborted" -> Answer(c, "failed")
         [] status \in {"preparing", "prepared"} ->
              IF Tx(c) \in txStale THEN Goto(c, "abortOld", [Fresh EXCEPT !.seen = status])
                                   ELSE Answer(c, "retry")
    /\ UNCHANGED <<storage, rest>>

AbortOld(c) ==
    /\ pc[c] = "abortOld"
    /\ IF record[Tx(c)] = call[c].seen THEN SetRecord(Tx(c), "aborted") ELSE UNCHANGED record
    /\ Answer(c, "retry")
    /\ UNCHANGED <<pointer, files, gone, marker, rest>>

Create(c) ==
    /\ pc[c] = "create"
    /\ IF record[Tx(c)] = "none"
       THEN /\ SetRecord(Tx(c), "preparing")
            /\ Goto(c, "prepare", [Fresh EXCEPT !.own = "preparing", !.todo = OpTables[Tx(c)]])
       ELSE /\ Answer(c, CASE record[Tx(c)] = "committed" -> "ok"
                           [] record[Tx(c)] = "aborted" -> "failed"
                           [] OTHER -> "retry")
            /\ UNCHANGED record
    /\ UNCHANGED <<pointer, files, gone, marker, rest>>

(* prepare_table, table by table in the order of their uuids: the pointer, *)
(* the new metadata file, and the pending update.                          *)
Prepare(c) ==
    /\ pc[c] = "prepare"
    /\ LET p == pointer[At(c)] IN
       Goto(c, IF p.pending # NoPending THEN "pending" ELSE "stage", [call[c] EXCEPT !.ptr = p])
    /\ UNCHANGED <<storage, rest>>

Stage(c) ==
    /\ pc[c] = "stage"
    /\ LET l == TxLocation(c)  p == call[c].ptr IN
       IF Exists(p.cur) /\ RequirementsHold(Tx(c), p)
       THEN /\ files' = IF Exists(l) THEN files ELSE Put(l, History(p.cur))
            /\ gone' = gone \ {l}
            /\ On(c, "mark")
       ELSE GiveUp(c, "failed") /\ UNCHANGED <<files, gone>>
    /\ UNCHANGED <<pointer, marker, record, rest>>

Mark(c) ==
    /\ pc[c] = "mark"
    /\ LET p == call[c].ptr  left == call[c].todo \ {At(c)} IN
       IF PointerIs(At(c), p.ver)
       THEN /\ SetPointer(At(c), [p EXCEPT !.pending = [tx |-> Tx(c), loc |-> TxLocation(c)]])
            /\ Goto(c, IF left = {} THEN "update" ELSE "prepare",
                    [call[c] EXCEPT !.todo = left, !.ptr = NoPointer])
       ELSE GiveUp(c, "failed") /\ UNCHANGED pointer
    /\ UNCHANGED <<files, gone, marker, record, rest>>

(* The record with the table entries, still Preparing.                     *)
Update(c) ==
    /\ pc[c] = "update"
    /\ IF Held(c)
       THEN /\ SetRecord(Tx(c), "prepared")
            /\ Goto(c, "barrier", [call[c] EXCEPT !.own = "prepared",
                                                  !.todo = OpTables[Tx(c)]])
       ELSE GiveUp(c, "retry") /\ UNCHANGED record
    /\ UNCHANGED <<pointer, files, gone, marker, rest>>

(* verify_commit_barrier: every pointer still carries this transaction's   *)
(* pending update (it stages one location per table, so that the check of  *)
(* the location adds nothing).                                             *)
Barrier(c) ==
    /\ pc[c] = "barrier"
    /\ LET left == call[c].todo \ {At(c)} IN
       IF pointer[At(c)].pending.tx = Tx(c)
       THEN Goto(c, IF left = {} THEN "commit" ELSE "barrier", [call[c] EXCEPT !.todo = left])
       ELSE GiveUp(c, "failed")
    /\ UNCHANGED <<storage, rest>>

(* The commit point.                                                       *)
Commit(c) ==
    /\ pc[c] = "commit"
    /\ \/ /\ Held(c)
          /\ SetRecord(Tx(c), "committed")
          /\ Goto(c, "publish", [call[c] EXCEPT !.todo = OpTables[Tx(c)]])
       \/ /\ ~Held(c)
          /\ On(c, "reload")
          /\ UNCHANGED record
    /\ UNCHANGED <<pointer, files, gone, marker, rest>>

Reload(c) ==
    /\ pc[c] = "reload"
    /\ Answer(c, IF record[Tx(c)] = "committed" THEN "ok" ELSE "retry")
    /\ UNCHANGED <<storage, rest>>

(* finalize_pointers and the clearing loop of abort_transaction: one table *)
(* at a time, best effort.  A table is passed over when its pointer moves  *)
(* between the load and the compare-and-swap.                              *)
Visit(c, p, end) ==
    /\ \/ /\ pointer[At(c)].pending.tx = Tx(c)
          /\ SetPointer(At(c), p)
       \/ UNCHANGED pointer
    /\ LET left == call[c].todo \ {At(c)} IN
       IF left = {} THEN Answer(c, end)
                    ELSE Goto(c, pc[c], [call[c] EXCEPT !.todo = left])

Publish(c) ==
    /\ pc[c] = "publish"
    /\ Visit(c, FinalizePending(pointer[At(c)]), "ok")
    /\ UNCHANGED <<files, gone, marker, record, rest>>

(* abort_transaction: the record, whether or not that succeeds, and then   *)
(* the tables that were prepared.                                          *)
Abort(c) ==
    /\ pc[c] = "abort"
    /\ IF Held(c) THEN SetRecord(Tx(c), "aborted") ELSE UNCHANGED record
    /\ LET done == IF call[c].own = "preparing" THEN OpTables[Tx(c)] \ call[c].todo
                                                ELSE OpTables[Tx(c)] IN
       IF done = {} THEN Answer(c, reply[c])
                    ELSE Goto(c, "unmark", [call[c] EXCEPT !.todo = done])
    /\ UNCHANGED <<pointer, files, gone, marker, rest>>

Unmark(c) ==
    /\ pc[c] = "unmark"
    /\ Visit(c, WithoutPending(pointer[At(c)]), reply[c])
    /\ UNCHANGED <<files, gone, marker, record, rest>>

----------------------------------------------------------------------------
(* Time: a marker becomes stale after in_progress_timeout and is the       *)
(* collector's after its lifetime and the grace period; a transaction      *)
(* becomes stale after DEFAULT_TRANSACTION_TIMEOUT.  The calls that own    *)
(* them may still be running when they are stale; no call runs for the     *)
(* collector's 24 hours of grace.                                          *)
Owns(c, k) == Live(c) /\ op[c] = k /\ Mine(c)

MarkerAges(k) ==
    /\ \/ /\ marker[k].status = "inProgress" /\ marker[k].age = "fresh"
          /\ marker' = [marker EXCEPT ![k].age = "stale"]
       \/ /\ marker[k].status # "none" /\ marker[k].age # "expired"
          /\ marker[k].status = "inProgress" => marker[k].age = "stale"
          /\ \A c \in Calls : ~Owns(c, k)
          /\ marker' = [marker EXCEPT ![k].age = "expired"]
    /\ UNCHANGED <<pointer, files, gone, record, locals, rest>>

TxAges(x) ==
    /\ record[x] \in {"preparing", "prepared"} /\ x \notin txStale
    /\ txStale' = txStale \cup {x}
    /\ UNCHANGED <<storage, locals, op, base, gc, crashes>>

Crash(c) ==
    /\ Live(c) /\ crashes < MaxCrashes
    /\ crashes' = crashes + 1
    /\ Goto(c, "dead", Fresh)
    /\ UNCHANGED <<storage, txStale, op, base, gc>>

----------------------------------------------------------------------------
(* IdempotencyGarbageCollector: list_markers, then clean_marker.           *)
GcList(k) ==
    /\ gcMarker = None /\ collections < MaxCollections
    /\ marker[k].status # "none" /\ marker[k].age = "expired"
    /\ gcMarker' = [key |-> k, read |-> marker[k],
                    step |-> IF marker[k].status = "inProgress" THEN "check" ELSE "delete"]
    /\ collections' = collections + 1
    /\ UNCHANGED <<storage, locals, txStale, op, base, gcOrphans, crashes>>

(* Mutant of GcCheck: an expired marker is taken for a committed one.      *)
GcCheckCommitted ==
    /\ gcMarker # None /\ gcMarker.step = "check"
    /\ gcMarker' = [gcMarker EXCEPT !.step = "finalize"]
    /\ UNCHANGED <<storage, locals, txStale, op, base, gcOrphans, collections, crashes>>

(* check_in_progress_action: has the marker's metadata become current?     *)
GcCheck ==
    /\ gcMarker # None /\ gcMarker.step = "check"
    /\ LET t == CHOOSE t \in OpTables[gcMarker.key] : TRUE IN
       gcMarker' = [gcMarker EXCEPT !.step =
                      IF Effective(t) = gcMarker.read.loc THEN "finalize" ELSE "delete"]
    /\ UNCHANGED <<storage, locals, txStale, op, base, gcOrphans, collections, crashes>>

(* The marker is finalized if it is the one that was listed; the delete is *)
(* unconditional.                                                          *)
GcClean ==
    /\ gcMarker # None /\ gcMarker.step \in {"finalize", "delete"}
    /\ LET k == gcMarker.key IN
       IF gcMarker.step = "delete"
       THEN marker' = [marker EXCEPT ![k] = [NoMarker EXCEPT !.ver = marker[k].ver]]
       ELSE IF MarkerIs(k, gcMarker.read.ver) THEN SetMarker(k, "committed", gcMarker.read.loc)
                                              ELSE UNCHANGED marker
    /\ gcMarker' = None
    /\ UNCHANGED <<pointer, files, gone, record, locals, txStale, op, base, gcOrphans, collections, crashes>>

(* Mutant of Allowlist: a committed pending update is not resolved.        *)
AllowStable(p) == {p.cur, p.prev}

(* MetadataGcPlanner::plan_for_table: what must be kept.                   *)
Allowlist(p) ==
    LET log  == files[EffectiveLocation(p)]
        kept == {log[i] : i \in {j \in DOMAIN log : j > Len(log) - PreviousVersionsMax}}
    IN {EffectiveLocation(p), p.cur, p.prev, p.pending.loc} \cup kept

(* A call that may have written a file which it has not published yet.     *)
Publishing(c) ==
    pc[c] \in {"swap", "mark", "prepare", "stage", "pending", "update", "barrier", "commit"}

(* clean_orphans takes the files out of the allowlist that are older than  *)
(* min_age (24 hours).  No call runs that long, so that a file which a     *)
(* running call has still to publish is too recent.                        *)
GcPlan(t) ==
    /\ gcOrphans = {} /\ collections < MaxCollections
    /\ Exists(Effective(t))
    /\ gcOrphans' = {l \in DOMAIN files \ (gone \cup Allowlist(pointer[t])) :
                       /\ l.table = t
                       /\ \A c \in Calls : Publishing(c) => op[c] # l.op}
    /\ gcOrphans' # {}
    /\ collections' = collections + 1
    /\ UNCHANGED <<storage, locals, txStale, op, base, gcMarker, crashes>>

(* The deletes, in one step: nothing looks at the orphans in between.      *)
GcSweep ==
    /\ gcOrphans # {}
    /\ gone' = gone \cup gcOrphans
    /\ gcOrphans' = {}
    /\ UNCHANGED <<pointer, files, marker, record, locals, txStale, op, base, gcMarker, collections, crashes>>

----------------------------------------------------------------------------
Step(c) ==
    \/ Begin(c) \/ Load(c) \/ Pending(c) \/ AbortStale(c) \/ RepairPending(c)
    \/ Claim(c) \/ Recheck(c) \/ Found(c) \/ Takeover(c) \/ Write(c) \/ Swap(c)
    \/ Fail(c) \/ Finish(c) \/ Reread(c)
    \/ Lookup(c) \/ AbortOld(c) \/ Create(c) \/ Prepare(c) \/ Stage(c) \/ Mark(c)
    \/ Update(c) \/ Barrier(c) \/ Commit(c) \/ Reload(c) \/ Publish(c)
    \/ Abort(c) \/ Unmark(c)

Next ==
    \/ \E c \in Calls : Step(c) \/ Crash(c)
    \/ \E k \in Keys : MarkerAges(k) \/ GcList(k)
    \/ \E x \in Txs : TxAges(x)
    \/ GcCheck \/ GcClean
    \/ \E t \in Tables : GcPlan(t)
    \/ GcSweep

Spec == Init /\ [][Next]_vars

----------------------------------------------------------------------------
HistoryOf(t) == OpsOf(History(Effective(t)))
Applied(o, t) == \E i \in DOMAIN HistoryOf(t) : HistoryOf(t)[i] = o
Answered(c, a) == pc[c] = "done" /\ reply[c] = a

Statuses == {"none", "preparing", "prepared", "committed", "aborted"}
MarkerStatuses == {"none", "inProgress", "committed", "failed"}
Locations == [table : Tables, seq : Nat, op : Ops \cup {None}, by : Calls \cup {None}]
Pointers ==
    [ver : Nat, cur : Locations \cup {None}, prev : Locations \cup {None},
     pending : {NoPending} \cup [tx : Txs, loc : Locations]]
Markers ==
    [status : MarkerStatuses, loc : Locations \cup {None},
     age : {"fresh", "stale", "expired"}, ver : Nat]

(* Every variable keeps its type; a metadata log names only files that were*)
(* written, and no call makes more turns than MAX_TAKEOVER_ATTEMPTS.       *)
TypeOK ==
    /\ pointer \in [Tables -> Pointers]
    /\ DOMAIN files \subseteq Locations /\ gone \subseteq DOMAIN files
    /\ \A l \in DOMAIN files : \A i \in DOMAIN files[l] : files[l][i] \in DOMAIN files
    /\ marker \in [Keys -> Markers]
    /\ record \in [Txs -> Statuses] /\ txStale \subseteq Txs
    /\ call \in [Calls -> [round : 0..MaxTakeover, ptr : Pointers, mk : Markers,
                            seen : Statuses, own : Statuses, todo : SUBSET Tables]]
    /\ reply \in [Calls -> {"none", "ok", "failed", "retry", "error"}]

(* Multi-table atomicity (coordinator.rs, pointer.rs: the record is the    *)
(* commit point): a committed transaction is in the history of every one   *)
(* of its tables, and any other transaction is in the history of none,     *)
(* whoever finalizes, clears or aborts what a coordinator left behind.     *)
TxAtomic ==
    \A x \in Txs : \A t \in OpTables[x] : Applied(x, t) <=> record[x] = "committed"

(* A 204 or a metadata response is the truth: the operation is in the      *)
(* history of every table it names, also when the answer was read from     *)
(* another call's marker or record.                                        *)
AckedApplied ==
    \A c \in Calls : Answered(c, "ok") => \A t \in OpTables[op[c]] : Applied(op[c], t)

(* A marker that says Committed, whoever wrote it (the call, a retry that  *)
(* found its metadata current, the collector), names an applied commit.    *)
CommittedMarkerTrue ==
    \A k \in Keys : marker[k].status = "committed" => \A t \in OpTables[k] : Applied(k, t)

(* A request that asserts the snapshot it was built on is applied at most  *)
(* once, through retries, takeovers of stale markers and markers that the  *)
(* collector deletes.                                                      *)
AppliedOnce ==
    \A o \in Ops : \A t \in OpTables[o] :
        Cardinality({i \in DOMAIN HistoryOf(t) : HistoryOf(t)[i] = o}) <= 1

(* The metadata collector never takes the file readers are sent to.        *)
CurrentReadable == \A t \in Tables : Exists(Effective(t))

(* No update is lost: a table's history only ever grows at its end, one    *)
(* commit at a time.                                                       *)
HistoryExtends ==
    [][\A t \in Tables :
         LET h == HistoryOf(t)  g == HistoryOf(t)' IN
         g = h \/ (Len(g) = Len(h) + 1 /\ IsPrefix(h, g))]_vars
=============================================================================
