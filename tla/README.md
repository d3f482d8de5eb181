# Verification of arco

arco keeps a lakehouse catalog, table-format commits and an orchestration
state in an object store, without a database. Whatever is atomic in it is one
conditional put: `DoesNotExist` or `MatchesVersion`. Everything else (locks,
fencing, reservations, idempotency, recovery) is a protocol on top of those
puts, run by API servers, compactors and workers that may stall, crash, time out
and start over between any two storage calls. This directory holds TLA+
models of those protocols, translated from the source, TLC runs for small
instances, and TLAPS proofs.

`PROJECT.json` lists components, runs, mutants, the lines each definition
models, findings, hazards and theorems. Paths below are relative to `src/`.

## Inventory

| component | state | operations | what makes it hard | correct when |
|---|---|---|---|---|
| **Distributed lock** `crates/arco-core/src/lock.rs` | one lock object (holder, expiry, sequence number); a guard per holder | `acquire`, `release`, drop, `extend`, `force_break` | a stalled holder does not know its lease is over; release and drop run late; a put may succeed and its answer be lost | tokens grow with each grant and are never reused; a running lease is exclusive |
| **Delta coordinator** `crates/arco-delta/src/coordinator.rs` | state object (latest version, one reservation), Delta log, idempotency records | `commit`, `replay_committed` | crash between reservation, log entry, record and finalisation; recovery by others while the owner still writes; retries | the log is append-only, gap-free, each commit follows the version its client read and lands once |
| **Tier-1 write path** `crates/arco-catalog/src/{writer,tier1_writer,tier1_compactor,tier1_snapshot}.rs` | lock, ledger, snapshots, manifests, manifest pointer | DDL requests, `sync_compact`, notification deliveries | compactions of several tokens at once after lapses and timeouts; ids against watermarks; leftovers of crashes | what was acknowledged is visible, history is linear, names are unique |
| **Catalog idempotency** `crates/arco-catalog/src/idempotency.rs`, `writer.rs` | one marker per key | claim, reserve, takeover, recover, finalize | takeover of a stale marker whose owner is only slow; namesakes | a key creates one entity, a cached outcome is true |
| **Iceberg commit** `crates/arco-iceberg/src/{commit,idempotency,coordinator,transactions,pointer}.rs` | table pointer with pending update, metadata files, markers, transaction records | commit, multi-table transactions | crash between pointer CAS and marker; stale markers and records; pending updates met by others | transactions are atomic, answers true, no update lost, a commit applied once |
| **Iceberg GC** `crates/arco-iceberg/src/gc.rs` | - | marker collector, metadata planner and cleaner | decides on what was listed earlier | nothing readable or needed for idempotency is deleted |
| **Orchestration fold and compactor** `crates/arco-flow/src/orchestration/compactor/` | projection tables, L0 deltas, manifest pointer | fold, delta, merge, publish | duplicated and reordered events, two compactors | the fold converges, counters and rows agree |
| **Controllers and callbacks** `crates/arco-flow/src/orchestration/{controllers,callbacks}`, `src/bin` | dispatch outbox, Cloud Tasks | trigger, cancel, dispatch, sweep, task callbacks | every producer acts on an older projection; lost callbacks, dead workers | dependencies respected, an attempt decided once, runs end |
| **Automation** `controllers/{schedule,sensor,backfill,run_request_processor}.rs` | ticks, sensor cursor, backfill chunks, run key index | reconciler, schedule edits, backfill transitions | concurrent reconcilers and edits, catch-up | no firing or item missed, limits kept, each intent has one run |
| Scheduler, leader, quotas `crates/arco-flow/src/{scheduler.rs,leader,quota}` | run queue, lease, deficit counters | schedule, elect, DRR | lease against clock | one leader, no starvation (no binary runs these) |
| Tier-2 compactor, anti-entropy `crates/arco-catalog/src/compactor.rs`, `crates/arco-compactor/src/anti_entropy.rs` | state snapshot, watermark, cursor | compact, scan | late events below the watermark, cursor races | every event is compacted |
| **Catalog GC**, reconciler `crates/arco-catalog/src/gc`, `reconciler.rs` | - | collect, report | deletes while compactions write | nothing referenced or about to be is deleted |
| Control-plane transactions `crates/arco-api/src/control_plane_transactions.rs` | tx records, locks | begin, commit, abort | ambiguous outcomes | aborted means never visible |
| **Unity Catalog facade** `crates/arco-uc` | staged payloads | commit registration | deletes the staged payload | a reservation stays recoverable |
| API, CLI, protocol code | - | adapters, I/O | - | - |

Components in bold are modelled, in whole or in part.

The lock is used by the Tier-1 write path, the notification consumer, the
orchestration compactor and the control-plane transactions. The Delta
coordinator is called by the API route `routes/delta.rs` and by the Unity
Catalog facade and uses no lock. The catalog writer calls the compactor over
HTTP with an explicit list of events and its fencing token; the notification
consumer compacts the same ledger from storage notifications. Dispatcher,
sweeper, automation reconciler and API append orchestration events and have them
compacted under the same kind of lock; workers are started by Cloud Tasks and
call back over HTTP. All shared state is in the object store.

## Modules

| module | what it is |
|---|---|
| `FencedLock` | abstract: a lease that may lapse at any time and a token that grows with every grant |
| `DistributedLock` | the lock protocol, one step per storage call; implements `FencedLock` |
| `DistributedLockProofs`, `DeltaCoordinatorProofs`, `Tier1WritePathProofs`, `CatalogIdempotencyProofs`, `IcebergCommitProofs`, `OrchestrationProofs`, `AutomationProofs` | the proofs (see below) |
| `NumberSetLemmas` | what `Min` and `Max` choose in a finite set of numbers; a set of indexes has a least one |
| `MCDistributedLock` | instances for TLC |
| `OptimisticLog` | abstract: an append-only log with optimistic concurrency |
| `DeltaCoordinator`, `MCDeltaCoordinator` | the commit protocol; implements `OptimisticLog` |
| `Tier1WritePath`, `MCTier1WritePath` | writer, compactor, consumer and snapshot collector, composed with `FencedLock` |
| `CatalogIdempotency`, `MCCatalogIdempotency` | the marker protocol of catalog creation |
| `IcebergCommit`, `MCIcebergCommit` | Iceberg commits, transactions and collectors |
| `OrchestrationFold` | what each event does to the projection of a run, and how deltas are merged |
| `Orchestration`, `MCOrchestration` | API, dispatcher, sweeper, workers and compactions around the fold |
| `Automation`, `MCAutomation` | schedules, poll sensors, backfills and run requests |

`Tier1WritePath` EXTENDS `FencedLock`, so it stands on exactly what
`DistributedLockProofs` proves of the lock (`LockRefinement`).

### DistributedLock

`obj` is the lock object: version, holder, time left, sequence number. Expiry
times are represented by the time that is left, and `Tick` takes one unit from
the record, from every record that is built and not yet written (`prep`:
`LockInfo::new` fixes the expiry before the put) and from every lease. `pc`
names the storage call a task makes next; `cas`, `seq`, `prep` are what the code
keeps between two calls; `ver`, `tok`, `lease` are the guard. Tasks that share a
`DistributedLock` share its holder id (`HolderOf`), which matters because
`release` compares holder ids. `try_acquire` is `Create`, `Head`, `Get`,
`Takeover`; `do_release` is `ReleaseGet`, `ReleasePut`; the task spawned by
`Drop` is `DropHead`, `DropGet`, `DropPut`, and outside a runtime nothing;
`extend` is `ExtendGet`, `ExtendHead`, `ExtendPut` in that order. `StorageError`
is a call that fails without effect, `LostAnswer` a put that takes effect and
reports an error, `Crash` the end of a process.

Assumed: all clocks agree (the code compares a wall-clock expiry with its own
clock). Only `LiveGuardOwnsLock` needs it: `TokensUnique`, `NewHolderHigher` and
the token part of the refinement use version preconditions only. The saturating
u64 sequence number is unbounded in the model. The module comment of `lock.rs`
says that a release deletes the lock file; the code writes an expired record,
and the mutant `ReleaseDelete` shows why that is needed. `force_break` does
delete it, and tokens start again at 1 after it: `NewHolderHigher` does not hold
with `ForceBreak` in the next-state relation either.

### DeltaCoordinator

`coord` is the state object, `log` and `records` are objects written once.
`commit()` is `Begin`, `Replay` (then `finalize_replayed_commit`, `Replay*`),
`recover_inflight` (`Recover*`), `reserve_or_resume_inflight` (`Reserve*`),
`WriteLog`, `WriteRecord` and `finalize_inflight` (`Finalize*`). `now` is the
time at which the call began, which the code uses throughout, also for
reservations that it meets later. `inReserve` tells the two callers of
`recover_inflight` apart: only `commit()` answers from a recovered reservation.
`ReplayCommitted` is the replay of the API route before it calls `commit()`.

A request stands for a `CommitDeltaRequest` together with the payload staged
for it, so equal requests have equal hashes; a reservation is resumed only for the
staged version it was made with (`sver`). Payloads in `Deletable` come
through the Unity Catalog facade (`handle_commit_registration`), which stages
a payload for a call and deletes it when its `commit()` is over
(`DeleteStaged`); all others stay. The
retry budget of a store (`max_cas_retries`) is a choice after every lost race
to go on or to give up. Expiry times are capped at the last clock value, so that
a reservation made at the bound is expirable. `MaxVersion` plays i64::MAX, where
the code's `checked_add` fails the request. Reservations of older releases,
without a read version, are not modelled.

### Tier1WritePath

A writer is one `create_catalog` request: `Acquire`, `ReadState` (duplicate
check), `ReadWatermark` (the id is generated after the watermark), `Append`,
`SyncCompact`, `Response` or `Timeout`, `Release`. A consumer takes the lock and
compacts any set of events that are in the ledger. Both start a compaction with
a state of its own, which goes on after its writer timed out or died:
`CheckLock`, `HeadPointer`, `GetPointer` (epoch, watermark, application),
`AllocManifest`, `WriteSnapshot`, `PutManifest`, `RevalidateLock`,
`PublishPointer`, with a retry loop of `CasMaxRetries`.

The content of a snapshot is the set of writers whose catalog is in it. The five
files of a snapshot are one write: the first file with different content decides
whether the directory is refused. A compaction that tries again after a lost
race meets its own files and goes on (the commit id is reserved), so a directory
is identified by its writer too. `validate_succession` repeats on the manifest
what `GetPointer` and `AllocManifest` have established and is not a step.
Sequence numbers are counted from the state after `initialize()`. Event ids are
ULIDs: with `SkewedClocks = FALSE` a new id is above all earlier ones, with TRUE
it is any id above the watermark read. `GrantWasted` stands for the other users
of the lock and for acquisitions whose answer is lost.

The collector of old snapshots is `FindOldSnapshots` and `DeletePrefix`: it
lists version directories, passes over the newest `KeepSnapshots` and those that
are `Referenced`, and deletes the rest by prefix, later. `Before` is the number
of publications that preceded the behaviour, so that there is something to
collect. The references name `.../vN/attempts/<id>/` and the candidates
`.../vN/`, so they never match, as in the code; that the visible snapshot
survives rests on `KeepSnapshots` alone. The first phase of the collector
(orphans) heads a directory name, which no object store has, and deletes
nothing; its ledger phase concerns the executions domain only. Nothing outside
tests starts the collector; its default is to keep 10.

Only the creation of catalogs is modelled. The other DDL events take the same
path with other application rules. In `tier1_race` one publication succeeds beside
those of `Before`; the theorem `HistoryIsLinear` covers longer histories.

### CatalogIdempotency

One execution of `create_catalog` is `Begin`, `Claim`, `Check`, `Recover`,
`Takeover`, `Reserve`, `Lookup`, `Append`, `Compact` and a finalisation. Its
write path is coarse: an event is applied at once, later (`ApplyLate`) or never
(`Refuse`), and only while its name is free, which is what `Tier1WritePath`
shows of the real path. `Prompt` are the keys whose calls, and the events they
leave in the ledger, are done within `DEFAULT_STALE_TIMEOUT`; the other keys
have owners that may be arbitrarily slow. `create_schema` and
`register_table_in_schema` run the same protocol and are not modelled again.
An error of the lookup is cached if it has an HTTP status and is not a lost race:
a duplicate, and a manifest or snapshot that is not found or not valid.
Seen on the way: a replay answers with whatever catalog has the name today, and
a recovery that meets a namesake answers AlreadyExists and leaves the marker in
progress.

### IcebergCommit

A call is one HTTP request; calls with one key are retries of each other. The
metadata log in a file is the table's history, so `HistoryOf` reads off which
operations a table has seen. A single-table commit is `Load` (top of the
loop), `Pending` and its repairs, `Claim`, `Recheck`, `Found`, `Takeover`,
`Write`, `Swap`, `Finish` or `Fail`. A transaction is `Lookup`, `Create`,
`Prepare`/`Stage`/`Mark` per table, `Update`, `Barrier`, `Commit` (the record),
`Publish`, or `Abort` and `Unmark`. The collectors are `GcList`, `GcCheck`,
`GcClean` for markers and `GcPlan`, `GcSweep` for metadata. `Guarded` are
the keys whose requests carry `assert-ref-snapshot-id`, as Iceberg clients send
it; what they assert is what the first request with the key read. The model compares
the metadata location where the code compares the snapshot id: every modelled commit
adds a snapshot, and a table that is rolled back to an earlier snapshot id, for
which the two differ, is outside the model.

Assumed: no call lives for the 24 hours of grace the collectors use. Receipts are
left out, as nothing decides by them. The load and the compare-and-swap of
`finalize_pointers` and of the clearing in `abort_transaction` are one step with
the choice to lose the race.

### OrchestrationFold and Orchestration

`OrchestrationFold` has one operator per fold function and no state; the
projection of one run is a record (run row, task rows, satisfied edges, outbox,
recorded keys). `Orchestration` gives it its actors. Every producer (client,
dispatcher, sweeper, each worker's callback) appends a batch made from the
projection it read (`AppendAll`), and its compaction loads the manifest
(`Load`), folds the batch and publishes it (`Publish`) as an L0 delta or as a new
base (`toBase`), unless the pointer moved (`Conflict`). The lock is not relied
on: two compactions at once count as a fault (`TakeLock`), since a lease has
lapsed then. `MaxFaults` bounds all of these: lapsed leases, lost answers,
abandoned batches, failed enqueues, duplicated deliveries, dead workers and
sweeper timeouts that strike while the task is still under way. With `Ordered`
events are folded in the order of their ids, and the ids are all 0 to save
states; without it ids are compared as the code does, and `lost` records that
the merge of a delta has dropped a row the batch had folded (`DropsRow`).
`HandleHeartbeat` is a callback that a worker sends beside its others (`Beats`);
it gives its task row a version and nothing else that is modelled.

A conflicting compaction is retried only if it met the other's snapshot object;
one that met the moved pointer fails and its producer is told
(`should_retry_publish_error`). `Conflict` takes either way, since which of the
two objects is met first depends on how far the other compaction was.

`recent` is the freshness guard of dispatcher, ready dispatch and sweeper
(`dispatcher.rs:147`, `ready_dispatch.rs:155`, `anti_entropy.rs:158`): they do
nothing once the watermark's `last_processed_at` is more than five minutes old.
`Publish` makes it true. `Lapse`, with `Quiet`, makes it false, and only when
nothing in the model is able to publish within five minutes: no batch, no delivery,
no worker that would send a heartbeat, nothing for the dispatcher, which is
called every minute. `Quiet = FALSE` is a workspace in which other runs keep the
watermark fresh. The code moves the watermark only for an id above the last
committed one (`service.rs:1918`); the model moves it with every publication,
so it is more generous to the controllers in one case, a batch that is compacted again or below
the watermark.

`RetryTimers` stands for somebody who requests the timer of a failed attempt:
nothing in the repository emits that first `TimerRequested`
(`docs/reports/2026-06-12-codebase-deep-review.md:26`). The runs have it, so that
second attempts happen, but it is never fair.

`RunEnds` therefore does not say that every run ends. A run ends or is `Wedged`
for ever, in one of three ways that nothing in the repository makes good: the
watermark is too old for every controller; a failed attempt has no timer; or the
run was cancelled while its task ran, the task failed with an attempt left and was
dispatched again (`fold.rs:2145` and the sweeper do not look at the cancellation,
`handlers.rs:328` does, and refuses each start). The last case was found by
checking the property without it. `MCOrchestration_wedged` and
`MCOrchestration_unretried` show the first two happen.

Seen on the way, not stated as properties: a crash between the manifest
snapshot and the pointer CAS leaves a snapshot with the id that later
compactions try to write; an outbox row that the fold removed comes back from
the base when deltas are merged (`fold.rs:5176-5210` tests the pruning within one
fold); a DispatchRequested folded after a cancellation inserts a Pending
outbox row; a worker is answered success although the sweeper's failure was
folded first; ids within one batch are handed out in the order of a hash map;
a rebuild replays only events after the watermark.

### Automation

One schedule, one sensor, one backfill. A call reads the projection (`Load`),
makes its events (`Create`) and has them folded (`Commit`), with any other call
in between. `Scenes` restricts a behaviour to what is interesting together:
schedule edits against reconcilers, polls against arriving items, backfill
transitions against planning, and a small mix of all. Time is in seconds, and
`Cron` are the seconds in which the schedule fires, given the API's validation
of cron expression and time zone (the error tick of an invalid definition,
`schedule.rs:124-148`, cannot arise from it). `DueTicks` is `compute_due_ticks`:
the search starts behind `Start`, one second after the last firing or at the
edge of the window. The clock is read after the projection, so `at` is any moment
between the read and the making of the events. `SensorEvents(p, ep, to)` is an
evaluation that either fails, and is then recorded with the cursor where it was
(`to` is the cursor), or requests one run per item. The evaluator itself is
external to the repository's logic; the only one it ships
(`sensor_evaluator.rs:109-117`) advances the cursor and requests nothing, and
for it `CursorCovered` makes no sense. `Fire`, `Arrive` and
`EndRun` are the world. `Lags` lets the projection be too old for the backfill
controller's freshness check. The race of compactions is left to `Orchestration`:
here a batch is folded over the current projection in one step.

Seen on the way: an edit that disables a schedule while a reconciler holds the
enabled definition can leave a Skipped tick whose key blocks the Triggered one,
with a run request that never resolves (`IntentsComplete` speaks of ticks that
triggered); the last firing is taken from the newest event and not the latest
firing; an erroneous tick uses up its firing; a
manual evaluation of a sensor (`routes/orchestration.rs:4978-5060`) writes its
message id over a poll cursor; a chunk may be planned after a pause was folded; in
a quiet system the freshness check stops all planning; the deployed resolver
counts 0 partitions in any range; pause, resume and cancel of a backfill have no
route. As chunks never leave Planned (`automation_stalled`), a slot is never freed,
so `ChunksBounded` is about filling the slots and never about refilling them.

## Runs

| run | result | what it shows |
|---|---|---|
| `lock_use` | pass | acquire, release and drop by three tasks, two with one holder id, are a fenced lock (`ImplementsFencedLock`); tokens unique and growing; a running lease is exclusive |
| `delta_race` | pass | three requests, two of them for one version, two executions, a crash anywhere, staged payloads deleted by the facade: the optimistic log is implemented, records and answers are true, the log has no hole, and the payload of a reservation that may still need it is there |
| `delta_live` | pass | a reservation always ends |
| `tier1_race` | pass | acknowledged catalogs stay visible, names are unique, the visible manifest has the files of its own attempt although old snapshots are collected, every pointer move goes to a direct successor that keeps what was visible |
| `orch_loop` | pass | two dependent tasks, one with a retry, heartbeats, a cancellation, batches compacted in any order of ids, one fault: an attempt is decided once, terminal states and recorded keys stay, no compaction takes back another's; counters and dependencies are right until a merge drops a row |
| `orch_live` | pass | one task with two attempts, one fault, a workspace that may fall silent: the run ends unless it is `Wedged` for ever |
| `orch_lost` | violation of `AlwaysCounted` | batches compacted against the order of their ids lose a completion or a cancellation |
| `iceberg_atomic` | pass | a commit with its retry and a transaction, or a transaction with its retry and another one, a crash and two collections: atomicity, true answers and markers, at most one application, readable metadata, no lost update |
| `iceberg_once` | violation of `AppliedOnce` | a commit without an assertion is applied twice under one key |
| `automation_race` | pass | a firing is passed over only for its age or right behind another one, intents complete, cursor covered, chunks bounded, polls and transitions serialised |
| `automation_stalled` | violation of `AllPlanned` | a backfill stops after `max_concurrent_runs` chunks |
| `catalog_race` | pass | one key creates one catalog, cached outcomes are true |

The violations state what a doc or a test of the repository says; each is
described under "findings" in `PROJECT.json` with the line quoted. Every
property of a passing run has a mutant, an operator next to the definition it
replaces that contains a plausible mistake and makes TLC report the property.

### Further configurations

These are kept beside the runs and answer narrower questions; they are run by
hand (`tlc -config X.cfg M`).

| configuration | result | about |
|---|---|---|
| `MCDistributedLock_full` | `ReleaseKeepsOthers` holds | with `extend` and `force_break` too, release and drop never expire the record of a younger guard |
| `MCDistributedLock_extend` | `NewHolderHigher` violated | `extend` (`lock.rs:509`) reads the record before the version its put is conditional on, so a stale guard writes its old number over a new record. `publish.rs:63`: "New lock holder always has higher token than stale holder". Nothing calls `extend` outside tests |
| `MCDeltaCoordinator_reuse` | `KeyCommitsOnce` violated | a record of another request passes for success (`coordinator.rs:618`): one key, two payloads, two Ok. `docs/guide/src/reference/api.md:52`: "reusing it with a different semantic payload returns `409 CONFLICT`" |
| `MCDeltaCoordinator_gap` | `LogContiguous` violated | the same misuse: a replay finalises a reservation of another request (`coordinator.rs:562`), `latest_version` runs ahead of the log |
| `MCTier1WritePath_skew` | `HistoryLinear` holds | event ids in any order |
| `MCTier1WritePath_lost` | `AckedVisible` violated | with skewed clocks an event below a watermark that moved is skipped and acknowledged (`tier1_compactor.rs:378`). `id.rs:267`: generate_after "protects ledger producers that publish against a persisted lexicographic watermark from local clock skew" |
| `MCTier1WritePath_stale` | `StaleRejected` violated | takeover between `revalidate_lock` and the pointer CAS (`tier1_compactor.rs:517`). `adr-018-tier1-write-path.md:88`: "the compactor rejects the stale request". History stays linear |
| `MCTier1WritePath_orphan` | `RetriesSafely` violated | files of a crashed attempt are in the directory the next one computes (`tier1_compactor.rs:439`), which is refused. `adr-034-...md:257`: "retry safely" |
| `MCTier1WritePath_keep` | `VisibleIsReadable` holds | with two snapshots kept, two writers with names of their own and two crashes, the collector spares the visible snapshot whatever orphaned attempts are listed above it |
| `MCTier1WritePath_gc` | `VisibleIsReadable` violated | with one snapshot kept, which the policy allows, an orphaned attempt above the visible version takes the kept place and the visible snapshot is deleted (`gc/collector.rs:451`). `adr-032-immutable-manifest-pointers.md:92`: "Snapshot GC never deletes currently pointer-targeted snapshots." |
| `MCOrchestration_join` | the safety invariants, `TerminalStays`, `PublishedStays` hold | a plan of three tasks with a join, events folded in the order of their ids, one fault |
| `MCOrchestration_wedged` | `RunAlwaysEnds` violated | a worker dies or a delivery is lost in a workspace without other activity: a dispatch counts as stuck after ten minutes only, the watermark is too old after five (`anti_entropy.rs:160`), and it moves only when a newer event is compacted (`service.rs:1918-1941`). `adr-020-orchestration-domain.md:137`: "Anti-entropy sweeper recovers stuck work" |
| `MCOrchestration_unretried` | `RunAlwaysEnds` violated | without any fault: the sweeper dispatches a task in RetryWait only past a deadline that a folded TimerRequested sets (`anti_entropy.rs:312`), which nothing emits. `docs/plans/2026-06-24-batches-0-3-status.md:179`: "I did not find a remaining retry/zombie gap requiring a patch in this batch." |
| `MCAutomation_dense` | `EveryTick` violated | the search for due firings starts one second after the last one and takes what is strictly after that (`schedule.rs:210-221`), so a firing one second after a recorded one gets no tick. `adr-024-...md:18`: "Cron expressions accept 5 or 6 fields (seconds optional)", `:44`: "Every schedule tick creates a `schedule_ticks` row" |
| `MCAutomation_stale` | `StaleSkipped` violated | a second poll of the same projection (epoch and cursor) has the idempotency key of the first and is dropped without a row, so its run requests, judged by the evaluation's row (`fold.rs:3508`), are taken. `adr-024-...md:62`: "Stale evaluations are logged and skipped (no run_requests processed)" |
| `MCCatalogIdempotency_slow` | `FailureHadNoEffect` violated | a slow owner's catalog becomes visible, and the call that took its marker over caches AlreadyExists as the outcome |

### Bounds

The bounds are guards of the actions they bound. Lock: three tasks are needed
for a stale guard, a holder and a contender, two of them with one holder id;
`TTL` 2 puts a tick between building and writing a record; `MaxRetries` 2 makes
one back-off; one fault. Delta: two executions, as every race is between an
owner and one other; `MaxClock` 2 with `TTL` 1 lets a reservation expire twice;
one crash; versions 0 and 1. Tier 1: two writers and one consumer; three
grants, so that two takeovers happen; two event ids for two writers; three
manifest ids beyond the initial ones; two turns of the CAS loop; two earlier
publications and two kept snapshots, so that a version becomes old.
Catalog idempotency: two executions at a time and three in all (an owner, its
takeover and a rival or a later retry), one deletion, one crash. Iceberg: three
calls, two of them with one key; two tables, since atomicity needs two; three
turns of the loop (`MAX_TAKEOVER_ATTEMPTS`); one crash, two collections;
`PreviousVersionsMax` 0 makes every old file collectable. Orchestration: two
tasks in a chain, the first with two attempts (`MCOrchestration_join` has two
upstreams and a join); one worker in the passing runs (deliveries, callbacks and
the producers still interleave), two for `orch_lost`; one fault. `orch_loop` has
nine ids: trigger and plan, request, acknowledgement, start and end of the first
task and the same of the second up to its start, or a retry, a late answer or
heartbeats instead. `orch_live` has one task and its ids are not counted, so that
no bound cuts off a run. Automation: two calls at once;
four seconds with firings in seconds 1, 3 and 4, so that two of them are one second
apart and two are not, a catch-up of two and a window of two seconds, so that a
late reconciler leaves firings behind for both reasons; two items; three chunks of which two may run.

Runs of the lock, Tier 1, catalog, Iceberg, orchestration and automation end
(bounded requests, ids or faults), so deadlock is not checked there; it is
checked in all Delta runs, where a client can always send a request again.

### Fairness

`delta_live`: weak for the steps of a running `commit()`, since an async task is
polled until it ends; weak for the clock; strong for the arrival of every
request at every worker, which is the assumption that clients retry. Nothing else
in the code clears a reservation: without further commits it stays.

`orch_live`, `MCOrchestration_wedged`, `MCOrchestration_unretried`: weak for dispatcher and sweeper,
which Cloud Scheduler calls every one and every five minutes (their steps are
disabled while the watermark is old, so no progress is assumed that the guards
would refuse); weak for Cloud Tasks, which redelivers until it is answered, and
for workers, which report some outcome unless they die; strong for each
compaction: it fails outright when it meets a moved pointer, and then its producer
acts again, as dispatcher and sweeper do at their next call and a worker when its
callback is refused. Faults, cancellation, triggers, the lapse of the watermark and retry
timers are not fair.

`automation_stalled`: weak for the reconciler's calls, which a cron job makes,
strong for what a call does after its read, and weak for the end of runs, so that
what the run shows is not a run that never ends.

## Proofs

Each proof module proves an inductive invariant, layer by layer, and derives the
properties from it. All theorems hold for any number of calls, writers and
keys, and for any value of the bounds. Each layer was first checked by TLC on the
instance of the component's run.

| module | theorems |
|---|---|
| `DistributedLockProofs` | `LockTypes`, `TokensAreUnique`, `LiveLeaseIsExclusive`, `NewHolderIsHigher`, `LockRefinement` |
| `DeltaCoordinatorProofs` | `DeltaTypes`, `LogIsContiguous`, `RecordsAndAnswersAreTrue`, `ReservationIsRecoverable`, `CoordinatorImplementsLog` |
| `Tier1WritePathProofs` | `Tier1Types`, `VisibleNamesUnique`, `HistoryIsLinear`, `AckedStaysVisible`, `VisibleStaysReadable` |
| `CatalogIdempotencyProofs` | `CatalogTypes`, `KeyCreatesOneCatalog`, `CachedOutcomeTrue` |
| `IcebergCommitProofs` | `IcebergTypes`, `TransactionsAreAtomic`, `AckedIsApplied`, `CommittedMarkersTrue`, `CurrentStaysReadable`, `HistoryOnlyExtends`, `GuardedAppliedOnce` |
| `OrchestrationProofs` | `OrchestrationTypes`, `CountersAreRight`, `DependenciesHold`, `TerminalRowsStay`, `AttemptsDecidedOnce`, `PublicationsStay` |
| `AutomationProofs` | `AutomationTypes`, `NothingSkipped`, `IntentsKept`, `NothingPassedOver`, `LimitKept`, `PollsInTurn`, `TransitionsInTurn` |

### Lock

Of `Spec` (acquire, release, drop, faults), assuming `LockAssumption` only. The
safety properties are not inductive: that a takeover keeps tokens unique depends
on what was read two calls earlier. `IndInv` adds to them

- `VersionInv`: versions are handed out once, and whatever a task remembers is
  older than the next write;
- `PutInv`: *if* the object still has the version a put is conditional on, then
  the record prepared for the put was derived from that very object (a takeover
  from an expired one, one sequence number up; a release with the same number);
- `GuardInv`: the token of a guard is at most the object's number and equal to
  it while the object is the record the guard wrote.

`IndInit` and `IndStep` (one case per action) give `LockInvariant`;
`AbstractStep` maps every step to a step of `FencedLock` or to a stutter. `extend`
breaks `PutInv`, which is what `MCDistributedLock_extend` shows on an instance.

### Delta coordinator

The theorems assume `KeysAreUsedOnce`: a client uses a key for one request, and
the payload staged under it is that request's (the facade makes the path from
the key). Without it the statements are false, as `MCDeltaCoordinator_reuse.cfg`
and `MCDeltaCoordinator_gap.cfg` show. The invariant has a shared part and one
for each running `commit()`:

- `CoordInv`, `LogInv`: a reservation is for the version after the latest one;
  an entry beyond the latest version is the reservation's; every entry is that
  of a request which read the version before it;
- `AnswerInv`: records and answers name a version that has landed;
- `SnapInv`, `RecoverInv`, `OwnInv`: whatever reservation a call has seen,
  reserved or is recovering still stands, or its version was finalised with its
  own payload (`Known`). That is the fact that makes a late `WriteLog`, a double
  recovery and a replay of a committed record harmless;
- `StageInv`: a staged payload is there, or nobody can need it any more.

`Evolve` says how the shared objects may change under a running call;
`OthersKeep` shows once that what a call knows survives any such change, so each
action is only examined for its own call. `AbstractStep` gives the refinement of
`OptimisticLog`.

### Tier-1 write path

Four layers over the lock of `FencedLock`:

- `CompactInv`: a compaction's base manifest still is the current one if the
  pointer has the version of the precondition, and the events it holds apply to
  that base. `NamesUnique` and `HistoryLinear` need nothing else: they hold
  whatever the lock does;
- `TokenInv`, `IdInv`: a token belongs to one guard, ids are handed out in order;
- `AckInv`: compactions let in under an earlier token are all for earlier events
  (`Ahead`), so that nothing passes a writer's event without applying it.
  `AckedStaysVisible` assumes `~SkewedClocks` (ids are generated in the order of
  time); `MCTier1WritePath_lost.cfg` shows the loss otherwise;
- `FilesInv`: at most one version is ahead of the visible one, and the collector
  has picked only versions behind it. `VisibleStaysReadable` assumes
  `KeepSnapshots >= 2` (the default is 10): the collector's reference check never
  matches, so that retention alone protects the visible files, and
  `MCTier1WritePath_gc.cfg` shows what a retention of one deletes.

### Catalog idempotency

Assuming `RequestAssumption` only:

- `CallInv`, `MarkerInv`, `CountInv`: types, with the argument that no call
  takes a second entity id;
- `VersionInv`: a marker that still has the version a call knows is as the call
  left or read it;
- `HolderInv`: an id belongs to one key and a key to one id, wherever it is held
  (marker, call, ledger, visible catalogs, catalogs that ever were), and the
  marker knows it until it caches a failure. `KeyCreatesOne` follows;
- `EventInv`, `PromptInv`, `FailedInv`: the calls of a prompt key (its owners are
  never overtaken while they work) work one after the other, and until one appends its
  event no catalog of the key has the name. `OutcomeTrue` follows.

### Iceberg

Assuming `IcebergAssumption` only, but for the last theorem. The invariant `IndInv`
says what the storage looks like and what a running call knows of it:

- `FileInv`, `PointerInv`: the current file of a table and the one pending on it
  are there, the collector has not picked them, and the pending file's log is
  the current file's history; the transactions in the current history are
  committed, and a committed one is in the history or pending. `TxAtomic` and
  `CurrentReadable` follow;
- `PcInv`, `PtrInv`: where a call is, and that the pointer it has read is the
  table's if the version is still the same, so that a compare-and-swap that
  succeeds writes what was derived from the pointer it replaces;
- `TxInv`: while a coordinator's record is as it left it, every table it has
  prepared carries its pending update. This makes `Commit` atomic: nobody
  clears a pending update without first aborting its record;
- `MarkerInv`, `GcInv`, `KeyInv`: markers, what the collector has read, and
  answers are true;
- `UniqueInv`: one call per transaction has created its record.

`StorageMoves` lists the ways in which a step may change the files, the pointers and
the records. From these alone follow that a table's history stays or is appended
to (`HistoryNext`, hence `HistoryExtends`), and, once for all calls, that what a
call knows survives the steps of the others (`OthersKeep`). Each action then has a
lemma that it is such a move and re-establishes what its own call knows
(`StepOK`).

`GuardedAppliedOnce` assumes that every commit asserts its snapshot
(`Keys \subseteq Guarded`; the run `iceberg_once` shows the double application
otherwise). Its invariant `OnceInv` says that once a guarded commit is in the
history the table is past the metadata it asserts, while a call that is about to
swap holds that very metadata (`BaseInv`): no second swap can succeed, although
the marker that would have stopped the retry may be stale, taken over or deleted.

### Orchestration

For any plan (tasks, dependency relation, attempts), any number of workers and
faults, and for any order in which batches are published: ids are generated before the lock is
taken, so the code does not keep them in order, and the theorems do not assume it.
What an order of ids can break is a merge that drops a row. `lost` says that this
has happened; `CountersAreRight` and `DependenciesHold` speak of behaviours before
it (and `orch_lost` shows the counters wrong after it), the others of all.
None of the properties is inductive. `Good(kept, st)` says what the published
projection looks like, where `kept` is that no merge has dropped a row:

- `PlanOK`: the run and its plan are there together, since they are one batch;
- `CloseOK`: a closed run has counted at least as many ends as it has tasks. It
  holds in any case, and keeps a run that is closed from being opened again;
- `CountsOK`, if `kept`: the counters are those of the task rows, and the run is closed
  when they meet the total. It gives `CountersMatch`;
- `DepsOK`, if `kept`: an edge comes from a task that succeeded, the number of satisfied
  dependencies is the number of edges, and so a task whose number is complete has
  all of its dependencies succeeded. It gives `DependencySafe`;
- `AttemptOK`, `KeysOK`: a task that runs or waits for a retry has the start of
  that attempt recorded, and one that waits its end too, so that the gate drops
  what comes later about the same attempt. This makes `AttemptDecidedOnce` true:
  the handler alone would decide an attempt again.

`Keeps` is what a later projection keeps of an earlier one; the action properties
are parts of it. `MergeStep` shows that a merge, which may take the older row of each
pair, keeps `Keeps` and the parts of `Good` that do not depend on `kept`: a row
whose start or end is recorded was published by the batch that recorded it, or
lost to one that was further. Each fold function has a lemma that it keeps `Good` and `Keeps`
(`StartedStep`, `FinishedStep`, `CancelStep`, `PropagateStep`, `SatisfyStep`...),
which `EventStep` puts together behind the idempotency gate. A batch is folded by
a recursive function; `FoldBatch` shows by the least index at which it could fail
that it keeps what its events keep (`FoldEventsFacts` and `ReachedFacts` show that
the recursive functions are defined, the same way). `LoopInv` says that the events
of every batch under way may be folded over whatever is visible (`BatchOK`, stable
under `Keeps`): the only condition an event depends on is that the end of an
attempt comes after its start is settled, which `WorkerOK` keeps of every worker.
A compaction that publishes has `visible` as its base, since the pointer has not
moved: that is the only place where the compare-and-swap is used, and the lock is
used nowhere.

### Automation

For any scenes, selections, limits and number of calls at once, assuming
`AutomationAssumption`: there are selections, cron seconds are positive, and there are
finitely many scenes, which bound time, items and chunks. None of the properties is inductive: what a
reconciler commits was made of a projection that several others have changed
since, and while a batch is folded the projection is in between.

- `Good` says what a published projection looks like. A tick has its key recorded,
  one that triggered has the request with its selection, and a request of a firing
  comes with a tick (`TickOK`: without the last part a tick could be added beside
  the request of another definition); a request whose key is recorded is there, and
  so is that of every run (`IndexOK`); the items behind the cursor have theirs
  (`CursorOK`); the chunks with rows are the first ones, fewer than the limit
  (`ChunkOK`).
- `SkipOK`, in `Good`, is `NoTickSkipped` with the cut-off of the last firing: a firing
  without a tick that the search will not find again (`StartCovers`) is `Covered`,
  too old or one second behind a recorded one. `SkipBatch` says the same of the
  ticks of a batch, so that it does not matter in which order two reconcilers' ticks
  are folded. Nothing is assumed of cron, window or limit.
- `Batch` says what the events of one call look like, as a set, relative to a
  projection: a tick or a chunk comes with its request and after the ones before
  it, *or those are in the projection already*; an evaluation comes with the
  requests of all items it passes, its id is nobody else's, and *if* the sensor
  still has the version that was expected, it starts at the cursor. `BatchStill`:
  this stays true as others commit, by `Later`, what a projection keeps of an
  earlier one (ticks, chunks and requests stay; the cursor moves only with the
  version).
- `Within(b, E, D, p)`: p is what the events D of the batch E have made of b. Each
  fold function keeps it (`TickedStep`, `EvaluatedStep`, `RequestedStep`,
  `ChunkStep`...), whatever the order of the events, and when all of E has been
  folded it gives `Good` again (`FoldGood`): the order in which ids are handed out
  within a batch does not matter. Here is why dropping the requests of a stale
  evaluation loses nothing: the evaluation did not move the cursor either, and an
  evaluation that did is not stale, so none of its requests was dropped.
- `ReconcileBatch`, `UpsertBatch`, `TransitionBatch`: what the controllers make of
  a good projection is a `Batch` for it. The chunks to plan are the interval after
  the planned prefix up to the limit (`PlannedInterval`), which is why two
  reconcilers with different projections cannot exceed it together.

`LoopInv` says that the published projection is `Good`, that what a call has read is
`Good` and `Later` has come since, that what it has made is a `Batch` for what is
published now, and that no two evaluations have one id. Sequences are dealt with by
their ranges: `FlattenFacts`, `AscendingFacts` and `RunFacts`
give those of the library's operators, by the least index at which they could fail.

### Only model-checked

- `ReleaseKeepsOthers` and `FullSpec` of the lock.
- All liveness.

## Plan

1. Done: lock, Delta coordinator with the facade's staged payloads, Tier-1 write
   path with the snapshot collector, catalog idempotency, Iceberg commits and
   collectors, orchestration loop, automation (all checked and proved).
2. Control-plane transactions over the outcomes of `Tier1WritePath` (applied,
   refused, unknown); the anti-entropy cursor.

## Not modelled

Anti-entropy and the Tier-2 compactor, control-plane transactions, the reconciler
(reports only), the scheduler, leader and quota modules (in memory, run by no
binary); lineage and search domains, legacy manifest migration, DDL other than
catalogs; timers' own rows, push sensors, partition status, output visibility,
backfill creation, retention and rebuild of the orchestration projection;
governance, authorisation, readers and record formats; API routing, CLI,
generated protocol code, the Python and web clients. These are formats, I/O and
adapters around the protocols above, or further instances of them. The object
store is modelled by its preconditions: a put is atomic, versions are unique,
reads see the latest write.
