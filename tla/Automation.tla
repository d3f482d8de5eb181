------------------------------ MODULE Automation ------------------------------
(***************************************************************************)
(* Schedules, poll sensors and backfills of Arco Flow: the automation      *)
(* reconciler that turns due ticks, new data and unplanned chunks into run *)
(* requests and run requests into runs, the API calls that change a        *)
(* schedule or a backfill under it, and the fold of their events           *)
(* (crates/arco-flow/src/bin/arco_flow_automation_reconciler.rs,           *)
(* orchestration/controllers/{schedule,sensor,backfill,                    *)
(* run_request_processor}.rs and orchestration/compactor/fold.rs).         *)
(*                                                                         *)
(* One schedule, one sensor and one backfill are modelled: the rows of     *)
(* different ones never touch.  Every call reads the projection, makes its *)
(* events later and has them folded later still, and several are under way *)
(* at once.  The races of the compactions themselves are the subject of    *)
(* Orchestration; here a batch is folded over the current projection and   *)
(* merged in one step.                                                     *)
(*                                                                         *)
(* Time is in seconds, the grain of a cron expression; second 0 is before  *)
(* the first firing.  The definition's cron expression and timezone are    *)
(* valid, as the API checks, so no error tick is made.  RunTriggered and   *)
(* PlanCreated, which create a run and its tasks in one batch, are one     *)
(* event.                                                                  *)
(***************************************************************************)
EXTENDS Integers, Sequences, FiniteSets, FiniteSetsExt, SequencesExt, TLC

CONSTANTS
    Actors,        \* calls that may be under way at once
    Scenes,        \* what may happen in a behaviour: the calls made (ops),
                   \* whether one may be cut short (stops), the backfill's
                   \* total_chunks (chunks) and, as bounds, the seconds that
                   \* pass (times), items, epochs and event ids (ids)
    Cron,          \* the seconds at which the schedule's cron expression fires
    Selections,    \* asset selections of the schedule; a fingerprint is one
    MaxCatchup,    \* max_catchup_ticks
    Window,        \* catchup_window_minutes, in seconds
    MaxConcurrent, \* max_concurrent_runs of the backfill
    Lags,          \* whether the projection may be too old to plan a backfill on
    None

ASSUME AutomationAssumption ==
    /\ IsFiniteSet(Actors) /\ Selections # {}
    /\ None \notin Selections \cup {"item", "chunk"} \cup Nat
    /\ Scenes # {} /\ IsFiniteSet(Scenes)
    /\ Scenes \subseteq [ops : SUBSET {"reconcile", "schedule", "backfill"},
                         stops : BOOLEAN, chunks : Nat, times : Nat, items : Nat, epochs : Nat, ids : Nat]
    /\ Lags \in BOOLEAN /\ Cron \subseteq Nat \ {0}
    /\ {MaxCatchup, Window, MaxConcurrent} \subseteq Nat \ {0}

VARIABLES
    scene,  \* which of the Scenes this behaviour plays
    proj,   \* the published projection: the rows of every table
    epoch,  \* the second at which the last compaction ended
    call,   \* what each call has read, and the events it has made
    now,    \* seconds so far
    items,  \* items at the sensor's source so far
    lastId

vars == <<scene, proj, epoch, call, now, items, lastId>>

MaxTime == Max({s.times : s \in Scenes})
MaxItems == Max({s.items : s \in Scenes})
MaxChunks == Max({s.chunks : s \in Scenes})
Times == 1 .. MaxTime
Items == 1 .. MaxItems
ChunkIndexes == 0 .. MaxChunks - 1
RunKeys == ({"sched"} \X Times) \cup ({"item"} \X Items) \cup ({"chunk"} \X ChunkIndexes)
BackfillStates == {"Running", "Paused", "Cancelled"}

(* A tick keeps the moment of the reconciliation that made it.             *)
NoTick == [status |-> "none", sel |-> None, at |-> 0, rv |-> 0]
NoRequest == [sel |-> None, eval |-> None]
Idle == [pc |-> "idle", op |-> None, view |-> None, at |-> 0, epoch |-> 0, events |-> <<>>]

Init ==
    /\ scene \in Scenes
    /\ proj = [def |-> [enabled |-> TRUE, sel |-> CHOOSE s \in Selections : TRUE, rv |-> 0],
               last |-> [at |-> 0, rv |-> 0],
               tick |-> [t \in Times |-> NoTick],
               sensor |-> [cursor |-> 0, version |-> 1, rv |-> 0],
               evals |-> {},
               backfill |-> [state |-> "Running", version |-> 1, planned |-> 0, rv |-> 0],
               chunk |-> [c \in ChunkIndexes |-> [state |-> "none", rv |-> 0]],
               index |-> [k \in RunKeys |-> NoRequest],
               conflicts |-> {},
               run |-> [k \in RunKeys |-> "none"],
               keys |-> {}]
    /\ epoch = 0 /\ now = 0 /\ items = 0 /\ lastId = 0
    /\ call = [a \in Actors |-> Idle]

(***************************************************************************)
(* Folding one event.  Each fold returns the projection and whether the    *)
(* event applied, which decides whether its idempotency key is recorded.   *)
(***************************************************************************)
Applied(p) == [p |-> p, applied |-> TRUE]
Ignored(p) == [p |-> p, applied |-> FALSE]

FoldDefinitionUpserted(p, e) ==
    IF e.id <= p.def.rv THEN Ignored(p)
    ELSE Applied([p EXCEPT !.def = [enabled |-> e.enabled, sel |-> e.sel, rv |-> e.id]])

(* The last firing is the one of the newest event, not the latest one.     *)
FoldTicked(p, e) ==
    LET newer == e.id > p.last.rv
        known == p.tick[e.t] # NoTick /\ e.id <= p.tick[e.t].rv
        moved == IF newer THEN [p EXCEPT !.last = [at |-> e.t, rv |-> e.id]] ELSE p
    IN  IF known THEN [p |-> moved, applied |-> newer]
        ELSE Applied([moved EXCEPT !.tick[e.t] =
                            [status |-> e.status, sel |-> e.sel, at |-> e.at, rv |-> e.id]])

(* Mutant: a stale evaluation still moves the cursor.                      *)
FoldEvaluatedAnyway(p, e) ==
    LET stale == p.sensor.version # e.expected
        row == [id |-> e.eval, from |-> e.from, to |-> e.to, stale |-> stale]
        seen == [p EXCEPT !.evals = @ \cup {row}]
    IN  IF e.id <= p.sensor.rv THEN Applied(seen)
        ELSE Applied([seen EXCEPT !.sensor =
                [cursor |-> e.to, version |-> @.version + 1, rv |-> e.id]])

(* Mutant: no compare-and-swap on the state version.                       *)
FoldEvaluatedNoCas(p, e) ==
    LET row == [id |-> e.eval, from |-> e.from, to |-> e.to, stale |-> FALSE]
        seen == [p EXCEPT !.evals = @ \cup {row}]
    IN  IF e.id <= p.sensor.rv THEN Applied(seen)
        ELSE Applied([seen EXCEPT !.sensor =
                [cursor |-> e.to, version |-> @.version + 1, rv |-> e.id]])

FoldEvaluated(p, e) ==
    LET stale == p.sensor.version # e.expected
        row == [id |-> e.eval, from |-> e.from, to |-> e.to, stale |-> stale]
        seen == [p EXCEPT !.evals = @ \cup {row}]
    IN  IF stale \/ e.id <= p.sensor.rv THEN Applied(seen)
        ELSE Applied([seen EXCEPT !.sensor =
                [cursor |-> e.to, version |-> @.version + 1, rv |-> e.id]])

(* A request of a stale evaluation is dropped; one whose evaluation has no *)
(* row is not.                                                             *)
FromStale(p, e) == \E v \in p.evals : v.id = e.eval /\ v.stale

FoldRequested(p, e) ==
    IF FromStale(p, e) THEN Ignored(p)
    ELSE IF p.index[e.key] = NoRequest
    THEN Applied([p EXCEPT !.index[e.key] = [sel |-> e.sel, eval |-> e.eval]])
    ELSE IF p.index[e.key].sel # e.sel
    THEN Applied([p EXCEPT !.conflicts = @ \cup {<<e.key, e.sel>>}])
    ELSE Applied(p)

(* The first index from n on that has no chunk row.                        *)
NextGap(p, n) == Min({c \in n .. MaxChunks : c = MaxChunks \/ p.chunk[c].state = "none"})

FoldChunkPlanned(p, e) ==
    LET old == p.chunk[e.c]
        added == [p EXCEPT !.chunk[e.c] = [state |-> "Planned", rv |-> e.id]]
        gap == NextGap(added, p.backfill.planned)
    IN  IF old.state # "none" /\ e.id <= old.rv THEN Ignored(p)
        ELSE IF gap = p.backfill.planned THEN Applied(added)
        ELSE Applied([added EXCEPT !.backfill.planned = gap, !.backfill.rv = e.id])

IsValidTransition(from, to) ==
    <<from, to>> \in {<<"Paused", "Running">>, <<"Running", "Paused">>,
                      <<"Running", "Cancelled">>, <<"Paused", "Cancelled">>}

(* Mutant: the event is applied whatever state and version it was made for.*)
FoldStateChangedBlind(p, e) ==
    IF e.id <= p.backfill.rv THEN Ignored(p)
    ELSE Applied([p EXCEPT !.backfill.state = e.to, !.backfill.version = e.version,
                           !.backfill.rv = e.id])

FoldStateChanged(p, e) ==
    IF \/ e.id <= p.backfill.rv
       \/ p.backfill.state # e.from
       \/ ~IsValidTransition(e.from, e.to)
       \/ e.version # p.backfill.version + 1
    THEN Ignored(p)
    ELSE Applied([p EXCEPT !.backfill.state = e.to, !.backfill.version = e.version,
                           !.backfill.rv = e.id])

FoldRunTriggered(p, e) ==
    IF p.run[e.key] # "none" THEN Ignored(p) ELSE Applied([p EXCEPT !.run[e.key] = "active"])

(***************************************************************************)
(* Idempotency keys.  Those of a schedule's definition are made by the API *)
(* and are as good as unique.                                              *)
(***************************************************************************)
(* Mutant: the key of a tick tells its selection.                          *)
KeyOfContent(e) ==
    CASE e.type = "ticked" -> <<"tick", e.t, e.status, e.sel>>
      [] e.type = "evaluated" -> <<"eval", e.epoch, e.from>>
      [] e.type = "requested" -> <<"runreq", e.key, e.sel>>
      [] e.type = "chunk" -> <<"chunk", e.c>>
      [] e.type = "changed" -> <<"state", e.version, e.to>>
      [] e.type = "run" -> <<"run", e.key>>
      [] e.type = "upserted" -> <<"def", e.id>>

Key(e) ==
    CASE e.type = "ticked" -> <<"tick", e.t>>
      [] e.type = "evaluated" -> <<"eval", e.epoch, e.from>>
      [] e.type = "requested" -> <<"runreq", e.key, e.sel>>
      [] e.type = "chunk" -> <<"chunk", e.c>>
      [] e.type = "changed" -> <<"state", e.version, e.to>>
      [] e.type = "run" -> <<"run", e.key>>
      [] e.type = "upserted" -> <<"def", e.id>>

Handle(p, e) ==
    CASE e.type = "ticked" -> FoldTicked(p, e)
      [] e.type = "evaluated" -> FoldEvaluated(p, e)
      [] e.type = "requested" -> FoldRequested(p, e)
      [] e.type = "chunk" -> FoldChunkPlanned(p, e)
      [] e.type = "changed" -> FoldStateChanged(p, e)
      [] e.type = "run" -> FoldRunTriggered(p, e)
      [] e.type = "upserted" -> FoldDefinitionUpserted(p, e)

FoldEvent(p, e) ==
    LET r == Handle(p, e) IN
    IF Key(e) \in p.keys THEN p
    ELSE IF r.applied THEN [r.p EXCEPT !.keys = @ \cup {Key(e)}] ELSE r.p

(* The published rows are merged: a backfill row by state version and then *)
(* row version, any other row by row version.  Only the backfill row can   *)
(* have been folded to a lower row version than it had.                    *)
MergeBackfill(old, new) ==
    IF new.version = old.version /\ new.rv < old.rv THEN old ELSE new

Fold(p, events) ==
    LET F[n \in 0 .. Len(events)] ==
            IF n = 0 THEN p ELSE FoldEvent(F[n - 1], events[n])
        q == F[Len(events)]
    IN  [q EXCEPT !.backfill = MergeBackfill(p.backfill, q.backfill)]

(***************************************************************************)
(* What the reconciler makes of a projection it read at moment `at`.       *)
(***************************************************************************)
(* The numbers of a set in ascending order.                                *)
Ascending(S) ==
    [i \in 1 .. Cardinality(S) |-> CHOOSE c \in S : Cardinality({d \in S : d < c}) = i - 1]

(* The first n numbers of a set.                                           *)
FirstOf(S, n) == {c \in S : Cardinality({d \in S : d < c}) < n}

(* Mutant: a second is added to the start of the search as well.           *)
LateStart(p, at) ==
    IF p.last.at = 0 THEN at - Window ELSE Max({p.last.at + 2, at - Window})

(* The search for firings starts behind this second.                       *)
Start(p, at) ==
    IF p.last.at = 0 THEN at - Window ELSE Max({p.last.at + 1, at - Window})

(* Mutant: firings still to come are due.                                  *)
EarlyTicks(p, at) == Ascending(FirstOf({t \in Cron : Start(p, at) < t /\ t <= MaxTime}, MaxCatchup))

(* The firings behind the start, oldest first.                             *)
DueTicks(p, at) == Ascending(FirstOf({t \in Cron : Start(p, at) < t /\ t <= at}, MaxCatchup))

Requested(key, sel, eval) == [type |-> "requested", key |-> key, sel |-> sel, eval |-> eval]

(* A schedule that is disabled still records its firings.                  *)
TickEvents(p, at, t) ==
    IF p.def.enabled
    THEN <<[type |-> "ticked", t |-> t, at |-> at, status |-> "triggered", sel |-> p.def.sel],
           Requested(<<"sched", t>>, p.def.sel, None)>>
    ELSE <<[type |-> "ticked", t |-> t, at |-> at, status |-> "skipped", sel |-> None]>>

ScheduleEvents(p, at) ==
    FlattenSeq([i \in DOMAIN DueTicks(p, at) |-> TickEvents(p, at, DueTicks(p, at)[i])])

(* What the evaluator found up to item `to`: one run per item behind the   *)
(* cursor that was read.  An evaluation that fails leaves the cursor where *)
(* it was and requests nothing, but is recorded like any other.            *)
SensorEvents(p, ep, to) ==
    <<[type |-> "evaluated", eval |-> lastId, from |-> p.sensor.cursor, to |-> to,
       expected |-> p.sensor.version, epoch |-> ep]>>
    \o [i \in 1 .. to - p.sensor.cursor |->
            Requested(<<"item", p.sensor.cursor + i>>, "item", lastId)]

(* Mutant: the limit holds for each reconciliation on its own.             *)
CountNone(p) == 0

(* A chunk stays Planned, so it counts as active however its run ended.    *)
CountActive(p) ==
    Cardinality({c \in ChunkIndexes :
        \/ p.chunk[c].state \in {"Planned", "Running"}
        \/ p.chunk[c].state # "none" /\ p.run[<<"chunk", c>>] = "active"})

PlanChunk(c) == <<[type |-> "chunk", c |-> c], Requested(<<"chunk", c>>, "chunk", None)>>

BackfillEvents(p) ==
    LET room == MaxConcurrent - CountActive(p)
        missing == {c \in p.backfill.planned .. scene.chunks - 1 : p.chunk[c].state = "none"}
        order == Ascending(FirstOf(missing, room))
    IN  IF p.backfill.state # "Running" THEN <<>>
        ELSE FlattenSeq([i \in DOMAIN order |-> PlanChunk(order[i])])

(* The payload of a request is looked up in the row it came from.          *)
Resolves(p, key) ==
    CASE key[1] = "sched" -> /\ p.tick[key[2]].status = "triggered"
                             /\ p.tick[key[2]].sel = p.index[key].sel
      [] key[1] = "item" -> \E v \in p.evals : v.from < key[2] /\ key[2] <= v.to
      [] key[1] = "chunk" -> p.chunk[key[2]].state # "none"

RunEvents(p) ==
    LET due == {k \in RunKeys :
                    p.index[k] # NoRequest /\ p.run[k] = "none" /\ Resolves(p, k)}
        order == SetToSeq(due)
    IN  [i \in DOMAIN order |-> [type |-> "run", key |-> order[i]]]

(* A backfill whose projection is stale is not planned; a sensor that was  *)
(* evaluated a moment ago is not evaluated.                                *)
ReconcileEvents(p, at, ep, poll, to, fresh) ==
    ScheduleEvents(p, at)
    \o (IF poll THEN SensorEvents(p, ep, to) ELSE <<>>)
    \o (IF fresh THEN BackfillEvents(p) ELSE <<>>)
    \o RunEvents(p)

(* The owner of the schedule enables or disables it or replaces its        *)
(* selection.                                                              *)
UpsertSchedule(p, enabled, sel) ==
    IF p.def.enabled = enabled /\ p.def.sel = sel THEN <<>>
    ELSE <<[type |-> "upserted", enabled |-> enabled, sel |-> sel]>>

(* The owner of the backfill pauses, resumes or cancels it.                *)
Transition(p, to) ==
    IF IsValidTransition(p.backfill.state, to)
    THEN <<[type |-> "changed", from |-> p.backfill.state, to |-> to,
            version |-> p.backfill.version + 1]>>
    ELSE <<>>

(* What a call of each kind may make of what it read.  The clock is read   *)
(* after the projection, the sensor's source when it is polled.            *)
EventsOf(c) ==
    CASE c.op = "reconcile" ->
            {ReconcileEvents(c.view, at, c.epoch, poll, to, fresh) :
                at \in c.at .. now,
                poll \in (IF scene.items > 0 THEN BOOLEAN ELSE {FALSE}),
                to \in {c.view.sensor.cursor, items},
                fresh \in (IF Lags THEN BOOLEAN ELSE {TRUE})}
      [] c.op = "schedule" ->
            {UpsertSchedule(c.view, enabled, sel) : enabled \in BOOLEAN, sel \in Selections}
      [] c.op = "backfill" -> {Transition(c.view, to) : to \in BackfillStates}

(***************************************************************************)
(* The steps of a call.                                                    *)
(***************************************************************************)
Load(a, op) ==
    /\ call[a].pc = "idle" /\ op \in scene.ops
    /\ call' = [call EXCEPT ![a] = [pc |-> "loaded", op |-> op, view |-> proj, at |-> now,
                                    epoch |-> epoch, events |-> <<>>]]
    /\ UNCHANGED <<scene, proj, epoch, now, items, lastId>>

(* The ids of a process increase from event to event.                      *)
WithId(e, id) == [f \in DOMAIN e \cup {"id"} |-> IF f = "id" THEN id ELSE e[f]]

WithIds(events) == [i \in DOMAIN events |-> WithId(events[i], lastId + i)]

Create(a) ==
    /\ call[a].pc = "loaded"
    /\ \E events \in EventsOf(call[a]) :
        /\ lastId + Len(events) <= scene.ids
        /\ lastId' = lastId + Len(events)
        /\ call' = [call EXCEPT ![a] =
                IF events = <<>> THEN Idle
                ELSE [Idle EXCEPT !.pc = "created", !.events = WithIds(events)]]
    /\ UNCHANGED <<scene, proj, epoch, now, items>>

(* Append and compaction of the batch; the second may or may not be over   *)
(* since the last one.                                                     *)
Commit(a) ==
    /\ call[a].pc = "created"
    /\ proj' = Fold(proj, call[a].events)
    /\ epoch' \in epoch .. Min({epoch + 1, scene.epochs})
    /\ call' = [call EXCEPT ![a] = Idle]
    /\ UNCHANGED <<scene, now, items, lastId>>

(* The process of a call stops, or the append fails.                       *)
Stop(a) ==
    /\ call[a].pc # "idle" /\ scene.stops
    /\ call' = [call EXCEPT ![a] = Idle]
    /\ UNCHANGED <<scene, proj, epoch, now, items, lastId>>

Fire ==
    /\ now < scene.times /\ now' = now + 1
    /\ UNCHANGED <<scene, proj, epoch, call, items, lastId>>

Arrive ==
    /\ items < scene.items /\ items' = items + 1
    /\ UNCHANGED <<scene, proj, epoch, call, now, lastId>>

(* The run of a chunk ends, by the work of Orchestration; nothing here     *)
(* looks at the end of another run.                                        *)
EndRun(c) ==
    /\ proj.run[<<"chunk", c>>] = "active"
    /\ proj' = [proj EXCEPT !.run[<<"chunk", c>>] = "ended"]
    /\ UNCHANGED <<scene, epoch, call, now, items, lastId>>

Next ==
    \/ \E a \in Actors : (\E op \in scene.ops : Load(a, op)) \/ Create(a) \/ Commit(a) \/ Stop(a)
    \/ Fire \/ Arrive
    \/ \E c \in ChunkIndexes : EndRun(c)

Spec == Init /\ [][Next]_vars

(* The reconciler is called by a cron job for ever, its calls end, and     *)
(* every run ends.                                                         *)
Fairness ==
    /\ \A a \in Actors : /\ WF_vars(Load(a, "reconcile"))
                         /\ SF_vars(Create(a)) /\ SF_vars(Commit(a))
    /\ \A c \in ChunkIndexes : WF_vars(EndRun(c))

FairSpec == Spec /\ Fairness

(***************************************************************************)
(* Properties.                                                             *)
(***************************************************************************)
EventTypes == {"ticked", "evaluated", "requested", "chunk", "changed", "run", "upserted"}

(* Every table holds rows of its kind, and every call is in a known stage. *)
TypeOK ==
    /\ scene \in Scenes
    /\ proj.def.enabled \in BOOLEAN /\ proj.def.sel \in Selections
    /\ proj.last.at \in 0 .. now
    /\ \A t \in Times : proj.tick[t].status \in {"none", "skipped", "triggered"}
    /\ proj.sensor.cursor \in 0 .. MaxItems /\ proj.sensor.version \in Nat
    /\ proj.backfill.state \in BackfillStates
    /\ proj.backfill.planned \in 0 .. MaxChunks
    /\ \A k \in RunKeys : proj.run[k] # "none" => proj.index[k] # NoRequest
    /\ \A a \in Actors : /\ call[a].pc \in {"idle", "loaded", "created"}
                         /\ \A e \in Range(call[a].events) : /\ e.type \in EventTypes
                                                              /\ e.id \in 1 .. lastId

(* Catch-up passes over a firing for one of two reasons only: it was older *)
(* than the catch-up window when a later one was recorded, or it follows a *)
(* firing that was recorded within a second; however many reconcilers      *)
(* worked from projections of different ages, and in whatever order their  *)
(* events were folded (schedule.rs compute_due_ticks, fold.rs              *)
(* fold_schedule_ticked).                                                  *)
NoTickSkipped ==
    \A t, u \in Cron \cap Times :
        t < u /\ proj.tick[t] = NoTick /\ proj.tick[u] # NoTick =>
            \/ t <= proj.tick[u].at - Window
            \/ t - 1 \in Cron /\ proj.tick[t - 1] # NoTick

(* What ADR-024 says of catch-up: no firing within the catch-up window is  *)
(* lost, so whenever a later one is recorded it has its tick.              *)
EveryTick ==
    \A t, u \in Cron \cap Times :
        t < u /\ proj.tick[t] = NoTick /\ proj.tick[u] # NoTick =>
            t <= proj.tick[u].at - Window

(* A tick that triggered and a chunk that is planned have their run        *)
(* requested, with the fingerprint the run request processor looks for, so *)
(* the run can be created; although another reconciler may have read a     *)
(* different definition (fold.rs fold_schedule_ticked, fold_run_requested, *)
(* run_request_processor.rs resolve_from_schedule_ticks).                  *)
IntentsComplete ==
    /\ \A t \in Times : proj.tick[t].status = "triggered" =>
            proj.index[<<"sched", t>>].sel = proj.tick[t].sel
    /\ \A c \in ChunkIndexes : proj.chunk[c].state # "none" =>
            proj.index[<<"chunk", c>>] # NoRequest

(* No data is passed over: every item behind the sensor's cursor has had   *)
(* its run requested, although polls race and stale ones are dropped with  *)
(* their requests (fold.rs fold_sensor_evaluated).                         *)
CursorCovered == \A i \in 1 .. proj.sensor.cursor : proj.index[<<"item", i>>] # NoRequest

(* Concurrent reconcilers never have more chunks under way than may run at *)
(* once, and the chunks planned have no gap between them, whatever is      *)
(* paused and resumed meanwhile (backfill.rs reconcile,                    *)
(* fold_backfill_chunk_planned).                                           *)
ChunksBounded ==
    LET planned == {c \in ChunkIndexes : proj.chunk[c].state # "none"}
        underWay == {c \in planned : proj.run[<<"chunk", c>>] # "ended"}
    IN  /\ Cardinality(underWay) <= MaxConcurrent
        /\ planned = 0 .. Cardinality(planned) - 1
        /\ proj.backfill.planned <= Cardinality(planned)

(* Polls of a sensor take effect one after another: whenever the cursor    *)
(* moves, it is by an evaluation that started from the cursor it replaces, *)
(* so no two evaluations of the same stretch of data are applied (the      *)
(* compare-and-swap on state_version in fold.rs fold_sensor_evaluated).    *)
PollsSerialised ==
    [][proj'.sensor.cursor # proj.sensor.cursor =>
         \E v \in proj'.evals \ proj.evals :
            /\ v.from = proj.sensor.cursor /\ v.to = proj'.sensor.cursor
            /\ ~v.stale]_vars

(* A backfill changes state one version at a time, by a transition its     *)
(* state machine has, so of a pause and a cancellation that were decided   *)
(* on the same version one takes effect, and a cancelled backfill stays    *)
(* cancelled (fold.rs fold_backfill_state_changed, merge_backfill_rows).   *)
TransitionsSerial ==
    [][LET old == proj.backfill
           new == proj'.backfill
       IN  IF new.state = old.state THEN new.version = old.version
           ELSE new.version = old.version + 1 /\ IsValidTransition(old.state, new.state)]_vars

(* What ADR-024 says of concurrent polls: the run requests of a stale      *)
(* evaluation are not processed.  An evaluation that is dropped as a       *)
(* duplicate leaves no row, so its requests are taken.                     *)
StaleSkipped ==
    \A k \in RunKeys : proj.index[k].eval # None =>
        \E v \in proj.evals : v.id = proj.index[k].eval /\ ~v.stale

(* What ADR-025 says of a running backfill: the next chunk is planned when *)
(* the runs of earlier ones have ended.                                    *)
AllPlanned == <>(proj.backfill.planned = scene.chunks)
==============================================================================
