---------------------------- MODULE Orchestration ----------------------------
(***************************************************************************)
(* The orchestration loop of Arco Flow around OrchestrationFold: the API   *)
(* that triggers and cancels a run, the dispatcher and the anti-entropy    *)
(* sweeper that read the published projection and emit events, the workers *)
(* that are started by Cloud Tasks and call back, and the compactions that *)
(* fold what they all append and publish it by compare-and-swap            *)
(* (crates/arco-flow/src/bin, orchestration/controllers, callbacks and     *)
(* compactor; crates/arco-api/src/orchestration_compaction.rs).            *)
(*                                                                         *)
(* Every producer generates its events from a projection it read earlier,  *)
(* appends them and compacts exactly these, so between the read and the    *)
(* publication any other producer's batch may be published.  The           *)
(* compaction lock serialises most of this but expires under its holder;   *)
(* nothing here relies on it.  Timeouts (a task ready, dispatched or       *)
(* silent for too long) may strike whenever the state allows them, but the *)
(* dispatcher and the sweeper do nothing once the watermark of the         *)
(* projection is older than the maximum lag.                               *)
(***************************************************************************)
EXTENDS OrchestrationFold

CONSTANTS
    Workers,     \* worker processes
    Beats,       \* heartbeat requests the workers may have under way at once
    Quiet,       \* TRUE: no other run of the workspace need be active, so the
                 \* watermark may grow older than the maximum lag
    RetryTimers, \* TRUE: something outside the repository requests the timer
                 \* of a failed attempt; nothing in the repository does
    MaxFaults,   \* bound: failed or unanswered compactions, failed enqueues,
                 \* crashed workers, duplicated deliveries
    MaxId        \* bound: event ids, when they are not Ordered

ASSUME LoopAssumption ==
    /\ (Workers \cup Beats) \cap {"client", "dispatcher", "sweeper"} = {}
    /\ Workers \cap Beats = {}
    /\ RetryTimers \in BOOLEAN /\ Quiet \in BOOLEAN
    /\ MaxFaults \in Nat /\ MaxId \in Nat

VARIABLES
    visible,    \* the projection the manifest pointer stands for
    l0,         \* whether the manifest lists deltas over its base snapshot
    recent,     \* whether its watermark is within the maximum lag
    batch,      \* what each producer has appended and not yet published
    dispatcher, \* dispatcher run: what it does next, rows it read as pending
    worker,     \* worker: what it does next and for which dispatch
    cloud,      \* Cloud Tasks: dispatches waiting for delivery
    named,      \* dispatches whose task name Cloud Tasks has already seen
    asked,      \* whether the client has triggered the run
    lastId, faults,
    lost        \* history: whether a publication has dropped a row it folded

Producers == {"client", "dispatcher", "sweeper"} \cup Workers \cup Beats

vars == <<visible, l0, recent, batch, dispatcher, worker, cloud, named, asked, lastId,
          faults, lost>>

(* What only publications and the passing of time change.                  *)
manifest == <<visible, l0, recent, lost>>

NoBatch == [stage |-> "none", events |-> <<>>, base |-> EmptyState, fresh |-> FALSE]
Idle == [pc |-> "idle", rows |-> {}]
Free == [pc |-> "idle", job |-> <<>>]

Init ==
    /\ visible = EmptyState /\ l0 = FALSE /\ recent = FALSE /\ lost = FALSE
    /\ batch = [p \in Producers |-> NoBatch]
    /\ dispatcher = Idle
    /\ worker = [w \in Workers |-> Free]
    /\ cloud = {} /\ named = {}
    /\ asked = FALSE /\ lastId = 0 /\ faults = 0

Fault == faults < MaxFaults /\ faults' = faults + 1

(***************************************************************************)
(* Producing.  The ids of a batch are generated with its events, before    *)
(* the lock is taken; their order is the order they are folded in.         *)
(***************************************************************************)
Event(type, t, n) == [type |-> type, task |-> t, attempt |-> n, outcome |-> "none"]
Finished(t, n, outcome) == [Event("finished", t, n) EXCEPT !.outcome = outcome]

Numbered(events) ==
    [i \in DOMAIN events |->
        [type |-> events[i].type, task |-> events[i].task, attempt |-> events[i].attempt,
         outcome |-> events[i].outcome, id |-> IF Ordered THEN 0 ELSE lastId + i]]

(* Another compaction is under way only if its lease has lapsed.           *)
TakeLock == IF \E q \in Producers : batch[q].stage = "loaded" THEN Fault ELSE UNCHANGED faults

Emit(p, events, stage) ==
    /\ batch[p].stage = "none"
    /\ ~Ordered => lastId + Len(events) <= MaxId
    /\ lastId' = IF Ordered THEN lastId ELSE lastId + Len(events)
    /\ batch' = [batch EXCEPT ![p] =
            [stage |-> stage, events |-> Numbered(events), fresh |-> stage = "loaded",
             base |-> IF stage = "loaded" THEN visible ELSE EmptyState]]

AppendAll(p, events) == Emit(p, events, "appended")

(***************************************************************************)
(* The API.                                                                *)
(***************************************************************************)
Trigger ==
    /\ ~asked /\ asked' = TRUE
    /\ \E events \in SetToSeqs({Event("run", "none", 0), Event("plan", "none", 0)}) :
            AppendAll("client", events)
    /\ UNCHANGED <<manifest, dispatcher, worker, cloud, named, faults>>

(* A cancellation reads the projection and generates its event under the   *)
(* lock.                                                                   *)
CancelRun ==
    /\ visible.run.state # "Absent"
    /\ ~visible.run.cancel /\ ~IsTerminal(visible.run.state)
    /\ TakeLock
    /\ Emit("client", <<Event("cancel_req", "none", 0)>>, "loaded")
    /\ UNCHANGED <<manifest, dispatcher, worker, cloud, named, asked>>

RequestRetry(t) ==
    /\ RetryTimers
    /\ visible.task[t].state = "RetryWait" /\ ~visible.task[t].retry
    /\ AppendAll("client", <<Event("timer_req", t, visible.task[t].attempt)>>)
    /\ UNCHANGED <<manifest, dispatcher, worker, cloud, named, asked, faults>>

(***************************************************************************)
(* The dispatcher: one read serves the ready tasks and the outbox.         *)
(***************************************************************************)
Next1(n) == IF n = 0 THEN 1 ELSE n   \* attempt.max(1)

NeedsDispatch(st) ==
    {t \in Tasks : /\ st.task[t].state = "Ready" /\ ~st.run.cancel
                   /\ st.outbox[<<t, Next1(st.task[t].attempt)>>] = NoRow}

PendingRows(st) == {d \in DOMAIN st.outbox : st.outbox[d].status = "Pending"}

DispatcherRun ==
    LET ready == {Event("dispatch_req", t, Next1(visible.task[t].attempt)) :
                        t \in NeedsDispatch(visible)}
        rows == PendingRows(visible)
    IN  /\ recent /\ dispatcher.pc = "idle" /\ (ready # {} \/ rows # {})
        /\ IF ready = {}
           THEN /\ dispatcher' = [pc |-> "enqueue", rows |-> rows]
                /\ UNCHANGED <<batch, lastId>>
           ELSE /\ dispatcher' = [pc |-> "request", rows |-> rows]
                /\ \E events \in SetToSeqs(ready) : AppendAll("dispatcher", events)
        /\ UNCHANGED <<manifest, worker, cloud, named, asked, faults>>

(* A name Cloud Tasks has seen is deduplicated; both answers are reported. *)
DispatcherEnqueue ==
    /\ dispatcher.pc = "enqueue" /\ dispatcher.rows # {}
    /\ \E ok \in SUBSET dispatcher.rows :
        /\ IF ok = dispatcher.rows THEN UNCHANGED faults ELSE Fault
        /\ cloud' = cloud \cup (ok \ named)
        /\ named' = named \cup ok
        /\ IF ok = {}
           THEN dispatcher' = Idle /\ UNCHANGED <<batch, lastId>>
           ELSE /\ dispatcher' = [dispatcher EXCEPT !.pc = "acknowledge"]
                /\ \E events \in SetToSeqs({Event("dispatch_ack", d[1], d[2]) : d \in ok}) :
                        AppendAll("dispatcher", events)
    /\ UNCHANGED <<manifest, worker, asked>>

(* The dispatcher's batch is done: what the run does next.                 *)
DispatcherAfter(ok) ==
    IF ok /\ dispatcher.pc = "request" /\ dispatcher.rows # {}
    THEN [dispatcher EXCEPT !.pc = "enqueue"] ELSE Idle

(***************************************************************************)
(* The anti-entropy sweeper.                                               *)
(***************************************************************************)
(* Mutant: the scan passes over silent running tasks.                      *)
RepairDispatches(st, t) ==
    LET row == st.task[t]
        n == Next1(row.attempt)
    IN  CASE row.state = "Ready" /\ st.outbox[<<t, n>>] = NoRow ->
                {Event("dispatch_req", t, n)}
          [] row.state = "Dispatched" ->
                {Event(IF st.outbox[<<t, n>>] = NoRow THEN "dispatch_req"
                       ELSE "dispatch_ack", t, n)}
          [] row.state = "RetryWait" /\ row.retry /\ st.outbox[<<t, n + 1>>] = NoRow ->
                {Event("dispatch_req", t, n + 1)}
          [] OTHER -> {}

Repair(st, t) ==
    LET row == st.task[t]
        n == Next1(row.attempt)
    IN  CASE row.state = "Ready" /\ st.outbox[<<t, n>>] = NoRow ->
                {Event("dispatch_req", t, n)}
          [] row.state = "Dispatched" ->
                {Event(IF st.outbox[<<t, n>>] = NoRow THEN "dispatch_req"
                       ELSE "dispatch_ack", t, n)}
          [] row.state = "RetryWait" /\ row.attempt < MaxAttempts[t] /\ row.retry ->
                IF st.outbox[<<t, n + 1>>] = NoRow
                THEN {Event("dispatch_req", t, n + 1)} ELSE {}
          [] row.state = "Running" -> {Finished(t, n, "Failed")}
          [] OTHER -> {}

(* Nobody but the sweeper is going to move t on.                           *)
Stuck(t) ==
    \/ visible.task[t].state = "RetryWait"
    \/ LET d == <<t, visible.task[t].attempt>> IN
       /\ visible.task[t].state \in {"Dispatched", "Running"}
       /\ visible.task[t].state = "Dispatched" => d \notin cloud \cup PendingRows(visible)
       /\ \A w \in Workers : worker[w].job # d

(* A stuck dispatch is enqueued again under a new name.  A timeout that    *)
(* strikes while the task is still under way is counted as a fault.        *)
Sweep(late) ==
    LET repairs == UNION {Repair(visible, t) : t \in late} IN
    /\ recent
    /\ Cardinality(repairs) = Cardinality(late)
    /\ IF \A t \in late : Stuck(t) THEN UNCHANGED faults ELSE Fault
    /\ cloud' = cloud \cup {<<e.task, e.attempt>> : e \in
                                {r \in repairs : r.type = "dispatch_ack"}}
    /\ \E events \in SetToSeqs(repairs) : AppendAll("sweeper", events)
    /\ UNCHANGED <<manifest, dispatcher, worker, named, asked>>

(***************************************************************************)
(* Workers and the callback handlers.                                      *)
(***************************************************************************)
(* The callback is accepted for the task's current attempt only.           *)
Current(d) ==
    /\ visible.task[d[1]].attempt = d[2]
    /\ ~IsTerminal(visible.task[d[1]].state)

HandleTaskStarted(w, d) ==
    IF Current(d) /\ ~visible.run.cancel
    THEN /\ AppendAll(w, <<Event("started", d[1], d[2])>>)
         /\ worker' = [worker EXCEPT ![w] = [pc |-> "starting", job |-> d]]
    ELSE /\ worker' = [worker EXCEPT ![w] = Free]
         /\ UNCHANGED <<batch, lastId>>

(* Cloud Tasks delivers a dispatch, perhaps not for the last time, and the *)
(* worker reports the start.                                               *)
Deliver(w, d, again) ==
    /\ worker[w].pc = "idle" /\ d \in cloud
    /\ IF again THEN Fault /\ UNCHANGED cloud
       ELSE cloud' = cloud \ {d} /\ UNCHANGED faults
    /\ HandleTaskStarted(w, d)
    /\ UNCHANGED <<manifest, dispatcher, named, asked>>

(* The callback failed: the worker sends it again.                         *)
Restart(w) ==
    /\ worker[w].pc = "start"
    /\ HandleTaskStarted(w, worker[w].job)
    /\ UNCHANGED <<manifest, dispatcher, cloud, named, asked, faults>>

HandleTaskCompleted(w, outcome) ==
    LET d == worker[w].job IN
    /\ worker[w].pc = "run" /\ batch[w].stage = "none"
    /\ IF Current(d)
       THEN /\ AppendAll(w, <<Finished(d[1], d[2], outcome)>>)
            /\ worker' = [worker EXCEPT ![w].pc = "finishing"]
       ELSE /\ worker' = [worker EXCEPT ![w] = Free]
            /\ UNCHANGED <<batch, lastId>>
    /\ UNCHANGED <<manifest, dispatcher, cloud, named, asked, faults>>

(* A heartbeat of the task that runs, beside the worker's other callback.  *)
HandleHeartbeat(h, w) ==
    LET d == worker[w].job IN
    /\ worker[w].pc \in {"run", "finishing"} /\ Current(d)
    /\ AppendAll(h, <<Event("heartbeat", d[1], d[2])>>)
    /\ UNCHANGED <<manifest, dispatcher, worker, cloud, named, asked, faults>>

(* A worker dies; a callback it has sent is still processed.               *)
WorkerCrash(w) ==
    /\ worker[w].pc \in {"start", "run"} /\ Fault
    /\ worker' = [worker EXCEPT ![w] = Free]
    /\ UNCHANGED <<manifest, batch, dispatcher, cloud, named, asked, lastId>>

(* The callback is answered: a failed one is sent again.                   *)
WorkerAfter(w, ok) ==
    LET pc == worker[w].pc IN
    CASE pc = "starting" -> [worker[w] EXCEPT !.pc = IF ok THEN "run" ELSE "start"]
      [] pc = "finishing" -> IF ok THEN Free ELSE [worker[w] EXCEPT !.pc = "run"]

(***************************************************************************)
(* Compaction: read the manifest and fold the batch over its rows, then    *)
(* publish if the manifest pointer has not moved.                          *)
(***************************************************************************)
Load(p) ==
    /\ batch[p].stage = "appended"
    /\ TakeLock
    /\ batch' = [batch EXCEPT ![p] = [@ EXCEPT !.stage = "loaded", !.base = visible,
                                               !.fresh = TRUE]]
    /\ UNCHANGED <<manifest, dispatcher, worker, cloud, named, asked, lastId>>

(* The producer p learns how its batch ended.                              *)
Answer(p, ok) ==
    /\ dispatcher' = IF p = "dispatcher" THEN DispatcherAfter(ok) ELSE dispatcher
    /\ worker' = IF p \in Workers THEN [worker EXCEPT ![p] = WorkerAfter(p, ok)] ELSE worker

(* Everyone else's pointer version is stale now.                           *)
Stale(bs) == [p \in Producers |-> [bs[p] EXCEPT !.fresh = FALSE,
                 !.base = IF bs[p].stage = "loaded" THEN @ ELSE EmptyState]]

(* Mutant: the pointer is written without its version.                     *)
PointerIgnored(p) == batch[p].stage = "loaded"

PointerUnmoved(p) == batch[p].fresh

(* The caller may never learn that the publication succeeded, and then has *)
(* the same event paths compacted again.  The watermark moves with a newer *)
(* event; here a batch that is compacted again moves it too.               *)
Publish(p, toBase, answered) ==
    LET base == batch[p].base
        st == FoldEvents(base, batch[p].events)
        delta == HasDelta(base, st)
    IN  /\ batch[p].stage = "loaded" /\ PointerUnmoved(p)
        /\ toBase => delta \/ l0
        /\ visible' = IF toBase THEN st ELSE MergeStates(base, st)
        /\ l0' = (~toBase /\ (l0 \/ delta))
        /\ recent' = TRUE
        /\ lost' = (lost \/ (~toBase /\ DropsRow(base, st)))
        /\ IF answered
           THEN /\ batch' = Stale([batch EXCEPT ![p] = NoBatch])
                /\ Answer(p, TRUE) /\ UNCHANGED faults
           ELSE /\ batch' = Stale([batch EXCEPT ![p] = [@ EXCEPT !.stage = "appended"]])
                /\ Fault /\ UNCHANGED <<dispatcher, worker>>
        /\ UNCHANGED <<cloud, named, asked, lastId>>

(* The pointer has moved.  A compaction that meets the other's snapshot is *)
(* tried again as a whole, if its fencing token is still good; one that    *)
(* meets the moved pointer fails.                                          *)
Conflict(p, retried) ==
    /\ batch[p].stage = "loaded" /\ ~PointerUnmoved(p)
    /\ batch' = [batch EXCEPT ![p] =
            IF retried THEN [@ EXCEPT !.stage = "appended", !.base = EmptyState] ELSE NoBatch]
    /\ IF retried THEN UNCHANGED <<dispatcher, worker>> ELSE Answer(p, FALSE)
    /\ UNCHANGED <<manifest, cloud, named, asked, lastId, faults>>

(* The lock is lost, the retries are exhausted or the process dies: the    *)
(* events stay in the ledger, and nobody compacts them any more.           *)
Abandon(p) ==
    /\ batch[p].stage # "none" /\ Fault
    /\ batch' = [batch EXCEPT ![p] = NoBatch]
    /\ Answer(p, FALSE)
    /\ UNCHANGED <<manifest, cloud, named, asked, lastId>>

(* Five minutes pass without an event of any run.  The scheduler calls the *)
(* dispatcher every minute and workers send heartbeats more often, so this *)
(* happens only when both have nothing left to do.                         *)
Lapse ==
    /\ Quiet /\ recent /\ recent' = FALSE
    /\ dispatcher = Idle /\ NeedsDispatch(visible) = {} /\ PendingRows(visible) = {}
    /\ cloud = {} /\ \A w \in Workers : worker[w].pc = "idle"
    /\ \A p \in Producers : batch[p].stage = "none"
    /\ UNCHANGED <<visible, l0, lost, batch, dispatcher, worker, cloud, named, asked,
                   lastId, faults>>

Outcomes == {"Succeeded", "Failed", "Cancelled"}

Next ==
    \/ Trigger \/ CancelRun \/ Lapse
    \/ DispatcherRun \/ DispatcherEnqueue
    \/ \E t \in Tasks : RequestRetry(t)
    \/ \E late \in SUBSET Tasks : late # {} /\ Sweep(late)
    \/ \E w \in Workers :
        \/ \E d \in cloud, again \in BOOLEAN : Deliver(w, d, again)
        \/ Restart(w) \/ WorkerCrash(w)
        \/ \E outcome \in Outcomes : HandleTaskCompleted(w, outcome)
        \/ \E h \in Beats : HandleHeartbeat(h, w)
    \/ \E p \in Producers :
        \/ Load(p) \/ Abandon(p)
        \/ \E retried \in BOOLEAN : Conflict(p, retried)
        \/ \E toBase, answered \in BOOLEAN : Publish(p, toBase, answered)

Spec == Init /\ [][Next]_vars

(***************************************************************************)
(* Fairness.  Schedulers call the dispatcher and the sweeper again and     *)
(* again, Cloud Tasks redelivers what is not answered, a worker that lives *)
(* reports an outcome, and a compaction whose producer goes on gets        *)
(* through at last.  Faults, cancellation, the client, the lapse of the    *)
(* watermark and the retry timers, which nothing requests, are free.       *)
(***************************************************************************)
Compact(p) ==
    \/ Load(p) \/ \E retried \in BOOLEAN : Conflict(p, retried)
    \/ \E toBase \in BOOLEAN : Publish(p, toBase, TRUE)

SweepStuck == LET late == {t \in Tasks : Stuck(t) /\ Repair(visible, t) # {}}
              IN  late # {} /\ Sweep(late)

Fairness ==
    /\ WF_vars(DispatcherRun \/ DispatcherEnqueue) /\ WF_vars(SweepStuck)
    /\ \A w \in Workers :
        WF_vars(\/ \E d \in cloud : Deliver(w, d, FALSE)
                \/ Restart(w) \/ \E outcome \in Outcomes : HandleTaskCompleted(w, outcome))
    /\ \A p \in Producers : SF_vars(Compact(p))

FairSpec == Spec /\ Fairness

(***************************************************************************)
(* Properties.                                                             *)
(***************************************************************************)
EventTypes == {"run", "plan", "cancel_req", "started", "heartbeat", "finished",
               "dispatch_req", "dispatch_ack", "timer_req"}

Rows == [run : [state : RunStates, cancel : BOOLEAN, total : Nat, completed : Nat,
                count : [Kinds -> Nat], rv : Nat],
         task : [Tasks -> [state : TaskStates, attempt : Nat, satisfied : Nat,
                           retry : BOOLEAN, rv : Nat]],
         edges : SUBSET (Tasks \X Tasks), erv : [Tasks \X Tasks -> Nat],
         outbox : [Tasks \X Attempts ->
                    [status : {"none", "Pending", "Created"}, bare : BOOLEAN, rv : Nat]],
         keys : SUBSET (EventTypes \X (Tasks \cup {"none"}) \X Nat)]

(* Every variable keeps its type: the projection FoldState persists, the   *)
(* producers' batches and the workers.                                     *)
TypeOK ==
    /\ visible \in Rows /\ l0 \in BOOLEAN /\ recent \in BOOLEAN /\ asked \in BOOLEAN
    /\ \A p \in Producers : /\ batch[p].stage \in {"none", "appended", "loaded"}
                             /\ batch[p].base \in Rows /\ batch[p].fresh \in BOOLEAN
    /\ dispatcher.pc \in {"idle", "request", "enqueue", "acknowledge"}
    /\ \A w \in Workers :
        worker[w].pc \in {"idle", "start", "starting", "run", "finishing"}
    /\ cloud \cup named \cup dispatcher.rows \subseteq Tasks \X Attempts
    /\ lastId \in 0 .. MaxId /\ faults \in 0 .. MaxFaults /\ lost \in BOOLEAN

CountersAgree(st) ==
    st.run.state # "Absent" =>
        /\ \A k \in Kinds : st.run.count[k] = Cardinality(InState(st, k))
        /\ IsTerminal(st.run.state) <=> Planned(st) # {} /\
                \A t \in Tasks : IsTerminal(st.task[t].state)

(* As long as no merge has dropped a row, the counters of a run agree with *)
(* its task rows, and the run is closed exactly when every task is         *)
(* terminal, whoever ended the tasks (workers, the sweeper, a              *)
(* cancellation, a failed upstream), in whatever order their events were   *)
(* folded and however often: fold_task_finished, propagate_failure and     *)
(* fold_run_cancel_requested each count on their own.                      *)
CountersMatch == ~lost => CountersAgree(visible)

(* The counters agree whatever the merges keep, as ADR-039 has it: batches *)
(* that are folded in another order than their ids lose nothing.           *)
AlwaysCounted == CountersAgree(visible)

(* As long as no merge has dropped a row, a task is active or has          *)
(* succeeded only if everything it depends on has succeeded:               *)
(* satisfy_downstream_edges releases it after the last edge, and no stale  *)
(* dispatch or repair starts it earlier.                                   *)
DependencySafe ==
    ~lost => \A t \in Tasks : visible.task[t].state \in Active \cup {"Succeeded"} =>
                \A u \in Deps[t] : visible.task[u].state = "Succeeded"

(* A terminal task or run stays as it is, although starts, completions and *)
(* dispatches that were generated before it ended are folded afterwards,   *)
(* in whatever order.                                                      *)
TerminalStays ==
    [][/\ \A t \in Tasks : IsTerminal(visible.task[t].state) =>
            visible'.task[t].state = visible.task[t].state
       /\ IsTerminal(visible.run.state) => visible'.run.state = visible.run.state]_vars

(* A failed attempt that waits for its retry is not decided a second time: *)
(* the next attempt or a cancellation ends the wait, never a late answer   *)
(* of the worker the sweeper gave up on; a failed upstream ends it only    *)
(* after a merge has dropped a row.                                        *)
AttemptDecidedOnce ==
    [][\A t \in Tasks : visible.task[t].state = "RetryWait" =>
          \/ visible'.task[t].state \in {"RetryWait", "Cancelled"}
          \/ visible'.task[t].attempt > visible.task[t].attempt
          \/ lost' /\ visible'.task[t].state = "Skipped"]_vars

(* A compaction never takes back what another one has published: it folds  *)
(* over the manifest whose pointer version it swaps.  A satisfied edge is  *)
(* taken back only after a merge has dropped a row.                        *)
PublishedStays ==
    [][/\ visible.keys \subseteq visible'.keys
       /\ ~lost' => visible.edges \subseteq visible'.edges]_vars

(* What nothing in the repository makes good: a watermark that is older    *)
(* than the maximum lag, a failed attempt for whose retry nobody has       *)
(* requested the timer, and a dispatch of a cancelled run, whose start is  *)
(* refused as often as the sweeper repeats it.                             *)
Wedged ==
    \/ ~recent
    \/ \E t \in Tasks :
        \/ visible.task[t].state = "RetryWait" /\ ~visible.task[t].retry
        \/ visible.task[t].state = "Dispatched" /\ visible.run.cancel

(* A run ends, unless it is wedged for ever: crashed workers, lost         *)
(* callbacks and abandoned batches are made good by the dispatcher and the *)
(* sweeper, in the first attempt of a task and in the later ones.          *)
RunEnds ==
    \/ (visible.run.state = "Running") ~> IsTerminal(visible.run.state)
    \/ <>[]Wedged

(* A run ends whatever happens, as ADR-020 has it: the anti-entropy        *)
(* sweeper recovers stuck work.                                            *)
RunAlwaysEnds == (visible.run.state = "Running") ~> IsTerminal(visible.run.state)
==============================================================================
