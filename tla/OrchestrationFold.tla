-------------------------- MODULE OrchestrationFold --------------------------
(***************************************************************************)
(* The fold of the orchestration ledger: how each event changes the        *)
(* projection of one run (its row, its task rows, the dependency edges,    *)
(* the dispatch outbox and the recorded idempotency keys), and how a       *)
(* published delta is merged over the rows that are there                  *)
(* (crates/arco-flow/src/orchestration/compactor/fold.rs and service.rs).  *)
(*                                                                         *)
(* One run is modelled: the rows of different runs never touch.  Attempt   *)
(* identifiers are a function of the dispatch (run, task, attempt), so the *)
(* attempt number stands for both.  Timestamps, labels, asset data and     *)
(* output visibility are left out; a heartbeat is kept for the version it  *)
(* gives its task row.                                                     *)
(***************************************************************************)
EXTENDS Integers, FiniteSets, Sequences, FiniteSetsExt, SequencesExt

CONSTANTS
    Tasks,       \* the tasks of the run's plan
    Deps,        \* depends_on of each
    MaxAttempts, \* max_attempts of each
    Ordered      \* TRUE: events are folded in the order of their ids, which
                 \* are then all 0; FALSE: ids are compared as the code does

ASSUME FoldAssumption ==
    /\ IsFiniteSet(Tasks) /\ Tasks # {}
    /\ Deps \in [Tasks -> SUBSET Tasks]
    /\ MaxAttempts \in [Tasks -> Nat \ {0}]
    /\ Ordered \in BOOLEAN

Attempts == 1 .. Max({MaxAttempts[t] : t \in Tasks})
Kinds == {"Succeeded", "Failed", "Skipped", "Cancelled"}
Active == {"Ready", "Dispatched", "Running", "RetryWait"}
TaskStates == Kinds \cup Active \cup {"Absent", "Blocked"}
RunStates == {"Absent", "Triggered", "Running", "Succeeded", "Failed", "Cancelled"}

IsTerminal(s) == s \in Kinds

Rank(s) ==
    CASE s = "Blocked" -> 1 [] s = "Ready" -> 2 [] s = "Dispatched" -> 3
      [] s = "Running" -> 4 [] s = "RetryWait" -> 5 [] s = "Skipped" -> 10
      [] s = "Cancelled" -> 11 [] s = "Failed" -> 12 [] s = "Succeeded" -> 13
      [] OTHER -> 0

Dependents(t) == {d \in Tasks : t \in Deps[d]}

NoRow == [status |-> "none", bare |-> FALSE, rv |-> 0]

EmptyState ==
    [run |-> [state |-> "Absent", cancel |-> FALSE, total |-> 0,
              completed |-> 0, count |-> [k \in Kinds |-> 0], rv |-> 0],
     task |-> [t \in Tasks |-> [state |-> "Absent", attempt |-> 0,
                                satisfied |-> 0, retry |-> FALSE, rv |-> 0]],
     edges |-> {},   \* the satisfied dependencies, as <<upstream, downstream>>
     erv |-> [e \in Tasks \X Tasks |-> 0],   \* the versions of their rows
     outbox |-> [d \in Tasks \X Attempts |-> NoRow],
     keys |-> {}]

(* What a fold function returns: the state and whether the event applied.  *)
Ignored(st) == [st |-> st, applied |-> FALSE]
Applied(st) == [st |-> st, applied |-> TRUE]

(***************************************************************************)
(* The run row.                                                            *)
(***************************************************************************)
(* Mutant: a run with cancelled tasks is left in a state of its own, which *)
(* is neither open nor terminal.                                           *)
RunOutcomeCancelling(count) ==
    IF count["Cancelled"] > 0 THEN "Cancelling"
    ELSE IF count["Failed"] > 0 THEN "Failed" ELSE "Succeeded"

RunOutcome(count) ==
    IF count["Cancelled"] > 0 THEN "Cancelled"
    ELSE IF count["Failed"] > 0 THEN "Failed" ELSE "Succeeded"

(* n tasks reached the terminal state k, one after the other; the run is   *)
(* closed when the counter meets the total on the way.                     *)
Tally(run, k, n, id) ==
    LET count == [run.count EXCEPT ![k] = @ + n]
        closes == run.completed < run.total /\ run.total <= run.completed + n
    IN  IF n = 0 \/ run.state = "Absent" THEN run
        ELSE [run EXCEPT !.count = count, !.completed = @ + n, !.rv = id,
                         !.state = IF closes THEN RunOutcome(count) ELSE @]

InState(st, k) == {t \in Tasks : st.task[t].state = k}
Planned(st) == {t \in Tasks : st.task[t].state # "Absent"}

FoldRunTriggered(st, id) ==
    LET count == [k \in Kinds |-> Cardinality(InState(st, k))]
        done == Cardinality(UNION {InState(st, k) : k \in Kinds})
        total == Cardinality(Planned(st))
    IN  IF st.run.state # "Absent" THEN Ignored(st)
        ELSE Applied([st EXCEPT !.run =
                [state |-> IF total = 0 THEN "Triggered"
                           ELSE IF done = total THEN RunOutcome(count)
                           ELSE "Running",
                 cancel |-> FALSE, total |-> total, completed |-> done,
                 count |-> count, rv |-> id]])

(* The rows of the edges out of the tasks ups are written by the event id. *)
Versioned(erv, ups, id) ==
    [e \in Tasks \X Tasks |-> IF e[1] \in ups /\ e[1] \in Deps[e[2]] THEN id ELSE erv[e]]

FoldPlanCreated(st, id) ==
    IF Planned(st) # {} THEN Ignored(st)
    ELSE Applied([st EXCEPT
            !.run = IF @.state = "Absent" THEN @
                    ELSE [@ EXCEPT !.total = Cardinality(Tasks),
                                   !.state = "Running", !.rv = id],
            !.erv = Versioned(@, Tasks, id),
            !.task = [t \in Tasks |->
                [state |-> IF Deps[t] = {} THEN "Ready" ELSE "Blocked",
                 attempt |-> 0, satisfied |-> 0, retry |-> FALSE, rv |-> id]]])

FoldRunCancelRequested(st, id) ==
    LET hit == {t \in Tasks : st.task[t].state \in {"Blocked", "Ready", "Dispatched", "RetryWait"}}
        run == Tally([st.run EXCEPT !.cancel = TRUE, !.rv = id],
                     "Cancelled", Cardinality(hit), id)
    IN  IF IsTerminal(st.run.state) \/ (st.run.state = "Absent" /\ hit = {})
        THEN Ignored(st)
        ELSE Applied([st EXCEPT
                !.run = IF @.state = "Absent" THEN @
                        ELSE [run EXCEPT !.state =
                                IF run.completed = run.total THEN "Cancelled" ELSE @],
                !.task = [t \in Tasks |-> IF t \in hit
                            THEN [st.task[t] EXCEPT !.state = "Cancelled", !.rv = id]
                            ELSE st.task[t]]])

(***************************************************************************)
(* Dependencies.                                                           *)
(***************************************************************************)
(* Mutant: the first satisfied edge releases the task.                     *)
SatisfyFirst(st, t, id) ==
    [st EXCEPT !.edges = @ \cup {<<t, d>> : d \in Dependents(t)},
               !.erv = Versioned(@, {t}, id),
               !.task = [d \in Tasks |->
                    IF d \in Dependents(t) /\ st.task[d].state = "Blocked"
                    THEN [st.task[d] EXCEPT !.satisfied = @ + 1, !.state = "Ready", !.rv = id]
                    ELSE st.task[d]]]

SatisfyDownstream(st, t, id) ==
    LET fresh == {d \in Dependents(t) : <<t, d>> \notin st.edges}
        Bump(d) == LET row == [st.task[d] EXCEPT !.satisfied = @ + 1]
                   IN  IF row.satisfied = Cardinality(Deps[d]) /\ row.state = "Blocked"
                       THEN [row EXCEPT !.state = "Ready", !.rv = id] ELSE row
    IN  [st EXCEPT !.edges = @ \cup {<<t, d>> : d \in Dependents(t)},
                   !.erv = Versioned(@, {t}, id),
                   !.task = [d \in Tasks |-> IF d \in fresh THEN Bump(d) ELSE st.task[d]]]

(* Mutant: tasks that are terminal already are reached again.              *)
ReachedAgain(st, t) ==
    LET R[n \in 0 .. Cardinality(Tasks)] ==
            IF n = 0 THEN {t}
            ELSE R[n - 1] \cup {d \in Tasks : Deps[d] \cap R[n - 1] # {}}
    IN  R[Cardinality(Tasks)] \ {t}

(* The tasks the failure of t reaches through tasks that are not terminal. *)
Reached(st, t) ==
    LET R[n \in 0 .. Cardinality(Tasks)] ==
            IF n = 0 THEN {t}
            ELSE R[n - 1] \cup {d \in Tasks : /\ ~IsTerminal(st.task[d].state)
                                              /\ Deps[d] \cap R[n - 1] # {}}
    IN  R[Cardinality(Tasks)] \ {t}

(* Mutant: a failed task counts as done for the tasks after it.            *)
PropagateNothing(st, t, kind, id) == SatisfyDownstream(st, t, id)

PropagateFailure(st, t, kind, id) ==
    LET to == IF kind = "Cancelled" THEN "Cancelled" ELSE "Skipped"
        hit == Reached(st, t)
    IN  [st EXCEPT !.edges = {edge \in @ : edge[1] \notin hit \cup {t}},
                   !.erv = Versioned(@, hit \cup {t}, id),
                   !.run = Tally(@, to, Cardinality(hit), id),
                   !.task = [d \in Tasks |-> IF d \in hit
                              THEN [st.task[d] EXCEPT !.state = to, !.rv = id] ELSE st.task[d]]]

(***************************************************************************)
(* Task and dispatch events.                                               *)
(***************************************************************************)
(* Mutant: a start is not checked against a terminal state.                *)
StartRevives(st, t, n, id) ==
    IF st.task[t].state = "Absent" \/ n < st.task[t].attempt THEN Ignored(st)
    ELSE Applied([st EXCEPT
            !.task[t] = [@ EXCEPT !.state = "Running", !.attempt = n, !.rv = id],
            !.outbox[<<t, n>>] = NoRow])

FoldTaskStarted(st, t, n, id) ==
    LET row == st.task[t] IN
    IF row.state = "Absent" \/ IsTerminal(row.state) \/ n < row.attempt
    THEN Ignored(st)
    ELSE Applied([st EXCEPT
            !.task[t] = [@ EXCEPT !.state = "Running", !.attempt = n, !.rv = id],
            !.outbox[<<t, n>>] = NoRow])

FoldTaskHeartbeat(st, t, n, id) ==
    IF IsTerminal(st.task[t].state) \/ st.task[t].attempt # n THEN Ignored(st)
    ELSE Applied([st EXCEPT !.task[t].rv = id])

FoldTaskFinished(st, t, n, outcome, id) ==
    LET row == st.task[t]
        to == IF outcome = "Failed" /\ n < MaxAttempts[t] THEN "RetryWait" ELSE outcome
        ended == [row EXCEPT !.state = to, !.rv = id, !.retry = @ /\ to = "RetryWait"]
        counted == [st EXCEPT
            !.task[t] = ended, !.run = IF IsTerminal(to) THEN Tally(@, to, 1, id) ELSE @]
    IN  IF row.state = "Absent" \/ row.attempt # n \/ IsTerminal(row.state)
        THEN Ignored(st)
        ELSE Applied(CASE to = "RetryWait" -> counted
                       [] to = "Succeeded" -> SatisfyDownstream(counted, t, id)
                       [] OTHER -> PropagateFailure(counted, t, to, id))

DispatchConsumed(row, n) ==
    \/ row.attempt > n
    \/ row.attempt = n /\ (row.state \in {"Running", "RetryWait"} \/ IsTerminal(row.state))

(* A row an acknowledgement made is bare: its attempt id is filled in when *)
(* the request is folded.                                                  *)
FoldDispatchRequested(st, t, n, id) ==
    LET row == st.task[t]
        old == st.outbox[<<t, n>>]
        takes == /\ row.state \in {"Ready", "RetryWait", "Dispatched"}
                 /\ n >= row.attempt
                 /\ row.state # "Dispatched" \/ row.attempt # n
        dispatched == IF ~takes THEN row
                      ELSE [row EXCEPT !.state = "Dispatched", !.attempt = n,
                                       !.retry = FALSE, !.rv = id]
    IN  IF DispatchConsumed(row, n)
        THEN Ignored([st EXCEPT !.outbox[<<t, n>>] = NoRow])
        ELSE [st |-> [st EXCEPT
                !.task[t] = dispatched,
                !.outbox[<<t, n>>] =
                    IF old = NoRow THEN [status |-> "Pending", bare |-> FALSE, rv |-> id]
                    ELSE [old EXCEPT !.bare = FALSE]],
              applied |-> takes \/ old = NoRow \/ old.bare]

FoldDispatchEnqueued(st, t, n, id) ==
    LET old == st.outbox[<<t, n>>] IN
    IF DispatchConsumed(st.task[t], n)
    THEN Ignored([st EXCEPT !.outbox[<<t, n>>] = NoRow])
    ELSE IF old # NoRow /\ ~Ordered /\ id <= old.rv
    THEN Ignored(st)
    ELSE Applied([st EXCEPT !.outbox[<<t, n>>] =
                    [status |-> "Created", bare |-> old = NoRow \/ old.bare, rv |-> id]])

(* A retry timer: only its effect on the task row is kept here.            *)
FoldTimerRequested(st, t, n, id) ==
    IF st.task[t].state = "RetryWait" /\ st.task[t].attempt = n
    THEN Applied([st EXCEPT !.task[t].retry = TRUE, !.task[t].rv = id])
    ELSE Applied(st)

(***************************************************************************)
(* One event: the idempotency gate, the handler, the key.  Completions of  *)
(* workers and failures reported by the sweeper share the key "finished";  *)
(* every heartbeat has a key of its own, which holds its time, and its id  *)
(* stands for that.                                                        *)
(***************************************************************************)
Key(e) == <<e.type, e.task, IF e.type = "heartbeat" THEN e.id ELSE e.attempt>>

Handle(st, e) ==
    CASE e.type = "run" -> FoldRunTriggered(st, e.id)
      [] e.type = "plan" -> FoldPlanCreated(st, e.id)
      [] e.type = "cancel_req" -> FoldRunCancelRequested(st, e.id)
      [] e.type = "started" -> FoldTaskStarted(st, e.task, e.attempt, e.id)
      [] e.type = "heartbeat" -> FoldTaskHeartbeat(st, e.task, e.attempt, e.id)
      [] e.type = "finished" -> FoldTaskFinished(st, e.task, e.attempt, e.outcome, e.id)
      [] e.type = "dispatch_req" -> FoldDispatchRequested(st, e.task, e.attempt, e.id)
      [] e.type = "dispatch_ack" -> FoldDispatchEnqueued(st, e.task, e.attempt, e.id)
      [] e.type = "timer_req" -> FoldTimerRequested(st, e.task, e.attempt, e.id)

(* Mutant: no idempotency gate.                                            *)
FoldUngated(st, e) ==
    LET r == Handle(st, e) IN [r.st EXCEPT !.keys = @ \cup {Key(e)}]

FoldEvent(st, e) ==
    LET r == Handle(st, e) IN
    IF Key(e) \in st.keys THEN st
    ELSE IF r.applied THEN [r.st EXCEPT !.keys = @ \cup {Key(e)}] ELSE r.st

(* A batch is folded in the order of the event ids.                        *)
FoldEvents(st, events) ==
    LET F[n \in 0 .. Len(events)] ==
            IF n = 0 THEN st ELSE FoldEvent(F[n - 1], events[n])
    IN  F[Len(events)]

(***************************************************************************)
(* Publication.  A delta holds the rows the batch changed, so a row that   *)
(* the fold removed is not in it; a merge keeps the row with the greater   *)
(* version.                                                                *)
(***************************************************************************)
HasDelta(base, st) ==
    \/ st.run # base.run \/ st.task # base.task
    \/ st.edges # base.edges \/ st.erv # base.erv \/ st.keys # base.keys
    \/ \E d \in DOMAIN st.outbox : st.outbox[d] \notin {NoRow, base.outbox[d]}

MergeRow(old, new) == IF Ordered \/ new.rv >= old.rv THEN new ELSE old

MergeTask(old, new) ==
    IF ~Ordered /\ new.rv = old.rv /\ Rank(new.state) < Rank(old.state)
    THEN old ELSE MergeRow(old, new)

(* The edges whose rows the merge takes from st.                           *)
NewEdges(base, st) == {e \in Tasks \X Tasks : Ordered \/ st.erv[e] >= base.erv[e]}

MergeStates(base, st) ==
    [run |-> MergeRow(base.run, st.run),
     task |-> [t \in Tasks |-> MergeTask(base.task[t], st.task[t])],
     edges |-> (st.edges \cap NewEdges(base, st)) \cup (base.edges \ NewEdges(base, st)),
     erv |-> [e \in Tasks \X Tasks |->
                IF e \in NewEdges(base, st) THEN st.erv[e] ELSE base.erv[e]],
     outbox |-> [d \in DOMAIN base.outbox |->
                    IF st.outbox[d] = NoRow THEN base.outbox[d]
                    ELSE MergeRow(base.outbox[d], st.outbox[d])],
     keys |-> base.keys \cup st.keys]

(* The merge kept an older row of the run, a task or an edge instead of    *)
(* the one the batch was folded into.                                      *)
DropsRow(base, st) ==
    LET merged == MergeStates(base, st) IN
    \/ merged.run # st.run \/ merged.task # st.task
    \/ merged.edges # st.edges
==============================================================================
