------------------------- MODULE OrchestrationProofs -------------------------
(***************************************************************************)
(* Proofs about Orchestration for any plan (tasks, dependencies, numbers   *)
(* of attempts), any number of workers and any number of faults, in        *)
(* whatever order the ids of the events are folded.                        *)
(*                                                                         *)
(* Good says what a published projection looks like, and what more is true *)
(* of it as long as no merge has dropped a row.  Every event that may be   *)
(* folded keeps it (EventStep), so do a batch of them (FoldBatch) and a    *)
(* merge (MergeStep), and LoopInv says that every batch under way holds    *)
(* such events only.                                                       *)
(***************************************************************************)
EXTENDS Orchestration, NumberSetLemmas, FiniteSetTheorems, SequenceTheorems, TLAPS

MaxAttempt == Max({MaxAttempts[t] : t \in Tasks})

(***************************************************************************)
(* The projection.                                                         *)
(***************************************************************************)
Done(st) == {t \in Tasks : IsTerminal(st.task[t].state)}
Sat(st, d) == {u \in Tasks : <<u, d>> \in st.edges}

(* The run and its plan are there together.                                *)
PlanOK(st) ==
    IF st.run.state = "Absent"
    THEN /\ st.edges = {} /\ st.run.rv = 0
         /\ \A t \in Tasks : st.task[t].state = "Absent" /\ st.task[t].rv = 0
    ELSE st.run.state # "Triggered" /\ \A t \in Tasks : st.task[t].state # "Absent"

(* A run is closed only when it has counted all its tasks, or more.        *)
CloseOK(st) == IsTerminal(st.run.state) => st.run.total <= st.run.completed

(* The counters are those of the task rows.                                *)
CountsOK(st) ==
    st.run.state # "Absent" =>
        /\ st.run.total = Cardinality(Tasks)
        /\ st.run.completed = Cardinality(Done(st))
        /\ \A k \in Kinds : st.run.count[k] = Cardinality(InState(st, k))
        /\ IsTerminal(st.run.state) <=> Done(st) = Tasks

(* Edges come from tasks that succeeded, and are counted.                  *)
DepsOK(st) ==
    /\ \A u, d \in Tasks : <<u, d>> \in st.edges =>
            u \in Deps[d] /\ st.task[u].state = "Succeeded"
    /\ \A d \in Tasks : st.task[d].satisfied = Cardinality(Sat(st, d))
    /\ \A t \in Tasks : st.task[t].state \in Active \cup {"Succeeded"} =>
            \A u \in Deps[t] : st.task[u].state = "Succeeded"

AttemptOK(st) ==
    \A t \in Tasks :
        /\ st.task[t].attempt <= MaxAttempt
        /\ st.task[t].state \in {"Absent", "Blocked"} => st.task[t].attempt = 0

(* The events that brought a task where it is are recorded.                *)
KeysOK(st) ==
    /\ \A t \in Tasks :
        /\ st.task[t].state \in {"Running", "RetryWait"} =>
                st.task[t].attempt # 0 /\ <<"started", t, st.task[t].attempt>> \in st.keys
        /\ st.task[t].state = "RetryWait" =>
                <<"finished", t, st.task[t].attempt>> \in st.keys
    /\ st.run.state = "Absent" => \A k \in st.keys : k[1] \notin {"run", "plan"}

(* A projection; kept says that no merge has dropped a row on the way.     *)
Core(kept, st) ==
    /\ st \in Rows /\ PlanOK(st) /\ CloseOK(st) /\ AttemptOK(st)
    /\ kept => CountsOK(st) /\ DepsOK(st)

Good(kept, st) == Core(kept, st) /\ KeysOK(st)

(* What a later projection keeps of an earlier one.                        *)
Keeps(kept, st, s) ==
    /\ st.keys \subseteq s.keys /\ (kept => st.edges \subseteq s.edges)
    /\ IsTerminal(st.run.state) => s.run.state = st.run.state
    /\ s.run.state = "Absent" => st.run.state = "Absent"
    /\ \A t \in Tasks :
        /\ st.task[t].attempt <= s.task[t].attempt
        /\ IsTerminal(st.task[t].state) => s.task[t].state = st.task[t].state
        /\ st.task[t].state = "RetryWait" =>
                \/ s.task[t].attempt > st.task[t].attempt
                \/ s.task[t].state \in {"RetryWait", "Cancelled"}
                \/ ~kept /\ s.task[t].state = "Skipped"

(***************************************************************************)
(* The events under way.                                                   *)
(***************************************************************************)
(* The start of attempt n of t is recorded, or comes too late to matter.   *)
StartSettled(st, t, n) ==
    \/ <<"started", t, n>> \in st.keys
    \/ st.task[t].attempt > n \/ IsTerminal(st.task[t].state)

TaskTypes == {"started", "heartbeat", "finished", "dispatch_req", "dispatch_ack", "timer_req"}

Events == [type : EventTypes, task : Tasks \cup {"none"},
           attempt : 0 .. MaxAttempt, outcome : Outcomes \cup {"none"}, id : Nat]

(* An event of a run whose plan is there.                                  *)
EventOK(st, e) ==
    /\ e \in Events /\ e.type \notin {"run", "plan"}
    /\ e.type \in TaskTypes => e.task \in Tasks /\ e.attempt \in Attempts
    /\ e.type = "started" => st.task[e.task].attempt > 0
    /\ e.type = "finished" => e.outcome \in Outcomes /\ StartSettled(st, e.task, e.attempt)

(* The batch that triggers the run, and any other one.                     *)
TriggerBatch(events) ==
    /\ events \in Seq(Events) /\ Len(events) = 2
    /\ \/ events[1].type = "run" /\ events[2].type = "plan"
       \/ events[1].type = "plan" /\ events[2].type = "run"

BatchOK(st, events) ==
    \/ TriggerBatch(events)
    \/ events \in Seq(Events) /\ \A i \in 1 .. Len(events) : EventOK(st, events[i])

(***************************************************************************)
(* The loop.                                                               *)
(***************************************************************************)
Dispatches == Tasks \X Attempts

(* A batch under way is the producer's, over the rows st: its events may   *)
(* be folded over st, and a fresh base is st.                              *)
ProducerOK(st, b) ==
    /\ b = [stage |-> b.stage, events |-> b.events, base |-> b.base, fresh |-> b.fresh]
    /\ b.stage \in {"none", "appended", "loaded"}
    /\ b.base \in Rows /\ b.fresh \in BOOLEAN
    /\ b.fresh => b.base = st
    /\ BatchOK(st, b.events)

(* The batch of a worker that reports the start of d is that one event;    *)
(* a worker that runs d has had the start answered.                        *)
WorkerOK(st, k, b) ==
    /\ k = [pc |-> k.pc, job |-> k.job]
    /\ k.pc \in {"idle", "start", "starting", "run", "finishing"}
    /\ k.pc # "idle" => k.job \in Dispatches
    /\ (k.pc \in {"idle", "start", "run"} <=> b.stage = "none")
    /\ k.pc = "starting" => /\ Len(b.events) = 1 /\ b.events[1].type = "started"
                            /\ b.events[1].task = k.job[1] /\ b.events[1].attempt = k.job[2]
    /\ k.pc \in {"run", "finishing"} => StartSettled(st, k.job[1], k.job[2])

BatchesOK ==
    /\ batch = [p \in Producers |-> batch[p]]
    /\ \A p \in Producers : ProducerOK(visible, batch[p])

WorkersOK ==
    /\ worker = [w \in Workers |-> worker[w]]
    /\ \A w \in Workers : WorkerOK(visible, worker[w], batch[w])

RestOK ==
    /\ l0 \in BOOLEAN /\ asked \in BOOLEAN /\ recent \in BOOLEAN /\ lost \in BOOLEAN
    /\ dispatcher = [pc |-> dispatcher.pc, rows |-> dispatcher.rows]
    /\ dispatcher.pc \in {"idle", "request", "enqueue", "acknowledge"}
    /\ cloud \subseteq Dispatches /\ named \subseteq Dispatches
    /\ dispatcher.rows \subseteq Dispatches
    /\ lastId \in 0 .. MaxId /\ faults \in 0 .. MaxFaults

LoopInv == Good(~lost, visible) /\ BatchesOK /\ WorkersOK /\ RestOK

(***************************************************************************)
(* The constants.                                                          *)
(***************************************************************************)
RunRows == [state : RunStates, cancel : BOOLEAN, total : Nat, completed : Nat,
            count : [Kinds -> Nat], rv : Nat]
TaskRows == [state : TaskStates, attempt : Nat, satisfied : Nat, retry : BOOLEAN, rv : Nat]
OutboxRows == [status : {"none", "Pending", "Created"}, bare : BOOLEAN, rv : Nat]
Versions == [Tasks \X Tasks -> Nat]
KeySet == EventTypes \X (Tasks \cup {"none"}) \X Nat

LEMMA AttemptFacts ==
    /\ MaxAttempt \in Nat /\ MaxAttempt > 0
    /\ Attempts = 1 .. MaxAttempt /\ Max(Attempts) = MaxAttempt
    /\ \A t \in Tasks : MaxAttempts[t] \in Nat /\ 0 < MaxAttempts[t] /\ MaxAttempts[t] <= MaxAttempt
    /\ IsFiniteSet(Attempts)
<1> DEFINE S == {MaxAttempts[t] : t \in Tasks}
<1>1. S \subseteq Nat /\ S # {} /\ \A y \in S : y > 0
    BY FoldAssumption
<1>2. IsFiniteSet(S)
    <2>1. MaxAttempts \in Surjection(Tasks, S)
        BY FoldAssumption DEF Surjection
    <2> QED  BY <2>1, FS_Surjection, FoldAssumption
<1>3. Max(S) \in S /\ \A y \in S : y <= Max(S)
    <2> HIDE DEF S
    <2>1. S \in SUBSET Int
        BY <1>1
    <2> QED  BY <1>1, <1>2, <2>1, MaxFacts
<1>4. MaxAttempt = Max(S)
    BY DEF MaxAttempt
<1> HIDE DEF S
<1>5. MaxAttempt \in Nat /\ MaxAttempt > 0
    BY <1>1, <1>3, <1>4
<1>6. \A t \in Tasks : MaxAttempts[t] \in S
    BY DEF S
<1>6a. \A t \in Tasks : MaxAttempts[t] \in Nat /\ 0 < MaxAttempts[t] /\ MaxAttempts[t] <= MaxAttempt
    BY <1>1, <1>3, <1>4, <1>6
<1>7. Attempts = 1 .. MaxAttempt
    BY DEF Attempts, MaxAttempt
<1>8. IsFiniteSet(Attempts)
    BY <1>5, <1>7, FS_Interval
<1>9. Max(Attempts) = MaxAttempt
    <2>1. Attempts \in SUBSET Int /\ Attempts # {}
        BY <1>5, <1>7
    <2>2. Max(Attempts) \in Attempts /\ \A y \in Attempts : y <= Max(Attempts)
        BY <2>1, <1>8, MaxFacts
    <2> QED  BY <2>2, <1>5, <1>7
<1> QED  BY <1>5, <1>6a, <1>7, <1>8, <1>9

LEMMA RowsAre ==
    Rows = [run : RunRows, task : [Tasks -> TaskRows], edges : SUBSET (Tasks \X Tasks), erv : Versions,
            outbox : [Dispatches -> OutboxRows], keys : SUBSET KeySet]
BY AttemptFacts DEF Rows, RunRows, TaskRows, OutboxRows, Versions, KeySet, Dispatches

(* A row replaced in a projection.                                         *)
LEMMA RowsParts ==
    ASSUME NEW st \in Rows
    PROVE  /\ st.run \in RunRows /\ st.task \in [Tasks -> TaskRows]
           /\ st.edges \subseteq Tasks \X Tasks /\ st.erv \in Versions
           /\ st.outbox \in [Dispatches -> OutboxRows] /\ st.keys \subseteq KeySet
           /\ st = [run |-> st.run, task |-> st.task, edges |-> st.edges, erv |-> st.erv,
                    outbox |-> st.outbox, keys |-> st.keys]
<1>1. st \in [run : RunRows, task : [Tasks -> TaskRows], edges : SUBSET (Tasks \X Tasks), erv : Versions,
            outbox : [Dispatches -> OutboxRows], keys : SUBSET KeySet]
    BY RowsAre
<1> QED  BY <1>1

LEMMA RowsMade ==
    ASSUME NEW r \in RunRows, NEW f \in [Tasks -> TaskRows], NEW E \in SUBSET (Tasks \X Tasks),
           NEW V \in Versions,
           NEW o \in [Dispatches -> OutboxRows], NEW K \in SUBSET KeySet
    PROVE  [run |-> r, task |-> f, edges |-> E, erv |-> V, outbox |-> o, keys |-> K] \in Rows
BY RowsAre

LEMMA RowsChanged ==
    ASSUME NEW st \in Rows, NEW r, NEW f, NEW E, NEW V, NEW s,
           s = [st EXCEPT !.edges = E, !.erv = V, !.run = r, !.task = f]
    PROVE  s = [run |-> r, task |-> f, edges |-> E, erv |-> V, outbox |-> st.outbox, keys |-> st.keys]
<1>1. st \in [run : RunRows, task : [Tasks -> TaskRows], edges : SUBSET (Tasks \X Tasks), erv : Versions,
               outbox : [Dispatches -> OutboxRows], keys : SUBSET KeySet]
    BY RowsAre
<1> QED  BY <1>1

LEMMA TaskCard == IsFiniteSet(Tasks) /\ Cardinality(Tasks) \in Nat /\ Cardinality(Tasks) > 0
BY FoldAssumption, FS_CardinalityType, FS_EmptySet

LEMMA SubCard ==
    ASSUME NEW S \in SUBSET Tasks
    PROVE  IsFiniteSet(S) /\ Cardinality(S) \in Nat /\ Cardinality(S) <= Cardinality(Tasks)
BY FoldAssumption, FS_Subset, FS_CardinalityType

(* Two sets of tasks with nothing in common.                               *)
LEMMA CardPlus ==
    ASSUME NEW S \in SUBSET Tasks, NEW T \in SUBSET Tasks, S \cap T = {}
    PROVE  Cardinality(S \cup T) = Cardinality(S) + Cardinality(T)
<1>1. Cardinality(S \cup T) = Cardinality(S) + Cardinality(T) - Cardinality(S \cap T)
    BY SubCard, FS_Union
<1> QED  BY <1>1, SubCard, FS_EmptySet

(***************************************************************************)
(* What a change of the rows does to the counters and the dependencies.    *)
(***************************************************************************)
(* The same tasks are terminal, in the same states.                        *)
SameEnds(st, s) ==
    \A t \in Tasks : \/ s.task[t].state = st.task[t].state
                     \/ ~IsTerminal(s.task[t].state) /\ ~IsTerminal(st.task[t].state)

LEMMA CountsSame ==
    ASSUME NEW st, NEW s, CountsOK(st), SameEnds(st, s),
           s.run.state = st.run.state, s.run.total = st.run.total,
           s.run.completed = st.run.completed, s.run.count = st.run.count
    PROVE  CountsOK(s)
<1>1. Done(s) = Done(st)
    BY DEF Done, SameEnds
<1>2. ASSUME NEW k \in Kinds PROVE InState(s, k) = InState(st, k)
    BY DEF InState, SameEnds, IsTerminal
<1> QED  BY <1>1, <1>2 DEF CountsOK

LEMMA DoneFacts ==
    ASSUME NEW st
    PROVE  /\ Done(st) \in SUBSET Tasks
           /\ Cardinality(Done(st)) \in Nat /\ Cardinality(Done(st)) <= Cardinality(Tasks)
           /\ Cardinality(Done(st)) = Cardinality(Tasks) <=> Done(st) = Tasks
<1>1. Done(st) \in SUBSET Tasks
    BY DEF Done
<1> QED  BY <1>1, SubCard, FS_Subset, FoldAssumption

(* n tasks end in the state k, and the run counts them.                    *)
LEMMA TallyRow ==
    ASSUME NEW run \in RunRows, NEW k \in Kinds, NEW n \in Nat, NEW id \in Nat,
           IsTerminal(run.state) => run.total <= run.completed,
           NEW new, new = Tally(run, k, n, id)
    PROVE  /\ new \in RunRows /\ new.total = run.total /\ new.cancel = run.cancel
           /\ new.state = "Absent" <=> run.state = "Absent"
           /\ new.state = "Triggered" => run.state = "Triggered"
           /\ IsTerminal(run.state) => new.state = run.state
           /\ IsTerminal(new.state) => new.total <= new.completed
           /\ run.state = "Absent" => new = run
<1> DEFINE count == [run.count EXCEPT ![k] = @ + n]
           closes == run.completed < run.total /\ run.total <= run.completed + n
<1>1. run.completed \in Nat /\ run.total \in Nat /\ run.state \in RunStates
      /\ run.cancel \in BOOLEAN
      /\ run = [state |-> run.state, cancel |-> run.cancel, total |-> run.total,
                completed |-> run.completed, count |-> run.count, rv |-> run.rv]
    BY DEF RunRows
<1>2. CASE n = 0 \/ run.state = "Absent"
    <2>1. new = run
        BY <1>2 DEF Tally
    <2> QED  BY <1>2, <2>1
<1>3. CASE n # 0 /\ run.state # "Absent"
    <2>1. count \in [Kinds -> Nat]
        BY DEF RunRows
    <2>2. RunOutcome(count) \in {"Cancelled", "Failed", "Succeeded"}
        BY DEF RunOutcome
    <2>3. new = [run EXCEPT !.count = count, !.completed = @ + n, !.rv = id,
                            !.state = IF closes THEN RunOutcome(count) ELSE @]
        BY <1>3 DEF Tally
    <2> HIDE DEF count, closes
    <2>4. new = [state |-> IF closes THEN RunOutcome(count) ELSE run.state,
                 cancel |-> run.cancel, total |-> run.total,
                 completed |-> run.completed + n, count |-> count, rv |-> id]
        BY <1>1, <2>3
    <2>5. (IF closes THEN RunOutcome(count) ELSE run.state) \in RunStates
        BY <1>1, <2>2 DEF RunStates
    <2>6. new \in RunRows
        BY <1>1, <2>1, <2>4, <2>5 DEF RunRows
    <2>7. new.total = run.total /\ new.cancel = run.cancel /\ new.count = count
          /\ new.completed = run.completed + n
          /\ new.state = IF closes THEN RunOutcome(count) ELSE run.state
        BY <2>4
    <2>8. IsTerminal(RunOutcome(count)) /\ RunOutcome(count) \notin {"Absent", "Triggered"}
        BY <2>2 DEF IsTerminal, Kinds
    <2>9. IsTerminal(run.state) => ~closes
        BY <1>1 DEF closes
    <2>10. closes => new.total <= new.completed
        BY <2>7 DEF closes
    <2>11. IsTerminal(run.state) => new.total <= new.completed
        BY <1>1, <2>7
    <2>12. IsTerminal(new.state) => closes \/ IsTerminal(run.state)
        BY <2>7
    <2>15. /\ (new.state = "Absent" <=> run.state = "Absent")
           /\ (new.state = "Triggered" => run.state = "Triggered")
           /\ (IsTerminal(run.state) => new.state = run.state)
        BY <1>3, <2>7, <2>8, <2>9
    <2> QED  BY <1>3, <2>6, <2>7, <2>10, <2>11, <2>12, <2>15
<1> QED  BY <1>2, <1>3

LEMMA TallyCounts ==
    ASSUME NEW run \in RunRows, NEW k \in Kinds, NEW n \in Nat, NEW id \in Nat,
           n # 0, run.state # "Absent", ~IsTerminal(run.state), run.completed < run.total,
           NEW new, new = Tally(run, k, n, id)
    PROVE  /\ new.total = run.total /\ new.completed = run.completed + n
           /\ new.count = [run.count EXCEPT ![k] = @ + n]
           /\ IsTerminal(new.state) <=> run.total <= run.completed + n
<1> DEFINE count == [run.count EXCEPT ![k] = @ + n]
           closes == run.completed < run.total /\ run.total <= run.completed + n
<1>1. run = [state |-> run.state, cancel |-> run.cancel, total |-> run.total,
             completed |-> run.completed, count |-> run.count, rv |-> run.rv]
    BY DEF RunRows
<1>2. IsTerminal(RunOutcome(count))
    BY DEF RunOutcome, IsTerminal, Kinds
<1>3. new = [run EXCEPT !.count = count, !.completed = @ + n, !.rv = id,
                        !.state = IF closes THEN RunOutcome(count) ELSE @]
    BY DEF Tally
<1> HIDE DEF count, closes
<1>4. new = [state |-> IF closes THEN RunOutcome(count) ELSE run.state,
             cancel |-> run.cancel, total |-> run.total,
             completed |-> run.completed + n, count |-> count, rv |-> id]
    BY <1>1, <1>3
<1>5. IsTerminal(new.state) <=> closes
    BY <1>2, <1>4
<1> QED  BY <1>4, <1>5 DEF closes, count

(* The tasks of hit end in the state k, and the run counts them.           *)
LEMMA CountsClose ==
    ASSUME NEW st, NEW s, NEW k \in Kinds, NEW hit \in SUBSET Tasks, NEW id \in Nat,
           CountsOK(st), st.run \in RunRows,
           \A t \in hit : ~IsTerminal(st.task[t].state) /\ s.task[t].state = k,
           \A t \in Tasks \ hit : \/ s.task[t].state = st.task[t].state
                                  \/ ~IsTerminal(s.task[t].state) /\ ~IsTerminal(st.task[t].state),
           s.run = Tally(st.run, k, Cardinality(hit), id)
    PROVE  CountsOK(s)
<1> DEFINE n == Cardinality(hit)
           count == [st.run.count EXCEPT ![k] = @ + n]
<1>1. n \in Nat /\ (n = 0 <=> hit = {})
    BY SubCard, FS_EmptySet
<1>2. CASE n = 0 \/ st.run.state = "Absent"
    <2>1. s.run = st.run
        BY <1>2 DEF Tally
    <2>2. CASE st.run.state = "Absent"
        BY <2>1, <2>2 DEF CountsOK
    <2>3. CASE n = 0 /\ st.run.state # "Absent"
        <3>1. SameEnds(st, s)
            BY <1>1, <2>3 DEF SameEnds
        <3> QED  BY <2>1, <3>1, CountsSame
    <2> QED  BY <1>2, <2>2, <2>3
<1>3. CASE n # 0 /\ st.run.state # "Absent"
    <2>2. Done(s) = Done(st) \cup hit /\ Done(st) \cap hit = {}
        BY DEF Done, IsTerminal
    <2>3. InState(s, k) = InState(st, k) \cup hit /\ InState(st, k) \cap hit = {}
        BY DEF InState, IsTerminal
    <2>4. ASSUME NEW j \in Kinds, j # k PROVE InState(s, j) = InState(st, j)
        BY <2>4 DEF InState, IsTerminal
    <2>5. Cardinality(Done(s)) = Cardinality(Done(st)) + n
        BY <2>2, CardPlus, DoneFacts
    <2>6. Cardinality(InState(s, k)) = Cardinality(InState(st, k)) + n
        <3>1. InState(st, k) \in SUBSET Tasks
            BY DEF InState
        <3> QED  BY <2>3, <3>1, CardPlus
    <2>7. count[k] = st.run.count[k] + n
          /\ \A j \in Kinds : j # k => count[j] = st.run.count[j]
        BY <1>1 DEF RunRows
    <2>10. hit # {} /\ Done(st) # Tasks
        BY <1>1, <1>3, <2>2
    <2>11. st.run.completed < st.run.total /\ ~IsTerminal(st.run.state)
           /\ st.run.total = Cardinality(Tasks) /\ st.run.completed = Cardinality(Done(st))
        BY <1>3, <2>10, DoneFacts, TaskCard DEF CountsOK
    <2>12. /\ s.run.total = st.run.total /\ s.run.completed = st.run.completed + n
           /\ s.run.count = count
           /\ IsTerminal(s.run.state) <=> st.run.total <= st.run.completed + n
        BY <1>1, <1>3, <2>11, TallyCounts
    <2> HIDE DEF n, count
    <2>13. Cardinality(Done(s)) \in Nat /\ Cardinality(Done(s)) <= Cardinality(Tasks)
           /\ (Cardinality(Done(s)) = Cardinality(Tasks) <=> Done(s) = Tasks)
        BY DoneFacts
    <2>14. IsTerminal(s.run.state) <=> Done(s) = Tasks
        BY <1>1, <2>5, <2>11, <2>12, <2>13, TaskCard
    <2>15. \A j \in Kinds : s.run.count[j] = Cardinality(InState(s, j))
        BY <1>3, <2>4, <2>6, <2>7, <2>12 DEF CountsOK
    <2> QED  BY <2>5, <2>11, <2>12, <2>14, <2>15 DEF CountsOK
<1> QED  BY <1>2, <1>3

LEMMA DepsSame ==
    ASSUME NEW st, NEW s, DepsOK(st), s.edges = st.edges,
           \A t \in Tasks :
              /\ s.task[t].satisfied = st.task[t].satisfied
              /\ st.task[t].state = "Succeeded" => s.task[t].state = "Succeeded"
              /\ s.task[t].state \in Active \cup {"Succeeded"} =>
                    st.task[t].state \in Active \cup {"Succeeded"}
    PROVE  DepsOK(s)
<1>1. \A d \in Tasks : Sat(s, d) = Sat(st, d)
    BY DEF Sat
<1>2. \A d \in Tasks : Deps[d] \subseteq Tasks
    BY FoldAssumption
<1> QED  BY <1>1, <1>2 DEF DepsOK

(***************************************************************************)
(* The recursive functions of the fold.  Each exists, and what every step  *)
(* keeps holds of the last value: a least counterexample is none.          *)
(***************************************************************************)
(* A failure reaches tasks that are not terminal and depend on the failed  *)
(* task or on another one that is not terminal.                            *)
Waiting(st, t) ==
    {d \in Tasks : /\ ~IsTerminal(st.task[d].state)
                   /\ \E u \in Deps[d] : u = t \/ ~IsTerminal(st.task[u].state)}

LEMMA ReachedFacts ==
    ASSUME NEW st, NEW t \in Tasks
    PROVE  Reached(st, t) \in SUBSET (Waiting(st, t) \ {t})
<1> DEFINE N == Cardinality(Tasks)
           More(X) == {d \in Tasks : ~IsTerminal(st.task[d].state) /\ Deps[d] \cap X # {}}
           IsR(R, m) == R = [n \in 0 .. m |-> IF n = 0 THEN {t} ELSE R[n - 1] \cup More(R[n - 1])]
           R0 == CHOOSE R : IsR(R, N)
<1>1. N \in Nat
    BY TaskCard
<1>2. ASSUME NEW m \in 0 .. N PROVE \E R : IsR(R, m)
    <2> SUFFICES ASSUME ~\E R : IsR(R, m) PROVE FALSE
        OBVIOUS
    <2> DEFINE S == {j \in 0 .. N : ~\E R : IsR(R, j)}
    <2>1. S \in SUBSET (0 .. N) /\ m \in S
        OBVIOUS
    <2>2. PICK j \in S : \A y \in S : j <= y
        BY <1>1, <2>1, LeastNumber
    <2>3. j \in 0 .. N /\ ~\E R : IsR(R, j)
        BY <2>2
    <2>4. j # 0
        <3>1. IsR([n \in 0 .. 0 |-> {t}], 0)
            OBVIOUS
        <3> QED  BY <2>3, <3>1
    <2> HIDE DEF S
    <2>5. j - 1 \in 0 .. N /\ j - 1 \notin S
        BY <1>1, <2>2, <2>3, <2>4
    <2>6. PICK R : IsR(R, j - 1)
        BY <2>5 DEF S
    <2> HIDE DEF More
    <2> DEFINE H == [n \in 0 .. j |-> IF n = j THEN R[j - 1] \cup More(R[j - 1]) ELSE R[n]]
    <2>7. IsR(H, j)
        <3>1. ASSUME NEW n \in 0 .. j
              PROVE  H[n] = IF n = 0 THEN {t} ELSE H[n - 1] \cup More(H[n - 1])
            <4>1. CASE n = j
                <5>1. H[n] = R[j - 1] \cup More(R[j - 1]) /\ H[n - 1] = R[j - 1]
                    BY <1>1, <2>3, <2>4, <4>1
                <5> QED  BY <2>4, <4>1, <5>1
            <4>2. CASE n # j
                <5>1. n \in 0 .. j - 1 /\ H[n] = R[n]
                    BY <1>1, <2>3, <4>2
                <5>2. n # 0 => n - 1 \in 0 .. j /\ n - 1 # j /\ H[n - 1] = R[n - 1]
                    BY <1>1, <2>3, <4>2
                <5>3. R[n] = IF n = 0 THEN {t} ELSE R[n - 1] \cup More(R[n - 1])
                    BY <2>6, <5>1
                <5> QED  BY <5>1, <5>2, <5>3
            <4> QED  BY <4>1, <4>2
        <3> QED  BY <3>1
    <2> QED  BY <2>3, <2>7
<1>3. IsR(R0, N)
    <2>1. N \in 0 .. N
        BY <1>1
    <2> HIDE DEF IsR
    <2>2. \E R : IsR(R, N)
        BY <1>2, <2>1, Zenon
    <2> QED  BY <2>2, Zenon
<1>4. Reached(st, t) = R0[N] \ {t}
    BY DEF Reached
<1> HIDE DEF R0
<1>5. R0[0] = {t} /\ \A n \in 1 .. N : R0[n] = R0[n - 1] \cup More(R0[n - 1])
    <2> HIDE DEF More
    <2>1. \A n \in 0 .. N : R0[n] = IF n = 0 THEN {t} ELSE R0[n - 1] \cup More(R0[n - 1])
        BY <1>3
    <2>2. 0 \in 0 .. N /\ \A n \in 1 .. N : n \in 0 .. N /\ n # 0
        BY <1>1
    <2> QED  BY <2>1, <2>2, Zenon
<1>6. ASSUME NEW m \in 0 .. N PROVE R0[m] \subseteq Waiting(st, t) \cup {t}
    <2> SUFFICES ASSUME ~(R0[m] \subseteq Waiting(st, t) \cup {t}) PROVE FALSE
        OBVIOUS
    <2> DEFINE S == {j \in 0 .. N : ~(R0[j] \subseteq Waiting(st, t) \cup {t})}
    <2>1. S \in SUBSET (0 .. N) /\ m \in S
        OBVIOUS
    <2>2. PICK j \in S : \A y \in S : j <= y
        BY <1>1, <2>1, LeastNumber
    <2>3. j \in 0 .. N /\ ~(R0[j] \subseteq Waiting(st, t) \cup {t})
        BY <2>2
    <2>4. j # 0
        BY <1>5, <2>3
    <2>5. j - 1 \in 0 .. N /\ j - 1 \notin S
        BY <1>1, <2>2, <2>3, <2>4
    <2>6. R0[j - 1] \subseteq Waiting(st, t) \cup {t}
        BY <2>5
    <2>7. R0[j] = R0[j - 1] \cup More(R0[j - 1])
        BY <1>1, <1>5, <2>3, <2>4
    <2>8. More(R0[j - 1]) \subseteq Waiting(st, t)
        BY <2>6 DEF Waiting
    <2> QED  BY <2>3, <2>6, <2>7, <2>8
<1> QED  BY <1>1, <1>4, <1>6

LEMMA FoldEventsFacts ==
    ASSUME NEW st, NEW events, Len(events) \in Nat
    PROVE  \E F : /\ F[0] = st
                  /\ \A n \in 1 .. Len(events) : F[n] = FoldEvent(F[n - 1], events[n])
                  /\ FoldEvents(st, events) = F[Len(events)]
<1> DEFINE N == Len(events)
           IsF(F, m) == F = [n \in 0 .. m |-> IF n = 0 THEN st ELSE FoldEvent(F[n - 1], events[n])]
           F0 == CHOOSE F : IsF(F, N)
<1>2. ASSUME NEW m \in 0 .. N PROVE \E F : IsF(F, m)
    <2> SUFFICES ASSUME ~\E F : IsF(F, m) PROVE FALSE
        OBVIOUS
    <2> DEFINE S == {j \in 0 .. N : ~\E F : IsF(F, j)}
    <2>1. S \in SUBSET (0 .. N) /\ m \in S
        OBVIOUS
    <2>2. PICK j \in S : \A y \in S : j <= y
        BY <2>1, LeastNumber
    <2>3. j \in 0 .. N /\ ~\E F : IsF(F, j)
        BY <2>2
    <2>4. j # 0
        <3>1. IsF([n \in 0 .. 0 |-> st], 0)
            OBVIOUS
        <3> QED  BY <2>3, <3>1
    <2> HIDE DEF S
    <2>5. j - 1 \in 0 .. N /\ j - 1 \notin S
        BY <2>2, <2>3, <2>4
    <2>6. PICK F : IsF(F, j - 1)
        BY <2>5 DEF S
    <2> DEFINE H == [n \in 0 .. j |-> IF n = j THEN FoldEvent(F[j - 1], events[j]) ELSE F[n]]
    <2>7. IsF(H, j)
        <3>1. ASSUME NEW n \in 0 .. j
              PROVE  H[n] = IF n = 0 THEN st ELSE FoldEvent(H[n - 1], events[n])
            <4>1. CASE n = j
                <5>1. H[n] = FoldEvent(F[j - 1], events[j]) /\ H[n - 1] = F[j - 1]
                    BY <2>3, <2>4, <4>1
                <5> QED  BY <2>4, <4>1, <5>1
            <4>2. CASE n # j
                <5>1. n \in 0 .. j - 1 /\ H[n] = F[n]
                    BY <2>3, <4>2
                <5>2. n # 0 => n - 1 \in 0 .. j /\ n - 1 # j /\ H[n - 1] = F[n - 1]
                    BY <2>3, <4>2
                <5>3. F[n] = IF n = 0 THEN st ELSE FoldEvent(F[n - 1], events[n])
                    BY <2>6, <5>1
                <5> QED  BY <5>1, <5>2, <5>3
            <4> QED  BY <4>1, <4>2
        <3> QED  BY <3>1
    <2> QED  BY <2>3, <2>7
<1>3. IsF(F0, N)
    <2>1. \E F : IsF(F, N)
        BY <1>2
    <2> HIDE DEF IsF
    <2> QED  BY <2>1, Zenon
<1>4. FoldEvents(st, events) = F0[N]
    BY DEF FoldEvents
<1> HIDE DEF F0
<1>5. \A n \in 0 .. N : F0[n] = IF n = 0 THEN st ELSE FoldEvent(F0[n - 1], events[n])
    BY <1>3
<1> QED  BY <1>4, <1>5

(***************************************************************************)
(* The handlers.                                                           *)
(***************************************************************************)
(* No task came to run or to wait for a retry.                             *)
Calm(st, s) ==
    \A u \in Tasks : s.task[u].state \in {"Running", "RetryWait"} =>
        s.task[u].state = st.task[u].state /\ s.task[u].attempt = st.task[u].attempt

LEMMA NoRowType == NoRow \in OutboxRows
BY DEF NoRow, OutboxRows

LEMMA KeepsItself ==
    ASSUME NEW kept, NEW st \in Rows
    PROVE  Keeps(kept, st, st) /\ Calm(st, st)
<1>1. \A t \in Tasks : st.task[t].attempt \in Nat
    BY RowsParts DEF TaskRows
<1> QED  BY <1>1 DEF Keeps, Calm

(* One task row is replaced by one that is not terminal either.            *)
LEMMA OneRow ==
    ASSUME NEW kept, NEW st, Core(kept, st), NEW t \in Tasks, NEW row \in TaskRows, NEW s \in Rows,
           s.run = st.run, s.edges = st.edges, s.keys = st.keys,
           s.task = [st.task EXCEPT ![t] = row],
           st.task[t].state # "Absent",
           row.satisfied = st.task[t].satisfied,
           st.task[t].attempt <= row.attempt, row.attempt <= MaxAttempt,
           ~IsTerminal(st.task[t].state), ~IsTerminal(row.state), row.state # "Absent",
           row.state # "Blocked",
           st.task[t].state # "Blocked",
           st.task[t].state = "RetryWait" =>
                row.attempt > st.task[t].attempt \/ row.state = "RetryWait"
    PROVE  Core(kept, s) /\ Keeps(kept, st, s)
<1>1. st.task \in [Tasks -> TaskRows]
    BY RowsParts DEF Core
<1>2. s.task[t] = row /\ \A u \in Tasks : u # t => s.task[u] = st.task[u]
    BY <1>1
<1>3. \A u \in Tasks : st.task[u].attempt \in Nat /\ st.task[u].state \in TaskStates
    BY <1>1 DEF TaskRows
<1>4. row.attempt \in Nat /\ row.state \in TaskStates
    BY DEF TaskRows
<1>5. PlanOK(s) /\ CloseOK(s)
    BY <1>2 DEF Core, PlanOK, CloseOK
<1>6. ASSUME kept PROVE CountsOK(s)
    <2>1. SameEnds(st, s)
        BY <1>2 DEF SameEnds
    <2> QED  BY <1>6, <2>1, CountsSame DEF Core
<1>7. ASSUME kept PROVE DepsOK(s)
    <2>1. st.task[t].state \in Active \cup {"Succeeded"}
        BY <1>3 DEF TaskStates, IsTerminal
    <2>2. st.task[t].state # "Succeeded"
        BY DEF IsTerminal, Kinds
    <2>3. DepsOK(st)
        BY <1>7 DEF Core
    <2>4. ASSUME NEW u \in Tasks
          PROVE  /\ s.task[u].satisfied = st.task[u].satisfied
                 /\ st.task[u].state = "Succeeded" => s.task[u].state = "Succeeded"
                 /\ s.task[u].state \in Active \cup {"Succeeded"} =>
                        st.task[u].state \in Active \cup {"Succeeded"}
        BY <1>2, <2>1, <2>2
    <2> QED  BY <2>3, <2>4, DepsSame
<1>8. AttemptOK(s)
    BY <1>2, <1>3, <1>4 DEF Core, AttemptOK
<1>9. Keeps(kept, st, s)
    BY <1>2, <1>3, <1>4 DEF Keeps
<1> QED  BY <1>5, <1>6, <1>7, <1>8, <1>9 DEF Core

LEMMA StartedStep ==
    ASSUME NEW kept, NEW st, Core(kept, st), KeysOK(st), NEW t \in Tasks, NEW n \in Attempts, NEW id \in Nat,
           st.task[t].attempt > 0, <<"started", t, n>> \notin st.keys,
           NEW r, r = FoldTaskStarted(st, t, n, id)
    PROVE  /\ Core(kept, r.st) /\ Keeps(kept, st, r.st) /\ r.st.keys = st.keys
           /\ r.applied => /\ r.st.task[t].state = "Running" /\ r.st.task[t].attempt = n
                           /\ \A u \in Tasks : u # t => r.st.task[u] = st.task[u]
           /\ ~r.applied => r.st = st
           /\ ~r.applied => st.task[t].attempt > n \/ IsTerminal(st.task[t].state)
<1>1. st \in Rows /\ st.task \in [Tasks -> TaskRows] /\ st.outbox \in [Dispatches -> OutboxRows]
      /\ st = [run |-> st.run, task |-> st.task, edges |-> st.edges, erv |-> st.erv,
               outbox |-> st.outbox, keys |-> st.keys]
    BY RowsParts DEF Core
<1>2. st.task[t] \in TaskRows /\ st.task[t].attempt \in Nat /\ n \in Nat /\ n <= MaxAttempt
    BY <1>1, AttemptFacts DEF TaskRows
<1>3. st.task[t].state \notin {"Absent", "Blocked"}
    BY <1>2 DEF Core, AttemptOK
<1>4. CASE IsTerminal(st.task[t].state) \/ n < st.task[t].attempt
    <2>1. r = [st |-> st, applied |-> FALSE]
        BY <1>4 DEF FoldTaskStarted, Ignored
    <2> QED  BY <1>1, <1>2, <1>4, <2>1, KeepsItself
<1>5. CASE ~IsTerminal(st.task[t].state) /\ ~(n < st.task[t].attempt)
    <2> DEFINE row == [st.task[t] EXCEPT !.state = "Running", !.attempt = n, !.rv = id]
               o == [st.outbox EXCEPT ![<<t, n>>] = NoRow]
               s == [run |-> st.run, task |-> [st.task EXCEPT ![t] = row], edges |-> st.edges, erv |-> st.erv,
                     outbox |-> o, keys |-> st.keys]
    <2>1. r = [st |-> s, applied |-> TRUE]
        BY <1>1, <1>3, <1>5 DEF FoldTaskStarted, Applied
    <2>2. row \in TaskRows /\ row.state = "Running" /\ row.attempt = n
          /\ row.satisfied = st.task[t].satisfied
        BY <1>2 DEF TaskRows, TaskStates, Active
    <2>3. o \in [Dispatches -> OutboxRows]
        BY <1>1, NoRowType DEF Dispatches
    <2> HIDE DEF row, o
    <2>4. s \in Rows
        <3>1. [st.task EXCEPT ![t] = row] \in [Tasks -> TaskRows]
            BY <1>1, <2>2
        <3> QED  BY <1>1, <2>3, <3>1, RowsParts, RowsMade
    <2>5. st.task[t].state = "RetryWait" => n > st.task[t].attempt
        <3>1. st.task[t].state = "RetryWait" => <<"started", t, st.task[t].attempt>> \in st.keys
            BY DEF KeysOK
        <3>2. st.task[t].state = "RetryWait" => n # st.task[t].attempt
            BY <3>1
        <3> QED  BY <1>2, <1>5, <3>2
    <2>6. Core(kept, s) /\ Keeps(kept, st, s)
        BY <1>2, <1>3, <1>5, <2>2, <2>4, <2>5, OneRow DEF IsTerminal, Kinds
    <2> QED  BY <1>1, <2>1, <2>2, <2>6
<1> QED  BY <1>4, <1>5

(* Only the outbox changes.                                                *)
LEMMA OutboxOnly ==
    ASSUME NEW kept, NEW st, Core(kept, st), NEW o \in [Dispatches -> OutboxRows], NEW s,
           s = [run |-> st.run, task |-> st.task, edges |-> st.edges, erv |-> st.erv, outbox |-> o, keys |-> st.keys]
    PROVE  Core(kept, s) /\ Keeps(kept, st, s) /\ s.keys = st.keys /\ Calm(st, s)
<1>1. st \in Rows
    BY DEF Core
<1>2. s \in Rows
    BY <1>1, RowsParts, RowsMade
<1>3. s.run = st.run /\ s.task = st.task /\ s.edges = st.edges /\ s.keys = st.keys
    OBVIOUS
<1>4. SameEnds(st, s)
    BY <1>3 DEF SameEnds
<1>5. ASSUME kept PROVE CountsOK(s) /\ DepsOK(s)
    <2>1. \A d : Sat(s, d) = Sat(st, d)
        BY <1>3 DEF Sat
    <2>2. CountsOK(s)
        BY <1>3, <1>4, <1>5, CountsSame DEF Core
    <2> QED  BY <1>3, <1>5, <2>1, <2>2 DEF Core, DepsOK
<1>6. PlanOK(s) /\ CloseOK(s) /\ AttemptOK(s)
    BY <1>3 DEF Core, PlanOK, CloseOK, AttemptOK
<1>7. Keeps(kept, st, s) /\ Calm(st, s)
    BY <1>1, <1>3, KeepsItself DEF Keeps, Calm
<1> QED  BY <1>2, <1>3, <1>5, <1>6, <1>7 DEF Core

LEMMA DispatchRequestedStep ==
    ASSUME NEW kept, NEW st, Core(kept, st), NEW t \in Tasks, NEW n \in Attempts, NEW id \in Nat,
           NEW r, r = FoldDispatchRequested(st, t, n, id)
    PROVE  Core(kept, r.st) /\ Keeps(kept, st, r.st) /\ r.st.keys = st.keys /\ Calm(st, r.st)
<1>1. st \in Rows /\ st.task \in [Tasks -> TaskRows] /\ st.outbox \in [Dispatches -> OutboxRows]
      /\ st = [run |-> st.run, task |-> st.task, edges |-> st.edges, erv |-> st.erv,
               outbox |-> st.outbox, keys |-> st.keys]
    BY RowsParts DEF Core
<1>2. st.task[t] \in TaskRows /\ st.task[t].attempt \in Nat /\ n \in Nat /\ n <= MaxAttempt
    BY <1>1, AttemptFacts DEF TaskRows
<1> DEFINE row == st.task[t]
           takes == /\ row.state \in {"Ready", "RetryWait", "Dispatched"}
                    /\ n >= row.attempt
                    /\ row.state # "Dispatched" \/ row.attempt # n
           dispatched == [row EXCEPT !.state = "Dispatched", !.attempt = n,
                                     !.retry = FALSE, !.rv = id]
           old == st.outbox[<<t, n>>]
           new == IF old = NoRow THEN [status |-> "Pending", bare |-> FALSE, rv |-> id]
                  ELSE [old EXCEPT !.bare = FALSE]
           WithRows(f, o) == [run |-> st.run, task |-> f, edges |-> st.edges, erv |-> st.erv,
                              outbox |-> o, keys |-> st.keys]
<1>3. new \in OutboxRows
    <2>1. <<t, n>> \in Dispatches
        BY DEF Dispatches
    <2> QED  BY <1>1, <2>1 DEF OutboxRows
<1>4. CASE DispatchConsumed(row, n)
    <2> DEFINE o == [st.outbox EXCEPT ![<<t, n>>] = NoRow]
    <2>1. r.st = WithRows(st.task, o)
        BY <1>1, <1>4 DEF FoldDispatchRequested, Ignored
    <2>2. o \in [Dispatches -> OutboxRows]
        BY <1>1, NoRowType
    <2> HIDE DEF o
    <2> QED  BY <2>1, <2>2, OutboxOnly
<1>5. CASE ~DispatchConsumed(row, n) /\ ~takes
    <2> DEFINE o == [st.outbox EXCEPT ![<<t, n>>] = new]
    <2>1. r.st = WithRows([st.task EXCEPT ![t] = row], o)
        BY <1>1, <1>5 DEF FoldDispatchRequested
    <2>2. [st.task EXCEPT ![t] = row] = st.task
        BY <1>1
    <2>3. o \in [Dispatches -> OutboxRows]
        BY <1>1, <1>3
    <2> HIDE DEF o
    <2> QED  BY <2>1, <2>2, <2>3, OutboxOnly
<1>6. CASE ~DispatchConsumed(row, n) /\ takes
    <2> DEFINE o == [st.outbox EXCEPT ![<<t, n>>] = new]
               f == [st.task EXCEPT ![t] = dispatched]
    <2>1. r.st = WithRows(f, o)
        BY <1>1, <1>6 DEF FoldDispatchRequested
    <2>2. dispatched \in TaskRows /\ dispatched.state = "Dispatched" /\ dispatched.attempt = n
          /\ dispatched.satisfied = row.satisfied
        BY <1>2 DEF TaskRows, TaskStates, Active
    <2>3. row.state = "RetryWait" => n > row.attempt
        BY <1>2, <1>6 DEF DispatchConsumed
    <2> HIDE DEF new
    <2>4. o \in [Dispatches -> OutboxRows]
        BY <1>1, <1>3
    <2> HIDE DEF dispatched, o
    <2>5. f \in [Tasks -> TaskRows] /\ f[t] = dispatched /\ \A u \in Tasks : u # t => f[u] = st.task[u]
        BY <1>1, <2>2
    <2>6. WithRows(f, o) \in Rows
        <3> HIDE DEF f
        <3> QED  BY <1>1, <2>4, <2>5, RowsParts, RowsMade
    <2>7. Core(kept, r.st) /\ Keeps(kept, st, r.st)
        BY <1>2, <1>6, <2>1, <2>2, <2>3, <2>6, OneRow DEF IsTerminal, Kinds
    <2>8. Calm(st, r.st) /\ r.st.keys = st.keys
        BY <2>1, <2>2, <2>5 DEF Calm
    <2> QED  BY <2>7, <2>8
<1> QED  BY <1>4, <1>5, <1>6

LEMMA DispatchEnqueuedStep ==
    ASSUME NEW kept, NEW st, Core(kept, st), NEW t \in Tasks, NEW n \in Attempts, NEW id \in Nat,
           NEW r, r = FoldDispatchEnqueued(st, t, n, id)
    PROVE  Core(kept, r.st) /\ Keeps(kept, st, r.st) /\ r.st.keys = st.keys /\ Calm(st, r.st)
<1>1. st \in Rows /\ st.outbox \in [Dispatches -> OutboxRows]
      /\ st = [run |-> st.run, task |-> st.task, edges |-> st.edges, erv |-> st.erv,
               outbox |-> st.outbox, keys |-> st.keys]
    BY RowsParts DEF Core
<1> DEFINE old == st.outbox[<<t, n>>]
           created == [status |-> "Created", bare |-> old = NoRow \/ old.bare, rv |-> id]
           Out(o) == [run |-> st.run, task |-> st.task, edges |-> st.edges, erv |-> st.erv,
                      outbox |-> o, keys |-> st.keys]
<1>2. created \in OutboxRows
    <2>1. old \in OutboxRows
        BY <1>1 DEF Dispatches
    <2>2. (old = NoRow \/ old.bare) \in BOOLEAN
        OBVIOUS
    <2> HIDE DEF old
    <2> QED  BY <2>2 DEF OutboxRows
<1>3. PICK o \in {st.outbox, [st.outbox EXCEPT ![<<t, n>>] = NoRow],
                  [st.outbox EXCEPT ![<<t, n>>] = created]} : r.st = Out(o)
    BY <1>1 DEF FoldDispatchEnqueued, Ignored, Applied
<1>4. o \in [Dispatches -> OutboxRows]
    BY <1>1, <1>2, <1>3, NoRowType
<1> QED  BY <1>3, <1>4, OutboxOnly

LEMMA TimerRequestedStep ==
    ASSUME NEW kept, NEW st, Core(kept, st), NEW t \in Tasks, NEW n \in Attempts, NEW id \in Nat,
           NEW r, r = FoldTimerRequested(st, t, n, id)
    PROVE  Core(kept, r.st) /\ Keeps(kept, st, r.st) /\ r.st.keys = st.keys /\ Calm(st, r.st)
<1>1. st \in Rows /\ st.task \in [Tasks -> TaskRows]
      /\ st = [run |-> st.run, task |-> st.task, edges |-> st.edges, erv |-> st.erv,
               outbox |-> st.outbox, keys |-> st.keys]
    BY RowsParts DEF Core
<1>2. CASE ~(st.task[t].state = "RetryWait" /\ st.task[t].attempt = n)
    <2>1. r.st = st
        BY <1>2 DEF FoldTimerRequested, Applied
    <2> QED  BY <1>1, <2>1, KeepsItself
<1>3. CASE st.task[t].state = "RetryWait" /\ st.task[t].attempt = n
    <2> DEFINE row == [st.task[t] EXCEPT !.retry = TRUE, !.rv = id]
               f == [st.task EXCEPT ![t] = row]
               s == [run |-> st.run, task |-> f, edges |-> st.edges, erv |-> st.erv,
                     outbox |-> st.outbox, keys |-> st.keys]
    <2>1. st.task[t] \in TaskRows /\ st.task[t].attempt \in Nat /\ n <= MaxAttempt
        BY <1>1, AttemptFacts DEF TaskRows
    <2>2. r.st = s
        BY <1>1, <1>3 DEF FoldTimerRequested, Applied
    <2>3. row \in TaskRows /\ row.state = "RetryWait" /\ row.attempt = n
          /\ row.satisfied = st.task[t].satisfied
        BY <1>3, <2>1 DEF TaskRows
    <2> HIDE DEF row
    <2>4. f \in [Tasks -> TaskRows] /\ f[t] = row /\ \A u \in Tasks : u # t => f[u] = st.task[u]
        BY <1>1, <2>3
    <2>5. s \in Rows
        <3> HIDE DEF f
        <3> QED  BY <1>1, <2>4, RowsParts, RowsMade
    <2>6. Core(kept, r.st) /\ Keeps(kept, st, r.st)
        BY <1>3, <2>1, <2>2, <2>3, <2>5, OneRow DEF IsTerminal, Kinds
    <2>7. Calm(st, r.st) /\ r.st.keys = st.keys
        BY <1>3, <2>2, <2>3, <2>4 DEF Calm
    <2> QED  BY <2>6, <2>7
<1> QED  BY <1>2, <1>3

LEMMA HeartbeatStep ==
    ASSUME NEW kept, NEW st, Core(kept, st), NEW t \in Tasks, NEW n \in Attempts, NEW id \in Nat,
           NEW r, r = FoldTaskHeartbeat(st, t, n, id)
    PROVE  Core(kept, r.st) /\ Keeps(kept, st, r.st) /\ r.st.keys = st.keys /\ Calm(st, r.st)
<1>1. st \in Rows /\ st.task \in [Tasks -> TaskRows]
      /\ st = [run |-> st.run, task |-> st.task, edges |-> st.edges, erv |-> st.erv,
               outbox |-> st.outbox, keys |-> st.keys]
    BY RowsParts DEF Core
<1>2. CASE IsTerminal(st.task[t].state) \/ st.task[t].attempt # n
    <2>1. r.st = st
        BY <1>2 DEF FoldTaskHeartbeat, Ignored
    <2> QED  BY <1>1, <2>1, KeepsItself
<1>3. CASE ~IsTerminal(st.task[t].state) /\ st.task[t].attempt = n
    <2> DEFINE row == [st.task[t] EXCEPT !.rv = id]
               f == [st.task EXCEPT ![t] = row]
               s == [run |-> st.run, task |-> f, edges |-> st.edges, erv |-> st.erv,
                     outbox |-> st.outbox, keys |-> st.keys]
    <2>1. st.task[t] \in TaskRows /\ n \in Nat /\ n > 0 /\ n <= MaxAttempt
        BY <1>1, AttemptFacts
    <2>2. r.st = s
        BY <1>1, <1>3 DEF FoldTaskHeartbeat, Applied
    <2>3. row \in TaskRows /\ row.state = st.task[t].state /\ row.attempt = n
          /\ row.satisfied = st.task[t].satisfied
        BY <1>3, <2>1 DEF TaskRows
    <2> HIDE DEF row
    <2>4. f \in [Tasks -> TaskRows] /\ f[t] = row /\ \A u \in Tasks : u # t => f[u] = st.task[u]
        BY <1>1, <2>3
    <2>5. s \in Rows
        <3> HIDE DEF f
        <3> QED  BY <1>1, <2>4, RowsParts, RowsMade
    <2>6. Core(kept, r.st) /\ Keeps(kept, st, r.st)
        <3>1. st.task[t].state \notin {"Absent", "Blocked"}
            BY <1>3, <2>1 DEF Core, AttemptOK
        <3> QED  BY <1>3, <2>1, <2>2, <2>3, <2>5, <3>1, OneRow
    <2>7. Calm(st, r.st) /\ r.st.keys = st.keys
        BY <1>3, <2>2, <2>3, <2>4 DEF Calm
    <2> QED  BY <2>6, <2>7
<1> QED  BY <1>2, <1>3

LEMMA KeepsTransitive ==
    ASSUME NEW kept, NEW st \in Rows, NEW s \in Rows, NEW q \in Rows, Keeps(kept, st, s), Keeps(kept, s, q)
    PROVE  Keeps(kept, st, q)
<1>1. \A t \in Tasks : /\ st.task[t].attempt \in Nat /\ s.task[t].attempt \in Nat
                       /\ q.task[t].attempt \in Nat
    BY RowsParts DEF TaskRows
<1>2. st.keys \subseteq q.keys /\ (kept => st.edges \subseteq q.edges)
      /\ (IsTerminal(st.run.state) => q.run.state = st.run.state)
      /\ (q.run.state = "Absent" => st.run.state = "Absent")
    BY DEF Keeps
<1>3. ASSUME NEW t \in Tasks
      PROVE  /\ st.task[t].attempt <= q.task[t].attempt
             /\ IsTerminal(st.task[t].state) => q.task[t].state = st.task[t].state
    BY <1>1 DEF Keeps
<1>4. ASSUME NEW t \in Tasks, st.task[t].state = "RetryWait"
      PROVE  \/ q.task[t].attempt > st.task[t].attempt
             \/ q.task[t].state \in {"RetryWait", "Cancelled"}
             \/ ~kept /\ q.task[t].state = "Skipped"
    <2>1. CASE s.task[t].attempt > st.task[t].attempt
        BY <1>1, <2>1 DEF Keeps
    <2>2. CASE s.task[t].state = "RetryWait"
        BY <1>1, <2>2 DEF Keeps
    <2>3. CASE s.task[t].state = "Cancelled"
        BY <2>3 DEF Keeps, IsTerminal, Kinds
    <2>4. CASE ~kept /\ s.task[t].state = "Skipped"
        BY <2>4 DEF Keeps, IsTerminal, Kinds
    <2> QED  BY <1>4, <2>1, <2>2, <2>3, <2>4 DEF Keeps
<1> QED  BY <1>2, <1>3, <1>4 DEF Keeps

(* Some tasks that are not terminal end in the state k, which is not       *)
(* success, and the run counts them.                                       *)
EndedIn(st, k, hit, id) ==
    [run |-> Tally(st.run, k, Cardinality(hit), id),
     task |-> [t \in Tasks |-> IF t \in hit
                    THEN [st.task[t] EXCEPT !.state = k, !.rv = id] ELSE st.task[t]],
     edges |-> st.edges, erv |-> st.erv, outbox |-> st.outbox, keys |-> st.keys]

LEMMA EndedRows ==
    ASSUME NEW kept, NEW st, Core(kept, st), NEW k \in Kinds \ {"Succeeded"}, NEW hit \in SUBSET Tasks,
           NEW id \in Nat, NEW s,
           \A t \in hit : /\ ~IsTerminal(st.task[t].state) /\ st.task[t].state # "Absent"
                          /\ st.task[t].state = "RetryWait" =>
                                k = "Cancelled" \/ (~kept /\ k = "Skipped"),
           s = EndedIn(st, k, hit, id)
    PROVE  Core(kept, s) /\ Keeps(kept, st, s) /\ s.keys = st.keys /\ Calm(st, s)
<1>1. st \in Rows /\ st.task \in [Tasks -> TaskRows] /\ st.run \in RunRows
    BY RowsParts DEF Core
<1>2. s.edges = st.edges /\ s.keys = st.keys /\ s.run = Tally(st.run, k, Cardinality(hit), id)
    BY DEF EndedIn
<1>3. ASSUME NEW t \in Tasks
      PROVE  /\ s.task[t] \in TaskRows
             /\ s.task[t].attempt = st.task[t].attempt
             /\ s.task[t].satisfied = st.task[t].satisfied
             /\ t \in hit => s.task[t].state = k
             /\ t \notin hit => s.task[t] = st.task[t]
    <2>1. st.task[t] \in TaskRows /\ k \in TaskStates
        BY <1>1 DEF TaskStates
    <2>2. s.task[t] = IF t \in hit THEN [st.task[t] EXCEPT !.state = k, !.rv = id] ELSE st.task[t]
        BY DEF EndedIn
    <2>3. [st.task[t] EXCEPT !.state = k, !.rv = id] \in TaskRows
          /\ [st.task[t] EXCEPT !.state = k, !.rv = id].state = k
          /\ [st.task[t] EXCEPT !.state = k, !.rv = id].attempt = st.task[t].attempt
          /\ [st.task[t] EXCEPT !.state = k, !.rv = id].satisfied = st.task[t].satisfied
        BY <2>1 DEF TaskRows
    <2> QED  BY <2>1, <2>2, <2>3
<1>4. /\ s.run \in RunRows /\ CloseOK(s)
      /\ s.run.state = "Absent" <=> st.run.state = "Absent"
      /\ s.run.state = "Absent" => s.run = st.run
      /\ s.run.state = "Triggered" => st.run.state = "Triggered"
      /\ IsTerminal(st.run.state) => s.run.state = st.run.state
    <2>1. CloseOK(st) /\ Cardinality(hit) \in Nat
        BY SubCard DEF Core
    <2>2. IsTerminal(st.run.state) => st.run.total <= st.run.completed
        BY <2>1 DEF CloseOK
    <2>3. /\ s.run \in RunRows
          /\ s.run.state = "Absent" <=> st.run.state = "Absent"
          /\ s.run.state = "Triggered" => st.run.state = "Triggered"
          /\ IsTerminal(st.run.state) => s.run.state = st.run.state
          /\ IsTerminal(s.run.state) => s.run.total <= s.run.completed
          /\ st.run.state = "Absent" => s.run = st.run
        <3>1. k \in Kinds
            OBVIOUS
        <3> DEFINE new == s.run
                   old == st.run
                   n == Cardinality(hit)
        <3>2. new = Tally(old, k, n, id) /\ old \in RunRows /\ n \in Nat
            BY <1>1, <1>2, <2>1
        <3>4. IsTerminal(old.state) => old.total <= old.completed
            BY <2>2
        <3> HIDE DEF new, old, n
        <3>3. /\ new \in RunRows
              /\ new.state = "Absent" <=> old.state = "Absent"
              /\ new.state = "Triggered" => old.state = "Triggered"
              /\ IsTerminal(old.state) => new.state = old.state
              /\ IsTerminal(new.state) => new.total <= new.completed
              /\ old.state = "Absent" => new = old
            BY <3>1, <3>2, <3>4, TallyRow
        <3> QED  BY <3>3 DEF new, old
    <2> QED  BY <2>3 DEF CloseOK
<1>11. ASSUME kept PROVE CountsOK(s)
    <2>1. CountsOK(st)
        BY <1>11 DEF Core
    <2> QED  BY <1>1, <1>2, <1>3, <2>1, CountsClose
<1>5. s \in Rows
    <2>1. s.task = [t \in Tasks |-> s.task[t]]
        BY DEF EndedIn
    <2>2. s.task \in [Tasks -> TaskRows]
        BY <1>3, <2>1
    <2>3. s = [run |-> s.run, task |-> s.task, edges |-> st.edges, erv |-> st.erv, outbox |-> st.outbox,
               keys |-> st.keys]
        BY DEF EndedIn
    <2>4. st.edges \in SUBSET (Tasks \X Tasks) /\ st.erv \in Versions
          /\ st.outbox \in [Dispatches -> OutboxRows] /\ st.keys \in SUBSET KeySet
        BY <1>1, RowsParts
    <2>5. [run |-> s.run, task |-> s.task, edges |-> st.edges, erv |-> st.erv, outbox |-> st.outbox,
           keys |-> st.keys] \in Rows
        BY <1>4, <2>2, <2>4, RowsMade
    <2> QED  BY <2>3, <2>5, Zenon
<1>6. PlanOK(s)
    <2>1. \A t \in Tasks : s.task[t].state = "Absent" <=> st.task[t].state = "Absent"
        BY <1>3 DEF Kinds
    <2>2. \A t \in Tasks : st.task[t].state = "Absent" => s.task[t] = st.task[t]
        BY <1>3
    <2> QED  BY <1>2, <1>4, <2>1, <2>2 DEF Core, PlanOK
<1>7. ASSUME kept PROVE DepsOK(s)
    <2>1. DepsOK(st)
        BY <1>7 DEF Core
    <2>2. ASSUME NEW t \in Tasks
          PROVE  /\ s.task[t].satisfied = st.task[t].satisfied
                 /\ st.task[t].state = "Succeeded" => s.task[t].state = "Succeeded"
                 /\ s.task[t].state \in Active \cup {"Succeeded"} =>
                        st.task[t].state \in Active \cup {"Succeeded"}
        BY <1>3 DEF Kinds, Active, IsTerminal
    <2> QED  BY <1>2, <2>1, <2>2, DepsSame
<1>8. AttemptOK(s)
    BY <1>3 DEF Core, AttemptOK, Kinds
<1>9. Calm(st, s)
    BY <1>3 DEF Calm, Kinds
<1>10. Keeps(kept, st, s)
    <2>1. \A t \in Tasks : st.task[t].attempt \in Nat
        BY <1>1 DEF TaskRows
    <2>2. \A t \in Tasks : IsTerminal(st.task[t].state) => t \notin hit
        OBVIOUS
    <2>3. \A t \in Tasks : st.task[t].state = "RetryWait" =>
                \/ s.task[t].state \in {"RetryWait", "Cancelled"}
                \/ ~kept /\ s.task[t].state = "Skipped"
        BY <1>3
    <2> QED  BY <1>2, <1>3, <1>4, <2>1, <2>2, <2>3 DEF Keeps
<1> QED  BY <1>2, <1>4, <1>5, <1>6, <1>7, <1>8, <1>9, <1>10, <1>11 DEF Core

(* Edges are taken back, which never happens as long as no row is dropped. *)
LEMMA EdgesOnly ==
    ASSUME NEW kept, NEW st, Core(kept, st), NEW E \in SUBSET st.edges, kept => E = st.edges,
           NEW V \in Versions, NEW s,
           s = [run |-> st.run, task |-> st.task, edges |-> E, erv |-> V,
                outbox |-> st.outbox, keys |-> st.keys]
    PROVE  Core(kept, s) /\ Keeps(kept, st, s) /\ s.keys = st.keys /\ Calm(st, s)
<1>1. st \in Rows
    BY DEF Core
<1>2. s \in Rows
    <2>1. E \in SUBSET (Tasks \X Tasks)
        BY <1>1, RowsParts
    <2> QED  BY <1>1, <2>1, RowsParts, RowsMade
<1>3. s.run = st.run /\ s.task = st.task /\ s.edges = E /\ s.keys = st.keys
    OBVIOUS
<1>4. ASSUME kept PROVE CountsOK(s) /\ DepsOK(s)
    <2>1. \A d : Sat(s, d) = Sat(st, d)
        BY <1>3, <1>4 DEF Sat
    <2>2. SameEnds(st, s)
        BY <1>3 DEF SameEnds
    <2>3. CountsOK(s)
        BY <1>3, <1>4, <2>2, CountsSame DEF Core
    <2> QED  BY <1>3, <1>4, <2>1, <2>3 DEF Core, DepsOK
<1>5. PlanOK(s) /\ CloseOK(s) /\ AttemptOK(s)
    BY <1>3 DEF Core, PlanOK, CloseOK, AttemptOK
<1>6. Keeps(kept, st, s) /\ Calm(st, s)
    BY <1>1, <1>3, KeepsItself DEF Keeps, Calm
<1> QED  BY <1>2, <1>3, <1>4, <1>5, <1>6 DEF Core

LEMMA VersionedType ==
    ASSUME NEW V \in Versions, NEW ups, NEW id \in Nat
    PROVE  Versioned(V, ups, id) \in Versions
BY DEF Versioned, Versions

LEMMA PropagateStep ==
    ASSUME NEW kept, NEW st, Core(kept, st), NEW t \in Tasks, NEW kind, NEW id \in Nat,
           IsTerminal(st.task[t].state), st.task[t].state # "Succeeded"
    PROVE  LET s == PropagateFailure(st, t, kind, id) IN
           Core(kept, s) /\ Keeps(kept, st, s) /\ s.keys = st.keys /\ Calm(st, s)
<1> DEFINE s == PropagateFailure(st, t, kind, id)
           to == IF kind = "Cancelled" THEN "Cancelled" ELSE "Skipped"
           hit == Reached(st, t)
           E == {edge \in st.edges : edge[1] \notin hit \cup {t}}
           V == Versioned(st.erv, hit \cup {t}, id)
           f == [d \in Tasks |-> IF d \in hit
                    THEN [st.task[d] EXCEPT !.state = to, !.rv = id] ELSE st.task[d]]
           run == Tally(st.run, to, Cardinality(hit), id)
           q == [run |-> st.run, task |-> st.task, edges |-> E, erv |-> V,
                 outbox |-> st.outbox, keys |-> st.keys]
<1>1. st \in Rows /\ st.task \in [Tasks -> TaskRows] /\ st.edges \subseteq Tasks \X Tasks
      /\ st.erv \in Versions
      /\ st = [run |-> st.run, task |-> st.task, edges |-> st.edges, erv |-> st.erv,
               outbox |-> st.outbox, keys |-> st.keys]
    BY RowsParts DEF Core
<1>2. to \in Kinds \ {"Succeeded"} /\ to \in {"Cancelled", "Skipped"}
    BY DEF Kinds
<1>3. hit \in SUBSET (Waiting(st, t) \ {t}) /\ hit \in SUBSET Tasks
    BY ReachedFacts DEF Waiting
<1>4. ASSUME NEW d \in hit
      PROVE  /\ d \in Tasks /\ ~IsTerminal(st.task[d].state)
             /\ kept => st.task[d].state \notin Active
             /\ st.task[d].state # "Absent"
    <2>1. d \in Tasks /\ ~IsTerminal(st.task[d].state)
          /\ \E u \in Deps[d] : u = t \/ ~IsTerminal(st.task[u].state)
        BY <1>3 DEF Waiting
    <2>2. PICK u \in Deps[d] : u = t \/ ~IsTerminal(st.task[u].state)
        BY <2>1
    <2>3. st.task[u].state # "Succeeded"
        BY <2>2 DEF IsTerminal, Kinds
    <2>4. ASSUME kept PROVE st.task[d].state \notin Active
        <3>1. DepsOK(st)
            BY <2>4 DEF Core
        <3> QED  BY <2>1, <2>2, <2>3, <3>1 DEF DepsOK
    <2>5. st.task[d].state # "Absent"
        BY <2>1 DEF Core, PlanOK, IsTerminal, Kinds
    <2> QED  BY <2>1, <2>4, <2>5
<1>5. ASSUME kept PROVE E = st.edges
    <2>1. ASSUME NEW edge \in st.edges PROVE edge[1] \notin hit \cup {t}
        <3>1. edge[1] \in Tasks /\ edge[2] \in Tasks /\ edge = <<edge[1], edge[2]>>
            BY <1>1, <2>1
        <3>0. DepsOK(st)
            BY <1>5 DEF Core
        <3>2. st.task[edge[1]].state = "Succeeded"
            BY <2>1, <3>0, <3>1 DEF DepsOK
        <3>3. IsTerminal(st.task[edge[1]].state)
            BY <3>2 DEF IsTerminal, Kinds
        <3> QED  BY <1>4, <3>2, <3>3
    <2> QED  BY <2>1
<1>6. E \in SUBSET st.edges /\ V \in Versions
    BY <1>1, VersionedType
<1>7. s = [st EXCEPT !.edges = E, !.erv = V, !.run = run, !.task = f]
    BY DEF PropagateFailure
<1>8. EndedIn(q, to, hit, id) = [run |-> run, task |-> f, edges |-> E, erv |-> V,
                                 outbox |-> st.outbox, keys |-> st.keys]
    BY DEF EndedIn
<1>9. q.task = st.task /\ q.keys = st.keys
    OBVIOUS
<1> HIDE DEF s, to, hit, E, V, f, run
<1>10. s = EndedIn(q, to, hit, id)
    <2>1. s = [run |-> run, task |-> f, edges |-> E, erv |-> V,
               outbox |-> st.outbox, keys |-> st.keys]
        BY <1>1, <1>7
    <2> QED  BY <1>8, <2>1, Zenon
<1>11. Core(kept, q) /\ Keeps(kept, st, q) /\ Calm(st, q)
    BY <1>5, <1>6, EdgesOnly
<1> HIDE DEF q
<1>12. \A d \in hit : /\ ~IsTerminal(q.task[d].state) /\ q.task[d].state # "Absent"
                      /\ q.task[d].state = "RetryWait" =>
                            to = "Cancelled" \/ (~kept /\ to = "Skipped")
    BY <1>2, <1>4, <1>9 DEF Active
<1>13. Core(kept, s) /\ Keeps(kept, q, s) /\ s.keys = q.keys /\ Calm(q, s)
    BY <1>2, <1>3, <1>10, <1>11, <1>12, EndedRows
<1>14. Keeps(kept, st, s)
    <2>1. q \in Rows /\ s \in Rows
        BY <1>11, <1>13 DEF Core
    <2> QED  BY <1>1, <1>11, <1>13, <2>1, KeepsTransitive
<1>15. Calm(st, s)
    BY <1>11, <1>13 DEF Calm
<1> QED  BY <1>9, <1>13, <1>14, <1>15 DEF s

(* Only the run row changes, and not its counters.                         *)
LEMMA RunOnly ==
    ASSUME NEW kept, NEW st, Core(kept, st), NEW s \in Rows, s.task = st.task, s.edges = st.edges,
           s.run.total = st.run.total, s.run.completed = st.run.completed,
           s.run.count = st.run.count,
           \/ s.run = st.run
           \/ s.run.state = st.run.state /\ st.run.state # "Absent"
           \/ /\ IsTerminal(s.run.state) /\ st.run.state # "Absent"
              /\ st.run.total <= st.run.completed
              /\ kept => IsTerminal(st.run.state)
    PROVE  Core(kept, s)
<1>3. Done(s) = Done(st) /\ \A k : InState(s, k) = InState(st, k)
    BY DEF Done, InState
<1>4. /\ s.run.state = "Absent" <=> st.run.state = "Absent"
      /\ s.run.state = "Absent" => s.run = st.run
      /\ s.run.state = "Triggered" => st.run.state = "Triggered"
      /\ kept => (IsTerminal(s.run.state) <=> IsTerminal(st.run.state))
    BY DEF IsTerminal, Kinds
<1>5. ASSUME kept PROVE CountsOK(s) /\ DepsOK(s)
    <2>1. \A d : Sat(s, d) = Sat(st, d)
        BY DEF Sat
    <2>2. CountsOK(st) /\ DepsOK(st) /\ (IsTerminal(s.run.state) <=> IsTerminal(st.run.state))
        BY <1>4, <1>5 DEF Core
    <2> QED  BY <1>3, <1>4, <2>1, <2>2 DEF CountsOK, DepsOK
<1>6. PlanOK(s) /\ AttemptOK(s)
    BY <1>4 DEF Core, PlanOK, AttemptOK
<1>7. CloseOK(s)
    BY DEF Core, CloseOK
<1> QED  BY <1>5, <1>6, <1>7 DEF Core

LEMMA CancelStep ==
    ASSUME NEW kept, NEW st, Core(kept, st), NEW id \in Nat, NEW r, r = FoldRunCancelRequested(st, id)
    PROVE  Core(kept, r.st) /\ Keeps(kept, st, r.st) /\ r.st.keys = st.keys /\ Calm(st, r.st)
<1> DEFINE hit == {t \in Tasks : st.task[t].state \in {"Blocked", "Ready", "Dispatched", "RetryWait"}}
           run0 == [st.run EXCEPT !.cancel = TRUE, !.rv = id]
           run == Tally(run0, "Cancelled", Cardinality(hit), id)
           run1 == [run EXCEPT !.state = IF run.completed = run.total THEN "Cancelled" ELSE @]
           f == [t \in Tasks |-> IF t \in hit
                    THEN [st.task[t] EXCEPT !.state = "Cancelled", !.rv = id] ELSE st.task[t]]
           With(x, g) == [run |-> x, task |-> g, edges |-> st.edges, erv |-> st.erv,
                          outbox |-> st.outbox, keys |-> st.keys]
<1>1. st \in Rows /\ st.run \in RunRows /\ st = With(st.run, st.task)
    BY RowsParts DEF Core
<1>2. CASE IsTerminal(st.run.state) \/ (st.run.state = "Absent" /\ hit = {})
    <2>1. r = [st |-> st, applied |-> FALSE]
        BY <1>2 DEF FoldRunCancelRequested, Ignored
    <2> QED  BY <1>1, <2>1, KeepsItself
<1>3. CASE ~(IsTerminal(st.run.state) \/ (st.run.state = "Absent" /\ hit = {}))
    <2>1. st.run.state # "Absent"
        BY <1>3 DEF Core, PlanOK
    <2>2. r.st = [st EXCEPT !.run = run1, !.task = f]
        BY <1>3, <2>1 DEF FoldRunCancelRequested, Applied
    <2>3. run0 \in RunRows /\ run0.state = st.run.state /\ run0.total = st.run.total
          /\ run0.completed = st.run.completed /\ run0.count = st.run.count
        BY <1>1 DEF RunRows
    <2>4. \A t \in hit : /\ ~IsTerminal(st.task[t].state) /\ st.task[t].state # "Absent"
        BY DEF IsTerminal, Kinds
    <2>5. hit \in SUBSET Tasks
        OBVIOUS
    <2> DEFINE st0 == With(run0, st.task)
               s0 == With(run, f)
    <2>6. s0 = EndedIn(st0, "Cancelled", hit, id)
        BY DEF EndedIn
    <2>7. st0.run = run0 /\ st0.task = st.task /\ st0.edges = st.edges /\ st0.keys = st.keys
        OBVIOUS
    <2>8. Core(kept, st0)
        <3> HIDE DEF run0
        <3>1. st0 \in Rows
            BY <1>1, <2>3, RowsParts, RowsMade
        <3> HIDE DEF st0
        <3> QED  BY <2>1, <2>3, <2>7, <3>1, RunOnly
    <2>9. s0.run = run /\ s0.task = f /\ s0.edges = st.edges /\ s0.keys = st.keys
          /\ s0 = With(s0.run, f) /\ s0.outbox = st.outbox
        OBVIOUS
    <2> HIDE DEF hit, run0, run, run1, f, st0, s0
    <2>10. Core(kept, s0) /\ Keeps(kept, st0, s0) /\ Calm(st0, s0)
        <3> DEFINE k == "Cancelled"
        <3>1. \A t \in hit : /\ ~IsTerminal(st0.task[t].state) /\ st0.task[t].state # "Absent"
                             /\ st0.task[t].state = "RetryWait" =>
                                    k = "Cancelled" \/ (~kept /\ k = "Skipped")
            BY <2>4, <2>7
        <3>2. k \in Kinds \ {"Succeeded"} /\ s0 = EndedIn(st0, k, hit, id)
            BY <2>6 DEF Kinds
        <3> HIDE DEF k
        <3> QED  BY <2>5, <2>8, <3>1, <3>2, EndedRows
    <2>11. run \in RunRows /\ run.state # "Absent"
          /\ (kept => (IsTerminal(run.state) <=> run.completed = run.total))
        <3>1. s0 \in Rows /\ PlanOK(s0)
            BY <2>10 DEF Core
        <3>2. run \in RunRows
            BY <2>9, <3>1, RowsParts
        <3>3. run.state # "Absent"
            <4>1. PlanOK(st)
                BY DEF Core
            <4>2. PICK t \in Tasks : TRUE
                BY FoldAssumption
            <4>3. st.task[t].state # "Absent"
                BY <2>1, <4>1 DEF PlanOK
            <4>4. s0.task[t].state # "Absent"
                <5>1. st.task[t] \in TaskRows
                    BY <1>1, RowsParts
                <5>2. f[t] = IF t \in hit THEN [st.task[t] EXCEPT !.state = "Cancelled", !.rv = id]
                             ELSE st.task[t]
                    BY DEF f
                <5> QED  BY <2>9, <4>3, <5>1, <5>2 DEF TaskRows
            <4> QED  BY <2>9, <3>1, <4>4 DEF PlanOK
        <3>4. ASSUME kept PROVE IsTerminal(run.state) <=> run.completed = run.total
            <4>1. CountsOK(s0)
                BY <2>10, <3>4 DEF Core
            <4>2. run.total = Cardinality(Tasks) /\ run.completed = Cardinality(Done(s0))
                  /\ (IsTerminal(run.state) <=> Done(s0) = Tasks)
                BY <2>9, <3>3, <4>1 DEF CountsOK
            <4> QED  BY <4>2, DoneFacts
        <3> QED  BY <3>2, <3>3, <3>4
    <2>12. run1 \in RunRows /\ run1.total = run.total /\ run1.completed = run.completed
          /\ run1.count = run.count
          /\ \/ run1.state = run.state
             \/ /\ IsTerminal(run1.state) /\ run.total <= run.completed
                /\ kept => IsTerminal(run.state)
        <3>1. CASE run.completed = run.total
            <4>1. run1 = [run EXCEPT !.state = "Cancelled"]
                BY <3>1 DEF run1
            <4>2. run1 \in RunRows /\ run1.state = "Cancelled" /\ run1.total = run.total
                  /\ run1.completed = run.completed /\ run1.count = run.count
                BY <2>11, <4>1 DEF RunRows, RunStates
            <4>3. run.total <= run.completed
                BY <2>11, <3>1 DEF RunRows
            <4>4. IsTerminal(run1.state)
                BY <4>2 DEF IsTerminal, Kinds
            <4> QED  BY <2>11, <3>1, <4>2, <4>3, <4>4
        <3>2. CASE run.completed # run.total
            <4>1. run1 = [run EXCEPT !.state = run.state]
                BY <3>2 DEF run1
            <4>2. run1 \in RunRows /\ run1.state = run.state /\ run1.total = run.total
                  /\ run1.completed = run.completed /\ run1.count = run.count
                BY <2>11, <4>1 DEF RunRows
            <4> QED  BY <4>2
        <3> QED  BY <3>1, <3>2
    <2>13. r.st = With(run1, f)
        BY <1>1, <2>2
    <2>14. Core(kept, r.st)
        <3>1. r.st.run = run1 /\ r.st.task = s0.task /\ r.st.edges = s0.edges
            BY <2>9, <2>13
        <3>2. r.st \in Rows
            <4>1. f \in [Tasks -> TaskRows] /\ st.edges \in SUBSET (Tasks \X Tasks)
                  /\ st.erv \in Versions
                  /\ st.outbox \in [Dispatches -> OutboxRows] /\ st.keys \in SUBSET KeySet
                BY <1>1, <2>9, <2>10, RowsParts DEF Core
            <4> QED  BY <2>12, <2>13, <4>1, RowsMade
        <3> QED  BY <2>9, <2>10, <2>11, <2>12, <3>1, <3>2, RunOnly
    <2>15. Keeps(kept, st, r.st) /\ Calm(st, r.st)
        <3>1. ~IsTerminal(st.run.state)
            BY <1>3
        <3>2. r.st.run.state # "Absent"
            BY <2>11, <2>12, <2>13 DEF IsTerminal, Kinds
        <3> QED  BY <2>7, <2>9, <2>10, <2>13, <3>1, <3>2 DEF Keeps, Calm
    <2> QED  BY <2>13, <2>14, <2>15
<1> QED  BY <1>2, <1>3

LEMMA SatisfyStep ==
    ASSUME NEW kept, NEW st, Core(kept, st), NEW t \in Tasks, NEW id \in Nat, st.task[t].state = "Succeeded"
    PROVE  LET s == SatisfyDownstream(st, t, id) IN
           Core(kept, s) /\ Keeps(kept, st, s) /\ s.keys = st.keys /\ Calm(st, s)
<1> DEFINE fresh == {d \in Dependents(t) : <<t, d>> \notin st.edges}
           plus(d) == [st.task[d] EXCEPT !.satisfied = @ + 1]
           bump(d) == IF plus(d).satisfied = Cardinality(Deps[d]) /\ plus(d).state = "Blocked"
                      THEN [plus(d) EXCEPT !.state = "Ready", !.rv = id] ELSE plus(d)
           f == [d \in Tasks |-> IF d \in fresh THEN bump(d) ELSE st.task[d]]
           E == st.edges \cup {<<t, d>> : d \in Dependents(t)}
           V == Versioned(st.erv, {t}, id)
           s == SatisfyDownstream(st, t, id)
<1>1. st \in Rows /\ st.task \in [Tasks -> TaskRows] /\ st.edges \in SUBSET (Tasks \X Tasks)
      /\ st = [run |-> st.run, task |-> st.task, edges |-> st.edges, erv |-> st.erv,
               outbox |-> st.outbox, keys |-> st.keys]
    BY RowsParts DEF Core
<1>2. s = [st EXCEPT !.edges = E, !.erv = V, !.task = f]
    BY DEF SatisfyDownstream
<1>0. V \in Versions
    BY <1>1, RowsParts, VersionedType
<1>3. s = [run |-> st.run, task |-> f, edges |-> E, erv |-> V, outbox |-> st.outbox, keys |-> st.keys]
    <2> HIDE DEF E, V, f, s
    <2> QED  BY <1>1, <1>2
<1>4. ASSUME NEW d \in Tasks
      PROVE  /\ f[d] \in TaskRows /\ f[d].attempt = st.task[d].attempt
             /\ d \notin fresh => f[d] = st.task[d]
             /\ d \in fresh => f[d].satisfied = st.task[d].satisfied + 1
             /\ \/ f[d].state = st.task[d].state
                \/ /\ d \in fresh /\ st.task[d].state = "Blocked" /\ f[d].state = "Ready"
                   /\ f[d].satisfied = Cardinality(Deps[d])
    <2>1. st.task[d] \in TaskRows
        BY <1>1
    <2>2. plus(d) \in TaskRows /\ plus(d).attempt = st.task[d].attempt
          /\ plus(d).state = st.task[d].state /\ plus(d).satisfied = st.task[d].satisfied + 1
        BY <2>1 DEF TaskRows
    <2>3. f[d] = IF d \in fresh THEN bump(d) ELSE st.task[d]
        OBVIOUS
    <2> HIDE DEF plus, fresh, f
    <2>4. [plus(d) EXCEPT !.state = "Ready", !.rv = id] \in TaskRows
          /\ [plus(d) EXCEPT !.state = "Ready", !.rv = id].attempt = plus(d).attempt
          /\ [plus(d) EXCEPT !.state = "Ready", !.rv = id].satisfied = plus(d).satisfied
          /\ [plus(d) EXCEPT !.state = "Ready", !.rv = id].state = "Ready"
        BY <2>2 DEF TaskRows, TaskStates, Active
    <2> QED  BY <2>1, <2>2, <2>3, <2>4
<1>5. fresh \in SUBSET Tasks /\ \A d \in fresh : t \in Deps[d] /\ <<t, d>> \notin st.edges
    BY DEF Dependents
<1>6. E \in SUBSET (Tasks \X Tasks)
    BY <1>1 DEF Dependents
<1>7. s.run = st.run /\ s.task = f /\ s.edges = E /\ s.keys = st.keys
    <2> HIDE DEF f, E, V, s
    <2> QED  BY <1>3
<1>8. ASSUME NEW d \in Tasks
      PROVE  Sat(s, d) = IF d \in Dependents(t) THEN Sat(st, d) \cup {t} ELSE Sat(st, d)
    <2>1. \A u \in Tasks : <<u, d>> \in E <=> <<u, d>> \in st.edges \/ (u = t /\ d \in Dependents(t))
        OBVIOUS
    <2> HIDE DEF E, s
    <2> QED  BY <1>7, <2>1 DEF Sat
<1>9. \A u, d \in Tasks : <<u, d>> \in E => <<u, d>> \in st.edges \/ (u = t /\ t \in Deps[d])
    BY DEF Dependents
<1>10. \A d \in Tasks : d \in Dependents(t) /\ d \notin fresh => t \in Sat(st, d)
    BY DEF Sat
<1>11. st.edges \subseteq E /\ \A d \in Tasks : d \in fresh => d \in Dependents(t) /\ t \notin Sat(st, d)
    BY DEF Sat
<1> HIDE DEF f, E, V, fresh, s
<1>12. s \in Rows
    <2>1. f = [d \in Tasks |-> f[d]]
        BY DEF f
    <2>2. f \in [Tasks -> TaskRows]
        BY <1>4, <2>1
    <2> QED  BY <1>0, <1>1, <1>3, <1>6, <2>2, RowsParts, RowsMade
<1>13. PlanOK(s) /\ CloseOK(s)
    <2>1. st.run.state # "Absent"
        BY DEF Core, PlanOK
    <2> QED  BY <1>4, <1>7, <2>1 DEF Core, PlanOK, CloseOK
<1>14. ASSUME kept PROVE CountsOK(s)
    <2>1. SameEnds(st, s)
        BY <1>4, <1>7 DEF SameEnds, IsTerminal, Kinds
    <2> QED  BY <1>7, <1>14, <2>1, CountsSame DEF Core
<1>23. ASSUME kept PROVE DepsOK(s)
  <2>0. DepsOK(st)
    BY <1>23 DEF Core
  <2>15. \A d \in Tasks : st.task[d].satisfied = Cardinality(Sat(st, d)) /\ Sat(st, d) \in SUBSET Tasks
    BY <2>0 DEF DepsOK, Sat
  <2>16. ASSUME NEW d \in Tasks PROVE s.task[d].satisfied = Cardinality(Sat(s, d))
      <3>1. CASE d \in fresh
          <4>1. Sat(s, d) = Sat(st, d) \cup {t} /\ t \notin Sat(st, d)
              BY <1>8, <1>11, <3>1
          <4>2. Cardinality(Sat(s, d)) = Cardinality(Sat(st, d)) + 1
              BY <2>15, <4>1, SubCard, FS_AddElement
          <4> QED  BY <1>4, <1>7, <2>15, <3>1, <4>2
      <3>2. CASE d \notin fresh
          <4>1. Sat(s, d) = Sat(st, d)
              BY <1>8, <1>10, <3>2
          <4> QED  BY <1>4, <1>7, <2>15, <3>2, <4>1
      <3> QED  BY <3>1, <3>2
  <2>17. \A u \in Tasks : st.task[u].state = "Succeeded" => s.task[u].state = "Succeeded"
      BY <1>4, <1>7
  <2>18. \A u, d \in Tasks : <<u, d>> \in s.edges => u \in Deps[d] /\ s.task[u].state = "Succeeded"
      BY <1>7, <1>9, <2>0, <2>17 DEF DepsOK
  <2>19. ASSUME NEW d \in Tasks, s.task[d].state \in Active \cup {"Succeeded"}, NEW u \in Deps[d]
         PROVE  s.task[u].state = "Succeeded"
      <3>1. Deps[d] \subseteq Tasks
          BY FoldAssumption
      <3>2. CASE s.task[d].state = st.task[d].state
          BY <2>0, <2>17, <2>19, <3>1, <3>2 DEF DepsOK
      <3>3. CASE s.task[d].satisfied = Cardinality(Deps[d])
          <4>1. Sat(s, d) \in SUBSET Deps[d]
              BY <2>18 DEF Sat
          <4>2. Cardinality(Deps[d]) = Cardinality(Sat(s, d)) /\ IsFiniteSet(Deps[d])
              BY <2>16, <3>1, <3>3, SubCard
          <4>3. Deps[d] = Sat(s, d)
              BY <4>1, <4>2, FS_Subset
          <4> QED  BY <2>18, <2>19, <4>3 DEF Sat
      <3> QED  BY <1>4, <1>7, <3>2, <3>3
  <2> QED
      BY <2>16, <2>18, <2>19 DEF DepsOK
<1>21. AttemptOK(s)
    BY <1>4, <1>7 DEF Core, AttemptOK
<1>22. Keeps(kept, st, s) /\ Calm(st, s)
    <2>1. \A d \in Tasks : st.task[d].attempt \in Nat
        BY <1>1 DEF TaskRows
    <2> QED  BY <1>4, <1>7, <1>11, <2>1 DEF Keeps, Calm, IsTerminal, Kinds
<1> QED  BY <1>7, <1>12, <1>13, <1>14, <1>21, <1>22, <1>23 DEF Core, s

(* A task that is under way ends, whatever comes after it.                 *)
CountedIn(st, t, row, to, id) ==
    [run |-> Tally(st.run, to, 1, id), task |-> [st.task EXCEPT ![t] = row],
     edges |-> st.edges, erv |-> st.erv, outbox |-> st.outbox, keys |-> st.keys]

LEMMA CountedStep ==
    ASSUME NEW kept, NEW st, Core(kept, st), NEW t \in Tasks, NEW to \in Kinds, NEW id \in Nat, NEW row \in TaskRows,
           st.task[t].state \in Active, st.task[t].state # "RetryWait",
           row.state = to, row.attempt = st.task[t].attempt,
           row.satisfied = st.task[t].satisfied, NEW s, s = CountedIn(st, t, row, to, id)
    PROVE  Core(kept, s) /\ Keeps(kept, st, s) /\ s.keys = st.keys /\ s.task[t] = row /\ Calm(st, s)
<1>1. st \in Rows /\ st.task \in [Tasks -> TaskRows] /\ st.run \in RunRows
    BY RowsParts DEF Core
<1>2. s.run = Tally(st.run, to, 1, id) /\ s.edges = st.edges /\ s.keys = st.keys
      /\ s.task \in [Tasks -> TaskRows]
      /\ s.task[t] = row /\ \A u \in Tasks : u # t => s.task[u] = st.task[u]
    BY <1>1 DEF CountedIn
<1>3. {t} \in SUBSET Tasks /\ Cardinality({t}) = 1
    BY FS_Singleton
<1>4. ~IsTerminal(st.task[t].state) /\ st.task[t].state \notin {"Absent", "Blocked"}
    BY DEF IsTerminal, Kinds, Active
<1>11. st.run.state # "Absent"
    BY <1>4 DEF Core, PlanOK
<1>12. /\ s.run \in RunRows /\ CloseOK(s)
       /\ s.run.state # "Absent"
       /\ s.run.state = "Triggered" => st.run.state = "Triggered"
       /\ IsTerminal(st.run.state) => s.run.state = st.run.state
    <2> DEFINE old == st.run
    <2>1. old \in RunRows /\ (IsTerminal(old.state) => old.total <= old.completed)
          /\ s.run = Tally(old, to, 1, id)
        BY <1>1, <1>2 DEF Core, CloseOK
    <2> HIDE DEF old
    <2>2. /\ s.run \in RunRows
          /\ s.run.state = "Absent" <=> old.state = "Absent"
          /\ s.run.state = "Triggered" => old.state = "Triggered"
          /\ IsTerminal(old.state) => s.run.state = old.state
          /\ IsTerminal(s.run.state) => s.run.total <= s.run.completed
        BY <2>1, TallyRow
    <2> QED  BY <1>11, <2>2 DEF CloseOK, old
<1>5. ASSUME kept PROVE CountsOK(s)
    <2> DEFINE hit == {t}
    <2>1. \A u \in hit : ~IsTerminal(st.task[u].state) /\ s.task[u].state = to
        BY <1>2, <1>4
    <2>2. \A u \in Tasks \ hit : \/ s.task[u].state = st.task[u].state
                                 \/ ~IsTerminal(s.task[u].state) /\ ~IsTerminal(st.task[u].state)
        BY <1>2
    <2>3. CountsOK(st) /\ s.run = Tally(st.run, to, Cardinality(hit), id) /\ hit \in SUBSET Tasks
        BY <1>2, <1>3, <1>5 DEF Core
    <2> HIDE DEF hit
    <2> QED  BY <1>1, <2>1, <2>2, <2>3, CountsClose
<1>6. s \in Rows
    <2>1. s = [run |-> s.run, task |-> s.task, edges |-> st.edges, erv |-> st.erv, outbox |-> st.outbox,
               keys |-> st.keys]
        BY DEF CountedIn
    <2> QED  BY <1>1, <1>2, <1>12, <2>1, RowsParts, RowsMade
<1>7. PlanOK(s)
    BY <1>2, <1>11, <1>12 DEF Core, PlanOK, Kinds
<1>8. ASSUME kept PROVE DepsOK(s)
    <2>1. DepsOK(st)
        BY <1>8 DEF Core
    <2>2. ASSUME NEW u \in Tasks
          PROVE  /\ s.task[u].satisfied = st.task[u].satisfied
                 /\ st.task[u].state = "Succeeded" => s.task[u].state = "Succeeded"
                 /\ s.task[u].state \in Active \cup {"Succeeded"} =>
                        st.task[u].state \in Active \cup {"Succeeded"}
        BY <1>2 DEF Active
    <2> QED  BY <1>2, <2>1, <2>2, DepsSame
<1>9. AttemptOK(s)
    BY <1>2 DEF Core, AttemptOK, Kinds
<1>10. Keeps(kept, st, s) /\ Calm(st, s)
    <2>1. \A u \in Tasks : st.task[u].attempt \in Nat
        BY <1>1 DEF TaskRows
    <2> QED  BY <1>2, <1>4, <1>12, <2>1 DEF Keeps, Calm, Kinds
<1> QED  BY <1>2, <1>5, <1>12, <1>6, <1>7, <1>8, <1>9, <1>10 DEF Core

LEMMA CalmTransitive ==
    ASSUME NEW st, NEW s, NEW q, Calm(st, s), Calm(s, q)
    PROVE  Calm(st, q)
BY DEF Calm

LEMMA FinishedStep ==
    ASSUME NEW kept, NEW st, Core(kept, st), KeysOK(st), NEW t \in Tasks, NEW n \in Attempts, NEW id \in Nat,
           NEW outcome \in Outcomes, <<"finished", t, n>> \notin st.keys,
           NEW r, r = FoldTaskFinished(st, t, n, outcome, id)
    PROVE  /\ Core(kept, r.st) /\ Keeps(kept, st, r.st) /\ r.st.keys = st.keys
           /\ ~r.applied => r.st = st
           /\ \/ Calm(st, r.st)
              \/ /\ ~IsTerminal(st.task[t].state) /\ st.task[t].attempt = n
                 /\ r.applied /\ r.st.task[t].state = "RetryWait" /\ r.st.task[t].attempt = n
                 /\ \A u \in Tasks : u # t => r.st.task[u] = st.task[u]
<1> DEFINE to == IF outcome = "Failed" /\ n < MaxAttempts[t] THEN "RetryWait" ELSE outcome
           row == [st.task[t] EXCEPT !.state = to, !.rv = id, !.retry = @ /\ to = "RetryWait"]
           f == [st.task EXCEPT ![t] = row]
           run == IF IsTerminal(to) THEN Tally(st.run, to, 1, id) ELSE st.run
           counted == [st EXCEPT !.task[t] = row,
                                 !.run = IF IsTerminal(to) THEN Tally(@, to, 1, id) ELSE @]
<1>1. st \in Rows /\ st.task \in [Tasks -> TaskRows]
      /\ st = [run |-> st.run, task |-> st.task, edges |-> st.edges, erv |-> st.erv,
               outbox |-> st.outbox, keys |-> st.keys]
    BY RowsParts DEF Core
<1>2. st.task[t] \in TaskRows /\ st.task[t].attempt \in Nat /\ n \in Nat /\ n > 0 /\ n <= MaxAttempt
    BY <1>1, AttemptFacts DEF TaskRows
<1>3. CASE st.task[t].state = "Absent" \/ st.task[t].attempt # n \/ IsTerminal(st.task[t].state)
    <2>1. r = [st |-> st, applied |-> FALSE]
        BY <1>3 DEF FoldTaskFinished, Ignored
    <2> QED  BY <1>1, <2>1, KeepsItself
<1>4. CASE ~(st.task[t].state = "Absent" \/ st.task[t].attempt # n \/ IsTerminal(st.task[t].state))
    <2>1. st.task[t].attempt = n /\ ~IsTerminal(st.task[t].state)
        BY <1>4
    <2>2. st.task[t].state \in Active /\ st.task[t].state # "RetryWait"
        <3>1. st.task[t].state \notin {"Absent", "Blocked"}
            BY <1>2, <2>1 DEF Core, AttemptOK
        <3>2. st.task[t].state # "RetryWait"
            <4>1. st.task[t].state = "RetryWait" => <<"finished", t, st.task[t].attempt>> \in st.keys
                BY DEF KeysOK
            <4> QED  BY <2>1, <4>1
        <3> QED  BY <1>2, <2>1, <3>1, <3>2 DEF TaskRows, TaskStates, IsTerminal
    <2>3. r = [st |-> CASE to = "RetryWait" -> counted
                        [] to = "Succeeded" -> SatisfyDownstream(counted, t, id)
                        [] OTHER -> PropagateFailure(counted, t, to, id),
               applied |-> TRUE]
        BY <1>4 DEF FoldTaskFinished, Applied
    <2>4. counted = [run |-> run, task |-> f, edges |-> st.edges, erv |-> st.erv,
                     outbox |-> st.outbox, keys |-> st.keys]
        <3> DEFINE q == counted
        <3>1. q = [st EXCEPT !.task[t] = row, !.run = run]
            OBVIOUS
        <3> HIDE DEF q, row, run
        <3>2. q = [run |-> run, task |-> f, edges |-> st.edges, erv |-> st.erv, outbox |-> st.outbox, keys |-> st.keys]
            BY <1>1, <3>1
        <3> QED  BY <3>2 DEF q
    <2>5. to \in Outcomes \cup {"RetryWait"}
        OBVIOUS
    <2>6. row \in TaskRows /\ row.state = to /\ row.attempt = n
          /\ row.satisfied = st.task[t].satisfied
        BY <1>2, <2>1, <2>5 DEF TaskRows, TaskStates, Active, Kinds, Outcomes
    <2> HIDE DEF counted, row, to
    <2>7. CASE to = "RetryWait"
        <3>1. r.st = [run |-> st.run, task |-> f, edges |-> st.edges, erv |-> st.erv,
                      outbox |-> st.outbox, keys |-> st.keys] /\ r.applied
            BY <2>3, <2>4, <2>7 DEF IsTerminal, Kinds
        <3>2. f \in [Tasks -> TaskRows] /\ f[t] = row /\ \A u \in Tasks : u # t => f[u] = st.task[u]
            BY <1>1, <2>6
        <3>3. r.st \in Rows
            <4> HIDE DEF f
            <4> QED  BY <1>1, <3>1, <3>2, RowsParts, RowsMade
        <3>4. Core(kept, r.st) /\ Keeps(kept, st, r.st)
            BY <1>2, <2>1, <2>2, <2>6, <2>7, <3>1, <3>3, OneRow DEF IsTerminal, Kinds, Active
        <3> QED  BY <2>1, <2>6, <2>7, <3>1, <3>2, <3>4
    <2>8. CASE to # "RetryWait"
        <3>1. to \in Kinds /\ to \in Outcomes /\ IsTerminal(to)
            BY <2>5, <2>8 DEF Kinds, Outcomes, IsTerminal
        <3>2. counted = CountedIn(st, t, row, to, id)
            BY <2>4, <3>1 DEF CountedIn
        <3>3. Core(kept, counted) /\ Keeps(kept, st, counted) /\ counted.keys = st.keys
              /\ counted.task[t] = row /\ Calm(st, counted)
            BY <2>1, <2>2, <2>6, <3>1, <3>2, CountedStep
        <3>4. Core(kept, r.st) /\ Keeps(kept, counted, r.st) /\ r.st.keys = counted.keys
              /\ Calm(counted, r.st) /\ r.applied
            <4>1. CASE to = "Succeeded"
                <5>1. r.st = SatisfyDownstream(counted, t, id) /\ r.applied
                    BY <2>3, <4>1
                <5> QED  BY <2>6, <3>3, <4>1, <5>1, SatisfyStep
            <4>2. CASE to # "Succeeded"
                <5>1. r.st = PropagateFailure(counted, t, to, id) /\ r.applied
                    BY <2>3, <2>8, <4>2
                <5> QED  BY <2>6, <3>1, <3>3, <4>2, <5>1, PropagateStep
            <4> QED  BY <4>1, <4>2
        <3>5. Keeps(kept, st, r.st)
            BY <1>1, <3>3, <3>4, KeepsTransitive DEF Core
        <3>6. Calm(st, r.st)
            BY <3>3, <3>4, CalmTransitive
        <3> QED  BY <3>3, <3>4, <3>5, <3>6
    <2> QED  BY <2>7, <2>8
<1> QED  BY <1>3, <1>4

(***************************************************************************)
(* One event, and a batch of them.                                         *)
(***************************************************************************)
LEMMA WithKey ==
    ASSUME NEW kept, NEW st, NEW q, Core(kept, q), Keeps(kept, st, q), NEW k \in KeySet, NEW s,
           s = [q EXCEPT !.keys = @ \cup {k}]
    PROVE  /\ Core(kept, s) /\ Keeps(kept, st, s) /\ s.run = q.run /\ s.task = q.task
           /\ s.keys = q.keys \cup {k}
<1>1. q \in Rows
    BY DEF Core
<1>2. q \in [run : RunRows, task : [Tasks -> TaskRows], edges : SUBSET (Tasks \X Tasks), erv : Versions,
             outbox : [Dispatches -> OutboxRows], keys : SUBSET KeySet]
    BY <1>1, RowsAre
<1>3. s = [run |-> q.run, task |-> q.task, edges |-> q.edges, erv |-> q.erv, outbox |-> q.outbox,
           keys |-> q.keys \cup {k}]
    BY <1>2
<1>4. s.run = q.run /\ s.task = q.task /\ s.edges = q.edges /\ s.keys = q.keys \cup {k}
    BY <1>3
<1>5. s \in Rows
    <2>1. q.keys \cup {k} \in SUBSET KeySet
        BY <1>2
    <2> QED  BY <1>1, <1>3, <2>1, RowsParts, RowsMade
<1>6. Core(kept, s)
    BY <1>4, <1>5, RunOnly
<1>7. Keeps(kept, st, s)
    BY <1>4 DEF Keeps
<1> QED  BY <1>4, <1>6, <1>7

LEMMA KeyType ==
    ASSUME NEW e \in Events
    PROVE  Key(e) \in KeySet
<1>1. e.type \in EventTypes /\ e.task \in Tasks \cup {"none"}
      /\ e.attempt \in Nat /\ e.id \in Nat
    BY AttemptFacts DEF Events
<1> QED  BY <1>1 DEF Key, KeySet

LEMMA PlanKeysStay ==
    ASSUME NEW kept, NEW st, NEW s, KeysOK(st), Keeps(kept, st, s), NEW e, e.type \notin {"run", "plan"},
           s.keys \subseteq st.keys \cup {Key(e)}
    PROVE  s.run.state = "Absent" => \A k \in s.keys : k[1] \notin {"run", "plan"}
<1>1. Key(e)[1] = e.type
    BY DEF Key
<1> QED  BY <1>1 DEF KeysOK, Keeps

LEMMA EventStep ==
    ASSUME NEW kept, NEW st, Good(kept, st), NEW e, EventOK(st, e), NEW s, s = FoldEvent(st, e)
    PROVE  /\ Good(kept, s) /\ Keeps(kept, st, s)
           /\ e.type = "started" => \/ StartSettled(st, e.task, e.attempt)
                                  \/ <<"started", e.task, e.attempt>> \in s.keys
<1> DEFINE r == Handle(st, e)
<1>1. Core(kept, st) /\ KeysOK(st) /\ st \in Rows
    BY DEF Good, Core
<1>2. e \in Events /\ e.id \in Nat /\ Key(e) \in KeySet
      /\ (e.type # "heartbeat" => Key(e) = <<e.type, e.task, e.attempt>>)
      /\ e.type \in TaskTypes \cup {"cancel_req"}
    BY KeyType DEF EventOK, Events, EventTypes, TaskTypes, Key
<1>3. e.type \in TaskTypes => e.task \in Tasks /\ e.attempt \in Attempts
    BY DEF EventOK
<1>4. CASE Key(e) \in st.keys
    <2>1. s = st
        BY <1>4 DEF FoldEvent
    <2> QED  BY <1>1, <1>2, <1>4, <2>1, KeepsItself DEF StartSettled
<1>5. CASE Key(e) \notin st.keys
    <2>1. s = IF r.applied THEN [r.st EXCEPT !.keys = @ \cup {Key(e)}] ELSE r.st
        BY <1>5 DEF FoldEvent
    <2>2. CASE e.type = "started"
        <3>1. r = FoldTaskStarted(st, e.task, e.attempt, e.id)
            BY <2>2 DEF Handle
        <3>2. e.task \in Tasks /\ e.attempt \in Attempts /\ st.task[e.task].attempt > 0
              /\ <<"started", e.task, e.attempt>> \notin st.keys
              /\ Key(e) = <<"started", e.task, e.attempt>>
            BY <1>2, <1>3, <1>5, <2>2 DEF EventOK, TaskTypes
        <3> HIDE DEF r
        <3>3. /\ Core(kept, r.st) /\ Keeps(kept, st, r.st) /\ r.st.keys = st.keys
              /\ r.applied => /\ r.st.task[e.task].state = "Running"
                              /\ r.st.task[e.task].attempt = e.attempt
                              /\ \A u \in Tasks : u # e.task => r.st.task[u] = st.task[u]
              /\ ~r.applied => r.st = st
              /\ ~r.applied => st.task[e.task].attempt > e.attempt \/ IsTerminal(st.task[e.task].state)
            BY <1>1, <1>2, <3>1, <3>2, StartedStep
        <3>4. CASE ~r.applied
            BY <1>1, <2>1, <3>3, <3>4, KeepsItself DEF StartSettled, Good
        <3>5. CASE r.applied
            <4>1. s = [r.st EXCEPT !.keys = @ \cup {Key(e)}]
                BY <2>1, <3>5
            <4>2. Core(kept, s) /\ Keeps(kept, st, s) /\ s.task = r.st.task /\ s.keys = st.keys \cup {Key(e)}
                BY <1>2, <3>3, <4>1, WithKey
            <4>3. KeysOK(s)
                <5>1. s.run.state = "Absent" => \A k \in s.keys : k[1] \notin {"run", "plan"}
                    BY <1>1, <2>2, <4>2, PlanKeysStay
                <5>2. e.attempt # 0
                    BY <3>2, AttemptFacts
                <5> QED  BY <1>1, <3>2, <3>3, <3>5, <4>2, <5>1, <5>2 DEF KeysOK
            <4>4. <<"started", e.task, e.attempt>> \in s.keys
                BY <3>2, <4>2
            <4> QED  BY <4>2, <4>3, <4>4 DEF Good, Core
        <3> QED  BY <3>4, <3>5
    <2>3. CASE e.type = "finished"
        <3>1. r = FoldTaskFinished(st, e.task, e.attempt, e.outcome, e.id)
            BY <2>3 DEF Handle
        <3>2. e.task \in Tasks /\ e.attempt \in Attempts /\ e.outcome \in Outcomes
              /\ <<"finished", e.task, e.attempt>> \notin st.keys
              /\ Key(e) = <<"finished", e.task, e.attempt>>
              /\ StartSettled(st, e.task, e.attempt)
            BY <1>2, <1>3, <1>5, <2>3 DEF EventOK, TaskTypes
        <3> HIDE DEF r
        <3>3. /\ Core(kept, r.st) /\ Keeps(kept, st, r.st) /\ r.st.keys = st.keys
              /\ ~r.applied => r.st = st
              /\ \/ Calm(st, r.st)
                 \/ /\ ~IsTerminal(st.task[e.task].state) /\ st.task[e.task].attempt = e.attempt
                    /\ r.applied /\ r.st.task[e.task].state = "RetryWait"
                    /\ r.st.task[e.task].attempt = e.attempt
                    /\ \A u \in Tasks : u # e.task => r.st.task[u] = st.task[u]
            BY <1>1, <1>2, <3>1, <3>2, FinishedStep
        <3>4. CASE ~r.applied
            BY <1>1, <2>1, <2>3, <3>3, <3>4, KeepsItself DEF Good, Core
        <3>5. CASE r.applied
            <4>1. s = [r.st EXCEPT !.keys = @ \cup {Key(e)}]
                BY <2>1, <3>5
            <4>2. Core(kept, s) /\ Keeps(kept, st, s) /\ s.task = r.st.task /\ s.keys = st.keys \cup {Key(e)}
                BY <1>2, <3>3, <4>1, WithKey
            <4>0. s.run.state = "Absent" => \A k \in s.keys : k[1] \notin {"run", "plan"}
                BY <1>1, <2>3, <4>2, PlanKeysStay
            <4>3. CASE Calm(st, r.st)
                <5>1. KeysOK(s)
                    BY <1>1, <4>0, <4>2, <4>3 DEF KeysOK, Calm
                <5> QED  BY <2>3, <4>2, <5>1 DEF Good, Core
            <4>4. CASE ~Calm(st, r.st)
                <5>1. <<"started", e.task, e.attempt>> \in st.keys
                    <6>1. st.task[e.task].attempt \in Nat
                        BY <1>1, <3>2, RowsParts DEF TaskRows
                    <6> QED  BY <3>2, <3>3, <4>4, <6>1 DEF StartSettled
                <5>2. KeysOK(s)
                    <6>1. e.attempt # 0
                        BY <3>2, AttemptFacts
                    <6> QED  BY <1>1, <3>2, <3>3, <4>0, <4>2, <4>4, <5>1, <6>1 DEF KeysOK
                <5> QED  BY <2>3, <4>2, <5>2 DEF Good, Core
            <4> QED  BY <4>3, <4>4
        <3> QED  BY <3>4, <3>5
    <2>4. CASE e.type \in {"cancel_req", "heartbeat", "dispatch_req", "dispatch_ack", "timer_req"}
        <3>1. Core(kept, r.st) /\ Keeps(kept, st, r.st) /\ r.st.keys = st.keys /\ Calm(st, r.st)
            <4>1. CASE e.type = "cancel_req"
                <5>1. r = FoldRunCancelRequested(st, e.id)
                    BY <4>1 DEF Handle
                <5> QED  BY <1>1, <1>2, <5>1, CancelStep
            <4>2. CASE e.type = "dispatch_req"
                <5>1. r = FoldDispatchRequested(st, e.task, e.attempt, e.id)
                    BY <4>2 DEF Handle
                <5>2. e.task \in Tasks /\ e.attempt \in Attempts
                    BY <1>3, <4>2 DEF TaskTypes
                <5> QED  BY <1>1, <1>2, <5>1, <5>2, DispatchRequestedStep
            <4>3. CASE e.type = "dispatch_ack"
                <5>1. r = FoldDispatchEnqueued(st, e.task, e.attempt, e.id)
                    BY <4>3 DEF Handle
                <5>2. e.task \in Tasks /\ e.attempt \in Attempts
                    BY <1>3, <4>3 DEF TaskTypes
                <5> QED  BY <1>1, <1>2, <5>1, <5>2, DispatchEnqueuedStep
            <4>4. CASE e.type = "timer_req"
                <5>1. r = FoldTimerRequested(st, e.task, e.attempt, e.id)
                    BY <4>4 DEF Handle
                <5>2. e.task \in Tasks /\ e.attempt \in Attempts
                    BY <1>3, <4>4 DEF TaskTypes
                <5> QED  BY <1>1, <1>2, <5>1, <5>2, TimerRequestedStep
            <4>5. CASE e.type = "heartbeat"
                <5>1. r = FoldTaskHeartbeat(st, e.task, e.attempt, e.id)
                    BY <4>5 DEF Handle
                <5>2. e.task \in Tasks /\ e.attempt \in Attempts
                    BY <1>3, <4>5 DEF TaskTypes
                <5> QED  BY <1>1, <1>2, <5>1, <5>2, HeartbeatStep
            <4> QED  BY <2>4, <4>1, <4>2, <4>3, <4>4, <4>5
        <3> HIDE DEF r
        <3>2. Core(kept, s) /\ Keeps(kept, st, s) /\ s.task = r.st.task /\ st.keys \subseteq s.keys
              /\ s.keys \subseteq st.keys \cup {Key(e)}
            <4>1. CASE r.applied
                BY <1>2, <2>1, <3>1, <4>1, WithKey
            <4>2. CASE ~r.applied
                BY <2>1, <3>1, <4>2
            <4> QED  BY <4>1, <4>2
        <3>3. KeysOK(s)
            <4>1. s.run.state = "Absent" => \A k \in s.keys : k[1] \notin {"run", "plan"}
                BY <1>1, <2>4, <3>2, PlanKeysStay
            <4> QED  BY <1>1, <3>1, <3>2, <4>1 DEF KeysOK, Calm
        <3> QED  BY <2>4, <3>2, <3>3 DEF Good, Core
    <2> QED  BY <1>2, <2>2, <2>3, <2>4 DEF TaskTypes
<1> QED  BY <1>4, <1>5

LEMMA EventStays ==
    ASSUME NEW kept, NEW st \in Rows, NEW s \in Rows, Keeps(kept, st, s), NEW e, EventOK(st, e)
    PROVE  EventOK(s, e)
<1>1. \A t \in Tasks : st.task[t].attempt \in Nat /\ s.task[t].attempt \in Nat
    BY RowsParts DEF TaskRows
<1>2. ASSUME NEW t \in Tasks, NEW n \in Attempts, StartSettled(st, t, n) PROVE StartSettled(s, t, n)
    <2>1. n \in Nat
        BY AttemptFacts
    <2>2. st.task[t].attempt > n => s.task[t].attempt > n
        BY <1>1, <2>1 DEF Keeps
    <2> QED  BY <1>2, <2>2 DEF StartSettled, Keeps
<1>3. e.type = "started" => s.task[e.task].attempt > 0
    <2>1. SUFFICES ASSUME e.type = "started" PROVE s.task[e.task].attempt > 0
        OBVIOUS
    <2>2. e.task \in Tasks /\ st.task[e.task].attempt > 0
        BY <2>1 DEF EventOK, TaskTypes
    <2> QED  BY <1>1, <2>2 DEF Keeps
<1>4. e.type = "finished" => e.task \in Tasks /\ e.attempt \in Attempts
    BY DEF EventOK, TaskTypes
<1> QED  BY <1>2, <1>3, <1>4 DEF EventOK

(* A batch of events that may be folded keeps what each of them keeps.     *)
LEMMA FoldBatch ==
    ASSUME NEW kept, NEW st, Good(kept, st), NEW events, Len(events) \in Nat,
           \A i \in 1 .. Len(events) : EventOK(st, events[i])
    PROVE  LET s == FoldEvents(st, events) IN
           /\ Good(kept, s) /\ Keeps(kept, st, s)
           /\ Len(events) = 1 => s = FoldEvent(st, events[1])
<1>1. PICK F : /\ F[0] = st
               /\ \A n \in 1 .. Len(events) : F[n] = FoldEvent(F[n - 1], events[n])
               /\ FoldEvents(st, events) = F[Len(events)]
    BY FoldEventsFacts
<1>2. ASSUME NEW m \in 0 .. Len(events) PROVE Good(kept, F[m]) /\ Keeps(kept, st, F[m])
    <2> SUFFICES ASSUME ~(Good(kept, F[m]) /\ Keeps(kept, st, F[m])) PROVE FALSE
        OBVIOUS
    <2> DEFINE S == {j \in 0 .. Len(events) : ~(Good(kept, F[j]) /\ Keeps(kept, st, F[j]))}
    <2>1. S \in SUBSET (0 .. Len(events)) /\ m \in S
        OBVIOUS
    <2>2. PICK j \in S : \A y \in S : j <= y
        BY <2>1, LeastNumber
    <2>3. j \in 0 .. Len(events) /\ ~(Good(kept, F[j]) /\ Keeps(kept, st, F[j]))
        BY <2>2
    <2> HIDE DEF S
    <2>4. j # 0
        BY <1>1, <2>3, KeepsItself DEF Good, Core
    <2>5. j - 1 \in 0 .. Len(events) /\ j - 1 \notin S /\ j \in 1 .. Len(events)
        BY <2>2, <2>3, <2>4
    <2>6. Good(kept, F[j - 1]) /\ Keeps(kept, st, F[j - 1])
        BY <2>5 DEF S
    <2>7. F[j] = FoldEvent(F[j - 1], events[j])
        BY <1>1, <2>5
    <2>8. EventOK(F[j - 1], events[j])
        <3>1. EventOK(st, events[j])
            BY <2>5
        <3> QED  BY <2>6, <3>1, EventStays DEF Good, Core
    <2>9. Good(kept, F[j]) /\ Keeps(kept, F[j - 1], F[j])
        BY <2>6, <2>7, <2>8, EventStep
    <2>10. Keeps(kept, st, F[j])
        BY <2>6, <2>9, KeepsTransitive DEF Good, Core
    <2> QED  BY <2>3, <2>9, <2>10
<1>3. Good(kept, F[Len(events)]) /\ Keeps(kept, st, F[Len(events)])
    BY <1>2
<1>4. Len(events) = 1 => F[Len(events)] = FoldEvent(st, events[1])
    <2>1. ASSUME Len(events) = 1 PROVE F[Len(events)] = FoldEvent(F[1 - 1], events[1])
        BY <1>1, <2>1
    <2> QED  BY <1>1, <2>1
<1> QED  BY <1>1, <1>3, <1>4

PlannedRows(id) ==
    [t \in Tasks |-> [state |-> IF Deps[t] = {} THEN "Ready" ELSE "Blocked",
                      attempt |-> 0, satisfied |-> 0, retry |-> FALSE, rv |-> id]]

(* The run and its plan, written together over nothing.                    *)
LEMMA PlannedStep ==
    ASSUME NEW kept, NEW st, Good(kept, st), st.run.state = "Absent",
           NEW id \in Nat, NEW rid \in Nat, NEW V \in Versions, NEW s,
           NEW K \in SUBSET KeySet, st.keys \subseteq K,
           s.run = [state |-> "Running", cancel |-> FALSE, total |-> Cardinality(Tasks),
                    completed |-> 0, count |-> [k \in Kinds |-> 0], rv |-> rid],
           s.task = PlannedRows(id),
           s = [run |-> s.run, task |-> s.task, edges |-> st.edges, erv |-> V,
                outbox |-> st.outbox, keys |-> K]
    PROVE  Good(kept, s) /\ Keeps(kept, st, s)
<1>1. st \in Rows /\ Core(kept, st) /\ st.edges = {}
    BY DEF Good, Core, PlanOK
<1>2. s.edges = {} /\ s.keys = K
    BY <1>1
<1>3. ASSUME NEW t \in Tasks
      PROVE  /\ s.task[t] \in TaskRows /\ s.task[t].state \in {"Ready", "Blocked"}
             /\ s.task[t].state = "Ready" <=> Deps[t] = {}
             /\ s.task[t].attempt = 0 /\ s.task[t].satisfied = 0
    BY DEF PlannedRows, TaskRows, TaskStates, Active
<1>4. s.run \in RunRows /\ s.run.state = "Running" /\ s.run.total = Cardinality(Tasks)
      /\ s.run.completed = 0 /\ \A k \in Kinds : s.run.count[k] = 0
    BY TaskCard DEF RunRows, RunStates
<1>5. s \in Rows
    <2>1. s.task \in [Tasks -> TaskRows]
        <3>1. s.task = [t \in Tasks |-> s.task[t]]
            BY DEF PlannedRows
        <3> QED  BY <1>3, <3>1
    <2>2. st.edges \in SUBSET (Tasks \X Tasks) /\ st.outbox \in [Dispatches -> OutboxRows]
        BY <1>1, RowsParts
    <2>3. [run |-> s.run, task |-> s.task, edges |-> st.edges, erv |-> V, outbox |-> st.outbox, keys |-> K] \in Rows
        BY <1>4, <2>1, <2>2, RowsMade
    <2> QED  BY <2>3, Zenon
<1>6. PlanOK(s) /\ CloseOK(s)
    BY <1>3, <1>4 DEF PlanOK, CloseOK, IsTerminal, Kinds
<1>7. Done(s) = {} /\ \A k \in Kinds : InState(s, k) = {}
    BY <1>3 DEF Done, InState, IsTerminal, Kinds
<1>8. CountsOK(s)
    <2>1. ~IsTerminal(s.run.state) /\ Done(s) # Tasks
        BY <1>4, <1>7, FoldAssumption DEF IsTerminal, Kinds
    <2> QED  BY <1>4, <1>7, <2>1, FS_EmptySet DEF CountsOK
<1>9. DepsOK(s)
    <2>1. \A d : Sat(s, d) = {}
        BY <1>2 DEF Sat
    <2>2. \A t \in Tasks : s.task[t].state \in Active \cup {"Succeeded"} => Deps[t] = {}
        BY <1>3 DEF Active
    <2> QED  BY <1>2, <1>3, <2>1, <2>2, FS_EmptySet DEF DepsOK
<1>10. AttemptOK(s)
    BY <1>3, AttemptFacts DEF AttemptOK
<1>11. KeysOK(s)
    BY <1>3, <1>4 DEF KeysOK
<1>12. Keeps(kept, st, s)
    <2>1. \A t \in Tasks : st.task[t].state = "Absent" /\ st.task[t].attempt = 0
        BY <1>1 DEF Core, PlanOK, AttemptOK
    <2> QED  BY <1>1, <1>2, <1>3, <2>1 DEF Keeps, IsTerminal, Kinds
<1> QED  BY <1>5, <1>6, <1>8, <1>9, <1>10, <1>11, <1>12 DEF Good, Core

LEMMA AppliedEvent ==
    ASSUME NEW st, NEW e, NEW x, Handle(st, e) = Applied(x), Key(e) \notin st.keys
    PROVE  FoldEvent(st, e) = [x EXCEPT !.keys = @ \cup {Key(e)}]
<1>1. Handle(st, e).st = x /\ Handle(st, e).applied
    BY DEF Applied
<1> DEFINE r == Handle(st, e)
<1>2. FoldEvent(st, e) = IF r.applied THEN [r.st EXCEPT !.keys = @ \cup {Key(e)}] ELSE r.st
    BY DEF FoldEvent
<1> HIDE DEF r
<1>3. r.st = x /\ r.applied
    BY <1>1 DEF r
<1> QED  BY <1>2, <1>3

LEMMA TriggerStep ==
    ASSUME NEW kept, NEW st, Good(kept, st), NEW events, TriggerBatch(events)
    PROVE  LET s == FoldEvents(st, events) IN Good(kept, s) /\ Keeps(kept, st, s)
<1> DEFINE e1 == events[1]
           e2 == events[2]
           s1 == FoldEvent(st, e1)
           s == FoldEvent(s1, e2)
           zero == [k \in Kinds |-> 0]
<1>1. e1 \in Events /\ e2 \in Events /\ Len(events) = 2
    BY DEF TriggerBatch
<1>2. FoldEvents(st, events) = s
    <2>0. Len(events) \in Nat
        BY <1>1
    <2>1. PICK F : /\ F[0] = st
                   /\ \A n \in 1 .. Len(events) : F[n] = FoldEvent(F[n - 1], events[n])
                   /\ FoldEvents(st, events) = F[Len(events)]
        BY <2>0, FoldEventsFacts
    <2>2. F[1] = FoldEvent(F[1 - 1], e1) /\ F[2] = FoldEvent(F[2 - 1], e2)
        BY <1>1, <2>1
    <2> QED  BY <1>1, <2>1, <2>2
<1>3. st \in Rows /\ Core(kept, st) /\ KeysOK(st)
      /\ st = [run |-> st.run, task |-> st.task, edges |-> st.edges, erv |-> st.erv,
               outbox |-> st.outbox, keys |-> st.keys]
    BY RowsParts DEF Good, Core
<1>4. CASE st.run.state # "Absent"
    <2>1. Planned(st) # {}
        BY <1>3, <1>4, FoldAssumption DEF Core, PlanOK, Planned
    <2>2. ASSUME NEW e, e.type \in {"run", "plan"} PROVE FoldEvent(st, e) = st
        <3>1. Handle(st, e) = [st |-> st, applied |-> FALSE]
            <4>1. CASE e.type = "run"
                BY <1>4, <4>1 DEF Handle, FoldRunTriggered, Ignored
            <4>2. CASE e.type = "plan"
                BY <2>1, <4>2 DEF Handle, FoldPlanCreated, Ignored
            <4> QED  BY <2>2, <4>1, <4>2
        <3> QED  BY <3>1 DEF FoldEvent
    <2>3. s = st
        BY <2>2 DEF TriggerBatch
    <2> QED  BY <1>2, <1>3, <2>3, KeepsItself
<1>5. CASE st.run.state = "Absent"
    <2>1. \A t \in Tasks : st.task[t].state = "Absent"
        BY <1>3, <1>5 DEF Core, PlanOK
    <2>2. Planned(st) = {} /\ \A k \in Kinds : InState(st, k) = {}
        BY <2>1 DEF Planned, InState, Kinds
    <2>3. Key(e1) \in KeySet /\ Key(e2) \in KeySet
        BY <1>1, KeyType
    <2>4. Key(e1) \notin st.keys /\ Key(e2) \notin st.keys /\ Key(e2) # Key(e1)
        <3>1. Key(e1)[1] = e1.type /\ Key(e2)[1] = e2.type
            BY DEF Key
        <3>2. e1.type \in {"run", "plan"} /\ e2.type \in {"run", "plan"} /\ e1.type # e2.type
            BY DEF TriggerBatch
        <3> QED  BY <1>3, <1>5, <3>1, <3>2 DEF KeysOK
    <2>5. e1.id \in Nat /\ e2.id \in Nat
        BY <1>1 DEF Events
    <2> DEFINE K == st.keys \cup {Key(e1)} \cup {Key(e2)}
               V(id) == Versioned(st.erv, Tasks, id)
               New(id) == [state |-> "Running", cancel |-> FALSE, total |-> Cardinality(Tasks),
                           completed |-> 0, count |-> zero, rv |-> id]
    <2>6. K \in SUBSET KeySet /\ st.keys \subseteq K
        BY <1>3, <2>3, RowsParts
    <2>0. ASSUME NEW id \in Nat PROVE V(id) \in Versions
        BY <1>3, RowsParts, VersionedType
    <2>7. ASSUME NEW q PROVE UNION {InState(q, k) : k \in Kinds} = {t \in Tasks : IsTerminal(q.task[t].state)}
        BY DEF InState, IsTerminal
    <2>8. CASE e1.type = "run" /\ e2.type = "plan"
        <3> DEFINE run1 == [state |-> "Triggered", cancel |-> FALSE, total |-> 0, completed |-> 0,
                            count |-> zero, rv |-> e1.id]
                   q == [run |-> run1, task |-> st.task, edges |-> st.edges, erv |-> st.erv,
                         outbox |-> st.outbox, keys |-> st.keys \cup {Key(e1)}]
        <3>1. Cardinality(Planned(st)) = 0 /\ Cardinality(UNION {InState(st, k) : k \in Kinds}) = 0
            <4>1. UNION {InState(st, k) : k \in Kinds} = {}
                BY <2>2
            <4> QED  BY <2>2, <4>1, FS_EmptySet
        <3>2. [k \in Kinds |-> Cardinality(InState(st, k))] = zero
            BY <2>2, FS_EmptySet
        <3>3. Handle(st, e1) = Applied([st EXCEPT !.run = run1])
            BY <1>5, <2>8, <3>1, <3>2 DEF Handle, FoldRunTriggered
        <3>4. s1 = [[st EXCEPT !.run = run1] EXCEPT !.keys = @ \cup {Key(e1)}]
            BY <2>4, <3>3, AppliedEvent
        <3>5. s1 = q
            <4> HIDE DEF run1, s1
            <4> QED  BY <1>3, <3>4
        <3>6. Planned(q) = {} /\ q.run = run1 /\ q.keys = st.keys \cup {Key(e1)}
            BY <2>2 DEF Planned
        <3>7. Handle(q, e2) = Applied([q EXCEPT !.run = [run1 EXCEPT !.total = Cardinality(Tasks),
                                                                     !.state = "Running", !.rv = e2.id],
                                                !.erv = Versioned(st.erv, Tasks, e2.id),
                                                !.task = PlannedRows(e2.id)])
            <4>1. q.erv = st.erv
                OBVIOUS
            <4> HIDE DEF q
            <4> QED  BY <2>8, <3>6, <4>1 DEF Handle, FoldPlanCreated, PlannedRows
        <3>8. [run1 EXCEPT !.total = Cardinality(Tasks), !.state = "Running", !.rv = e2.id] = New(e2.id)
            <4>1. ASSUME NEW x, x = [run1 EXCEPT !.total = Cardinality(Tasks), !.state = "Running",
                                                 !.rv = e2.id]
                  PROVE  x = New(e2.id)
                BY <4>1
            <4> QED  BY <4>1
        <3> HIDE DEF run1, New, V
        <3>9. s = [[q EXCEPT !.run = New(e2.id), !.erv = V(e2.id), !.task = PlannedRows(e2.id)]
                    EXCEPT !.keys = @ \cup {Key(e2)}]
            <4>1. Key(e2) \notin q.keys
                BY <2>4, <3>6
            <4> DEFINE x == [q EXCEPT !.run = New(e2.id), !.erv = V(e2.id), !.task = PlannedRows(e2.id)]
            <4> HIDE DEF q, s1
            <4>2. Handle(q, e2) = Applied(x)
                BY <3>7, <3>8 DEF V
            <4> HIDE DEF x
            <4>3. FoldEvent(q, e2) = [x EXCEPT !.keys = @ \cup {Key(e2)}]
                BY <4>1, <4>2, AppliedEvent
            <4> QED  BY <3>5, <4>3 DEF x
        <3>10. s = [run |-> New(e2.id), task |-> PlannedRows(e2.id), edges |-> st.edges, erv |-> V(e2.id),
                    outbox |-> st.outbox, keys |-> K]
            <4> HIDE DEF s
            <4> QED  BY <3>9
        <3>11. s.run = New(e2.id) /\ s.task = PlannedRows(e2.id)
               /\ s = [run |-> s.run, task |-> s.task, edges |-> st.edges, erv |-> V(e2.id),
                       outbox |-> st.outbox, keys |-> K]
            <4> HIDE DEF s
            <4> QED  BY <3>10
        <3>13. V(e2.id) \in Versions /\ e2.id \in Nat
            BY <2>0, <2>5
        <3> HIDE DEF s, K, V, e1, e2
        <3>12. Good(kept, s) /\ Keeps(kept, st, s)
            BY <1>5, <2>6, <3>11, <3>13, PlannedStep DEF New
        <3> QED  BY <1>2, <3>12
    <2>9. CASE e1.type = "plan" /\ e2.type = "run"
        <3> DEFINE q == [run |-> st.run, task |-> PlannedRows(e1.id), edges |-> st.edges, erv |-> V(e1.id),
                         outbox |-> st.outbox, keys |-> st.keys \cup {Key(e1)}]
        <3>1. Handle(st, e1) = Applied([st EXCEPT !.run = st.run, !.erv = V(e1.id), !.task = PlannedRows(e1.id)])
            BY <1>5, <2>2, <2>9 DEF Handle, FoldPlanCreated, PlannedRows
        <3>2. s1 = [[st EXCEPT !.run = st.run, !.erv = V(e1.id), !.task = PlannedRows(e1.id)]
                     EXCEPT !.keys = @ \cup {Key(e1)}]
            BY <2>4, <3>1, AppliedEvent
        <3>3. s1 = q
            <4> HIDE DEF s1, V
            <4> QED  BY <1>3, <3>2
        <3>4. \A t \in Tasks : q.task[t].state \in {"Ready", "Blocked"}
            BY DEF PlannedRows
        <3>5. q.run.state = "Absent" /\ q.keys = st.keys \cup {Key(e1)}
            BY <1>5
        <3> HIDE DEF q
        <3>6. Planned(q) = Tasks /\ \A k \in Kinds : InState(q, k) = {}
            BY <3>4 DEF Planned, InState, Kinds
        <3>7. Cardinality(Planned(q)) = Cardinality(Tasks)
              /\ Cardinality(UNION {InState(q, k) : k \in Kinds}) = 0
            <4>1. UNION {InState(q, k) : k \in Kinds} = {}
                BY <3>6
            <4> QED  BY <3>6, <4>1, FS_EmptySet
        <3>8. [k \in Kinds |-> Cardinality(InState(q, k))] = zero
            BY <3>6, FS_EmptySet
        <3>9. Handle(q, e2) = Applied([q EXCEPT !.run = New(e2.id)])
            <4>1. Cardinality(Tasks) # 0
                BY TaskCard
            <4> QED  BY <2>9, <3>5, <3>7, <3>8, <4>1 DEF Handle, FoldRunTriggered
        <3> HIDE DEF New
        <3>10. s = [[q EXCEPT !.run = New(e2.id)] EXCEPT !.keys = @ \cup {Key(e2)}]
            <4>1. Key(e2) \notin q.keys
                BY <2>4, <3>5
            <4> HIDE DEF s1
            <4> QED  BY <3>3, <3>9, <4>1, AppliedEvent
        <3>11. s = [run |-> New(e2.id), task |-> PlannedRows(e1.id), edges |-> st.edges, erv |-> V(e1.id),
                    outbox |-> st.outbox, keys |-> K]
            <4> HIDE DEF s
            <4> QED  BY <3>10 DEF q
        <3>12. s.run = New(e2.id) /\ s.task = PlannedRows(e1.id)
               /\ s = [run |-> s.run, task |-> s.task, edges |-> st.edges, erv |-> V(e1.id),
                       outbox |-> st.outbox, keys |-> K]
            <4> HIDE DEF s
            <4> QED  BY <3>11
        <3>14. V(e1.id) \in Versions /\ e1.id \in Nat /\ e2.id \in Nat
            BY <2>0, <2>5
        <3> HIDE DEF s, K, V, e1, e2
        <3>13. Good(kept, s) /\ Keeps(kept, st, s)
            BY <1>5, <2>6, <3>12, <3>14, PlannedStep DEF New
        <3> QED  BY <1>2, <3>13
    <2> QED  BY <2>8, <2>9 DEF TriggerBatch
<1> QED  BY <1>4, <1>5

(***************************************************************************)
(* A publication.                                                          *)
(***************************************************************************)
LEMMA FoldGood ==
    ASSUME NEW kept, NEW st, Good(kept, st), NEW events, BatchOK(st, events), NEW s, s = FoldEvents(st, events)
    PROVE  Good(kept, s) /\ Keeps(kept, st, s)
<1>1. CASE TriggerBatch(events)
    BY <1>1, TriggerStep
<1>2. CASE events \in Seq(Events) /\ \A i \in 1 .. Len(events) : EventOK(st, events[i])
    <2>1. Len(events) \in Nat
        BY <1>2
    <2> QED  BY <1>2, <2>1, FoldBatch
<1> QED  BY <1>1, <1>2 DEF BatchOK

(* A projection whose rows are the rows of base or of st, and all of st    *)
(* while rows are kept.                                                    *)
LEMMA MergeStep ==
    ASSUME NEW kept, NEW base, Good(kept, base), NEW st, Good(kept, st), Keeps(kept, base, st),
           NEW m, m = MergeStates(base, st),
           NEW after, after => kept /\ ~DropsRow(base, st)
    PROVE  Good(after, m) /\ Keeps(after, base, m) /\ m.keys = st.keys
<1> DEFINE N == NewEdges(base, st)
           R == MergeRow(base.run, st.run)
           T == [t \in Tasks |-> MergeTask(base.task[t], st.task[t])]
           E == (st.edges \cap N) \cup (base.edges \ N)
           V == [e \in Tasks \X Tasks |-> IF e \in N THEN st.erv[e] ELSE base.erv[e]]
           o == [d \in DOMAIN base.outbox |->
                    IF st.outbox[d] = NoRow THEN base.outbox[d]
                    ELSE MergeRow(base.outbox[d], st.outbox[d])]
<1>1. /\ base \in Rows /\ PlanOK(base) /\ CloseOK(base) /\ AttemptOK(base) /\ KeysOK(base)
      /\ st \in Rows /\ PlanOK(st) /\ CloseOK(st) /\ AttemptOK(st) /\ KeysOK(st)
      /\ kept => CountsOK(st) /\ DepsOK(st)
    BY DEF Good, Core
<1>2. /\ base.run \in RunRows /\ st.run \in RunRows
      /\ base.task \in [Tasks -> TaskRows] /\ st.task \in [Tasks -> TaskRows]
      /\ base.edges \subseteq Tasks \X Tasks /\ st.edges \subseteq Tasks \X Tasks
      /\ base.erv \in Versions /\ st.erv \in Versions
      /\ base.outbox \in [Dispatches -> OutboxRows] /\ st.outbox \in [Dispatches -> OutboxRows]
      /\ st.keys \subseteq KeySet
    BY <1>1, RowsParts
<1>3. base.keys \cup st.keys = st.keys
    BY DEF Keeps
<1>4. m = [run |-> R, task |-> T, edges |-> E, erv |-> V, outbox |-> o, keys |-> st.keys]
    <2> HIDE DEF R, T, E, V, o, N
    <2>1. m = [run |-> R, task |-> T, edges |-> E, erv |-> V, outbox |-> o, keys |-> base.keys \cup st.keys]
        BY DEF MergeStates, R, T, E, V, o, N
    <2> QED  BY <1>3, <2>1
<1>5. R \in {base.run, st.run}
    BY DEF MergeRow
<1>6. \A t \in Tasks : T[t] \in {base.task[t], st.task[t]}
    BY DEF MergeTask, MergeRow
<1>7. ASSUME base.run.state = "Absent" PROVE R = st.run /\ T = st.task
    <2>1. base.run.rv = 0 /\ st.run.rv \in Nat
        BY <1>1, <1>2, <1>7 DEF PlanOK, RunRows
    <2>2. R = st.run
        BY <2>1 DEF MergeRow
    <2>3. ASSUME NEW t \in Tasks PROVE T[t] = st.task[t]
        <3>1. base.task[t].rv = 0 /\ base.task[t].state = "Absent" /\ st.task[t].rv \in Nat
            BY <1>1, <1>2, <1>7 DEF PlanOK, TaskRows
        <3>2. Rank(base.task[t].state) = 0
            BY <3>1 DEF Rank
        <3>3. Rank(st.task[t].state) \in Nat
            BY DEF Rank
        <3> QED  BY <3>1, <3>2, <3>3 DEF MergeTask, MergeRow
    <2> QED  BY <1>2, <2>2, <2>3
<1>8. /\ R \in RunRows /\ T \in [Tasks -> TaskRows] /\ E \in SUBSET (Tasks \X Tasks)
      /\ V \in Versions /\ o \in [Dispatches -> OutboxRows]
    <2>1. R \in RunRows
        BY <1>2, <1>5
    <2>2. T \in [Tasks -> TaskRows]
        <3>1. \A t \in Tasks : T[t] \in TaskRows
            BY <1>2, <1>6
        <3> QED  BY <3>1
    <2>3. V \in Versions
        BY <1>2 DEF Versions
    <2>4. o \in [Dispatches -> OutboxRows]
        BY <1>2 DEF MergeRow
    <2>5. E \in SUBSET (Tasks \X Tasks)
        BY <1>2
    <2> QED  BY <2>1, <2>2, <2>3, <2>4, <2>5
<1> HIDE DEF R, T, V, o
<1>9. m \in Rows
    <2> HIDE DEF E
    <2> QED  BY <1>2, <1>4, <1>8, RowsMade
<1>10. m.run = R /\ m.task = T /\ m.edges = E /\ m.keys = st.keys
    <2> HIDE DEF E
    <2> QED  BY <1>4
<1>11. PlanOK(m)
    <2>1. CASE base.run.state = "Absent"
        <3>1. m.run = st.run /\ m.task = st.task
            BY <1>7, <1>10, <2>1
        <3>2. st.run.state = "Absent" => m.edges = {}
            BY <1>1, <1>10, <2>1 DEF PlanOK
        <3> QED  BY <1>1, <3>1, <3>2 DEF PlanOK
    <2>2. CASE base.run.state # "Absent"
        <3>1. st.run.state # "Absent"
            BY <2>2 DEF Keeps
        <3> QED  BY <1>1, <1>5, <1>6, <1>10, <2>2, <3>1 DEF PlanOK
    <2> QED  BY <2>1, <2>2
<1>12. CloseOK(m)
    BY <1>1, <1>5, <1>10 DEF CloseOK
<1>13. AttemptOK(m)
    BY <1>1, <1>6, <1>10 DEF AttemptOK
<1>14. KeysOK(m)
    <2>1. ASSUME NEW t \in Tasks
          PROVE  /\ m.task[t].state \in {"Running", "RetryWait"} =>
                        m.task[t].attempt # 0 /\ <<"started", t, m.task[t].attempt>> \in m.keys
                 /\ m.task[t].state = "RetryWait" => <<"finished", t, m.task[t].attempt>> \in m.keys
        <3>1. base.keys \subseteq m.keys /\ st.keys \subseteq m.keys
            BY <1>3, <1>10
        <3>2. m.task[t] \in {base.task[t], st.task[t]}
            BY <1>6, <1>10
        <3> QED  BY <1>1, <3>1, <3>2 DEF KeysOK
    <2>2. m.run.state = "Absent" => st.run.state = "Absent"
        <3>1. m.run \in {base.run, st.run}
            BY <1>5, <1>10
        <3>2. base.run.state = "Absent" => m.run = st.run
            BY <1>7, <1>10
        <3> QED  BY <3>1, <3>2
    <2> QED  BY <1>1, <1>10, <2>1, <2>2 DEF KeysOK
<1>15. ASSUME after PROVE kept /\ m.run = st.run /\ m.task = st.task /\ m.edges = st.edges
    BY <1>15 DEF DropsRow
<1>16. ASSUME after PROVE CountsOK(m) /\ DepsOK(m)
    <2>1. kept /\ m.run = st.run /\ m.task = st.task /\ m.edges = st.edges
        BY <1>15, <1>16
    <2>2. SameEnds(st, m)
        BY <2>1 DEF SameEnds
    <2>3. CountsOK(m)
        BY <1>1, <2>1 DEF CountsOK, Done, InState
    <2>4. \A d : Sat(m, d) = Sat(st, d)
        BY <2>1 DEF Sat
    <2>5. DepsOK(m)
        BY <1>1, <2>1, <2>4 DEF DepsOK
    <2> QED  BY <2>3, <2>5
<1>17. Keeps(after, base, m)
    <2>1. IsTerminal(base.run.state) => m.run.state = base.run.state
        BY <1>5, <1>10 DEF Keeps
    <2>2. m.run.state = "Absent" => base.run.state = "Absent"
        BY <1>5, <1>10 DEF Keeps
    <2>3. ASSUME NEW t \in Tasks
          PROVE  /\ base.task[t].attempt <= m.task[t].attempt
                 /\ IsTerminal(base.task[t].state) => m.task[t].state = base.task[t].state
                 /\ base.task[t].state = "RetryWait" =>
                        \/ m.task[t].attempt > base.task[t].attempt
                        \/ m.task[t].state \in {"RetryWait", "Cancelled"}
                        \/ ~after /\ m.task[t].state = "Skipped"
        <3>1. m.task[t] \in {base.task[t], st.task[t]}
            BY <1>6, <1>10
        <3>2. base.task[t].attempt \in Nat /\ st.task[t].attempt \in Nat
            BY <1>2 DEF TaskRows
        <3>3. CASE m.task[t] = base.task[t]
            BY <3>2, <3>3
        <3>4. CASE m.task[t] = st.task[t]
            BY <3>2, <3>4 DEF Keeps
        <3> QED  BY <3>1, <3>3, <3>4
    <2>4. after => base.edges \subseteq m.edges
        BY <1>15 DEF Keeps
    <2>5. base.keys \subseteq m.keys
        BY <1>3, <1>10
    <2> HIDE DEF E
    <2> QED  BY <2>1, <2>2, <2>3, <2>4, <2>5 DEF Keeps
<1> QED  BY <1>9, <1>10, <1>11, <1>12, <1>13, <1>14, <1>16, <1>17 DEF Good, Core

(* What is known of kept rows is known of rows that are not.               *)
LEMMA GoodMeans ==
    ASSUME NEW kept, NEW after, after => kept, NEW base, NEW st, Good(kept, st), Keeps(kept, base, st)
    PROVE  Good(after, st) /\ Keeps(after, base, st)
BY DEF Good, Core, Keeps

(***************************************************************************)
(* The batches the producers append.                                       *)
(***************************************************************************)
WithId(e, id) == [type |-> e.type, task |-> e.task, attempt |-> e.attempt,
                  outcome |-> e.outcome, id |-> id]

(* Whatever its id is, e may be folded over st.                            *)
MayEmit(st, e) == \A id \in Nat : EventOK(st, WithId(e, id))

LEMMA NumberedFacts ==
    ASSUME lastId \in Nat, NEW n \in Nat, NEW events, DOMAIN events = 1 .. n,
           \A i \in 1 .. n, id \in Nat : WithId(events[i], id) \in Events
    PROVE  /\ Numbered(events) \in Seq(Events) /\ Len(Numbered(events)) = n
           /\ \A i \in 1 .. n : \E id \in Nat : Numbered(events)[i] = WithId(events[i], id)
<1> DEFINE Id(i) == IF Ordered THEN 0 ELSE lastId + i
<1>1. Numbered(events) = [i \in 1 .. n |-> WithId(events[i], Id(i))]
    BY DEF Numbered, WithId
<1> DEFINE s == Numbered(events)
<1>2. \A i \in 1 .. n : Id(i) \in Nat
    OBVIOUS
<1> HIDE DEF s, Id
<1>3. s \in [1 .. n -> Events] /\ \A i \in 1 .. n : s[i] = WithId(events[i], Id(i))
    BY <1>1, <1>2 DEF s
<1>4. s \in Seq(Events) /\ Len(s) = n
    BY <1>3
<1> QED  BY <1>2, <1>3, <1>4 DEF s

LEMMA NumberedOK ==
    ASSUME lastId \in Nat, NEW st, NEW n \in Nat, NEW events, DOMAIN events = 1 .. n,
           \A i \in 1 .. n : MayEmit(st, events[i])
    PROVE  BatchOK(st, Numbered(events))
<1>1. \A i \in 1 .. n, id \in Nat : WithId(events[i], id) \in Events
    BY DEF MayEmit, EventOK
<1>2. /\ Numbered(events) \in Seq(Events) /\ Len(Numbered(events)) = n
      /\ \A i \in 1 .. n : \E id \in Nat : Numbered(events)[i] = WithId(events[i], id)
    BY <1>1, NumberedFacts
<1>3. \A i \in 1 .. n : EventOK(st, Numbered(events)[i])
    BY <1>2 DEF MayEmit
<1> QED  BY <1>2, <1>3 DEF BatchOK

LEMMA SetBatchOK ==
    ASSUME lastId \in Nat, NEW st, NEW S, Cardinality(S) \in Nat,
           \A e \in S : MayEmit(st, e), NEW events \in SetToSeqs(S)
    PROVE  BatchOK(st, Numbered(events)) /\ Len(events) \in Nat
<1>1. events \in [1 .. Cardinality(S) -> S]
    BY DEF SetToSeqs
<1>2. DOMAIN events = 1 .. Cardinality(S)
      /\ \A i \in 1 .. Cardinality(S) : MayEmit(st, events[i])
    BY <1>1
<1> QED  BY <1>2, NumberedOK

LEMMA OneBatchOK ==
    ASSUME lastId \in Nat, NEW st, NEW e, MayEmit(st, e)
    PROVE  /\ BatchOK(st, Numbered(<<e>>)) /\ Len(<<e>>) \in Nat
           /\ Len(Numbered(<<e>>)) = 1 /\ \E id \in Nat : Numbered(<<e>>)[1] = WithId(e, id)
<1> DEFINE events == <<e>>
<1>1. DOMAIN events = 1 .. 1 /\ events[1] = e
    OBVIOUS
<1> HIDE DEF events
<1>2. /\ \A i \in 1 .. 1 : MayEmit(st, events[i])
      /\ \A i \in 1 .. 1, id \in Nat : WithId(events[i], id) \in Events
    BY <1>1 DEF MayEmit, EventOK
<1>3. BatchOK(st, Numbered(events))
    BY <1>1, <1>2, NumberedOK
<1>4. Len(Numbered(events)) = 1 /\ \E id \in Nat : Numbered(events)[1] = WithId(events[1], id)
    BY <1>1, <1>2, NumberedFacts
<1> QED  BY <1>1, <1>3, <1>4 DEF events

LEMMA TaskEvent ==
    ASSUME NEW st, NEW type \in {"heartbeat", "dispatch_req", "dispatch_ack", "timer_req"},
           NEW t \in Tasks, NEW n \in Attempts
    PROVE  MayEmit(st, Event(type, t, n))
<1> SUFFICES ASSUME NEW id \in Nat PROVE EventOK(st, WithId(Event(type, t, n), id))
    BY DEF MayEmit
<1> DEFINE e == WithId(Event(type, t, n), id)
<1>1. e = [type |-> type, task |-> t, attempt |-> n, outcome |-> "none", id |-> id]
    BY DEF WithId, Event
<1> HIDE DEF e
<1>2. n \in 0 .. MaxAttempt
    BY AttemptFacts
<1>3. e \in Events
    BY <1>1, <1>2 DEF Events, EventTypes
<1>4. e.type = type /\ e.task = t /\ e.attempt = n
    BY <1>1
<1>5. EventOK(st, e)
    BY <1>3, <1>4 DEF EventOK
<1> QED  BY <1>5 DEF e

LEMMA StartedEvent ==
    ASSUME NEW st, NEW t \in Tasks, NEW n \in Attempts, st.task[t].attempt > 0
    PROVE  /\ MayEmit(st, Event("started", t, n))
           /\ \A id \in Nat : LET e == WithId(Event("started", t, n), id) IN
                e.type = "started" /\ e.task = t /\ e.attempt = n
<1> SUFFICES ASSUME NEW id \in Nat
             PROVE  LET e == WithId(Event("started", t, n), id) IN
                    EventOK(st, e) /\ e.type = "started" /\ e.task = t /\ e.attempt = n
    BY DEF MayEmit
<1> DEFINE e == WithId(Event("started", t, n), id)
<1>1. e = [type |-> "started", task |-> t, attempt |-> n, outcome |-> "none", id |-> id]
    BY DEF WithId, Event
<1> HIDE DEF e
<1>2. n \in 0 .. MaxAttempt
    BY AttemptFacts
<1>3. e \in Events
    BY <1>1, <1>2 DEF Events, EventTypes
<1>4. e.type = "started" /\ e.task = t /\ e.attempt = n
    BY <1>1
<1>5. EventOK(st, e)
    BY <1>3, <1>4 DEF EventOK
<1> QED  BY <1>4, <1>5 DEF e

LEMMA FinishedEvent ==
    ASSUME NEW st, NEW t \in Tasks, NEW n \in Attempts, NEW outcome \in Outcomes,
           StartSettled(st, t, n)
    PROVE  MayEmit(st, Finished(t, n, outcome))
<1> SUFFICES ASSUME NEW id \in Nat PROVE EventOK(st, WithId(Finished(t, n, outcome), id))
    BY DEF MayEmit
<1> DEFINE e == WithId(Finished(t, n, outcome), id)
<1>1. e = [type |-> "finished", task |-> t, attempt |-> n, outcome |-> outcome, id |-> id]
    BY DEF WithId, Finished, Event
<1> HIDE DEF e
<1>2. n \in 0 .. MaxAttempt
    BY AttemptFacts
<1>3. e \in Events
    BY <1>1, <1>2 DEF Events, EventTypes
<1>4. e.type = "finished" /\ e.task = t /\ e.attempt = n /\ e.outcome = outcome
    BY <1>1
<1>5. EventOK(st, e)
    BY <1>3, <1>4 DEF EventOK
<1> QED  BY <1>5 DEF e

LEMMA CancelEvent ==
    ASSUME NEW st
    PROVE  MayEmit(st, Event("cancel_req", "none", 0))
<1> SUFFICES ASSUME NEW id \in Nat PROVE EventOK(st, WithId(Event("cancel_req", "none", 0), id))
    BY DEF MayEmit
<1> DEFINE e == WithId(Event("cancel_req", "none", 0), id)
<1>1. e = [type |-> "cancel_req", task |-> "none", attempt |-> 0, outcome |-> "none", id |-> id]
    BY DEF WithId, Event
<1> HIDE DEF e
<1>2. e \in Events
    BY <1>1, AttemptFacts DEF Events, EventTypes
<1>3. e.type = "cancel_req"
    BY <1>1
<1>4. EventOK(st, e)
    BY <1>2, <1>3 DEF EventOK, TaskTypes
<1> QED  BY <1>4 DEF e

LEMMA TriggerEvents ==
    ASSUME lastId \in Nat,
           NEW events \in SetToSeqs({Event("run", "none", 0), Event("plan", "none", 0)})
    PROVE  TriggerBatch(Numbered(events)) /\ Len(events) \in Nat
<1> DEFINE a == Event("run", "none", 0)
           b == Event("plan", "none", 0)
           S == {a, b}
<1>1. a = [type |-> "run", task |-> "none", attempt |-> 0, outcome |-> "none"]
      /\ b = [type |-> "plan", task |-> "none", attempt |-> 0, outcome |-> "none"]
    BY DEF Event
<1> HIDE DEF a, b
<1>2. a.type = "run" /\ b.type = "plan" /\ a # b
    BY <1>1
<1>3. Cardinality(S) = 2
    <2>1. S = {a} \cup {b}
        OBVIOUS
    <2>2. IsFiniteSet({a}) /\ Cardinality({a}) = 1
        BY FS_Singleton
    <2> HIDE DEF S
    <2>3. Cardinality({a} \cup {b}) = 1 + 1
        BY <1>2, <2>2, FS_AddElement
    <2> QED  BY <2>1, <2>3
<1>4. events \in [1 .. 2 -> S] /\ \A i, j \in 1 .. 2 : i # j => events[i] # events[j]
    <2>1. events \in SetToSeqs(S)
        BY DEF a, b
    <2> HIDE DEF S
    <2> QED  BY <1>3, <2>1 DEF SetToSeqs
<1>5. ASSUME NEW id \in Nat
      PROVE  /\ WithId(a, id) \in Events /\ WithId(b, id) \in Events
             /\ WithId(a, id).type = "run" /\ WithId(b, id).type = "plan"
    <2>1. WithId(a, id) = [type |-> "run", task |-> "none", attempt |-> 0, outcome |-> "none", id |-> id]
          /\ WithId(b, id) = [type |-> "plan", task |-> "none", attempt |-> 0, outcome |-> "none", id |-> id]
        BY <1>1 DEF WithId
    <2> QED  BY <2>1, AttemptFacts DEF Events, EventTypes
<1>6. events[1] \in S /\ events[2] \in S /\ events[1] # events[2] /\ DOMAIN events = 1 .. 2
    BY <1>4
<1>7. \A i \in 1 .. 2, id \in Nat : WithId(events[i], id) \in Events
    BY <1>4, <1>5
<1>8. /\ Numbered(events) \in Seq(Events) /\ Len(Numbered(events)) = 2
      /\ \A i \in 1 .. 2 : \E id \in Nat : Numbered(events)[i] = WithId(events[i], id)
    <2> HIDE DEF S
    <2>1. DOMAIN events = 1 .. 2 /\ 2 \in Nat
        BY <1>6
    <2> QED  BY <1>7, <2>1, NumberedFacts
<1>9. /\ \E id \in Nat : Numbered(events)[1] = WithId(events[1], id)
      /\ \E id \in Nat : Numbered(events)[2] = WithId(events[2], id)
    BY <1>8
<1>10. \/ events[1] = a /\ events[2] = b
       \/ events[1] = b /\ events[2] = a
    BY <1>6
<1>11. Len(events) \in Nat
    <2> HIDE DEF S
    <2> QED  BY <1>4
<1> QED  BY <1>11, <1>5, <1>8, <1>9, <1>10 DEF TriggerBatch

(* attempt.max(1) of a task row is an attempt there may be.                *)
LEMMA Next1Facts ==
    ASSUME NEW kept, NEW st, Good(kept, st), NEW t \in Tasks
    PROVE  /\ Next1(st.task[t].attempt) \in Attempts
           /\ st.task[t].attempt \in 0 .. MaxAttempt
           /\ st.task[t].attempt # 0 => Next1(st.task[t].attempt) = st.task[t].attempt
<1>1. st.task[t].attempt \in Nat /\ st.task[t].attempt <= MaxAttempt
    BY RowsParts DEF Good, Core, AttemptOK, TaskRows
<1> QED  BY <1>1, AttemptFacts DEF Next1

LEMMA ReadyEvents ==
    ASSUME NEW kept, NEW st, Good(kept, st), NEW S,
           S = {Event("dispatch_req", t, Next1(st.task[t].attempt)) : t \in NeedsDispatch(st)}
    PROVE  Cardinality(S) \in Nat /\ \A e \in S : MayEmit(st, e)
<1> DEFINE T == NeedsDispatch(st)
           f == [t \in T |-> Event("dispatch_req", t, Next1(st.task[t].attempt))]
<1>1. T \in SUBSET Tasks
    BY DEF NeedsDispatch
<1>2. f \in Surjection(T, S)
    BY DEF Surjection
<1>3. IsFiniteSet(T)
    BY <1>1, SubCard
<1>4. IsFiniteSet(S)
    <2> HIDE DEF f, T
    <2> QED  BY <1>2, <1>3, FS_Surjection
<1>5. \A e \in S : MayEmit(st, e)
    BY <1>1, Next1Facts, TaskEvent
<1> QED  BY <1>4, <1>5, FS_CardinalityType

LEMMA AckEvents ==
    ASSUME NEW st, NEW ok \in SUBSET Dispatches, NEW S,
           S = {Event("dispatch_ack", d[1], d[2]) : d \in ok}
    PROVE  Cardinality(S) \in Nat /\ \A e \in S : MayEmit(st, e)
<1> DEFINE f == [d \in ok |-> Event("dispatch_ack", d[1], d[2])]
<1>1. IsFiniteSet(ok)
    <2>1. IsFiniteSet(Dispatches)
        BY FS_Product, FoldAssumption, AttemptFacts DEF Dispatches
    <2> QED  BY <2>1, FS_Subset
<1>2. f \in Surjection(ok, S)
    BY DEF Surjection
<1>3. IsFiniteSet(S)
    <2> HIDE DEF f
    <2> QED  BY <1>1, <1>2, FS_Surjection
<1>4. ASSUME NEW d \in ok PROVE d[1] \in Tasks /\ d[2] \in Attempts
    BY DEF Dispatches
<1>5. \A e \in S : MayEmit(st, e)
    BY <1>4, TaskEvent
<1> QED  BY <1>3, <1>5, FS_CardinalityType

LEMMA RepairEvents ==
    ASSUME NEW kept, NEW st, Good(kept, st), NEW t \in Tasks, NEW e \in Repair(st, t)
    PROVE  /\ MayEmit(st, e)
           /\ e.type = "dispatch_ack" => <<e.task, e.attempt>> \in Dispatches
<1> DEFINE row == st.task[t]
           n == Next1(row.attempt)
<1>1. n \in Attempts /\ row.attempt \in Nat
    BY Next1Facts, AttemptFacts
<1>2. MaxAttempts[t] \in Nat /\ MaxAttempts[t] <= MaxAttempt /\ MaxAttempt \in Nat
      /\ Attempts = 1 .. MaxAttempt /\ MaxAttempts[t] > 0
    BY AttemptFacts
<1>3. \/ e = Event("dispatch_req", t, n)
      \/ e = Event("dispatch_ack", t, n)
      \/ /\ e = Event("dispatch_req", t, n + 1)
         /\ row.state = "RetryWait" /\ row.attempt < MaxAttempts[t]
      \/ e = Finished(t, n, "Failed") /\ row.state = "Running"
    BY DEF Repair
<1>4. CASE e = Event("dispatch_req", t, n)
    <2>1. e.type = "dispatch_req"
        BY <1>4 DEF Event
    <2> QED  BY <1>1, <1>4, <2>1, TaskEvent
<1>5. CASE e = Event("dispatch_ack", t, n)
    <2>1. e.task = t /\ e.attempt = n
        BY <1>5 DEF Event
    <2> QED  BY <1>1, <1>5, <2>1, TaskEvent DEF Dispatches
<1>6. CASE e = Event("dispatch_req", t, n + 1) /\ row.state = "RetryWait"
           /\ row.attempt < MaxAttempts[t]
    <2>0. row.attempt # 0
        BY <1>6 DEF Good, KeysOK
    <2>1. n + 1 \in Attempts
        <3>1. n = row.attempt
            BY <2>0, Next1Facts
        <3> HIDE DEF n, row
        <3> QED  BY <1>1, <1>2, <1>6, <3>1
    <2>2. e.type = "dispatch_req"
        BY <1>6 DEF Event
    <2> QED  BY <1>6, <2>1, <2>2, TaskEvent
<1>7. CASE e = Finished(t, n, "Failed") /\ row.state = "Running"
    <2>1. e.type = "finished"
        BY <1>7 DEF Finished, Event
    <2>2. StartSettled(st, t, n)
        <3>1. row.attempt # 0 /\ <<"started", t, row.attempt>> \in st.keys
            BY <1>7 DEF Good, KeysOK
        <3>2. n = row.attempt
            BY <3>1, Next1Facts
        <3> QED  BY <3>1, <3>2 DEF StartSettled
    <2> QED  BY <1>1, <1>7, <2>1, <2>2, FinishedEvent DEF Outcomes
<1> HIDE DEF row, n
<1> QED  BY <1>3, <1>4, <1>5, <1>6, <1>7

(***************************************************************************)
(* The loop: the initial state, and what most steps have in common.        *)
(***************************************************************************)
LEMMA EmptyGood ==
    ASSUME NEW kept
    PROVE  Good(kept, EmptyState)
<1> DEFINE s == EmptyState
<1>1. s = [run |-> s.run, task |-> s.task, edges |-> {}, erv |-> s.erv, outbox |-> s.outbox, keys |-> {}]
    BY DEF EmptyState
<1>2. s.run = [state |-> "Absent", cancel |-> FALSE, total |-> 0,
               completed |-> 0, count |-> [k \in Kinds |-> 0], rv |-> 0]
      /\ s.task = [t \in Tasks |-> [state |-> "Absent", attempt |-> 0,
                                    satisfied |-> 0, retry |-> FALSE, rv |-> 0]]
      /\ s.outbox = [d \in Dispatches |-> NoRow] /\ s.erv = [e \in Tasks \X Tasks |-> 0]
    BY DEF EmptyState, Dispatches
<1> HIDE DEF s
<1>3. s.edges = {} /\ s.keys = {}
    BY <1>1
<1>4. s.run \in RunRows /\ s.run.state = "Absent" /\ s.run.rv = 0
    BY <1>2 DEF RunRows, RunStates
<1>5. ASSUME NEW t \in Tasks
      PROVE  s.task[t] \in TaskRows /\ s.task[t].state = "Absent" /\ s.task[t].attempt = 0
             /\ s.task[t].satisfied = 0 /\ s.task[t].rv = 0
    BY <1>2 DEF TaskRows, TaskStates
<1>6. s.task \in [Tasks -> TaskRows] /\ s.outbox \in [Dispatches -> OutboxRows] /\ s.erv \in Versions
    BY <1>2, <1>5, NoRowType DEF Versions
<1>7. s \in Rows
    <2>1. [run |-> s.run, task |-> s.task, edges |-> {}, erv |-> s.erv, outbox |-> s.outbox, keys |-> {}] \in Rows
        BY <1>4, <1>6, RowsMade
    <2> QED  BY <1>1, <2>1, Zenon
<1>8. DepsOK(s)
    <2>1. \A d : Sat(s, d) = {}
        BY <1>3 DEF Sat
    <2> QED  BY <1>3, <1>5, <2>1, FS_EmptySet DEF DepsOK, Active
<1>9. PlanOK(s) /\ CloseOK(s) /\ CountsOK(s) /\ AttemptOK(s) /\ KeysOK(s)
    BY <1>3, <1>4, <1>5, AttemptFacts DEF PlanOK, CloseOK, CountsOK, AttemptOK, KeysOK, IsTerminal, Kinds
<1> QED  BY <1>7, <1>8, <1>9 DEF Good, Core, s

LEMMA NoBatchOK ==
    ASSUME NEW st
    PROVE  ProducerOK(st, NoBatch) /\ NoBatch.stage = "none"
<1>1. NoBatch = [stage |-> "none", events |-> <<>>, base |-> EmptyState, fresh |-> FALSE]
    BY DEF NoBatch
<1>2. EmptyState \in Rows
    BY EmptyGood DEF Good, Core
<1>3. BatchOK(st, <<>>)
    BY DEF BatchOK
<1> DEFINE b == NoBatch
<1> HIDE DEF b
<1>4. b = [stage |-> "none", events |-> <<>>, base |-> EmptyState, fresh |-> FALSE]
    BY <1>1 DEF b
<1>5. b.stage = "none" /\ b.events = <<>> /\ b.base = EmptyState /\ b.fresh = FALSE
    BY <1>4
<1>6. b = [stage |-> b.stage, events |-> b.events, base |-> b.base, fresh |-> b.fresh]
    BY <1>4
<1>7. ProducerOK(st, b)
    BY <1>2, <1>3, <1>5, <1>6 DEF ProducerOK
<1> QED  BY <1>5, <1>7 DEF b

LEMMA FreeOK ==
    ASSUME NEW st, NEW b, b.stage = "none"
    PROVE  WorkerOK(st, Free, b)
<1> DEFINE k == Free
<1>1. k = [pc |-> "idle", job |-> <<>>]
    BY DEF Free
<1> HIDE DEF k
<1>2. k.pc = "idle" /\ k.job = <<>>
    BY <1>1
<1>3. k = [pc |-> k.pc, job |-> k.job]
    BY <1>1
<1>4. WorkerOK(st, k, b)
    BY <1>2, <1>3 DEF WorkerOK
<1> QED  BY <1>4 DEF k

LEMMA LoopInit == Init => LoopInv
<1> SUFFICES ASSUME Init PROVE LoopInv
    OBVIOUS
<1>1. Good(~lost, visible)
    BY EmptyGood DEF Init
<1>2. \A p \in Producers : batch[p] = NoBatch
    BY DEF Init
<1>3. BatchesOK
    <2>1. batch = [p \in Producers |-> batch[p]]
        BY DEF Init
    <2> QED  BY <1>2, <2>1, NoBatchOK DEF BatchesOK
<1>4. WorkersOK
    <2>1. worker = [w \in Workers |-> worker[w]] /\ \A w \in Workers : worker[w] = Free
        BY DEF Init
    <2>2. \A w \in Workers : batch[w].stage = "none"
        BY <1>2, NoBatchOK DEF Producers
    <2> QED  BY <2>1, <2>2, FreeOK DEF WorkersOK
<1>5. RestOK
    <2>1. dispatcher = [pc |-> "idle", rows |-> {}]
        BY DEF Init, Idle
    <2>2. dispatcher.pc = "idle" /\ dispatcher.rows = {}
          /\ dispatcher = [pc |-> dispatcher.pc, rows |-> dispatcher.rows]
        BY <2>1
    <2>3. 0 \in 0 .. MaxId /\ 0 \in 0 .. MaxFaults
        BY LoopAssumption
    <2> QED  BY <2>2, <2>3 DEF Init, RestOK
<1> QED  BY <1>1, <1>3, <1>4, <1>5 DEF LoopInv

LEMMA SettledStays ==
    ASSUME NEW kept, NEW st \in Rows, NEW s \in Rows, Keeps(kept, st, s),
           NEW t \in Tasks, NEW n \in Attempts, StartSettled(st, t, n)
    PROVE  StartSettled(s, t, n)
<1>1. st.task[t].attempt \in Nat /\ s.task[t].attempt \in Nat /\ n \in Nat
    BY RowsParts, AttemptFacts DEF TaskRows
<1>2. st.task[t].attempt > n => s.task[t].attempt > n
    BY <1>1 DEF Keeps
<1> QED  BY <1>2 DEF StartSettled, Keeps

LEMMA BatchStays ==
    ASSUME NEW kept, NEW st \in Rows, NEW s \in Rows, Keeps(kept, st, s), NEW events, BatchOK(st, events)
    PROVE  BatchOK(s, events)
BY EventStays DEF BatchOK

(* The batch changes hands between its stages, its events stay.            *)
LEMMA WorkerStays ==
    ASSUME NEW kept, NEW st \in Rows, NEW s \in Rows, Keeps(kept, st, s), NEW k, NEW b, NEW c,
           WorkerOK(st, k, b), c.events = b.events, c.stage = "none" <=> b.stage = "none"
    PROVE  WorkerOK(s, k, c)
<1>1. k.pc \in {"run", "finishing"} => StartSettled(s, k.job[1], k.job[2])
    <2> SUFFICES ASSUME k.pc \in {"run", "finishing"} PROVE StartSettled(s, k.job[1], k.job[2])
        OBVIOUS
    <2>1. k.job \in Dispatches /\ StartSettled(st, k.job[1], k.job[2])
        BY DEF WorkerOK
    <2>2. k.job[1] \in Tasks /\ k.job[2] \in Attempts
        BY <2>1 DEF Dispatches
    <2> QED  BY <2>1, <2>2, SettledStays
<1> QED  BY <1>1 DEF WorkerOK

LEMMA IdOK ==
    ASSUME LoopInv
    PROVE  lastId \in Nat
BY LoopAssumption DEF LoopInv, RestOK

(* A producer appends a batch.                                             *)
LEMMA EmitOK ==
    ASSUME LoopInv, visible' = visible, NEW p \in Producers, NEW events,
           NEW stage \in {"appended", "loaded"}, Emit(p, events, stage),
           BatchOK(visible, Numbered(events)), Len(events) \in Nat
    PROVE  /\ BatchesOK' /\ lastId' \in 0 .. MaxId
           /\ batch'[p].stage = stage /\ batch'[p].events = Numbered(events)
           /\ \A q \in Producers : q # p => batch'[q] = batch[q]
<1> DEFINE b == [stage |-> stage, events |-> Numbered(events), fresh |-> stage = "loaded",
                 base |-> IF stage = "loaded" THEN visible ELSE EmptyState]
<1>1. batch' = [batch EXCEPT ![p] = b]
    BY DEF Emit
<1>8. lastId' \in 0 .. MaxId
    BY LoopAssumption DEF Emit, LoopInv, RestOK
<1>2. batch = [q \in Producers |-> batch[q]] /\ \A q \in Producers : ProducerOK(visible, batch[q])
    BY DEF LoopInv, BatchesOK
<1>3. b.stage = stage /\ b.events = Numbered(events) /\ b.fresh = (stage = "loaded")
      /\ b.base = (IF stage = "loaded" THEN visible ELSE EmptyState)
      /\ b = [stage |-> b.stage, events |-> b.events, base |-> b.base, fresh |-> b.fresh]
    OBVIOUS
<1>4. EmptyState \in Rows /\ visible \in Rows
    BY EmptyGood DEF Good, Core, LoopInv
<1> HIDE DEF b
<1>5. ProducerOK(visible, b)
    BY <1>3, <1>4 DEF ProducerOK
<1>6. batch' = [q \in Producers |-> batch'[q]] /\ batch'[p] = b
      /\ \A q \in Producers : q # p => batch'[q] = batch[q]
    BY <1>1, <1>2
<1>7. \A q \in Producers : ProducerOK(visible', batch'[q])
    BY <1>2, <1>5, <1>6
<1> QED  BY <1>3, <1>6, <1>7, <1>8 DEF BatchesOK

(* The API, the dispatcher and the sweeper leave the workers alone.        *)
LEMMA WorkersLeft ==
    ASSUME LoopInv, visible' = visible, worker' = worker,
           NEW p \in {"client", "dispatcher", "sweeper"} \cup Beats,
           \A q \in Producers : q # p => batch'[q] = batch[q]
    PROVE  WorkersOK'
<1>1. \A w \in Workers : w \in Producers /\ w # p
    BY LoopAssumption DEF Producers
<1>2. \A w \in Workers : batch'[w] = batch[w]
    BY <1>1
<1> QED  BY <1>2 DEF LoopInv, WorkersOK

LEMMA FaultOK ==
    ASSUME RestOK, Fault \/ faults' = faults
    PROVE  faults' \in 0 .. MaxFaults
BY LoopAssumption DEF RestOK, Fault

(***************************************************************************)
(* The actions that leave the projection as it is.                         *)
(***************************************************************************)
LEMMA TriggerOK ==
    ASSUME LoopInv, Trigger
    PROVE  LoopInv'
<1>1. PICK events \in SetToSeqs({Event("run", "none", 0), Event("plan", "none", 0)}) :
            Emit("client", events, "appended")
    BY DEF Trigger, AppendAll
<1>2. BatchOK(visible, Numbered(events)) /\ Len(events) \in Nat
    BY TriggerEvents, IdOK DEF BatchOK
<1>3. visible' = visible /\ l0' = l0 /\ recent' = recent /\ lost' = lost
      /\ dispatcher' = dispatcher /\ worker' = worker
      /\ cloud' = cloud /\ named' = named /\ faults' = faults /\ asked' = TRUE
    BY DEF Trigger, manifest
<1>4. "client" \in Producers
    BY DEF Producers
<1>5. BatchesOK' /\ lastId' \in 0 .. MaxId /\ \A q \in Producers : q # "client" => batch'[q] = batch[q]
    BY <1>1, <1>2, <1>3, <1>4, EmitOK
<1>6. WorkersOK'
    BY <1>3, <1>5, WorkersLeft
<1>7. RestOK'
    BY <1>3, <1>5 DEF LoopInv, RestOK
<1> QED  BY <1>3, <1>5, <1>6, <1>7 DEF LoopInv

LEMMA CancelRunOK ==
    ASSUME LoopInv, CancelRun
    PROVE  LoopInv'
<1> DEFINE e == Event("cancel_req", "none", 0)
<1>1. Emit("client", <<e>>, "loaded")
    BY DEF CancelRun, manifest
<1>2. BatchOK(visible, Numbered(<<e>>)) /\ Len(<<e>>) \in Nat
    BY CancelEvent, OneBatchOK, IdOK
<1>3. visible' = visible /\ l0' = l0 /\ recent' = recent /\ lost' = lost
      /\ dispatcher' = dispatcher /\ worker' = worker
      /\ cloud' = cloud /\ named' = named /\ asked' = asked
    BY DEF CancelRun, manifest
<1>4. "client" \in Producers
    BY DEF Producers
<1>5. BatchesOK' /\ lastId' \in 0 .. MaxId /\ \A q \in Producers : q # "client" => batch'[q] = batch[q]
    <2> HIDE DEF e
    <2> QED  BY <1>1, <1>2, <1>3, <1>4, EmitOK
<1>6. WorkersOK'
    BY <1>3, <1>5, WorkersLeft
<1>7. faults' \in 0 .. MaxFaults
    BY FaultOK DEF LoopInv, CancelRun, TakeLock
<1>8. RestOK'
    BY <1>3, <1>5, <1>7 DEF LoopInv, RestOK
<1> QED  BY <1>3, <1>5, <1>6, <1>8 DEF LoopInv

LEMMA RequestRetryOK ==
    ASSUME LoopInv, NEW t \in Tasks, RequestRetry(t)
    PROVE  LoopInv'
<1> DEFINE e == Event("timer_req", t, visible.task[t].attempt)
<1>1. Emit("client", <<e>>, "appended")
    BY DEF RequestRetry, AppendAll
<1>2. BatchOK(visible, Numbered(<<e>>)) /\ Len(<<e>>) \in Nat
    <2>1. visible.task[t].attempt # 0
        BY DEF RequestRetry, LoopInv, Good, KeysOK
    <2>2. visible.task[t].attempt \in Attempts
        BY <2>1, Next1Facts DEF LoopInv
    <2> QED  BY <2>2, TaskEvent, OneBatchOK, IdOK
<1>3. visible' = visible /\ l0' = l0 /\ recent' = recent /\ lost' = lost
      /\ dispatcher' = dispatcher /\ worker' = worker
      /\ cloud' = cloud /\ named' = named /\ asked' = asked /\ faults' = faults
    BY DEF RequestRetry, manifest
<1>4. "client" \in Producers
    BY DEF Producers
<1>5. BatchesOK' /\ lastId' \in 0 .. MaxId /\ \A q \in Producers : q # "client" => batch'[q] = batch[q]
    <2> HIDE DEF e
    <2> QED  BY <1>1, <1>2, <1>3, <1>4, EmitOK
<1>6. WorkersOK'
    BY <1>3, <1>5, WorkersLeft
<1>7. RestOK'
    BY <1>3, <1>5 DEF LoopInv, RestOK
<1> QED  BY <1>3, <1>5, <1>6, <1>7 DEF LoopInv

LEMMA DispatcherRecord ==
    ASSUME NEW pc, NEW rows, NEW x, x = [pc |-> pc, rows |-> rows]
    PROVE  x = [pc |-> x.pc, rows |-> x.rows] /\ x.pc = pc /\ x.rows = rows
OBVIOUS

LEMMA DispatcherRunOK ==
    ASSUME LoopInv, DispatcherRun
    PROVE  LoopInv'
<1> DEFINE ready == {Event("dispatch_req", t, Next1(visible.task[t].attempt)) :
                        t \in NeedsDispatch(visible)}
           rows == PendingRows(visible)
<1>1. rows \subseteq Dispatches
    <2>1. visible.outbox \in [Dispatches -> OutboxRows]
        BY RowsParts DEF LoopInv, Good, Core
    <2> QED  BY <2>1 DEF PendingRows
<1>2. Cardinality(ready) \in Nat /\ \A e \in ready : MayEmit(visible, e)
    BY ReadyEvents DEF LoopInv
<1>3. visible' = visible /\ l0' = l0 /\ recent' = recent /\ lost' = lost
      /\ worker' = worker
      /\ cloud' = cloud /\ named' = named /\ asked' = asked /\ faults' = faults
    BY DEF DispatcherRun, manifest
<1>4. \/ dispatcher' = [pc |-> "enqueue", rows |-> rows] /\ batch' = batch /\ lastId' = lastId
      \/ /\ dispatcher' = [pc |-> "request", rows |-> rows]
         /\ \E events \in SetToSeqs(ready) : Emit("dispatcher", events, "appended")
    BY DEF DispatcherRun, AppendAll
<1> HIDE DEF ready, rows
<1>5. "dispatcher" \in Producers
    BY DEF Producers
<1>6. BatchesOK' /\ lastId' \in 0 .. MaxId /\ \A q \in Producers : q # "dispatcher" => batch'[q] = batch[q]
    <2>1. CASE batch' = batch /\ lastId' = lastId
        BY <1>3, <2>1 DEF LoopInv, BatchesOK, RestOK
    <2>2. CASE \E events \in SetToSeqs(ready) : Emit("dispatcher", events, "appended")
        <3>1. PICK events \in SetToSeqs(ready) : Emit("dispatcher", events, "appended")
            BY <2>2
        <3>2. BatchOK(visible, Numbered(events)) /\ Len(events) \in Nat
            BY <1>2, SetBatchOK, IdOK
        <3> QED  BY <1>3, <1>5, <3>1, <3>2, EmitOK
    <2> QED  BY <1>4, <2>1, <2>2
<1>7. WorkersOK'
    BY <1>3, <1>6, WorkersLeft
<1>8. dispatcher' = [pc |-> dispatcher'.pc, rows |-> dispatcher'.rows]
      /\ dispatcher'.pc \in {"enqueue", "request"} /\ dispatcher'.rows = rows
    BY <1>4, DispatcherRecord
<1>9. RestOK'
    BY <1>1, <1>3, <1>6, <1>8 DEF LoopInv, RestOK
<1> QED  BY <1>3, <1>6, <1>7, <1>9 DEF LoopInv

LEMMA DispatcherEnqueueOK ==
    ASSUME LoopInv, DispatcherEnqueue
    PROVE  LoopInv'
<1>1. PICK ok \in SUBSET dispatcher.rows :
        /\ IF ok = dispatcher.rows THEN UNCHANGED faults ELSE Fault
        /\ cloud' = cloud \cup (ok \ named)
        /\ named' = named \cup ok
        /\ IF ok = {}
           THEN dispatcher' = Idle /\ UNCHANGED <<batch, lastId>>
           ELSE /\ dispatcher' = [dispatcher EXCEPT !.pc = "acknowledge"]
                /\ \E events \in SetToSeqs({Event("dispatch_ack", d[1], d[2]) : d \in ok}) :
                        AppendAll("dispatcher", events)
    BY DEF DispatcherEnqueue, manifest
<1> DEFINE acks == {Event("dispatch_ack", d[1], d[2]) : d \in ok}
<1>2. ok \in SUBSET Dispatches
    BY DEF LoopInv, RestOK
<1>3. Cardinality(acks) \in Nat /\ \A e \in acks : MayEmit(visible, e)
    BY <1>2, AckEvents
<1>4. visible' = visible /\ l0' = l0 /\ recent' = recent /\ lost' = lost
      /\ worker' = worker /\ asked' = asked
    BY DEF DispatcherEnqueue, manifest
<1>5. \/ dispatcher' = Idle /\ batch' = batch /\ lastId' = lastId
      \/ /\ dispatcher' = [dispatcher EXCEPT !.pc = "acknowledge"]
         /\ \E events \in SetToSeqs(acks) : Emit("dispatcher", events, "appended")
    BY <1>1 DEF AppendAll
<1> HIDE DEF acks
<1>6. "dispatcher" \in Producers
    BY DEF Producers
<1>7. BatchesOK' /\ lastId' \in 0 .. MaxId /\ \A q \in Producers : q # "dispatcher" => batch'[q] = batch[q]
    <2>1. CASE batch' = batch /\ lastId' = lastId
        BY <1>4, <2>1 DEF LoopInv, BatchesOK, RestOK
    <2>2. CASE \E events \in SetToSeqs(acks) : Emit("dispatcher", events, "appended")
        <3>1. PICK events \in SetToSeqs(acks) : Emit("dispatcher", events, "appended")
            BY <2>2
        <3>2. BatchOK(visible, Numbered(events)) /\ Len(events) \in Nat
            BY <1>3, SetBatchOK, IdOK
        <3> QED  BY <1>4, <1>6, <3>1, <3>2, EmitOK
    <2> QED  BY <1>5, <2>1, <2>2
<1>8. WorkersOK'
    BY <1>4, <1>7, WorkersLeft
<1>9. dispatcher' = [pc |-> dispatcher'.pc, rows |-> dispatcher'.rows]
      /\ dispatcher'.pc \in {"idle", "acknowledge"} /\ dispatcher'.rows \subseteq Dispatches
    <2>1. dispatcher = [pc |-> dispatcher.pc, rows |-> dispatcher.rows]
          /\ dispatcher.rows \subseteq Dispatches
        BY DEF LoopInv, RestOK
    <2>2. CASE dispatcher' = Idle
        BY <2>2, DispatcherRecord DEF Idle
    <2>3. CASE dispatcher' = [dispatcher EXCEPT !.pc = "acknowledge"]
        <3>1. dispatcher' = [pc |-> "acknowledge", rows |-> dispatcher.rows]
            BY <2>1, <2>3
        <3> QED  BY <2>1, <3>1, DispatcherRecord
    <2> QED  BY <1>5, <2>2, <2>3
<1>10. faults' \in 0 .. MaxFaults
    BY <1>1, FaultOK DEF LoopInv
<1>11. cloud' \subseteq Dispatches /\ named' \subseteq Dispatches
    BY <1>1, <1>2 DEF LoopInv, RestOK
<1>12. RestOK'
    BY <1>4, <1>7, <1>9, <1>10, <1>11 DEF LoopInv, RestOK
<1> QED  BY <1>4, <1>7, <1>8, <1>12 DEF LoopInv

LEMMA SweepOK ==
    ASSUME LoopInv, NEW late \in SUBSET Tasks, Sweep(late)
    PROVE  LoopInv'
<1> DEFINE repairs == UNION {Repair(visible, t) : t \in late}
<1>1. Cardinality(repairs) \in Nat
    BY SubCard DEF Sweep
<1>2. ASSUME NEW e \in repairs
      PROVE  /\ MayEmit(visible, e)
             /\ e.type = "dispatch_ack" => <<e.task, e.attempt>> \in Dispatches
    <2>1. PICK t \in late : e \in Repair(visible, t)
        BY <1>2
    <2>2. Good(~lost, visible) /\ t \in Tasks
        BY DEF LoopInv
    <2> QED  BY <2>1, <2>2, RepairEvents
<1>3. visible' = visible /\ l0' = l0 /\ recent' = recent /\ lost' = lost
      /\ dispatcher' = dispatcher /\ worker' = worker
      /\ named' = named /\ asked' = asked
    BY DEF Sweep, manifest
<1>4. \E events \in SetToSeqs(repairs) : Emit("sweeper", events, "appended")
    BY DEF Sweep, AppendAll
<1>5. cloud' \subseteq Dispatches
    <2>1. cloud' = cloud \cup {<<e.task, e.attempt>> : e \in {r \in repairs : r.type = "dispatch_ack"}}
        BY DEF Sweep, manifest
    <2> HIDE DEF repairs
    <2> QED  BY <1>2, <2>1 DEF LoopInv, RestOK
<1> HIDE DEF repairs
<1>6. "sweeper" \in Producers
    BY DEF Producers
<1>7. BatchesOK' /\ lastId' \in 0 .. MaxId /\ \A q \in Producers : q # "sweeper" => batch'[q] = batch[q]
    <2>1. PICK events \in SetToSeqs(repairs) : Emit("sweeper", events, "appended")
        BY <1>4
    <2>2. BatchOK(visible, Numbered(events)) /\ Len(events) \in Nat
        BY <1>1, <1>2, SetBatchOK, IdOK
    <2> QED  BY <1>3, <1>6, <2>1, <2>2, EmitOK
<1>8. WorkersOK'
    BY <1>3, <1>7, WorkersLeft
<1>9. faults' \in 0 .. MaxFaults
    BY FaultOK DEF LoopInv, Sweep
<1>10. RestOK'
    BY <1>3, <1>5, <1>7, <1>9 DEF LoopInv, RestOK
<1> QED  BY <1>3, <1>7, <1>8, <1>10 DEF LoopInv

(* One worker and its batch change, or the worker alone.                   *)
LEMMA WorkerChanged ==
    ASSUME LoopInv, visible' = visible, NEW w \in Workers, NEW k,
           worker' = [worker EXCEPT ![w] = k],
           \A v \in Workers : v # w => batch'[v] = batch[v],
           WorkerOK(visible, k, batch'[w])
    PROVE  WorkersOK'
<1>1. worker = [v \in Workers |-> worker[v]]
      /\ \A v \in Workers : WorkerOK(visible, worker[v], batch[v])
    BY DEF LoopInv, WorkersOK
<1>2. worker' = [v \in Workers |-> worker'[v]] /\ worker'[w] = k
      /\ \A v \in Workers : v # w => worker'[v] = worker[v]
    BY <1>1
<1>3. \A v \in Workers : WorkerOK(visible', worker'[v], batch'[v])
    BY <1>1, <1>2
<1> QED  BY <1>2, <1>3 DEF WorkersOK

LEMMA StartedOK ==
    ASSUME LoopInv, visible' = visible, NEW w \in Workers, NEW d \in Dispatches,
           worker[w].pc \in {"idle", "start"}, HandleTaskStarted(w, d)
    PROVE  BatchesOK' /\ WorkersOK' /\ lastId' \in 0 .. MaxId
<1>1. d[1] \in Tasks /\ d[2] \in Attempts
    BY DEF Dispatches
<1>2. w \in Producers /\ \A v \in Workers : v \in Producers
    BY DEF Producers
<1>3. CASE Current(d) /\ ~visible.run.cancel
    <2> DEFINE e == Event("started", d[1], d[2])
               k == [pc |-> "starting", job |-> d]
    <2>1. Emit(w, <<e>>, "appended") /\ worker' = [worker EXCEPT ![w] = k]
        BY <1>3 DEF HandleTaskStarted, AppendAll
    <2>2. visible.task[d[1]].attempt > 0
        BY <1>1, <1>3, AttemptFacts DEF Current
    <2>3. /\ MayEmit(visible, e)
          /\ \A id \in Nat : /\ WithId(e, id).type = "started" /\ WithId(e, id).task = d[1]
                             /\ WithId(e, id).attempt = d[2]
        BY <1>1, <2>2, StartedEvent
    <2>4. k = [pc |-> k.pc, job |-> k.job] /\ k.pc = "starting" /\ k.job = d
        OBVIOUS
    <2> HIDE DEF e, k
    <2>5. BatchOK(visible, Numbered(<<e>>)) /\ Len(<<e>>) \in Nat /\ Len(Numbered(<<e>>)) = 1
          /\ \E id \in Nat : Numbered(<<e>>)[1] = WithId(e, id)
        BY <2>3, OneBatchOK, IdOK
    <2>6. /\ BatchesOK' /\ lastId' \in 0 .. MaxId
          /\ batch'[w].stage = "appended" /\ batch'[w].events = Numbered(<<e>>)
          /\ \A q \in Producers : q # w => batch'[q] = batch[q]
        BY <1>2, <2>1, <2>5, EmitOK
    <2>7. WorkerOK(visible, k, batch'[w])
        BY <2>3, <2>4, <2>5, <2>6 DEF WorkerOK
    <2>8. WorkersOK'
        BY <1>2, <2>1, <2>6, <2>7, WorkerChanged
    <2> QED  BY <2>6, <2>8
<1>4. CASE ~(Current(d) /\ ~visible.run.cancel)
    <2>1. worker' = [worker EXCEPT ![w] = Free] /\ batch' = batch /\ lastId' = lastId
        BY <1>4 DEF HandleTaskStarted
    <2>2. batch'[w].stage = "none"
        BY <2>1 DEF LoopInv, WorkersOK, WorkerOK
    <2>3. WorkersOK'
        BY <2>1, <2>2, FreeOK, WorkerChanged
    <2> QED  BY <2>1, <2>3 DEF LoopInv, BatchesOK, RestOK
<1> QED  BY <1>3, <1>4

LEMMA DeliverOK ==
    ASSUME LoopInv, NEW w \in Workers, NEW d \in cloud, NEW again \in BOOLEAN,
           Deliver(w, d, again)
    PROVE  LoopInv'
<1>1. visible' = visible /\ l0' = l0 /\ recent' = recent /\ lost' = lost
      /\ dispatcher' = dispatcher /\ named' = named
      /\ asked' = asked /\ HandleTaskStarted(w, d) /\ worker[w].pc = "idle"
    BY DEF Deliver, manifest
<1>2. d \in Dispatches
    BY DEF LoopInv, RestOK
<1>3. BatchesOK' /\ WorkersOK' /\ lastId' \in 0 .. MaxId
    BY <1>1, <1>2, StartedOK
<1>4. cloud' \subseteq Dispatches
    BY DEF Deliver, LoopInv, RestOK
<1>5. faults' \in 0 .. MaxFaults
    BY FaultOK DEF Deliver, LoopInv
<1>6. RestOK'
    BY <1>1, <1>3, <1>4, <1>5 DEF LoopInv, RestOK
<1> QED  BY <1>1, <1>3, <1>6 DEF LoopInv

LEMMA RestartOK ==
    ASSUME LoopInv, NEW w \in Workers, Restart(w)
    PROVE  LoopInv'
<1>1. visible' = visible /\ l0' = l0 /\ recent' = recent /\ lost' = lost
      /\ dispatcher' = dispatcher /\ named' = named
      /\ asked' = asked /\ cloud' = cloud /\ faults' = faults
      /\ HandleTaskStarted(w, worker[w].job) /\ worker[w].pc = "start"
    BY DEF Restart, manifest
<1>2. worker[w].job \in Dispatches
    BY <1>1 DEF LoopInv, WorkersOK, WorkerOK
<1>3. BatchesOK' /\ WorkersOK' /\ lastId' \in 0 .. MaxId
    BY <1>1, <1>2, StartedOK
<1>4. RestOK'
    BY <1>1, <1>3 DEF LoopInv, RestOK
<1> QED  BY <1>1, <1>3, <1>4 DEF LoopInv

LEMMA WorkerCrashOK ==
    ASSUME LoopInv, NEW w \in Workers, WorkerCrash(w)
    PROVE  LoopInv'
<1>1. visible' = visible /\ l0' = l0 /\ recent' = recent /\ lost' = lost
      /\ batch' = batch /\ dispatcher' = dispatcher
      /\ named' = named /\ asked' = asked /\ cloud' = cloud /\ lastId' = lastId
      /\ worker' = [worker EXCEPT ![w] = Free] /\ worker[w].pc \in {"start", "run"}
    BY DEF WorkerCrash, manifest
<1>2. batch'[w].stage = "none"
    BY <1>1 DEF LoopInv, WorkersOK, WorkerOK
<1>3. WorkersOK'
    BY <1>1, <1>2, FreeOK, WorkerChanged
<1>4. faults' \in 0 .. MaxFaults
    BY FaultOK DEF WorkerCrash, LoopInv
<1>5. RestOK' /\ BatchesOK'
    BY <1>1, <1>4 DEF LoopInv, RestOK, BatchesOK
<1> QED  BY <1>1, <1>3, <1>5 DEF LoopInv

LEMMA CompletedOK ==
    ASSUME LoopInv, NEW w \in Workers, NEW outcome \in Outcomes,
           HandleTaskCompleted(w, outcome)
    PROVE  LoopInv'
<1> DEFINE d == worker[w].job
<1>1. visible' = visible /\ l0' = l0 /\ recent' = recent /\ lost' = lost
      /\ dispatcher' = dispatcher /\ named' = named
      /\ asked' = asked /\ cloud' = cloud /\ faults' = faults
      /\ worker[w].pc = "run" /\ batch[w].stage = "none"
    BY DEF HandleTaskCompleted, manifest
<1>2. d \in Dispatches /\ StartSettled(visible, d[1], d[2])
      /\ worker[w] = [pc |-> worker[w].pc, job |-> d]
    BY <1>1 DEF LoopInv, WorkersOK, WorkerOK
<1>3. d[1] \in Tasks /\ d[2] \in Attempts
    BY <1>2 DEF Dispatches
<1>4. w \in Producers /\ \A v \in Workers : v \in Producers
    BY DEF Producers
<1>5. BatchesOK' /\ WorkersOK' /\ lastId' \in 0 .. MaxId
    <2>1. CASE Current(d)
        <3> DEFINE e == Finished(d[1], d[2], outcome)
                   k == [pc |-> "finishing", job |-> d]
        <3>1. Emit(w, <<e>>, "appended") /\ worker' = [worker EXCEPT ![w].pc = "finishing"]
            BY <2>1 DEF HandleTaskCompleted, AppendAll
        <3>2. worker' = [worker EXCEPT ![w] = k]
            <4>1. [worker[w] EXCEPT !.pc = "finishing"] = k
                <5>1. ASSUME NEW x, x = [worker[w] EXCEPT !.pc = "finishing"] PROVE x = k
                    <6> HIDE DEF d
                    <6> QED  BY <1>2, <5>1
                <5> QED  BY <5>1
            <4>2. worker' = [worker EXCEPT ![w] = [worker[w] EXCEPT !.pc = "finishing"]]
                BY <3>1
            <4> QED  BY <4>1, <4>2
        <3>3. MayEmit(visible, e)
            BY <1>2, <1>3, FinishedEvent
        <3>4. k = [pc |-> k.pc, job |-> k.job] /\ k.pc = "finishing" /\ k.job = d
            OBVIOUS
        <3> HIDE DEF e, k, d
        <3>5. BatchOK(visible, Numbered(<<e>>)) /\ Len(<<e>>) \in Nat
            BY <3>3, OneBatchOK, IdOK
        <3>6. /\ BatchesOK' /\ lastId' \in 0 .. MaxId
              /\ batch'[w].stage = "appended" /\ batch'[w].events = Numbered(<<e>>)
              /\ \A q \in Producers : q # w => batch'[q] = batch[q]
            BY <1>1, <1>4, <3>1, <3>5, EmitOK
        <3>7. WorkerOK(visible, k, batch'[w])
            BY <1>2, <3>4, <3>6 DEF WorkerOK
        <3>8. WorkersOK'
            BY <1>1, <1>4, <3>2, <3>6, <3>7, WorkerChanged
        <3> QED  BY <3>6, <3>8
    <2>2. CASE ~Current(d)
        <3>1. worker' = [worker EXCEPT ![w] = Free] /\ batch' = batch /\ lastId' = lastId
            BY <2>2 DEF HandleTaskCompleted
        <3>2. WorkersOK'
            BY <1>1, <3>1, FreeOK, WorkerChanged
        <3> QED  BY <1>1, <3>1, <3>2 DEF LoopInv, BatchesOK, RestOK
    <2> QED  BY <2>1, <2>2
<1>6. RestOK'
    BY <1>1, <1>5 DEF LoopInv, RestOK
<1> QED  BY <1>1, <1>5, <1>6 DEF LoopInv

LEMMA HeartbeatOK ==
    ASSUME LoopInv, NEW h \in Beats, NEW w \in Workers, HandleHeartbeat(h, w)
    PROVE  LoopInv'
<1> DEFINE d == worker[w].job
           e == Event("heartbeat", d[1], d[2])
<1>1. visible' = visible /\ l0' = l0 /\ recent' = recent /\ lost' = lost
      /\ dispatcher' = dispatcher /\ worker' = worker /\ cloud' = cloud
      /\ named' = named /\ asked' = asked /\ faults' = faults
      /\ worker[w].pc \in {"run", "finishing"} /\ Emit(h, <<e>>, "appended")
    BY DEF HandleHeartbeat, AppendAll, manifest
<1>2. d[1] \in Tasks /\ d[2] \in Attempts
    BY <1>1 DEF LoopInv, WorkersOK, WorkerOK, Dispatches
<1>3. BatchOK(visible, Numbered(<<e>>)) /\ Len(<<e>>) \in Nat
    BY <1>2, TaskEvent, OneBatchOK, IdOK
<1>4. h \in Producers
    BY DEF Producers
<1>5. BatchesOK' /\ lastId' \in 0 .. MaxId /\ \A q \in Producers : q # h => batch'[q] = batch[q]
    <2> HIDE DEF e
    <2> QED  BY <1>1, <1>3, <1>4, EmitOK
<1>6. WorkersOK'
    BY <1>1, <1>5, WorkersLeft
<1>7. RestOK'
    BY <1>1, <1>5 DEF LoopInv, RestOK
<1> QED  BY <1>1, <1>5, <1>6, <1>7 DEF LoopInv

LEMMA LapseOK ==
    ASSUME LoopInv, Lapse
    PROVE  LoopInv'
<1>1. visible' = visible /\ l0' = l0 /\ recent' = FALSE /\ lost' = lost /\ batch' = batch
      /\ dispatcher' = dispatcher /\ worker' = worker /\ cloud' = cloud /\ named' = named
      /\ asked' = asked /\ lastId' = lastId /\ faults' = faults
    BY DEF Lapse
<1> QED  BY <1>1 DEF LoopInv, BatchesOK, WorkersOK, RestOK

(***************************************************************************)
(* The compactions.                                                        *)
(***************************************************************************)
LEMMA BatchChanged ==
    ASSUME LoopInv, visible' = visible, NEW p \in Producers, NEW b,
           batch' = [batch EXCEPT ![p] = b], ProducerOK(visible, b)
    PROVE  BatchesOK' /\ batch'[p] = b /\ \A q \in Producers : q # p => batch'[q] = batch[q]
<1>1. batch = [q \in Producers |-> batch[q]] /\ \A q \in Producers : ProducerOK(visible, batch[q])
    BY DEF LoopInv, BatchesOK
<1>2. batch' = [q \in Producers |-> batch'[q]] /\ batch'[p] = b
      /\ \A q \in Producers : q # p => batch'[q] = batch[q]
    BY <1>1
<1>3. \A q \in Producers : ProducerOK(visible', batch'[q])
    BY <1>1, <1>2
<1> QED  BY <1>2, <1>3 DEF BatchesOK

LEMMA StageChanged ==
    ASSUME NEW st, NEW b, ProducerOK(st, b), NEW c,
           c = [stage |-> c.stage, events |-> b.events, base |-> c.base, fresh |-> c.fresh],
           c.stage \in {"none", "appended", "loaded"}, c.base \in Rows, c.fresh \in BOOLEAN,
           c.fresh => c.base = st
    PROVE  ProducerOK(st, c) /\ c.events = b.events
<1>1. c.events = b.events
    OBVIOUS
<1>2. c = [stage |-> c.stage, events |-> c.events, base |-> c.base, fresh |-> c.fresh]
    BY <1>1
<1> QED  BY <1>1, <1>2 DEF ProducerOK

LEMMA SameStageWorkers ==
    ASSUME LoopInv, visible' = visible, worker' = worker,
           \A w \in Workers : /\ batch'[w].events = batch[w].events
                              /\ batch'[w].stage = "none" <=> batch[w].stage = "none"
    PROVE  WorkersOK'
<1>1. visible \in Rows /\ Keeps(~lost, visible, visible)
    BY KeepsItself DEF LoopInv, Good, Core
<1>2. \A w \in Workers : WorkerOK(visible, worker[w], batch'[w])
    BY <1>1, WorkerStays DEF LoopInv, WorkersOK
<1> QED  BY <1>2 DEF LoopInv, WorkersOK

LEMMA LoadOK ==
    ASSUME LoopInv, NEW p \in Producers, Load(p)
    PROVE  LoopInv'
<1> DEFINE old == batch[p]
           b == [old EXCEPT !.stage = "loaded", !.base = visible, !.fresh = TRUE]
<1>1. visible' = visible /\ l0' = l0 /\ recent' = recent /\ lost' = lost
      /\ dispatcher' = dispatcher /\ worker' = worker
      /\ cloud' = cloud /\ named' = named /\ asked' = asked /\ lastId' = lastId
      /\ batch' = [batch EXCEPT ![p] = b] /\ old.stage = "appended"
    BY DEF Load, manifest
<1>2. ProducerOK(visible, old) /\ visible \in Rows
    BY DEF LoopInv, BatchesOK, Good, Core
<1> HIDE DEF old
<1>3. old = [stage |-> old.stage, events |-> old.events, base |-> old.base, fresh |-> old.fresh]
    BY <1>2 DEF ProducerOK
<1>4. ASSUME NEW c, c = b
      PROVE  c = [stage |-> "loaded", events |-> old.events, base |-> visible, fresh |-> TRUE]
    BY <1>3, <1>4
<1> HIDE DEF b
<1>5. ProducerOK(visible, b) /\ b.stage = "loaded" /\ b.events = old.events
    <2>1. b = [stage |-> "loaded", events |-> old.events, base |-> visible, fresh |-> TRUE]
        BY <1>4
    <2>2. b.stage = "loaded" /\ b.base = visible /\ b.fresh = TRUE
          /\ b = [stage |-> b.stage, events |-> old.events, base |-> b.base, fresh |-> b.fresh]
        BY <2>1
    <2> QED  BY <1>2, <2>2, StageChanged
<1>6. BatchesOK' /\ batch'[p] = b /\ \A q \in Producers : q # p => batch'[q] = batch[q]
    BY <1>1, <1>5, BatchChanged
<1>7. WorkersOK'
    <2>1. \A w \in Workers : w \in Producers
        BY DEF Producers
    <2>2. \A w \in Workers : /\ batch'[w].events = batch[w].events
                             /\ batch'[w].stage = "none" <=> batch[w].stage = "none"
        BY <1>1, <1>5, <1>6, <2>1 DEF old
    <2> QED  BY <1>1, <2>2, SameStageWorkers
<1>8. faults' \in 0 .. MaxFaults
    BY FaultOK DEF LoopInv, Load, TakeLock
<1>9. RestOK'
    BY <1>1, <1>8 DEF LoopInv, RestOK
<1> QED  BY <1>1, <1>6, <1>7, <1>9 DEF LoopInv

LEMMA DispatcherAfterOK ==
    ASSUME RestOK, NEW ok \in BOOLEAN, NEW x, x = DispatcherAfter(ok) \/ x = dispatcher
    PROVE  /\ x = [pc |-> x.pc, rows |-> x.rows]
           /\ x.pc \in {"idle", "request", "enqueue", "acknowledge"}
           /\ x.rows \subseteq Dispatches
<1>1. dispatcher = [pc |-> dispatcher.pc, rows |-> dispatcher.rows]
      /\ dispatcher.rows \subseteq Dispatches
      /\ dispatcher.pc \in {"idle", "request", "enqueue", "acknowledge"}
    BY DEF RestOK
<1>2. CASE x = dispatcher
    BY <1>1, <1>2
<1>3. CASE x = Idle
    BY <1>3, DispatcherRecord DEF Idle
<1>4. CASE x = [dispatcher EXCEPT !.pc = "enqueue"]
    <2>1. x = [pc |-> "enqueue", rows |-> dispatcher.rows]
        BY <1>1, <1>4
    <2> QED  BY <1>1, <2>1, DispatcherRecord
<1> QED  BY <1>2, <1>3, <1>4 DEF DispatcherAfter

(* A worker learns how its batch ended; b is what is left of it.           *)
LEMMA WorkerAfterOK ==
    ASSUME NEW kept, LoopInv, NEW w \in Workers, batch[w].stage # "none", NEW ok \in BOOLEAN,
           NEW s \in Rows, Keeps(kept, visible, s), NEW b, b.stage = "none",
           ok /\ worker[w].pc = "starting" => StartSettled(s, worker[w].job[1], worker[w].job[2])
    PROVE  WorkerOK(s, WorkerAfter(w, ok), b)
<1> DEFINE k == worker[w]
           x == WorkerAfter(w, ok)
<1>1. WorkerOK(visible, k, batch[w]) /\ visible \in Rows
    BY DEF LoopInv, WorkersOK, Good, Core
<1>2. k = [pc |-> k.pc, job |-> k.job] /\ k.pc \in {"starting", "finishing"} /\ k.job \in Dispatches
    BY <1>1 DEF WorkerOK
<1>3. k.pc = "finishing" => StartSettled(s, k.job[1], k.job[2])
    <2>1. k.job[1] \in Tasks /\ k.job[2] \in Attempts
        BY <1>2 DEF Dispatches
    <2>2. k.pc = "finishing" => StartSettled(visible, k.job[1], k.job[2])
        BY <1>1 DEF WorkerOK
    <2> QED  BY <1>1, <2>1, <2>2, SettledStays
<1>4. CASE x = Free
    BY <1>4, FreeOK
<1>5. ASSUME NEW pc \in {"start", "run"}, x = [k EXCEPT !.pc = pc],
             pc = "run" => StartSettled(s, k.job[1], k.job[2])
      PROVE  WorkerOK(s, x, b)
    <2> HIDE DEF k, x
    <2>1. x = [pc |-> pc, job |-> k.job]
        BY <1>2, <1>5
    <2>2. x = [pc |-> x.pc, job |-> x.job] /\ x.pc = pc /\ x.job = k.job
        BY <2>1
    <2> QED  BY <1>2, <1>5, <2>2 DEF WorkerOK
<1>6. CASE k.pc = "starting" /\ ok
    BY <1>5, <1>6 DEF WorkerAfter
<1>7. CASE k.pc = "starting" /\ ~ok
    BY <1>5, <1>7 DEF WorkerAfter
<1>8. CASE k.pc = "finishing" /\ ok
    BY <1>4, <1>8 DEF WorkerAfter
<1>9. CASE k.pc = "finishing" /\ ~ok
    BY <1>3, <1>5, <1>9 DEF WorkerAfter
<1> QED  BY <1>2, <1>6, <1>7, <1>8, <1>9

(* A batch is given up.                                                    *)
LEMMA GivenUp ==
    ASSUME LoopInv, NEW p \in Producers, batch[p].stage # "none", UNCHANGED manifest,
           UNCHANGED <<cloud, named, asked, lastId>>, Fault \/ faults' = faults,
           batch' = [batch EXCEPT ![p] = NoBatch], Answer(p, FALSE)
    PROVE  LoopInv'
<1>1. visible' = visible /\ l0' = l0 /\ recent' = recent /\ lost' = lost
      /\ cloud' = cloud /\ named' = named /\ asked' = asked
      /\ lastId' = lastId /\ batch' = [batch EXCEPT ![p] = NoBatch] /\ batch[p].stage # "none"
      /\ dispatcher' = (IF p = "dispatcher" THEN DispatcherAfter(FALSE) ELSE dispatcher)
      /\ worker' = (IF p \in Workers THEN [worker EXCEPT ![p] = WorkerAfter(p, FALSE)] ELSE worker)
    BY DEF manifest, Answer
<1>2. ProducerOK(visible, NoBatch) /\ NoBatch.stage = "none"
    BY NoBatchOK
<1>3. BatchesOK' /\ batch'[p] = NoBatch /\ \A q \in Producers : q # p => batch'[q] = batch[q]
    BY <1>1, <1>2, BatchChanged
<1>4. visible \in Rows /\ Keeps(~lost, visible, visible) /\ \A w \in Workers : w \in Producers
    BY KeepsItself DEF LoopInv, Good, Core, Producers
<1>5. WorkersOK'
    <2>1. CASE p \in Workers
        <3>1. WorkerOK(visible, WorkerAfter(p, FALSE), batch'[p])
            BY <1>1, <1>2, <1>3, <1>4, <2>1, WorkerAfterOK
        <3>2. worker' = [worker EXCEPT ![p] = WorkerAfter(p, FALSE)]
            BY <1>1, <2>1
        <3>3. \A v \in Workers : v # p => batch'[v] = batch[v]
            BY <1>3, <1>4
        <3> QED  BY <1>1, <2>1, <3>1, <3>2, <3>3, WorkerChanged
    <2>2. CASE p \notin Workers
        <3>1. \A w \in Workers : batch'[w] = batch[w]
            BY <1>3, <1>4, <2>2
        <3> QED  BY <1>1, <2>2, <3>1, SameStageWorkers
    <2> QED  BY <2>1, <2>2
<1>6. faults' \in 0 .. MaxFaults
    BY FaultOK DEF LoopInv
<1>7. RestOK'
    <2>1. /\ dispatcher' = [pc |-> dispatcher'.pc, rows |-> dispatcher'.rows]
          /\ dispatcher'.pc \in {"idle", "request", "enqueue", "acknowledge"}
          /\ dispatcher'.rows \subseteq Dispatches
        <3>1. dispatcher' = DispatcherAfter(FALSE) \/ dispatcher' = dispatcher
            BY <1>1
        <3> QED  BY <3>1, DispatcherAfterOK DEF LoopInv
    <2> QED  BY <1>1, <1>6, <2>1 DEF LoopInv, RestOK
<1> QED  BY <1>1, <1>3, <1>5, <1>7 DEF LoopInv

LEMMA AbandonOK ==
    ASSUME LoopInv, NEW p \in Producers, Abandon(p)
    PROVE  LoopInv'
BY GivenUp DEF Abandon

LEMMA RetriedOK ==
    ASSUME LoopInv, NEW p \in Producers, Conflict(p, TRUE)
    PROVE  LoopInv'
<1> DEFINE old == batch[p]
           b == [old EXCEPT !.stage = "appended", !.base = EmptyState]
<1>1. visible' = visible /\ l0' = l0 /\ recent' = recent /\ lost' = lost
      /\ dispatcher' = dispatcher /\ worker' = worker
      /\ cloud' = cloud /\ named' = named /\ asked' = asked /\ lastId' = lastId /\ faults' = faults
      /\ batch' = [batch EXCEPT ![p] = b] /\ old.stage = "loaded" /\ ~old.fresh
    BY DEF Conflict, PointerUnmoved, manifest
<1>2. ProducerOK(visible, old) /\ EmptyState \in Rows
    BY EmptyGood DEF LoopInv, BatchesOK, Good, Core
<1> HIDE DEF old
<1>3. old = [stage |-> old.stage, events |-> old.events, base |-> old.base, fresh |-> old.fresh]
      /\ old.fresh = FALSE
    BY <1>1, <1>2 DEF ProducerOK
<1>4. ASSUME NEW c, c = b
      PROVE  c = [stage |-> "appended", events |-> old.events, base |-> EmptyState, fresh |-> FALSE]
    BY <1>3, <1>4
<1> HIDE DEF b
<1>5. ProducerOK(visible, b) /\ b.stage = "appended" /\ b.events = old.events
    <2>1. b = [stage |-> "appended", events |-> old.events, base |-> EmptyState, fresh |-> FALSE]
        BY <1>4
    <2>2. b.stage = "appended" /\ b.base = EmptyState /\ b.fresh = FALSE
          /\ b = [stage |-> b.stage, events |-> old.events, base |-> b.base, fresh |-> b.fresh]
        BY <2>1
    <2> QED  BY <1>2, <2>2, StageChanged
<1>6. BatchesOK' /\ batch'[p] = b /\ \A q \in Producers : q # p => batch'[q] = batch[q]
    BY <1>1, <1>5, BatchChanged
<1>7. WorkersOK'
    <2>1. \A w \in Workers : w \in Producers
        BY DEF Producers
    <2>2. \A w \in Workers : /\ batch'[w].events = batch[w].events
                             /\ batch'[w].stage = "none" <=> batch[w].stage = "none"
        BY <1>1, <1>5, <1>6, <2>1 DEF old
    <2> QED  BY <1>1, <2>2, SameStageWorkers
<1>8. RestOK'
    BY <1>1 DEF LoopInv, RestOK
<1> QED  BY <1>1, <1>6, <1>7, <1>8 DEF LoopInv

LEMMA ConflictOK ==
    ASSUME LoopInv, NEW p \in Producers, NEW retried \in BOOLEAN, Conflict(p, retried)
    PROVE  LoopInv'
<1>1. CASE retried = TRUE
    BY <1>1, RetriedOK
<1>2. CASE retried = FALSE
    BY <1>2, GivenUp DEF Conflict
<1> QED  BY <1>1, <1>2

(* Everyone's base is out of date, and everyone's events may still be      *)
(* folded over the rows that are there now.                                *)
LEMMA StaleOK ==
    ASSUME NEW kept, NEW bs, \A q \in Producers : ProducerOK(visible, bs[q]), batch' = Stale(bs),
           visible \in Rows, visible' \in Rows, Keeps(kept, visible, visible')
    PROVE  /\ BatchesOK'
           /\ \A q \in Producers : batch'[q].stage = bs[q].stage /\ batch'[q].events = bs[q].events
<1> DEFINE S(b) == [b EXCEPT !.fresh = FALSE,
                            !.base = IF b.stage = "loaded" THEN @ ELSE EmptyState]
<1>a. Stale(bs) = [q \in Producers |-> S(bs[q])]
    BY Zenon DEF Stale
<1> HIDE DEF S
<1>b. batch' = [q \in Producers |-> S(bs[q])]
    BY <1>a
<1>1. batch' = [q \in Producers |-> batch'[q]] /\ \A q \in Producers : batch'[q] = S(bs[q])
    BY <1>b
<1>2. ASSUME NEW q \in Producers
      PROVE  ProducerOK(visible', batch'[q]) /\ batch'[q].stage = bs[q].stage
             /\ batch'[q].events = bs[q].events
    <2> DEFINE b == bs[q]
               base == IF b.stage = "loaded" THEN b.base ELSE EmptyState
               c == batch'[q]
    <2>1. ProducerOK(visible, b)
        BY <1>2
    <2>2. c = S(b)
        BY <1>1
    <2>3. base \in Rows
        BY <2>1, EmptyGood DEF ProducerOK, Good, Core
    <2>4. b = [stage |-> b.stage, events |-> b.events, base |-> b.base, fresh |-> b.fresh]
          /\ b.stage \in {"none", "appended", "loaded"} /\ BatchOK(visible, b.events)
        BY <2>1 DEF ProducerOK
    <2> HIDE DEF b, c
    <2>5. c = [stage |-> b.stage, events |-> b.events, base |-> base, fresh |-> FALSE]
        BY <2>2, <2>4 DEF S
    <2> HIDE DEF base
    <2>6. c.stage = b.stage /\ c.events = b.events /\ c.base = base /\ c.fresh = FALSE
          /\ c = [stage |-> c.stage, events |-> c.events, base |-> c.base, fresh |-> c.fresh]
        BY <2>5
    <2>7. BatchOK(visible', c.events)
        BY <2>4, <2>6, BatchStays
    <2>8. ProducerOK(visible', c)
        BY <2>3, <2>4, <2>6, <2>7 DEF ProducerOK
    <2> QED  BY <2>6, <2>8 DEF b, c
<1> QED  BY <1>1, <1>2 DEF BatchesOK

(* What is published: good rows that keep what was there, and in which the *)
(* start a worker reported is settled.                                     *)
LEMMA PublishedRows ==
    ASSUME LoopInv, NEW p \in Producers, NEW toBase \in BOOLEAN,
           NEW answered \in BOOLEAN, Publish(p, toBase, answered)
    PROVE  /\ Good(~lost', visible') /\ Keeps(~lost', visible, visible')
           /\ p \in Workers /\ worker[p].pc = "starting" =>
                StartSettled(visible', worker[p].job[1], worker[p].job[2])
<1> DEFINE events == batch[p].events
           st == FoldEvents(visible, events)
<1>1. ProducerOK(visible, batch[p]) /\ batch[p].fresh /\ Good(~lost, visible)
    BY DEF Publish, PointerUnmoved, LoopInv, BatchesOK
<1>2. batch[p].base = visible /\ BatchOK(visible, events)
    BY <1>1 DEF ProducerOK
<1>3. /\ visible' = IF toBase THEN st ELSE MergeStates(visible, st)
      /\ lost' = (lost \/ (~toBase /\ DropsRow(visible, st)))
    BY <1>2 DEF Publish
<1>4. Good(~lost, st) /\ Keeps(~lost, visible, st)
    BY <1>1, <1>2, FoldGood
<1>5. Good(~lost', visible') /\ Keeps(~lost', visible, visible') /\ visible'.keys = st.keys
    <2> HIDE DEF st
    <2>1. CASE toBase
        <3>1. visible' = st /\ (~lost' => ~lost)
            BY <1>3, <2>1
        <3> QED  BY <1>4, <3>1, GoodMeans
    <2>2. CASE ~toBase
        <3>1. visible' = MergeStates(visible, st) /\ (~lost' => ~lost /\ ~DropsRow(visible, st))
            BY <1>3, <2>2
        <3> DEFINE kept == ~lost
                   after == ~lost'
        <3>2. /\ Good(kept, visible) /\ Good(kept, st) /\ Keeps(kept, visible, st)
              /\ after => kept /\ ~DropsRow(visible, st)
            BY <1>1, <1>4, <3>1
        <3>3. visible' = MergeStates(visible, st)
            BY <3>1
        <3> HIDE DEF kept, after
        <3>4. Good(after, visible') /\ Keeps(after, visible, visible') /\ visible'.keys = st.keys
            BY <3>2, <3>3, MergeStep
        <3> QED  BY <3>4 DEF after
    <2> QED  BY <2>1, <2>2
<1>6. ASSUME p \in Workers, worker[p].pc = "starting"
      PROVE  StartSettled(visible', worker[p].job[1], worker[p].job[2])
    <2> DEFINE e == events[1]
    <2>1. Len(events) = 1 /\ e.type = "started" /\ e.task = worker[p].job[1]
          /\ e.attempt = worker[p].job[2]
        BY <1>6 DEF LoopInv, WorkersOK, WorkerOK
    <2>2. \A i \in 1 .. Len(events) : EventOK(visible, events[i])
        BY <1>2, <2>1 DEF BatchOK, TriggerBatch
    <2>3. Len(events) \in Nat /\ EventOK(visible, e)
        BY <2>1, <2>2
    <2>4. st = FoldEvent(visible, e)
        BY <1>1, <2>1, <2>2, <2>3, FoldBatch
    <2>5. \/ StartSettled(visible, e.task, e.attempt)
          \/ <<"started", e.task, e.attempt>> \in st.keys
        BY <1>1, <2>1, <2>3, <2>4, EventStep
    <2>6. e.task \in Tasks /\ e.attempt \in Attempts
        BY <2>1, <2>3 DEF EventOK, TaskTypes
    <2>7. visible \in Rows /\ visible' \in Rows
        BY <1>1, <1>5 DEF Good, Core
    <2> HIDE DEF e, st
    <2>8. StartSettled(visible, e.task, e.attempt) => StartSettled(visible', e.task, e.attempt)
        BY <1>5, <2>6, <2>7, SettledStays
    <2>9. <<"started", e.task, e.attempt>> \in st.keys => StartSettled(visible', e.task, e.attempt)
        BY <1>5 DEF StartSettled
    <2> QED  BY <2>1, <2>5, <2>8, <2>9
<1> QED  BY <1>5, <1>6

LEMMA PublishOK ==
    ASSUME LoopInv, NEW p \in Producers, NEW toBase \in BOOLEAN,
           NEW answered \in BOOLEAN, Publish(p, toBase, answered)
    PROVE  LoopInv'
<1>1. /\ Good(~lost', visible') /\ Keeps(~lost', visible, visible')
      /\ p \in Workers /\ worker[p].pc = "starting" =>
            StartSettled(visible', worker[p].job[1], worker[p].job[2])
    BY PublishedRows
<1>2. visible \in Rows /\ visible' \in Rows /\ \A w \in Workers : w \in Producers
    BY <1>1 DEF LoopInv, Good, Core, Producers
<1>3. batch = [q \in Producers |-> batch[q]] /\ \A q \in Producers : ProducerOK(visible, batch[q])
    BY DEF LoopInv, BatchesOK
<1>4. batch[p].stage = "loaded" /\ cloud' = cloud /\ named' = named /\ asked' = asked
      /\ lastId' = lastId
    BY DEF Publish
<1>5. l0' \in BOOLEAN /\ recent' \in BOOLEAN /\ lost' \in BOOLEAN
    BY DEF Publish
<1>6. worker = [w \in Workers |-> worker[w]]
      /\ \A w \in Workers : WorkerOK(visible, worker[w], batch[w])
    BY DEF LoopInv, WorkersOK
<1>7. CASE answered
    <2> DEFINE bs == [batch EXCEPT ![p] = NoBatch]
    <2>1. batch' = Stale(bs) /\ faults' = faults
          /\ dispatcher' = (IF p = "dispatcher" THEN DispatcherAfter(TRUE) ELSE dispatcher)
          /\ worker' = (IF p \in Workers THEN [worker EXCEPT ![p] = WorkerAfter(p, TRUE)] ELSE worker)
        BY <1>7 DEF Publish, Answer
    <2>2. bs[p] = NoBatch /\ \A q \in Producers : q # p => bs[q] = batch[q]
        BY <1>3
    <2> HIDE DEF bs
    <2>3. \A q \in Producers : ProducerOK(visible, bs[q])
        BY <1>3, <2>2, NoBatchOK
    <2>4. /\ BatchesOK'
          /\ \A q \in Producers : batch'[q].stage = bs[q].stage /\ batch'[q].events = bs[q].events
        BY <1>1, <1>2, <2>1, <2>3, StaleOK
    <2>5. ASSUME NEW w \in Workers, w # p PROVE WorkerOK(visible', worker[w], batch'[w])
        <3>1. batch'[w].stage = batch[w].stage /\ batch'[w].events = batch[w].events
            BY <1>2, <2>2, <2>4, <2>5
        <3> QED  BY <1>1, <1>2, <1>6, <3>1, WorkerStays
    <2>6. p \in Workers => WorkerOK(visible', WorkerAfter(p, TRUE), batch'[p])
        <3>1. batch'[p].stage = "none"
            BY <2>2, <2>4, NoBatchOK
        <3> QED  BY <1>1, <1>2, <1>4, <3>1, WorkerAfterOK
    <2>7. WorkersOK'
        <3>1. CASE p \in Workers
            <4>1. worker' = [w \in Workers |-> worker'[w]] /\ worker'[p] = WorkerAfter(p, TRUE)
                  /\ \A w \in Workers : w # p => worker'[w] = worker[w]
                BY <1>6, <2>1, <3>1
            <4>2. \A w \in Workers : WorkerOK(visible', worker'[w], batch'[w])
                BY <2>5, <2>6, <3>1, <4>1
            <4> QED  BY <4>1, <4>2 DEF WorkersOK
        <3>2. CASE p \notin Workers
            <4>1. worker' = worker /\ \A w \in Workers : w # p
                BY <2>1, <3>2
            <4> QED  BY <1>6, <2>5, <4>1 DEF WorkersOK
        <3> QED  BY <3>1, <3>2
    <2>8. RestOK'
        <3>1. /\ dispatcher' = [pc |-> dispatcher'.pc, rows |-> dispatcher'.rows]
              /\ dispatcher'.pc \in {"idle", "request", "enqueue", "acknowledge"}
              /\ dispatcher'.rows \subseteq Dispatches
            <4>1. dispatcher' = DispatcherAfter(TRUE) \/ dispatcher' = dispatcher
                BY <2>1
            <4> QED  BY <4>1, DispatcherAfterOK DEF LoopInv
        <3> QED  BY <1>4, <1>5, <2>1, <3>1 DEF LoopInv, RestOK
    <2> QED  BY <1>1, <2>4, <2>7, <2>8 DEF LoopInv
<1>8. CASE ~answered
    <2> DEFINE old == batch[p]
               b == [old EXCEPT !.stage = "appended"]
               bs == [batch EXCEPT ![p] = b]
    <2>1. batch' = Stale(bs) /\ Fault /\ dispatcher' = dispatcher /\ worker' = worker
        BY <1>8 DEF Publish
    <2>2. bs[p] = b /\ \A q \in Producers : q # p => bs[q] = batch[q]
        BY <1>3
    <2>3. ProducerOK(visible, b) /\ b.stage = "appended" /\ b.events = old.events
        <3>1. ProducerOK(visible, old)
            BY <1>3
        <3> HIDE DEF old
        <3>2. old = [stage |-> old.stage, events |-> old.events, base |-> old.base, fresh |-> old.fresh]
              /\ old.base \in Rows /\ old.fresh \in BOOLEAN /\ (old.fresh => old.base = visible)
            BY <3>1 DEF ProducerOK
        <3>3. ASSUME NEW c, c = b
              PROVE  c = [stage |-> "appended", events |-> old.events, base |-> old.base,
                          fresh |-> old.fresh]
            BY <3>2, <3>3
        <3> HIDE DEF b
        <3>4. b = [stage |-> "appended", events |-> old.events, base |-> old.base,
                   fresh |-> old.fresh]
            BY <3>3
        <3>5. b.stage = "appended" /\ b.base = old.base /\ b.fresh = old.fresh
              /\ b = [stage |-> b.stage, events |-> old.events, base |-> b.base, fresh |-> b.fresh]
            BY <3>4
        <3> QED  BY <3>1, <3>2, <3>5, StageChanged
    <2> HIDE DEF bs, b
    <2>4. \A q \in Producers : ProducerOK(visible, bs[q])
        BY <1>3, <2>2, <2>3
    <2>5. /\ BatchesOK'
          /\ \A q \in Producers : batch'[q].stage = bs[q].stage /\ batch'[q].events = bs[q].events
        BY <1>1, <1>2, <2>1, <2>4, StaleOK
    <2>6. ASSUME NEW w \in Workers PROVE WorkerOK(visible', worker[w], batch'[w])
        <3>1. batch'[w].events = batch[w].events
              /\ (batch'[w].stage = "none" <=> batch[w].stage = "none")
            BY <1>2, <1>4, <2>2, <2>3, <2>5
        <3> QED  BY <1>1, <1>2, <1>6, <3>1, WorkerStays
    <2>7. WorkersOK'
        BY <1>6, <2>1, <2>6 DEF WorkersOK
    <2>8. faults' \in 0 .. MaxFaults
        BY <2>1, FaultOK DEF LoopInv
    <2>9. RestOK'
        BY <1>4, <1>5, <2>1, <2>8 DEF LoopInv, RestOK
    <2> QED  BY <1>1, <2>5, <2>7, <2>9 DEF LoopInv
<1> QED  BY <1>7, <1>8

(***************************************************************************)
(* The theorems.                                                           *)
(***************************************************************************)
(* Every step of the loop keeps the invariant, and what it publishes keeps *)
(* what was published.                                                     *)
LEMMA LoopStep ==
    ASSUME LoopInv, [Next]_vars
    PROVE  LoopInv' /\ (visible' = visible \/ Keeps(~lost', visible, visible'))
<1>1. CASE Trigger
    BY <1>1, TriggerOK DEF Trigger, manifest
<1>2. CASE CancelRun
    BY <1>2, CancelRunOK DEF CancelRun, manifest
<1>3. CASE DispatcherRun
    BY <1>3, DispatcherRunOK DEF DispatcherRun, manifest
<1>4. CASE DispatcherEnqueue
    BY <1>4, DispatcherEnqueueOK DEF DispatcherEnqueue, manifest
<1>5. ASSUME NEW t \in Tasks, RequestRetry(t)
      PROVE  LoopInv' /\ visible' = visible
    BY <1>5, RequestRetryOK DEF RequestRetry, manifest
<1>6. ASSUME NEW late \in SUBSET Tasks, Sweep(late)
      PROVE  LoopInv' /\ visible' = visible
    BY <1>6, SweepOK DEF Sweep, manifest
<1>7. ASSUME NEW w \in Workers, NEW d \in cloud, NEW again \in BOOLEAN, Deliver(w, d, again)
      PROVE  LoopInv' /\ visible' = visible
    BY <1>7, DeliverOK DEF Deliver, manifest
<1>8. ASSUME NEW w \in Workers, Restart(w)
      PROVE  LoopInv' /\ visible' = visible
    BY <1>8, RestartOK DEF Restart, manifest
<1>9. ASSUME NEW w \in Workers, WorkerCrash(w)
      PROVE  LoopInv' /\ visible' = visible
    BY <1>9, WorkerCrashOK DEF WorkerCrash, manifest
<1>10. ASSUME NEW w \in Workers, NEW outcome \in Outcomes, HandleTaskCompleted(w, outcome)
       PROVE  LoopInv' /\ visible' = visible
    BY <1>10, CompletedOK DEF HandleTaskCompleted, manifest
<1>11. ASSUME NEW p \in Producers, Load(p)
       PROVE  LoopInv' /\ visible' = visible
    <2>1. LoopInv'
        BY <1>11, LoadOK
    <2>2. visible' = visible
        BY <1>11 DEF Load, manifest
    <2> QED  BY <2>1, <2>2
<1>12. ASSUME NEW p \in Producers, NEW retried \in BOOLEAN, Conflict(p, retried)
       PROVE  LoopInv' /\ visible' = visible
    <2>1. LoopInv'
        BY <1>12, ConflictOK
    <2>2. visible' = visible
        BY <1>12 DEF Conflict, manifest
    <2> QED  BY <2>1, <2>2
<1>13. ASSUME NEW p \in Producers, Abandon(p)
       PROVE  LoopInv' /\ visible' = visible
    BY <1>13, AbandonOK DEF Abandon, manifest
<1>14. ASSUME NEW p \in Producers, NEW toBase \in BOOLEAN, NEW answered \in BOOLEAN,
              Publish(p, toBase, answered)
       PROVE  LoopInv' /\ Keeps(~lost', visible, visible')
    BY <1>14, PublishOK, PublishedRows
<1>15. CASE UNCHANGED vars
    <2>1. visible' = visible /\ l0' = l0 /\ recent' = recent /\ lost' = lost
          /\ batch' = batch /\ dispatcher' = dispatcher
          /\ worker' = worker /\ cloud' = cloud /\ named' = named /\ asked' = asked
          /\ lastId' = lastId /\ faults' = faults
        BY <1>15 DEF vars
    <2>2. BatchesOK' /\ WorkersOK' /\ RestOK'
        BY <2>1 DEF LoopInv, BatchesOK, WorkersOK, RestOK
    <2> QED  BY <2>1, <2>2 DEF LoopInv
<1>16. CASE Lapse
    BY <1>16, LapseOK DEF Lapse
<1>17. ASSUME NEW h \in Beats, NEW w \in Workers, HandleHeartbeat(h, w)
       PROVE  LoopInv' /\ visible' = visible
    BY <1>17, HeartbeatOK DEF HandleHeartbeat, manifest
<1> QED  BY <1>1, <1>2, <1>3, <1>4, <1>5, <1>6, <1>7, <1>8, <1>9, <1>10, <1>11, <1>12, <1>13,
            <1>14, <1>15, <1>16, <1>17 DEF Next

(* The invariant of the loop: the projection is Good, every batch under    *)
(* way may be folded over it whenever its compaction gets through, and a   *)
(* worker that runs a task has had its start recorded.                     *)
THEOREM LoopHolds ==
    Spec => []LoopInv
<1>1. Init => LoopInv
    BY LoopInit
<1>2. LoopInv /\ [Next]_vars => LoopInv'
    BY LoopStep
<1> QED  BY <1>1, <1>2, PTL DEF Spec

(* Every variable of the loop keeps its type: the projection is one the    *)
(* compactor can write as Parquet rows, with attempts the plan allows.     *)
THEOREM OrchestrationTypes ==
    Spec => []TypeOK
<1>1. LoopInv => TypeOK
    <2> SUFFICES ASSUME LoopInv PROVE TypeOK
        OBVIOUS
    <2>1. visible \in Rows
        BY DEF LoopInv, Good, Core
    <2>2. \A p \in Producers : /\ batch[p].stage \in {"none", "appended", "loaded"}
                               /\ batch[p].base \in Rows /\ batch[p].fresh \in BOOLEAN
        BY DEF LoopInv, BatchesOK, ProducerOK
    <2>3. \A w \in Workers : worker[w].pc \in {"idle", "start", "starting", "run", "finishing"}
        BY DEF LoopInv, WorkersOK, WorkerOK
    <2>4. cloud \cup named \cup dispatcher.rows \subseteq Tasks \X Attempts
        BY DEF LoopInv, RestOK, Dispatches
    <2> QED  BY <2>1, <2>2, <2>3, <2>4 DEF TypeOK, LoopInv, RestOK
<1> QED  BY <1>1, LoopHolds, PTL

(* As long as no merge has dropped a row, the counters of a run agree with *)
(* its task rows and the run is closed exactly when every task is          *)
(* terminal, for any plan, any interleaving of completions, repairs,       *)
(* cancellations and repeated compactions, and any order of event ids.     *)
THEOREM CountersAreRight ==
    Spec => []CountersMatch
<1>1. LoopInv => CountersMatch
    <2> SUFFICES ASSUME LoopInv, ~lost, visible.run.state # "Absent"
                 PROVE  /\ \A k \in Kinds : visible.run.count[k] = Cardinality(InState(visible, k))
                        /\ IsTerminal(visible.run.state) <=> Planned(visible) # {} /\
                                \A t \in Tasks : IsTerminal(visible.task[t].state)
        BY DEF CountersMatch, CountersAgree
    <2>1. CountsOK(visible) /\ PlanOK(visible)
        BY DEF LoopInv, Good, Core
    <2>2. Planned(visible) # {}
        BY <2>1, FoldAssumption DEF PlanOK, Planned
    <2>3. Done(visible) = Tasks <=> \A t \in Tasks : IsTerminal(visible.task[t].state)
        BY DEF Done
    <2> QED  BY <2>1, <2>2, <2>3 DEF CountsOK
<1> QED  BY <1>1, LoopHolds, PTL

(* As long as no merge has dropped a row, a task is active or has          *)
(* succeeded only if everything it depends on has succeeded, in any        *)
(* dependency graph and whatever order the events are folded in.           *)
THEOREM DependenciesHold ==
    Spec => []DependencySafe
<1>1. LoopInv => DependencySafe
    BY DEF LoopInv, Good, Core, DepsOK, DependencySafe
<1> QED  BY <1>1, LoopHolds, PTL

(* A terminal task or run is never changed by an event that was generated  *)
(* before it ended and is folded afterwards, nor by a merge that drops the *)
(* rows of another batch.                                                  *)
THEOREM TerminalRowsStay ==
    Spec => TerminalStays
<1>1. LoopInv /\ [Next]_vars =>
        [/\ \A t \in Tasks : IsTerminal(visible.task[t].state) =>
              visible'.task[t].state = visible.task[t].state
         /\ IsTerminal(visible.run.state) => visible'.run.state = visible.run.state]_vars
    BY LoopStep DEF Keeps
<1> QED  BY <1>1, LoopHolds, PTL DEF Spec, TerminalStays

(* An attempt that failed and waits for its retry is not decided again by  *)
(* the late answer of a worker: only a later attempt or a cancellation     *)
(* ends the wait, or a failed upstream once a merge has dropped a row.     *)
THEOREM AttemptsDecidedOnce ==
    Spec => AttemptDecidedOnce
<1>1. LoopInv /\ [Next]_vars =>
        [\A t \in Tasks : visible.task[t].state = "RetryWait" =>
            \/ visible'.task[t].state \in {"RetryWait", "Cancelled"}
            \/ visible'.task[t].attempt > visible.task[t].attempt
            \/ lost' /\ visible'.task[t].state = "Skipped"]_vars
    BY LoopStep DEF Keeps
<1> QED  BY <1>1, LoopHolds, PTL DEF Spec, AttemptDecidedOnce

(* No compaction takes back a recorded event that another one has          *)
(* published, nor a satisfied edge unless a merge has dropped a row.       *)
THEOREM PublicationsStay ==
    Spec => PublishedStays
<1>1. LoopInv /\ [Next]_vars =>
        [/\ visible.keys \subseteq visible'.keys
         /\ ~lost' => visible.edges \subseteq visible'.edges]_vars
    BY LoopStep DEF Keeps
<1> QED  BY <1>1, LoopHolds, PTL DEF Spec, PublishedStays
==============================================================================
