--------------------------- MODULE AutomationProofs ---------------------------
(***************************************************************************)
(* Proofs about Automation for any scenes, any number of calls at once and *)
(* any limits.                                                             *)
(*                                                                         *)
(* Good says what a published projection looks like and Batch what the     *)
(* events of one call look like, as a set: the order in which they are     *)
(* folded does not matter.  Within(b, E, D, p) says what p looks like when *)
(* the events D of a batch E have been folded over b; every event keeps    *)
(* it, and a whole batch leads to Good again.  LoopInv says that every     *)
(* batch under way still is a Batch for the projection that is published.  *)
(***************************************************************************)
EXTENDS Automation, NumberSetLemmas, FiniteSetTheorems, TLAPS

Sels == Selections \cup {"item", "chunk"}

(***************************************************************************)
(* The published projection, when n firings and m items have been.         *)
(***************************************************************************)
Record(p) ==
    [def |-> p.def, last |-> p.last, tick |-> p.tick, sensor |-> p.sensor,
     evals |-> p.evals, backfill |-> p.backfill, chunk |-> p.chunk, index |-> p.index,
     conflicts |-> p.conflicts, run |-> p.run, keys |-> p.keys]

Shape(p) ==
    /\ p = Record(p)
    /\ p.backfill = [state |-> p.backfill.state, version |-> p.backfill.version,
                     planned |-> p.backfill.planned, rv |-> p.backfill.rv]
    /\ p.tick = [t \in Times |-> p.tick[t]]
    /\ p.chunk = [c \in ChunkIndexes |-> p.chunk[c]]
    /\ p.index = [k \in RunKeys |-> p.index[k]]
    /\ p.run = [k \in RunKeys |-> p.run[k]]

(* Single values have their types.                                         *)
ValuesOK(p, n, m) ==
    /\ p.def.enabled \in BOOLEAN /\ p.def.sel \in Selections
    /\ p.last.at \in 0 .. n
    /\ p.sensor.cursor \in 0 .. m /\ p.sensor.version \in Nat
    /\ p.backfill.state \in BackfillStates /\ p.backfill.version \in Nat
    /\ \A v \in p.evals : v.id \in Nat

(* A tick has its key, one that triggered has its request, and a request   *)
(* of a firing comes with its tick.                                        *)
TickOK(p) ==
    \A t \in Times :
        /\ p.tick[t].status \in {"none", "skipped", "triggered"}
        /\ p.tick[t] # NoTick <=> <<"tick", t>> \in p.keys
        /\ p.tick[t].status = "triggered" =>
                p.tick[t].sel \in Selections /\ p.index[<<"sched", t>>].sel = p.tick[t].sel
        /\ p.index[<<"sched", t>>] # NoRequest => p.tick[t] # NoTick

(* A firing that has no tick may be passed over at moment a.               *)
Covered(p, t, a) ==
    \/ p.tick[t] # NoTick
    \/ t <= a - Window
    \/ t - 1 \in Cron /\ p.tick[t - 1] # NoTick

(* The last firing has its tick, and what is before a tick was covered     *)
(* when the tick was made.                                                 *)
SkipOK(p, n) ==
    /\ p.last.at # 0 => p.last.at \in Cron /\ p.last.at \in Times /\ p.tick[p.last.at] # NoTick
    /\ \A u \in Cron \cap Times : p.tick[u] # NoTick =>
        /\ p.tick[u].at \in 0 .. n
        /\ \A t \in Cron : t < u => Covered(p, t, p.tick[u].at)

(* A request whose key is recorded and one that has a run are there.       *)
IndexOK(p) ==
    \A k \in RunKeys : /\ \A s \in Sels : <<"runreq", k, s>> \in p.keys => p.index[k] # NoRequest
                       /\ p.run[k] # "none" => p.index[k] # NoRequest

CursorOK(p) == \A i \in 1 .. p.sensor.cursor : p.index[<<"item", i>>] # NoRequest

(* The chunks planned are the first ones, have their requests, and are no  *)
(* more than may run at once.                                              *)
ChunkOK(p) ==
    /\ \A c \in ChunkIndexes :
        /\ p.chunk[c].state \in {"none", "Planned"}
        /\ p.chunk[c].state # "none" <=> <<"chunk", c>> \in p.keys
        /\ p.chunk[c].state # "none" => /\ c < MaxConcurrent
                                        /\ p.index[<<"chunk", c>>] # NoRequest
                                        /\ \A d \in 0 .. c - 1 : p.chunk[d].state # "none"
    /\ p.backfill.planned \in 0 .. MaxChunks
    /\ \A c \in 0 .. p.backfill.planned - 1 : p.chunk[c].state # "none"

Good(p, n, m) ==
    /\ Shape(p) /\ ValuesOK(p, n, m)
    /\ TickOK(p) /\ SkipOK(p, n) /\ IndexOK(p) /\ CursorOK(p) /\ ChunkOK(p)

(* What a projection keeps of an earlier one.                              *)
Later(v, p) ==
    /\ \A t \in Times : v.tick[t] # NoTick => p.tick[t] # NoTick
    /\ \A c \in ChunkIndexes : v.chunk[c].state # "none" => p.chunk[c].state # "none"
    /\ \A k \in RunKeys : v.index[k] # NoRequest => p.index[k] # NoRequest
    /\ v.sensor.version <= p.sensor.version
    /\ v.sensor.version = p.sensor.version => v.sensor.cursor = p.sensor.cursor

(***************************************************************************)
(* The events of one call.                                                 *)
(***************************************************************************)
Of(E, type) == {e \in E : e.type = type}
Asks(E, key, eval) == \E f \in Of(E, "requested") : f.key = key /\ f.eval = eval

(* A tick comes with the request of its run.                               *)
TickBatch(p, n, E) ==
    \A e \in Of(E, "ticked") :
        /\ e.t \in Times /\ e.t <= n /\ e.status \in {"skipped", "triggered"}
        /\ e.status = "triggered" => e.sel \in Selections /\ Asks(E, <<"sched", e.t>>, None)
        /\ \A f \in Of(E, "requested") : f.key = <<"sched", e.t>> => f.sel = e.sel

(* It is made at moment e.at, for a firing whose predecessors are covered  *)
(* or come with it.                                                        *)
SkipBatch(p, n, E) ==
    \A e \in Of(E, "ticked") :
        /\ e.t \in Cron /\ e.at \in 0 .. n
        /\ \A t \in Cron : t < e.t =>
                Covered(p, t, e.at) \/ \E f \in Of(E, "ticked") : f.t = t

RequestBatch(E) ==
    \A e \in Of(E, "requested") :
        /\ e.key \in RunKeys /\ e.sel \in Sels /\ e.eval \in Nat \cup {None}
        /\ \A t \in Times : e.key = <<"sched", t>> => \E f \in Of(E, "ticked") : f.t = t

(* There is one evaluation, nobody else's, and it comes with the requests  *)
(* of all items it passes; if the sensor has not moved since it was read,  *)
(* it starts at the cursor.                                                *)
SensorBatch(p, m, E) ==
    \A e \in Of(E, "evaluated") :
        /\ e.from \in Nat /\ e.to \in e.from .. m /\ e.expected \in Nat /\ e.eval \in Nat
        /\ e.expected <= p.sensor.version
        /\ e.expected = p.sensor.version => e.from = p.sensor.cursor
        /\ \A i \in e.from + 1 .. e.to : Asks(E, <<"item", i>>, e.eval)
        /\ \A v \in p.evals : v.id # e.eval
        /\ \A f \in Of(E, "evaluated") :
            /\ f.from = e.from /\ f.to = e.to /\ f.expected = e.expected
            /\ f.eval = e.eval /\ f.epoch = e.epoch

(* A chunk comes with its request, after the chunks before it.             *)
ChunkBatch(p, E) ==
    \A e \in Of(E, "chunk") :
        /\ e.c \in ChunkIndexes /\ e.c < MaxConcurrent
        /\ Asks(E, <<"chunk", e.c>>, None)
        /\ \A d \in 0 .. e.c - 1 : p.chunk[d].state # "none" \/ \E f \in Of(E, "chunk") : f.c = d

OtherBatch(p, E) ==
    /\ \A e \in E : e.type \in EventTypes
    /\ \A e \in Of(E, "run") : e.key \in RunKeys /\ p.index[e.key] # NoRequest
    /\ \A e \in Of(E, "changed") : \A f \in Of(E, "changed") : f.version = e.version
    /\ \A e \in Of(E, "upserted") : e.enabled \in BOOLEAN /\ e.sel \in Selections

Batch(p, n, m, E) ==
    /\ TickBatch(p, n, E) /\ SkipBatch(p, n, E) /\ RequestBatch(E) /\ SensorBatch(p, m, E)
    /\ ChunkBatch(p, E) /\ OtherBatch(p, E)

(***************************************************************************)
(* The invariant.                                                          *)
(***************************************************************************)
(* The evaluations among a call's events.                                  *)
Polls(c) == {e.eval : e \in Of(Range(c.events), "evaluated")}

(* A call that has read works from an earlier projection; one that has     *)
(* made its events has a batch for the published projection p.  There have *)
(* been n firings, m items and the event ids up to id.                     *)
LoadedOK(c, p, n, m, id) ==
    /\ c.op \in {"reconcile", "schedule", "backfill"} /\ c.events = <<>>
    /\ c.at \in 0 .. n /\ c.epoch \in Nat
    /\ Good(c.view, c.at, m) /\ Later(c.view, p)
    /\ \A v \in c.view.evals : v.id < id

CreatedOK(c, p, n, m, id) ==
    /\ Len(c.events) \in Nat /\ DOMAIN c.events = 1 .. Len(c.events)
    /\ \A i \in 1 .. Len(c.events) : c.events[i].id \in 1 .. id
    /\ Batch(p, n, m, Range(c.events))
    /\ \A x \in Polls(c) : x < id

CallOK(c, p, n, m, id) ==
    \/ c.pc = "idle" /\ c.events = <<>>
    \/ c.pc = "loaded" /\ LoadedOK(c, p, n, m, id)
    \/ c.pc = "created" /\ CreatedOK(c, p, n, m, id)

CallInv == \A a \in Actors : CallOK(call[a], proj, now, items, lastId)

(* No two evaluations have one id.                                         *)
EvalInv ==
    /\ \A v \in proj.evals : v.id < lastId
    /\ \A a, b \in Actors : a # b => Polls(call[a]) \cap Polls(call[b]) = {}

LoopInv ==
    /\ scene \in Scenes /\ now \in 0 .. scene.times /\ items \in 0 .. scene.items
    /\ lastId \in Nat /\ epoch \in Nat /\ DOMAIN call = Actors
    /\ Good(proj, now, items) /\ CallInv /\ EvalInv

(***************************************************************************)
(* A batch in the middle of being folded: the events D of E have been      *)
(* folded over b.                                                          *)
(***************************************************************************)
RowOf(b, e) == [id |-> e.eval, from |-> e.from, to |-> e.to, stale |-> b.sensor.version # e.expected]
RowsOf(b, E) == b.evals \cup {RowOf(b, e) : e \in Of(E, "evaluated")}

TickWithin(b, E, D, p) ==
    /\ \A t \in Times :
        /\ \/ p.tick[t] = b.tick[t]
           \/ /\ b.tick[t] = NoTick
              /\ \E e \in Of(E, "ticked") :
                    e.t = t /\ p.tick[t] = [status |-> e.status, sel |-> e.sel, at |-> e.at, rv |-> e.id]
        /\ p.tick[t] # NoTick <=> <<"tick", t>> \in p.keys
    /\ \A e \in Of(D, "ticked") : p.tick[e.t] # NoTick
    /\ p.last.at = b.last.at \/ \E e \in Of(E, "ticked") : p.last.at = e.t

IndexWithin(b, E, D, p) ==
    /\ \A k \in RunKeys :
        /\ \/ p.index[k] = b.index[k]
           \/ /\ b.index[k] = NoRequest
              /\ \E e \in Of(E, "requested") :
                    e.key = k /\ p.index[k] = [sel |-> e.sel, eval |-> e.eval]
        /\ \A s \in Sels : <<"runreq", k, s>> \in p.keys => p.index[k] # NoRequest
    /\ \A e \in Of(D, "requested") :
        p.index[e.key] # NoRequest \/ \E v \in RowsOf(b, E) : v.id = e.eval /\ v.stale

SensorWithin(b, E, p) ==
    /\ b.evals \subseteq p.evals /\ p.evals \subseteq RowsOf(b, E)
    /\ \/ p.sensor = b.sensor
       \/ \E e \in Of(E, "evaluated") :
            /\ Key(e) \in p.keys /\ RowOf(b, e) \in p.evals
            /\ e.expected = b.sensor.version
            /\ p.sensor.cursor = e.to /\ p.sensor.version = b.sensor.version + 1

ChunkWithin(b, E, D, p) ==
    /\ \A c \in ChunkIndexes :
        /\ \/ p.chunk[c] = b.chunk[c]
           \/ p.chunk[c].state = "Planned" /\ \E e \in Of(E, "chunk") : e.c = c
        /\ p.chunk[c].state # "none" <=> <<"chunk", c>> \in p.keys
    /\ \A e \in Of(D, "chunk") : p.chunk[e.c].state # "none"
    /\ p.backfill.planned \in 0 .. MaxChunks
    /\ \A c \in 0 .. p.backfill.planned - 1 : p.chunk[c].state # "none"

StateWithin(b, E, p) ==
    \/ p.backfill.state = b.backfill.state /\ p.backfill.version = b.backfill.version
    \/ \E e \in Of(E, "changed") :
        /\ IsValidTransition(b.backfill.state, e.to) /\ e.version = b.backfill.version + 1
        /\ p.backfill.state = e.to /\ p.backfill.version = e.version

RunWithin(b, E, p) ==
    \A k \in RunKeys : p.run[k] = b.run[k] \/ \E e \in Of(E, "run") : e.key = k

DefinitionWithin(p) == p.def.enabled \in BOOLEAN /\ p.def.sel \in Selections

Within(b, E, D, p) ==
    /\ Shape(p) /\ DefinitionWithin(p)
    /\ TickWithin(b, E, D, p) /\ IndexWithin(b, E, D, p) /\ SensorWithin(b, E, p)
    /\ ChunkWithin(b, E, D, p) /\ StateWithin(b, E, p) /\ RunWithin(b, E, p)

(***************************************************************************)
(* The fields a fold changes.                                              *)
(***************************************************************************)
(* An event that applies has its key recorded.                             *)
LEMMA KeyAdded ==
    ASSUME NEW p, NEW e, NEW x, x = Record(x), Handle(p, e) = Applied(x), Key(e) \notin p.keys,
           NEW q, q = FoldEvent(p, e)
    PROVE  q = [def |-> x.def, last |-> x.last, tick |-> x.tick, sensor |-> x.sensor,
                evals |-> x.evals, backfill |-> x.backfill, chunk |-> x.chunk, index |-> x.index,
                conflicts |-> x.conflicts, run |-> x.run, keys |-> x.keys \cup {Key(e)}]
<1>1. Handle(p, e).applied = TRUE /\ Handle(p, e).p = x
    BY DEF Applied
<1>2. q = [x EXCEPT !.keys = x.keys \cup {Key(e)}]
    BY <1>1 DEF FoldEvent
<1> QED  BY <1>2 DEF Record

LEMMA TickedFields ==
    ASSUME NEW p, Shape(p), NEW e, e.type = "ticked", e.t \in Times,
           NEW q, q = FoldEvent(p, e), <<"tick", e.t>> \notin p.keys, p.tick[e.t] = NoTick
    PROVE  /\ Shape(q)
           /\ q.def = p.def /\ q.sensor = p.sensor /\ q.evals = p.evals /\ q.backfill = p.backfill
           /\ q.chunk = p.chunk /\ q.index = p.index /\ q.run = p.run
           /\ q.keys = p.keys \cup {<<"tick", e.t>>}
           /\ q.last = p.last \/ q.last.at = e.t
           /\ q.tick = [p.tick EXCEPT ![e.t] = [status |-> e.status, sel |-> e.sel, at |-> e.at, rv |-> e.id]]
<1> DEFINE row == [status |-> e.status, sel |-> e.sel, at |-> e.at, rv |-> e.id]
           last == IF e.id > p.last.rv THEN [at |-> e.t, rv |-> e.id] ELSE p.last
           x == [p EXCEPT !.last = last, !.tick[e.t] = row]
<1>0. p = Record(p)
    BY DEF Shape
<1>1. Key(e) = <<"tick", e.t>>
    BY DEF Key
<1>2. Handle(p, e) = FoldTicked(p, e)
    BY DEF Handle
<1>3. FoldTicked(p, e) = Applied(x)
    BY <1>0 DEF FoldTicked, Applied, Record
<1> HIDE DEF last, row
<1>4. ASSUME NEW y, y = x
      PROVE  y = [def |-> p.def, last |-> last, tick |-> [p.tick EXCEPT ![e.t] = row], sensor |-> p.sensor,
                  evals |-> p.evals, backfill |-> p.backfill, chunk |-> p.chunk, index |-> p.index,
                  conflicts |-> p.conflicts, run |-> p.run, keys |-> p.keys]
    BY <1>0, <1>4 DEF Record
<1> HIDE DEF x
<1>5. x = Record(x)
    BY <1>4 DEF Record
<1>6. q = [def |-> p.def, last |-> last, tick |-> [p.tick EXCEPT ![e.t] = row], sensor |-> p.sensor,
            evals |-> p.evals, backfill |-> p.backfill, chunk |-> p.chunk, index |-> p.index,
            conflicts |-> p.conflicts, run |-> p.run, keys |-> p.keys \cup {<<"tick", e.t>>}]
    BY <1>1, <1>2, <1>3, <1>4, <1>5, KeyAdded
<1>7. q = Record(q) /\ q.tick = [p.tick EXCEPT ![e.t] = row]
    BY <1>6 DEF Record
<1>8. last = p.last \/ last.at = e.t
    BY DEF last
<1> QED  BY <1>6, <1>7, <1>8 DEF Shape, row

LEMMA Dropped ==
    ASSUME NEW p, NEW e, Key(e) \in p.keys \/ Handle(p, e) = Ignored(p)
    PROVE  FoldEvent(p, e) = p
BY DEF FoldEvent, Ignored

LEMMA EvaluatedFields ==
    ASSUME NEW p, Shape(p), NEW e, e.type = "evaluated", NEW q, q = FoldEvent(p, e), Key(e) \notin p.keys
    PROVE  /\ Shape(q)
           /\ q.def = p.def /\ q.last = p.last /\ q.tick = p.tick /\ q.backfill = p.backfill
           /\ q.chunk = p.chunk /\ q.index = p.index /\ q.run = p.run
           /\ q.keys = p.keys \cup {Key(e)}
           /\ q.evals = p.evals \cup {RowOf(p, e)}
           /\ \/ q.sensor = p.sensor
              \/ /\ p.sensor.version = e.expected
                 /\ q.sensor.cursor = e.to /\ q.sensor.version = p.sensor.version + 1
<1> DEFINE moved == [cursor |-> e.to, version |-> p.sensor.version + 1, rv |-> e.id]
           still == p.sensor.version # e.expected \/ e.id <= p.sensor.rv
           sensor == IF still THEN p.sensor ELSE moved
           evals == p.evals \cup {RowOf(p, e)}
           seen == [p EXCEPT !.evals = evals]
           x == IF still THEN seen ELSE [seen EXCEPT !.sensor = moved]
<1>0. p = Record(p)
    BY DEF Shape
<1>1. Handle(p, e) = FoldEvaluated(p, e)
    BY DEF Handle
<1>2. FoldEvaluated(p, e) = Applied(x)
    <2>1. seen.sensor = p.sensor
        BY <1>0 DEF Record
    <2> HIDE DEF seen
    <2>2. [seen EXCEPT !.sensor = [cursor |-> e.to, version |-> @.version + 1, rv |-> e.id]]
          = [seen EXCEPT !.sensor = moved]
        BY <2>1
    <2> QED  BY <2>2 DEF FoldEvaluated, RowOf, seen
<1> HIDE DEF moved, still, evals
<1>3. ASSUME NEW y, y = x
      PROVE  y = [def |-> p.def, last |-> p.last, tick |-> p.tick, sensor |-> sensor,
                  evals |-> evals, backfill |-> p.backfill, chunk |-> p.chunk, index |-> p.index,
                  conflicts |-> p.conflicts, run |-> p.run, keys |-> p.keys]
    <2>1. CASE still
        BY <1>0, <1>3, <2>1 DEF Record
    <2>2. CASE ~still
        BY <1>0, <1>3, <2>2 DEF Record
    <2> QED  BY <2>1, <2>2
<1> HIDE DEF x
<1>5. x = Record(x)
    BY <1>3 DEF Record
<1>6. q = [def |-> p.def, last |-> p.last, tick |-> p.tick, sensor |-> sensor,
           evals |-> evals, backfill |-> p.backfill, chunk |-> p.chunk, index |-> p.index,
           conflicts |-> p.conflicts, run |-> p.run, keys |-> p.keys \cup {Key(e)}]
    BY <1>1, <1>2, <1>3, <1>5, KeyAdded
<1>7. q = Record(q)
    BY <1>6 DEF Record
<1>8. \/ sensor = p.sensor
      \/ p.sensor.version = e.expected /\ sensor.cursor = e.to /\ sensor.version = p.sensor.version + 1
    BY DEF still, moved
<1> HIDE DEF sensor
<1> QED  BY <1>6, <1>7, <1>8 DEF Shape, evals

LEMMA RequestedFields ==
    ASSUME NEW p, Shape(p), NEW e, e.type = "requested", e.key \in RunKeys, ~FromStale(p, e),
           NEW q, q = FoldEvent(p, e), Key(e) \notin p.keys
    PROVE  /\ Shape(q)
           /\ q.def = p.def /\ q.last = p.last /\ q.tick = p.tick /\ q.backfill = p.backfill
           /\ q.chunk = p.chunk /\ q.run = p.run /\ q.sensor = p.sensor /\ q.evals = p.evals
           /\ q.keys = p.keys \cup {<<"runreq", e.key, e.sel>>}
           /\ q.index = IF p.index[e.key] = NoRequest
                        THEN [p.index EXCEPT ![e.key] = [sel |-> e.sel, eval |-> e.eval]]
                        ELSE p.index
<1> DEFINE new == p.index[e.key] = NoRequest
           row == [sel |-> e.sel, eval |-> e.eval]
           index == IF new THEN [p.index EXCEPT ![e.key] = row] ELSE p.index
           fits == p.index[e.key].sel = e.sel
           conflicts == IF new \/ fits THEN p.conflicts ELSE p.conflicts \cup {<<e.key, e.sel>>}
           x == IF new THEN [p EXCEPT !.index[e.key] = row]
                ELSE IF fits THEN p ELSE [p EXCEPT !.conflicts = p.conflicts \cup {<<e.key, e.sel>>}]
<1>0. p = Record(p)
    BY DEF Shape
<1>1. Handle(p, e) = FoldRequested(p, e) /\ Key(e) = <<"runreq", e.key, e.sel>>
    BY DEF Handle, Key
<1>2. FoldRequested(p, e) = Applied(x)
    BY DEF FoldRequested
<1> HIDE DEF new, row, fits
<1>3. ASSUME NEW y, y = x
      PROVE  y = [def |-> p.def, last |-> p.last, tick |-> p.tick, sensor |-> p.sensor,
                  evals |-> p.evals, backfill |-> p.backfill, chunk |-> p.chunk, index |-> index,
                  conflicts |-> conflicts, run |-> p.run, keys |-> p.keys]
    <2>1. CASE new
        BY <1>0, <1>3, <2>1 DEF Record
    <2>2. CASE ~new /\ fits
        BY <1>0, <1>3, <2>2 DEF Record
    <2>3. CASE ~new /\ ~fits
        BY <1>0, <1>3, <2>3 DEF Record
    <2> QED  BY <2>1, <2>2, <2>3
<1> HIDE DEF x
<1>5. x = Record(x)
    BY <1>3 DEF Record
<1>6. q = [def |-> p.def, last |-> p.last, tick |-> p.tick, sensor |-> p.sensor,
           evals |-> p.evals, backfill |-> p.backfill, chunk |-> p.chunk, index |-> index,
           conflicts |-> conflicts, run |-> p.run, keys |-> p.keys \cup {<<"runreq", e.key, e.sel>>}]
    BY <1>1, <1>2, <1>3, <1>5, KeyAdded
<1>7. q = Record(q)
    BY <1>6 DEF Record
<1>8. p.index = [k \in RunKeys |-> p.index[k]]
    BY DEF Shape
<1>9. index = [k \in RunKeys |-> index[k]]
    BY <1>8
<1> HIDE DEF index, conflicts
<1> QED  BY <1>6, <1>7, <1>9 DEF Shape, index, new, row

LEMMA ChunkFields ==
    ASSUME NEW p, Shape(p), NEW e, e.type = "chunk", e.c \in ChunkIndexes, p.chunk[e.c].state = "none",
           NEW q, q = FoldEvent(p, e), Key(e) \notin p.keys
    PROVE  /\ Shape(q)
           /\ q.def = p.def /\ q.last = p.last /\ q.tick = p.tick /\ q.sensor = p.sensor
           /\ q.evals = p.evals /\ q.run = p.run /\ q.index = p.index
           /\ q.keys = p.keys \cup {<<"chunk", e.c>>}
           /\ q.chunk = [p.chunk EXCEPT ![e.c] = [state |-> "Planned", rv |-> e.id]]
           /\ q.backfill.state = p.backfill.state /\ q.backfill.version = p.backfill.version
           /\ q.backfill.planned \in {p.backfill.planned, NextGap(q, p.backfill.planned)}
<1> DEFINE row == [state |-> "Planned", rv |-> e.id]
           chunk == [p.chunk EXCEPT ![e.c] = row]
           added == [p EXCEPT !.chunk[e.c] = row]
           gap == NextGap(added, p.backfill.planned)
           here == gap = p.backfill.planned
           backfill == IF here THEN p.backfill
                       ELSE [state |-> p.backfill.state, version |-> p.backfill.version,
                             planned |-> gap, rv |-> e.id]
           x == IF here THEN added ELSE [added EXCEPT !.backfill.planned = gap, !.backfill.rv = e.id]
<1>0. p = Record(p) /\ p.backfill = [state |-> p.backfill.state, version |-> p.backfill.version,
                                     planned |-> p.backfill.planned, rv |-> p.backfill.rv]
    BY DEF Shape
<1>1. Handle(p, e) = FoldChunkPlanned(p, e) /\ Key(e) = <<"chunk", e.c>>
    BY DEF Handle, Key
<1>2. FoldChunkPlanned(p, e) = Applied(x)
    BY DEF FoldChunkPlanned
<1>3. ASSUME NEW y, y = added
      PROVE  y = [def |-> p.def, last |-> p.last, tick |-> p.tick, sensor |-> p.sensor,
                  evals |-> p.evals, backfill |-> p.backfill, chunk |-> chunk, index |-> p.index,
                  conflicts |-> p.conflicts, run |-> p.run, keys |-> p.keys]
    <2> HIDE DEF row
    <2> QED  BY <1>0, <1>3 DEF Record
<1> HIDE DEF added, gap, here, row
<1>4. ASSUME NEW y, y = x
      PROVE  y = [def |-> p.def, last |-> p.last, tick |-> p.tick, sensor |-> p.sensor,
                  evals |-> p.evals, backfill |-> backfill, chunk |-> chunk, index |-> p.index,
                  conflicts |-> p.conflicts, run |-> p.run, keys |-> p.keys]
    <2>1. CASE here
        BY <1>3, <1>4, <2>1
    <2>2. CASE ~here
        <3>1. y = [added EXCEPT !.backfill.planned = gap, !.backfill.rv = e.id]
            BY <1>4, <2>2
        <3> HIDE DEF chunk
        <3>2. added = [def |-> p.def, last |-> p.last, tick |-> p.tick, sensor |-> p.sensor,
                  evals |-> p.evals, backfill |-> p.backfill, chunk |-> chunk, index |-> p.index,
                  conflicts |-> p.conflicts, run |-> p.run, keys |-> p.keys]
            BY <1>3
        <3>3. ASSUME NEW b, b = [added.backfill EXCEPT !.planned = gap, !.rv = e.id]
              PROVE  b = backfill
            <4>1. added.backfill = p.backfill
                BY <3>2
            <4>2. b = [p.backfill EXCEPT !.planned = gap, !.rv = e.id]
                BY <3>3, <4>1
            <4>3. b = [state |-> p.backfill.state, version |-> p.backfill.version,
                       planned |-> gap, rv |-> e.id]
                BY <1>0, <4>2
            <4> QED  BY <2>2, <4>3
        <3>4. y = [added EXCEPT !.backfill = [added.backfill EXCEPT !.planned = gap, !.rv = e.id]]
            BY <3>1, <3>2
        <3>5. y = [added EXCEPT !.backfill = backfill]
            BY <3>3, <3>4
        <3> HIDE DEF backfill
        <3> QED  BY <3>2, <3>5
    <2> QED  BY <2>1, <2>2
<1> HIDE DEF x
<1>5. x = Record(x)
    BY <1>4 DEF Record
<1>6. q = [def |-> p.def, last |-> p.last, tick |-> p.tick, sensor |-> p.sensor,
           evals |-> p.evals, backfill |-> backfill, chunk |-> chunk, index |-> p.index,
           conflicts |-> p.conflicts, run |-> p.run, keys |-> p.keys \cup {<<"chunk", e.c>>}]
    BY <1>1, <1>2, <1>4, <1>5, KeyAdded
<1>7. q = Record(q) /\ q.chunk = chunk /\ q.backfill = backfill
    BY <1>6 DEF Record
<1>8. gap = NextGap(q, p.backfill.planned)
    <2>1. added.chunk = chunk
        BY <1>3
    <2>2. NextGap(added, p.backfill.planned) = NextGap(q, p.backfill.planned)
        BY <1>7, <2>1 DEF NextGap
    <2> QED  BY <2>2 DEF gap
<1>9. /\ backfill = [state |-> backfill.state, version |-> backfill.version,
                     planned |-> backfill.planned, rv |-> backfill.rv]
      /\ backfill.state = p.backfill.state /\ backfill.version = p.backfill.version
      /\ backfill.planned \in {p.backfill.planned, gap}
    BY <1>0
<1>10. chunk = [c \in ChunkIndexes |-> chunk[c]]
    BY DEF Shape
<1> HIDE DEF backfill, chunk
<1> QED  BY <1>6, <1>7, <1>8, <1>9, <1>10 DEF Shape, chunk, row

LEMMA ChangedFields ==
    ASSUME NEW p, Shape(p), NEW e, e.type = "changed", NEW q, q = FoldEvent(p, e)
    PROVE  \/ q = p
           \/ /\ Shape(q)
              /\ q.def = p.def /\ q.last = p.last /\ q.tick = p.tick /\ q.sensor = p.sensor
              /\ q.evals = p.evals /\ q.run = p.run /\ q.index = p.index /\ q.chunk = p.chunk
              /\ q.keys = p.keys \cup {<<"state", e.version, e.to>>}
              /\ IsValidTransition(p.backfill.state, e.to) /\ e.version = p.backfill.version + 1
              /\ q.backfill.state = e.to /\ q.backfill.version = e.version
              /\ q.backfill.planned = p.backfill.planned
<1> DEFINE refused == \/ e.id <= p.backfill.rv
                      \/ p.backfill.state # e.from
                      \/ ~IsValidTransition(e.from, e.to)
                      \/ e.version # p.backfill.version + 1
           backfill == [state |-> e.to, version |-> e.version, planned |-> p.backfill.planned, rv |-> e.id]
           x == [p EXCEPT !.backfill.state = e.to, !.backfill.version = e.version, !.backfill.rv = e.id]
<1>0. p = Record(p) /\ p.backfill = [state |-> p.backfill.state, version |-> p.backfill.version,
                                     planned |-> p.backfill.planned, rv |-> p.backfill.rv]
    BY DEF Shape
<1>1. Handle(p, e) = FoldStateChanged(p, e) /\ Key(e) = <<"state", e.version, e.to>>
    BY DEF Handle, Key
<1>2. CASE refused \/ Key(e) \in p.keys
    <2>1. refused => FoldStateChanged(p, e) = Ignored(p)
        BY DEF FoldStateChanged
    <2> QED  BY <1>1, <1>2, <2>1, Dropped
<1>3. CASE ~refused /\ Key(e) \notin p.keys
    <2>1. FoldStateChanged(p, e) = Applied(x)
        BY <1>3 DEF FoldStateChanged
    <2>2. ASSUME NEW y, y = x
          PROVE  y = [def |-> p.def, last |-> p.last, tick |-> p.tick, sensor |-> p.sensor,
                      evals |-> p.evals, backfill |-> backfill, chunk |-> p.chunk, index |-> p.index,
                      conflicts |-> p.conflicts, run |-> p.run, keys |-> p.keys]
        <3>1. ASSUME NEW b, b = [p.backfill EXCEPT !.state = e.to, !.version = e.version, !.rv = e.id]
              PROVE  b = backfill
            BY <1>0, <3>1
        <3>2. y = [p EXCEPT !.backfill = [p.backfill EXCEPT !.state = e.to, !.version = e.version, !.rv = e.id]]
            BY <1>0, <2>2 DEF Record
        <3>3. y = [p EXCEPT !.backfill = backfill]
            BY <3>1, <3>2
        <3> HIDE DEF backfill
        <3> QED  BY <1>0, <3>3 DEF Record
    <2> HIDE DEF x
    <2>3. x = Record(x)
        BY <2>2 DEF Record
    <2>4. q = [def |-> p.def, last |-> p.last, tick |-> p.tick, sensor |-> p.sensor,
               evals |-> p.evals, backfill |-> backfill, chunk |-> p.chunk, index |-> p.index,
               conflicts |-> p.conflicts, run |-> p.run, keys |-> p.keys \cup {<<"state", e.version, e.to>>}]
        BY <1>1, <1>3, <2>1, <2>2, <2>3, KeyAdded
    <2>5. q = Record(q) /\ q.backfill = backfill
        BY <2>4 DEF Record
    <2>6. IsValidTransition(p.backfill.state, e.to) /\ e.version = p.backfill.version + 1
        BY <1>3
    <2> QED  BY <2>4, <2>5, <2>6 DEF Shape
<1> QED  BY <1>2, <1>3

LEMMA RunFields ==
    ASSUME NEW p, Shape(p), NEW e, e.type = "run", e.key \in RunKeys, NEW q, q = FoldEvent(p, e)
    PROVE  \/ q = p
           \/ /\ Shape(q)
              /\ q.def = p.def /\ q.last = p.last /\ q.tick = p.tick /\ q.sensor = p.sensor
              /\ q.evals = p.evals /\ q.backfill = p.backfill /\ q.index = p.index /\ q.chunk = p.chunk
              /\ q.keys = p.keys \cup {<<"run", e.key>>}
              /\ q.run = [p.run EXCEPT ![e.key] = "active"]
<1> DEFINE x == [p EXCEPT !.run[e.key] = "active"]
           run == [p.run EXCEPT ![e.key] = "active"]
<1>0. p = Record(p)
    BY DEF Shape
<1>1. Handle(p, e) = FoldRunTriggered(p, e) /\ Key(e) = <<"run", e.key>>
    BY DEF Handle, Key
<1>2. CASE p.run[e.key] # "none" \/ Key(e) \in p.keys
    BY <1>1, <1>2, Dropped DEF FoldRunTriggered
<1>3. CASE p.run[e.key] = "none" /\ Key(e) \notin p.keys
    <2>1. FoldRunTriggered(p, e) = Applied(x)
        BY <1>3 DEF FoldRunTriggered
    <2>2. ASSUME NEW y, y = x
          PROVE  y = [def |-> p.def, last |-> p.last, tick |-> p.tick, sensor |-> p.sensor,
                      evals |-> p.evals, backfill |-> p.backfill, chunk |-> p.chunk, index |-> p.index,
                      conflicts |-> p.conflicts, run |-> run, keys |-> p.keys]
        BY <1>0, <2>2 DEF Record
    <2> HIDE DEF x
    <2>3. x = Record(x)
        BY <2>2 DEF Record
    <2>4. q = [def |-> p.def, last |-> p.last, tick |-> p.tick, sensor |-> p.sensor,
               evals |-> p.evals, backfill |-> p.backfill, chunk |-> p.chunk, index |-> p.index,
               conflicts |-> p.conflicts, run |-> run, keys |-> p.keys \cup {<<"run", e.key>>}]
        BY <1>1, <1>3, <2>1, <2>2, <2>3, KeyAdded
    <2>5. q = Record(q) /\ q.run = run
        BY <2>4 DEF Record
    <2> QED  BY <2>4, <2>5 DEF Shape
<1> QED  BY <1>2, <1>3

LEMMA UpsertedFields ==
    ASSUME NEW p, Shape(p), NEW e, e.type = "upserted", NEW q, q = FoldEvent(p, e)
    PROVE  \/ q = p
           \/ /\ Shape(q)
              /\ q.run = p.run /\ q.last = p.last /\ q.tick = p.tick /\ q.sensor = p.sensor
              /\ q.evals = p.evals /\ q.backfill = p.backfill /\ q.index = p.index /\ q.chunk = p.chunk
              /\ q.keys = p.keys \cup {<<"def", e.id>>}
              /\ q.def.enabled = e.enabled /\ q.def.sel = e.sel
<1> DEFINE def == [enabled |-> e.enabled, sel |-> e.sel, rv |-> e.id]
           x == [p EXCEPT !.def = def]
<1>0. p = Record(p)
    BY DEF Shape
<1>1. Handle(p, e) = FoldDefinitionUpserted(p, e) /\ Key(e) = <<"def", e.id>>
    BY DEF Handle, Key
<1>2. CASE e.id <= p.def.rv \/ Key(e) \in p.keys
    BY <1>1, <1>2, Dropped DEF FoldDefinitionUpserted
<1>3. CASE ~(e.id <= p.def.rv) /\ Key(e) \notin p.keys
    <2>1. FoldDefinitionUpserted(p, e) = Applied(x)
        BY <1>3 DEF FoldDefinitionUpserted
    <2> HIDE DEF def
    <2>2. ASSUME NEW y, y = x
          PROVE  y = [def |-> def, last |-> p.last, tick |-> p.tick, sensor |-> p.sensor,
                      evals |-> p.evals, backfill |-> p.backfill, chunk |-> p.chunk, index |-> p.index,
                      conflicts |-> p.conflicts, run |-> p.run, keys |-> p.keys]
        BY <1>0, <2>2 DEF Record
    <2> HIDE DEF x
    <2>3. x = Record(x)
        BY <2>2 DEF Record
    <2>4. q = [def |-> def, last |-> p.last, tick |-> p.tick, sensor |-> p.sensor,
               evals |-> p.evals, backfill |-> p.backfill, chunk |-> p.chunk, index |-> p.index,
               conflicts |-> p.conflicts, run |-> p.run, keys |-> p.keys \cup {<<"def", e.id>>}]
        BY <1>1, <1>3, <2>1, <2>2, <2>3, KeyAdded
    <2>5. q = Record(q) /\ q.def = def
        BY <2>4 DEF Record
    <2> QED  BY <2>4, <2>5 DEF Shape, def
<1> QED  BY <1>2, <1>3

(***************************************************************************)
(* Every event of a batch keeps Within.                                    *)
(***************************************************************************)
LEMMA Greatest ==
    ASSUME NEW f \in [Scenes -> Nat], NEW S, S = {f[s] : s \in Scenes}
    PROVE  Max(S) \in Nat /\ \A s \in Scenes : f[s] <= Max(S)
<1>1. f \in Surjection(Scenes, S)
    BY DEF Surjection
<1>2. IsFiniteSet(S)
    BY <1>1, FS_Surjection, AutomationAssumption
<1>3. S \in SUBSET Int /\ S # {} /\ S \in SUBSET Nat /\ \A s \in Scenes : f[s] \in S
    BY AutomationAssumption
<1> QED  BY <1>2, <1>3, MaxFacts

LEMMA Bounds ==
    /\ MaxTime \in Nat /\ MaxItems \in Nat /\ MaxChunks \in Nat
    /\ \A s \in Scenes : /\ s.times \in Nat /\ s.items \in Nat /\ s.chunks \in Nat
                         /\ s.times <= MaxTime /\ s.items <= MaxItems /\ s.chunks <= MaxChunks
<1> DEFINE times == [s \in Scenes |-> s.times]
           its == [s \in Scenes |-> s.items]
           chunks == [s \in Scenes |-> s.chunks]
<1>1. \A s \in Scenes : s.times \in Nat /\ s.items \in Nat /\ s.chunks \in Nat
    BY AutomationAssumption
<1>2. times \in [Scenes -> Nat] /\ its \in [Scenes -> Nat] /\ chunks \in [Scenes -> Nat]
    BY <1>1
<1>3. /\ {s.times : s \in Scenes} = {times[s] : s \in Scenes}
      /\ {s.items : s \in Scenes} = {its[s] : s \in Scenes}
      /\ {s.chunks : s \in Scenes} = {chunks[s] : s \in Scenes}
    OBVIOUS
<1>4. MaxTime \in Nat /\ \A s \in Scenes : times[s] <= MaxTime
    BY <1>2, <1>3, Greatest DEF MaxTime
<1>5. MaxItems \in Nat /\ \A s \in Scenes : its[s] <= MaxItems
    BY <1>2, <1>3, Greatest DEF MaxItems
<1>6. MaxChunks \in Nat /\ \A s \in Scenes : chunks[s] <= MaxChunks
    BY <1>2, <1>3, Greatest DEF MaxChunks
<1> QED  BY <1>1, <1>4, <1>5, <1>6

LEMMA Gap ==
    ASSUME NEW p, NEW n \in 0 .. MaxChunks
    PROVE  /\ NextGap(p, n) \in n .. MaxChunks
           /\ \A c \in n .. NextGap(p, n) - 1 : p.chunk[c].state # "none"
           /\ NextGap(p, n) = MaxChunks \/ p.chunk[NextGap(p, n)].state = "none"
<1> DEFINE S == {c \in n .. MaxChunks : c = MaxChunks \/ p.chunk[c].state = "none"}
<1>1. MaxChunks \in Nat
    BY Bounds
<1>2. IsFiniteSet(n .. MaxChunks)
    BY <1>1, FS_Interval
<1>3. IsFiniteSet(S)
    <2>1. S \subseteq n .. MaxChunks
        OBVIOUS
    <2> QED  BY <1>2, <2>1, FS_Subset
<1>4. S \in SUBSET Int /\ MaxChunks \in S
    BY <1>1
<1>5. Min(S) \in S /\ \A y \in S : Min(S) <= y
    <2> HIDE DEF S
    <2> QED  BY <1>3, <1>4, MinFacts
<1>6. NextGap(p, n) = Min(S)
    BY DEF NextGap
<1>7. NextGap(p, n) \in n .. MaxChunks
    BY <1>5, <1>6
<1>8. ASSUME NEW c \in n .. NextGap(p, n) - 1, p.chunk[c].state = "none" PROVE FALSE
    <2>1. c \in n .. MaxChunks /\ c < NextGap(p, n)
        BY <1>1, <1>7
    <2>2. c \in S
        BY <1>8, <2>1
    <2>3. NextGap(p, n) <= c
        BY <1>5, <1>6, <2>2
    <2> QED  BY <1>1, <1>7, <2>1, <2>3
<1>9. NextGap(p, n) = MaxChunks \/ p.chunk[NextGap(p, n)].state = "none"
    BY <1>5, <1>6
<1> QED  BY <1>7, <1>8, <1>9

(* An event that is dropped was dealt with before.                         *)
LEMMA WithinDropped ==
    ASSUME NEW b, NEW E, NEW D, NEW p, Within(b, E, D, p), NEW e,
           e.type = "ticked" => p.tick[e.t] # NoTick,
           e.type = "requested" =>
                p.index[e.key] # NoRequest \/ \E v \in RowsOf(b, E) : v.id = e.eval /\ v.stale,
           e.type = "chunk" => p.chunk[e.c].state # "none"
    PROVE  Within(b, E, D \cup {e}, p)
<1>1. /\ \A f \in Of(D \cup {e}, "ticked") : f \in Of(D, "ticked") \/ (f = e /\ e.type = "ticked")
      /\ \A f \in Of(D \cup {e}, "requested") : f \in Of(D, "requested") \/ (f = e /\ e.type = "requested")
      /\ \A f \in Of(D \cup {e}, "chunk") : f \in Of(D, "chunk") \/ (f = e /\ e.type = "chunk")
    BY DEF Of
<1>2. TickWithin(b, E, D \cup {e}, p)
    BY <1>1 DEF Within, TickWithin
<1>3. IndexWithin(b, E, D \cup {e}, p)
    BY <1>1 DEF Within, IndexWithin
<1>4. ChunkWithin(b, E, D \cup {e}, p)
    BY <1>1 DEF Within, ChunkWithin
<1> QED  BY <1>2, <1>3, <1>4 DEF Within

(* What a part of Within depends on.                                       *)
LEMMA TickFrame ==
    ASSUME NEW b, NEW E, NEW D, NEW p, NEW G, NEW q, TickWithin(b, E, D, p),
           q.tick = p.tick, q.last = p.last, Of(G, "ticked") = Of(D, "ticked"),
           \A t : <<"tick", t>> \in q.keys <=> <<"tick", t>> \in p.keys
    PROVE  TickWithin(b, E, G, q)
BY DEF TickWithin

LEMMA IndexFrame ==
    ASSUME NEW b, NEW E, NEW D, NEW p, NEW G, NEW q, IndexWithin(b, E, D, p),
           q.index = p.index, Of(G, "requested") = Of(D, "requested"),
           \A k, s : <<"runreq", k, s>> \in q.keys <=> <<"runreq", k, s>> \in p.keys
    PROVE  IndexWithin(b, E, G, q)
<1>1. \A k \in RunKeys : q.index[k] = p.index[k]
    OBVIOUS
<1>2. \A f \in Of(G, "requested") :
        q.index[f.key] # NoRequest \/ \E v \in RowsOf(b, E) : v.id = f.eval /\ v.stale
    BY DEF IndexWithin
<1>3. ASSUME NEW k \in RunKeys
      PROVE  /\ \/ q.index[k] = b.index[k]
                \/ /\ b.index[k] = NoRequest
                   /\ \E e \in Of(E, "requested") :
                        e.key = k /\ q.index[k] = [sel |-> e.sel, eval |-> e.eval]
             /\ \A s \in Sels : <<"runreq", k, s>> \in q.keys => q.index[k] # NoRequest
    BY <1>1 DEF IndexWithin
<1> QED  BY <1>2, <1>3 DEF IndexWithin

LEMMA SensorFrame ==
    ASSUME NEW b, NEW E, NEW p, NEW q, SensorWithin(b, E, p),
           q.sensor = p.sensor, q.evals = p.evals, p.keys \subseteq q.keys
    PROVE  SensorWithin(b, E, q)
BY DEF SensorWithin

LEMMA ChunkFrame ==
    ASSUME NEW b, NEW E, NEW D, NEW p, NEW G, NEW q, ChunkWithin(b, E, D, p),
           q.chunk = p.chunk, q.backfill.planned = p.backfill.planned, Of(G, "chunk") = Of(D, "chunk"),
           \A c : <<"chunk", c>> \in q.keys <=> <<"chunk", c>> \in p.keys
    PROVE  ChunkWithin(b, E, G, q)
BY DEF ChunkWithin

LEMMA StateFrame ==
    ASSUME NEW b, NEW E, NEW p, NEW q, StateWithin(b, E, p),
           q.backfill.state = p.backfill.state, q.backfill.version = p.backfill.version
    PROVE  StateWithin(b, E, q)
BY DEF StateWithin

LEMMA RunFrame ==
    ASSUME NEW b, NEW E, NEW p, NEW q, RunWithin(b, E, p), q.run = p.run
    PROVE  RunWithin(b, E, q)
BY DEF RunWithin

LEMMA DefinitionFrame ==
    ASSUME NEW p, NEW q, DefinitionWithin(p), q.def = p.def
    PROVE  DefinitionWithin(q)
BY DEF DefinitionWithin

LEMMA TickedStep ==
    ASSUME NEW b, NEW E, NEW D \in SUBSET E, NEW p, Within(b, E, D, p), NEW n, NEW m, Batch(b, n, m, E),
           NEW e \in E, e.type = "ticked"
    PROVE  Within(b, E, D \cup {e}, FoldEvent(p, e))
<1> DEFINE q == FoldEvent(p, e)
           row == [status |-> e.status, sel |-> e.sel, at |-> e.at, rv |-> e.id]
<1>1. e \in Of(E, "ticked") /\ e.t \in Times /\ row # NoTick
    BY DEF Of, Batch, TickBatch, NoTick
<1>2. CASE <<"tick", e.t>> \in p.keys
    <2>1. q = p
        BY <1>2, Dropped DEF Key
    <2>2. p.tick[e.t] # NoTick
        BY <1>1, <1>2 DEF Within, TickWithin
    <2> QED  BY <2>1, <2>2, WithinDropped
<1>3. CASE <<"tick", e.t>> \notin p.keys
    <2>1. p.tick[e.t] = NoTick /\ Shape(p)
        BY <1>1, <1>3 DEF Within, TickWithin
    <2>2. /\ Shape(q)
          /\ q.def = p.def /\ q.sensor = p.sensor /\ q.evals = p.evals /\ q.backfill = p.backfill
          /\ q.chunk = p.chunk /\ q.index = p.index /\ q.run = p.run
          /\ q.keys = p.keys \cup {<<"tick", e.t>>}
          /\ q.last = p.last \/ q.last.at = e.t
          /\ q.tick = [p.tick EXCEPT ![e.t] = row]
        BY <1>1, <1>3, <2>1, TickedFields
    <2>3. \A t \in Times : q.tick[t] = IF t = e.t THEN row ELSE p.tick[t]
        BY <2>1, <2>2 DEF Shape
    <2>4. /\ \A f \in Of(D \cup {e}, "ticked") : f \in Of(D, "ticked") \/ f = e
          /\ Of(D \cup {e}, "requested") = Of(D, "requested")
          /\ Of(D \cup {e}, "chunk") = Of(D, "chunk")
        BY DEF Of
    <2> HIDE DEF q
    <2>5. TickWithin(b, E, D \cup {e}, q)
        <3>1. TickWithin(b, E, D, p)
            BY DEF Within
        <3>2. ASSUME NEW t \in Times
              PROVE  /\ \/ q.tick[t] = b.tick[t]
                        \/ /\ b.tick[t] = NoTick
                           /\ \E f \in Of(E, "ticked") :
                                f.t = t /\ q.tick[t] = [status |-> f.status, sel |-> f.sel, at |-> f.at, rv |-> f.id]
                     /\ q.tick[t] # NoTick <=> <<"tick", t>> \in q.keys
            <4>1. CASE t = e.t
                <5>1. b.tick[t] = NoTick
                    <6>1. ASSUME NEW f, p.tick[t] = [status |-> f.status, sel |-> f.sel, at |-> f.at, rv |-> f.id], f \in Of(E, "ticked")
                          PROVE FALSE
                        <7>1. f.status \in {"skipped", "triggered"}
                            BY <6>1 DEF Batch, TickBatch
                        <7> QED  BY <2>1, <4>1, <6>1, <7>1 DEF NoTick
                    <6> QED  BY <2>1, <3>1, <4>1, <6>1 DEF TickWithin
                <5> QED  BY <1>1, <2>2, <2>3, <4>1, <5>1
            <4>2. CASE t # e.t
                <5>1. q.tick[t] = p.tick[t] /\ (<<"tick", t>> \in q.keys <=> <<"tick", t>> \in p.keys)
                    BY <2>2, <2>3, <4>2
                <5> QED  BY <3>1, <5>1 DEF TickWithin
            <4> QED  BY <4>1, <4>2
        <3>3. ASSUME NEW f \in Of(D \cup {e}, "ticked") PROVE q.tick[f.t] # NoTick
            <4>1. CASE f = e
                BY <1>1, <2>3, <4>1
            <4>2. CASE f # e
                <5>1. f \in Of(D, "ticked") /\ p.tick[f.t] # NoTick
                    BY <2>4, <3>1, <4>2 DEF TickWithin
                <5>2. f.t \in Times
                    BY <5>1 DEF Of, Batch, TickBatch
                <5> QED  BY <1>1, <2>3, <5>1, <5>2
            <4> QED  BY <4>1, <4>2
        <3>4. q.last.at = b.last.at \/ \E f \in Of(E, "ticked") : q.last.at = f.t
            BY <1>1, <2>2, <3>1 DEF TickWithin
        <3> QED  BY <3>2, <3>3, <3>4 DEF TickWithin
    <2>6. /\ Within(b, E, D, p) /\ p.keys \subseteq q.keys
          /\ \A k, s : <<"runreq", k, s>> \in q.keys <=> <<"runreq", k, s>> \in p.keys
          /\ \A c : <<"chunk", c>> \in q.keys <=> <<"chunk", c>> \in p.keys
        BY <2>2
    <2>7. IndexWithin(b, E, D \cup {e}, q) /\ SensorWithin(b, E, q)
        BY <2>2, <2>4, <2>6, IndexFrame, SensorFrame DEF Within
    <2>8. ChunkWithin(b, E, D \cup {e}, q)
        BY <2>2, <2>4, <2>6, ChunkFrame DEF Within
    <2>9. StateWithin(b, E, q) /\ RunWithin(b, E, q) /\ DefinitionWithin(q)
        BY <2>2, <2>6, StateFrame, RunFrame, DefinitionFrame DEF Within
    <2>10. Shape(q)
        BY <2>2
    <2>11. Within(b, E, D \cup {e}, q)
        BY <2>5, <2>7, <2>8, <2>9, <2>10 DEF Within
    <2> QED  BY <2>11 DEF q
<1> QED  BY <1>2, <1>3

LEMMA EvaluatedStep ==
    ASSUME NEW b, NEW E, NEW D \in SUBSET E, NEW p, Within(b, E, D, p), NEW n, NEW m, Batch(b, n, m, E),
           NEW e \in E, e.type = "evaluated"
    PROVE  Within(b, E, D \cup {e}, FoldEvent(p, e))
<1> DEFINE q == FoldEvent(p, e)
<1>1. /\ e \in Of(E, "evaluated")
      /\ \A f \in Of(E, "evaluated") : Key(f) = Key(e)
    <2>1. e \in Of(E, "evaluated")
        BY DEF Of
    <2>2. ASSUME NEW f \in Of(E, "evaluated") PROVE Key(f) = Key(e)
        <3>1. f.type = "evaluated" /\ f.epoch = e.epoch /\ f.from = e.from
            BY <2>1, <2>2 DEF Of, Batch, SensorBatch
        <3> QED  BY <3>1 DEF Key
    <2> QED  BY <2>1, <2>2
<1>2. CASE Key(e) \in p.keys
    BY <1>2, Dropped, WithinDropped
<1>3. CASE Key(e) \notin p.keys
    <2>1. Shape(p) /\ SensorWithin(b, E, p)
        BY DEF Within
    <2>2. /\ Shape(q)
          /\ q.def = p.def /\ q.last = p.last /\ q.tick = p.tick /\ q.backfill = p.backfill
          /\ q.chunk = p.chunk /\ q.index = p.index /\ q.run = p.run
          /\ q.keys = p.keys \cup {Key(e)}
          /\ q.evals = p.evals \cup {RowOf(p, e)}
          /\ \/ q.sensor = p.sensor
             \/ /\ p.sensor.version = e.expected
                /\ q.sensor.cursor = e.to /\ q.sensor.version = p.sensor.version + 1
        BY <1>3, <2>1, EvaluatedFields
    <2>3. /\ Of(D \cup {e}, "ticked") = Of(D, "ticked")
          /\ Of(D \cup {e}, "requested") = Of(D, "requested")
          /\ Of(D \cup {e}, "chunk") = Of(D, "chunk")
        BY DEF Of
    <2> HIDE DEF q
    <2>4. SensorWithin(b, E, q)
        <3>1. p.sensor = b.sensor
            BY <1>1, <1>3, <2>1 DEF SensorWithin
        <3>2. RowOf(p, e) = RowOf(b, e) /\ RowOf(b, e) \in RowsOf(b, E)
            BY <1>1, <3>1 DEF RowOf, RowsOf
        <3>3. b.evals \subseteq q.evals /\ q.evals \subseteq RowsOf(b, E) /\ RowOf(b, e) \in q.evals
            BY <2>1, <2>2, <3>2 DEF SensorWithin
        <3>4. \/ q.sensor = b.sensor
              \/ /\ Key(e) \in q.keys /\ e.expected = b.sensor.version
                 /\ q.sensor.cursor = e.to /\ q.sensor.version = b.sensor.version + 1
            BY <2>2, <3>1
        <3> QED  BY <1>1, <3>3, <3>4 DEF SensorWithin
    <2>5. Key(e) = <<"eval", e.epoch, e.from>>
        BY DEF Key
    <2>6. /\ Within(b, E, D, p)
          /\ \A t : <<"tick", t>> \in q.keys <=> <<"tick", t>> \in p.keys
          /\ \A k, s : <<"runreq", k, s>> \in q.keys <=> <<"runreq", k, s>> \in p.keys
          /\ \A c : <<"chunk", c>> \in q.keys <=> <<"chunk", c>> \in p.keys
        BY <2>2, <2>5
    <2>7. TickWithin(b, E, D \cup {e}, q) /\ IndexWithin(b, E, D \cup {e}, q)
        BY <2>2, <2>3, <2>6, IndexFrame, TickFrame DEF Within
    <2>8. ChunkWithin(b, E, D \cup {e}, q)
        BY <2>2, <2>3, <2>6, ChunkFrame DEF Within
    <2>9. StateWithin(b, E, q) /\ RunWithin(b, E, q) /\ DefinitionWithin(q)
        BY <2>2, <2>6, StateFrame, RunFrame, DefinitionFrame DEF Within
    <2>10. Shape(q)
        BY <2>2
    <2>11. Within(b, E, D \cup {e}, q)
        BY <2>4, <2>7, <2>8, <2>9, <2>10 DEF Within
    <2> QED  BY <2>11 DEF q
<1> QED  BY <1>2, <1>3

LEMMA RequestedStep ==
    ASSUME NEW b, NEW E, NEW D \in SUBSET E, NEW p, Within(b, E, D, p), NEW n, NEW m, Batch(b, n, m, E),
           NEW e \in E, e.type = "requested"
    PROVE  Within(b, E, D \cup {e}, FoldEvent(p, e))
<1> DEFINE q == FoldEvent(p, e)
           row == [sel |-> e.sel, eval |-> e.eval]
<1>1. e \in Of(E, "requested") /\ e.key \in RunKeys /\ e.sel \in Sels
    BY DEF Of, Batch, RequestBatch
<1>2. row # NoRequest
    <2>1. e.sel # None
        BY <1>1, AutomationAssumption DEF Sels
    <2> QED  BY <2>1 DEF NoRequest
<1>3. Key(e) = <<"runreq", e.key, e.sel>>
    BY DEF Key
<1>4. CASE Key(e) \in p.keys
    <2>1. p.index[e.key] # NoRequest
        BY <1>1, <1>3, <1>4 DEF Within, IndexWithin
    <2> QED  BY <1>4, <2>1, Dropped, WithinDropped
<1>5. CASE FromStale(p, e)
    <2>1. \E v \in RowsOf(b, E) : v.id = e.eval /\ v.stale
        BY <1>5 DEF FromStale, Within, SensorWithin
    <2>2. Handle(p, e) = Ignored(p)
        BY <1>5 DEF Handle, FoldRequested
    <2> QED  BY <2>1, <2>2, Dropped, WithinDropped
<1>6. CASE Key(e) \notin p.keys /\ ~FromStale(p, e)
    <2>1. Shape(p) /\ IndexWithin(b, E, D, p)
        BY DEF Within
    <2>2. /\ Shape(q)
          /\ q.def = p.def /\ q.last = p.last /\ q.tick = p.tick /\ q.backfill = p.backfill
          /\ q.chunk = p.chunk /\ q.run = p.run /\ q.sensor = p.sensor /\ q.evals = p.evals
          /\ q.keys = p.keys \cup {<<"runreq", e.key, e.sel>>}
          /\ q.index = IF p.index[e.key] = NoRequest THEN [p.index EXCEPT ![e.key] = row] ELSE p.index
        BY <1>1, <1>6, <2>1, RequestedFields
    <2>3. /\ Of(D \cup {e}, "ticked") = Of(D, "ticked")
          /\ \A f \in Of(D \cup {e}, "requested") : f \in Of(D, "requested") \/ f = e
          /\ Of(D \cup {e}, "chunk") = Of(D, "chunk")
        BY DEF Of
    <2>4. \A k \in RunKeys : q.index[k] = IF k = e.key /\ p.index[k] = NoRequest THEN row ELSE p.index[k]
        BY <1>1, <2>1, <2>2 DEF Shape
    <2> HIDE DEF q, row
    <2>5. IndexWithin(b, E, D \cup {e}, q)
        <3>1. ASSUME NEW k \in RunKeys
              PROVE  /\ \/ q.index[k] = b.index[k]
                        \/ /\ b.index[k] = NoRequest
                           /\ \E f \in Of(E, "requested") :
                                f.key = k /\ q.index[k] = [sel |-> f.sel, eval |-> f.eval]
                     /\ \A s \in Sels : <<"runreq", k, s>> \in q.keys => q.index[k] # NoRequest
            <4>1. CASE k = e.key /\ p.index[k] = NoRequest
                <5>1. b.index[k] = NoRequest
                    <6>1. ASSUME NEW f \in Of(E, "requested"), p.index[k] = [sel |-> f.sel, eval |-> f.eval]
                          PROVE FALSE
                        <7>1. f.sel # None
                            BY AutomationAssumption DEF Batch, RequestBatch, Sels
                        <7> QED  BY <4>1, <6>1, <7>1 DEF NoRequest
                    <6> QED  BY <2>1, <4>1, <6>1 DEF IndexWithin
                <5> QED  BY <1>1, <1>2, <2>4, <4>1, <5>1 DEF row
            <4>2. CASE ~(k = e.key /\ p.index[k] = NoRequest)
                <5>1. q.index[k] = p.index[k]
                    BY <2>4, <4>2
                <5>2. \A s : <<"runreq", k, s>> \in q.keys =>
                            <<"runreq", k, s>> \in p.keys \/ k = e.key
                    BY <2>2
                <5> QED  BY <2>1, <4>2, <5>1, <5>2 DEF IndexWithin
            <4> QED  BY <4>1, <4>2
        <3>2. ASSUME NEW f \in Of(D \cup {e}, "requested")
              PROVE  q.index[f.key] # NoRequest \/ \E v \in RowsOf(b, E) : v.id = f.eval /\ v.stale
            <4>1. CASE f = e
                BY <1>1, <1>2, <2>4, <4>1
            <4>2. CASE f # e
                <5>1. f \in Of(D, "requested")
                    BY <2>3, <4>2
                <5>2. f.key \in RunKeys
                    BY <5>1 DEF Of, Batch, RequestBatch
                <5>3. p.index[f.key] # NoRequest => q.index[f.key] # NoRequest
                    BY <2>4, <5>2
                <5> QED  BY <2>1, <5>1, <5>3 DEF IndexWithin
            <4> QED  BY <4>1, <4>2
        <3> QED  BY <3>1, <3>2 DEF IndexWithin
    <2>6. /\ Within(b, E, D, p) /\ p.keys \subseteq q.keys
          /\ \A t : <<"tick", t>> \in q.keys <=> <<"tick", t>> \in p.keys
          /\ \A c : <<"chunk", c>> \in q.keys <=> <<"chunk", c>> \in p.keys
        BY <2>2
    <2>7. TickWithin(b, E, D \cup {e}, q) /\ SensorWithin(b, E, q)
        BY <2>2, <2>3, <2>6, SensorFrame, TickFrame DEF Within
    <2>8. ChunkWithin(b, E, D \cup {e}, q)
        BY <2>2, <2>3, <2>6, ChunkFrame DEF Within
    <2>9. StateWithin(b, E, q) /\ RunWithin(b, E, q) /\ DefinitionWithin(q)
        BY <2>2, <2>6, StateFrame, RunFrame, DefinitionFrame DEF Within
    <2>10. Shape(q)
        BY <2>2
    <2>11. Within(b, E, D \cup {e}, q)
        BY <2>5, <2>7, <2>8, <2>9, <2>10 DEF Within
    <2> QED  BY <2>11 DEF q
<1> QED  BY <1>4, <1>5, <1>6

LEMMA ChunkStep ==
    ASSUME NEW b, NEW E, NEW D \in SUBSET E, NEW p, Within(b, E, D, p), NEW n, NEW m, Batch(b, n, m, E),
           NEW e \in E, e.type = "chunk"
    PROVE  Within(b, E, D \cup {e}, FoldEvent(p, e))
<1> DEFINE q == FoldEvent(p, e)
           row == [state |-> "Planned", rv |-> e.id]
<1>1. e \in Of(E, "chunk") /\ e.c \in ChunkIndexes /\ Key(e) = <<"chunk", e.c>>
    BY DEF Of, Batch, ChunkBatch, Key
<1>2. Shape(p) /\ ChunkWithin(b, E, D, p)
    BY DEF Within
<1>3. CASE Key(e) \in p.keys
    <2>1. p.chunk[e.c].state # "none"
        BY <1>1, <1>2, <1>3 DEF ChunkWithin
    <2> QED  BY <1>3, <2>1, Dropped, WithinDropped
<1>4. CASE Key(e) \notin p.keys
    <2>1. p.chunk[e.c].state = "none"
        BY <1>1, <1>2, <1>4 DEF ChunkWithin
    <2>2. /\ Shape(q)
          /\ q.def = p.def /\ q.last = p.last /\ q.tick = p.tick /\ q.sensor = p.sensor
          /\ q.evals = p.evals /\ q.run = p.run /\ q.index = p.index
          /\ q.keys = p.keys \cup {<<"chunk", e.c>>}
          /\ q.chunk = [p.chunk EXCEPT ![e.c] = row]
          /\ q.backfill.state = p.backfill.state /\ q.backfill.version = p.backfill.version
          /\ q.backfill.planned \in {p.backfill.planned, NextGap(q, p.backfill.planned)}
        BY <1>1, <1>2, <1>4, <2>1, ChunkFields
    <2>3. /\ Of(D \cup {e}, "ticked") = Of(D, "ticked")
          /\ Of(D \cup {e}, "requested") = Of(D, "requested")
          /\ \A f \in Of(D \cup {e}, "chunk") : f \in Of(D, "chunk") \/ f = e
        BY DEF Of
    <2> HIDE DEF q
    <2>4. \A c \in ChunkIndexes : q.chunk[c] = IF c = e.c THEN row ELSE p.chunk[c]
        BY <1>1, <1>2, <2>2 DEF Shape
    <2>5. ChunkWithin(b, E, D \cup {e}, q)
        <3>1. ASSUME NEW c \in ChunkIndexes
              PROVE  /\ \/ q.chunk[c] = b.chunk[c]
                        \/ q.chunk[c].state = "Planned" /\ \E f \in Of(E, "chunk") : f.c = c
                     /\ q.chunk[c].state # "none" <=> <<"chunk", c>> \in q.keys
            <4>1. CASE c = e.c
                BY <1>1, <2>2, <2>4, <4>1
            <4>2. CASE c # e.c
                <5>1. q.chunk[c] = p.chunk[c] /\ (<<"chunk", c>> \in q.keys <=> <<"chunk", c>> \in p.keys)
                    BY <2>2, <2>4, <4>2
                <5> QED  BY <1>2, <5>1 DEF ChunkWithin
            <4> QED  BY <4>1, <4>2
        <3>2. \A c \in ChunkIndexes : p.chunk[c].state # "none" => q.chunk[c].state # "none"
            BY <2>4
        <3>3. ASSUME NEW f \in Of(D \cup {e}, "chunk") PROVE q.chunk[f.c].state # "none"
            <4>1. CASE f = e
                BY <1>1, <2>4, <4>1
            <4>2. CASE f # e
                <5>1. f \in Of(D, "chunk")
                    BY <2>3, <4>2
                <5>2. f.c \in ChunkIndexes
                    BY <5>1 DEF Of, Batch, ChunkBatch
                <5> QED  BY <1>2, <3>2, <5>1, <5>2 DEF ChunkWithin
            <4> QED  BY <4>1, <4>2
        <3>4. p.backfill.planned \in 0 .. MaxChunks /\ MaxChunks \in Nat
            BY <1>2, Bounds DEF ChunkWithin
        <3>5. /\ NextGap(q, p.backfill.planned) \in p.backfill.planned .. MaxChunks
              /\ \A c \in p.backfill.planned .. NextGap(q, p.backfill.planned) - 1 : q.chunk[c].state # "none"
            BY <3>4, Gap
        <3>6. \A c \in 0 .. p.backfill.planned - 1 : q.chunk[c].state # "none"
            <4>1. \A c \in 0 .. p.backfill.planned - 1 : c \in ChunkIndexes /\ p.chunk[c].state # "none"
                BY <1>2, <3>4 DEF ChunkWithin, ChunkIndexes
            <4> QED  BY <3>2, <4>1
        <3>7. /\ q.backfill.planned \in 0 .. MaxChunks
              /\ \A c \in 0 .. q.backfill.planned - 1 : q.chunk[c].state # "none"
            <4>1. CASE q.backfill.planned = p.backfill.planned
                BY <3>4, <3>6, <4>1
            <4>2. CASE q.backfill.planned = NextGap(q, p.backfill.planned)
                <5>1. q.backfill.planned \in p.backfill.planned .. MaxChunks
                    BY <3>5, <4>2
                <5>2. \A c \in 0 .. q.backfill.planned - 1 :
                        c \in 0 .. p.backfill.planned - 1 \/ c \in p.backfill.planned .. q.backfill.planned - 1
                    BY <3>4, <5>1
                <5> QED  BY <3>4, <3>5, <3>6, <4>2, <5>1, <5>2
            <4> QED  BY <2>2, <4>1, <4>2
        <3> QED  BY <3>1, <3>3, <3>7 DEF ChunkWithin
    <2>6. /\ Within(b, E, D, p) /\ p.keys \subseteq q.keys
          /\ \A t : <<"tick", t>> \in q.keys <=> <<"tick", t>> \in p.keys
          /\ \A k, s : <<"runreq", k, s>> \in q.keys <=> <<"runreq", k, s>> \in p.keys
        BY <2>2
    <2>7. TickWithin(b, E, D \cup {e}, q) /\ SensorWithin(b, E, q)
        BY <2>2, <2>3, <2>6, SensorFrame, TickFrame DEF Within
    <2>8. IndexWithin(b, E, D \cup {e}, q)
        BY <2>2, <2>3, <2>6, IndexFrame DEF Within
    <2>9. StateWithin(b, E, q) /\ RunWithin(b, E, q) /\ DefinitionWithin(q)
        BY <2>2, <2>6, StateFrame, RunFrame, DefinitionFrame DEF Within
    <2>10. Shape(q)
        BY <2>2
    <2>11. Within(b, E, D \cup {e}, q)
        BY <2>5, <2>7, <2>8, <2>9, <2>10 DEF Within
    <2> QED  BY <2>11 DEF q
<1> QED  BY <1>3, <1>4

LEMMA ChangedStep ==
    ASSUME NEW b, NEW E, NEW D \in SUBSET E, NEW p, Within(b, E, D, p), NEW n, NEW m, Batch(b, n, m, E),
           NEW e \in E, e.type = "changed", b.backfill.version \in Nat
    PROVE  Within(b, E, D \cup {e}, FoldEvent(p, e))
<1> DEFINE q == FoldEvent(p, e)
<1>1. e \in Of(E, "changed") /\ \A f \in Of(E, "changed") : f.version = e.version
    BY DEF Of, Batch, OtherBatch
<1>2. CASE q = p
    BY <1>2, WithinDropped
<1>3. CASE q # p
    <2>1. Shape(p)
        BY DEF Within
    <2>2. /\ Shape(q)
          /\ q.def = p.def /\ q.last = p.last /\ q.tick = p.tick /\ q.sensor = p.sensor
          /\ q.evals = p.evals /\ q.run = p.run /\ q.index = p.index /\ q.chunk = p.chunk
          /\ q.keys = p.keys \cup {<<"state", e.version, e.to>>}
          /\ IsValidTransition(p.backfill.state, e.to) /\ e.version = p.backfill.version + 1
          /\ q.backfill.state = e.to /\ q.backfill.version = e.version
          /\ q.backfill.planned = p.backfill.planned
        BY <1>1, <1>3, <2>1, ChangedFields
    <2>3. /\ Of(D \cup {e}, "ticked") = Of(D, "ticked")
          /\ Of(D \cup {e}, "requested") = Of(D, "requested")
          /\ Of(D \cup {e}, "chunk") = Of(D, "chunk")
        BY DEF Of
    <2> HIDE DEF q
    <2>4. /\ Within(b, E, D, p) /\ p.keys \subseteq q.keys
          /\ \A t : <<"tick", t>> \in q.keys <=> <<"tick", t>> \in p.keys
          /\ \A k, s : <<"runreq", k, s>> \in q.keys <=> <<"runreq", k, s>> \in p.keys
          /\ \A c : <<"chunk", c>> \in q.keys <=> <<"chunk", c>> \in p.keys
        BY <2>2
    <2>5. TickWithin(b, E, D \cup {e}, q) /\ SensorWithin(b, E, q)
        BY <2>2, <2>3, <2>4, SensorFrame, TickFrame DEF Within
    <2>6. IndexWithin(b, E, D \cup {e}, q)
        BY <2>2, <2>3, <2>4, IndexFrame DEF Within
    <2>7. ChunkWithin(b, E, D \cup {e}, q)
        BY <2>2, <2>3, <2>4, ChunkFrame DEF Within
    <2>8. StateWithin(b, E, q)
        <3>1. ASSUME NEW f \in Of(E, "changed"), p.backfill.version = f.version, f.version = b.backfill.version + 1
              PROVE  FALSE
            BY <1>1, <2>2, <3>1
        <3>2. p.backfill.state = b.backfill.state /\ p.backfill.version = b.backfill.version
            BY <2>4, <3>1 DEF Within, StateWithin
        <3> QED  BY <1>1, <2>2, <3>2 DEF StateWithin
    <2>9. RunWithin(b, E, q) /\ DefinitionWithin(q)
        BY <2>2, <2>4, RunFrame, DefinitionFrame DEF Within
    <2>10. Shape(q)
        BY <2>2
    <2>11. Within(b, E, D \cup {e}, q)
        BY <2>5, <2>6, <2>7, <2>8, <2>9, <2>10 DEF Within
    <2> QED  BY <2>11 DEF q
<1> QED  BY <1>2, <1>3

LEMMA RunStep ==
    ASSUME NEW b, NEW E, NEW D \in SUBSET E, NEW p, Within(b, E, D, p), NEW n, NEW m, Batch(b, n, m, E),
           NEW e \in E, e.type = "run"
    PROVE  Within(b, E, D \cup {e}, FoldEvent(p, e))
<1> DEFINE q == FoldEvent(p, e)
<1>1. e \in Of(E, "run") /\ e.key \in RunKeys
    BY DEF Of, Batch, OtherBatch
<1>2. CASE q = p
    BY <1>2, WithinDropped
<1>3. CASE q # p
    <2>1. Shape(p)
        BY DEF Within
    <2>2. /\ Shape(q)
          /\ q.def = p.def /\ q.last = p.last /\ q.tick = p.tick /\ q.sensor = p.sensor
          /\ q.evals = p.evals /\ q.backfill = p.backfill /\ q.index = p.index /\ q.chunk = p.chunk
          /\ q.keys = p.keys \cup {<<"run", e.key>>}
          /\ q.run = [p.run EXCEPT ![e.key] = "active"]
        BY <1>1, <1>3, <2>1, RunFields
    <2>3. /\ Of(D \cup {e}, "ticked") = Of(D, "ticked")
          /\ Of(D \cup {e}, "requested") = Of(D, "requested")
          /\ Of(D \cup {e}, "chunk") = Of(D, "chunk")
        BY DEF Of
    <2> HIDE DEF q
    <2>4. /\ Within(b, E, D, p) /\ p.keys \subseteq q.keys
          /\ \A t : <<"tick", t>> \in q.keys <=> <<"tick", t>> \in p.keys
          /\ \A k, s : <<"runreq", k, s>> \in q.keys <=> <<"runreq", k, s>> \in p.keys
          /\ \A c : <<"chunk", c>> \in q.keys <=> <<"chunk", c>> \in p.keys
        BY <2>2
    <2>5. TickWithin(b, E, D \cup {e}, q) /\ SensorWithin(b, E, q)
        BY <2>2, <2>3, <2>4, SensorFrame, TickFrame DEF Within
    <2>6. IndexWithin(b, E, D \cup {e}, q)
        BY <2>2, <2>3, <2>4, IndexFrame DEF Within
    <2>7. ChunkWithin(b, E, D \cup {e}, q)
        BY <2>2, <2>3, <2>4, ChunkFrame DEF Within
    <2>8. RunWithin(b, E, q)
        <3>1. \A k \in RunKeys : q.run[k] = IF k = e.key THEN "active" ELSE p.run[k]
            BY <1>1, <2>1, <2>2 DEF Shape
        <3> QED  BY <1>1, <2>4, <3>1 DEF Within, RunWithin
    <2>9. StateWithin(b, E, q) /\ DefinitionWithin(q)
        BY <2>2, <2>4, StateFrame, DefinitionFrame DEF Within
    <2>10. Shape(q)
        BY <2>2
    <2>11. Within(b, E, D \cup {e}, q)
        BY <2>5, <2>6, <2>7, <2>8, <2>9, <2>10 DEF Within
    <2> QED  BY <2>11 DEF q
<1> QED  BY <1>2, <1>3

LEMMA UpsertedStep ==
    ASSUME NEW b, NEW E, NEW D \in SUBSET E, NEW p, Within(b, E, D, p), NEW n, NEW m, Batch(b, n, m, E),
           NEW e \in E, e.type = "upserted"
    PROVE  Within(b, E, D \cup {e}, FoldEvent(p, e))
<1> DEFINE q == FoldEvent(p, e)
<1>1. e \in Of(E, "upserted") /\ e.enabled \in BOOLEAN /\ e.sel \in Selections
    BY DEF Of, Batch, OtherBatch
<1>2. CASE q = p
    BY <1>2, WithinDropped
<1>3. CASE q # p
    <2>1. Shape(p)
        BY DEF Within
    <2>2. /\ Shape(q)
          /\ q.run = p.run /\ q.last = p.last /\ q.tick = p.tick /\ q.sensor = p.sensor
          /\ q.evals = p.evals /\ q.backfill = p.backfill /\ q.index = p.index /\ q.chunk = p.chunk
          /\ q.keys = p.keys \cup {<<"def", e.id>>}
          /\ q.def.enabled = e.enabled /\ q.def.sel = e.sel
        BY <1>1, <1>3, <2>1, UpsertedFields
    <2>3. /\ Of(D \cup {e}, "ticked") = Of(D, "ticked")
          /\ Of(D \cup {e}, "requested") = Of(D, "requested")
          /\ Of(D \cup {e}, "chunk") = Of(D, "chunk")
        BY DEF Of
    <2> HIDE DEF q
    <2>4. /\ Within(b, E, D, p) /\ p.keys \subseteq q.keys
          /\ \A t : <<"tick", t>> \in q.keys <=> <<"tick", t>> \in p.keys
          /\ \A k, s : <<"runreq", k, s>> \in q.keys <=> <<"runreq", k, s>> \in p.keys
          /\ \A c : <<"chunk", c>> \in q.keys <=> <<"chunk", c>> \in p.keys
        BY <2>2
    <2>5. TickWithin(b, E, D \cup {e}, q) /\ SensorWithin(b, E, q)
        BY <2>2, <2>3, <2>4, SensorFrame, TickFrame DEF Within
    <2>6. IndexWithin(b, E, D \cup {e}, q)
        BY <2>2, <2>3, <2>4, IndexFrame DEF Within
    <2>7. ChunkWithin(b, E, D \cup {e}, q)
        BY <2>2, <2>3, <2>4, ChunkFrame DEF Within
    <2>8. DefinitionWithin(q)
        BY <1>1, <2>2 DEF DefinitionWithin
    <2>9. StateWithin(b, E, q) /\ RunWithin(b, E, q)
        BY <2>2, <2>4, StateFrame, RunFrame DEF Within
    <2>10. Shape(q)
        BY <2>2
    <2>11. Within(b, E, D \cup {e}, q)
        BY <2>5, <2>6, <2>7, <2>8, <2>9, <2>10 DEF Within
    <2> QED  BY <2>11 DEF q
<1> QED  BY <1>2, <1>3

LEMMA EventStep ==
    ASSUME NEW b, NEW E, NEW D \in SUBSET E, NEW p, Within(b, E, D, p), NEW n, NEW m, Batch(b, n, m, E),
           NEW e \in E, b.backfill.version \in Nat
    PROVE  Within(b, E, D \cup {e}, FoldEvent(p, e))
<1>1. e.type \in EventTypes
    BY DEF Batch, OtherBatch
<1> QED  BY <1>1, TickedStep, EvaluatedStep, RequestedStep, ChunkStep, ChangedStep, RunStep, UpsertedStep
         DEF EventTypes

(***************************************************************************)
(* Folding a batch.                                                        *)
(***************************************************************************)
(* What is published of q, the projection that was folded from b.          *)
Merged(b, q) == [q EXCEPT !.backfill = MergeBackfill(b.backfill, q.backfill)]

(* The projections that a fold goes through.                               *)
LEMMA FoldFacts ==
    ASSUME NEW p, NEW events, Len(events) \in Nat
    PROVE  \E F : /\ F[0] = p
                  /\ \A n \in 1 .. Len(events) : F[n] = FoldEvent(F[n - 1], events[n])
                  /\ Fold(p, events) = Merged(p, F[Len(events)])
<1> DEFINE N == Len(events)
           IsF(F, m) == F = [n \in 0 .. m |-> IF n = 0 THEN p ELSE FoldEvent(F[n - 1], events[n])]
           F0 == CHOOSE F : IsF(F, N)
<1>2. ASSUME NEW m \in 0 .. N PROVE \E F : IsF(F, m)
    <2> SUFFICES ASSUME ~\E F : IsF(F, m) PROVE FALSE
        OBVIOUS
    <2> DEFINE S == {j \in 0 .. N : ~\E F : IsF(F, j)}
    <2>1. S \in SUBSET (0 .. N) /\ m \in S
        OBVIOUS
    <2>2. PICK j \in S : \A y \in S : j <= y
        BY <2>1, LeastNumber
    <2>3. j \in 0 .. N /\ ~\E F : IsF(F, j)
        BY <2>2
    <2>4. j # 0
        <3>1. IsF([n \in 0 .. 0 |-> p], 0)
            OBVIOUS
        <3> QED  BY <2>3, <3>1
    <2> HIDE DEF S
    <2>5. j - 1 \in 0 .. N /\ j - 1 \notin S
        BY <2>2, <2>3, <2>4
    <2>6. PICK F : IsF(F, j - 1)
        BY <2>5 DEF S
    <2> DEFINE H == [n \in 0 .. j |-> IF n = j THEN FoldEvent(F[j - 1], events[j]) ELSE F[n]]
    <2>7. IsF(H, j)
        <3>1. ASSUME NEW n \in 0 .. j
              PROVE  H[n] = IF n = 0 THEN p ELSE FoldEvent(H[n - 1], events[n])
            <4>1. CASE n = j
                <5>1. H[n] = FoldEvent(F[j - 1], events[j]) /\ H[n - 1] = F[j - 1]
                    BY <2>3, <2>4, <4>1
                <5> QED  BY <2>4, <4>1, <5>1
            <4>2. CASE n # j
                <5>1. n \in 0 .. j - 1 /\ H[n] = F[n]
                    BY <2>3, <4>2
                <5>2. n # 0 => n - 1 \in 0 .. j /\ n - 1 # j /\ H[n - 1] = F[n - 1]
                    BY <2>3, <4>2
                <5>3. F[n] = IF n = 0 THEN p ELSE FoldEvent(F[n - 1], events[n])
                    BY <2>6, <5>1
                <5> QED  BY <5>1, <5>2, <5>3
            <4> QED  BY <4>1, <4>2
        <3> QED  BY <3>1
    <2> QED  BY <2>3, <2>7
<1>3. \E F : IsF(F, N)
    BY <1>2
<1>4. F0 = [n \in 0 .. N |-> IF n = 0 THEN p ELSE FoldEvent(F0[n - 1], events[n])]
    BY <1>3
<1>5. Fold(p, events) = Merged(p, F0[N])
    BY DEF Fold, Merged
<1> HIDE DEF F0
<1>6. F0[0] = p /\ \A n \in 1 .. N : F0[n] = FoldEvent(F0[n - 1], events[n])
    BY <1>4
<1> QED  BY <1>5, <1>6

LEMMA WithinStart ==
    ASSUME NEW n, NEW m, NEW b, Good(b, n, m), NEW E
    PROVE  Within(b, E, {}, b)
<1>1. \A type : Of({}, type) = {}
    BY DEF Of
<1>2. TickWithin(b, E, {}, b)
    BY <1>1 DEF Good, TickOK, TickWithin
<1>3. IndexWithin(b, E, {}, b)
    BY <1>1 DEF Good, IndexOK, IndexWithin
<1>4. ChunkWithin(b, E, {}, b)
    BY <1>1 DEF Good, ChunkOK, ChunkWithin
<1>5. SensorWithin(b, E, b) /\ StateWithin(b, E, b) /\ RunWithin(b, E, b)
    BY DEF SensorWithin, StateWithin, RunWithin, RowsOf
<1>6. Shape(b) /\ DefinitionWithin(b)
    BY DEF Good, ValuesOK, DefinitionWithin
<1> QED  BY <1>2, <1>3, <1>4, <1>5, <1>6 DEF Within

(* When all events of a batch are folded.                                  *)
LEMMA FoldWithin ==
    ASSUME NEW n, NEW m, NEW b, Good(b, n, m), NEW events, Len(events) \in Nat,
           DOMAIN events = 1 .. Len(events), NEW E, E = Range(events), Batch(b, n, m, E)
    PROVE  \E q : /\ Within(b, E, E, q)
                  /\ Fold(b, events) = Merged(b, q)
<1> DEFINE N == Len(events)
           Folded(i) == {events[j] : j \in 1 .. i}
<1>1. PICK F : /\ F[0] = b
               /\ \A i \in 1 .. N : F[i] = FoldEvent(F[i - 1], events[i])
               /\ Fold(b, events) = Merged(b, F[N])
    BY FoldFacts
<1>2. ASSUME NEW i \in 0 .. N PROVE Within(b, E, Folded(i), F[i])
    <2> SUFFICES ASSUME ~Within(b, E, Folded(i), F[i]) PROVE FALSE
        OBVIOUS
    <2> DEFINE S == {j \in 0 .. N : ~Within(b, E, Folded(j), F[j])}
    <2>1. S \in SUBSET (0 .. N) /\ i \in S
        OBVIOUS
    <2> HIDE DEF Folded
    <2>2. PICK j \in S : \A y \in S : j <= y
        BY <2>1, LeastNumber
    <2>3. j \in 0 .. N /\ ~Within(b, E, Folded(j), F[j])
        BY <2>2
    <2> HIDE DEF S
    <2>4. Folded(0) = {}
        BY DEF Folded
    <2>5. j # 0
        <3>1. Within(b, E, {}, b)
            BY WithinStart
        <3> QED  BY <1>1, <2>3, <2>4, <3>1
    <2>6. j - 1 \in 0 .. N /\ j - 1 \notin S /\ j \in 1 .. N
        BY <2>2, <2>3, <2>5
    <2>7. Within(b, E, Folded(j - 1), F[j - 1])
        BY <2>6 DEF S
    <2>8. /\ events[j] \in E /\ Folded(j - 1) \in SUBSET E
          /\ Folded(j) = Folded(j - 1) \cup {events[j]}
        <3>1. E = {events[k] : k \in 1 .. N}
            BY DEF Range
        <3>2. 1 .. j = (1 .. j - 1) \cup {j} /\ 1 .. j - 1 \subseteq 1 .. N
            BY <2>6
        <3> QED  BY <2>6, <3>1, <3>2 DEF Folded
    <2>9. b.backfill.version \in Nat
        BY DEF Good, ValuesOK
    <2>10. F[j] = FoldEvent(F[j - 1], events[j])
        BY <1>1, <2>6
    <2> QED  BY <2>3, <2>7, <2>8, <2>9, <2>10, EventStep
<1>3. Folded(N) = E
    BY DEF Range
<1> HIDE DEF Folded
<1>4. Within(b, E, Folded(N), F[N])
    BY <1>2
<1> QED  BY <1>1, <1>3, <1>4

(***************************************************************************)
(* A batch that has been folded leads from Good to Good.                   *)
(***************************************************************************)
EitherBackfill(b, q, r) ==
    \/ r.backfill = q.backfill
    \/ r.backfill = b.backfill /\ q.backfill.version = b.backfill.version

PollStep(b, r) ==
    r.sensor.cursor # b.sensor.cursor =>
        \E v \in r.evals \ b.evals :
            v.from = b.sensor.cursor /\ v.to = r.sensor.cursor /\ ~v.stale

TransitionStep(b, r) ==
    IF r.backfill.state = b.backfill.state THEN r.backfill.version = b.backfill.version
    ELSE /\ r.backfill.version = b.backfill.version + 1
         /\ IsValidTransition(b.backfill.state, r.backfill.state)

LEMMA MergedFields ==
    ASSUME NEW b, Shape(b), NEW q, Shape(q), NEW r,
           r = Merged(b, q)
    PROVE  /\ Shape(r)
           /\ r.def = q.def /\ r.last = q.last /\ r.tick = q.tick /\ r.sensor = q.sensor
           /\ r.evals = q.evals /\ r.chunk = q.chunk /\ r.index = q.index /\ r.run = q.run
           /\ r.keys = q.keys
           /\ EitherBackfill(b, q, r)
<1> DEFINE back == MergeBackfill(b.backfill, q.backfill)
<1>1. \/ back = q.backfill
      \/ back = b.backfill /\ q.backfill.version = b.backfill.version
    BY DEF MergeBackfill
<1> HIDE DEF back
<1>2. q = Record(q)
    BY DEF Shape
<1>3. r = [def |-> q.def, last |-> q.last, tick |-> q.tick, sensor |-> q.sensor,
           evals |-> q.evals, backfill |-> back, chunk |-> q.chunk, index |-> q.index,
           conflicts |-> q.conflicts, run |-> q.run, keys |-> q.keys]
    BY <1>2 DEF Record, back, Merged
<1>4. r = Record(r)
    BY <1>3 DEF Record
<1>5. r.backfill = back
    BY <1>3
<1>6. back = [state |-> back.state, version |-> back.version, planned |-> back.planned, rv |-> back.rv]
    BY <1>1 DEF Shape
<1>7. Shape(r)
    BY <1>3, <1>4, <1>5, <1>6 DEF Shape
<1> QED  BY <1>1, <1>3, <1>5, <1>7 DEF EitherBackfill

(* A request without an evaluation, or of one that is not stale, is taken. *)
LEMMA AskedIsThere ==
    ASSUME NEW n, NEW m, NEW b, Good(b, n, m), NEW E, Batch(b, n, m, E), NEW q, Within(b, E, E, q),
           NEW key, NEW eval, Asks(E, key, eval),
           \/ eval = None
           \/ \E e \in Of(E, "evaluated") : e.eval = eval /\ e.expected = b.sensor.version
    PROVE  q.index[key] # NoRequest
<1>1. PICK f \in Of(E, "requested") : f.key = key /\ f.eval = eval
    BY DEF Asks
<1>2. ASSUME NEW v \in RowsOf(b, E), v.id = eval, v.stale PROVE FALSE
    <2>1. v.id \in Nat
        <3>1. ASSUME NEW e \in Of(E, "evaluated") PROVE RowOf(b, e).id \in Nat
            BY DEF Batch, SensorBatch, RowOf
        <3> QED  BY <3>1 DEF RowsOf, Good, ValuesOK
    <2>2. CASE eval = None
        BY <1>2, <2>1, <2>2, AutomationAssumption
    <2>3. ASSUME NEW e \in Of(E, "evaluated"), e.eval = eval, e.expected = b.sensor.version PROVE FALSE
        <3>1. v \notin b.evals
            BY <1>2, <2>3 DEF Batch, SensorBatch
        <3>2. PICK g \in Of(E, "evaluated") : v = RowOf(b, g)
            BY <3>1 DEF RowsOf
        <3>3. g.expected = e.expected
            BY <2>3, <3>2 DEF Batch, SensorBatch
        <3>4. ~v.stale
            BY <2>3, <3>2, <3>3 DEF RowOf
        <3> QED  BY <1>2, <3>4
    <2> QED  BY <2>2, <2>3
<1> QED  BY <1>1, <1>2 DEF Within, IndexWithin

LEMMA IndexStays ==
    ASSUME NEW b, NEW E, NEW q, Within(b, E, E, q), NEW k \in RunKeys, b.index[k] # NoRequest
    PROVE  q.index[k] = b.index[k]
BY DEF Within, IndexWithin

LEMMA TickStays ==
    ASSUME NEW b, NEW E, NEW q, Within(b, E, E, q), NEW t \in Times, b.tick[t] # NoTick
    PROVE  q.tick[t] = b.tick[t]
BY DEF Within, TickWithin

LEMMA ChunkStays ==
    ASSUME NEW b, NEW E, NEW q, Within(b, E, E, q), NEW c \in ChunkIndexes, b.chunk[c].state # "none"
    PROVE  q.chunk[c].state # "none"
BY DEF Within, ChunkWithin

LEMMA RunKeyFacts ==
    /\ \A t \in Times : <<"sched", t>> \in RunKeys
    /\ \A i \in Items : <<"item", i>> \in RunKeys
    /\ \A c \in ChunkIndexes : <<"chunk", c>> \in RunKeys
BY DEF RunKeys

LEMMA TicksDone ==
    ASSUME NEW n, NEW m, NEW b, Good(b, n, m), n <= MaxTime, n \in Nat, NEW E, Batch(b, n, m, E),
           NEW q, Within(b, E, E, q)
    PROVE  TickOK(q)
<1>0. TickOK(b) /\ TickWithin(b, E, E, q) /\ TickBatch(b, n, E) /\ RequestBatch(E)
    BY DEF Good, Within, Batch
<1>1. ASSUME NEW t \in Times
      PROVE  /\ q.tick[t].status \in {"none", "skipped", "triggered"}
             /\ q.tick[t] # NoTick <=> <<"tick", t>> \in q.keys
             /\ q.tick[t].status = "triggered" =>
                    q.tick[t].sel \in Selections /\ q.index[<<"sched", t>>].sel = q.tick[t].sel
             /\ q.index[<<"sched", t>>] # NoRequest => q.tick[t] # NoTick
    <2> DEFINE k == <<"sched", t>>
    <2>0. k \in RunKeys
        BY RunKeyFacts
    <2> HIDE DEF k
    <2>1. q.tick[t] # NoTick <=> <<"tick", t>> \in q.keys
        BY <1>0 DEF TickWithin
    <2> DEFINE Row == /\ q.tick[t].status \in {"none", "skipped", "triggered"}
                      /\ q.tick[t].status = "triggered" =>
                            q.tick[t].sel \in Selections /\ q.index[k].sel = q.tick[t].sel
    <2>2. ASSUME q.tick[t] = b.tick[t] PROVE Row
        <3>1. q.tick[t].status \in {"none", "skipped", "triggered"}
            BY <1>0, <2>2 DEF TickOK
        <3>2. ASSUME q.tick[t].status = "triggered"
              PROVE  q.tick[t].sel \in Selections /\ q.index[k].sel = q.tick[t].sel
            <4>1. q.tick[t].sel \in Selections /\ b.index[k].sel = q.tick[t].sel
                BY <1>0, <2>2, <3>2 DEF TickOK, k
            <4>2. b.index[k] # NoRequest
                BY <4>1, AutomationAssumption DEF NoRequest
            <4> QED  BY <2>0, <4>1, <4>2, IndexStays
        <3> QED  BY <3>1, <3>2
    <2>3. ASSUME q.tick[t] # b.tick[t] PROVE Row
        <3>1. b.tick[t] = NoTick
            BY <1>0, <2>3 DEF TickWithin
        <3>2. PICK e \in Of(E, "ticked") :
                e.t = t /\ q.tick[t] = [status |-> e.status, sel |-> e.sel, at |-> e.at, rv |-> e.id]
            BY <1>0, <2>3 DEF TickWithin
        <3>3. q.tick[t].status = e.status /\ q.tick[t].sel = e.sel /\ e.status \in {"skipped", "triggered"}
            <4>1. e.status \in {"skipped", "triggered"}
                BY <1>0 DEF TickBatch
            <4> QED  BY <3>2, <4>1
        <3>4. b.index[k] = NoRequest
            BY <1>0, <3>1 DEF TickOK, k
        <3>5. ASSUME e.status = "triggered"
              PROVE  e.sel \in Selections /\ q.index[k].sel = e.sel
            <4>1. e.sel \in Selections /\ Asks(E, k, None)
                BY <1>0, <3>2, <3>5 DEF TickBatch, k
            <4>2. q.index[k] # NoRequest
                BY <4>1, AskedIsThere
            <4>3. PICK f \in Of(E, "requested") : f.key = k /\ q.index[k] = [sel |-> f.sel, eval |-> f.eval]
                BY <2>0, <3>4, <4>2 DEF Within, IndexWithin
            <4>4. f.sel = e.sel
                BY <1>0, <3>2, <4>3 DEF TickBatch, k
            <4> QED  BY <4>1, <4>3, <4>4
        <3> QED  BY <3>3, <3>5
    <2>4. ASSUME q.index[k] # NoRequest PROVE q.tick[t] # NoTick
        <3>1. CASE b.index[k] # NoRequest
            <4>1. b.tick[t] # NoTick
                BY <1>0, <3>1 DEF TickOK, k
            <4> QED  BY <4>1, TickStays
        <3>2. CASE b.index[k] = NoRequest
            <4>1. PICK f \in Of(E, "requested") : f.key = k
                BY <2>0, <2>4, <3>2 DEF Within, IndexWithin
            <4>2. \E g \in Of(E, "ticked") : g.t = t
                BY <1>0, <4>1 DEF RequestBatch, k
            <4> QED  BY <1>0, <4>2 DEF TickWithin
        <3> QED  BY <3>1, <3>2
    <2>5. Row
        BY <2>2, <2>3
    <2> QED  BY <2>1, <2>4, <2>5 DEF k
<1> QED  BY <1>1 DEF TickOK

(* What is covered stays so, while ticks are added and time passes.        *)
LEMMA CoveredLater ==
    ASSUME NEW v, NEW p, \A x \in Times : v.tick[x] # NoTick => p.tick[x] # NoTick,
           NEW u \in Times, NEW t \in Cron, t < u, NEW a \in Int, NEW b \in Int, a <= b,
           Covered(v, t, a)
    PROVE  Covered(p, t, b)
<1>1. t \in Nat \ {0} /\ Window \in Nat /\ Cron \subseteq Nat \ {0} /\ MaxTime \in Nat
    BY AutomationAssumption, Bounds
<1>2. t \in Times
    BY <1>1 DEF Times
<1>3. t - 1 \in Cron => t - 1 \in Times
    BY <1>1, <1>2 DEF Times
<1>4. t <= a - Window => t <= b - Window
    BY <1>1
<1> QED  BY <1>2, <1>3, <1>4 DEF Covered

LEMMA SkipsDone ==
    ASSUME NEW n \in Nat, NEW m, NEW b, Good(b, n, m), NEW E, Batch(b, n, m, E),
           NEW q, Within(b, E, E, q)
    PROVE  SkipOK(q, n)
<1>0. SkipOK(b, n) /\ TickWithin(b, E, E, q) /\ TickBatch(b, n, E) /\ SkipBatch(b, n, E)
    BY DEF Good, Within, Batch
<1>1. \A x \in Times : b.tick[x] # NoTick => q.tick[x] # NoTick
    BY TickStays
<1>2. ASSUME q.last.at # 0
      PROVE  q.last.at \in Cron /\ q.last.at \in Times /\ q.tick[q.last.at] # NoTick
    <2>1. CASE q.last.at = b.last.at
        BY <1>0, <1>1, <1>2, <2>1 DEF SkipOK
    <2>2. ASSUME NEW e \in Of(E, "ticked"), q.last.at = e.t
          PROVE  q.last.at \in Cron /\ q.last.at \in Times /\ q.tick[q.last.at] # NoTick
        BY <1>0, <2>2 DEF TickBatch, SkipBatch, TickWithin
    <2> QED  BY <1>0, <2>1, <2>2 DEF TickWithin
<1>3. ASSUME NEW u \in Cron \cap Times, q.tick[u] # NoTick
      PROVE  /\ q.tick[u].at \in 0 .. n
             /\ \A t \in Cron : t < u => Covered(q, t, q.tick[u].at)
    <2>1. CASE q.tick[u] = b.tick[u]
        <3>1. /\ b.tick[u].at \in 0 .. n
              /\ \A t \in Cron : t < u => Covered(b, t, b.tick[u].at)
            BY <1>0, <1>3, <2>1 DEF SkipOK
        <3>2. PICK a \in Int : a = b.tick[u].at /\ a <= a
            BY <3>1
        <3>3. \A t \in Cron : t < u => Covered(q, t, a)
            BY <1>1, <3>1, <3>2, CoveredLater
        <3> QED  BY <2>1, <3>1, <3>2, <3>3
    <2>2. CASE q.tick[u] # b.tick[u]
        <3>1. PICK e \in Of(E, "ticked") :
                e.t = u /\ q.tick[u] = [status |-> e.status, sel |-> e.sel, at |-> e.at, rv |-> e.id]
            BY <1>0, <2>2 DEF TickWithin
        <3>2. q.tick[u].at = e.at
            BY <3>1
        <3>3. /\ e.at \in 0 .. n
              /\ \A t \in Cron : t < u =>
                    Covered(b, t, e.at) \/ \E f \in Of(E, "ticked") : f.t = t
            BY <1>0, <3>1 DEF SkipBatch
        <3>4. PICK a \in Int : a = e.at /\ a <= a
            BY <3>3
        <3>5. ASSUME NEW t \in Cron, t < u PROVE Covered(q, t, a)
            <4>1. CASE Covered(b, t, a)
                BY <1>1, <3>4, <3>5, <4>1, CoveredLater
            <4>2. ASSUME NEW f \in Of(E, "ticked"), f.t = t PROVE Covered(q, t, a)
                BY <1>0, <4>2 DEF TickWithin, Covered
            <4> QED  BY <3>3, <3>4, <3>5, <4>1, <4>2
        <3> QED  BY <3>2, <3>3, <3>4, <3>5
    <2> QED  BY <2>1, <2>2
<1> QED  BY <1>2, <1>3 DEF SkipOK

LEMMA IndexDone ==
    ASSUME NEW n, NEW m, NEW b, Good(b, n, m), NEW E, Batch(b, n, m, E), NEW q, Within(b, E, E, q)
    PROVE  IndexOK(q)
<1>1. ASSUME NEW k \in RunKeys, q.run[k] # "none" PROVE q.index[k] # NoRequest
    <2>1. CASE q.run[k] = b.run[k]
        <3>1. b.index[k] # NoRequest
            BY <1>1, <2>1 DEF Good, IndexOK
        <3> QED  BY <3>1, IndexStays
    <2>2. ASSUME NEW e \in Of(E, "run"), e.key = k PROVE q.index[k] # NoRequest
        <3>1. b.index[k] # NoRequest
            BY <2>2 DEF Batch, OtherBatch
        <3> QED  BY <3>1, IndexStays
    <2> QED  BY <2>1, <2>2 DEF Within, RunWithin
<1> QED  BY <1>1 DEF IndexOK, Within, IndexWithin

LEMMA CursorDone ==
    ASSUME NEW n, NEW m, m \in Nat, m <= MaxItems, NEW b, Good(b, n, m), NEW E, Batch(b, n, m, E),
           NEW q, Within(b, E, E, q)
    PROVE  /\ CursorOK(q) /\ q.sensor.cursor \in 0 .. m /\ q.sensor.version \in Nat
           /\ b.sensor.version <= q.sensor.version
           /\ b.sensor.version = q.sensor.version => b.sensor.cursor = q.sensor.cursor
           /\ PollStep(b, q)
<1>0. /\ b.sensor.cursor \in 0 .. m /\ b.sensor.version \in Nat /\ CursorOK(b) /\ MaxItems \in Nat
      /\ SensorWithin(b, E, q) /\ SensorBatch(b, m, E)
    BY Bounds DEF Good, ValuesOK, Within, Batch
<1>1. ASSUME NEW i \in 1 .. b.sensor.cursor PROVE q.index[<<"item", i>>] # NoRequest
    <2>1. i \in Items
        BY <1>0 DEF Items
    <2>2. <<"item", i>> \in RunKeys /\ b.index[<<"item", i>>] # NoRequest
        BY <1>0, <2>1, RunKeyFacts DEF CursorOK
    <2> QED  BY <2>2, IndexStays
<1>2. CASE q.sensor = b.sensor
    <2>1. CursorOK(q)
        BY <1>1, <1>2, Zenon DEF CursorOK
    <2> QED  BY <1>0, <1>2, <2>1 DEF PollStep
<1>3. ASSUME NEW e \in Of(E, "evaluated"), RowOf(b, e) \in q.evals,
             e.expected = b.sensor.version, q.sensor.cursor = e.to,
             q.sensor.version = b.sensor.version + 1
      PROVE  /\ CursorOK(q) /\ q.sensor.cursor \in 0 .. m /\ q.sensor.version \in Nat
             /\ b.sensor.version < q.sensor.version
             /\ PollStep(b, q)
    <2>1. /\ e.from = b.sensor.cursor /\ e.to \in e.from .. m
          /\ \A i \in e.from + 1 .. e.to : Asks(E, <<"item", i>>, e.eval)
          /\ \A v \in b.evals : v.id # e.eval
        BY <1>0, <1>3 DEF SensorBatch
    <2>2. ASSUME NEW i \in 1 .. q.sensor.cursor PROVE q.index[<<"item", i>>] # NoRequest
        <3>1. CASE i <= b.sensor.cursor
            BY <1>0, <1>1, <1>3, <2>1, <3>1
        <3>2. CASE ~(i <= b.sensor.cursor)
            <4>1. i \in e.from + 1 .. e.to
                BY <1>0, <1>3, <2>1, <3>2
            <4>2. Asks(E, <<"item", i>>, e.eval)
                BY <2>1, <4>1
            <4> QED  BY <1>3, <4>2, AskedIsThere
        <3> QED  BY <3>1, <3>2
    <2>3. CursorOK(q)
        BY <2>2, Zenon DEF CursorOK
    <2>4. PollStep(b, q)
        <3> DEFINE v == RowOf(b, e)
        <3>1. v.id = e.eval /\ v.from = e.from /\ v.to = e.to /\ v.stale = FALSE
            BY <1>3 DEF RowOf
        <3>2. v \in q.evals \ b.evals
            BY <1>3, <2>1, <3>1
        <3> HIDE DEF v
        <3> QED  BY <1>3, <2>1, <3>1, <3>2 DEF PollStep
    <2> QED  BY <1>0, <1>3, <2>1, <2>3, <2>4
<1>4. CASE q.sensor # b.sensor
    <2>1. PICK e \in Of(E, "evaluated") :
            /\ RowOf(b, e) \in q.evals /\ e.expected = b.sensor.version
            /\ q.sensor.cursor = e.to /\ q.sensor.version = b.sensor.version + 1
        BY <1>0, <1>4 DEF SensorWithin
    <2>2. /\ CursorOK(q) /\ q.sensor.cursor \in 0 .. m /\ q.sensor.version \in Nat
          /\ b.sensor.version < q.sensor.version
          /\ PollStep(b, q)
        BY <1>3, <2>1
    <2> QED  BY <1>0, <2>2
<1> QED  BY <1>2, <1>4

LEMMA ChunksDone ==
    ASSUME NEW n, NEW m, NEW b, Good(b, n, m), NEW E, Batch(b, n, m, E), NEW q, Within(b, E, E, q),
           NEW r, r.chunk = q.chunk, r.index = q.index, r.keys = q.keys,
           EitherBackfill(b, q, r)
    PROVE  ChunkOK(r)
<1>0. ChunkOK(b) /\ ChunkWithin(b, E, E, q) /\ ChunkBatch(b, E) /\ MaxChunks \in Nat
    BY Bounds DEF Good, Within, Batch
<1>1. ASSUME NEW c \in ChunkIndexes
      PROVE  /\ q.chunk[c].state \in {"none", "Planned"}
             /\ q.chunk[c].state # "none" <=> <<"chunk", c>> \in q.keys
    BY <1>0 DEF ChunkOK, ChunkWithin
<1>2. ASSUME NEW c \in ChunkIndexes, q.chunk[c].state # "none"
      PROVE  /\ c < MaxConcurrent /\ q.index[<<"chunk", c>>] # NoRequest
             /\ \A d \in 0 .. c - 1 : q.chunk[d].state # "none"
    <2>0. \A d \in 0 .. c - 1 : d \in ChunkIndexes
        BY <1>0 DEF ChunkIndexes
    <2>1. CASE b.chunk[c].state # "none"
        <3>1. /\ c < MaxConcurrent /\ b.index[<<"chunk", c>>] # NoRequest
              /\ \A d \in 0 .. c - 1 : b.chunk[d].state # "none"
            BY <1>0, <2>1 DEF ChunkOK
        <3>2. <<"chunk", c>> \in RunKeys
            BY RunKeyFacts
        <3>3. q.index[<<"chunk", c>>] # NoRequest
            BY <3>1, <3>2, IndexStays
        <3> QED  BY <2>0, <3>1, <3>3, ChunkStays
    <2>2. CASE b.chunk[c].state = "none"
        <3>1. PICK e \in Of(E, "chunk") : e.c = c
            BY <1>0, <1>2, <2>2 DEF ChunkWithin
        <3>2. /\ c < MaxConcurrent /\ Asks(E, <<"chunk", c>>, None)
              /\ \A d \in 0 .. c - 1 : b.chunk[d].state # "none" \/ \E f \in Of(E, "chunk") : f.c = d
            BY <1>0, <3>1 DEF ChunkBatch
        <3>3. q.index[<<"chunk", c>>] # NoRequest
            BY <3>2, AskedIsThere
        <3>4. ASSUME NEW d \in 0 .. c - 1 PROVE q.chunk[d].state # "none"
            <4>1. CASE b.chunk[d].state # "none"
                BY <2>0, <4>1, ChunkStays
            <4>2. ASSUME NEW f \in Of(E, "chunk"), f.c = d PROVE q.chunk[d].state # "none"
                BY <1>0, <4>2 DEF ChunkWithin
            <4> QED  BY <3>2, <4>1, <4>2
        <3> QED  BY <3>2, <3>3, <3>4
    <2> QED  BY <2>1, <2>2
<1>3. /\ r.backfill.planned \in 0 .. MaxChunks
      /\ \A c \in 0 .. r.backfill.planned - 1 : q.chunk[c].state # "none"
    <2>1. CASE r.backfill = q.backfill
        BY <1>0, <2>1 DEF ChunkWithin
    <2>2. CASE r.backfill = b.backfill
        <3>1. \A c \in 0 .. b.backfill.planned - 1 : c \in ChunkIndexes /\ b.chunk[c].state # "none"
            BY <1>0 DEF ChunkOK, ChunkIndexes
        <3>2. b.backfill.planned \in 0 .. MaxChunks
            BY <1>0 DEF ChunkOK
        <3> QED  BY <2>2, <3>1, <3>2, ChunkStays
    <2> QED  BY <2>1, <2>2 DEF EitherBackfill
<1> QED  BY <1>1, <1>2, <1>3 DEF ChunkOK

LEMMA StateDone ==
    ASSUME NEW n, NEW m, NEW b, Good(b, n, m), NEW E, NEW q, Within(b, E, E, q), NEW r,
           EitherBackfill(b, q, r)
    PROVE  /\ r.backfill.state \in BackfillStates /\ r.backfill.version \in Nat
           /\ TransitionStep(b, r)
<1>1. b.backfill.state \in BackfillStates /\ b.backfill.version \in Nat /\ StateWithin(b, E, q)
    BY DEF Good, ValuesOK, Within
<1>2. CASE r.backfill.state = b.backfill.state /\ r.backfill.version = b.backfill.version
    BY <1>1, <1>2 DEF TransitionStep
<1>3. ASSUME NEW e \in Of(E, "changed"),
             IsValidTransition(b.backfill.state, e.to), e.version = b.backfill.version + 1,
             r.backfill.state = e.to, r.backfill.version = e.version
      PROVE  /\ r.backfill.state \in BackfillStates /\ r.backfill.version \in Nat
             /\ TransitionStep(b, r)
    <2>1. e.to \in BackfillStates /\ e.to # b.backfill.state
        BY <1>3 DEF IsValidTransition, BackfillStates
    <2> QED  BY <1>1, <1>3, <2>1 DEF TransitionStep
<1> QED  BY <1>1, <1>2, <1>3 DEF StateWithin, EitherBackfill

LEMMA FoldedGood ==
    ASSUME NEW n \in Nat, NEW m \in Nat, n <= MaxTime, m <= MaxItems, NEW b, Good(b, n, m), NEW E,
           Batch(b, n, m, E), NEW q, Within(b, E, E, q),
           NEW r, r = Merged(b, q)
    PROVE  /\ Good(r, n, m) /\ Later(b, r) /\ PollStep(b, r) /\ TransitionStep(b, r)
           /\ \A v \in r.evals : v \in b.evals \/ \E e \in Of(E, "evaluated") : v.id = e.eval
<1>1. Within(b, E, E, q)
    OBVIOUS
<1>2. Shape(b) /\ Shape(q)
    BY <1>1 DEF Good, Within
<1>3. /\ Shape(r)
      /\ r.def = q.def /\ r.last = q.last /\ r.tick = q.tick /\ r.sensor = q.sensor
      /\ r.evals = q.evals /\ r.chunk = q.chunk /\ r.index = q.index /\ r.run = q.run
      /\ r.keys = q.keys
      /\ EitherBackfill(b, q, r)
    BY <1>2, MergedFields
<1>4. /\ CursorOK(q) /\ q.sensor.cursor \in 0 .. m /\ q.sensor.version \in Nat
      /\ b.sensor.version <= q.sensor.version
      /\ b.sensor.version = q.sensor.version => b.sensor.cursor = q.sensor.cursor
      /\ PollStep(b, q)
    BY <1>1, CursorDone
<1>5. TickOK(q) /\ IndexOK(q)
    BY <1>1, TicksDone, IndexDone
<1>6. TickOK(r) /\ IndexOK(r) /\ CursorOK(r) /\ PollStep(b, r)
    BY <1>3, <1>4, <1>5 DEF TickOK, IndexOK, CursorOK, PollStep
<1>6a. SkipOK(r, n)
    <2>1. SkipOK(q, n)
        BY <1>1, SkipsDone
    <2> QED  BY <1>3, <2>1 DEF SkipOK, Covered
<1>7. ChunkOK(r)
    BY <1>1, <1>3, ChunksDone
<1>8. r.backfill.state \in BackfillStates /\ r.backfill.version \in Nat /\ TransitionStep(b, r)
    BY <1>1, <1>3, StateDone
<1>9. \A v \in r.evals : v \in b.evals \/ \E e \in Of(E, "evaluated") : v = RowOf(b, e)
    BY <1>1, <1>3 DEF Within, SensorWithin, RowsOf
<1>10. \A v \in r.evals : v \in b.evals \/ \E e \in Of(E, "evaluated") : v.id = e.eval
    BY <1>9 DEF RowOf
<1>11. \A v \in r.evals : v.id \in Nat
    BY <1>10 DEF Good, ValuesOK, Batch, SensorBatch
<1>12. r.last.at \in 0 .. n
    <2>1. CASE r.last.at = b.last.at
        BY <2>1 DEF Good, ValuesOK
    <2>2. ASSUME NEW e \in Of(E, "ticked"), r.last.at = e.t PROVE r.last.at \in 0 .. n
        <3>1. e.t \in Times /\ e.t <= n
            BY DEF Batch, TickBatch
        <3> QED  BY <2>2, <3>1, Bounds DEF Times
    <2> QED  BY <1>1, <1>3, <2>1, <2>2 DEF Within, TickWithin
<1>13. r.def.enabled \in BOOLEAN /\ r.def.sel \in Selections
    BY <1>1, <1>3 DEF Within, DefinitionWithin
<1>14. ValuesOK(r, n, m)
    BY <1>3, <1>4, <1>8, <1>11, <1>12, <1>13 DEF ValuesOK
<1>15. Good(r, n, m)
    BY <1>3, <1>6, <1>6a, <1>7, <1>14 DEF Good
<1>16. Later(b, r)
    <2>1. \A t \in Times : b.tick[t] # NoTick => r.tick[t] # NoTick
        BY <1>1, <1>3, TickStays
    <2>2. \A c \in ChunkIndexes : b.chunk[c].state # "none" => r.chunk[c].state # "none"
        BY <1>1, <1>3, ChunkStays
    <2>3. \A k \in RunKeys : b.index[k] # NoRequest => r.index[k] # NoRequest
        BY <1>1, <1>3, IndexStays
    <2>4. /\ b.sensor.version <= r.sensor.version
          /\ b.sensor.version = r.sensor.version => b.sensor.cursor = r.sensor.cursor
        BY <1>3, <1>4
    <2> QED  BY <2>1, <2>2, <2>3, <2>4 DEF Later
<1> QED  BY <1>6, <1>8, <1>10, <1>15, <1>16

(* A batch folded over a good projection leads to a good one.              *)
LEMMA FoldGood ==
    ASSUME NEW n \in Nat, NEW m \in Nat, n <= MaxTime, m <= MaxItems, NEW b, Good(b, n, m), NEW events,
           Len(events) \in Nat, DOMAIN events = 1 .. Len(events), NEW E, E = Range(events),
           Batch(b, n, m, E), NEW r, r = Fold(b, events)
    PROVE  /\ Good(r, n, m) /\ Later(b, r) /\ PollStep(b, r) /\ TransitionStep(b, r)
           /\ \A v \in r.evals : v \in b.evals \/ \E e \in Of(E, "evaluated") : v.id = e.eval
<1>1. PICK q : /\ Within(b, E, E, q)
               /\ Fold(b, events) = Merged(b, q)
    BY FoldWithin
<1> QED  BY <1>1, FoldedGood

(***************************************************************************)
(* Sequences of events as sets.                                            *)
(***************************************************************************)
LEMMA RangeFacts ==
    /\ \A S : \A s \in Seq(S) : Len(s) \in Nat /\ DOMAIN s = 1 .. Len(s) /\ Range(s) \subseteq S
    /\ Range(<<>>) = {}
    /\ \A x : Range(<<x>>) = {x}
    /\ \A x, y : Range(<<x, y>>) = {x, y}
<1>1. \A S : \A s \in Seq(S) : Len(s) \in Nat /\ DOMAIN s = 1 .. Len(s) /\ Range(s) \subseteq S
    BY DEF Range
<1>2. Range(<<>>) = {}
    BY DEF Range
<1>3. ASSUME NEW x PROVE Range(<<x>>) = {x}
    BY DEF Range
<1>4. ASSUME NEW x, NEW y PROVE Range(<<x, y>>) = {x, y}
    <2>1. DOMAIN <<x, y>> = {1, 2} /\ <<x, y>>[1] = x /\ <<x, y>>[2] = y
        OBVIOUS
    <2> QED  BY <2>1 DEF Range
<1> QED  BY <1>1, <1>2, <1>3, <1>4

LEMMA ConcatFacts ==
    ASSUME NEW S, NEW s \in Seq(S), NEW t \in Seq(S)
    PROVE  s \o t \in Seq(S) /\ Range(s \o t) = Range(s) \cup Range(t)
<1>1. s \o t \in Seq(S) /\ Len(s \o t) = Len(s) + Len(t)
    OBVIOUS
<1>2. /\ \A i \in 1 .. Len(s) : (s \o t)[i] = s[i]
      /\ \A i \in 1 .. Len(t) : (s \o t)[Len(s) + i] = t[i]
    OBVIOUS
<1>3. DOMAIN s = 1 .. Len(s) /\ DOMAIN t = 1 .. Len(t) /\ DOMAIN (s \o t) = 1 .. Len(s) + Len(t)
      /\ Len(s) \in Nat /\ Len(t) \in Nat
    BY <1>1
<1>4. ASSUME NEW x \in Range(s \o t) PROVE x \in Range(s) \cup Range(t)
    <2>1. PICK i \in 1 .. Len(s) + Len(t) : x = (s \o t)[i]
        BY <1>3 DEF Range
    <2>2. CASE i <= Len(s)
        BY <1>2, <1>3, <2>1, <2>2 DEF Range
    <2>3. CASE ~(i <= Len(s))
        <3>1. i - Len(s) \in 1 .. Len(t) /\ Len(s) + (i - Len(s)) = i
            BY <1>3, <2>3
        <3>2. x = t[i - Len(s)]
            BY <1>2, <2>1, <3>1
        <3> QED  BY <1>3, <3>1, <3>2 DEF Range
    <2> QED  BY <2>2, <2>3
<1>5. ASSUME NEW x \in Range(s) \cup Range(t) PROVE x \in Range(s \o t)
    <2>1. CASE x \in Range(s)
        <3>1. PICK i \in 1 .. Len(s) : x = s[i]
            BY <1>3, <2>1 DEF Range
        <3>2. x = (s \o t)[i] /\ i \in 1 .. Len(s) + Len(t)
            BY <1>2, <1>3, <3>1
        <3> QED  BY <1>3, <3>2 DEF Range
    <2>2. CASE x \in Range(t)
        <3>1. PICK i \in 1 .. Len(t) : x = t[i]
            BY <1>3, <2>2 DEF Range
        <3>2. x = (s \o t)[Len(s) + i] /\ Len(s) + i \in 1 .. Len(s) + Len(t)
            BY <1>2, <1>3, <3>1
        <3> QED  BY <1>3, <3>2 DEF Range
    <2> QED  BY <2>1, <2>2
<1> QED  BY <1>1, <1>4, <1>5

(* F holds the concatenations of the first sequences of s.                 *)
Joins(F, s, m) == F = [i \in 1 .. m |-> IF i = 1 THEN s[i] ELSE F[i - 1] \o s[i]]

LEMMA JoinedPrefixes ==
    ASSUME NEW s, NEW N \in Nat
    PROVE  \E F : Joins(F, s, N)
<1>1. ASSUME NEW m \in 0 .. N, ~\E F : Joins(F, s, m) PROVE FALSE
    <2> DEFINE T == {j \in 0 .. N : ~\E F : Joins(F, s, j)}
    <2>1. T \in SUBSET (0 .. N) /\ m \in T
        BY <1>1
    <2>2. PICK j \in T : \A y \in T : j <= y
        BY <2>1, LeastNumber
    <2>3. j \in 0 .. N /\ ~\E F : Joins(F, s, j)
        BY <2>2
    <2>4. j # 0
        <3>1. Joins([i \in 1 .. 0 |-> s], s, 0)
            BY DEF Joins
        <3> QED  BY <2>3, <3>1
    <2> HIDE DEF T
    <2>5. j - 1 \in 0 .. N /\ j - 1 \notin T
        BY <2>2, <2>3, <2>4
    <2>6. PICK F : Joins(F, s, j - 1)
        BY <2>5 DEF T
    <2> DEFINE end == IF j = 1 THEN s[1] ELSE F[j - 1] \o s[j]
    <2> HIDE DEF end
    <2> DEFINE H == [i \in 1 .. j |-> IF i = j THEN end ELSE F[i]]
    <2>7. Joins(H, s, j)
        <3>1. ASSUME NEW i \in 1 .. j
              PROVE  H[i] = IF i = 1 THEN s[i] ELSE H[i - 1] \o s[i]
            <4>1. CASE i = j
                <5>1. i # 1 => H[i - 1] = F[i - 1]
                    BY <2>3, <4>1
                <5>2. H[i] = end
                    BY <4>1
                <5> HIDE DEF H
                <5> QED  BY <4>1, <5>1, <5>2 DEF end
            <4>2. CASE i # j
                <5>1. i \in 1 .. j - 1 /\ H[i] = F[i]
                    BY <2>3, <4>2
                <5>2. i # 1 => H[i - 1] = F[i - 1]
                    BY <2>3, <4>2
                <5>3. F[i] = IF i = 1 THEN s[i] ELSE F[i - 1] \o s[i]
                    BY <2>6, <5>1 DEF Joins
                <5> HIDE DEF H
                <5> QED  BY <5>1, <5>2, <5>3
            <4> QED  BY <4>1, <4>2
        <3> QED  BY <3>1 DEF Joins
    <2> QED  BY <2>3, <2>7
<1> QED  BY <1>1

LEMMA FlattenFacts ==
    ASSUME NEW S, NEW s \in Seq(Seq(S))
    PROVE  /\ FlattenSeq(s) \in Seq(S)
           /\ Range(FlattenSeq(s)) = UNION {Range(s[i]) : i \in 1 .. Len(s)}
<1> DEFINE U(m) == UNION {Range(s[i]) : i \in 1 .. m}
           F == CHOOSE G : Joins(G, s, Len(s))
<1>0. Len(s) \in Nat /\ \A i \in 1 .. Len(s) : s[i] \in Seq(S)
    OBVIOUS
<1>1. CASE Len(s) = 0
    <2>1. s = <<>>
        BY <1>1
    <2>2. FlattenSeq(s) = <<>>
        BY <1>1, <2>1 DEF FlattenSeq
    <2>3. 1 .. Len(s) = {}
        BY <1>1
    <2>4. UNION {Range(s[i]) : i \in 1 .. Len(s)} = {}
        BY <2>3, Zenon
    <2>5. <<>> \in Seq(S)
        OBVIOUS
    <2> QED  BY <2>2, <2>4, <2>5, RangeFacts
<1>2. Joins(F, s, Len(s))
    <2>1. \E G : Joins(G, s, Len(s))
        BY <1>0, JoinedPrefixes
    <2> QED  BY <2>1
<1>3. Len(s) # 0 => FlattenSeq(s) = F[Len(s)]
    BY DEF FlattenSeq, Joins
<1> HIDE DEF F
<1> DEFINE N == Len(s)
<1>4. F = [i \in 1 .. N |-> IF i = 1 THEN s[i] ELSE F[i - 1] \o s[i]]
    BY <1>2 DEF Joins
<1>6. ASSUME NEW m \in 1 .. N PROVE F[m] \in Seq(S) /\ Range(F[m]) = U(m)
    <2> SUFFICES ASSUME ~(F[m] \in Seq(S) /\ Range(F[m]) = U(m)) PROVE FALSE
        OBVIOUS
    <2> DEFINE T == {j \in 0 .. N : j # 0 /\ ~(F[j] \in Seq(S) /\ Range(F[j]) = U(j))}
    <2> HIDE DEF U
    <2>1. T \in SUBSET (0 .. N) /\ m \in T
        BY <1>0
    <2>2. PICK j \in T : \A y \in T : j <= y
        BY <1>0, <2>1, LeastNumber
    <2>3. j \in 1 .. N /\ ~(F[j] \in Seq(S) /\ Range(F[j]) = U(j))
        BY <1>0, <2>2
    <2> HIDE DEF T
    <2>4. CASE j = 1
        <3>1. F[1] = s[1] /\ s[1] \in Seq(S)
            BY <1>0, <1>4, <2>3, <2>4
        <3>2. U(1) = Range(s[1])
            BY DEF U
        <3> QED  BY <2>3, <2>4, <3>1, <3>2
    <2>5. CASE j # 1
        <3>1. j - 1 \in 0 .. N /\ j - 1 # 0 /\ j - 1 \notin T
            BY <1>0, <2>2, <2>3, <2>5
        <3>2. F[j - 1] \in Seq(S) /\ Range(F[j - 1]) = U(j - 1)
            BY <3>1 DEF T
        <3>3. F[j] = F[j - 1] \o s[j] /\ s[j] \in Seq(S)
            BY <1>0, <1>4, <2>3, <2>5
        <3>4. U(j) = U(j - 1) \cup Range(s[j])
            <4>1. 1 .. j = (1 .. j - 1) \cup {j}
                BY <2>3
            <4> QED  BY <4>1 DEF U
        <3> QED  BY <2>3, <3>2, <3>3, <3>4, ConcatFacts
    <2> QED  BY <2>4, <2>5
<1>7. CASE N # 0
    <2>1. N \in 1 .. N
        BY <1>0, <1>7
    <2> QED  BY <1>3, <1>6, <1>7, <2>1
<1> QED  BY <1>1, <1>7

(***************************************************************************)
(* Events get their ids when all of a batch have been made.                *)
(***************************************************************************)
TickContents ==
    [type : {"ticked"}, t : Int, at : Int, status : {"triggered", "skipped"}, sel : Selections \cup {None}]
RequestContents == [type : {"requested"}, key : RunKeys, sel : Sels, eval : Nat \cup {None}]
EvaluationContents ==
    [type : {"evaluated"}, eval : Nat, from : Nat, to : Nat, expected : Nat, epoch : Nat]
ChunkContents == [type : {"chunk"}, c : Int]
ChangeContents == [type : {"changed"}, from : BackfillStates, to : BackfillStates, version : Nat]
RunContents == [type : {"run"}, key : RunKeys]
UpsertContents == [type : {"upserted"}, enabled : BOOLEAN, sel : Selections]
Contents == TickContents \cup RequestContents \cup EvaluationContents \cup ChunkContents
            \cup ChangeContents \cup RunContents \cup UpsertContents

(* e says what x says.                                                     *)
Says(x, e) ==
    /\ e.type = x.type /\ e.type \in EventTypes
    /\ e.type = "ticked" => e.t = x.t /\ e.at = x.at /\ e.status = x.status /\ e.sel = x.sel
    /\ e.type = "requested" => e.key = x.key /\ e.sel = x.sel /\ e.eval = x.eval
    /\ e.type = "evaluated" => /\ e.eval = x.eval /\ e.from = x.from /\ e.to = x.to
                               /\ e.expected = x.expected /\ e.epoch = x.epoch
    /\ e.type = "chunk" => e.c = x.c
    /\ e.type = "changed" => e.from = x.from /\ e.to = x.to /\ e.version = x.version
    /\ e.type = "run" => e.key = x.key
    /\ e.type = "upserted" => e.enabled = x.enabled /\ e.sel = x.sel

Carries(E, X) ==
    /\ \A e \in E : \E x \in X : Says(x, e)
    /\ \A x \in X : \E e \in E : Says(x, e)

LEMMA IdSays ==
    ASSUME NEW x \in Contents, NEW y
    PROVE  Says(x, WithId(x, y)) /\ WithId(x, y).id = y
<1>0. WithId(x, y).id = y
    BY DEF WithId
<1>1. CASE x \in TickContents
    BY <1>1 DEF TickContents, WithId, Says, EventTypes
<1>2. CASE x \in RequestContents
    BY <1>2 DEF RequestContents, WithId, Says, EventTypes
<1>3. CASE x \in EvaluationContents
    BY <1>3 DEF EvaluationContents, WithId, Says, EventTypes
<1>4. CASE x \in ChunkContents
    BY <1>4 DEF ChunkContents, WithId, Says, EventTypes
<1>5. CASE x \in ChangeContents
    BY <1>5 DEF ChangeContents, WithId, Says, EventTypes
<1>6. CASE x \in RunContents
    BY <1>6 DEF RunContents, WithId, Says, EventTypes
<1>7. CASE x \in UpsertContents
    BY <1>7 DEF UpsertContents, WithId, Says, EventTypes
<1> QED  BY <1>0, <1>1, <1>2, <1>3, <1>4, <1>5, <1>6, <1>7 DEF Contents

LEMMA IdsCarry ==
    ASSUME lastId \in Nat, NEW events \in Seq(Contents), NEW ids, ids = WithIds(events)
    PROVE  /\ Len(ids) \in Nat /\ Len(ids) = Len(events)
           /\ DOMAIN ids = 1 .. Len(ids)
           /\ \A i \in 1 .. Len(ids) : ids[i].id \in 1 .. lastId + Len(events)
           /\ Carries(Range(ids), Range(events))
<1> DEFINE n == Len(events)
<1>2. n \in Nat /\ DOMAIN events = 1 .. n /\ \A i \in 1 .. n : events[i] \in Contents
    OBVIOUS
<1>3. ids = [i \in 1 .. n |-> WithId(events[i], lastId + i)]
    BY <1>2 DEF WithIds
<1> HIDE DEF n
<1>4. Len(ids) = n /\ DOMAIN ids = 1 .. n
    BY <1>2, <1>3
<1>5. \A i \in 1 .. n : Says(events[i], ids[i]) /\ ids[i].id = lastId + i
    BY <1>2, <1>3, IdSays
<1>6. \A i \in 1 .. n : ids[i].id \in 1 .. lastId + n
    BY <1>2, <1>5
<1>7. Carries(Range(ids), Range(events))
    BY <1>2, <1>4, <1>5 DEF Carries, Range
<1> QED  BY <1>2, <1>4, <1>6, <1>7 DEF n

LEMMA CarriedOf ==
    ASSUME NEW X, NEW E, Carries(E, X), NEW type
    PROVE  /\ \A e \in Of(E, type) : \E x \in Of(X, type) : Says(x, e)
           /\ \A x \in Of(X, type) : \E e \in Of(E, type) : Says(x, e)
BY DEF Carries, Of, Says

LEMMA CarriedAsks ==
    ASSUME NEW X, NEW E, Carries(E, X), NEW key, NEW eval, Asks(X, key, eval)
    PROVE  Asks(E, key, eval)
<1>1. PICK x \in Of(X, "requested") : x.key = key /\ x.eval = eval
    BY DEF Asks
<1>2. PICK e \in Of(E, "requested") : Says(x, e)
    BY <1>1, CarriedOf
<1> QED  BY <1>1, <1>2 DEF Asks, Says, Of

(* A batch stays one when its events get their ids.                        *)
LEMMA BatchCarried ==
    ASSUME NEW p, NEW n, NEW m, NEW X, NEW E, Carries(E, X), Batch(p, n, m, X)
    PROVE  Batch(p, n, m, E)
<1>1. TickBatch(p, n, E)
    <2> SUFFICES ASSUME NEW e \in Of(E, "ticked")
                 PROVE  /\ e.t \in Times /\ e.t <= n /\ e.status \in {"skipped", "triggered"}
                        /\ e.status = "triggered" => e.sel \in Selections /\ Asks(E, <<"sched", e.t>>, None)
                        /\ \A f \in Of(E, "requested") : f.key = <<"sched", e.t>> => f.sel = e.sel
        BY Zenon DEF TickBatch
    <2>1. PICK x \in Of(X, "ticked") : Says(x, e)
        BY CarriedOf
    <2>2. e.t = x.t /\ e.status = x.status /\ e.sel = x.sel
        BY <2>1 DEF Says, Of
    <2>3. /\ x.t \in Times /\ x.t <= n /\ x.status \in {"skipped", "triggered"}
          /\ x.status = "triggered" => x.sel \in Selections /\ Asks(X, <<"sched", x.t>>, None)
          /\ \A f \in Of(X, "requested") : f.key = <<"sched", x.t>> => f.sel = x.sel
        BY DEF Batch, TickBatch
    <2>4. ASSUME NEW f \in Of(E, "requested"), f.key = <<"sched", e.t>> PROVE f.sel = e.sel
        <3>1. PICK g \in Of(X, "requested") : Says(g, f)
            BY CarriedOf
        <3>2. f.key = g.key /\ f.sel = g.sel
            BY <3>1 DEF Says, Of
        <3> QED  BY <2>2, <2>3, <2>4, <3>2
    <2>6. e.status = "triggered" => e.sel \in Selections /\ Asks(E, <<"sched", e.t>>, None)
        BY <2>2, <2>3, CarriedAsks
    <2> QED  BY <2>2, <2>3, <2>4, <2>6
<1>1a. SkipBatch(p, n, E)
    <2> SUFFICES ASSUME NEW e \in Of(E, "ticked")
                 PROVE  /\ e.t \in Cron /\ e.at \in 0 .. n
                        /\ \A t \in Cron : t < e.t =>
                                Covered(p, t, e.at) \/ \E f \in Of(E, "ticked") : f.t = t
        BY Zenon DEF SkipBatch
    <2>1. PICK x \in Of(X, "ticked") : Says(x, e)
        BY CarriedOf
    <2>2. e.t = x.t /\ e.at = x.at
        BY <2>1 DEF Says, Of
    <2>3. /\ x.t \in Cron /\ x.at \in 0 .. n
          /\ \A t \in Cron : t < x.t =>
                Covered(p, t, x.at) \/ \E f \in Of(X, "ticked") : f.t = t
        BY DEF Batch, SkipBatch
    <2>4. ASSUME NEW f \in Of(X, "ticked") PROVE \E g \in Of(E, "ticked") : g.t = f.t
        <3>1. PICK g \in Of(E, "ticked") : Says(f, g)
            BY CarriedOf
        <3> QED  BY <3>1 DEF Says, Of
    <2> QED  BY <2>2, <2>3, <2>4
<1>2. RequestBatch(E)
    <2> SUFFICES ASSUME NEW e \in Of(E, "requested")
                 PROVE  /\ e.key \in RunKeys /\ e.sel \in Sels /\ e.eval \in Nat \cup {None}
                        /\ \A t \in Times : e.key = <<"sched", t>> => \E f \in Of(E, "ticked") : f.t = t
        BY DEF RequestBatch
    <2>1. PICK x \in Of(X, "requested") : Says(x, e)
        BY CarriedOf
    <2>2. e.key = x.key /\ e.sel = x.sel /\ e.eval = x.eval
        BY <2>1 DEF Says, Of
    <2>3. /\ x.key \in RunKeys /\ x.sel \in Sels /\ x.eval \in Nat \cup {None}
          /\ \A t \in Times : x.key = <<"sched", t>> => \E f \in Of(X, "ticked") : f.t = t
        BY DEF Batch, RequestBatch
    <2>4. ASSUME NEW f \in Of(X, "ticked") PROVE \E g \in Of(E, "ticked") : g.t = f.t
        <3>1. PICK g \in Of(E, "ticked") : Says(f, g)
            BY CarriedOf
        <3> QED  BY <3>1 DEF Says, Of
    <2> QED  BY <2>2, <2>3, <2>4
<1>3. SensorBatch(p, m, E)
    <2> SUFFICES ASSUME NEW e \in Of(E, "evaluated")
                 PROVE  /\ e.from \in Nat /\ e.to \in e.from .. m /\ e.expected \in Nat /\ e.eval \in Nat
                        /\ e.expected <= p.sensor.version
                        /\ e.expected = p.sensor.version => e.from = p.sensor.cursor
                        /\ \A i \in e.from + 1 .. e.to : Asks(E, <<"item", i>>, e.eval)
                        /\ \A v \in p.evals : v.id # e.eval
                        /\ \A f \in Of(E, "evaluated") :
                            /\ f.from = e.from /\ f.to = e.to /\ f.expected = e.expected
                            /\ f.eval = e.eval /\ f.epoch = e.epoch
        BY DEF SensorBatch
    <2>1. PICK x \in Of(X, "evaluated") : Says(x, e)
        BY CarriedOf
    <2>2. /\ e.eval = x.eval /\ e.from = x.from /\ e.to = x.to
          /\ e.expected = x.expected /\ e.epoch = x.epoch
        BY <2>1 DEF Says, Of
    <2>3. /\ x.from \in Nat /\ x.to \in x.from .. m /\ x.expected \in Nat /\ x.eval \in Nat
          /\ x.expected <= p.sensor.version
          /\ x.expected = p.sensor.version => x.from = p.sensor.cursor
          /\ \A v \in p.evals : v.id # x.eval
        BY DEF Batch, SensorBatch
    <2>4. /\ \A i \in x.from + 1 .. x.to : Asks(X, <<"item", i>>, x.eval)
          /\ \A f \in Of(X, "evaluated") :
                /\ f.from = x.from /\ f.to = x.to /\ f.expected = x.expected
                /\ f.eval = x.eval /\ f.epoch = x.epoch
        BY DEF Batch, SensorBatch
    <2>5. ASSUME NEW f \in Of(E, "evaluated")
          PROVE  /\ f.from = e.from /\ f.to = e.to /\ f.expected = e.expected
                 /\ f.eval = e.eval /\ f.epoch = e.epoch
        <3>1. PICK g \in Of(X, "evaluated") : Says(g, f)
            BY CarriedOf
        <3>2. /\ f.eval = g.eval /\ f.from = g.from /\ f.to = g.to
              /\ f.expected = g.expected /\ f.epoch = g.epoch
            BY <3>1 DEF Says, Of
        <3> QED  BY <2>2, <2>4, <3>2
    <2>6. ASSUME NEW i \in e.from + 1 .. e.to PROVE Asks(E, <<"item", i>>, e.eval)
        <3>1. Asks(X, <<"item", i>>, e.eval)
            BY <2>2, <2>4
        <3> QED  BY <3>1, CarriedAsks
    <2> QED  BY <2>2, <2>3, <2>5, <2>6
<1>4. ChunkBatch(p, E)
    <2> SUFFICES ASSUME NEW e \in Of(E, "chunk")
                 PROVE  /\ e.c \in ChunkIndexes /\ e.c < MaxConcurrent
                        /\ Asks(E, <<"chunk", e.c>>, None)
                        /\ \A d \in 0 .. e.c - 1 :
                                p.chunk[d].state # "none" \/ \E f \in Of(E, "chunk") : f.c = d
        BY Zenon DEF ChunkBatch
    <2>1. PICK x \in Of(X, "chunk") : Says(x, e)
        BY CarriedOf
    <2>2. e.c = x.c
        BY <2>1 DEF Says, Of
    <2>3. /\ x.c \in ChunkIndexes /\ x.c < MaxConcurrent
          /\ Asks(X, <<"chunk", x.c>>, None)
          /\ \A d \in 0 .. x.c - 1 : p.chunk[d].state # "none" \/ \E f \in Of(X, "chunk") : f.c = d
        BY DEF Batch, ChunkBatch
    <2>4. ASSUME NEW f \in Of(X, "chunk") PROVE \E g \in Of(E, "chunk") : g.c = f.c
        <3>1. PICK g \in Of(E, "chunk") : Says(f, g)
            BY CarriedOf
        <3> QED  BY <3>1 DEF Says, Of
    <2>5. Asks(E, <<"chunk", e.c>>, None)
        BY <2>2, <2>3, CarriedAsks
    <2> QED  BY <2>2, <2>3, <2>4, <2>5
<1>5. OtherBatch(p, E)
    <2>0. /\ \A e \in X : e.type \in EventTypes
          /\ \A e \in Of(X, "run") : e.key \in RunKeys /\ p.index[e.key] # NoRequest
          /\ \A e \in Of(X, "changed") : \A f \in Of(X, "changed") : f.version = e.version
          /\ \A e \in Of(X, "upserted") : e.enabled \in BOOLEAN /\ e.sel \in Selections
        BY DEF Batch, OtherBatch
    <2>1. \A e \in E : e.type \in EventTypes
        BY DEF Carries, Says
    <2>2. ASSUME NEW e \in Of(E, "run") PROVE e.key \in RunKeys /\ p.index[e.key] # NoRequest
        <3>1. PICK x \in Of(X, "run") : Says(x, e)
            BY CarriedOf
        <3>2. e.key = x.key
            BY <3>1 DEF Says, Of
        <3> QED  BY <2>0, <3>2
    <2>3. ASSUME NEW e \in Of(E, "changed"), NEW f \in Of(E, "changed") PROVE f.version = e.version
        <3>1. PICK x \in Of(X, "changed") : Says(x, e)
            BY CarriedOf
        <3>2. PICK y \in Of(X, "changed") : Says(y, f)
            BY CarriedOf
        <3>3. e.version = x.version /\ f.version = y.version
            BY <3>1, <3>2 DEF Says, Of
        <3> QED  BY <2>0, <3>3
    <2>4. ASSUME NEW e \in Of(E, "upserted") PROVE e.enabled \in BOOLEAN /\ e.sel \in Selections
        <3>1. PICK x \in Of(X, "upserted") : Says(x, e)
            BY CarriedOf
        <3>2. e.enabled = x.enabled /\ e.sel = x.sel
            BY <3>1 DEF Says, Of
        <3> QED  BY <2>0, <3>2
    <2> QED  BY <2>1, <2>2, <2>3, <2>4 DEF OtherBatch
<1> QED  BY <1>1, <1>1a, <1>2, <1>3, <1>4, <1>5 DEF Batch

(***************************************************************************)
(* What a reconciliation makes of a projection.                            *)
(***************************************************************************)
LEMMA TwoNumbers ==
    ASSUME NEW a \in Int, NEW b \in Int
    PROVE  /\ Min({a, b}) \in {a, b} /\ Min({a, b}) <= a /\ Min({a, b}) <= b
           /\ Max({a, b}) \in {a, b} /\ a <= Max({a, b}) /\ b <= Max({a, b})
<1>1. {a, b} \in SUBSET Int /\ {a, b} # {}
    OBVIOUS
<1>2. IsFiniteSet({a, b})
    <2>1. IsFiniteSet({a})
        BY FS_Singleton
    <2>2. IsFiniteSet({a} \cup {b})
        BY <2>1, FS_AddElement
    <2>3. {a, b} = {a} \cup {b}
        OBVIOUS
    <2> QED  BY <2>2, <2>3
<1>3. Min({a, b}) \in {a, b} /\ \A y \in {a, b} : Min({a, b}) <= y
    BY <1>1, <1>2, MinFacts
<1>4. Max({a, b}) \in {a, b} /\ \A y \in {a, b} : y <= Max({a, b})
    BY <1>1, <1>2, MaxFacts
<1> QED  BY <1>3, <1>4

(* A finite set in ascending order is the whole set.                       *)
LEMMA AscendingFacts ==
    ASSUME NEW S \in SUBSET Nat, IsFiniteSet(S)
    PROVE  \E n \in Nat :
                /\ DOMAIN Ascending(S) = 1 .. n
                /\ \A i \in 1 .. n : Ascending(S)[i] \in S
                /\ \A c \in S : \E i \in 1 .. n : Ascending(S)[i] = c
<1> DEFINE n == Cardinality(S)
           rank == [c \in S |-> Cardinality({d \in S : d < c})]
           T == 0 .. n - 1
<1>1. n \in Nat
    BY FS_CardinalityType
<1>2. ASSUME NEW c \in S
      PROVE  /\ IsFiniteSet({d \in S : d < c}) /\ rank[c] = Cardinality({d \in S : d < c})
             /\ rank[c] \in T
    <2>1. {d \in S : d < c} \in SUBSET S /\ c \notin {d \in S : d < c}
        OBVIOUS
    <2>2. PICK L : L = {d \in S : d < c}
        OBVIOUS
    <2>3. /\ IsFiniteSet(L) /\ Cardinality(L) <= n /\ (n = Cardinality(L) => S = L)
        BY <2>1, <2>2, FS_Subset
    <2>4. Cardinality(L) \in Nat /\ Cardinality(L) # n
        BY <2>1, <2>2, <2>3, FS_CardinalityType
    <2>5. Cardinality(L) \in T
        BY <1>1, <2>3, <2>4
    <2> QED  BY <2>2, <2>3, <2>5
<1>2a. \A c \in S : c \in Int /\ rank[c] \in Int
    BY <1>1, <1>2
<1> HIDE DEF rank, T
<1>3. ASSUME NEW c \in S, NEW d \in S, c < d PROVE rank[c] < rank[d]
    <2>1. PICK L, M : L = {x \in S : x < c} /\ M = {x \in S : x < d}
        OBVIOUS
    <2>2. L \in SUBSET M /\ c \in M /\ c \notin L
        <3>1. ASSUME NEW x \in S, x < c PROVE x < d
            BY <1>2a, <1>3, <3>1
        <3>2. ~(c < c)
            BY <1>2a
        <3> QED  BY <1>3, <2>1, <3>1, <3>2
    <2>3. IsFiniteSet(M) /\ rank[c] = Cardinality(L) /\ rank[d] = Cardinality(M)
        BY <1>2, <2>1
    <2>4. Cardinality(L) <= Cardinality(M) /\ (Cardinality(M) = Cardinality(L) => M = L)
        BY <2>2, <2>3, FS_Subset
    <2>5. rank[c] \in Int /\ rank[d] \in Int
        BY <1>2a
    <2> QED  BY <2>2, <2>3, <2>4, <2>5
<1>4. \A c, d \in S : rank[c] = rank[d] => c = d
    <2>1. ASSUME NEW c \in S, NEW d \in S, rank[c] = rank[d], c # d PROVE FALSE
        <3>1. rank[c] \in Int /\ rank[d] \in Int /\ (c < d \/ d < c)
            BY <1>2a, <2>1
        <3> QED  BY <1>3, <2>1, <3>1
    <2> QED  BY <2>1
<1>5. rank \in Surjection(S, T)
    <2>1. rank \in Injection(S, T)
        <3>1. rank \in [S -> T]
            BY <1>2 DEF rank
        <3> QED  BY <1>4, <3>1 DEF Injection, IsInjective
    <2>2. IsFiniteSet(T) /\ Cardinality(T) = n
        <3>1. PICK k \in Int : k = n - 1
            BY <1>1
        <3>2. IsFiniteSet(0 .. k) /\ Cardinality(0 .. k) = IF 0 > k THEN 0 ELSE k - 0 + 1
            BY FS_Interval
        <3>3. (IF 0 > k THEN 0 ELSE k - 0 + 1) = n
            BY <1>1, <3>1
        <3> QED  BY <3>1, <3>2, <3>3 DEF T
    <2> HIDE DEF T, n
    <2>3. PICK r \in Injection(S, T) : r = rank
        BY <2>1
    <2>4. Cardinality(S) = Cardinality(T) <=> r \in Surjection(S, T)
        BY <2>2, FS_Injection
    <2> QED  BY <2>2, <2>3, <2>4 DEF n
<1>6. \A i \in T : \E c \in S : rank[c] = i
    BY <1>5 DEF Surjection
<1>7. Ascending(S) = [i \in 1 .. n |-> CHOOSE c \in S : Cardinality({d \in S : d < c}) = i - 1]
    BY DEF Ascending
<1>8. ASSUME NEW i \in 1 .. n
      PROVE  Ascending(S)[i] \in S /\ rank[Ascending(S)[i]] = i - 1
    <2>1. i - 1 \in T
        BY <1>1 DEF T
    <2>2. \E c \in S : Cardinality({d \in S : d < c}) = i - 1
        BY <1>2, <1>6, <2>1
    <2>3. Ascending(S)[i] = CHOOSE c \in S : Cardinality({d \in S : d < c}) = i - 1
        BY <1>7
    <2>4. Ascending(S)[i] \in S /\ Cardinality({d \in S : d < Ascending(S)[i]}) = i - 1
        BY <2>2, <2>3
    <2> QED  BY <1>2, <2>4
<1>9. ASSUME NEW c \in S PROVE \E i \in 1 .. n : Ascending(S)[i] = c
    <2>0. rank[c] \in 0 .. n - 1
        BY <1>2 DEF T
    <2>1. rank[c] + 1 \in 1 .. n /\ (rank[c] + 1) - 1 = rank[c]
        <3> HIDE DEF n
        <3> QED  BY <1>1, <2>0
    <2>2. PICK i \in 1 .. n : i = rank[c] + 1 /\ i - 1 = rank[c]
        BY <2>1
    <2> QED  BY <1>4, <1>8, <2>2
<1>10. DOMAIN Ascending(S) = 1 .. n
    BY <1>7
<1> QED  BY <1>1, <1>8, <1>9, <1>10

(* The firings F are due at moment `at`, and what is before one of them is *)
(* due too or covered.                                                     *)
Due(v, at, F) ==
    /\ F \subseteq Cron
    /\ \A u \in F : /\ u \in 1 .. at
                     /\ \A t \in Cron : t < u => t \in F \/ Covered(v, t, at)

(* The search for firings starts behind the covered ones.                  *)
LEMMA StartCovers ==
    ASSUME NEW at \in Nat, NEW m \in Nat, NEW v, Good(v, at, m), NEW t \in Cron, t <= Start(v, at)
    PROVE  Covered(v, t, at)
<1>1. /\ v.last.at \in Nat /\ SkipOK(v, at) /\ Window \in Nat /\ t \in Nat /\ t # 0
      /\ \A c \in Cron : c \in Nat /\ c # 0
    BY AutomationAssumption DEF Good, ValuesOK
<1>2. CASE v.last.at = 0
    BY <1>2 DEF Start, Covered
<1>3. CASE v.last.at # 0
    <2>1. PICK a \in Int, b \in Int : a = v.last.at + 1 /\ b = at - Window
        BY <1>1
    <2>2. Start(v, at) = Max({a, b}) /\ Max({a, b}) \in {a, b}
        BY <1>3, <2>1, TwoNumbers DEF Start
    <2>3. t <= at - Window \/ t <= v.last.at + 1
        BY <2>1, <2>2
    <2>4. PICK u \in Cron \cap Times : u = v.last.at /\ v.tick[u] # NoTick
        BY <1>1, <1>3 DEF SkipOK
    <2>5. /\ v.tick[u].at \in 0 .. at
          /\ \A c \in Cron : c < u => Covered(v, c, v.tick[u].at)
        BY <1>1, <2>4 DEF SkipOK
    <2>6. CASE t <= at - Window
        BY <2>6 DEF Covered
    <2>7. CASE t = v.last.at + 1
        <3>1. t - 1 = u
            BY <1>1, <2>4, <2>7
        <3> QED  BY <2>4, <3>1 DEF Covered
    <2>8. CASE t = v.last.at
        BY <2>4, <2>8 DEF Covered
    <2>9. CASE t < v.last.at
        <3>1. PICK c \in Int : c = v.tick[u].at /\ c <= at
            BY <2>5
        <3>2. Covered(v, t, c) /\ t < u
            BY <2>4, <2>5, <2>9, <3>1
        <3>3. u \in Times /\ at \in Int
            OBVIOUS
        <3>4. \A x \in Times : v.tick[x] # NoTick => v.tick[x] # NoTick
            OBVIOUS
        <3> QED  BY <3>1, <3>2, <3>3, <3>4, CoveredLater
    <2> QED  BY <1>1, <2>3, <2>6, <2>7, <2>8, <2>9
<1> QED  BY <1>2, <1>3

LEMMA DueFacts ==
    ASSUME NEW at \in Nat, NEW m \in Nat, NEW v, Good(v, at, m)
    PROVE  \E F : /\ Due(v, at, F) /\ IsFiniteSet(F) /\ F \in SUBSET Nat
                  /\ DueTicks(v, at) = Ascending(F)
<1> DEFINE lo == Start(v, at)
           G == {t \in Cron : lo < t /\ t <= at}
           F == FirstOf(G, MaxCatchup)
<1>1. /\ \A c \in Cron : c \in Nat /\ c # 0
      /\ MaxCatchup \in Nat
    BY AutomationAssumption
<1>2. lo \in Int
    <2>1. v.last.at \in Nat /\ Window \in Nat
        BY AutomationAssumption DEF Good, ValuesOK
    <2>2. PICK a \in Int, b \in Int : a = v.last.at + 1 /\ b = at - Window
        BY <2>1
    <2>3. Max({a, b}) \in Int
        BY TwoNumbers
    <2> QED  BY <2>1, <2>2, <2>3 DEF Start
<1>3. DueTicks(v, at) = Ascending(F)
    BY DEF DueTicks
<1> HIDE DEF lo
<1>4. G \in SUBSET (1 .. at) /\ F \in SUBSET G
    BY <1>1 DEF FirstOf
<1>5. IsFiniteSet(1 .. at)
    BY FS_Interval
<1>6. IsFiniteSet(G) /\ IsFiniteSet(F)
    BY <1>4, <1>5, FS_Subset
<1>7. ASSUME NEW u \in F, NEW t \in Cron, t < u PROVE t \in F \/ Covered(v, t, at)
    <2>1. CASE t <= lo
        BY <2>1, StartCovers DEF lo
    <2>2. CASE ~(t <= lo)
        <3>1. u \in G /\ u \in Nat /\ t \in Nat
            BY <1>1, <1>4
        <3>2. t \in G
            BY <1>2, <1>7, <2>2, <3>1
        <3>3. PICK L, M : L = {d \in G : d < t} /\ M = {d \in G : d < u}
            OBVIOUS
        <3>4. L \in SUBSET M /\ M \in SUBSET G
            <4>1. ASSUME NEW x \in G, x < t PROVE x < u
                <5>1. x \in Nat
                    BY <1>4
                <5> QED  BY <1>7, <3>1, <4>1, <5>1
            <4> HIDE DEF G
            <4> QED  BY <3>3, <4>1
        <3>5. IsFiniteSet(M) /\ IsFiniteSet(L) /\ Cardinality(L) <= Cardinality(M)
            BY <1>6, <3>4, FS_Subset
        <3>6. Cardinality(L) \in Nat /\ Cardinality(M) \in Nat
            BY <3>5, FS_CardinalityType
        <3>7. Cardinality(M) < MaxCatchup
            BY <3>3 DEF FirstOf
        <3>8. Cardinality(L) < MaxCatchup
            BY <1>1, <3>5, <3>6, <3>7
        <3> QED  BY <3>2, <3>3, <3>8 DEF FirstOf
    <2> QED  BY <2>1, <2>2
<1> HIDE DEF G, F
<1>8. Due(v, at, F)
    <2>1. F \subseteq Cron
        BY <1>4 DEF G
    <2>2. \A u \in F : u \in 1 .. at
        BY <1>4
    <2> QED  BY <1>7, <2>1, <2>2 DEF Due
<1>9. F \in SUBSET Nat
    BY <1>4
<1> QED  BY <1>3, <1>6, <1>8, <1>9

(* The events of the schedule controller at moment `at`, for the firings F. *)
SchedulePart(v, at, F, S) ==
    /\ \A e \in S : e.type \in {"ticked", "requested"}
    /\ \A e \in Of(S, "ticked") :
        /\ e.t \in F /\ e.at = at /\ e.status \in {"triggered", "skipped"}
        /\ e.status = "triggered" => v.def.enabled
        /\ v.def.enabled => e.sel = v.def.sel
    /\ \A e \in Of(S, "requested") :
        /\ v.def.enabled /\ e.sel = v.def.sel /\ e.eval = None
        /\ \E t \in F : e.key = <<"sched", t>>
    /\ \A t \in F :
        /\ \E e \in Of(S, "ticked") : e.t = t
        /\ v.def.enabled => Asks(S, <<"sched", t>>, None)

TickOf(t, at, status, sel) == [type |-> "ticked", t |-> t, at |-> at, status |-> status, sel |-> sel]

LEMMA TickEventsFacts ==
    ASSUME NEW v, DefinitionWithin(v), NEW at \in Int, NEW t \in Times
    PROVE  /\ TickEvents(v, at, t) \in Seq(Contents)
           /\ v.def.enabled => Range(TickEvents(v, at, t)) =
                {TickOf(t, at, "triggered", v.def.sel), Requested(<<"sched", t>>, v.def.sel, None)}
           /\ ~v.def.enabled => Range(TickEvents(v, at, t)) = {TickOf(t, at, "skipped", None)}
<1> DEFINE a == TickOf(t, at, "triggered", v.def.sel)
           b == Requested(<<"sched", t>>, v.def.sel, None)
           c == TickOf(t, at, "skipped", None)
<1>0. t \in Int
    BY Bounds DEF Times
<1>1. a \in Contents /\ c \in Contents
    BY <1>0 DEF Contents, TickContents, TickOf, DefinitionWithin
<1>2. b \in Contents
    <2>1. <<"sched", t>> \in RunKeys
        BY DEF RunKeys
    <2> QED  BY <2>1 DEF Contents, RequestContents, Sels, Requested, DefinitionWithin
<1>3. TickEvents(v, at, t) = IF v.def.enabled THEN <<a, b>> ELSE <<c>>
    BY DEF TickEvents, TickOf
<1> HIDE DEF a, b, c
<1>4. TickEvents(v, at, t) \in Seq(Contents)
    BY <1>1, <1>2, <1>3
<1>5. /\ v.def.enabled => Range(TickEvents(v, at, t)) = {a, b}
      /\ ~v.def.enabled => Range(TickEvents(v, at, t)) = {c}
    BY <1>3, RangeFacts
<1> QED  BY <1>4, <1>5 DEF a, b, c

LEMMA SkippedTickFacts ==
    ASSUME NEW v, DefinitionWithin(v), NEW at \in Int, NEW t \in Times, ~v.def.enabled,
           NEW c, c = TickOf(t, at, "skipped", None)
    PROVE  Range(TickEvents(v, at, t)) = {c}
<1>1. TickEvents(v, at, t) = <<c>>
    BY DEF TickEvents, TickOf
<1> QED  BY <1>1, RangeFacts

LEMMA ScheduleFacts ==
    ASSUME NEW at \in Nat, at <= MaxTime, NEW m \in Nat, NEW v, Good(v, at, m)
    PROVE  /\ ScheduleEvents(v, at) \in Seq(Contents)
           /\ \E F : Due(v, at, F) /\ SchedulePart(v, at, F, Range(ScheduleEvents(v, at)))
<1>0. PICK F : /\ Due(v, at, F) /\ IsFiniteSet(F) /\ F \in SUBSET Nat
              /\ DueTicks(v, at) = Ascending(F)
    BY DueFacts
<1>00. PICK d : d = DueTicks(v, at)
    OBVIOUS
<1>1. PICK n \in Nat : /\ DOMAIN d = 1 .. n
                       /\ \A i \in 1 .. n : d[i] \in F
                       /\ \A c \in F : \E i \in 1 .. n : d[i] = c
    BY <1>0, <1>00, AscendingFacts
<1>2. DefinitionWithin(v) /\ at \in Int
    BY DEF Good, ValuesOK, DefinitionWithin
<1> DEFINE s == [i \in 1 .. n |-> TickEvents(v, at, d[i])]
           S == Range(ScheduleEvents(v, at))
<1>3. ScheduleEvents(v, at) = FlattenSeq(s)
    <2>1. [i \in DOMAIN DueTicks(v, at) |-> TickEvents(v, at, DueTicks(v, at)[i])] = s
        BY <1>00, <1>1
    <2> QED  BY <2>1 DEF ScheduleEvents
<1>4. \A t \in F : t \in Times
    BY <1>0, Bounds DEF Due, Times
<1>5. ASSUME NEW i \in 1 .. n
      PROVE  s[i] = TickEvents(v, at, d[i]) /\ s[i] \in Seq(Contents)
    <2>1. PICK t \in Times : t = d[i]
        BY <1>1, <1>4
    <2>2. TickEvents(v, at, t) \in Seq(Contents)
        BY <1>2, TickEventsFacts
    <2>3. s[i] = TickEvents(v, at, d[i])
        OBVIOUS
    <2> HIDE DEF s
    <2> QED  BY <2>1, <2>2, <2>3
<1>6. s \in Seq(Seq(Contents)) /\ Len(s) = n
    BY <1>5
<1> HIDE DEF s
<1>7. /\ ScheduleEvents(v, at) \in Seq(Contents)
      /\ S = UNION {Range(s[i]) : i \in 1 .. n}
    BY <1>3, <1>6, FlattenFacts
<1> HIDE DEF S
<1>8. \A e \in S : \E i \in 1 .. n : e \in Range(TickEvents(v, at, d[i]))
    BY <1>5, <1>7
<1>9. \A i \in 1 .. n : \A e \in Range(TickEvents(v, at, d[i])) : e \in S
    BY <1>5, <1>7
<1>10. SchedulePart(v, at, F, S)
    <2>1. ASSUME NEW e \in S
          PROVE  /\ e.type \in {"ticked", "requested"}
                 /\ e.type = "ticked" =>
                        /\ e.t \in F /\ e.at = at /\ e.status \in {"triggered", "skipped"}
                        /\ e.status = "triggered" => v.def.enabled
                        /\ v.def.enabled => e.sel = v.def.sel
                 /\ e.type = "requested" =>
                        /\ v.def.enabled /\ e.sel = v.def.sel /\ e.eval = None
                        /\ \E t \in F : e.key = <<"sched", t>>
        <3>1. PICK t \in F : t \in Times /\ e \in Range(TickEvents(v, at, t))
            <4>1. PICK i \in 1 .. n : e \in Range(TickEvents(v, at, d[i]))
                BY <1>8
            <4>2. d[i] \in Times /\ d[i] \in F
                BY <1>1, <1>4
            <4> QED  BY <4>1, <4>2
        <3>3. CASE v.def.enabled
            <4> DEFINE a == TickOf(t, at, "triggered", v.def.sel)
                       b == Requested(<<"sched", t>>, v.def.sel, None)
            <4>1. Range(TickEvents(v, at, t)) = {a, b}
                BY <1>2, <3>1, <3>3, TickEventsFacts
            <4>2. CASE e = a
                BY <3>1, <3>3, <4>2 DEF TickOf
            <4>3. CASE e = b
                BY <3>1, <3>3, <4>3 DEF Requested
            <4> HIDE DEF a, b
            <4> QED  BY <3>1, <4>1, <4>2, <4>3
        <3>4. CASE ~v.def.enabled
            <4>0. PICK c : c = TickOf(t, at, "skipped", None)
                OBVIOUS
            <4>1. Range(TickEvents(v, at, t)) = {c}
                BY <1>2, <3>1, <3>4, <4>0, SkippedTickFacts
            <4>2. e = c
                BY <3>1, <4>1
            <4> QED  BY <3>1, <3>4, <4>0, <4>2 DEF TickOf
        <3> QED  BY <3>3, <3>4
    <2>2. ASSUME NEW t \in F
          PROVE  /\ \E e \in Of(S, "ticked") : e.t = t
                 /\ v.def.enabled => Asks(S, <<"sched", t>>, None)
        <3>0. PICK i \in 1 .. n : d[i] = t
            BY <1>1
        <3>1. t \in Times
            BY <1>4
        <3>2. \A e \in Range(TickEvents(v, at, t)) : e \in S
            BY <1>9, <3>0
        <3>3. CASE v.def.enabled
            <4> DEFINE a == TickOf(t, at, "triggered", v.def.sel)
                       b == Requested(<<"sched", t>>, v.def.sel, None)
            <4>0. Range(TickEvents(v, at, t)) = {a, b}
                BY <1>2, <3>1, <3>3, TickEventsFacts
            <4>1. a \in S /\ b \in S
                BY <3>2, <4>0
            <4>2. a.type = "ticked" /\ a.t = t /\ b.type = "requested" /\ b.key = <<"sched", t>> /\ b.eval = None
                BY DEF TickOf, Requested
            <4> HIDE DEF a, b
            <4> QED  BY <4>1, <4>2 DEF Of, Asks
        <3>4. CASE ~v.def.enabled
            <4>0. PICK c : c = TickOf(t, at, "skipped", None)
                OBVIOUS
            <4>3. Range(TickEvents(v, at, t)) = {c}
                BY <1>2, <3>1, <3>4, <4>0, SkippedTickFacts
            <4>1. c \in S
                BY <3>2, <4>3
            <4>2. c.type = "ticked" /\ c.t = t
                BY <4>0 DEF TickOf
            <4> QED  BY <3>4, <4>1, <4>2 DEF Of
        <3> QED  BY <3>3, <3>4
    <2> QED  BY <2>1, <2>2 DEF SchedulePart, Of
<1> QED  BY <1>0, <1>7, <1>10 DEF S

(* Those of the sensor controller: one evaluation and its requests.        *)
SensorPart(v, ep, to, S) ==
    /\ \A e \in S : e.type \in {"evaluated", "requested"}
    /\ \A e \in Of(S, "evaluated") :
        /\ e.eval = lastId /\ e.from = v.sensor.cursor /\ e.to = to
        /\ e.expected = v.sensor.version /\ e.epoch = ep
        /\ \A i \in e.from + 1 .. e.to : Asks(S, <<"item", i>>, e.eval)
    /\ \A e \in Of(S, "requested") :
        /\ e.sel = "item" /\ e.eval = lastId
        /\ \E i \in Items : e.key = <<"item", i>>

LEMMA SensorFacts ==
    ASSUME NEW at \in Nat, items \in Nat, items <= MaxItems, lastId \in Nat, NEW ep \in Nat,
           NEW v, Good(v, at, items), NEW to \in {v.sensor.cursor, items}
    PROVE  /\ SensorEvents(v, ep, to) \in Seq(Contents)
           /\ SensorPart(v, ep, to, Range(SensorEvents(v, ep, to)))
<1>1. /\ v.sensor.cursor \in Nat /\ v.sensor.cursor <= to /\ v.sensor.version \in Nat
      /\ to \in Nat /\ to <= items
    BY DEF Good, ValuesOK
<1> DEFINE cursor == v.sensor.cursor
           n == to - cursor
           ev == [type |-> "evaluated", eval |-> lastId, from |-> v.sensor.cursor, to |-> to,
                  expected |-> v.sensor.version, epoch |-> ep]
           s == [i \in 1 .. n |-> Requested(<<"item", v.sensor.cursor + i>>, "item", lastId)]
           S == Range(SensorEvents(v, ep, to))
<1>2. SensorEvents(v, ep, to) = <<ev>> \o s
    BY DEF SensorEvents
<1>3. ev \in Contents
    BY <1>1 DEF Contents, EvaluationContents
<1>4. ASSUME NEW i \in 1 .. n
      PROVE  /\ s[i] = Requested(<<"item", cursor + i>>, "item", lastId)
             /\ s[i] \in Contents /\ cursor + i \in Items
    <2>1. cursor + i \in Items
        BY <1>1, Bounds DEF Items
    <2>2. <<"item", cursor + i>> \in RunKeys
        BY <2>1 DEF RunKeys
    <2>3. s[i] = Requested(<<"item", cursor + i>>, "item", lastId)
        OBVIOUS
    <2> HIDE DEF s
    <2> QED  BY <2>1, <2>2, <2>3 DEF Contents, RequestContents, Sels, Requested
<1>5. n \in Nat
    BY <1>1
<1>6. s \in Seq(Contents) /\ Len(s) = n /\ DOMAIN s = 1 .. n
    <2>1. \A i \in 1 .. n : Requested(<<"item", cursor + i>>, "item", lastId) \in Contents
        BY <1>4
    <2>2. s = [i \in 1 .. n |-> Requested(<<"item", cursor + i>>, "item", lastId)]
        OBVIOUS
    <2> HIDE DEF n, cursor, s
    <2>3. s \in [1 .. n -> Contents] /\ DOMAIN s = 1 .. n
        BY <2>1, <2>2
    <2> QED  BY <1>5, <2>3
<1> HIDE DEF s
<1>7. <<ev>> \in Seq(Contents)
    BY <1>3
<1>8. SensorEvents(v, ep, to) \in Seq(Contents) /\ S = {ev} \cup Range(s)
    <2> HIDE DEF ev
    <2>1. Range(<<ev>>) = {ev}
        BY RangeFacts
    <2>2. PICK h \in Seq(Contents), u \in Seq(Contents) : h = <<ev>> /\ u = s
        BY <1>6, <1>7
    <2>3. h \o u \in Seq(Contents) /\ Range(h \o u) = Range(h) \cup Range(u)
        BY ConcatFacts
    <2>4. SensorEvents(v, ep, to) = h \o u
        BY <1>2, <2>2
    <2> QED  BY <2>1, <2>2, <2>3, <2>4
<1>9. ASSUME NEW e \in Range(s)
      PROVE  \E i \in Items : e = Requested(<<"item", i>>, "item", lastId)
    <2>1. PICK i \in 1 .. n : e = s[i]
        BY <1>6 DEF Range
    <2> QED  BY <1>4, <2>1
<1>10. ASSUME NEW i \in cursor + 1 .. to PROVE Asks(S, <<"item", i>>, lastId)
    <2>1. PICK j \in 1 .. n : i = cursor + j
        <3>1. i - cursor \in 1 .. n /\ i = cursor + (i - cursor)
            BY <1>1
        <3> QED  BY <3>1
    <2>2. PICK f : f = s[j]
        OBVIOUS
    <2>3. f = Requested(<<"item", i>>, "item", lastId)
        BY <1>4, <2>1, <2>2
    <2>4. f.type = "requested" /\ f.key = <<"item", i>> /\ f.eval = lastId
        BY <2>3 DEF Requested
    <2>5. f \in S
        BY <1>6, <1>8, <2>2 DEF Range
    <2> QED  BY <2>4, <2>5 DEF Asks, Of
<1> HIDE DEF S
<1>11. ASSUME NEW e \in S, e.type = "evaluated" PROVE e = ev
    BY <1>8, <1>9, <1>11 DEF Requested
<1>12. ASSUME NEW e \in S, e.type = "requested"
       PROVE  \E i \in Items : e = Requested(<<"item", i>>, "item", lastId)
    <2>1. ev.type # "requested"
        OBVIOUS
    <2> HIDE DEF ev
    <2> QED  BY <1>8, <1>9, <1>12, <2>1
<1>13. \A e \in S : e.type \in {"evaluated", "requested"}
    BY <1>8, <1>9 DEF Requested
<1>14. ASSUME NEW e \in S, e.type = "evaluated"
       PROVE  /\ e.eval = lastId /\ e.from = v.sensor.cursor /\ e.to = to
              /\ e.expected = v.sensor.version /\ e.epoch = ep
              /\ \A i \in e.from + 1 .. e.to : Asks(S, <<"item", i>>, e.eval)
    <2>1. /\ e.eval = lastId /\ e.from = v.sensor.cursor /\ e.to = to
          /\ e.expected = v.sensor.version /\ e.epoch = ep
        BY <1>11, <1>14
    <2> QED  BY <1>10, <2>1
<1>15. ASSUME NEW e \in S, e.type = "requested"
       PROVE  e.sel = "item" /\ e.eval = lastId /\ \E i \in Items : e.key = <<"item", i>>
    <2>1. PICK i \in Items : e = Requested(<<"item", i>>, "item", lastId)
        BY <1>12, <1>15
    <2> QED  BY <2>1 DEF Requested
<1>16. SensorPart(v, ep, to, S)
    BY <1>13, <1>14, <1>15 DEF SensorPart, Of
<1> QED  BY <1>8, <1>16 DEF S

LEMMA Below ==
    ASSUME NEW a \in Int, NEW b \in Int, NEW c \in a .. b
    PROVE  Cardinality({d \in a .. b : d < c}) = c - a
<1>1. PICK x \in Int : x = c - 1
    OBVIOUS
<1>2. {d \in a .. b : d < c} = a .. x
    BY <1>1
<1>3. Cardinality(a .. x) = IF a > x THEN 0 ELSE x - a + 1
    BY FS_Interval
<1>4. Cardinality(a .. x) = c - a
    BY <1>1, <1>3
<1> QED  BY <1>2, <1>4

(* s is the numbers from a to b.                                           *)
Counts(s, a, b, n) ==
    /\ s = [i \in 1 .. n |-> a + i - 1]
    /\ \A i \in 1 .. n : a + i - 1 \in a .. b
    /\ \A c \in a .. b : c - a + 1 \in 1 .. n

LEMMA AscendingInterval ==
    ASSUME NEW a \in Nat, NEW b \in Int
    PROVE  \E n \in Nat : Counts(Ascending(a .. b), a, b, n)
<1> DEFINE n == Cardinality(a .. b)
           S == a .. b
<1>1. n = IF a > b THEN 0 ELSE b - a + 1
    BY FS_Interval
<1>2. n \in Nat
    BY <1>1
<1>3. ASSUME NEW c \in S PROVE Cardinality({d \in S : d < c}) = c - a
    BY Below
<1>4. ASSUME NEW i \in 1 .. n
      PROVE  (CHOOSE c \in S : Cardinality({d \in S : d < c}) = i - 1) = a + i - 1
    <2>1. a + i - 1 \in S
        BY <1>1
    <2>2. \A c \in S : Cardinality({d \in S : d < c}) = i - 1 <=> c = a + i - 1
        BY <1>3
    <2> HIDE DEF S
    <2> QED  BY <2>1, <2>2
<1>5. Ascending(S) = [i \in 1 .. n |-> CHOOSE c \in S : Cardinality({d \in S : d < c}) = i - 1]
    BY DEF Ascending
<1>6. Ascending(S) = [i \in 1 .. n |-> a + i - 1]
    <2> HIDE DEF S, n
    <2> QED  BY <1>4, <1>5
<1>7. /\ \A i \in 1 .. n : a + i - 1 \in a .. b
      /\ \A c \in a .. b : c - a + 1 \in 1 .. n
    BY <1>1
<1>8. Counts(Ascending(a .. b), a, b, n)
    BY <1>6, <1>7 DEF Counts
<1> QED  BY <1>2, <1>8

(* The chunks that have rows are the first ones.                           *)
LEMMA PlannedPrefix ==
    ASSUME NEW p, ChunkOK(p)
    PROVE  \E k \in 0 .. MaxChunks :
                /\ \A c \in ChunkIndexes : p.chunk[c].state # "none" <=> c < k
                /\ k <= MaxConcurrent /\ p.backfill.planned <= k
<1> DEFINE k == NextGap(p, 0)
<1>1. /\ k \in 0 .. MaxChunks
      /\ \A c \in 0 .. k - 1 : p.chunk[c].state # "none"
      /\ k = MaxChunks \/ p.chunk[k].state = "none"
    BY Bounds, Gap
<1> HIDE DEF k
<1>2. MaxChunks \in Nat /\ MaxConcurrent \in Nat /\ k \in Nat
    BY <1>1, Bounds, AutomationAssumption
<1>3. ASSUME NEW c \in ChunkIndexes PROVE p.chunk[c].state # "none" <=> c < k
    <2>1. c \in 0 .. MaxChunks - 1
        BY DEF ChunkIndexes
    <2>2. CASE c < k
        BY <1>1, <1>2, <2>1, <2>2
    <2>3. CASE ~(c < k)
        <3>1. k \in ChunkIndexes /\ p.chunk[k].state = "none"
            BY <1>1, <1>2, <2>1, <2>3 DEF ChunkIndexes
        <3>2. c = k \/ k \in 0 .. c - 1
            BY <1>2, <2>1, <2>3
        <3> QED  BY <2>3, <3>1, <3>2 DEF ChunkOK
    <2> QED  BY <2>2, <2>3
<1>4. k <= MaxConcurrent
    <2>1. CASE k = 0
        BY <1>2, <2>1
    <2>2. CASE k # 0
        <3>1. k - 1 \in ChunkIndexes /\ p.chunk[k - 1].state # "none"
            BY <1>1, <1>2, <2>2 DEF ChunkIndexes
        <3>2. k - 1 < MaxConcurrent
            BY <3>1 DEF ChunkOK
        <3> QED  BY <1>2, <3>2
    <2> QED  BY <2>1, <2>2
<1>5. p.backfill.planned <= k
    <2>1. /\ p.backfill.planned \in 0 .. MaxChunks
          /\ \A c \in 0 .. p.backfill.planned - 1 : p.chunk[c].state # "none"
        BY DEF ChunkOK
    <2>2. ASSUME k < p.backfill.planned PROVE FALSE
        <3>1. k \in 0 .. p.backfill.planned - 1 /\ k # MaxChunks
            BY <1>2, <2>1, <2>2
        <3> QED  BY <1>1, <2>1, <3>1
    <2> QED  BY <1>2, <2>1, <2>2
<1> QED  BY <1>1, <1>3, <1>4, <1>5

(* Those of the backfill controller: chunks with their requests.           *)
BackfillPart(v, S) ==
    /\ \A e \in S : e.type \in {"chunk", "requested"}
    /\ \A e \in Of(S, "chunk") :
        /\ e.c \in ChunkIndexes /\ e.c < MaxConcurrent
        /\ Asks(S, <<"chunk", e.c>>, None)
        /\ \A d \in 0 .. e.c - 1 : v.chunk[d].state # "none" \/ \E f \in Of(S, "chunk") : f.c = d
    /\ \A e \in Of(S, "requested") :
        /\ e.sel = "chunk" /\ e.eval = None
        /\ \E c \in ChunkIndexes : e.key = <<"chunk", c>>

ChunkOf(c) == [type |-> "chunk", c |-> c]

LEMMA PlanChunkFacts ==
    ASSUME NEW c \in ChunkIndexes
    PROVE  /\ PlanChunk(c) \in Seq(Contents)
           /\ Range(PlanChunk(c)) = {ChunkOf(c), Requested(<<"chunk", c>>, "chunk", None)}
<1> DEFINE a == ChunkOf(c)
           b == Requested(<<"chunk", c>>, "chunk", None)
<1>1. a \in Contents
    BY Bounds DEF ChunkOf, Contents, ChunkContents, ChunkIndexes
<1>2. b \in Contents
    <2>1. <<"chunk", c>> \in RunKeys
        BY DEF RunKeys
    <2> QED  BY <2>1 DEF Contents, RequestContents, Sels, Requested
<1>3. PlanChunk(c) = <<a, b>>
    BY DEF PlanChunk, ChunkOf
<1> HIDE DEF a, b
<1>4. Range(<<a, b>>) = {a, b} /\ <<a, b>> \in Seq(Contents)
    BY <1>1, <1>2, RangeFacts
<1> QED  BY <1>3, <1>4 DEF a, b

(* The chunks to be planned follow the ones that are and fit the limit.    *)
LEMMA PlannedInterval ==
    ASSUME scene \in Scenes, NEW v, ChunkOK(v)
    PROVE  LET room == MaxConcurrent - CountActive(v)
               missing == {c \in v.backfill.planned .. scene.chunks - 1 : v.chunk[c].state = "none"}
           IN  \E k \in Nat, b \in Int :
                /\ {c \in missing : Cardinality({d \in missing : d < c}) < room} = k .. b
                /\ b < MaxConcurrent /\ b < MaxChunks
                /\ \A c \in ChunkIndexes : v.chunk[c].state # "none" <=> c < k
<1> DEFINE room == MaxConcurrent - CountActive(v)
           missing == {c \in v.backfill.planned .. scene.chunks - 1 : v.chunk[c].state = "none"}
<1>1. PICK k \in 0 .. MaxChunks :
            /\ \A c \in ChunkIndexes : v.chunk[c].state # "none" <=> c < k
            /\ k <= MaxConcurrent /\ v.backfill.planned <= k
    BY PlannedPrefix
<1>2. /\ MaxChunks \in Nat /\ MaxConcurrent \in Nat /\ k \in Nat
      /\ scene.chunks \in Nat /\ scene.chunks <= MaxChunks
      /\ v.backfill.planned \in Nat
    <2>1. v.backfill.planned \in 0 .. MaxChunks
        BY DEF ChunkOK
    <2> QED  BY <1>1, <2>1, Bounds, AutomationAssumption
<1>3. CountActive(v) = k
    <2> DEFINE active == {c \in ChunkIndexes :
                            \/ v.chunk[c].state \in {"Planned", "Running"}
                            \/ v.chunk[c].state # "none" /\ v.run[<<"chunk", c>>] = "active"}
    <2>1. \A c \in ChunkIndexes : v.chunk[c].state # "none" <=> v.chunk[c].state = "Planned"
        BY DEF ChunkOK
    <2>2. active = {c \in ChunkIndexes : c < k}
        BY <1>1, <2>1
    <2>3. {c \in ChunkIndexes : c < k} = 0 .. k - 1
        BY <1>1, <1>2 DEF ChunkIndexes
    <2>4. Cardinality(0 .. k - 1) = k
        <3>1. PICK x \in Int : x = k - 1
            BY <1>2
        <3> QED  BY <1>2, <3>1, FS_Interval
    <2> QED  BY <2>2, <2>3, <2>4 DEF CountActive
<1>4. missing = k .. scene.chunks - 1
    <2>1. \A c \in v.backfill.planned .. scene.chunks - 1 : c \in ChunkIndexes
        BY <1>2 DEF ChunkIndexes
    <2>2. \A c \in v.backfill.planned .. scene.chunks - 1 : v.chunk[c].state = "none" <=> ~(c < k)
        BY <1>1, <2>1
    <2> QED  BY <1>1, <1>2, <2>2
<1> DEFINE end == scene.chunks - 1
           b == IF scene.chunks <= MaxConcurrent THEN scene.chunks - 1 ELSE MaxConcurrent - 1
<1>5. ASSUME NEW c \in k .. end
      PROVE  Cardinality({d \in k .. end : d < c}) = c - k
    <2>1. PICK a \in Int, x \in Int : a = k /\ x = end /\ c \in a .. x
        BY <1>2
    <2>2. Cardinality({d \in a .. x : d < c}) = c - a
        BY <2>1, Below
    <2> QED  BY <2>1, <2>2
<1> HIDE DEF missing, room
<1>6. room = MaxConcurrent - k
    BY <1>3 DEF room
<1>7. {c \in missing : Cardinality({d \in missing : d < c}) < room}
      = {c \in k .. end : Cardinality({d \in k .. end : d < c}) < MaxConcurrent - k}
    BY <1>4, <1>6
<1>8. {c \in k .. end : Cardinality({d \in k .. end : d < c}) < MaxConcurrent - k}
      = {c \in k .. end : c - k < MaxConcurrent - k}
    BY <1>5
<1>9. {c \in k .. end : c - k < MaxConcurrent - k} = k .. b
    BY <1>2
<1>10. b \in Int /\ b < MaxConcurrent /\ b < MaxChunks
    BY <1>2
<1> QED  BY <1>1, <1>2, <1>7, <1>8, <1>9, <1>10 DEF missing, room

LEMMA BackfillFacts ==
    ASSUME scene \in Scenes, NEW v, ChunkOK(v)
    PROVE  BackfillEvents(v) \in Seq(Contents) /\ BackfillPart(v, Range(BackfillEvents(v)))
<1> DEFINE room == MaxConcurrent - CountActive(v)
           missing == {c \in v.backfill.planned .. scene.chunks - 1 : v.chunk[c].state = "none"}
           planned == FirstOf(missing, room)
           order == Ascending(planned)
           S == Range(BackfillEvents(v))
<1>1. CASE v.backfill.state # "Running"
    <2>1. BackfillEvents(v) = <<>>
        BY <1>1 DEF BackfillEvents
    <2>2. <<>> \in Seq(Contents)
        OBVIOUS
    <2>3. BackfillPart(v, {})
        BY DEF BackfillPart, Of
    <2> QED  BY <2>1, <2>2, <2>3, RangeFacts
<1>2. CASE v.backfill.state = "Running"
    <2>1. BackfillEvents(v) = FlattenSeq([i \in DOMAIN order |-> PlanChunk(order[i])])
        BY <1>2 DEF BackfillEvents
    <2>2. PICK k \in Nat, b \in Int :
            /\ planned = k .. b
            /\ b < MaxConcurrent /\ b < MaxChunks
            /\ \A c \in ChunkIndexes : v.chunk[c].state # "none" <=> c < k
        BY PlannedInterval DEF FirstOf
    <2> HIDE DEF planned
    <2>3. PICK n \in Nat : /\ order = [i \in 1 .. n |-> k + i - 1]
                           /\ \A i \in 1 .. n : k + i - 1 \in k .. b
                           /\ \A c \in k .. b : c - k + 1 \in 1 .. n
        <3>1. PICK n \in Nat : Counts(Ascending(k .. b), k, b, n)
            BY AscendingInterval
        <3> QED  BY <2>2, <3>1 DEF Counts
    <2>4. MaxChunks \in Nat /\ MaxConcurrent \in Nat
        BY Bounds, AutomationAssumption
    <2>5. \A c \in k .. b : c \in ChunkIndexes /\ c < MaxConcurrent
        BY <2>2, <2>4 DEF ChunkIndexes
    <2> DEFINE s == [i \in 1 .. n |-> PlanChunk(k + i - 1)]
    <2>6. [i \in DOMAIN order |-> PlanChunk(order[i])] = s
        BY <2>3
    <2>7. ASSUME NEW i \in 1 .. n
          PROVE  s[i] = PlanChunk(k + i - 1) /\ s[i] \in Seq(Contents)
        <3>1. PICK c \in ChunkIndexes : c = k + i - 1
            BY <2>3, <2>5
        <3>2. PlanChunk(c) \in Seq(Contents)
            BY PlanChunkFacts
        <3>3. s[i] = PlanChunk(k + i - 1)
            OBVIOUS
        <3> HIDE DEF s
        <3> QED  BY <3>1, <3>2, <3>3
    <2>8. s \in Seq(Seq(Contents)) /\ Len(s) = n
        BY <2>7
    <2> HIDE DEF s
    <2>9. BackfillEvents(v) \in Seq(Contents) /\ S = UNION {Range(s[i]) : i \in 1 .. n}
        <3>1. /\ FlattenSeq(s) \in Seq(Contents)
              /\ Range(FlattenSeq(s)) = UNION {Range(s[i]) : i \in 1 .. Len(s)}
            BY <2>8, FlattenFacts
        <3>2. BackfillEvents(v) = FlattenSeq(s)
            BY <2>1, <2>6
        <3> QED  BY <2>8, <3>1, <3>2
    <2> HIDE DEF S
    <2>10. ASSUME NEW e \in S
           PROVE  \E c \in k .. b : e \in {ChunkOf(c), Requested(<<"chunk", c>>, "chunk", None)}
        <3>1. PICK i \in 1 .. n : e \in Range(PlanChunk(k + i - 1))
            BY <2>7, <2>9
        <3>2. PICK c \in k .. b : c = k + i - 1
            BY <2>3
        <3>3. Range(PlanChunk(c)) = {ChunkOf(c), Requested(<<"chunk", c>>, "chunk", None)}
            BY <2>5, PlanChunkFacts
        <3> QED  BY <3>1, <3>2, <3>3
    <2>11. ASSUME NEW c \in k .. b
           PROVE  ChunkOf(c) \in S /\ Requested(<<"chunk", c>>, "chunk", None) \in S
        <3>1. PICK i \in 1 .. n : k + i - 1 = c
            <4>1. c - k + 1 \in 1 .. n /\ k + (c - k + 1) - 1 = c
                BY <2>3
            <4> QED  BY <4>1
        <3>2. Range(PlanChunk(c)) = {ChunkOf(c), Requested(<<"chunk", c>>, "chunk", None)}
            BY <2>5, PlanChunkFacts
        <3>3. Range(s[i]) = Range(PlanChunk(c)) /\ Range(s[i]) \subseteq S
            BY <2>7, <2>9, <3>1
        <3> QED  BY <3>2, <3>3
    <2>12. ASSUME NEW e \in S
           PROVE  \/ e.type = "chunk" /\ e.c \in k .. b
                  \/ /\ e.type = "requested" /\ e.sel = "chunk" /\ e.eval = None
                     /\ \E c \in k .. b : e.key = <<"chunk", c>>
        <3>1. PICK c \in k .. b : e \in {ChunkOf(c), Requested(<<"chunk", c>>, "chunk", None)}
            BY <2>10
        <3>2. CASE e = ChunkOf(c)
            BY <3>2 DEF ChunkOf
        <3>3. CASE e = Requested(<<"chunk", c>>, "chunk", None)
            BY <3>3 DEF Requested
        <3> QED  BY <3>1, <3>2, <3>3
    <2>13. ASSUME NEW c \in k .. b
           PROVE  (\E f \in Of(S, "chunk") : f.c = c) /\ Asks(S, <<"chunk", c>>, None)
        <3>1. PICK f \in S, g \in S : f = ChunkOf(c) /\ g = Requested(<<"chunk", c>>, "chunk", None)
            BY <2>11
        <3>2. f.type = "chunk" /\ f.c = c
            BY <3>1 DEF ChunkOf
        <3>3. g.type = "requested" /\ g.key = <<"chunk", c>> /\ g.eval = None
            BY <3>1 DEF Requested
        <3> QED  BY <3>2, <3>3 DEF Of, Asks
    <2>14. ASSUME NEW e \in Of(S, "chunk")
           PROVE  /\ e.c \in ChunkIndexes /\ e.c < MaxConcurrent
                  /\ Asks(S, <<"chunk", e.c>>, None)
                  /\ \A d \in 0 .. e.c - 1 :
                        v.chunk[d].state # "none" \/ \E f \in Of(S, "chunk") : f.c = d
        <3>1. e.c \in k .. b
            BY <2>12 DEF Of
        <3>2. ASSUME NEW d \in 0 .. e.c - 1
              PROVE  v.chunk[d].state # "none" \/ \E f \in Of(S, "chunk") : f.c = d
            <4>1. CASE d < k
                <5>1. d \in ChunkIndexes
                    BY <2>4, <2>5, <3>1 DEF ChunkIndexes
                <5> QED  BY <2>2, <4>1, <5>1
            <4>2. CASE ~(d < k)
                <5>1. d \in k .. b
                    BY <3>1, <4>2
                <5> QED  BY <2>13, <5>1
            <4> QED  BY <4>1, <4>2
        <3> QED  BY <2>5, <2>13, <3>1, <3>2
    <2>15. ASSUME NEW e \in Of(S, "requested")
           PROVE  /\ e.sel = "chunk" /\ e.eval = None
                  /\ \E c \in ChunkIndexes : e.key = <<"chunk", c>>
        BY <2>5, <2>12 DEF Of
    <2>16. BackfillPart(v, S)
        <3>1. \A e \in S : e.type \in {"chunk", "requested"}
            BY <2>12
        <3> QED  BY <2>14, <2>15, <3>1 DEF BackfillPart
    <2> QED  BY <2>9, <2>16 DEF S
<1> QED  BY <1>1, <1>2

(* Those of the run request processor: runs that were requested.           *)
RunPart(v, S) ==
    \A e \in S : e.type = "run" /\ e.key \in RunKeys /\ v.index[e.key] # NoRequest

LEMMA FiniteKeys == IsFiniteSet(RunKeys)
<1>1. IsFiniteSet(Times) /\ IsFiniteSet(Items) /\ IsFiniteSet(ChunkIndexes)
    <2>1. PICK x \in Int : x = MaxChunks - 1
        BY Bounds
    <2>2. IsFiniteSet(0 .. x)
        BY FS_Interval
    <2> QED  BY <2>1, <2>2, Bounds, FS_Interval DEF Times, Items, ChunkIndexes
<1>2. IsFiniteSet({"sched"}) /\ IsFiniteSet({"item"}) /\ IsFiniteSet({"chunk"})
    BY FS_Singleton
<1>3. /\ IsFiniteSet({"sched"} \X Times) /\ IsFiniteSet({"item"} \X Items)
      /\ IsFiniteSet({"chunk"} \X ChunkIndexes)
    BY <1>1, <1>2, FS_Product
<1> QED  BY <1>3, FS_Union DEF RunKeys

LEMMA RunFacts ==
    ASSUME NEW v
    PROVE  RunEvents(v) \in Seq(Contents) /\ RunPart(v, Range(RunEvents(v)))
<1> DEFINE due == {k \in RunKeys :
                        v.index[k] # NoRequest /\ v.run[k] = "none" /\ Resolves(v, k)}
           n == Cardinality(due)
           order == SetToSeq(due)
           s == [i \in 1 .. n |-> [type |-> "run", key |-> order[i]]]
<1>1. IsFiniteSet(due)
    <2>1. due \in SUBSET RunKeys
        OBVIOUS
    <2> QED  BY <2>1, FiniteKeys, FS_Subset
<1>2. \A k \in due : k \in RunKeys /\ v.index[k] # NoRequest
    OBVIOUS
<1>3. RunEvents(v) = [i \in DOMAIN order |-> [type |-> "run", key |-> order[i]]]
    BY DEF RunEvents
<1> HIDE DEF due
<1>4. n \in Nat /\ \E f \in [1 .. n -> due] : IsInjective(f)
    BY <1>1, FS_CardinalityType DEF ExistsBijection, Bijection, Injection
<1>5. order \in [1 .. n -> due]
    BY <1>4 DEF SetToSeq
<1> HIDE DEF order, n
<1>6. RunEvents(v) = s
    BY <1>3, <1>5
<1>7. ASSUME NEW i \in 1 .. n
      PROVE  /\ s[i] \in Contents /\ s[i].type = "run" /\ s[i].key \in RunKeys
             /\ v.index[s[i].key] # NoRequest
    <2>1. order[i] \in RunKeys /\ v.index[order[i]] # NoRequest
        BY <1>2, <1>5
    <2>2. s[i] = [type |-> "run", key |-> order[i]]
        OBVIOUS
    <2> HIDE DEF s
    <2> QED  BY <2>1, <2>2 DEF Contents, RunContents
<1>8. s \in Seq(Contents) /\ DOMAIN s = 1 .. n
    BY <1>4, <1>7
<1> HIDE DEF s
<1>9. RunPart(v, Range(s))
    BY <1>7, <1>8 DEF RunPart, Range
<1> QED  BY <1>6, <1>8, <1>9

LEMMA AsksMore ==
    ASSUME NEW E, NEW X, E \subseteq X, NEW key, NEW eval, Asks(E, key, eval)
    PROVE  Asks(X, key, eval)
BY DEF Asks, Of

(* A reconciliation on the projection v at time at, to which the sensor's  *)
(* evaluator answers with the cursor to.                                   *)
Reading(v, at, ep, to) ==
    /\ items \in Nat /\ items <= MaxItems /\ lastId \in Nat
    /\ ep \in Nat /\ at \in Nat /\ at <= MaxTime
    /\ Good(v, at, items) /\ \A r \in v.evals : r.id < lastId
    /\ to \in {v.sensor.cursor, items}

(* The four controllers' events make one batch.                            *)
LEMMA PartsBatch ==
    ASSUME NEW ep, NEW at, NEW v, NEW to, Reading(v, at, ep, to), NEW F, Due(v, at, F),
           NEW A, SchedulePart(v, at, F, A), NEW B, SensorPart(v, ep, to, B),
           NEW C, BackfillPart(v, C), NEW D, RunPart(v, D),
           NEW X, X = A \cup B \cup C \cup D
    PROVE  Batch(v, at, items, X)
<1>0. /\ items \in Nat /\ items <= MaxItems /\ lastId \in Nat /\ at \in Nat /\ at <= MaxTime
      /\ Good(v, at, items) /\ \A r \in v.evals : r.id < lastId
      /\ to \in {v.sensor.cursor, items}
    BY DEF Reading
<1> USE <1>0
<1>1. /\ \A e \in A : e.type \in {"ticked", "requested"}
      /\ \A e \in B : e.type \in {"evaluated", "requested"}
      /\ \A e \in C : e.type \in {"chunk", "requested"}
      /\ \A e \in D : e.type = "run"
    BY DEF SchedulePart, SensorPart, BackfillPart, RunPart
<1>2. /\ Of(X, "ticked") = Of(A, "ticked") /\ Of(X, "evaluated") = Of(B, "evaluated")
      /\ Of(X, "chunk") = Of(C, "chunk") /\ Of(X, "run") = Of(D, "run")
      /\ Of(X, "changed") = {} /\ Of(X, "upserted") = {}
      /\ Of(X, "requested") = Of(A, "requested") \cup Of(B, "requested") \cup Of(C, "requested")
    BY <1>1 DEF Of
<1>3. A \subseteq X /\ B \subseteq X /\ C \subseteq X
    OBVIOUS
<1>4. MaxTime \in Nat /\ v.def.sel \in Selections
    BY Bounds DEF Good, ValuesOK
<1>5. \A t \in F : t \in Times /\ t <= at
    BY <1>4 DEF Due, Times
<1>6. ASSUME NEW e \in Of(X, "requested"), NEW t, e.key = <<"sched", t>>
      PROVE  e \in Of(A, "requested") /\ t \in F
    <2>1. e \notin Of(B, "requested")
        BY <1>6 DEF SensorPart
    <2>2. e \notin Of(C, "requested")
        BY <1>6 DEF BackfillPart
    <2>3. e \in Of(A, "requested")
        BY <1>2, <2>1, <2>2
    <2>4. PICK u \in F : e.key = <<"sched", u>>
        BY <2>3 DEF SchedulePart
    <2> QED  BY <1>6, <2>3, <2>4
<1>7. TickBatch(v, at, X)
    <2> SUFFICES ASSUME NEW e \in Of(X, "ticked")
                 PROVE  /\ e.t \in Times /\ e.t <= at /\ e.status \in {"skipped", "triggered"}
                        /\ e.status = "triggered" => e.sel \in Selections /\ Asks(X, <<"sched", e.t>>, None)
                        /\ \A f \in Of(X, "requested") : f.key = <<"sched", e.t>> => f.sel = e.sel
        BY Zenon DEF TickBatch
    <2>1. /\ e.t \in F /\ e.status \in {"triggered", "skipped"}
          /\ e.status = "triggered" => v.def.enabled
          /\ v.def.enabled => e.sel = v.def.sel
        BY <1>2 DEF SchedulePart
    <2>2. v.def.enabled => Asks(X, <<"sched", e.t>>, None)
        <3>1. v.def.enabled => Asks(A, <<"sched", e.t>>, None)
            BY <2>1 DEF SchedulePart
        <3> QED  BY <1>3, <3>1, AsksMore
    <2>3. ASSUME NEW f \in Of(X, "requested"), f.key = <<"sched", e.t>> PROVE f.sel = e.sel
        <3>1. f \in Of(A, "requested")
            BY <1>6, <2>3
        <3>2. v.def.enabled /\ f.sel = v.def.sel
            BY <3>1 DEF SchedulePart
        <3> QED  BY <2>1, <3>2
    <2>5. e.t \in Times /\ e.t <= at
        BY <1>5, <2>1
    <2>6. e.status = "triggered" => e.sel \in Selections /\ Asks(X, <<"sched", e.t>>, None)
        BY <1>4, <2>1, <2>2
    <2> QED  BY <2>1, <2>3, <2>5, <2>6
<1>7a. SkipBatch(v, at, X)
    <2> SUFFICES ASSUME NEW e \in Of(X, "ticked")
                 PROVE  /\ e.t \in Cron /\ e.at \in 0 .. at
                        /\ \A t \in Cron : t < e.t =>
                                Covered(v, t, e.at) \/ \E f \in Of(X, "ticked") : f.t = t
        BY Zenon DEF SkipBatch
    <2>1. e.t \in F /\ e.at = at
        BY <1>2 DEF SchedulePart
    <2>2. ASSUME NEW t \in Cron, t < e.t PROVE Covered(v, t, at) \/ \E f \in Of(X, "ticked") : f.t = t
        <3>1. t \in F \/ Covered(v, t, at)
            BY <2>1, <2>2 DEF Due
        <3>2. t \in F => \E f \in Of(X, "ticked") : f.t = t
            BY <1>2 DEF SchedulePart
        <3> QED  BY <3>1, <3>2
    <2>3. e.t \in Cron /\ at \in 0 .. at
        BY <2>1 DEF Due
    <2> QED  BY <2>1, <2>2, <2>3
<1>8. RequestBatch(X)
    <2> SUFFICES ASSUME NEW e \in Of(X, "requested")
                 PROVE  /\ e.key \in RunKeys /\ e.sel \in Sels /\ e.eval \in Nat \cup {None}
                        /\ \A t \in Times : e.key = <<"sched", t>> => \E f \in Of(X, "ticked") : f.t = t
        BY DEF RequestBatch
    <2>1. ASSUME NEW t \in Times, e.key = <<"sched", t>> PROVE \E f \in Of(X, "ticked") : f.t = t
        <3>1. t \in F
            BY <1>6, <2>1
        <3> QED  BY <1>2, <3>1 DEF SchedulePart
    <2>2. CASE e \in Of(A, "requested")
        <3>1. e.sel = v.def.sel /\ e.eval = None /\ \E t \in F : e.key = <<"sched", t>>
            BY <2>2 DEF SchedulePart
        <3>2. e.key \in RunKeys
            BY <1>5, <3>1 DEF RunKeys
        <3> QED  BY <1>4, <2>1, <3>1, <3>2 DEF Sels
    <2>3. CASE e \in Of(B, "requested")
        <3>1. e.sel = "item" /\ e.eval = lastId /\ \E i \in Items : e.key = <<"item", i>>
            BY <2>3 DEF SensorPart
        <3>2. e.key \in RunKeys
            BY <3>1 DEF RunKeys
        <3> QED  BY <2>1, <3>1, <3>2 DEF Sels
    <2>4. CASE e \in Of(C, "requested")
        <3>1. e.sel = "chunk" /\ e.eval = None /\ \E c \in ChunkIndexes : e.key = <<"chunk", c>>
            BY <2>4 DEF BackfillPart
        <3>2. e.key \in RunKeys
            BY <3>1 DEF RunKeys
        <3> QED  BY <2>1, <3>1, <3>2 DEF Sels
    <2> QED  BY <1>2, <2>2, <2>3, <2>4
<1>9. SensorBatch(v, items, X)
    <2> SUFFICES ASSUME NEW e \in Of(X, "evaluated")
                 PROVE  /\ e.from \in Nat /\ e.to \in e.from .. items /\ e.expected \in Nat /\ e.eval \in Nat
                        /\ e.expected <= v.sensor.version
                        /\ e.expected = v.sensor.version => e.from = v.sensor.cursor
                        /\ \A i \in e.from + 1 .. e.to : Asks(X, <<"item", i>>, e.eval)
                        /\ \A r \in v.evals : r.id # e.eval
                        /\ \A f \in Of(X, "evaluated") :
                            /\ f.from = e.from /\ f.to = e.to /\ f.expected = e.expected
                            /\ f.eval = e.eval /\ f.epoch = e.epoch
        BY DEF SensorBatch
    <2>1. \A f \in Of(X, "evaluated") :
            /\ f.eval = lastId /\ f.from = v.sensor.cursor /\ f.to = to
            /\ f.expected = v.sensor.version /\ f.epoch = ep
        BY <1>2 DEF SensorPart
    <2>2. ASSUME NEW i \in e.from + 1 .. e.to PROVE Asks(X, <<"item", i>>, e.eval)
        <3>1. Asks(B, <<"item", i>>, e.eval)
            BY <1>2 DEF SensorPart
        <3> QED  BY <1>3, <3>1, AsksMore
    <2>3. v.sensor.cursor \in 0 .. items /\ v.sensor.version \in Nat /\ \A r \in v.evals : r.id \in Nat
        BY DEF Good, ValuesOK
    <2>4. e.eval = lastId /\ e.from = v.sensor.cursor /\ e.to = to /\ e.expected = v.sensor.version
        BY <2>1
    <2>5. ASSUME NEW r \in v.evals PROVE r.id # e.eval
        <3>1. r.id \in Nat /\ r.id < lastId
            BY <2>3
        <3> QED  BY <2>4, <3>1
    <2>6. /\ e.from \in Nat /\ e.to \in e.from .. items /\ e.expected \in Nat /\ e.eval \in Nat
          /\ e.expected <= v.sensor.version
          /\ e.expected = v.sensor.version => e.from = v.sensor.cursor
        BY <2>3, <2>4
    <2>7. \A f \in Of(X, "evaluated") :
            /\ f.from = e.from /\ f.to = e.to /\ f.expected = e.expected
            /\ f.eval = e.eval /\ f.epoch = e.epoch
        BY <2>1
    <2> QED  BY <2>2, <2>5, <2>6, <2>7
<1>10. ChunkBatch(v, X)
    <2> SUFFICES ASSUME NEW e \in Of(X, "chunk")
                 PROVE  /\ e.c \in ChunkIndexes /\ e.c < MaxConcurrent
                        /\ Asks(X, <<"chunk", e.c>>, None)
                        /\ \A d \in 0 .. e.c - 1 :
                                v.chunk[d].state # "none" \/ \E f \in Of(X, "chunk") : f.c = d
        BY Zenon DEF ChunkBatch
    <2>1. /\ e.c \in ChunkIndexes /\ e.c < MaxConcurrent
          /\ Asks(C, <<"chunk", e.c>>, None)
          /\ \A d \in 0 .. e.c - 1 : v.chunk[d].state # "none" \/ \E f \in Of(X, "chunk") : f.c = d
        BY <1>2 DEF BackfillPart
    <2>2. Asks(X, <<"chunk", e.c>>, None)
        BY <1>3, <2>1, AsksMore
    <2> QED  BY <2>1, <2>2
<1>11. OtherBatch(v, X)
    <2>1. \A e \in X : e.type \in EventTypes
        BY <1>1 DEF EventTypes
    <2>2. \A e \in Of(X, "run") : e.key \in RunKeys /\ v.index[e.key] # NoRequest
        BY <1>2 DEF RunPart, Of
    <2> QED  BY <1>2, <2>1, <2>2 DEF OtherBatch
<1> QED  BY <1>7, <1>7a, <1>8, <1>9, <1>10, <1>11 DEF Batch

LEMMA ReconcileBatch ==
    ASSUME scene \in Scenes, NEW ep, NEW at, NEW v, NEW to, Reading(v, at, ep, to), NEW poll, NEW fresh,
           NEW made, made = ReconcileEvents(v, at, ep, poll, to, fresh)
    PROVE  /\ made \in Seq(Contents) /\ Batch(v, at, items, Range(made))
           /\ \A e \in Of(Range(made), "evaluated") : e.eval = lastId
<1>0. /\ items \in Nat /\ items <= MaxItems /\ lastId \in Nat /\ ep \in Nat /\ at \in Nat
      /\ at <= MaxTime /\ Good(v, at, items) /\ to \in {v.sensor.cursor, items}
    BY DEF Reading
<1> USE <1>0
<1>1. PICK a : a = ScheduleEvents(v, at)
    OBVIOUS
<1>2. PICK F : Due(v, at, F) /\ SchedulePart(v, at, F, Range(a))
    BY <1>1, ScheduleFacts
<1>3. a \in Seq(Contents)
    BY <1>1, ScheduleFacts
<1>4. <<>> \in Seq(Contents) /\ Range(<<>>) = {}
    BY RangeFacts
<1>5. PICK b : b = IF poll THEN SensorEvents(v, ep, to) ELSE <<>>
    OBVIOUS
<1>6. b \in Seq(Contents) /\ SensorPart(v, ep, to, Range(b))
    <2>1. SensorPart(v, ep, to, {})
        BY DEF SensorPart, Of
    <2>2. SensorEvents(v, ep, to) \in Seq(Contents) /\ SensorPart(v, ep, to, Range(SensorEvents(v, ep, to)))
        BY SensorFacts
    <2> QED  BY <1>4, <1>5, <2>1, <2>2
<1>7. PICK c : c = IF fresh THEN BackfillEvents(v) ELSE <<>>
    OBVIOUS
<1>8. c \in Seq(Contents) /\ BackfillPart(v, Range(c))
    <2>1. BackfillPart(v, {})
        BY DEF BackfillPart, Of
    <2>2. BackfillEvents(v) \in Seq(Contents) /\ BackfillPart(v, Range(BackfillEvents(v)))
        BY BackfillFacts DEF Good
    <2> QED  BY <1>4, <1>7, <2>1, <2>2
<1>9. PICK d : d = RunEvents(v)
    OBVIOUS
<1>10. d \in Seq(Contents) /\ RunPart(v, Range(d))
    BY <1>9, RunFacts
<1>11. made = a \o b \o c \o d
    BY <1>1, <1>5, <1>7, <1>9 DEF ReconcileEvents
<1>12. a \o b \in Seq(Contents) /\ Range(a \o b) = Range(a) \cup Range(b)
    BY <1>3, <1>6, ConcatFacts
<1>13. PICK ab \in Seq(Contents) : ab = a \o b
    BY <1>12
<1>14. ab \o c \in Seq(Contents) /\ Range(ab \o c) = Range(ab) \cup Range(c)
    BY <1>8, ConcatFacts
<1>15. PICK abc \in Seq(Contents) : abc = ab \o c
    BY <1>14
<1>16. abc \o d \in Seq(Contents) /\ Range(abc \o d) = Range(abc) \cup Range(d)
    BY <1>10, ConcatFacts
<1>17. made = abc \o d
    BY <1>11, <1>13, <1>15
<1>18. made \in Seq(Contents) /\ Range(made) = Range(a) \cup Range(b) \cup Range(c) \cup Range(d)
    BY <1>12, <1>13, <1>14, <1>15, <1>16, <1>17
<1>19. Batch(v, at, items, Range(made))
    <2>1. PICK A, B, C, D, X :
            A = Range(a) /\ B = Range(b) /\ C = Range(c) /\ D = Range(d) /\ X = Range(made)
        OBVIOUS
    <2>2. /\ SchedulePart(v, at, F, A) /\ SensorPart(v, ep, to, B) /\ BackfillPart(v, C) /\ RunPart(v, D)
          /\ X = A \cup B \cup C \cup D /\ Due(v, at, F)
        BY <1>2, <1>6, <1>8, <1>10, <1>18, <2>1
    <2>3. Batch(v, at, items, X)
        BY <2>2, PartsBatch
    <2> QED  BY <2>1, <2>3
<1>20. ASSUME NEW e \in Of(Range(made), "evaluated") PROVE e.eval = lastId
    <2>1. e \in Of(Range(b), "evaluated")
        BY <1>2, <1>8, <1>10, <1>18 DEF SchedulePart, BackfillPart, RunPart, Of
    <2> QED  BY <1>6, <2>1 DEF SensorPart
<1> QED  BY <1>18, <1>19, <1>20

LEMMA UpsertBatch ==
    ASSUME NEW v, NEW n, NEW m, NEW enabled \in BOOLEAN, NEW sel \in Selections,
           NEW made, made = UpsertSchedule(v, enabled, sel)
    PROVE  /\ made \in Seq(Contents) /\ Batch(v, n, m, Range(made))
           /\ \A e \in Of(Range(made), "evaluated") : e.eval = lastId
<1> DEFINE u == [type |-> "upserted", enabled |-> enabled, sel |-> sel]
<1>1. made \in {<<>>, <<u>>}
    BY DEF UpsertSchedule
<1>2. u \in Contents
    BY DEF Contents, UpsertContents
<1>3. u.type = "upserted" /\ u.enabled \in BOOLEAN /\ u.sel \in Selections
    OBVIOUS
<1> HIDE DEF u
<1>4. made \in Seq(Contents)
    <2>1. <<>> \in Seq(Contents) /\ <<u>> \in Seq(Contents)
        BY <1>2
    <2> QED  BY <1>1, <2>1
<1>5. Range(made) \subseteq {u}
    BY <1>1, RangeFacts
<1>6. \A e \in Range(made) : e.type = "upserted" /\ e.enabled \in BOOLEAN /\ e.sel \in Selections
    BY <1>3, <1>5
<1>7. /\ \A type : type # "upserted" => Of(Range(made), type) = {}
      /\ \A e \in Of(Range(made), "upserted") : e.enabled \in BOOLEAN /\ e.sel \in Selections
      /\ \A e \in Range(made) : e.type \in EventTypes
    BY <1>6 DEF Of, EventTypes
<1>8. /\ Of(Range(made), "ticked") = {} /\ Of(Range(made), "requested") = {}
      /\ Of(Range(made), "evaluated") = {} /\ Of(Range(made), "chunk") = {}
      /\ Of(Range(made), "run") = {} /\ Of(Range(made), "changed") = {}
    BY <1>7
<1>9. Batch(v, n, m, Range(made))
    BY <1>7, <1>8 DEF Batch, TickBatch, SkipBatch, RequestBatch, SensorBatch, ChunkBatch, OtherBatch
<1> QED  BY <1>4, <1>8, <1>9

LEMMA TransitionBatch ==
    ASSUME NEW v, NEW n, NEW m, Good(v, n, m), NEW to \in BackfillStates,
           NEW made, made = Transition(v, to)
    PROVE  /\ made \in Seq(Contents) /\ Batch(v, n, m, Range(made))
           /\ \A e \in Of(Range(made), "evaluated") : e.eval = lastId
<1> DEFINE u == [type |-> "changed", from |-> v.backfill.state, to |-> to,
                 version |-> v.backfill.version + 1]
<1>0. v.backfill.state \in BackfillStates /\ v.backfill.version \in Nat
    BY DEF Good, ValuesOK
<1>1. made \in {<<>>, <<u>>}
    BY DEF Transition
<1>2. u \in Contents
    BY <1>0 DEF Contents, ChangeContents
<1>3. u.type = "changed"
    OBVIOUS
<1> HIDE DEF u
<1>4. made \in Seq(Contents)
    <2>1. <<>> \in Seq(Contents) /\ <<u>> \in Seq(Contents)
        BY <1>2
    <2> QED  BY <1>1, <2>1
<1>5. Range(made) \subseteq {u}
    BY <1>1, RangeFacts
<1>7. /\ \A type : type # "changed" => Of(Range(made), type) = {}
      /\ \A e \in Of(Range(made), "changed") : e = u
      /\ \A e \in Range(made) : e.type \in EventTypes
    BY <1>3, <1>5 DEF Of, EventTypes
<1>8. /\ Of(Range(made), "ticked") = {} /\ Of(Range(made), "requested") = {}
      /\ Of(Range(made), "evaluated") = {} /\ Of(Range(made), "chunk") = {}
      /\ Of(Range(made), "run") = {} /\ Of(Range(made), "upserted") = {}
    BY <1>7
<1>9. Batch(v, n, m, Range(made))
    BY <1>7, <1>8 DEF Batch, TickBatch, SkipBatch, RequestBatch, SensorBatch, ChunkBatch, OtherBatch
<1> QED  BY <1>4, <1>8, <1>9

(***************************************************************************)
(* What stays when others go on.                                           *)
(***************************************************************************)
LEMMA LaterSame ==
    ASSUME NEW p, p.sensor.version \in Nat
    PROVE  Later(p, p)
BY DEF Later

LEMMA LaterStill ==
    ASSUME NEW p, NEW q, NEW r, Later(p, q), Later(q, r),
           p.sensor.version \in Nat, q.sensor.version \in Nat, r.sensor.version \in Nat
    PROVE  Later(p, r)
BY DEF Later

LEMMA GoodStill ==
    ASSUME NEW n \in Nat, NEW m \in Nat, NEW i \in Nat, NEW j \in Nat, n <= i, m <= j,
           NEW p, Good(p, n, m)
    PROVE  Good(p, i, j)
<1>1. ValuesOK(p, i, j)
    BY DEF Good, ValuesOK
<1>2. SkipOK(p, i)
    <2>1. \A x \in 0 .. n : x \in 0 .. i
        OBVIOUS
    <2> QED  BY <2>1 DEF Good, SkipOK
<1> QED  BY <1>1, <1>2 DEF Good

(* A batch for a projection is one for a later projection, unless somebody *)
(* else has made its evaluation.                                           *)
LEMMA BatchStill ==
    ASSUME NEW n \in Nat, NEW m \in Nat, NEW i \in Nat, NEW j \in Nat, n <= i, m <= j,
           NEW v, NEW p, Later(v, p), v.sensor.version \in Nat, p.sensor.version \in Nat,
           NEW E, Batch(v, n, m, E), \A e \in Of(E, "evaluated") : \A r \in p.evals : r.id # e.eval
    PROVE  Batch(p, i, j, E)
<1>1. TickBatch(p, i, E)
    <2> SUFFICES ASSUME NEW e \in Of(E, "ticked")
                 PROVE  /\ e.t \in Times /\ e.t <= i /\ e.status \in {"skipped", "triggered"}
                        /\ e.status = "triggered" => e.sel \in Selections /\ Asks(E, <<"sched", e.t>>, None)
                        /\ \A f \in Of(E, "requested") : f.key = <<"sched", e.t>> => f.sel = e.sel
        BY Zenon DEF TickBatch
    <2>1. /\ e.t \in Times /\ e.t <= n /\ e.status \in {"skipped", "triggered"}
          /\ e.status = "triggered" => e.sel \in Selections /\ Asks(E, <<"sched", e.t>>, None)
          /\ \A f \in Of(E, "requested") : f.key = <<"sched", e.t>> => f.sel = e.sel
        BY DEF Batch, TickBatch
    <2>2. e.t <= i
        BY <2>1, Bounds DEF Times
    <2> QED  BY <2>1, <2>2
<1>1a. SkipBatch(p, i, E)
    <2> SUFFICES ASSUME NEW e \in Of(E, "ticked")
                 PROVE  /\ e.t \in Cron /\ e.at \in 0 .. i
                        /\ \A t \in Cron : t < e.t =>
                                Covered(p, t, e.at) \/ \E f \in Of(E, "ticked") : f.t = t
        BY Zenon DEF SkipBatch
    <2>1. /\ e.t \in Cron /\ e.at \in 0 .. n
          /\ \A t \in Cron : t < e.t =>
                Covered(v, t, e.at) \/ \E f \in Of(E, "ticked") : f.t = t
        BY DEF Batch, SkipBatch
    <2>2. PICK a \in Int : a = e.at /\ a <= a
        BY <2>1
    <2>3. PICK u \in Times : u = e.t
        BY DEF Batch, TickBatch
    <2>4. \A x \in Times : v.tick[x] # NoTick => p.tick[x] # NoTick
        BY DEF Later
    <2>5. ASSUME NEW t \in Cron, t < u, Covered(v, t, a) PROVE Covered(p, t, a)
        BY <2>2, <2>4, <2>5, CoveredLater
    <2>6. e.at \in 0 .. i
        BY <2>1
    <2> QED  BY <2>1, <2>2, <2>3, <2>5, <2>6
<1>2. RequestBatch(E)
    BY DEF Batch
<1>3. SensorBatch(p, j, E)
    <2> SUFFICES ASSUME NEW e \in Of(E, "evaluated")
                 PROVE  /\ e.from \in Nat /\ e.to \in e.from .. j /\ e.expected \in Nat /\ e.eval \in Nat
                        /\ e.expected <= p.sensor.version
                        /\ e.expected = p.sensor.version => e.from = p.sensor.cursor
                        /\ \A k \in e.from + 1 .. e.to : Asks(E, <<"item", k>>, e.eval)
                        /\ \A r \in p.evals : r.id # e.eval
                        /\ \A f \in Of(E, "evaluated") :
                            /\ f.from = e.from /\ f.to = e.to /\ f.expected = e.expected
                            /\ f.eval = e.eval /\ f.epoch = e.epoch
        BY DEF SensorBatch
    <2>1. /\ e.from \in Nat /\ e.to \in e.from .. m /\ e.expected \in Nat /\ e.eval \in Nat
          /\ e.expected <= v.sensor.version
          /\ e.expected = v.sensor.version => e.from = v.sensor.cursor
        BY DEF Batch, SensorBatch
    <2>2. /\ \A k \in e.from + 1 .. e.to : Asks(E, <<"item", k>>, e.eval)
          /\ \A f \in Of(E, "evaluated") :
                /\ f.from = e.from /\ f.to = e.to /\ f.expected = e.expected
                /\ f.eval = e.eval /\ f.epoch = e.epoch
        BY DEF Batch, SensorBatch
    <2>3. /\ v.sensor.version <= p.sensor.version
          /\ v.sensor.version = p.sensor.version => v.sensor.cursor = p.sensor.cursor
        BY DEF Later
    <2>4. /\ e.to \in e.from .. j /\ e.expected <= p.sensor.version
          /\ e.expected = p.sensor.version => e.from = p.sensor.cursor
        BY <2>1, <2>3
    <2> QED  BY <2>1, <2>2, <2>4
<1>4. ChunkBatch(p, E)
    <2> SUFFICES ASSUME NEW e \in Of(E, "chunk")
                 PROVE  /\ e.c \in ChunkIndexes /\ e.c < MaxConcurrent
                        /\ Asks(E, <<"chunk", e.c>>, None)
                        /\ \A d \in 0 .. e.c - 1 :
                                p.chunk[d].state # "none" \/ \E f \in Of(E, "chunk") : f.c = d
        BY Zenon DEF ChunkBatch
    <2>1. /\ e.c \in ChunkIndexes /\ e.c < MaxConcurrent
          /\ Asks(E, <<"chunk", e.c>>, None)
        BY DEF Batch, ChunkBatch
    <2>2. ASSUME NEW d \in 0 .. e.c - 1
          PROVE  p.chunk[d].state # "none" \/ \E f \in Of(E, "chunk") : f.c = d
        <3>1. v.chunk[d].state # "none" \/ \E f \in Of(E, "chunk") : f.c = d
            BY DEF Batch, ChunkBatch
        <3>2. d \in ChunkIndexes
            BY <2>1, Bounds DEF ChunkIndexes
        <3> QED  BY <3>1, <3>2 DEF Later
    <2> QED  BY <2>1, <2>2
<1>5. OtherBatch(p, E)
    BY DEF Batch, OtherBatch, Later
<1> QED  BY <1>1, <1>1a, <1>2, <1>3, <1>4, <1>5 DEF Batch

(***************************************************************************)
(* Every step keeps the invariant.                                         *)
(***************************************************************************)
Reconciliations(c, A, P, T, Q) ==
    {ReconcileEvents(c.view, at, c.epoch, poll, to, fresh) :
        at \in A, poll \in P, to \in T, fresh \in Q}

LEMMA ReconcileChoices ==
    ASSUME NEW c, c.op = "reconcile"
    PROVE  \E P, Q : EventsOf(c) =
                Reconciliations(c, c.at .. now, P, {c.view.sensor.cursor, items}, Q)
<1>1. PICK P : P = IF scene.items > 0 THEN BOOLEAN ELSE {FALSE}
    OBVIOUS
<1>2. PICK Q : Q = IF Lags THEN BOOLEAN ELSE {TRUE}
    OBVIOUS
<1>3. EventsOf(c) = Reconciliations(c, c.at .. now, P, {c.view.sensor.cursor, items}, Q)
    BY <1>1, <1>2 DEF EventsOf, Reconciliations
<1> QED  BY <1>3

(* What a call made of the projection it read is a batch for it.           *)
LEMMA MadeBatch ==
    ASSUME scene \in Scenes, now \in Nat, now <= MaxTime, items \in Nat, items <= MaxItems, lastId \in Nat,
           NEW c, LoadedOK(c, proj, now, items, lastId), NEW made \in EventsOf(c)
    PROVE  /\ made \in Seq(Contents) /\ Batch(c.view, now, items, Range(made))
           /\ \A e \in Of(Range(made), "evaluated") : e.eval = lastId
<1>1. /\ c.at \in Nat /\ c.at <= now /\ c.epoch \in Nat /\ Good(c.view, c.at, items)
      /\ \A r \in c.view.evals : r.id < lastId
      /\ c.op \in {"reconcile", "schedule", "backfill"}
    BY Bounds DEF LoadedOK
<1>2. \E v : \E ep \in Nat : v = c.view /\ ep = c.epoch
    BY <1>1
<1>2a. PICK v : \E ep \in Nat : v = c.view /\ ep = c.epoch
    BY <1>2
<1>2b. PICK ep \in Nat : v = c.view /\ ep = c.epoch
    BY <1>2a
<1>3. ASSUME NEW at \in c.at .. now
      PROVE  at \in Nat /\ at <= now /\ at <= MaxTime /\ Good(v, at, items)
    <2>1. at \in Nat /\ c.at <= at /\ at <= now /\ at <= MaxTime /\ items <= items
        BY <1>1, Bounds
    <2>2. PICK b \in Nat : b = c.at /\ b <= at /\ Good(v, b, items)
        BY <1>1, <1>2b, <2>1
    <2> QED  BY <2>1, <2>2, GoodStill
<1>4. CASE c.op = "reconcile"
    <2>0. PICK P, Q : EventsOf(c) = Reconciliations(c, c.at .. now, P, {c.view.sensor.cursor, items}, Q)
        BY <1>4, ReconcileChoices
    <2>1. \E at \in c.at .. now, to \in {v.sensor.cursor, items} : \E poll, fresh :
                made = ReconcileEvents(v, at, ep, poll, to, fresh)
        BY <1>2b, <2>0 DEF Reconciliations
    <2>2. PICK at \in c.at .. now, to \in {v.sensor.cursor, items} : \E poll, fresh :
                made = ReconcileEvents(v, at, ep, poll, to, fresh)
        BY <2>1
    <2>3. PICK poll, fresh : made = ReconcileEvents(v, at, ep, poll, to, fresh)
        BY <2>2
    <2>4. at \in Nat /\ at <= now /\ at <= MaxTime /\ Good(v, at, items)
        BY <1>3
    <2>5. \A r \in v.evals : r.id \in Nat /\ r.id < lastId
        BY <1>1, <1>2b, <2>4 DEF Good, ValuesOK
    <2>6. /\ made \in Seq(Contents) /\ Batch(v, at, items, Range(made))
          /\ \A e \in Of(Range(made), "evaluated") : e.eval = lastId
        <3>1. Reading(v, at, ep, to)
            BY <2>4, <2>5 DEF Reading
        <3> QED  BY <2>3, <3>1, ReconcileBatch
    <2>7. Later(v, v) /\ v.sensor.version \in Nat
        BY <2>4, LaterSame DEF Good, ValuesOK
    <2>8. \A e \in Of(Range(made), "evaluated") : \A r \in v.evals : r.id # e.eval
        BY <2>5, <2>6
    <2>9. items <= items
        OBVIOUS
    <2>10. Batch(v, now, items, Range(made))
        BY <2>4, <2>6, <2>7, <2>8, <2>9, BatchStill
    <2> QED  BY <1>2b, <2>6, <2>10
<1>5. CASE c.op = "schedule"
    <2>1. PICK enabled \in BOOLEAN, sel \in Selections : made = UpsertSchedule(c.view, enabled, sel)
        BY <1>5 DEF EventsOf
    <2> QED  BY <2>1, UpsertBatch
<1>6. CASE c.op = "backfill"
    <2>1. PICK to \in BackfillStates : made = Transition(c.view, to)
        BY <1>6 DEF EventsOf
    <2>2. Good(c.view, now, items)
        <3>1. now \in c.at .. now
            BY <1>1
        <3> QED  BY <1>2b, <1>3, <3>1
    <2> QED  BY <2>1, <2>2, TransitionBatch
<1> QED  BY <1>1, <1>4, <1>5, <1>6

LEMMA NoPolls ==
    ASSUME NEW c, c.events = <<>>
    PROVE  Polls(c) = {}
BY RangeFacts DEF Polls, Of

LEMMA InitLoop == Init => LoopInv
<1> SUFFICES ASSUME Init PROVE LoopInv
    OBVIOUS
<1> USE DEF Init
<1>1. /\ scene \in Scenes /\ now \in 0 .. scene.times /\ items \in 0 .. scene.items
      /\ lastId \in Nat /\ epoch \in Nat /\ DOMAIN call = Actors
    BY Bounds
<1>2. CallInv
    BY DEF CallInv, CallOK, Idle
<1>3. EvalInv
    <2>1. \A a \in Actors : call[a].events = <<>>
        BY DEF Idle
    <2>2. \A a \in Actors : Polls(call[a]) = {}
        BY <2>1, NoPolls
    <2> QED  BY <2>2 DEF EvalInv
<1>4. /\ now = 0 /\ items = 0
      /\ proj.def.enabled = TRUE /\ proj.def.sel \in Selections /\ proj.last.at = 0
      /\ proj.sensor.cursor = 0 /\ proj.sensor.version = 1 /\ proj.evals = {}
      /\ proj.backfill.state = "Running" /\ proj.backfill.version = 1 /\ proj.backfill.planned = 0
      /\ proj.keys = {}
    BY AutomationAssumption
<1>5. Shape(proj)
    BY DEF Shape, Record
<1>6. /\ \A t \in Times : proj.tick[t] = NoTick
      /\ \A k \in RunKeys : proj.index[k] = NoRequest /\ proj.run[k] = "none"
      /\ \A c \in ChunkIndexes : proj.chunk[c].state = "none"
    OBVIOUS
<1> HIDE DEF Init
<1>7. ValuesOK(proj, now, items)
    <2>1. proj.def.enabled \in BOOLEAN
        BY <1>4
    <2>2. \A v \in proj.evals : v.id \in Nat
        BY <1>4
    <2>3. /\ proj.last.at \in 0 .. now /\ proj.sensor.cursor \in 0 .. items /\ proj.sensor.version \in Nat
          /\ proj.backfill.state \in BackfillStates /\ proj.backfill.version \in Nat
        BY <1>4 DEF BackfillStates
    <2> QED  BY <1>4, <2>1, <2>2, <2>3 DEF ValuesOK
<1>8. TickOK(proj)
    <2>1. \A t \in Times : <<"sched", t>> \in RunKeys
        BY DEF RunKeys
    <2>2. NoTick.status = "none"
        BY DEF NoTick
    <2> QED  BY <1>4, <1>6, <2>1, <2>2 DEF TickOK
<1>8a. SkipOK(proj, now)
    BY <1>4, <1>6 DEF SkipOK
<1>9. IndexOK(proj) /\ CursorOK(proj)
    BY <1>4, <1>6 DEF IndexOK, CursorOK
<1>10. ChunkOK(proj)
    <2>1. proj.backfill.planned \in 0 .. MaxChunks /\ \A c \in 0 .. proj.backfill.planned - 1 : FALSE
        BY <1>4, Bounds
    <2> QED  BY <1>4, <1>6, <2>1 DEF ChunkOK
<1> QED  BY <1>1, <1>2, <1>3, <1>5, <1>7, <1>8, <1>8a, <1>9, <1>10 DEF LoopInv, Good

LEMMA LoopFacts ==
    ASSUME LoopInv
    PROVE  /\ scene \in Scenes /\ now \in Nat /\ now <= MaxTime /\ items \in Nat /\ items <= MaxItems
           /\ now <= scene.times /\ items <= scene.items
           /\ lastId \in Nat /\ epoch \in Nat /\ DOMAIN call = Actors
           /\ Good(proj, now, items) /\ CallInv /\ EvalInv /\ proj.sensor.version \in Nat
BY Bounds DEF LoopInv, Good, ValuesOK

(* No call's evaluation has a row yet.                                     *)
LEMMA PollsFresh ==
    ASSUME NEW c, NEW p, NEW n, NEW m, NEW id, CallOK(c, p, n, m, id), NEW r \in p.evals
    PROVE  r.id \notin Polls(c)
<1>1. CASE c.events = <<>>
    BY <1>1, NoPolls
<1>2. CASE CreatedOK(c, p, n, m, id)
    BY <1>2 DEF CreatedOK, Batch, SensorBatch, Polls
<1> QED  BY <1>1, <1>2 DEF CallOK, LoadedOK

(* The projection q follows p, without an evaluation that c is to make.    *)
Follows(p, q, c) ==
    /\ Later(p, q) /\ p.sensor.version \in Nat /\ q.sensor.version \in Nat
    /\ \A r \in q.evals : r.id \notin Polls(c)

LEMMA CallStill ==
    ASSUME NEW n \in Nat, NEW m \in Nat, NEW id \in Nat, NEW i \in Nat, NEW j \in Nat, NEW k \in Nat,
           n <= i, m <= j, id <= k, NEW p, NEW q, NEW c, Follows(p, q, c), CallOK(c, p, n, m, id)
    PROVE  CallOK(c, q, i, j, k)
<1>0. /\ Later(p, q) /\ p.sensor.version \in Nat /\ q.sensor.version \in Nat
      /\ \A r \in q.evals : r.id \notin Polls(c)
    BY DEF Follows
<1>1. CASE c.pc = "idle" /\ c.events = <<>>
    BY <1>1 DEF CallOK
<1>2. CASE c.pc = "loaded" /\ LoadedOK(c, p, n, m, id)
    <2>1. /\ c.op \in {"reconcile", "schedule", "backfill"} /\ c.events = <<>>
          /\ c.at \in 0 .. n /\ c.epoch \in Nat
          /\ Good(c.view, c.at, m) /\ Later(c.view, p)
          /\ \A v \in c.view.evals : v.id < id
        BY <1>2 DEF LoadedOK
    <2>2. c.at \in Nat /\ c.at \in 0 .. i
        BY <2>1
    <2>3. Good(c.view, c.at, j)
        BY <2>1, <2>2, GoodStill
    <2>4. c.view.sensor.version \in Nat /\ \A v \in c.view.evals : v.id \in Nat
        BY <2>1 DEF Good, ValuesOK
    <2>5. Later(c.view, q)
        BY <1>0, <2>1, <2>4, LaterStill
    <2>6. \A v \in c.view.evals : v.id < k
        BY <2>1, <2>4
    <2> QED  BY <1>2, <2>1, <2>2, <2>3, <2>5, <2>6 DEF CallOK, LoadedOK
<1>3. CASE c.pc = "created" /\ CreatedOK(c, p, n, m, id)
    <2>1. /\ Len(c.events) \in Nat /\ DOMAIN c.events = 1 .. Len(c.events)
          /\ \A l \in 1 .. Len(c.events) : c.events[l].id \in 1 .. id
          /\ Batch(p, n, m, Range(c.events))
          /\ \A x \in Polls(c) : x < id
        BY <1>3 DEF CreatedOK
    <2>2. \A e \in Of(Range(c.events), "evaluated") : \A r \in q.evals : r.id # e.eval
        BY <1>0 DEF Polls
    <2>3. Batch(q, i, j, Range(c.events))
        BY <1>0, <2>1, <2>2, BatchStill
    <2>4. \A x \in Polls(c) : x \in Nat
        BY <2>1 DEF Batch, SensorBatch, Polls
    <2>5. \A x \in Polls(c) : x < k
        BY <2>1, <2>4
    <2>6. ASSUME NEW l \in 1 .. Len(c.events) PROVE c.events[l].id \in 1 .. k
        <3>1. PICK x \in 1 .. id : x = c.events[l].id
            BY <2>1
        <3>2. x \in 1 .. k
            OBVIOUS
        <3> QED  BY <3>1, <3>2
    <2> QED  BY <1>3, <2>1, <2>3, <2>5, <2>6 DEF CallOK, CreatedOK
<1> QED  BY <1>1, <1>2, <1>3 DEF CallOK

LEMMA CallStaysOK ==
    ASSUME NEW n \in Nat, NEW m \in Nat, NEW id \in Nat, NEW p, NEW q, NEW c, Follows(p, q, c),
           CallOK(c, p, n, m, id)
    PROVE  CallOK(c, q, n, m, id)
<1>1. n <= n /\ m <= m /\ id <= id
    OBVIOUS
<1> QED  BY <1>1, CallStill

LEMMA LoadStep ==
    ASSUME LoopInv, NEW a \in Actors, NEW op \in scene.ops, Load(a, op)
    PROVE  LoopInv'
<1> DEFINE c == [pc |-> "loaded", op |-> op, view |-> proj, at |-> now, epoch |-> epoch, events |-> <<>>]
<1>1. /\ call' = [call EXCEPT ![a] = c]
      /\ UNCHANGED <<scene, proj, epoch, now, items, lastId>>
    BY DEF Load
<1>2. op \in {"reconcile", "schedule", "backfill"}
    BY LoopFacts, AutomationAssumption
<1>3. LoadedOK(c, proj, now, items, lastId)
    <2>1. Later(proj, proj)
        BY LoopFacts, LaterSame
    <2>2. \A v \in proj.evals : v.id < lastId
        BY LoopFacts DEF EvalInv
    <2>3. now \in 0 .. now
        BY LoopFacts
    <2> QED  BY <1>2, <2>1, <2>2, <2>3, LoopFacts DEF LoadedOK
<1>4. CallOK(c, proj, now, items, lastId) /\ Polls(c) = {}
    BY <1>3, NoPolls DEF CallOK
<1> HIDE DEF c
<1>5. \A b \in Actors : call'[b] = IF b = a THEN c ELSE call[b]
    BY <1>1, LoopFacts
<1>6. CallInv'
    BY <1>1, <1>4, <1>5, LoopFacts DEF CallInv
<1>7. EvalInv'
    BY <1>1, <1>4, <1>5, LoopFacts DEF EvalInv
<1>8. DOMAIN call' = Actors
    BY <1>1, LoopFacts
<1> QED  BY <1>1, <1>6, <1>7, <1>8 DEF LoopInv

LEMMA StopStep ==
    ASSUME LoopInv, NEW a \in Actors, Stop(a)
    PROVE  LoopInv'
<1>1. /\ call' = [call EXCEPT ![a] = Idle]
      /\ UNCHANGED <<scene, proj, epoch, now, items, lastId>>
    BY DEF Stop
<1>2. CallOK(Idle, proj, now, items, lastId) /\ Polls(Idle) = {}
    BY NoPolls DEF CallOK, Idle
<1>3. \A b \in Actors : call'[b] = IF b = a THEN Idle ELSE call[b]
    BY <1>1, LoopFacts
<1>4. CallInv'
    BY <1>1, <1>2, <1>3, LoopFacts DEF CallInv
<1>5. EvalInv'
    BY <1>1, <1>2, <1>3, LoopFacts DEF EvalInv
<1>6. DOMAIN call' = Actors
    BY <1>1, LoopFacts
<1> QED  BY <1>1, <1>4, <1>5, <1>6 DEF LoopInv

LEMMA CreateStep ==
    ASSUME LoopInv, NEW a \in Actors, Create(a)
    PROVE  LoopInv'
<1>1. /\ call[a].pc = "loaded" /\ UNCHANGED <<scene, proj, epoch, now, items>>
      /\ CallOK(call[a], proj, now, items, lastId)
    BY LoopFacts DEF Create, CallInv
<1>2. LoadedOK(call[a], proj, now, items, lastId)
    BY <1>1 DEF CallOK
<1>4. PICK events \in EventsOf(call[a]) :
        /\ lastId' = lastId + Len(events)
        /\ call' = [call EXCEPT ![a] =
                IF events = <<>> THEN Idle
                ELSE [Idle EXCEPT !.pc = "created", !.events = WithIds(events)]]
    BY Zenon DEF Create
<1>5. PICK v, at : v = call[a].view /\ at = call[a].at
    OBVIOUS
<1>6. /\ events \in Seq(Contents) /\ Batch(v, now, items, Range(events))
      /\ \A e \in Of(Range(events), "evaluated") : e.eval = lastId
    <2>1. PICK c : c = call[a]
        OBVIOUS
    <2>2. LoadedOK(c, proj, now, items, lastId) /\ events \in EventsOf(c)
        BY <1>2, <2>1
    <2>3. /\ events \in Seq(Contents) /\ Batch(c.view, now, items, Range(events))
          /\ \A e \in Of(Range(events), "evaluated") : e.eval = lastId
        BY <2>2, LoopFacts, MadeBatch
    <2> QED  BY <1>5, <2>1, <2>3
<1>7. PICK ids : ids = WithIds(events)
    OBVIOUS
<1>8. /\ Len(ids) \in Nat /\ Len(ids) = Len(events)
      /\ DOMAIN ids = 1 .. Len(ids)
      /\ \A i \in 1 .. Len(ids) : ids[i].id \in 1 .. lastId + Len(events)
      /\ Carries(Range(ids), Range(events))
    BY <1>6, <1>7, LoopFacts, IdsCarry
<1>9. Batch(v, now, items, Range(ids))
    BY <1>6, <1>8, BatchCarried
<1>10. \A e \in Of(Range(ids), "evaluated") : e.eval = lastId
    <2>1. ASSUME NEW e \in Of(Range(ids), "evaluated") PROVE e.eval = lastId
        <3>1. PICK x \in Of(Range(events), "evaluated") : Says(x, e)
            BY <1>8, CarriedOf
        <3>2. e.eval = x.eval
            BY <3>1 DEF Says, Of
        <3> QED  BY <1>6, <3>2
    <2> QED  BY <2>1
<1>11. \A r \in proj.evals : r.id \in Nat /\ r.id < lastId /\ r.id # lastId
    BY LoopFacts DEF EvalInv, Good, ValuesOK
<1>12. Batch(proj, now, items, Range(ids))
    <2>1. /\ at \in 0 .. now /\ Good(v, at, items) /\ Later(v, proj)
        BY <1>2, <1>5 DEF LoadedOK
    <2>2. now \in Nat /\ now <= now /\ items <= items /\ v.sensor.version \in Nat
        BY <2>1, LoopFacts DEF Good, ValuesOK
    <2>3. \A e \in Of(Range(ids), "evaluated") : \A r \in proj.evals : r.id # e.eval
        BY <1>10, <1>11
    <2> QED  BY <1>9, <2>1, <2>2, <2>3, LoopFacts, BatchStill
<1> DEFINE d == IF events = <<>> THEN Idle ELSE [Idle EXCEPT !.pc = "created", !.events = ids]
<1>13. lastId' \in Nat /\ lastId <= lastId' /\ (events # <<>> => lastId < lastId')
    <2>1. Len(events) \in Nat /\ (events # <<>> => Len(events) # 0)
        BY <1>6
    <2> QED  BY <1>4, <2>1, LoopFacts
<1>14. CallOK(d, proj, now, items, lastId') /\ Polls(d) \subseteq {lastId}
    <2>1. CASE events = <<>>
        BY <2>1, NoPolls DEF CallOK, Idle
    <2>2. CASE events # <<>>
        <3>1. d.pc = "created" /\ d.events = ids
            BY <2>2 DEF Idle
        <3> HIDE DEF d
        <3>2. Polls(d) \subseteq {lastId}
            BY <1>10, <3>1 DEF Polls
        <3>3. \A x \in Polls(d) : x < lastId'
            BY <1>13, <2>2, <3>2
        <3>4. CreatedOK(d, proj, now, items, lastId')
            BY <1>4, <1>8, <1>12, <3>1, <3>3 DEF CreatedOK
        <3> QED  BY <3>1, <3>2, <3>4 DEF CallOK
    <2> QED  BY <2>1, <2>2
<1>15. call' = [call EXCEPT ![a] = d]
    BY <1>4, <1>7
<1> HIDE DEF d
<1>16. \A b \in Actors : call'[b] = IF b = a THEN d ELSE call[b]
    BY <1>15, LoopFacts
<1>17. ASSUME NEW b \in Actors, b # a
       PROVE  CallOK(call[b], proj, now, items, lastId') /\ lastId \notin Polls(call[b])
    <2>1. PICK c : c = call[b]
        OBVIOUS
    <2>2. CallOK(c, proj, now, items, lastId)
        BY <2>1, LoopFacts DEF CallInv
    <2>3. \A r \in proj.evals : r.id \notin Polls(c)
        BY <2>2, PollsFresh
    <2>4. Later(proj, proj)
        BY LoopFacts, LaterSame
    <2>5. CallOK(c, proj, now, items, lastId')
        <3>1. now \in Nat /\ items \in Nat /\ lastId \in Nat /\ now <= now /\ items <= items
            BY LoopFacts
        <3>2. Follows(proj, proj, c)
            BY <2>3, <2>4, LoopFacts DEF Follows
        <3> QED  BY <1>13, <2>2, <3>1, <3>2, CallStill
    <2>6. lastId \notin Polls(c)
        <3>1. CASE c.events = <<>>
            BY <3>1, NoPolls
        <3>2. CASE CreatedOK(c, proj, now, items, lastId)
            BY <3>2, LoopFacts DEF CreatedOK
        <3> QED  BY <2>2, <3>1, <3>2 DEF CallOK, LoadedOK
    <2> QED  BY <2>1, <2>5, <2>6
<1>18. CallInv'
    BY <1>1, <1>14, <1>16, <1>17 DEF CallInv
<1>19. EvalInv'
    <2>1. \A r \in proj'.evals : r.id < lastId'
        BY <1>1, <1>11, <1>13, LoopFacts
    <2>2. ASSUME NEW b \in Actors, NEW c \in Actors, b # c
          PROVE  Polls(call'[b]) \cap Polls(call'[c]) = {}
        <3>1. CASE b = a
            BY <1>14, <1>16, <1>17, <2>2, <3>1
        <3>2. CASE c = a
            BY <1>14, <1>16, <1>17, <2>2, <3>2
        <3>3. CASE b # a /\ c # a
            BY <1>16, <2>2, <3>3, LoopFacts DEF EvalInv
        <3> QED  BY <3>1, <3>2, <3>3
    <2> QED  BY <2>1, <2>2 DEF EvalInv
<1>20. DOMAIN call' = Actors
    BY <1>15, LoopFacts
<1>21. now' \in 0 .. scene'.times /\ items' \in 0 .. scene'.items /\ Good(proj', now', items')
    BY <1>1 DEF LoopInv
<1> QED  BY <1>1, <1>13, <1>18, <1>19, <1>20, <1>21, LoopFacts DEF LoopInv

(* The batch of a call is folded and published.                            *)
LEMMA CommitStep ==
    ASSUME LoopInv, NEW a \in Actors, Commit(a)
    PROVE  /\ LoopInv' /\ PollStep(proj, proj') /\ TransitionStep(proj, proj')
<1>1. /\ call[a].pc = "created" /\ proj' = Fold(proj, call[a].events)
      /\ epoch' \in epoch .. Min({epoch + 1, scene.epochs})
      /\ call' = [call EXCEPT ![a] = Idle]
      /\ UNCHANGED <<scene, now, items, lastId>>
    BY DEF Commit
<1>2. CreatedOK(call[a], proj, now, items, lastId)
    BY <1>1, LoopFacts DEF CallInv, CallOK
<1>3. PICK events, E : events = call[a].events /\ E = Range(events)
    OBVIOUS
<1>4. /\ Len(events) \in Nat /\ DOMAIN events = 1 .. Len(events)
      /\ Batch(proj, now, items, E)
      /\ \A x \in Polls(call[a]) : x < lastId
    BY <1>2, <1>3 DEF CreatedOK
<1>5. Polls(call[a]) = {e.eval : e \in Of(E, "evaluated")}
    BY <1>3 DEF Polls
<1>6. PICK b, q : b = proj /\ q = proj'
    OBVIOUS
<1>7. /\ Good(q, now, items) /\ Later(b, q) /\ PollStep(b, q) /\ TransitionStep(b, q)
      /\ \A v \in q.evals : v \in b.evals \/ \E e \in Of(E, "evaluated") : v.id = e.eval
    <2>1. q = Fold(b, events) /\ Good(b, now, items) /\ Batch(b, now, items, E)
        BY <1>1, <1>3, <1>4, <1>6, LoopFacts
    <2> QED  BY <1>3, <1>4, <2>1, LoopFacts, FoldGood
<1>8. \A v \in q.evals : v \in b.evals \/ v.id \in Polls(call[a])
    BY <1>5, <1>7
<1>9. CallOK(Idle, q, now, items, lastId) /\ Polls(Idle) = {}
    BY NoPolls DEF CallOK, Idle
<1>10. \A d \in Actors : call'[d] = IF d = a THEN Idle ELSE call[d]
    BY <1>1, LoopFacts
<1>11. b.sensor.version \in Nat /\ q.sensor.version \in Nat
    BY <1>6, <1>7, LoopFacts DEF Good, ValuesOK
<1>12. ASSUME NEW d \in Actors, d # a PROVE CallOK(call[d], q, now, items, lastId)
    <2>1. PICK c : c = call[d]
        OBVIOUS
    <2>2. CallOK(c, b, now, items, lastId)
        BY <1>6, <2>1, LoopFacts DEF CallInv
    <2>3. \A r \in b.evals : r.id \notin Polls(c)
        BY <2>2, PollsFresh
    <2>4. Polls(call[a]) \cap Polls(c) = {}
        BY <1>12, <2>1, LoopFacts DEF EvalInv
    <2>5. \A r \in q.evals : r.id \notin Polls(c)
        BY <1>8, <2>3, <2>4
    <2>6. CallOK(c, q, now, items, lastId)
        <3>1. Follows(b, q, c)
            BY <1>7, <1>11, <2>5 DEF Follows
        <3> QED  BY <2>2, <3>1, LoopFacts, CallStaysOK
    <2> QED  BY <2>1, <2>6
<1>13. CallInv'
    BY <1>1, <1>6, <1>9, <1>10, <1>12 DEF CallInv
<1>14. EvalInv'
    <2>1. \A v \in b.evals : v.id < lastId
        BY <1>6, LoopFacts DEF EvalInv
    <2>2. \A v \in proj'.evals : v.id < lastId'
        BY <1>1, <1>4, <1>6, <1>8, <2>1
    <2>3. \A c, d \in Actors : c # d => Polls(call'[c]) \cap Polls(call'[d]) = {}
        BY <1>9, <1>10, LoopFacts DEF EvalInv
    <2> QED  BY <2>2, <2>3 DEF EvalInv
<1>15. epoch' \in Nat
    <2>1. PICK x : x = Min({epoch + 1, scene.epochs})
        OBVIOUS
    <2> QED  BY <1>1, <2>1, LoopFacts
<1>16. DOMAIN call' = Actors
    BY <1>1, LoopFacts
<1>17. now' \in 0 .. scene'.times /\ items' \in 0 .. scene'.items
    BY <1>1 DEF LoopInv
<1>18. LoopInv'
    BY <1>1, <1>6, <1>7, <1>13, <1>14, <1>15, <1>16, <1>17, LoopFacts DEF LoopInv
<1> QED  BY <1>6, <1>7, <1>18

LEMMA FireStep ==
    ASSUME LoopInv, Fire \/ Arrive
    PROVE  LoopInv'
<1>1. UNCHANGED <<scene, proj, epoch, call, lastId>>
    BY DEF Fire, Arrive
<1>2. /\ now' \in Nat /\ now <= now' /\ now' \in 0 .. scene.times
      /\ items' \in Nat /\ items <= items' /\ items' \in 0 .. scene.items
    BY LoopFacts, Bounds DEF Fire, Arrive
<1>3. Good(proj, now', items')
    BY <1>2, LoopFacts, GoodStill
<1>4. ASSUME NEW a \in Actors PROVE CallOK(call[a], proj, now', items', lastId)
    <2>1. PICK c : c = call[a]
        OBVIOUS
    <2>2. CallOK(c, proj, now, items, lastId)
        BY <2>1, LoopFacts DEF CallInv
    <2>3. Follows(proj, proj, c)
        <3>1. \A r \in proj.evals : r.id \notin Polls(c)
            BY <2>2, PollsFresh
        <3>2. Later(proj, proj)
            BY LoopFacts, LaterSame
        <3> QED  BY <3>1, <3>2, LoopFacts DEF Follows
    <2>4. lastId \in Nat /\ lastId <= lastId /\ now \in Nat /\ items \in Nat
        BY LoopFacts
    <2>5. CallOK(c, proj, now', items', lastId)
        BY <1>2, <2>2, <2>3, <2>4, CallStill
    <2> QED  BY <2>1, <2>5
<1>5. CallInv'
    BY <1>1, <1>4 DEF CallInv
<1>6. EvalInv'
    BY <1>1, LoopFacts DEF EvalInv
<1> QED  BY <1>1, <1>2, <1>3, <1>5, <1>6, LoopFacts DEF LoopInv

LEMMA EndRunStep ==
    ASSUME LoopInv, NEW x \in ChunkIndexes, EndRun(x)
    PROVE  LoopInv' /\ proj'.sensor = proj.sensor /\ proj'.backfill = proj.backfill
<1> DEFINE key == <<"chunk", x>>
<1>1. /\ proj.run[key] = "active" /\ proj' = [proj EXCEPT !.run[key] = "ended"]
      /\ UNCHANGED <<scene, epoch, call, now, items, lastId>>
    BY DEF EndRun
<1>2. key \in RunKeys
    BY DEF RunKeys
<1> HIDE DEF key
<1>3. PICK p, q : p = proj /\ q = proj'
    OBVIOUS
<1>4. Good(p, now, items) /\ p = Record(p) /\ p.run[key] = "active"
    BY <1>1, <1>3, LoopFacts DEF Good, Shape
<1>5. q = [p EXCEPT !.run[key] = "ended"]
    BY <1>1, <1>3
<1>6. q = [def |-> p.def, last |-> p.last, tick |-> p.tick, sensor |-> p.sensor,
           evals |-> p.evals, backfill |-> p.backfill, chunk |-> p.chunk, index |-> p.index,
           conflicts |-> p.conflicts, run |-> [p.run EXCEPT ![key] = "ended"], keys |-> p.keys]
    BY <1>4, <1>5 DEF Record
<1>7. /\ q = Record(q) /\ q.def = p.def /\ q.last = p.last /\ q.tick = p.tick /\ q.sensor = p.sensor
      /\ q.evals = p.evals /\ q.backfill = p.backfill /\ q.chunk = p.chunk /\ q.index = p.index
      /\ q.keys = p.keys /\ q.run = [p.run EXCEPT ![key] = "ended"]
    BY <1>6 DEF Record
<1>8. /\ q.run = [k \in RunKeys |-> q.run[k]]
      /\ \A k \in RunKeys : q.run[k] = IF k = key THEN "ended" ELSE p.run[k]
    <2>1. p.run = [k \in RunKeys |-> p.run[k]]
        BY <1>4 DEF Good, Shape
    <2> QED  BY <1>2, <1>7, <2>1
<1>9. Shape(q)
    BY <1>4, <1>7, <1>8 DEF Good, Shape
<1>10. IndexOK(q)
    <2>1. \A k \in RunKeys : q.run[k] # "none" => p.run[k] # "none"
        BY <1>4, <1>8
    <2> QED  BY <1>4, <1>7, <2>1 DEF Good, IndexOK
<1>11. ValuesOK(q, now, items) /\ TickOK(q) /\ CursorOK(q) /\ ChunkOK(q)
    <2>1. ValuesOK(p, now, items) /\ TickOK(p) /\ CursorOK(p) /\ ChunkOK(p)
        BY <1>4 DEF Good
    <2> QED  BY <1>7, <2>1 DEF ValuesOK, TickOK, CursorOK, ChunkOK
<1>11a. SkipOK(q, now)
    <2>1. SkipOK(p, now)
        BY <1>4 DEF Good
    <2> QED  BY <1>7, <2>1 DEF SkipOK, Covered
<1>12. Good(q, now, items)
    BY <1>9, <1>10, <1>11, <1>11a DEF Good
<1>13. Later(p, q) /\ p.sensor.version \in Nat /\ q.sensor.version \in Nat
    <2>1. p.sensor.version \in Nat
        BY <1>3, LoopFacts
    <2> QED  BY <1>7, <2>1 DEF Later
<1>14. ASSUME NEW a \in Actors PROVE CallOK(call[a], q, now, items, lastId)
    <2>1. PICK c : c = call[a]
        OBVIOUS
    <2>2. CallOK(c, p, now, items, lastId)
        BY <1>3, <2>1, LoopFacts DEF CallInv
    <2>3. \A r \in p.evals : r.id \notin Polls(c)
        BY <2>2, PollsFresh
    <2>4. Follows(p, q, c)
        BY <1>7, <1>13, <2>3 DEF Follows
    <2>5. CallOK(c, q, now, items, lastId)
        BY <2>2, <2>4, LoopFacts, CallStaysOK
    <2> QED  BY <2>1, <2>5
<1>15. CallInv'
    BY <1>1, <1>3, <1>14 DEF CallInv
<1>16. EvalInv'
    BY <1>1, <1>3, <1>7, LoopFacts DEF EvalInv
<1>17. LoopInv'
    BY <1>1, <1>3, <1>12, <1>15, <1>16 DEF LoopInv
<1> QED  BY <1>3, <1>7, <1>17

LEMMA LoopStep ==
    ASSUME LoopInv, [Next]_vars
    PROVE  LoopInv'
<1>1. CASE UNCHANGED vars
    BY <1>1 DEF vars, LoopInv, CallInv, EvalInv
<1>2. CASE Fire \/ Arrive
    BY <1>2, FireStep
<1>3. ASSUME NEW a \in Actors, NEW op \in scene.ops, Load(a, op) PROVE LoopInv'
    BY <1>3, LoadStep
<1>4. ASSUME NEW a \in Actors, Create(a) PROVE LoopInv'
    BY <1>4, CreateStep
<1>5. ASSUME NEW a \in Actors, Commit(a) PROVE LoopInv'
    BY <1>5, CommitStep
<1>6. ASSUME NEW a \in Actors, Stop(a) PROVE LoopInv'
    BY <1>6, StopStep
<1>7. ASSUME NEW c \in ChunkIndexes, EndRun(c) PROVE LoopInv'
    BY <1>7, EndRunStep
<1> QED  BY <1>1, <1>2, <1>3, <1>4, <1>5, <1>6, <1>7 DEF Next

(***************************************************************************)
(* The theorems.                                                           *)
(***************************************************************************)
(* However many calls of the reconciler and of the owners overlap, the     *)
(* published projection stays Good and what every call has read or made    *)
(* still fits it (controllers/{schedule,sensor,backfill}.rs reconcile, the *)
(* folds of their events in compactor/fold.rs).                            *)
THEOREM LoopHolds == Spec => []LoopInv
<1>1. Init => LoopInv
    BY InitLoop
<1>2. LoopInv /\ [Next]_vars => LoopInv'
    BY LoopStep
<1> QED  BY <1>1, <1>2, PTL DEF Spec

(* Every table holds rows of its kind, and every call is in a known stage  *)
(* with events of the seven kinds and ids that have been given out         *)
(* (compactor/fold.rs, events/mod.rs).                                     *)
THEOREM AutomationTypes == Spec => []TypeOK
<1>1. LoopInv => TypeOK
    <2> SUFFICES ASSUME LoopInv PROVE TypeOK
        OBVIOUS
    <2>1. ValuesOK(proj, now, items) /\ TickOK(proj) /\ IndexOK(proj) /\ ChunkOK(proj)
        BY LoopFacts DEF Good
    <2>2. /\ proj.def.enabled \in BOOLEAN /\ proj.def.sel \in Selections
          /\ proj.last.at \in 0 .. now
          /\ proj.sensor.cursor \in 0 .. items /\ proj.sensor.version \in Nat
          /\ proj.backfill.state \in BackfillStates
        BY <2>1 DEF ValuesOK
    <2>3. proj.sensor.cursor \in 0 .. MaxItems
        BY <2>2, LoopFacts, Bounds
    <2>4. /\ \A t \in Times : proj.tick[t].status \in {"none", "skipped", "triggered"}
          /\ \A k \in RunKeys : proj.run[k] # "none" => proj.index[k] # NoRequest
          /\ proj.backfill.planned \in 0 .. MaxChunks
        BY <2>1 DEF TickOK, IndexOK, ChunkOK
    <2>5. ASSUME NEW a \in Actors
          PROVE  /\ call[a].pc \in {"idle", "loaded", "created"}
                 /\ \A e \in Range(call[a].events) : e.type \in EventTypes /\ e.id \in 1 .. lastId
        <3>1. CallOK(call[a], proj, now, items, lastId)
            BY LoopFacts DEF CallInv
        <3>2. CASE call[a].events = <<>>
            BY <3>1, <3>2, RangeFacts DEF CallOK
        <3>3. CASE call[a].pc = "created" /\ CreatedOK(call[a], proj, now, items, lastId)
            <4>1. \A e \in Range(call[a].events) : e.type \in EventTypes
                BY <3>3 DEF CreatedOK, Batch, OtherBatch
            <4>2. \A e \in Range(call[a].events) : e.id \in 1 .. lastId
                BY <3>3 DEF CreatedOK, Range
            <4> QED  BY <3>3, <4>1, <4>2
        <3> QED  BY <3>1, <3>2, <3>3 DEF CallOK, LoadedOK
    <2>6. scene \in Scenes
        BY LoopFacts
    <2> QED  BY <2>2, <2>3, <2>4, <2>5, <2>6 DEF TypeOK
<1> QED  BY <1>1, LoopHolds, PTL

(* A firing is passed over only when it is older than the catch-up window  *)
(* or within a second of a recorded one, by however many reconcilers and   *)
(* for any cron expression, window and limit (schedule.rs                  *)
(* compute_due_ticks, fold.rs fold_schedule_ticked).                       *)
THEOREM NothingSkipped == Spec => []NoTickSkipped
<1>1. LoopInv => NoTickSkipped
    <2>1. ASSUME LoopInv PROVE SkipOK(proj, now)
        BY <2>1, LoopFacts DEF Good
    <2> QED  BY <2>1 DEF SkipOK, Covered, NoTickSkipped
<1> QED  BY <1>1, LoopHolds, PTL

(* A tick that triggered and a chunk that is planned have the request the  *)
(* run request processor looks for (fold.rs fold_schedule_ticked,          *)
(* fold_run_requested).                                                    *)
THEOREM IntentsKept == Spec => []IntentsComplete
<1>1. LoopInv => IntentsComplete
    BY LoopFacts DEF Good, TickOK, ChunkOK, IntentsComplete
<1> QED  BY <1>1, LoopHolds, PTL

(* Every item behind the cursor has its run requested, however polls race  *)
(* (fold.rs fold_sensor_evaluated).                                        *)
THEOREM NothingPassedOver == Spec => []CursorCovered
<1>1. LoopInv => CursorCovered
    BY LoopFacts, Zenon DEF Good, CursorOK, CursorCovered
<1> QED  BY <1>1, LoopHolds, PTL

(* Concurrent reconcilers never plan more chunks than may run at once, and *)
(* leave no gap (backfill.rs reconcile, fold.rs                            *)
(* fold_backfill_chunk_planned).                                           *)
THEOREM LimitKept == Spec => []ChunksBounded
<1>1. LoopInv => ChunksBounded
    <2> SUFFICES ASSUME LoopInv PROVE ChunksBounded
        OBVIOUS
    <2> DEFINE planned == {c \in ChunkIndexes : proj.chunk[c].state # "none"}
               underWay == {c \in planned : proj.run[<<"chunk", c>>] # "ended"}
    <2>1. PICK k \in 0 .. MaxChunks :
            /\ \A c \in ChunkIndexes : proj.chunk[c].state # "none" <=> c < k
            /\ k <= MaxConcurrent /\ proj.backfill.planned <= k
        BY LoopFacts, PlannedPrefix DEF Good
    <2>2. MaxChunks \in Nat /\ MaxConcurrent \in Nat /\ k \in Nat
        BY <2>1, Bounds, AutomationAssumption
    <2>3. planned = 0 .. k - 1
        <3>1. planned = {c \in ChunkIndexes : c < k}
            BY <2>1
        <3>2. {c \in ChunkIndexes : c < k} = 0 .. k - 1
            BY <2>1, <2>2 DEF ChunkIndexes
        <3> QED  BY <3>1, <3>2
    <2>4. IsFiniteSet(planned) /\ Cardinality(planned) = k
        <3>1. PICK x \in Int : x = k - 1
            BY <2>2
        <3>2. IsFiniteSet(0 .. x) /\ Cardinality(0 .. x) = IF 0 > x THEN 0 ELSE x - 0 + 1
            BY FS_Interval
        <3> HIDE DEF planned
        <3> QED  BY <2>2, <2>3, <3>1, <3>2
    <2>5. Cardinality(underWay) <= MaxConcurrent
        <3>1. underWay \in SUBSET planned
            OBVIOUS
        <3> HIDE DEF planned, underWay
        <3>2. IsFiniteSet(underWay) /\ Cardinality(underWay) <= k
            BY <2>4, <3>1, FS_Subset
        <3>3. Cardinality(underWay) \in Nat
            BY <3>2, FS_CardinalityType
        <3> QED  BY <2>1, <2>2, <3>2, <3>3
    <2> HIDE DEF planned, underWay
    <2>6. /\ Cardinality(underWay) <= MaxConcurrent
          /\ planned = 0 .. Cardinality(planned) - 1
          /\ proj.backfill.planned <= Cardinality(planned)
        BY <2>1, <2>3, <2>4, <2>5
    <2> QED  BY <2>6 DEF ChunksBounded, planned, underWay
<1> QED  BY <1>1, LoopHolds, PTL

(* What a step does to the cursor and to the backfill's state.             *)
LEMMA StepsSerial ==
    ASSUME LoopInv, [Next]_vars
    PROVE  PollStep(proj, proj') /\ TransitionStep(proj, proj')
<1>1. CASE proj'.sensor = proj.sensor /\ proj'.backfill = proj.backfill
    BY <1>1 DEF PollStep, TransitionStep
<1>2. CASE UNCHANGED proj
    BY <1>1, <1>2
<1>3. CASE UNCHANGED vars \/ Fire \/ Arrive
    BY <1>2, <1>3 DEF vars, Fire, Arrive
<1>4. ASSUME NEW a \in Actors, Commit(a)
      PROVE  PollStep(proj, proj') /\ TransitionStep(proj, proj')
    BY <1>4, CommitStep
<1>5. ASSUME NEW a \in Actors, NEW op \in scene.ops, Load(a, op)
      PROVE  PollStep(proj, proj') /\ TransitionStep(proj, proj')
    BY <1>2, <1>5 DEF Load
<1>6. ASSUME NEW a \in Actors, Create(a) \/ Stop(a)
      PROVE  PollStep(proj, proj') /\ TransitionStep(proj, proj')
    <2>1. UNCHANGED proj
        BY <1>6, Zenon DEF Create, Stop
    <2> QED  BY <1>2, <2>1
<1>7. ASSUME NEW c \in ChunkIndexes, EndRun(c)
      PROVE  PollStep(proj, proj') /\ TransitionStep(proj, proj')
    BY <1>1, <1>7, EndRunStep
<1> QED  BY <1>3, <1>4, <1>5, <1>6, <1>7 DEF Next

(* The cursor moves only by an evaluation that started from it and is not  *)
(* stale, so no stretch of data is polled twice (the compare-and-swap on   *)
(* state_version in fold.rs fold_sensor_evaluated).                        *)
THEOREM PollsInTurn == Spec => PollsSerialised
<1>1. LoopInv /\ [Next]_vars =>
        [proj'.sensor.cursor # proj.sensor.cursor =>
            \E v \in proj'.evals \ proj.evals :
                /\ v.from = proj.sensor.cursor /\ v.to = proj'.sensor.cursor
                /\ ~v.stale]_vars
    BY StepsSerial DEF PollStep
<1> QED  BY <1>1, LoopHolds, PTL DEF Spec, PollsSerialised

(* A backfill changes state one version at a time by a transition of its   *)
(* state machine, and stays cancelled (fold.rs                             *)
(* fold_backfill_state_changed, merge_backfill_rows).                      *)
THEOREM TransitionsInTurn == Spec => TransitionsSerial
<1>1. LoopInv /\ [Next]_vars =>
        [LET old == proj.backfill
             new == proj'.backfill
         IN  IF new.state = old.state THEN new.version = old.version
             ELSE new.version = old.version + 1 /\ IsValidTransition(old.state, new.state)]_vars
    BY StepsSerial DEF TransitionStep
<1> QED  BY <1>1, LoopHolds, PTL DEF Spec, TransitionsSerial
==============================================================================
