-------------------------- MODULE DeltaCoordinator --------------------------
(***************************************************************************)
(* The Delta commit coordinator of crates/arco-delta/src/coordinator.rs:   *)
(* concurrent executions of commit() against one table, on an object store *)
(* with conditional puts.  The shared objects are the coordinator state    *)
(* (latest version and at most one reservation), the Delta log (one object *)
(* per version, written once) and the idempotency records (written once).  *)
(*                                                                         *)
(* One step per storage call.  Objects that are written once (log entries, *)
(* records, staged payloads) are read in a single step, since the head and *)
(* the get the code makes cannot disagree about them; the head and the get *)
(* of the coordinator state are separate steps.                            *)
(*                                                                         *)
(* A request stands for a CommitDeltaRequest and its staged payload: the   *)
(* field payload identifies the staged object and what is in it, so equal  *)
(* request hashes are equal requests.                                      *)
(***************************************************************************)
EXTENDS Integers, FiniteSets, Sequences

CONSTANTS
    Workers,        \* concurrent executions of commit()
    Requests,       \* requests clients send, and send again
    NoKey,          \* commit_id of "no reservation"
    NoPayload,      \* contents of an absent log entry
    MaxVersion,     \* the greatest version number (i64::MAX in the code)
    TTL,            \* inflight_ttl, in ticks
    MaxClock,       \* bound: the clock stops here
    MaxCrashes,     \* bound: crashes in all
    Deletable,      \* payloads of requests that come by the Unity Catalog
                    \* route, which deletes them after the commit
    MaxDeletes      \* bound: payloads deleted in all

Keys     == {r.key : r \in Requests}
Payloads == {r.payload : r \in Requests}
Versions == 0..MaxVersion

ASSUME DeltaAssumption ==
    /\ \A r \in Requests : r = [key |-> r.key, rv |-> r.rv,
                                payload |-> r.payload] /\ r.rv \in Int
    /\ Requests # {}
    /\ NoKey \notin Keys /\ NoPayload \notin Payloads
    /\ MaxVersion \in Nat
    /\ Deletable \subseteq Payloads
    /\ {TTL, MaxClock, MaxCrashes, MaxDeletes} \subseteq Nat

VARIABLES
    coord,          \* state object: obj (its version, 0 if absent), latest,
                    \* inflight
    nextObj,        \* the version the store gives to the next state write
    log,            \* delta log: version -> payload
    records,        \* idempotency records: set of [key, req, version]
    staged,         \* version of each staged payload, 0 if absent
    clock,
    pc,             \* the storage call each worker makes next
    req,            \* the request it executes
    now,            \* the clock when commit() was called
    sver,           \* the version of its staged payload
    snap,           \* coordinator state as last loaded
    ver,            \* the version reserved, recovered or replayed
    inReserve,      \* recover_inflight was called by reserve_or_resume
    acked,          \* history: [req, version] of every Ok response
    crashes, deletes

shared == <<coord, nextObj, log, records>>
vars == <<coord, nextObj, log, records, staged, clock, pc, req, now, sver, snap,
          ver, inReserve, acked, crashes, deletes>>

----------------------------------------------------------------------------
NoInflight == [key |-> NoKey, rv |-> -1, version |-> 0,
               payload |-> NoPayload, sv |-> 0, expires |-> 0]

Inflights ==
    [key : Keys, rv : Int, version : Versions, payload : Payloads,
     sv : Nat, expires : Nat] \cup {NoInflight}

States == [obj : Nat, latest : Int, inflight : Inflights]

(* DeltaCoordinatorState::default, for an absent object.                   *)
EmptyState == [obj |-> 0, latest |-> -1, inflight |-> NoInflight]

RecoverPc  == {"recHead", "recGet", "recCheck", "recLog", "recRecord",
               "recStore"}
ReservePc  == {"resHead", "resGet", "resStore"}
WritePc    == {"log", "record", "finHead", "finGet", "finStore"}
ReplayPc   == {"replay", "rfHead", "rfGet", "rfStore"}
Pc == {"idle"} \cup RecoverPc \cup ReservePc \cup WritePc \cup ReplayPc

AnyRequest == CHOOSE r \in Requests : TRUE

MaxOf(a, b) == IF a >= b THEN a ELSE b
MinOf(a, b) == IF a <= b THEN a ELSE b

(* Every variable keeps its type: the coordinator state and its reservation,*)
(* the log, the records, the staged payloads and the running commits.      *)
TypeOK ==
    /\ coord \in States
    /\ nextObj \in Nat \ {0}
    /\ log \in [Versions -> Payloads \cup {NoPayload}]
    /\ records \subseteq [key : Keys, req : Requests, version : Versions]
    /\ clock \in Nat
    /\ pc \in [Workers -> Pc]
    /\ req \in [Workers -> Requests]
    /\ now \in [Workers -> Nat]
    /\ snap \in [Workers -> States]
    /\ ver \in [Workers -> Versions]
    /\ inReserve \in [Workers -> BOOLEAN]
    /\ acked \subseteq [req : Requests, version : Versions]
    /\ staged \in [Payloads -> Nat] /\ sver \in [Workers -> Nat]
    /\ crashes \in Nat /\ deletes \in 0..MaxDeletes

Init ==
    /\ coord = EmptyState
    /\ nextObj = 1
    /\ log = [v \in Versions |-> NoPayload]
    /\ records = {}
    /\ clock = 0
    /\ pc = [w \in Workers |-> "idle"]
    /\ req = [w \in Workers |-> AnyRequest]
    /\ now = [w \in Workers |-> 0]
    /\ snap = [w \in Workers |-> EmptyState]
    /\ ver = [w \in Workers |-> 0]
    /\ inReserve = [w \in Workers |-> FALSE]
    /\ acked = {}
    /\ staged = [p \in Payloads |-> 1]
    /\ sver = [w \in Workers |-> 0]
    /\ crashes = 0 /\ deletes = 0
----------------------------------------------------------------------------
(* Building blocks.                                                        *)

Goto(w, label) == pc' = [pc EXCEPT ![w] = label]

(* commit() returns: its locals leave scope.                               *)
Return(w) ==
    /\ Goto(w, "idle")
    /\ req' = [req EXCEPT ![w] = AnyRequest]
    /\ now' = [now EXCEPT ![w] = 0]
    /\ sver' = [sver EXCEPT ![w] = 0]
    /\ snap' = [snap EXCEPT ![w] = EmptyState]
    /\ ver' = [ver EXCEPT ![w] = 0]
    /\ inReserve' = [inReserve EXCEPT ![w] = FALSE]

Fail(w) == Return(w) /\ UNCHANGED acked

Ok(w, v) == Return(w) /\ acked' = acked \cup {[req |-> req[w], version |-> v]}

(* Go on to another call; the request, its time and the caller of          *)
(* recover_inflight stay.                                                  *)
Continue(w, label) ==
    /\ Goto(w, label)
    /\ UNCHANGED <<req, now, sver, inReserve, acked>>

RecordOf(k) == {r \in records : r.key = k}

(* put_raw of a log entry, DoesNotExist                                    *)
PutLog(v, p) == log' = IF log[v] = NoPayload THEN [log EXCEPT ![v] = p] ELSE log

(* write_idempotency_record: DoesNotExist, an existing record is kept      *)
PutRecord(k, r, v) ==
    records' = IF RecordOf(k) = {}
               THEN records \cup {[key |-> k, req |-> r, version |-> v]}
               ELSE records

(* The head of load_state: remember the version of the state object.  An   *)
(* absent object yields the default state.                                 *)
LoadHead(w) ==
    snap' = [snap EXCEPT ![w] =
                IF coord.obj = 0 THEN EmptyState ELSE [@ EXCEPT !.obj = coord.obj]]

(* The state the get of load_state returns to w, with the version its head *)
(* returned.                                                               *)
Loaded(w) ==
    IF snap[w].obj = 0 THEN EmptyState ELSE [coord EXCEPT !.obj = snap[w].obj]

(* Mutant of CanStore: the state is written without a precondition.        *)
StoreBlind(w) == TRUE

(* store_state: DoesNotExist without a version, else MatchesVersion.       *)
CanStore(w) == coord.obj = snap[w].obj

Store(latest, inflight) ==
    /\ coord' = [obj |-> nextObj, latest |-> latest, inflight |-> inflight]
    /\ nextObj' = nextObj + 1

(* A lost race of store_state: the loop starts over, or max_cas_retries is *)
(* used up (possible after any lost race).                                 *)
LostRace(w, label) ==
    /\ ~CanStore(w)
    /\ \/ Continue(w, label) /\ UNCHANGED <<snap, ver>>
       \/ Fail(w)
    /\ UNCHANGED shared

(* The time a reservation made at time n runs out.                         *)
ExpiresAt(n) == MinOf(n + TTL, MaxClock)

(* What request_hash is computed from when a reservation is recovered.     *)
RequestOf(i) == [key |-> i.key, rv |-> i.rv, payload |-> i.payload]

----------------------------------------------------------------------------
(* Entry points.                                                           *)

(* The API route's own check: a committed request is answered from its     *)
(* record, and the coordinator state is left as it is.                     *)
ReplayCommitted(w, r) ==
    /\ pc[w] = "idle" /\ r.payload \notin Deletable
    /\ \E rec \in RecordOf(r.key) :
          rec.req = r /\ acked' = acked \cup {[req |-> r, version |-> rec.version]}
    /\ UNCHANGED <<shared, clock, pc, req, now, sver, snap, ver, inReserve,
                   crashes, staged, deletes>>

(* The payload is staged unless it is there already, under a path that is  *)
(* the request's own (stage_payload_for_idempotency), and commit() is      *)
(* called, which reads and hashes it.  A payload that was deleted and      *)
(* staged again has a new version.                                         *)
Begin(w, r) ==
    /\ pc[w] = "idle"
    /\ Goto(w, "replay")
    /\ LET v == IF staged[r.payload] = 0 THEN 1 + deletes ELSE staged[r.payload]
       IN  /\ staged' = [staged EXCEPT ![r.payload] = v]
           /\ sver' = [sver EXCEPT ![w] = v]
    /\ req' = [req EXCEPT ![w] = r]
    /\ now' = [now EXCEPT ![w] = clock]
    /\ UNCHANGED <<shared, clock, snap, ver, inReserve, acked, crashes, deletes>>

(* Mutant of Replay: a recorded answer is given without                    *)
(* finalize_replayed_commit.                                               *)
ReplayOnly(w) ==
    /\ pc[w] = "replay"
    /\ \/ /\ RecordOf(req[w].key) = {}
          /\ Continue(w, "recHead")
          /\ UNCHANGED <<snap, ver>>
       \/ \E rec \in RecordOf(req[w].key) : Ok(w, rec.version)
    /\ UNCHANGED <<shared, clock, crashes, staged, deletes>>

(* replay_committed_with_hashes                                            *)
Replay(w) ==
    /\ pc[w] = "replay"
    /\ \/ /\ RecordOf(req[w].key) = {}
          /\ Continue(w, "recHead")
          /\ UNCHANGED <<snap, ver>>
       \/ \E rec \in RecordOf(req[w].key) :
            \/ /\ rec.req = req[w]
               /\ ver' = [ver EXCEPT ![w] = rec.version]
               /\ Continue(w, "rfHead")
               /\ UNCHANGED snap
            \/ rec.req # req[w] /\ Fail(w)
    /\ UNCHANGED <<shared, clock, crashes, staged, deletes>>

----------------------------------------------------------------------------
(* finalize_replayed_commit                                                *)

ReplayHead(w) ==
    /\ pc[w] = "rfHead"
    /\ IF coord.obj = 0
       THEN Ok(w, ver[w])
       ELSE LoadHead(w) /\ Continue(w, "rfGet") /\ UNCHANGED ver
    /\ UNCHANGED <<shared, clock, crashes, staged, deletes>>

ReplayGet(w) ==
    /\ pc[w] = "rfGet"
    /\ LET st == Loaded(w)
           mine == st.inflight.key = req[w].key
           behind == st.inflight.key = NoKey /\ st.latest < ver[w]
       IN  IF mine \/ behind
           THEN /\ snap' = [snap EXCEPT ![w] = st]
                /\ Continue(w, "rfStore")
                /\ UNCHANGED ver
           ELSE Ok(w, ver[w])
    /\ UNCHANGED <<shared, clock, crashes, staged, deletes>>

ReplayStore(w) ==
    /\ pc[w] = "rfStore"
    /\ \/ /\ CanStore(w)
          /\ Store(IF snap[w].inflight.key = NoKey THEN ver[w]
                   ELSE MaxOf(ver[w], snap[w].inflight.version), NoInflight)
          /\ Ok(w, ver[w])
          /\ UNCHANGED <<log, records>>
       \/ LostRace(w, "rfHead")
    /\ UNCHANGED <<clock, crashes, staged, deletes>>

----------------------------------------------------------------------------
(* recover_inflight                                                        *)

(* Return None to whoever called recover_inflight.                         *)
RecoverHead(w) ==
    /\ pc[w] = "recHead"
    /\ IF coord.obj = 0
       THEN Continue(w, "resHead") /\ UNCHANGED snap
       ELSE LoadHead(w) /\ Continue(w, "recGet")
    /\ UNCHANGED <<shared, clock, ver, crashes, staged, deletes>>

RecoverGet(w) ==
    /\ pc[w] = "recGet"
    /\ snap' = [snap EXCEPT ![w] = Loaded(w)]
    /\ Continue(w, IF Loaded(w).inflight.key = NoKey THEN "resHead"
                   ELSE "recCheck")
    /\ UNCHANGED <<shared, clock, ver, crashes, staged, deletes>>

(* Mutant of RecoverCheck: an expired reservation is recovered without     *)
(* writing its log entry.                                                  *)
RecoverWithoutLog(w) ==
    /\ pc[w] = "recCheck"
    /\ LET i == snap[w].inflight
       IN  Continue(w, IF log[i.version] # NoPayload \/ now[w] >= i.expires
                       THEN "recRecord" ELSE "resHead")
    /\ UNCHANGED <<shared, clock, snap, ver, crashes, staged, deletes>>

(* Mutant of RecoverCheck: only materialised reservations are recovered.   *)
RecoverNeverExpired(w) ==
    /\ pc[w] = "recCheck"
    /\ Continue(w, IF log[snap[w].inflight.version] # NoPayload
                   THEN "recRecord" ELSE "resHead")
    /\ UNCHANGED <<shared, clock, snap, ver, crashes, staged, deletes>>

(* head of the reserved log entry                                          *)
RecoverCheck(w) ==
    /\ pc[w] = "recCheck"
    /\ LET i == snap[w].inflight
       IN  Continue(w, IF log[i.version] # NoPayload THEN "recRecord"
                       ELSE IF now[w] >= i.expires THEN "recLog"
                       ELSE "resHead")
    /\ UNCHANGED <<shared, clock, snap, ver, crashes, staged, deletes>>

(* read_staged_payload finds what the reservation was made with, or fails. *)
Readable(i) == staged[i.payload] = i.sv

(* Materialise the log entry from the staged payload; whoever wrote it     *)
(* first wins.                                                             *)
RecoverLog(w) ==
    /\ pc[w] = "recLog"
    /\ LET i == snap[w].inflight
       IN \/ /\ Readable(i)
             /\ PutLog(i.version, i.payload)
             /\ Continue(w, "recRecord")
             /\ UNCHANGED <<snap, ver>>
          \/ ~Readable(i) /\ Fail(w) /\ UNCHANGED log
    /\ UNCHANGED <<coord, nextObj, records, clock, crashes, staged, deletes>>

(* The payload is read again for the request hash of the record.           *)
RecoverRecord(w) ==
    /\ pc[w] = "recRecord"
    /\ LET i == snap[w].inflight
       IN \/ /\ Readable(i)
             /\ PutRecord(i.key, RequestOf(i), i.version)
             /\ Continue(w, "recStore")
             /\ UNCHANGED <<snap, ver>>
          \/ ~Readable(i) /\ Fail(w) /\ UNCHANGED records
    /\ UNCHANGED <<coord, nextObj, log, clock, crashes, staged, deletes>>

(* The reservation is cleared.  commit() answers if it was its own key and *)
(* goes on to reserve otherwise; reserve_or_resume just loads again.       *)
RecoverStore(w) ==
    /\ pc[w] = "recStore"
    /\ LET i == snap[w].inflight
       IN \/ /\ CanStore(w)
             /\ Store(MaxOf(i.version, snap[w].latest), NoInflight)
             /\ IF inReserve[w] \/ (i.key # req[w].key)
                THEN Continue(w, "resHead") /\ UNCHANGED <<snap, ver>>
                ELSE IF RequestOf(i) = req[w] THEN Ok(w, i.version) ELSE Fail(w)
             /\ UNCHANGED <<log, records>>
          \/ LostRace(w, "recHead")
    /\ UNCHANGED <<clock, crashes, staged, deletes>>

----------------------------------------------------------------------------
(* reserve_or_resume_inflight                                              *)

ReserveHead(w) ==
    /\ pc[w] = "resHead"
    /\ LoadHead(w)
    /\ Goto(w, "resGet")
    /\ UNCHANGED <<shared, clock, req, now, sver, ver, inReserve, acked,
                   crashes, staged, deletes>>

(* The reservation is this request's own, of the payload as it is staged   *)
(* now: resume it.                                                         *)
CanResume(w, st) ==
    /\ st.inflight.key = req[w].key
    /\ RequestOf(st.inflight) = req[w] /\ st.inflight.sv = sver[w]
    /\ st.latest = req[w].rv

(* Mutant of ReserveGet: the read version is not compared with the latest  *)
(* version.                                                                *)
ReserveStale(w) ==
    /\ pc[w] = "resGet"
    /\ LET st == Loaded(w)
       IN  IF st.inflight.key = NoKey /\ st.latest < MaxVersion
           THEN /\ snap' = [snap EXCEPT ![w] = st]
                /\ Continue(w, "resStore")
                /\ UNCHANGED ver
           ELSE Fail(w)
    /\ UNCHANGED <<shared, clock, crashes, staged, deletes>>

ReserveGet(w) ==
    /\ pc[w] = "resGet"
    /\ LET st == Loaded(w)
           none == st.inflight.key = NoKey
           expired == now[w] >= st.inflight.expires
       IN \/ /\ ~none /\ ~expired /\ CanResume(w, st)
             /\ ver' = [ver EXCEPT ![w] = st.inflight.version]
             /\ Continue(w, "log")
             /\ UNCHANGED snap
          \/ /\ ~none /\ expired
             /\ inReserve' = [inReserve EXCEPT ![w] = TRUE]
             /\ Goto(w, "recHead")
             /\ UNCHANGED <<req, now, sver, snap, ver, acked>>
          \/ /\ none /\ st.latest = req[w].rv /\ st.latest < MaxVersion
             /\ snap' = [snap EXCEPT ![w] = st]
             /\ Continue(w, "resStore")
             /\ UNCHANGED ver
          \/ /\ \/ ~none /\ ~expired /\ ~CanResume(w, st)
                \/ none /\ (st.latest # req[w].rv \/ st.latest = MaxVersion)
             /\ Fail(w)
    /\ UNCHANGED <<shared, clock, crashes, staged, deletes>>

(* Mutant of ReserveStore: the latest version is reserved again.           *)
ReserveLatest(w) ==
    /\ pc[w] = "resStore"
    /\ CanStore(w)
    /\ Store(snap[w].latest,
             [key |-> req[w].key, rv |-> req[w].rv, version |-> snap[w].latest,
              payload |-> req[w].payload, sv |-> sver[w], expires |-> ExpiresAt(now[w])])
    /\ ver' = [ver EXCEPT ![w] = snap[w].latest]
    /\ Continue(w, "log")
    /\ UNCHANGED <<log, records, snap, clock, crashes, staged, deletes>>

ReserveStore(w) ==
    /\ pc[w] = "resStore"
    /\ LET v == snap[w].latest + 1
       IN \/ /\ CanStore(w)
             /\ Store(snap[w].latest,
                      [key |-> req[w].key, rv |-> req[w].rv, version |-> v,
                       payload |-> req[w].payload, sv |-> sver[w],
                       expires |-> ExpiresAt(now[w])])
             /\ ver' = [ver EXCEPT ![w] = v]
             /\ Continue(w, "log")
             /\ UNCHANGED <<log, records, snap>>
          \/ LostRace(w, "resHead")
    /\ UNCHANGED <<clock, crashes, staged, deletes>>

----------------------------------------------------------------------------
(* The rest of commit() and finalize_inflight                              *)

WriteLog(w) ==
    /\ pc[w] = "log"
    /\ PutLog(ver[w], req[w].payload)
    /\ IF log[ver[w]] \in {NoPayload, req[w].payload}
       THEN Continue(w, "record") /\ UNCHANGED <<snap, ver>>
       ELSE Fail(w)
    /\ UNCHANGED <<coord, nextObj, records, clock, crashes, staged, deletes>>

WriteRecord(w) ==
    /\ pc[w] = "record"
    /\ PutRecord(req[w].key, req[w], ver[w])
    /\ Continue(w, "finHead")
    /\ UNCHANGED <<coord, nextObj, log, clock, snap, ver, crashes, staged, deletes>>

FinalizeHead(w) ==
    /\ pc[w] = "finHead"
    /\ IF coord.obj = 0
       THEN Fail(w)
       ELSE LoadHead(w) /\ Continue(w, "finGet") /\ UNCHANGED ver
    /\ UNCHANGED <<shared, clock, crashes, staged, deletes>>

FinalizeGet(w) ==
    /\ pc[w] = "finGet"
    /\ LET st == Loaded(w)
           none == st.inflight.key = NoKey
       IN \/ none /\ st.latest >= ver[w] /\ Ok(w, ver[w])
          \/ ~none /\ st.inflight.key # req[w].key /\ Fail(w)
          \/ /\ \/ none /\ st.latest < ver[w]
                \/ ~none /\ st.inflight.key = req[w].key
             /\ snap' = [snap EXCEPT ![w] = st]
             /\ Continue(w, "finStore")
             /\ UNCHANGED ver
    /\ UNCHANGED <<shared, clock, crashes, staged, deletes>>

FinalizeStore(w) ==
    /\ pc[w] = "finStore"
    /\ \/ /\ CanStore(w)
          /\ Store(MaxOf(ver[w], snap[w].latest), NoInflight)
          /\ Ok(w, ver[w])
          /\ UNCHANGED <<log, records>>
       \/ LostRace(w, "finHead")
    /\ UNCHANGED <<clock, crashes, staged, deletes>>

----------------------------------------------------------------------------
(* The environment.                                                        *)

Tick ==
    /\ clock < MaxClock
    /\ clock' = clock + 1
    /\ UNCHANGED <<shared, pc, req, now, sver, snap, ver, inReserve, acked,
                   crashes, staged, deletes>>

(* The Unity Catalog route deletes the payload once commit() has returned  *)
(* Ok, at any later time; the route of the API keeps it.                   *)
DeleteStaged(p) ==
    /\ p \in Deletable /\ staged[p] # 0 /\ deletes < MaxDeletes
    /\ \E a \in acked : a.req.payload = p
    /\ staged' = [staged EXCEPT ![p] = 0]
    /\ deletes' = deletes + 1
    /\ UNCHANGED <<shared, clock, pc, req, now, sver, snap, ver, inReserve, acked,
                   crashes>>

(* The process dies, or a storage call fails: commit() stops where it is.  *)
Crash(w) ==
    /\ crashes < MaxCrashes
    /\ pc[w] # "idle"
    /\ crashes' = crashes + 1
    /\ Fail(w)
    /\ UNCHANGED <<shared, clock, staged, deletes>>

RecoverStep(w) ==
    RecoverHead(w) \/ RecoverGet(w) \/ RecoverCheck(w) \/ RecoverLog(w)
      \/ RecoverRecord(w) \/ RecoverStore(w)
ReserveStep(w) == ReserveHead(w) \/ ReserveGet(w) \/ ReserveStore(w)
WriteStep(w) ==
    WriteLog(w) \/ WriteRecord(w) \/ FinalizeHead(w) \/ FinalizeGet(w)
      \/ FinalizeStore(w)
ReplayStep(w) == Replay(w) \/ ReplayHead(w) \/ ReplayGet(w) \/ ReplayStore(w)

(* One step of a running commit().                                         *)
CommitStep(w) ==
    RecoverStep(w) \/ ReserveStep(w) \/ WriteStep(w) \/ ReplayStep(w)

Next ==
    \/ \E w \in Workers, r \in Requests : Begin(w, r) \/ ReplayCommitted(w, r)
    \/ \E w \in Workers : CommitStep(w) \/ Crash(w)
    \/ \E p \in Payloads : DeleteStaged(p)
    \/ Tick

Spec == Init /\ [][Next]_vars

(* A running commit() goes on, time passes, and clients keep sending every *)
(* request.                                                                *)
Fairness ==
    /\ \A w \in Workers : WF_vars(CommitStep(w))
    /\ \A w \in Workers, r \in Requests : SF_vars(Begin(w, r))
    /\ WF_vars(Tick)

FairSpec == Spec /\ Fairness

----------------------------------------------------------------------------
(* Properties.  Unless said otherwise they are about clients that use a    *)
(* key for one request only.                                               *)

(* The Delta log has no hole and never more than one entry beyond the      *)
(* latest version: latest_version may lag a materialised entry, and never  *)
(* runs ahead of the log, whatever crashes, recoveries and replays do.     *)
LogContiguous ==
    \A v \in Versions :
        /\ v <= coord.latest => log[v] # NoPayload
        /\ log[v] # NoPayload => v <= coord.latest + 1

(* An idempotency record, and so every replayed answer, and every answer   *)
(* of commit() tells the truth: the entry of its version is the payload of *)
(* its request, right after the version its client read.  Records are      *)
(* written by the owner of a reservation and by whoever recovers it.       *)
AnswersAreTrue ==
    \A a \in records \cup acked :
        /\ log[a.version] = a.req.payload
        /\ a.version = a.req.rv + 1

(* A reservation can be recovered from its staged payload as long as it    *)
(* stands: whoever deletes a payload, or stages it anew, does so after the *)
(* reservations made with it have ended, although several executions of    *)
(* the request may have been at work.                                      *)
PayloadOutlivesReservation ==
    coord.inflight.key # NoKey => Readable(coord.inflight)

(* "reusing it with a different semantic payload returns 409 CONFLICT"     *)
(* (docs/guide/src/reference/api.md): two Ok answers to one key are        *)
(* answers to one request.  Meant for clients that do reuse a key.         *)
KeyCommitsOnce ==
    \A a, b \in acked : a.req.key = b.req.key => a.req = b.req

(* The entries of the log, as a sequence.                                  *)
Committed ==
    LET n == Cardinality({v \in Versions : log[v] # NoPayload})
    IN  [i \in 1..n |-> log[i - 1]]

Abstract == INSTANCE OptimisticLog WITH committed <- Committed

(* The coordinator implements the optimistic log: entries are only ever    *)
(* appended, none is overwritten, each one follows the version its client  *)
(* read, and a request that is retried, resumed by its owner and recovered *)
(* by others still lands once.                                             *)
ImplementsOptimisticLog == Abstract!LogSpec

(* A reservation never blocks the table for ever: whoever made it may have *)
(* crashed at any point, some later commit() clears it.                    *)
ReservationEnds ==
    \A k \in Keys : coord.inflight.key = k ~> coord.inflight.key # k
=============================================================================
