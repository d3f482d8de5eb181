---------------------- MODULE DeltaCoordinatorProofs ----------------------
(***************************************************************************)
(* Proofs about DeltaCoordinator for any number of concurrent commits, any *)
(* set of requests, any lifetime of a reservation and any bounds, for      *)
(* clients that use a key, and so a staged payload, for one request only.  *)
(***************************************************************************)
EXTENDS DeltaCoordinator, FiniteSetTheorems, SequenceTheorems, TLAPS

(* A key is used for one request, and the staged payload is that of the    *)
(* request alone: its path is made from the key.                           *)
KeysAreUsedOnce ==
    \A r, s \in Requests : r.key = s.key \/ r.payload = s.payload => r = s

(* The entry of version v is that of request r.                            *)
Landed(r, v) == v = r.rv + 1 /\ log[v] = r.payload

(* A reservation some commit() has read: it still stands, or its version   *)
(* has been finalised with its own payload.                                *)
Known(i) ==
    /\ i.key # NoKey
    /\ RequestOf(i) \in Requests
    /\ i.version = i.rv + 1
    /\ \/ i = coord.inflight
       \/ i.version <= coord.latest /\ log[i.version] = i.payload

----------------------------------------------------------------------------
(* The state object: versions are handed out once, and a reservation is    *)
(* for the version after the latest one and can be read back.              *)
CoordInv ==
    /\ coord.obj < nextObj
    /\ coord.obj = 0 => coord = EmptyState
    /\ coord.latest \in -1..MaxVersion
    /\ coord.inflight.key # NoKey =>
         /\ RequestOf(coord.inflight) \in Requests
         /\ coord.inflight.rv = coord.latest
         /\ coord.inflight.version = coord.latest + 1
         /\ Readable(coord.inflight)

(* The log: an entry beyond the latest version is that of the reservation, *)
(* and every entry is that of a request which read the version before it.  *)
LogInv ==
    /\ LogContiguous
    /\ \A v \in Versions : v > coord.latest /\ log[v] # NoPayload =>
         coord.inflight.key # NoKey /\ log[v] = coord.inflight.payload
    /\ \A v \in Versions : log[v] # NoPayload =>
         \E r \in Requests : Landed(r, v)

(* Records and answers are true, and a request whose payload may be        *)
(* deleted is answered after its version is finalised.                     *)
AnswerInv ==
    /\ \A a \in records : a.key = a.req.key /\ Landed(a.req, a.version)
    /\ \A a \in acked : /\ Landed(a.req, a.version)
                        /\ a.req.payload \in Deletable
                             => a.version <= coord.latest
    /\ \A r \in Requests : staged[r.payload] = 0 => r.rv < coord.latest

(* What a running commit() knows: of the state it loaded ...               *)
SnapInv(w) ==
    /\ snap[w].obj < nextObj
    /\ snap[w].latest \in -1..MaxVersion
    /\ pc[w] \in {"recGet", "finGet", "rfGet"} => snap[w].obj # 0
    /\ pc[w] \in {"recCheck", "recLog", "recRecord", "recStore", "resStore",
                  "finStore", "rfStore"} =>
         (snap[w].obj = coord.obj => snap[w] = coord)

(* ... of the reservation it recovers ...                                  *)
RecoverInv(w) ==
    /\ pc[w] \in {"recCheck", "recLog", "recRecord", "recStore"} =>
         Known(snap[w].inflight)
    /\ pc[w] \in {"recRecord", "recStore"} =>
         log[snap[w].inflight.version] = snap[w].inflight.payload

(* ... of the version it reserves, writes or replays ...                   *)
OwnInv(w) ==
    /\ pc[w] = "resStore" =>
         /\ snap[w].inflight.key = NoKey
         /\ snap[w].latest = req[w].rv
         /\ snap[w].latest < MaxVersion
    /\ pc[w] = "log" =>
         /\ ver[w] = req[w].rv + 1
         /\ \/ RequestOf(coord.inflight) = req[w]
            \/ ver[w] <= coord.latest /\ log[ver[w]] = req[w].payload
    /\ pc[w] \in {"record", "finHead", "finGet", "finStore", "rfHead", "rfGet",
                  "rfStore"} => Landed(req[w], ver[w])
    /\ pc[w] \in {"finStore", "rfStore"} =>
         snap[w].inflight.key = req[w].key

(* ... and of its staged payload: it is still there, or nobody needs it.   *)
StageInv(w) ==
    pc[w] # "idle" =>
        staged[req[w].payload] = sver[w] \/ req[w].rv < coord.latest

SharedInv == CoordInv /\ LogInv /\ AnswerInv

WorkerInv(w) == SnapInv(w) /\ RecoverInv(w) /\ OwnInv(w) /\ StageInv(w)

IndInv == TypeOK /\ SharedInv /\ \A w \in Workers : WorkerInv(w)

----------------------------------------------------------------------------
(* How the shared objects may change under a running commit(): the latest  *)
(* version grows, entries stay, the state object gets a new version, a     *)
(* reservation ends only when its entry is there, and a staged payload     *)
(* changes only when its request is done with.                             *)
Evolve ==
    /\ coord.latest <= coord'.latest
    /\ \A v \in Versions : log[v] # NoPayload => log'[v] = log[v]
    /\ nextObj <= nextObj'
    /\ coord' = coord \/ coord'.obj = nextObj
    /\ coord.inflight.key # NoKey =>
         \/ coord'.inflight = coord.inflight
         \/ /\ coord.inflight.version <= coord'.latest
            /\ log'[coord.inflight.version] = coord.inflight.payload
    /\ \A r \in Requests :
         staged'[r.payload] = staged[r.payload] \/ r.rv < coord'.latest

Same(w) ==
    /\ pc'[w] = pc[w] /\ req'[w] = req[w] /\ sver'[w] = sver[w]
    /\ snap'[w] = snap[w] /\ ver'[w] = ver[w]

(* A request has the three fields of a record, and its key and its payload *)
(* are proper ones.                                                        *)
LEMMA RequestFacts ==
    ASSUME NEW r \in Requests
    PROVE  /\ r.key \in Keys /\ r.key # NoKey
           /\ r.payload \in Payloads /\ r.payload # NoPayload
           /\ r.rv \in Int
           /\ r = [key |-> r.key, rv |-> r.rv, payload |-> r.payload]
    BY DeltaAssumption DEF Keys, Payloads

(* What another commit() knows survives every change of the shared objects.*)
LEMMA OthersKeep ==
    ASSUME IndInv, TypeOK', Evolve, NEW u \in Workers, Same(u)
    PROVE  WorkerInv(u)'
<1> USE DEF IndInv, SharedInv, WorkerInv, Same
<1>0. /\ coord.latest \in Int /\ coord'.latest \in Int
      /\ req[u] \in Requests /\ ver[u] \in Versions
      /\ snap[u].inflight \in Inflights
      /\ nextObj \in Nat /\ nextObj' \in Nat /\ snap[u].obj \in Nat
    BY DEF TypeOK, States
<1>1. SnapInv(u)'
    BY <1>0 DEF SnapInv, Evolve
<1>2. ASSUME NEW i \in Inflights, Known(i) PROVE Known(i)'
    <2>1. i.version \in Versions /\ i.payload # NoPayload
        BY <1>2, RequestFacts DEF Known, Inflights, NoInflight, RequestOf
    <2>2. CASE i = coord.inflight
        BY <1>2, <2>2 DEF Known, Evolve
    <2>3. CASE i.version <= coord.latest /\ log[i.version] = i.payload
        BY <1>0, <1>2, <2>1, <2>3 DEF Known, Evolve, Versions
    <2>4. QED
        BY <1>2, <2>2, <2>3 DEF Known
<1>3. RecoverInv(u)'
    <2>1. ASSUME NEW i \in Inflights, Known(i), log[i.version] = i.payload
          PROVE  log'[i.version] = i.payload
        <3>1. i.version \in Versions /\ i.payload # NoPayload
            BY <2>1, RequestFacts DEF Known, Inflights, NoInflight, RequestOf
        <3>2. QED
            BY <2>1, <3>1 DEF Evolve
    <2>2. QED
        BY <1>0, <1>2, <2>1 DEF RecoverInv
<1>4. OwnInv(u)'
    <2>2. ASSUME Landed(req[u], ver[u]) PROVE Landed(req[u], ver[u])'
        BY <1>0, <2>2, RequestFacts DEF Landed, Evolve
    <2>3. ASSUME ver[u] = req[u].rv + 1,
                 \/ RequestOf(coord.inflight) = req[u]
                 \/ ver[u] <= coord.latest /\ log[ver[u]] = req[u].payload
          PROVE  \/ RequestOf(coord.inflight)' = req[u]
                 \/ ver[u] <= coord'.latest /\ log'[ver[u]] = req[u].payload
        <3>1. CASE RequestOf(coord.inflight) = req[u]
            BY <1>0, <2>3, <3>1, RequestFacts DEF RequestOf, Evolve, CoordInv
        <3>2. CASE ver[u] <= coord.latest /\ log[ver[u]] = req[u].payload
            BY <1>0, <3>2, RequestFacts DEF Evolve, Versions
        <3>3. QED
            BY <2>3, <3>1, <3>2
    <2>4. QED
        BY <2>2, <2>3 DEF OwnInv
<1>5. StageInv(u)'
    BY <1>0, RequestFacts DEF StageInv, Evolve
<1>6. QED
    BY <1>1, <1>3, <1>4, <1>5

----------------------------------------------------------------------------
(* The changes a step can make to the shared objects, one lemma for each.  *)

(* The types of the shared objects, for the lemmas that follow.            *)
LEMMA SharedTypes ==
    ASSUME TypeOK
    PROVE  /\ coord.obj \in Nat /\ coord.latest \in Int
           /\ coord.inflight \in Inflights
           /\ coord = [obj |-> coord.obj, latest |-> coord.latest,
                       inflight |-> coord.inflight]
           /\ nextObj \in Nat \ {0}
           /\ log \in [Versions -> Payloads \cup {NoPayload}]
           /\ staged \in [Payloads -> Nat]
           /\ \A a \in records : a.req \in Requests /\ a.version \in Versions
           /\ \A a \in acked : a.req \in Requests /\ a.version \in Versions
    BY DEF TypeOK, States

(* No reservation: the log ends with the latest version.                   *)
LEMMA LandedIsLatest ==
    ASSUME IndInv, NEW r \in Requests, NEW v \in Versions, Landed(r, v)
    PROVE  \/ v <= coord.latest
           \/ /\ v = coord.latest + 1
              /\ coord.inflight.key # NoKey
              /\ coord.inflight.payload = r.payload
<1>1. coord.latest \in Int /\ log[v] # NoPayload
    BY SharedTypes, RequestFacts DEF IndInv, Landed
<1>2. QED
    BY <1>1 DEF IndInv, SharedInv, LogInv, LogContiguous, Landed, Versions

(* The step changes none of them.                                          *)
LEMMA QuietShared ==
    ASSUME IndInv, UNCHANGED <<coord, nextObj, log, records, staged, acked>>
    PROVE  SharedInv' /\ Evolve
<1>1. Evolve
    BY SharedTypes DEF IndInv, Evolve
<1>2. QED
    BY <1>1 DEF IndInv, SharedInv, CoordInv, LogInv, AnswerInv, LogContiguous,
       Landed, Readable

(* A client is answered.                                                   *)
LEMMA AckShared ==
    ASSUME IndInv, UNCHANGED <<coord, nextObj, log, records, staged>>,
           NEW r \in Requests, NEW v \in Versions,
           acked' = acked \cup {[req |-> r, version |-> v]},
           Landed(r, v), r.payload \in Deletable => v <= coord.latest
    PROVE  SharedInv' /\ Evolve
<1>1. Evolve
    BY SharedTypes DEF IndInv, Evolve
<1>2. CoordInv' /\ LogInv'
    BY DEF IndInv, SharedInv, CoordInv, LogInv, LogContiguous, Landed, Readable
<1>3. AnswerInv'
    BY DEF IndInv, SharedInv, AnswerInv, Landed
<1>4. QED
    BY <1>1, <1>2, <1>3 DEF SharedInv

(* A record is written, or found to be there.                              *)
LEMMA RecordShared ==
    ASSUME IndInv, UNCHANGED <<coord, nextObj, log, acked, staged>>,
           NEW r \in Requests, NEW v \in Versions,
           PutRecord(r.key, r, v), Landed(r, v)
    PROVE  SharedInv' /\ Evolve
<1>1. Evolve
    BY SharedTypes DEF IndInv, Evolve
<1>2. CoordInv' /\ LogInv'
    BY DEF IndInv, SharedInv, CoordInv, LogInv, LogContiguous, Landed, Readable
<1>3. AnswerInv'
    BY DEF IndInv, SharedInv, AnswerInv, Landed, PutRecord
<1>4. QED
    BY <1>1, <1>2, <1>3 DEF SharedInv

(* The entry of a reservation is written, by its owner or by somebody who  *)
(* recovers it, or found to be there.                                      *)
LEMMA LogShared ==
    ASSUME IndInv, UNCHANGED <<coord, nextObj, records, acked, staged>>,
           NEW v \in Versions, NEW p \in Payloads, PutLog(v, p),
           \/ log[v] # NoPayload
           \/ /\ coord.inflight.key # NoKey
              /\ v = coord.inflight.version
              /\ p = coord.inflight.payload
    PROVE  SharedInv' /\ Evolve
<1>1. CASE log[v] # NoPayload
    <2>1. log' = log
        BY <1>1 DEF PutLog
    <2>2. QED
        BY <2>1, QuietShared
<1>2. CASE log[v] = NoPayload
    <2>0. /\ coord.latest \in Int /\ v \in Int
          /\ log \in [Versions -> Payloads \cup {NoPayload}]
          /\ p # NoPayload
        BY SharedTypes, DeltaAssumption DEF IndInv, Versions
    <2>1. /\ coord.inflight.key # NoKey
          /\ v = coord.latest + 1
          /\ p = coord.inflight.payload
          /\ v = coord.inflight.rv + 1
          /\ log' = [log EXCEPT ![v] = p]
        BY <1>2 DEF PutLog, IndInv, SharedInv, CoordInv
    <2>2. Evolve
        BY <1>2, <2>0, <2>1, SharedTypes DEF IndInv, Evolve
    <2>3. CoordInv'
        BY DEF IndInv, SharedInv, CoordInv, Readable
    <2>4. ASSUME NEW r \in Requests, NEW u \in Versions, Landed(r, u)
          PROVE  Landed(r, u)'
        BY <1>2, <2>0, <2>1, <2>4, RequestFacts DEF Landed
    <2>5. LogInv'
        <3>1. LogContiguous'
            BY <2>0, <2>1 DEF IndInv, SharedInv, LogInv, LogContiguous, Versions
        <3>2. \A u \in Versions : u > coord'.latest /\ log'[u] # NoPayload =>
                coord'.inflight.key # NoKey /\ log'[u] = coord'.inflight.payload
            BY <2>0, <2>1 DEF IndInv, SharedInv, LogInv
        <3>3. ASSUME NEW u \in Versions, log'[u] # NoPayload
              PROVE  \E r \in Requests : Landed(r, u)'
            <4>1. CASE u = v
                <5>1. RequestOf(coord.inflight) \in Requests
                    BY <2>1 DEF IndInv, SharedInv, CoordInv
                <5>2. Landed(RequestOf(coord.inflight), u)'
                    BY <2>0, <2>1, <4>1 DEF Landed, RequestOf
                <5>3. QED
                    BY <5>1, <5>2
            <4>2. CASE u # v
                BY <2>0, <2>1, <2>4, <3>3, <4>2 DEF IndInv, SharedInv, LogInv
            <4>3. QED
                BY <4>1, <4>2
        <3>4. QED
            BY <3>1, <3>2, <3>3 DEF LogInv
    <2>6. AnswerInv'
        BY <2>4, SharedTypes DEF IndInv, SharedInv, AnswerInv
    <2>7. QED
        BY <2>2, <2>3, <2>5, <2>6 DEF SharedInv
<1>3. QED
    BY <1>1, <1>2

(* The reservation, if there is one, is cleared after its entry was        *)
(* written; the client of the step may be answered.                        *)
LEMMA ClearShared ==
    ASSUME IndInv, UNCHANGED <<log, records, staged>>,
           NEW latest, Store(latest, NoInflight),
           IF coord.inflight.key = NoKey THEN latest = coord.latest
           ELSE /\ latest = coord.inflight.version
                /\ log[coord.inflight.version] = coord.inflight.payload,
           \/ acked' = acked
           \/ \E r \in Requests, v \in Versions :
                /\ Landed(r, v) /\ v <= latest
                /\ acked' = acked \cup {[req |-> r, version |-> v]}
    PROVE  SharedInv' /\ Evolve
<1>0. /\ coord.latest \in Int /\ nextObj \in Nat \ {0}
      /\ coord.latest \in -1..MaxVersion
      /\ coord.inflight.key # NoKey =>
            /\ coord.inflight.version \in Versions
            /\ coord.inflight.version = coord.latest + 1
            /\ coord.inflight.payload # NoPayload
    BY SharedTypes, RequestFacts
    DEF IndInv, Inflights, NoInflight, SharedInv, CoordInv, RequestOf
<1>1. /\ coord' = [obj |-> nextObj, latest |-> latest, inflight |-> NoInflight]
      /\ nextObj' = nextObj + 1
      /\ latest \in -1..MaxVersion /\ coord.latest <= latest
    BY <1>0 DEF Store, Versions
<1>2. Evolve
    BY <1>0, <1>1 DEF Evolve
<1>3. CoordInv'
    BY <1>0, <1>1 DEF CoordInv, NoInflight
<1>4. LogInv'
    <2>1. LogContiguous'
        BY <1>0, <1>1 DEF IndInv, SharedInv, LogInv, LogContiguous, Versions
    <2>2. ASSUME NEW u \in Versions, log[u] # NoPayload PROVE u <= latest
        BY <1>0, <1>1, <2>2
        DEF IndInv, SharedInv, LogInv, LogContiguous, Versions
    <2>3. QED
        BY <1>1, <2>1, <2>2 DEF IndInv, SharedInv, LogInv, Landed, Versions
<1>5. AnswerInv'
    <2>1. /\ \A a \in acked : a.version \in Versions
          /\ \A r \in Requests : r.rv \in Int
        BY SharedTypes, RequestFacts DEF IndInv
    <2>2. \A a \in acked' :
            /\ Landed(a.req, a.version)
            /\ a.req.payload \in Deletable => a.version <= latest
        BY <1>0, <1>1, <2>1 DEF IndInv, SharedInv, AnswerInv, Versions
    <2>3. QED
        BY <1>0, <1>1, <2>1, <2>2 DEF IndInv, SharedInv, AnswerInv, Landed
<1>6. QED
    BY <1>2, <1>3, <1>4, <1>5 DEF SharedInv

(* A version is reserved by a request that read the latest one.            *)
LEMMA ReserveShared ==
    ASSUME IndInv, UNCHANGED <<log, records, staged, acked>>,
           NEW r \in Requests, NEW sv \in Nat, NEW e \in Nat,
           coord.inflight.key = NoKey, r.rv = coord.latest,
           coord.latest < MaxVersion, staged[r.payload] = sv,
           Store(coord.latest, [key |-> r.key, rv |-> r.rv,
                                version |-> coord.latest + 1,
                                payload |-> r.payload, sv |-> sv,
                                expires |-> e])
    PROVE  SharedInv' /\ Evolve
<1>0. /\ coord.latest \in Int /\ nextObj \in Nat \ {0}
      /\ coord.latest \in -1..MaxVersion
    BY SharedTypes DEF IndInv, SharedInv, CoordInv
<1>1. /\ coord'.obj = nextObj /\ coord'.latest = coord.latest
      /\ coord'.inflight.version = coord.latest + 1
      /\ coord'.inflight.rv = coord.latest
      /\ coord'.inflight.payload = r.payload
      /\ coord'.inflight.sv = sv
      /\ coord'.inflight.key = r.key
      /\ nextObj' = nextObj + 1
    BY DEF Store
<1>2. Evolve
    BY <1>0, <1>1 DEF Evolve
<1>3. CoordInv'
    <2>1. RequestOf(coord'.inflight) = r
        BY <1>1, RequestFacts DEF RequestOf
    <2>2. QED
        BY <1>0, <1>1, <2>1 DEF CoordInv, Readable, RequestOf
<1>4. LogInv'
    BY <1>0, <1>1 DEF IndInv, SharedInv, LogInv, LogContiguous, Landed
<1>5. AnswerInv'
    BY <1>1 DEF IndInv, SharedInv, AnswerInv, Landed
<1>6. QED
    BY <1>2, <1>3, <1>4, <1>5 DEF SharedInv

(* A payload is staged anew, or deleted, when its request is done with.    *)
LEMMA StageShared ==
    ASSUME KeysAreUsedOnce, IndInv,
           UNCHANGED <<coord, nextObj, log, records, acked>>,
           NEW r \in Requests, NEW sv \in Nat,
           staged' = [staged EXCEPT ![r.payload] = sv],
           sv = staged[r.payload] \/ r.rv < coord.latest
    PROVE  SharedInv' /\ Evolve
<1>0. /\ coord.latest \in Int /\ nextObj \in Nat
      /\ staged \in [Payloads -> Nat]
      /\ \A s \in Requests : s.payload \in Payloads
    BY SharedTypes, RequestFacts DEF IndInv
<1>1. Evolve
    BY <1>0 DEF Evolve, KeysAreUsedOnce
<1>2. CoordInv'
    <2>1. SUFFICES ASSUME coord.inflight.key # NoKey
                   PROVE  staged'[coord.inflight.payload] =
                            staged[coord.inflight.payload]
        BY DEF IndInv, SharedInv, CoordInv, Readable
    <2>2. /\ RequestOf(coord.inflight) \in Requests
          /\ coord.inflight.rv = coord.latest
        BY <2>1 DEF IndInv, SharedInv, CoordInv
    <2>3. CASE coord.inflight.payload = r.payload
        <3>1. RequestOf(coord.inflight) = r
            BY <2>2, <2>3 DEF KeysAreUsedOnce, RequestOf
        <3>2. QED
            BY <1>0, <2>2, <2>3, <3>1 DEF RequestOf
    <2>4. CASE coord.inflight.payload # r.payload
        BY <1>0, <2>2, <2>4 DEF RequestOf
    <2>5. QED
        BY <2>3, <2>4
<1>3. LogInv'
    BY DEF IndInv, SharedInv, LogInv, LogContiguous, Landed
<1>4. AnswerInv'
    BY <1>0 DEF IndInv, SharedInv, AnswerInv, Landed, KeysAreUsedOnce
<1>5. QED
    BY <1>1, <1>2, <1>3, <1>4 DEF SharedInv

----------------------------------------------------------------------------
(* What a commit() knows after a step of its own.                          *)

(* It has returned: it knows nothing and needs nothing.                    *)
LEMMA Returned ==
    ASSUME IndInv, TypeOK', Evolve, NEW w \in Workers, Return(w)
    PROVE  WorkerInv(w)' /\ \A u \in Workers \ {w} : Same(u)
<1>1. /\ pc'[w] = "idle" /\ snap'[w] = EmptyState
      /\ \A u \in Workers \ {w} : Same(u)
    BY DEF IndInv, TypeOK, Return, Goto, Same
<1>2. nextObj' \in Nat \ {0} /\ MaxVersion \in Nat
    BY SharedTypes, DeltaAssumption DEF TypeOK
<1>3. QED
    BY <1>1, <1>2 DEF WorkerInv, SnapInv, RecoverInv, OwnInv, StageInv,
       EmptyState

(* It goes on with its request: the payload is there or not needed.        *)
LEMMA Continued ==
    ASSUME IndInv, TypeOK', Evolve, NEW w \in Workers,
           pc[w] # "idle", UNCHANGED <<req, sver>>
    PROVE  StageInv(w)'
<1>1. /\ coord.latest \in Int /\ coord'.latest \in Int
      /\ req[w] \in Requests /\ req[w].rv \in Int
    BY RequestFacts DEF IndInv, TypeOK, States
<1>2. QED
    BY <1>1 DEF IndInv, WorkerInv, StageInv, Evolve

(* The state that the get of load_state returns: that of the object, and   *)
(* of nothing that could be stored if it is not.                           *)
LEMMA LoadedFacts ==
    ASSUME IndInv, NEW w \in Workers
    PROVE  /\ Loaded(w) \in States
           /\ Loaded(w).obj = snap[w].obj
           /\ Loaded(w).latest \in -1..MaxVersion
           /\ snap[w].obj # 0 => /\ Loaded(w).latest = coord.latest
                                 /\ Loaded(w).inflight = coord.inflight
           /\ snap[w].obj = 0 => Loaded(w) = EmptyState
           /\ Loaded(w).obj = coord.obj => Loaded(w) = coord
<1>1. snap[w] \in States /\ coord \in States
    BY DEF IndInv, TypeOK
<1>2. EmptyState \in States /\ -1 \in -1..MaxVersion
    BY DeltaAssumption DEF EmptyState, States, Inflights
<1>3. /\ coord.latest \in -1..MaxVersion
      /\ coord.obj = 0 => coord = EmptyState
    BY DEF IndInv, SharedInv, CoordInv
<1>4. CASE snap[w].obj = 0
    BY <1>1, <1>2, <1>3, <1>4 DEF Loaded, EmptyState
<1>5. CASE snap[w].obj # 0
    BY <1>1, <1>3, <1>5 DEF Loaded, States
<1>6. QED
    BY <1>4, <1>5

(* The head of load_state.                                                 *)
LEMMA HeadFacts ==
    ASSUME IndInv, NEW w \in Workers, LoadHead(w)
    PROVE  /\ snap'[w] \in States
           /\ snap'[w].obj = coord.obj
           /\ snap'[w].latest \in -1..MaxVersion
           /\ snap' \in [Workers -> States]
           /\ \A u \in Workers \ {w} : snap'[u] = snap[u]
<1>1. snap \in [Workers -> States] /\ coord \in States
    BY DEF IndInv, TypeOK
<1>2. EmptyState \in States /\ -1 \in -1..MaxVersion
    BY DeltaAssumption DEF EmptyState, States, Inflights
<1>3. snap[w].latest \in -1..MaxVersion
    BY DEF IndInv, WorkerInv, SnapInv
<1>4. snap'[w] = IF coord.obj = 0 THEN EmptyState
                 ELSE [snap[w] EXCEPT !.obj = coord.obj]
    BY <1>1 DEF LoadHead
<1>5. /\ snap'[w] \in States
      /\ snap'[w].obj = coord.obj
      /\ snap'[w].latest \in -1..MaxVersion
    BY <1>1, <1>2, <1>3, <1>4 DEF States, EmptyState
<1>6. QED
    BY <1>1, <1>5 DEF LoadHead

----------------------------------------------------------------------------
(* Every action keeps every variable in its type; the bounds of the latest *)
(* version are those of the invariant.                                     *)
LEMMA TypeStep == IndInv /\ [Next]_vars => TypeOK'
<1> SUFFICES ASSUME IndInv, [Next]_vars PROVE TypeOK'
    OBVIOUS
<1>0. /\ TypeOK
      /\ AnyRequest \in Requests /\ EmptyState \in States /\ 0 \in Versions
      /\ NoInflight \in Inflights
      /\ \A r \in Requests : r.key \in Keys /\ r.payload \in Payloads
                             /\ r.rv \in Int
      /\ \A w \in Workers : Loaded(w) \in States
    BY DeltaAssumption, RequestFacts, LoadedFacts
    DEF IndInv, AnyRequest, EmptyState, States, Inflights, Versions
<1> USE DEF TypeOK, Pc, RecoverPc, ReservePc, WritePc, ReplayPc, Goto,
        Continue, shared
<1>1. ASSUME NEW w \in Workers, Return(w)
      PROVE  /\ pc' \in [Workers -> Pc] /\ req' \in [Workers -> Requests]
             /\ now' \in [Workers -> Nat] /\ sver' \in [Workers -> Nat]
             /\ snap' \in [Workers -> States] /\ ver' \in [Workers -> Versions]
             /\ inReserve' \in [Workers -> BOOLEAN]
    BY <1>0, <1>1 DEF Return
<1>2. ASSUME NEW w \in Workers, NEW v \in Versions, Ok(w, v)
      PROVE  acked' \subseteq [req : Requests, version : Versions]
    BY <1>0, <1>2 DEF Ok
<1>3. ASSUME NEW w \in Workers, NEW r \in Requests, Begin(w, r) PROVE TypeOK'
    BY <1>0, <1>3 DEF Begin
<1>4. ASSUME NEW w \in Workers, NEW r \in Requests, ReplayCommitted(w, r)
      PROVE  TypeOK'
    BY <1>0, <1>4 DEF ReplayCommitted, RecordOf
<1>5. ASSUME NEW w \in Workers, Crash(w) PROVE TypeOK'
    BY <1>0, <1>1, <1>5 DEF Crash, Fail
<1>6. ASSUME NEW w \in Workers, NEW label \in Pc, LostRace(w, label)
      PROVE  /\ pc' \in [Workers -> Pc] /\ req' \in [Workers -> Requests]
             /\ now' \in [Workers -> Nat] /\ sver' \in [Workers -> Nat]
             /\ snap' \in [Workers -> States] /\ ver' \in [Workers -> Versions]
             /\ inReserve' \in [Workers -> BOOLEAN]
             /\ UNCHANGED <<coord, nextObj, log, records, acked>>
    BY <1>0, <1>1, <1>6 DEF LostRace, Fail
<1>7. ASSUME NEW w \in Workers, Replay(w) PROVE TypeOK'
    <2>1. CASE Fail(w)
        BY <1>0, <1>1, <1>7, <2>1 DEF Replay, Fail
    <2>2. CASE ~Fail(w)
        BY <1>0, <1>7, <2>2 DEF Replay, RecordOf
    <2>3. QED
        BY <2>1, <2>2
<1>8. ASSUME NEW w \in Workers, ReplayHead(w) PROVE TypeOK'
    <2>1. CASE Ok(w, ver[w])
        BY <1>0, <1>1, <1>2, <1>8, <2>1 DEF ReplayHead, Ok
    <2>2. CASE ~Ok(w, ver[w])
        BY <1>0, <1>8, <2>2, HeadFacts DEF ReplayHead
    <2>3. QED
        BY <2>1, <2>2
<1>9. ASSUME NEW w \in Workers, ReplayGet(w) PROVE TypeOK'
    <2>1. CASE Ok(w, ver[w])
        BY <1>0, <1>1, <1>2, <1>9, <2>1 DEF ReplayGet, Ok
    <2>2. CASE ~Ok(w, ver[w])
        BY <1>0, <1>9, <2>2 DEF ReplayGet
    <2>3. QED
        BY <2>1, <2>2
<1>10. ASSUME NEW w \in Workers, ReplayStore(w) PROVE TypeOK'
    <2>1. CASE LostRace(w, "rfHead")
        BY <1>0, <1>6, <1>10, <2>1 DEF ReplayStore
    <2>2. CASE ~LostRace(w, "rfHead")
        <3>1. snap[w].inflight \in Inflights /\ ver[w] \in Int
            BY <1>0 DEF States, Versions
        <3>2. snap[w].inflight.version \in Int
            BY <3>1 DEF Inflights, NoInflight, Versions
        <3>3. coord' \in States /\ nextObj' \in Nat \ {0}
            BY <1>0, <1>10, <2>2, <3>1, <3>2
            DEF ReplayStore, Store, States, MaxOf
        <3>4. Ok(w, ver[w]) /\ UNCHANGED <<log, records>>
            BY <1>10, <2>2 DEF ReplayStore
        <3>5. QED
            BY <1>0, <1>1, <1>2, <1>10, <3>3, <3>4 DEF ReplayStore, Ok
    <2>3. QED
        BY <2>1, <2>2
<1>11. ASSUME NEW w \in Workers, RecoverHead(w) PROVE TypeOK'
    BY <1>0, <1>11, HeadFacts DEF RecoverHead
<1>12. ASSUME NEW w \in Workers, RecoverGet(w) PROVE TypeOK'
    BY <1>0, <1>12 DEF RecoverGet
<1>13. ASSUME NEW w \in Workers, RecoverCheck(w) PROVE TypeOK'
    BY <1>0, <1>13 DEF RecoverCheck
<1>14. ASSUME NEW w \in Workers, pc[w] \in {"recLog", "recRecord", "recStore"}
       PROVE  /\ snap[w].inflight.key \in Keys
              /\ snap[w].inflight.version \in Versions
              /\ snap[w].inflight.payload \in Payloads
              /\ RequestOf(snap[w].inflight) \in Requests
              /\ snap[w].latest \in Int
    <2>1. snap[w].inflight \in Inflights /\ snap[w].latest \in Int
        BY <1>0 DEF States
    <2>2. Known(snap[w].inflight)
        BY <1>14 DEF IndInv, WorkerInv, RecoverInv
    <2>3. QED
        BY <2>1, <2>2 DEF Known, Inflights, NoInflight
<1>15. ASSUME NEW w \in Workers, RecoverLog(w) PROVE TypeOK'
    <2>1. CASE Fail(w) /\ UNCHANGED log
        BY <1>0, <1>1, <1>15, <2>1 DEF RecoverLog, Fail
    <2>2. CASE ~(Fail(w) /\ UNCHANGED log)
        BY <1>0, <1>14, <1>15, <2>2 DEF RecoverLog, PutLog
    <2>3. QED
        BY <2>1, <2>2
<1>16. ASSUME NEW w \in Workers, RecoverRecord(w) PROVE TypeOK'
    <2>1. CASE Fail(w) /\ UNCHANGED records
        BY <1>0, <1>1, <1>16, <2>1 DEF RecoverRecord, Fail
    <2>2. CASE ~(Fail(w) /\ UNCHANGED records)
        BY <1>0, <1>14, <1>16, <2>2 DEF RecoverRecord, PutRecord
    <2>3. QED
        BY <2>1, <2>2
<1>17. ASSUME NEW w \in Workers, RecoverStore(w) PROVE TypeOK'
    <2>1. CASE LostRace(w, "recHead")
        BY <1>0, <1>6, <1>17, <2>1 DEF RecoverStore
    <2>2. CASE ~LostRace(w, "recHead")
        <3>1. /\ snap[w].inflight.version \in Versions
              /\ snap[w].latest \in Int
            BY <1>14, <1>17 DEF RecoverStore
        <3>2. coord' \in States /\ nextObj' \in Nat \ {0}
            BY <1>0, <1>17, <2>2, <3>1
            DEF RecoverStore, Store, States, MaxOf, Versions
        <3>3. UNCHANGED <<log, records, clock, staged, crashes, deletes>>
            BY <1>17, <2>2 DEF RecoverStore
        <3>4. CASE Ok(w, snap[w].inflight.version)
            BY <1>0, <1>1, <1>2, <3>1, <3>2, <3>3, <3>4 DEF Ok
        <3>5. CASE Fail(w)
            BY <1>0, <1>1, <3>2, <3>3, <3>5 DEF Fail
        <3>6. CASE Continue(w, "resHead") /\ UNCHANGED <<snap, ver>>
            BY <1>0, <3>2, <3>3, <3>6
        <3>7. QED
            BY <1>17, <2>2, <3>4, <3>5, <3>6 DEF RecoverStore
    <2>3. QED
        BY <2>1, <2>2
<1>18. ASSUME NEW w \in Workers, ReserveHead(w) PROVE TypeOK'
    BY <1>0, <1>18, HeadFacts DEF ReserveHead
<1>19. ASSUME NEW w \in Workers, ReserveGet(w) PROVE TypeOK'
    <2>1. CASE Fail(w)
        BY <1>0, <1>1, <1>19, <2>1 DEF ReserveGet, Fail
    <2>2. CASE ~Fail(w)
        <3>1. Loaded(w).inflight.key # NoKey =>
                Loaded(w).inflight.version \in Versions
            BY <1>0 DEF States, Inflights, NoInflight
        <3>2. QED
            BY <1>0, <1>19, <2>2, <3>1 DEF ReserveGet
    <2>3. QED
        BY <2>1, <2>2
<1>20. ASSUME NEW w \in Workers, ReserveStore(w) PROVE TypeOK'
    <2>1. CASE LostRace(w, "resHead")
        BY <1>0, <1>6, <1>20, <2>1 DEF ReserveStore
    <2>2. CASE ~LostRace(w, "resHead")
        <3>1. snap[w].latest + 1 \in Versions /\ snap[w].latest \in Int
            BY <1>20, DeltaAssumption
            DEF ReserveStore, IndInv, WorkerInv, SnapInv, OwnInv, Versions
        <3>2. ExpiresAt(now[w]) \in Nat
            BY <1>0, DeltaAssumption DEF ExpiresAt, MinOf
        <3>3. coord' \in States /\ nextObj' \in Nat \ {0}
            BY <1>0, <1>20, <2>2, <3>1, <3>2
            DEF ReserveStore, Store, States, Inflights
        <3>4. QED
            BY <1>0, <1>20, <2>2, <3>1, <3>3 DEF ReserveStore
    <2>3. QED
        BY <2>1, <2>2
<1>21. ASSUME NEW w \in Workers, WriteLog(w) PROVE TypeOK'
    <2>1. CASE Fail(w)
        BY <1>0, <1>1, <1>21, <2>1 DEF WriteLog, Fail, PutLog
    <2>2. CASE ~Fail(w)
        BY <1>0, <1>21, <2>2 DEF WriteLog, PutLog
    <2>3. QED
        BY <2>1, <2>2
<1>22. ASSUME NEW w \in Workers, WriteRecord(w) PROVE TypeOK'
    BY <1>0, <1>22 DEF WriteRecord, PutRecord
<1>23. ASSUME NEW w \in Workers, FinalizeHead(w) PROVE TypeOK'
    <2>1. CASE Fail(w)
        BY <1>0, <1>1, <1>23, <2>1 DEF FinalizeHead, Fail
    <2>2. CASE ~Fail(w)
        BY <1>0, <1>23, <2>2, HeadFacts DEF FinalizeHead
    <2>3. QED
        BY <2>1, <2>2
<1>24. ASSUME NEW w \in Workers, FinalizeGet(w) PROVE TypeOK'
    <2>1. CASE Fail(w)
        BY <1>0, <1>1, <1>24, <2>1 DEF FinalizeGet, Fail
    <2>2. CASE Ok(w, ver[w])
        BY <1>0, <1>1, <1>2, <1>24, <2>2 DEF FinalizeGet, Ok
    <2>3. CASE ~Fail(w) /\ ~Ok(w, ver[w])
        BY <1>0, <1>24, <2>3 DEF FinalizeGet
    <2>4. QED
        BY <2>1, <2>2, <2>3
<1>25. ASSUME NEW w \in Workers, FinalizeStore(w) PROVE TypeOK'
    <2>1. CASE LostRace(w, "finHead")
        BY <1>0, <1>6, <1>25, <2>1 DEF FinalizeStore
    <2>2. CASE ~LostRace(w, "finHead")
        <3>1. snap[w].latest \in Int /\ ver[w] \in Int
            BY <1>0 DEF States, Versions
        <3>2. coord' \in States /\ nextObj' \in Nat \ {0}
            BY <1>0, <1>25, <2>2, <3>1 DEF FinalizeStore, Store, States, MaxOf
        <3>3. Ok(w, ver[w]) /\ UNCHANGED <<log, records>>
            BY <1>25, <2>2 DEF FinalizeStore
        <3>4. QED
            BY <1>0, <1>1, <1>2, <1>25, <3>2, <3>3 DEF FinalizeStore, Ok
    <2>3. QED
        BY <2>1, <2>2
<1>26. ASSUME NEW p \in Payloads, DeleteStaged(p) PROVE TypeOK'
    BY <1>0, <1>26, DeltaAssumption DEF DeleteStaged
<1>27. CASE Tick
    BY <1>0, <1>27 DEF Tick
<1>28. CASE UNCHANGED vars
    BY <1>0, <1>28 DEF vars
<1>29. QED
    BY <1>3, <1>4, <1>5, <1>7, <1>8, <1>9, <1>10, <1>11, <1>12, <1>13, <1>15,
       <1>16, <1>17, <1>18, <1>19, <1>20, <1>21, <1>22, <1>23, <1>24, <1>25,
       <1>26, <1>27, <1>28
    DEF Next, CommitStep, RecoverStep, ReserveStep, WriteStep, ReplayStep

----------------------------------------------------------------------------
(* A step of one commit(), put together from what it does to the shared    *)
(* objects and what it leaves its own execution with.                      *)
LEMMA Assemble ==
    ASSUME IndInv, TypeOK', SharedInv', Evolve, NEW w \in Workers,
           WorkerInv(w)', \A u \in Workers \ {w} : Same(u)
    PROVE  IndInv'
<1>1. ASSUME NEW u \in Workers PROVE WorkerInv(u)'
    BY OthersKeep
<1>2. QED
    BY <1>1 DEF IndInv

(* commit() returns with an error.                                         *)
LEMMA FailStep ==
    ASSUME IndInv, TypeOK', SharedInv', Evolve, NEW w \in Workers, Return(w)
    PROVE  IndInv'
    BY Returned, Assemble

(* A lost race changes no shared object and keeps what was true.           *)
LEMMA LostRaceStep ==
    ASSUME IndInv, TypeOK', NEW w \in Workers, NEW label,
           LostRace(w, label), UNCHANGED staged, pc[w] # "idle",
           \/ label \in {"recHead", "resHead"}
           \/ label \in {"finHead", "rfHead"} /\ Landed(req[w], ver[w])
    PROVE  IndInv'
<1>1. SharedInv' /\ Evolve
    BY QuietShared DEF LostRace, shared, Continue, Fail
<1>2. CASE Fail(w)
    BY <1>1, <1>2, FailStep DEF Fail
<1>3. CASE Continue(w, label) /\ UNCHANGED <<snap, ver>>
    <2>1. pc'[w] = label /\ \A u \in Workers \ {w} : Same(u)
        BY <1>3 DEF IndInv, TypeOK, Continue, Goto, Same
    <2>2. StageInv(w)'
        BY <1>1, <1>3, Continued DEF Continue
    <2>3. SnapInv(w)' /\ RecoverInv(w)' /\ OwnInv(w)'
        BY <1>3, <2>1 DEF IndInv, WorkerInv, SnapInv, RecoverInv, OwnInv,
           Landed, LostRace, shared, Continue
    <2>4. QED
        BY <1>1, <2>1, <2>2, <2>3, Assemble DEF WorkerInv
<1>4. QED
    BY <1>2, <1>3 DEF LostRace

(* replay_committed_with_hashes and finalize_replayed_commit.              *)
LEMMA ReplayKeeps ==
    ASSUME KeysAreUsedOnce, IndInv, TypeOK', NEW w \in Workers, ReplayStep(w)
    PROVE  IndInv'
<1>0. /\ req[w] \in Requests /\ ver[w] \in Versions
      /\ req[w].key # NoKey /\ req[w].rv \in Int
      /\ coord.latest \in Int
      /\ \A a \in records : a.req \in Requests /\ a.version \in Versions
    BY RequestFacts, SharedTypes DEF IndInv, TypeOK
<1>1. ASSUME Replay(w) PROVE IndInv'
    <2>1. UNCHANGED <<coord, nextObj, log, records, staged, acked>>
        BY <1>1 DEF Replay, shared, Continue, Fail
    <2>2. SharedInv' /\ Evolve
        BY <2>1, QuietShared
    <2>3. CASE Fail(w)
        BY <2>2, <2>3, FailStep DEF Fail
    <2>4. CASE Continue(w, "recHead") /\ UNCHANGED <<snap, ver>>
        <3>1. pc'[w] = "recHead" /\ \A u \in Workers \ {w} : Same(u)
            BY <2>4 DEF IndInv, TypeOK, Continue, Goto, Same
        <3>2. StageInv(w)'
            BY <1>1, <2>2, <2>4, Continued DEF Continue, Replay
        <3>3. SnapInv(w)' /\ RecoverInv(w)' /\ OwnInv(w)'
            BY <2>1, <2>4, <3>1 DEF IndInv, WorkerInv, SnapInv, RecoverInv,
               OwnInv
        <3>4. QED
            BY <2>2, <3>1, <3>2, <3>3, Assemble DEF WorkerInv
    <2>5. ASSUME NEW rec \in RecordOf(req[w].key), rec.req = req[w],
                 ver' = [ver EXCEPT ![w] = rec.version],
                 Continue(w, "rfHead"), UNCHANGED snap
          PROVE  IndInv'
        <3>1. /\ pc'[w] = "rfHead" /\ ver'[w] = rec.version
              /\ \A u \in Workers \ {w} : Same(u)
            BY <2>5 DEF IndInv, TypeOK, Continue, Goto, Same
        <3>2. StageInv(w)'
            BY <1>1, <2>2, <2>5, Continued DEF Continue, Replay
        <3>3. Landed(req[w], rec.version)
            BY <2>5 DEF RecordOf, IndInv, SharedInv, AnswerInv
        <3>4. SnapInv(w)' /\ RecoverInv(w)' /\ OwnInv(w)'
            BY <2>1, <2>5, <3>1, <3>3 DEF IndInv, WorkerInv, SnapInv,
               RecoverInv, OwnInv, Landed, Continue
        <3>5. QED
            BY <2>2, <3>1, <3>2, <3>4, Assemble DEF WorkerInv
    <2>6. QED
        BY <1>1, <2>3, <2>4, <2>5 DEF Replay
<1>2. ASSUME Landed(req[w], ver[w]), ver[w] <= coord.latest, Ok(w, ver[w]),
             UNCHANGED <<coord, nextObj, log, records, staged>>
      PROVE  IndInv'
    <2>1. SharedInv' /\ Evolve
        BY <1>0, <1>2, AckShared DEF Ok
    <2>2. QED
        BY <1>2, <2>1, FailStep DEF Ok
<1>3. ASSUME pc[w] \in {"rfHead", "rfGet", "rfStore"}
      PROVE  /\ Landed(req[w], ver[w])
             /\ \/ ver[w] <= coord.latest
                \/ /\ ver[w] = coord.latest + 1
                   /\ coord.inflight.key = req[w].key
                   /\ coord.inflight.version = ver[w]
    <2>1. Landed(req[w], ver[w])
        BY <1>3 DEF IndInv, WorkerInv, OwnInv
    <2>2. CASE ver[w] = coord.latest + 1 /\ coord.inflight.key # NoKey
               /\ coord.inflight.payload = req[w].payload
        <3>1. /\ RequestOf(coord.inflight) \in Requests
              /\ coord.inflight.version = coord.latest + 1
            BY <2>2 DEF IndInv, SharedInv, CoordInv
        <3>2. RequestOf(coord.inflight) = req[w]
            BY <1>0, <2>2, <3>1 DEF KeysAreUsedOnce, RequestOf
        <3>3. QED
            BY <2>1, <2>2, <3>1, <3>2 DEF RequestOf
    <2>3. QED
        BY <1>0, <2>1, <2>2, LandedIsLatest
<1>4. ASSUME ReplayHead(w) PROVE IndInv'
    <2>1. CASE coord.obj = 0
        <3>1. coord.inflight.key = NoKey
            BY <2>1 DEF IndInv, SharedInv, CoordInv, EmptyState, NoInflight
        <3>2. QED
            BY <1>0, <1>2, <1>3, <1>4, <2>1, <3>1 DEF ReplayHead, shared
    <2>2. CASE coord.obj # 0
        <3>1. /\ LoadHead(w) /\ Continue(w, "rfGet")
              /\ UNCHANGED <<ver, coord, nextObj, log, records, staged, acked>>
            BY <1>4, <2>2 DEF ReplayHead, shared, Continue
        <3>2. SharedInv' /\ Evolve
            BY <3>1, QuietShared
        <3>3. pc'[w] = "rfGet" /\ \A u \in Workers \ {w} : Same(u)
            BY <3>1, HeadFacts DEF IndInv, TypeOK, Continue, Goto, Same
        <3>4. StageInv(w)'
            BY <1>4, <3>1, <3>2, Continued DEF Continue, ReplayHead
        <3>5. SnapInv(w)'
            BY <2>2, <3>1, <3>3, HeadFacts DEF SnapInv, IndInv, SharedInv,
               CoordInv
        <3>6. RecoverInv(w)' /\ OwnInv(w)'
            BY <1>3, <1>4, <3>1, <3>3 DEF RecoverInv, OwnInv, Landed,
               ReplayHead, Continue
        <3>7. QED
            BY <3>2, <3>3, <3>4, <3>5, <3>6, Assemble DEF WorkerInv
    <2>3. QED
        BY <2>1, <2>2
<1>5. ASSUME ReplayGet(w) PROVE IndInv'
    <2>1. /\ Loaded(w).latest = coord.latest
          /\ Loaded(w).inflight = coord.inflight
        BY <1>5, LoadedFacts DEF ReplayGet, IndInv, WorkerInv, SnapInv
    <2>2. CASE coord.inflight.key # req[w].key
        <3>1. ver[w] <= coord.latest
            BY <1>0, <1>3, <1>5, <2>2 DEF ReplayGet
        <3>2. Ok(w, ver[w])
            BY <1>0, <1>5, <2>1, <2>2, <3>1 DEF ReplayGet, Versions
        <3>3. QED
            BY <1>2, <1>3, <1>5, <3>1, <3>2 DEF ReplayGet, shared
    <2>3. CASE coord.inflight.key = req[w].key
        <3>1. /\ snap' = [snap EXCEPT ![w] = Loaded(w)]
              /\ Continue(w, "rfStore")
              /\ UNCHANGED <<ver, coord, nextObj, log, records, staged, acked>>
            BY <1>5, <2>1, <2>3 DEF ReplayGet, shared, Continue
        <3>2. SharedInv' /\ Evolve
            BY <3>1, QuietShared
        <3>3. /\ pc'[w] = "rfStore" /\ snap'[w] = Loaded(w)
              /\ \A u \in Workers \ {w} : Same(u)
            BY <3>1 DEF IndInv, TypeOK, Continue, Goto, Same
        <3>4. StageInv(w)'
            BY <1>5, <3>1, <3>2, Continued DEF Continue, ReplayGet
        <3>5. SnapInv(w)'
            BY <3>1, <3>3, LoadedFacts DEF SnapInv, IndInv, WorkerInv
        <3>6. RecoverInv(w)' /\ OwnInv(w)'
            BY <1>3, <1>5, <2>1, <2>3, <3>1, <3>3
            DEF RecoverInv, OwnInv, Landed, ReplayGet, Continue
        <3>7. QED
            BY <3>2, <3>3, <3>4, <3>5, <3>6, Assemble DEF WorkerInv
    <2>4. QED
        BY <2>2, <2>3
<1>6. ASSUME ReplayStore(w) PROVE IndInv'
    <2>1. Landed(req[w], ver[w]) /\ pc[w] # "idle" /\ UNCHANGED staged
        BY <1>3, <1>6 DEF ReplayStore
    <2>2. CASE LostRace(w, "rfHead")
        BY <2>1, <2>2, LostRaceStep
    <2>3. CASE ~LostRace(w, "rfHead")
        <3>1. snap[w] = coord /\ coord.inflight.key = req[w].key
            BY <1>6, <2>3 DEF ReplayStore, CanStore, IndInv, WorkerInv,
               SnapInv, OwnInv
        <3>2. /\ RequestOf(coord.inflight) \in Requests
              /\ coord.inflight.rv = coord.latest
              /\ coord.inflight.version = coord.latest + 1
            BY <1>0, <3>1 DEF IndInv, SharedInv, CoordInv
        <3>3. RequestOf(coord.inflight) = req[w]
            BY <1>0, <3>1, <3>2 DEF KeysAreUsedOnce, RequestOf
        <3>4. /\ coord.inflight.version = ver[w]
              /\ coord.inflight.payload = req[w].payload
            BY <2>1, <3>2, <3>3 DEF Landed, RequestOf
        <3>5. /\ Store(ver[w], NoInflight) /\ Ok(w, ver[w])
              /\ UNCHANGED <<log, records, staged>>
            BY <1>0, <1>6, <2>3, <3>1, <3>4 DEF ReplayStore, MaxOf, Versions
        <3>6. SharedInv' /\ Evolve
            BY <1>0, <2>1, <3>1, <3>4, <3>5, ClearShared
            DEF Ok, Landed, Versions
        <3>7. QED
            BY <3>5, <3>6, FailStep DEF Ok
    <2>4. QED
        BY <2>2, <2>3
<1>7. QED
    BY <1>1, <1>4, <1>5, <1>6 DEF ReplayStep

(* recover_inflight.                                                       *)
LEMMA RecoverKeeps ==
    ASSUME KeysAreUsedOnce, IndInv, TypeOK', NEW w \in Workers, RecoverStep(w)
    PROVE  IndInv'
<1> DEFINE i == snap[w].inflight
<1>0. /\ req[w] \in Requests /\ req[w].key # NoKey /\ req[w].rv \in Int
      /\ i \in Inflights /\ coord.inflight \in Inflights
      /\ coord.latest \in Int /\ snap[w].latest \in Int
    BY RequestFacts, SharedTypes DEF IndInv, TypeOK, States
<1>1. ASSUME pc[w] \in {"recCheck", "recLog", "recRecord", "recStore"}
      PROVE  /\ Known(i) /\ RequestOf(i) \in Requests
             /\ i.key # NoKey /\ i.version = i.rv + 1
             /\ i.version \in Versions
             /\ i.payload \in Payloads /\ i.payload # NoPayload
             /\ log[i.version] \in {NoPayload, i.payload}
             /\ log[i.version] = NoPayload => i = coord.inflight
    <2>1. /\ Known(i) /\ RequestOf(i) \in Requests
          /\ i.key # NoKey /\ i.version = i.rv + 1
        BY <1>1 DEF IndInv, WorkerInv, RecoverInv, Known
    <2>2. i.version \in Versions /\ i.payload \in Payloads
        BY <1>0, <2>1 DEF Inflights, NoInflight
    <2>3. i.payload # NoPayload
        BY <2>1, RequestFacts DEF RequestOf
    <2>4. CASE i = coord.inflight
        <3>1. i.version > coord.latest
            BY <1>0, <2>1, <2>4 DEF IndInv, SharedInv, CoordInv
        <3>2. QED
            BY <2>1, <2>2, <2>3, <2>4, <3>1 DEF IndInv, SharedInv, LogInv
    <2>5. CASE i.version <= coord.latest /\ log[i.version] = i.payload
        BY <2>1, <2>2, <2>3, <2>5
    <2>6. QED
        BY <2>1, <2>4, <2>5 DEF Known
<1>2. ASSUME NEW label \in {"resHead", "recLog", "recRecord", "recStore"},
             pc[w] \in {"recHead", "recCheck", "recLog", "recRecord"},
             Continue(w, label), UNCHANGED <<snap, ver, coord, nextObj>>,
             SharedInv', Evolve,
             label # "resHead" => pc[w] # "recHead",
             label \in {"recRecord", "recStore"} => log'[i.version] = i.payload
      PROVE  IndInv'
    <2>1. pc'[w] = label /\ \A u \in Workers \ {w} : Same(u)
        BY <1>2 DEF IndInv, TypeOK, Continue, Goto, Same
    <2>2. StageInv(w)'
        BY <1>2, Continued DEF Continue
    <2>3. SnapInv(w)' /\ OwnInv(w)'
        BY <1>2, <2>1 DEF IndInv, WorkerInv, SnapInv, OwnInv
    <2>4. RecoverInv(w)'
        <3>1. CASE label = "resHead"
            BY <2>1, <3>1 DEF RecoverInv
        <3>2. CASE label # "resHead"
            <4>1. Known(i)'
                BY <1>1, <1>2, <3>2 DEF Known, Evolve
            <4>2. QED
                BY <1>2, <2>1, <4>1 DEF RecoverInv
        <3>3. QED
            BY <3>1, <3>2
    <2>5. QED
        BY <1>2, <2>1, <2>2, <2>3, <2>4, Assemble DEF WorkerInv
<1>3. ASSUME RecoverHead(w) PROVE IndInv'
    <2>1. SharedInv' /\ Evolve
        BY <1>3, QuietShared DEF RecoverHead, shared, Continue
    <2>2. CASE coord.obj = 0
        BY <1>2, <1>3, <2>1, <2>2 DEF RecoverHead, shared
    <2>3. CASE coord.obj # 0
        <3>1. /\ LoadHead(w) /\ Continue(w, "recGet")
              /\ UNCHANGED <<ver, coord, nextObj, log>>
            BY <1>3, <2>3 DEF RecoverHead, shared
        <3>2. pc'[w] = "recGet" /\ \A u \in Workers \ {w} : Same(u)
            BY <3>1, HeadFacts DEF IndInv, TypeOK, Continue, Goto, Same
        <3>3. StageInv(w)'
            BY <1>3, <2>1, <3>1, Continued DEF Continue, RecoverHead
        <3>4. SnapInv(w)'
            BY <2>3, <3>1, <3>2, HeadFacts DEF SnapInv, IndInv, SharedInv,
               CoordInv
        <3>5. RecoverInv(w)' /\ OwnInv(w)'
            BY <3>2 DEF RecoverInv, OwnInv
        <3>6. QED
            BY <2>1, <3>2, <3>3, <3>4, <3>5, Assemble DEF WorkerInv
    <2>4. QED
        BY <2>2, <2>3
<1>4. ASSUME RecoverGet(w) PROVE IndInv'
    <2>1. SharedInv' /\ Evolve
        BY <1>4, QuietShared DEF RecoverGet, shared, Continue
    <2>2. /\ Loaded(w).latest = coord.latest
          /\ Loaded(w).inflight = coord.inflight
        BY <1>4, LoadedFacts DEF RecoverGet, IndInv, WorkerInv, SnapInv
    <2>3. /\ pc'[w] = IF coord.inflight.key = NoKey THEN "resHead"
                      ELSE "recCheck"
          /\ snap'[w] = Loaded(w)
          /\ UNCHANGED <<coord, nextObj, log, req, sver>>
          /\ \A u \in Workers \ {w} : Same(u)
        BY <1>4, <2>2
        DEF RecoverGet, shared, IndInv, TypeOK, Continue, Goto, Same
    <2>4. StageInv(w)'
        BY <1>4, <2>1, <2>3, Continued DEF RecoverGet
    <2>5. SnapInv(w)'
        BY <2>3, LoadedFacts DEF SnapInv, IndInv, WorkerInv
    <2>6. coord.inflight.key # NoKey => Known(coord.inflight)
        BY <1>0 DEF Known, IndInv, SharedInv, CoordInv
    <2>7. RecoverInv(w)' /\ OwnInv(w)'
        BY <2>2, <2>3, <2>6 DEF RecoverInv, OwnInv, Known
    <2>8. QED
        BY <2>1, <2>3, <2>4, <2>5, <2>7, Assemble DEF WorkerInv
<1>5. ASSUME RecoverCheck(w) PROVE IndInv'
    <2>1. SharedInv' /\ Evolve
        BY <1>5, QuietShared DEF RecoverCheck, shared, Continue
    <2>2. CASE log[i.version] # NoPayload
        BY <1>1, <1>2, <1>5, <2>1, <2>2 DEF RecoverCheck, shared
    <2>3. CASE log[i.version] = NoPayload
        BY <1>1, <1>2, <1>5, <2>1, <2>3 DEF RecoverCheck, shared
    <2>4. QED
        BY <2>2, <2>3
<1>6. ASSUME RecoverLog(w) PROVE IndInv'
    <2>1. CASE Readable(i)
        <3>1. /\ PutLog(i.version, i.payload) /\ Continue(w, "recRecord")
              /\ UNCHANGED <<snap, ver, coord, nextObj, records, staged, acked>>
            BY <1>6, <2>1 DEF RecoverLog, Continue
        <3>2. SharedInv' /\ Evolve
            BY <1>1, <1>6, <3>1, LogShared DEF RecoverLog
        <3>3. log'[i.version] = i.payload
            BY <1>1, <1>6, <3>1, SharedTypes DEF RecoverLog, PutLog, IndInv
        <3>4. QED
            BY <1>2, <1>6, <3>1, <3>2, <3>3 DEF RecoverLog
    <2>2. CASE ~Readable(i)
        <3>1. Fail(w) /\ UNCHANGED <<coord, nextObj, log, records, staged>>
            BY <1>6, <2>2 DEF RecoverLog
        <3>2. QED
            BY <3>1, QuietShared, FailStep DEF Fail
    <2>3. QED
        BY <2>1, <2>2
<1>7. ASSUME RecoverRecord(w) PROVE IndInv'
    <2>1. CASE Readable(i)
        <3>1. /\ PutRecord(i.key, RequestOf(i), i.version)
              /\ Continue(w, "recStore")
              /\ UNCHANGED <<snap, ver, coord, nextObj, log, staged, acked>>
            BY <1>7, <2>1 DEF RecoverRecord, Continue
        <3>2. log[i.version] = i.payload
            BY <1>7 DEF RecoverRecord, IndInv, WorkerInv, RecoverInv
        <3>3. Landed(RequestOf(i), i.version) /\ RequestOf(i).key = i.key
            BY <1>1, <1>7, <3>2 DEF RecoverRecord, Landed, RequestOf
        <3>4. SharedInv' /\ Evolve
            BY <1>1, <1>7, <3>1, <3>3, RecordShared DEF RecoverRecord
        <3>5. QED
            BY <1>2, <1>7, <3>1, <3>2, <3>4 DEF RecoverRecord
    <2>2. CASE ~Readable(i)
        <3>1. Fail(w) /\ UNCHANGED <<coord, nextObj, log, records, staged>>
            BY <1>7, <2>2 DEF RecoverRecord
        <3>2. QED
            BY <3>1, QuietShared, FailStep DEF Fail
    <2>3. QED
        BY <2>1, <2>2
<1>8. ASSUME RecoverStore(w) PROVE IndInv'
    <2>1. pc[w] = "recStore" /\ UNCHANGED staged
        BY <1>8 DEF RecoverStore
    <2>2. CASE LostRace(w, "recHead")
        BY <2>1, <2>2, LostRaceStep
    <2>3. CASE ~LostRace(w, "recHead")
        <3>1. snap[w] = coord
            BY <1>8, <2>3 DEF RecoverStore, CanStore, IndInv, WorkerInv, SnapInv
        <3>2. /\ i = coord.inflight /\ coord.inflight.key # NoKey
              /\ i.version = coord.latest + 1
              /\ log[i.version] = i.payload
            BY <1>1, <2>1, <3>1
            DEF IndInv, WorkerInv, RecoverInv, SharedInv, CoordInv
        <3>3. Landed(RequestOf(i), i.version)
            BY <1>1, <2>1, <3>2 DEF Landed, RequestOf
        <3>4. /\ Store(i.version, NoInflight)
              /\ UNCHANGED <<log, records, staged>>
            BY <1>0, <1>8, <2>3, <3>1, <3>2 DEF RecoverStore, MaxOf
        <3>5. CASE Continue(w, "resHead") /\ UNCHANGED <<snap, ver>>
            <4>1. SharedInv' /\ Evolve
                BY <3>2, <3>4, <3>5, ClearShared DEF Continue
            <4>2. pc'[w] = "resHead" /\ \A u \in Workers \ {w} : Same(u)
                BY <3>5 DEF IndInv, TypeOK, Continue, Goto, Same
            <4>3. StageInv(w)'
                BY <2>1, <3>5, <4>1, Continued DEF Continue
            <4>4. nextObj \in Nat /\ nextObj' = nextObj + 1
                  /\ snap[w].obj \in Nat
                BY <3>4 DEF Store, IndInv, TypeOK, States
            <4>5. SnapInv(w)'
                BY <3>5, <4>2, <4>4 DEF IndInv, WorkerInv, SnapInv
            <4>6. RecoverInv(w)' /\ OwnInv(w)'
                BY <4>2 DEF RecoverInv, OwnInv
            <4>7. QED
                BY <4>1, <4>2, <4>3, <4>5, <4>6, Assemble DEF WorkerInv
        <3>6. CASE Fail(w)
            BY <3>2, <3>4, <3>6, ClearShared, FailStep DEF Fail
        <3>7. CASE RequestOf(i) = req[w] /\ Ok(w, i.version)
            <4>1. SharedInv' /\ Evolve
                BY <1>0, <1>1, <2>1, <3>2, <3>3, <3>4, <3>7, ClearShared
                DEF Ok, Versions
            <4>2. QED
                BY <3>7, <4>1, FailStep DEF Ok
        <3>8. QED
            BY <1>8, <2>3, <3>5, <3>6, <3>7 DEF RecoverStore
    <2>4. QED
        BY <2>2, <2>3
<1>9. QED
    BY <1>3, <1>4, <1>5, <1>6, <1>7, <1>8 DEF RecoverStep

(* reserve_or_resume_inflight.                                             *)
LEMMA ReserveKeeps ==
    ASSUME IndInv, TypeOK', NEW w \in Workers, ReserveStep(w)
    PROVE  IndInv'
<1>0. /\ req[w] \in Requests /\ req[w].key # NoKey /\ req[w].rv \in Int
      /\ coord.latest \in Int /\ snap[w].latest \in Int
      /\ coord.inflight \in Inflights
    BY RequestFacts, SharedTypes DEF IndInv, TypeOK, States
<1>1. ASSUME ReserveHead(w) PROVE IndInv'
    <2>1. /\ LoadHead(w)
          /\ UNCHANGED <<coord, nextObj, log, records, staged, acked, req, sver>>
        BY <1>1 DEF ReserveHead, shared
    <2>2. SharedInv' /\ Evolve
        BY <2>1, QuietShared
    <2>3. pc'[w] = "resGet" /\ \A u \in Workers \ {w} : Same(u)
        BY <1>1, <2>1, HeadFacts DEF IndInv, TypeOK, ReserveHead, Goto, Same
    <2>4. StageInv(w)'
        BY <1>1, <2>1, <2>2, Continued DEF ReserveHead
    <2>5. SnapInv(w)'
        BY <2>1, <2>3, HeadFacts DEF SnapInv, IndInv, SharedInv, CoordInv
    <2>6. RecoverInv(w)' /\ OwnInv(w)'
        BY <2>3 DEF RecoverInv, OwnInv
    <2>7. QED
        BY <2>2, <2>3, <2>4, <2>5, <2>6, Assemble DEF WorkerInv
<1>2. ASSUME ReserveGet(w) PROVE IndInv'
    <2> DEFINE st == Loaded(w)
    <2>1. /\ pc[w] = "resGet"
          /\ UNCHANGED <<coord, nextObj, log, records, staged>>
        BY <1>2 DEF ReserveGet, shared
    <2>2. CASE Fail(w)
        BY <2>1, <2>2, QuietShared, FailStep DEF Fail
    <2>3. CASE /\ st.inflight.key # NoKey /\ CanResume(w, st)
               /\ ver' = [ver EXCEPT ![w] = st.inflight.version]
               /\ Continue(w, "log") /\ UNCHANGED snap
        <3>1. SharedInv' /\ Evolve
            BY <2>1, <2>3, QuietShared DEF Continue
        <3>2. st.inflight = coord.inflight
            BY <2>3, LoadedFacts DEF EmptyState, NoInflight
        <3>3. /\ pc'[w] = "log" /\ ver'[w] = coord.inflight.version
              /\ \A u \in Workers \ {w} : Same(u)
            BY <2>3, <3>2 DEF IndInv, TypeOK, Continue, Goto, Same
        <3>4. /\ RequestOf(coord.inflight) = req[w]
              /\ coord.inflight.rv = coord.latest
              /\ coord.inflight.version = coord.latest + 1
            BY <2>3, <3>2 DEF CanResume, IndInv, SharedInv, CoordInv
        <3>5. coord.inflight.rv = req[w].rv
            BY <3>4 DEF RequestOf
        <3>6. StageInv(w)'
            BY <2>1, <2>3, <3>1, Continued DEF Continue
        <3>7. SnapInv(w)' /\ RecoverInv(w)'
            BY <2>1, <2>3, <3>3 DEF IndInv, WorkerInv, SnapInv, RecoverInv
        <3>8. OwnInv(w)'
            BY <2>1, <2>3, <3>3, <3>4, <3>5
            DEF OwnInv, Continue, RequestOf
        <3>9. QED
            BY <3>1, <3>3, <3>6, <3>7, <3>8, Assemble DEF WorkerInv
    <2>4. CASE Goto(w, "recHead") /\ UNCHANGED <<req, now, sver, snap, ver, acked>>
        <3>1. SharedInv' /\ Evolve
            BY <2>1, <2>4, QuietShared
        <3>2. pc'[w] = "recHead" /\ \A u \in Workers \ {w} : Same(u)
            BY <2>4 DEF IndInv, TypeOK, Goto, Same
        <3>3. StageInv(w)'
            BY <2>1, <2>4, <3>1, Continued
        <3>4. SnapInv(w)' /\ RecoverInv(w)' /\ OwnInv(w)'
            BY <2>1, <2>4, <3>2
            DEF IndInv, WorkerInv, SnapInv, RecoverInv, OwnInv
        <3>5. QED
            BY <3>1, <3>2, <3>3, <3>4, Assemble DEF WorkerInv
    <2>5. CASE /\ st.inflight.key = NoKey /\ st.latest = req[w].rv
               /\ st.latest < MaxVersion
               /\ snap' = [snap EXCEPT ![w] = st]
               /\ Continue(w, "resStore") /\ UNCHANGED ver
        <3>1. SharedInv' /\ Evolve
            BY <2>1, <2>5, QuietShared DEF Continue
        <3>2. /\ pc'[w] = "resStore" /\ snap'[w] = st
              /\ \A u \in Workers \ {w} : Same(u)
            BY <2>5 DEF IndInv, TypeOK, Continue, Goto, Same
        <3>3. StageInv(w)'
            BY <2>1, <2>5, <3>1, Continued DEF Continue
        <3>4. SnapInv(w)'
            BY <2>1, <3>2, LoadedFacts DEF IndInv, WorkerInv, SnapInv
        <3>5. RecoverInv(w)' /\ OwnInv(w)'
            BY <2>5, <3>2 DEF RecoverInv, OwnInv, Continue
        <3>6. QED
            BY <3>1, <3>2, <3>3, <3>4, <3>5, Assemble DEF WorkerInv
    <2>6. QED
        BY <1>2, <2>2, <2>3, <2>4, <2>5 DEF ReserveGet
<1>3. ASSUME ReserveStore(w) PROVE IndInv'
    <2>1. pc[w] = "resStore" /\ UNCHANGED staged
        BY <1>3 DEF ReserveStore
    <2>2. CASE LostRace(w, "resHead")
        BY <2>1, <2>2, LostRaceStep
    <2>3. CASE ~LostRace(w, "resHead")
        <3>1. snap[w] = coord
            BY <1>3, <2>3 DEF ReserveStore, CanStore, IndInv, WorkerInv, SnapInv
        <3>2. /\ coord.inflight.key = NoKey
              /\ coord.latest = req[w].rv /\ coord.latest < MaxVersion
            BY <2>1, <3>1 DEF IndInv, WorkerInv, OwnInv
        <3>3. staged[req[w].payload] = sver[w]
            BY <1>0, <2>1, <3>2 DEF IndInv, WorkerInv, StageInv
        <3>4. ExpiresAt(now[w]) \in Nat /\ sver[w] \in Nat
            BY DeltaAssumption DEF ExpiresAt, MinOf, IndInv, TypeOK
        <3>5. /\ Store(coord.latest,
                       [key |-> req[w].key, rv |-> req[w].rv,
                        version |-> coord.latest + 1,
                        payload |-> req[w].payload, sv |-> sver[w],
                        expires |-> ExpiresAt(now[w])])
              /\ ver' = [ver EXCEPT ![w] = coord.latest + 1]
              /\ Continue(w, "log")
              /\ UNCHANGED <<log, records, snap>>
            BY <1>3, <2>3, <3>1 DEF ReserveStore
        <3>6. SharedInv' /\ Evolve
            BY <1>0, <2>1, <3>2, <3>3, <3>4, <3>5, ReserveShared DEF Continue
        <3>7. /\ pc'[w] = "log" /\ ver'[w] = coord.latest + 1
              /\ \A u \in Workers \ {w} : Same(u)
            BY <3>5 DEF IndInv, TypeOK, Continue, Goto, Same
        <3>8. RequestOf(coord'.inflight) = req[w]
            BY <1>0, <3>5, RequestFacts DEF Store, RequestOf
        <3>9. StageInv(w)'
            BY <2>1, <3>5, <3>6, Continued DEF Continue
        <3>10. nextObj \in Nat /\ nextObj' = nextObj + 1 /\ snap[w].obj \in Nat
            BY <3>5 DEF Store, IndInv, TypeOK, States
        <3>11. SnapInv(w)' /\ RecoverInv(w)'
            BY <3>5, <3>7, <3>10 DEF IndInv, WorkerInv, SnapInv, RecoverInv
        <3>12. OwnInv(w)'
            BY <3>2, <3>5, <3>7, <3>8 DEF OwnInv, Continue, RequestOf
        <3>13. QED
            BY <3>6, <3>7, <3>9, <3>11, <3>12, Assemble DEF WorkerInv
    <2>4. QED
        BY <2>2, <2>3
<1>4. QED
    BY <1>1, <1>2, <1>3 DEF ReserveStep

(* The rest of commit() and finalize_inflight.                             *)
LEMMA WriteKeeps ==
    ASSUME KeysAreUsedOnce, IndInv, TypeOK', NEW w \in Workers, WriteStep(w)
    PROVE  IndInv'
<1>0. /\ req[w] \in Requests /\ ver[w] \in Versions
      /\ req[w].key # NoKey /\ req[w].rv \in Int
      /\ req[w].payload \in Payloads /\ req[w].payload # NoPayload
      /\ coord.latest \in Int
    BY RequestFacts, SharedTypes DEF IndInv, TypeOK
<1>1. ASSUME Landed(req[w], ver[w])
      PROVE  \/ ver[w] <= coord.latest
             \/ /\ ver[w] = coord.latest + 1
                /\ coord.inflight.key = req[w].key
                /\ coord.inflight.version = ver[w]
    <2>1. CASE ver[w] = coord.latest + 1 /\ coord.inflight.key # NoKey
               /\ coord.inflight.payload = req[w].payload
        <3>1. /\ RequestOf(coord.inflight) \in Requests
              /\ coord.inflight.version = coord.latest + 1
            BY <2>1 DEF IndInv, SharedInv, CoordInv
        <3>2. RequestOf(coord.inflight) = req[w]
            BY <1>0, <2>1, <3>1 DEF KeysAreUsedOnce, RequestOf
        <3>3. QED
            BY <2>1, <3>1, <3>2 DEF RequestOf
    <2>2. QED
        BY <1>0, <1>1, <2>1, LandedIsLatest
<1>2. ASSUME WriteLog(w) PROVE IndInv'
    <2>1. /\ pc[w] = "log" /\ PutLog(ver[w], req[w].payload)
          /\ UNCHANGED <<coord, nextObj, records, staged, acked>>
        BY <1>2 DEF WriteLog, Continue, Fail
    <2>2. /\ ver[w] = req[w].rv + 1
          /\ \/ RequestOf(coord.inflight) = req[w]
             \/ log[ver[w]] = req[w].payload
        BY <2>1 DEF IndInv, WorkerInv, OwnInv
    <2>3. \/ log[ver[w]] # NoPayload
          \/ /\ coord.inflight.key # NoKey
             /\ ver[w] = coord.inflight.version
             /\ req[w].payload = coord.inflight.payload
        BY <1>0, <2>2 DEF RequestOf, IndInv, SharedInv, CoordInv
    <2>4. SharedInv' /\ Evolve
        BY <1>0, <2>1, <2>3, LogShared
    <2>5. CASE log[ver[w]] \in {NoPayload, req[w].payload}
        <3>1. Continue(w, "record") /\ UNCHANGED <<snap, ver>>
            BY <1>2, <2>5 DEF WriteLog
        <3>2. pc'[w] = "record" /\ \A u \in Workers \ {w} : Same(u)
            BY <3>1 DEF IndInv, TypeOK, Continue, Goto, Same
        <3>3. log'[ver[w]] = req[w].payload
            BY <1>0, <2>1, <2>5, SharedTypes DEF PutLog, IndInv
        <3>4. StageInv(w)'
            BY <2>1, <2>4, <3>1, Continued DEF Continue
        <3>5. SnapInv(w)' /\ RecoverInv(w)'
            BY <2>1, <3>1, <3>2 DEF IndInv, WorkerInv, SnapInv, RecoverInv
        <3>6. OwnInv(w)'
            BY <2>2, <3>1, <3>2, <3>3 DEF OwnInv, Landed, Continue
        <3>7. QED
            BY <2>4, <3>2, <3>4, <3>5, <3>6, Assemble DEF WorkerInv
    <2>6. CASE log[ver[w]] \notin {NoPayload, req[w].payload}
        BY <1>2, <2>4, <2>6, FailStep DEF WriteLog, Fail
    <2>7. QED
        BY <2>5, <2>6
<1>3. ASSUME WriteRecord(w) PROVE IndInv'
    <2>1. /\ pc[w] = "record" /\ PutRecord(req[w].key, req[w], ver[w])
          /\ Continue(w, "finHead")
          /\ UNCHANGED <<coord, nextObj, log, staged, acked, snap, ver>>
        BY <1>3 DEF WriteRecord, Continue
    <2>2. Landed(req[w], ver[w])
        BY <2>1 DEF IndInv, WorkerInv, OwnInv
    <2>3. SharedInv' /\ Evolve
        BY <1>0, <2>1, <2>2, RecordShared
    <2>4. pc'[w] = "finHead" /\ \A u \in Workers \ {w} : Same(u)
        BY <2>1 DEF IndInv, TypeOK, Continue, Goto, Same
    <2>5. StageInv(w)'
        BY <2>1, <2>3, Continued DEF Continue
    <2>6. SnapInv(w)' /\ RecoverInv(w)' /\ OwnInv(w)'
        BY <2>1, <2>2, <2>4 DEF IndInv, WorkerInv, SnapInv, RecoverInv, OwnInv,
           Landed, Continue
    <2>7. QED
        BY <2>3, <2>4, <2>5, <2>6, Assemble DEF WorkerInv
<1>4. ASSUME FinalizeHead(w) PROVE IndInv'
    <2>1. pc[w] = "finHead" /\ UNCHANGED <<coord, nextObj, log, records, staged>>
        BY <1>4 DEF FinalizeHead, shared
    <2>2. CASE coord.obj = 0
        BY <1>4, <2>1, <2>2, QuietShared, FailStep DEF FinalizeHead, Fail
    <2>3. CASE coord.obj # 0
        <3>1. LoadHead(w) /\ Continue(w, "finGet") /\ UNCHANGED <<ver, acked>>
            BY <1>4, <2>3 DEF FinalizeHead, Continue
        <3>2. SharedInv' /\ Evolve
            BY <2>1, <3>1, QuietShared
        <3>3. pc'[w] = "finGet" /\ \A u \in Workers \ {w} : Same(u)
            BY <3>1, HeadFacts DEF IndInv, TypeOK, Continue, Goto, Same
        <3>4. StageInv(w)'
            BY <2>1, <3>1, <3>2, Continued DEF Continue
        <3>5. SnapInv(w)'
            BY <2>1, <2>3, <3>1, <3>3, HeadFacts DEF SnapInv, IndInv,
               SharedInv, CoordInv
        <3>6. RecoverInv(w)' /\ OwnInv(w)'
            BY <2>1, <3>1, <3>3 DEF IndInv, WorkerInv, RecoverInv, OwnInv,
               Landed, Continue
        <3>7. QED
            BY <3>2, <3>3, <3>4, <3>5, <3>6, Assemble DEF WorkerInv
    <2>4. QED
        BY <2>2, <2>3
<1>5. ASSUME FinalizeGet(w) PROVE IndInv'
    <2>1. /\ pc[w] = "finGet" /\ Landed(req[w], ver[w])
          /\ UNCHANGED <<coord, nextObj, log, records, staged>>
        BY <1>5 DEF FinalizeGet, shared, IndInv, WorkerInv, OwnInv
    <2>2. /\ Loaded(w).latest = coord.latest
          /\ Loaded(w).inflight = coord.inflight
        BY <2>1, LoadedFacts DEF IndInv, WorkerInv, SnapInv
    <2>3. CASE Fail(w)
        BY <2>1, <2>3, QuietShared, FailStep DEF Fail
    <2>4. CASE ver[w] <= coord.latest /\ Ok(w, ver[w])
        <3>1. SharedInv' /\ Evolve
            BY <1>0, <2>1, <2>4, AckShared DEF Ok
        <3>2. QED
            BY <2>4, <3>1, FailStep DEF Ok
    <2>5. CASE /\ \/ coord.inflight.key = NoKey /\ coord.latest < ver[w]
                  \/ coord.inflight.key = req[w].key
               /\ snap' = [snap EXCEPT ![w] = Loaded(w)]
               /\ Continue(w, "finStore") /\ UNCHANGED ver
        <3>1. coord.inflight.key = req[w].key
            BY <1>0, <1>1, <2>1, <2>5 DEF Versions
        <3>2. SharedInv' /\ Evolve
            BY <2>1, <2>5, QuietShared DEF Continue
        <3>3. /\ pc'[w] = "finStore" /\ snap'[w] = Loaded(w)
              /\ \A u \in Workers \ {w} : Same(u)
            BY <2>5 DEF IndInv, TypeOK, Continue, Goto, Same
        <3>4. StageInv(w)'
            BY <2>1, <2>5, <3>2, Continued DEF Continue
        <3>5. SnapInv(w)'
            BY <2>1, <3>3, LoadedFacts DEF IndInv, WorkerInv, SnapInv
        <3>6. RecoverInv(w)' /\ OwnInv(w)'
            BY <2>1, <2>2, <2>5, <3>1, <3>3
            DEF RecoverInv, OwnInv, Landed, Continue
        <3>7. QED
            BY <3>2, <3>3, <3>4, <3>5, <3>6, Assemble DEF WorkerInv
    <2>6. QED
        BY <1>0, <1>5, <2>2, <2>3, <2>4, <2>5 DEF FinalizeGet, Versions
<1>6. ASSUME FinalizeStore(w) PROVE IndInv'
    <2>1. pc[w] = "finStore" /\ UNCHANGED staged /\ Landed(req[w], ver[w])
        BY <1>6 DEF FinalizeStore, IndInv, WorkerInv, OwnInv
    <2>2. CASE LostRace(w, "finHead")
        BY <2>1, <2>2, LostRaceStep
    <2>3. CASE ~LostRace(w, "finHead")
        <3>1. snap[w] = coord /\ coord.inflight.key = req[w].key
            BY <1>6, <2>3 DEF FinalizeStore, CanStore, IndInv, WorkerInv,
               SnapInv, OwnInv
        <3>2. /\ RequestOf(coord.inflight) \in Requests
              /\ coord.inflight.rv = coord.latest
              /\ coord.inflight.version = coord.latest + 1
            BY <1>0, <3>1 DEF IndInv, SharedInv, CoordInv
        <3>3. RequestOf(coord.inflight) = req[w]
            BY <1>0, <3>1, <3>2 DEF KeysAreUsedOnce, RequestOf
        <3>4. /\ coord.inflight.version = ver[w]
              /\ coord.inflight.payload = req[w].payload
            BY <2>1, <3>2, <3>3 DEF Landed, RequestOf
        <3>5. /\ Store(ver[w], NoInflight) /\ Ok(w, ver[w])
              /\ UNCHANGED <<log, records, staged>>
            BY <1>0, <1>6, <2>3, <3>1, <3>2, <3>4
            DEF FinalizeStore, MaxOf, Versions
        <3>6. SharedInv' /\ Evolve
            BY <1>0, <2>1, <3>1, <3>4, <3>5, ClearShared
            DEF Ok, Landed, Versions
        <3>7. QED
            BY <3>5, <3>6, FailStep DEF Ok
    <2>4. QED
        BY <2>2, <2>3
<1>7. QED
    BY <1>2, <1>3, <1>4, <1>5, <1>6 DEF WriteStep

(* Clients, the facade and the clock.                                      *)
LEMMA EnvironmentKeeps ==
    ASSUME KeysAreUsedOnce, IndInv, TypeOK',
           \/ \E w \in Workers, r \in Requests :
                Begin(w, r) \/ ReplayCommitted(w, r)
           \/ \E w \in Workers : Crash(w)
           \/ \E p \in Payloads : DeleteStaged(p)
           \/ Tick
           \/ UNCHANGED vars
    PROVE  IndInv'
<1>0. /\ coord.latest \in Int /\ staged \in [Payloads -> Nat]
      /\ \A a \in acked : a.req \in Requests /\ a.version \in Versions
      /\ \A a \in records : a.req \in Requests /\ a.version \in Versions
      /\ deletes \in Nat /\ pc \in [Workers -> Pc]
    BY SharedTypes, DeltaAssumption DEF IndInv, TypeOK
<1>1. ASSUME NEW w \in Workers, NEW r \in Requests, Begin(w, r) PROVE IndInv'
    <2> DEFINE v == IF staged[r.payload] = 0 THEN 1 + deletes
                    ELSE staged[r.payload]
    <2>1. /\ pc[w] = "idle"
          /\ staged' = [staged EXCEPT ![r.payload] = v]
          /\ sver' = [sver EXCEPT ![w] = v]
          /\ req' = [req EXCEPT ![w] = r]
          /\ pc' = [pc EXCEPT ![w] = "replay"]
          /\ UNCHANGED <<coord, nextObj, log, records, acked, snap, ver>>
        BY <1>1 DEF Begin, Goto, shared
    <2>2. r.payload \in Payloads
        BY RequestFacts
    <2>3. v \in Nat /\ (v = staged[r.payload] \/ r.rv < coord.latest)
        BY <1>0, <2>2 DEF IndInv, SharedInv, AnswerInv
    <2>4. SharedInv' /\ Evolve
        BY <2>1, <2>3, StageShared
    <2>5. /\ pc'[w] = "replay" /\ req'[w] = r /\ sver'[w] = v
          /\ staged'[r.payload] = v
          /\ \A u \in Workers \ {w} : Same(u)
        BY <1>0, <2>1, <2>2 DEF IndInv, TypeOK, Same
    <2>6. WorkerInv(w)'
        BY <2>1, <2>5 DEF IndInv, WorkerInv, SnapInv, RecoverInv, OwnInv,
           StageInv
    <2>7. QED
        BY <2>4, <2>5, <2>6, Assemble
<1>2. ASSUME Evolve, SharedInv', UNCHANGED <<pc, req, sver, snap, ver>>
      PROVE  IndInv'
    <2>1. ASSUME NEW u \in Workers PROVE WorkerInv(u)'
        BY <1>2, OthersKeep DEF Same
    <2>2. QED
        BY <1>2, <2>1 DEF IndInv
<1>3. ASSUME NEW w \in Workers, NEW r \in Requests, ReplayCommitted(w, r)
      PROVE  IndInv'
    <2>1. PICK rec \in RecordOf(r.key) :
            rec.req = r /\ acked' = acked \cup {[req |-> r, version |-> rec.version]}
        BY <1>3 DEF ReplayCommitted
    <2>2. Landed(r, rec.version) /\ rec.version \in Versions
        BY <1>0, <2>1 DEF RecordOf, IndInv, SharedInv, AnswerInv
    <2>3. SharedInv' /\ Evolve
        BY <1>3, <2>1, <2>2, AckShared DEF ReplayCommitted, shared
    <2>4. QED
        BY <1>2, <1>3, <2>3 DEF ReplayCommitted
<1>4. ASSUME NEW w \in Workers, Crash(w) PROVE IndInv'
    BY <1>4, QuietShared, FailStep DEF Crash, Fail, shared
<1>5. ASSUME NEW p \in Payloads, DeleteStaged(p) PROVE IndInv'
    <2>1. PICK a \in acked : a.req.payload = p
        BY <1>5 DEF DeleteStaged
    <2>2. a.req \in Requests /\ a.req.rv < coord.latest
        BY <1>0, <1>5, <2>1, RequestFacts
        DEF DeleteStaged, IndInv, SharedInv, AnswerInv, Landed
    <2>3. SharedInv' /\ Evolve
        BY <1>5, <2>1, <2>2, StageShared DEF DeleteStaged, shared
    <2>4. QED
        BY <1>2, <1>5, <2>3 DEF DeleteStaged
<1>6. CASE Tick
    BY <1>2, <1>6, QuietShared DEF Tick, shared
<1>7. CASE UNCHANGED vars
    BY <1>2, <1>7, QuietShared DEF vars
<1>8. QED
    BY <1>1, <1>3, <1>4, <1>5, <1>6, <1>7

----------------------------------------------------------------------------
(* The inductive step, one lemma for each part of the coordinator.         *)
LEMMA IndStep ==
    ASSUME KeysAreUsedOnce
    PROVE  IndInv /\ [Next]_vars => IndInv'
<1> SUFFICES ASSUME IndInv, [Next]_vars PROVE IndInv'
    OBVIOUS
<1>1. TypeOK'
    BY TypeStep
<1>2. ASSUME NEW w \in Workers, CommitStep(w) PROVE IndInv'
    BY <1>1, <1>2, ReplayKeeps, RecoverKeeps, ReserveKeeps, WriteKeeps
    DEF CommitStep
<1>3. CASE ~\E w \in Workers : CommitStep(w)
    BY <1>1, <1>3, EnvironmentKeeps DEF Next
<1>4. QED
    BY <1>2, <1>3

(* An empty table, no commit running: the invariant holds at the start.    *)
LEMMA IndInit == Init => IndInv
<1> SUFFICES ASSUME Init PROVE IndInv
    OBVIOUS
<1>0. /\ AnyRequest \in Requests /\ EmptyState \in States /\ 0 \in Versions
      /\ MaxVersion \in Nat /\ MaxDeletes \in Nat
      /\ \A r \in Requests : r.payload \in Payloads
    BY DeltaAssumption, RequestFacts
    DEF AnyRequest, EmptyState, States, Inflights, Versions
<1>1. TypeOK
    BY <1>0 DEF Init, TypeOK, Pc
<1>2. SharedInv
    BY <1>0 DEF Init, SharedInv, CoordInv, LogInv, AnswerInv, LogContiguous,
       EmptyState, NoInflight, Versions
<1>3. ASSUME NEW w \in Workers PROVE WorkerInv(w)
    BY <1>0 DEF Init, WorkerInv, SnapInv, RecoverInv, OwnInv, StageInv,
       EmptyState
<1>4. QED
    BY <1>1, <1>2, <1>3 DEF IndInv

(* The inductive invariant holds in every reachable state.                 *)
THEOREM DeltaInvariant ==
    ASSUME KeysAreUsedOnce
    PROVE  Spec => []IndInv
<1>1. Init => IndInv
    BY IndInit
<1>2. IndInv /\ [Next]_vars => IndInv'
    BY IndStep
<1>3. QED
    BY <1>1, <1>2, PTL DEF Spec

(* Type correctness of the coordinator's objects and of its executions.    *)
THEOREM DeltaTypes ==
    ASSUME KeysAreUsedOnce
    PROVE  Spec => []TypeOK
<1>1. IndInv => TypeOK
    BY DEF IndInv
<1>2. QED
    BY <1>1, DeltaInvariant, PTL

(* The Delta log has no hole, and latest_version is its end or one short   *)
(* of it, whatever crashes, recoveries and replays do.                     *)
THEOREM LogIsContiguous ==
    ASSUME KeysAreUsedOnce
    PROVE  Spec => []LogContiguous
<1>1. IndInv => LogContiguous
    BY DEF IndInv, SharedInv, LogInv
<1>2. QED
    BY <1>1, DeltaInvariant, PTL

(* Idempotency records and answers name the version that holds the payload *)
(* of their request, right after the version its client read.              *)
THEOREM RecordsAndAnswersAreTrue ==
    ASSUME KeysAreUsedOnce
    PROVE  Spec => []AnswersAreTrue
<1>1. IndInv => AnswersAreTrue
    BY DEF IndInv, SharedInv, AnswerInv, AnswersAreTrue, Landed
<1>2. QED
    BY <1>1, DeltaInvariant, PTL

(* The staged payload a reservation would be recovered from is there as    *)
(* long as the reservation stands.                                         *)
THEOREM ReservationIsRecoverable ==
    ASSUME KeysAreUsedOnce
    PROVE  Spec => []PayloadOutlivesReservation
<1>1. IndInv => PayloadOutlivesReservation
    BY DEF IndInv, SharedInv, CoordInv, PayloadOutlivesReservation
<1>2. QED
    BY <1>1, DeltaInvariant, PTL

----------------------------------------------------------------------------
(* The coordinator implements OptimisticLog.                               *)

(* The entries written so far are versions 0 to n - 1.                     *)
LEMMA Entries ==
    ASSUME IndInv
    PROVE  \E n \in Nat :
              /\ \A v \in Versions : log[v] # NoPayload <=> v < n
              /\ n <= MaxVersion + 1
              /\ n \in {coord.latest + 1, coord.latest + 2}
              /\ Committed = [i \in 1..n |-> log[i - 1]]
<1>0. coord.latest \in -1..MaxVersion /\ MaxVersion \in Nat
    BY DeltaAssumption DEF IndInv, SharedInv, CoordInv
<1>1. PICK n \in Nat :
        /\ \A v \in Versions : log[v] # NoPayload <=> v < n
        /\ n <= MaxVersion + 1
        /\ n \in {coord.latest + 1, coord.latest + 2}
    <2>1. CASE coord.latest < MaxVersion /\ log[coord.latest + 1] # NoPayload
        <3>1. /\ coord.latest + 2 \in Nat
              /\ coord.latest + 2 <= MaxVersion + 1
            BY <1>0, <2>1
        <3>2. \A v \in Versions : log[v] # NoPayload <=> v < coord.latest + 2
            BY <1>0, <2>1 DEF IndInv, SharedInv, LogInv, LogContiguous, Versions
        <3>3. QED
            BY <3>1, <3>2
    <2>2. CASE ~(coord.latest < MaxVersion /\ log[coord.latest + 1] # NoPayload)
        <3>1. /\ coord.latest + 1 \in Nat
              /\ coord.latest + 1 <= MaxVersion + 1
            BY <1>0
        <3>2. \A v \in Versions : log[v] # NoPayload <=> v < coord.latest + 1
            BY <1>0, <2>2 DEF IndInv, SharedInv, LogInv, LogContiguous, Versions
        <3>3. QED
            BY <3>1, <3>2
    <2>3. QED
        BY <2>1, <2>2
<1>2. {v \in Versions : log[v] # NoPayload} = 0..(n - 1)
    BY <1>0, <1>1 DEF Versions
<1>3. Cardinality(0..(n - 1)) = n
    BY <1>1, FS_Interval
<1>4. Committed = [i \in 1..n |-> log[i - 1]]
    BY <1>2, <1>3 DEF Committed
<1>5. QED
    BY <1>1, <1>4

(* A step that leaves the log alone is a stutter.                          *)
LEMMA SameLog ==
    ASSUME UNCHANGED log
    PROVE  UNCHANGED Committed
    BY DEF Committed

(* The entry of the reservation is appended: its request read the version  *)
(* of the last entry, and has not landed before.                           *)
LEMMA AppendEntry ==
    ASSUME KeysAreUsedOnce, IndInv,
           coord.inflight.key # NoKey,
           log[coord.inflight.version] = NoPayload,
           log' = [log EXCEPT ![coord.inflight.version] = coord.inflight.payload]
    PROVE  Abstract!LogNext
<1> DEFINE r == RequestOf(coord.inflight)
<1>0. /\ coord.latest \in Int /\ coord.inflight \in Inflights
      /\ log \in [Versions -> Payloads \cup {NoPayload}]
    BY SharedTypes DEF IndInv
<1>1. /\ r \in Requests /\ r.rv = coord.latest
      /\ r.payload = coord.inflight.payload
      /\ coord.inflight.version = coord.latest + 1
      /\ coord.latest + 1 \in Versions
    BY <1>0 DEF IndInv, SharedInv, CoordInv, RequestOf, Inflights, NoInflight
<1>2. PICK n \in Nat :
        /\ \A v \in Versions : log[v] # NoPayload <=> v < n
        /\ n <= MaxVersion + 1
        /\ n \in {coord.latest + 1, coord.latest + 2}
        /\ Committed = [i \in 1..n |-> log[i - 1]]
    BY Entries
<1>3. n = coord.latest + 1
    BY <1>0, <1>1, <1>2
<1>4. {v \in Versions : log'[v] # NoPayload} = 0..n
    BY <1>0, <1>1, <1>2, <1>3, DeltaAssumption, RequestFacts DEF Versions
<1>5. Committed' = [i \in 1..(n + 1) |-> log'[i - 1]]
    <2>1. Cardinality(0..n) = n + 1
        BY FS_Interval
    <2>2. QED
        BY <1>4, <2>1 DEF Committed
<1>6. Committed' = Append(Committed, r.payload) /\ Len(Committed) = n
    BY <1>0, <1>1, <1>2, <1>3, <1>5 DEF Versions
<1>7. \A i \in 1..n : Committed[i] # r.payload
    <2>1. SUFFICES ASSUME NEW i \in 1..n, log[i - 1] = r.payload PROVE FALSE
        BY <1>2
    <2>2. i - 1 \in Versions /\ log[i - 1] # NoPayload
        BY <1>1, <1>2, <2>1, RequestFacts, DeltaAssumption DEF Versions
    <2>3. PICK s \in Requests : Landed(s, i - 1)
        BY <2>2 DEF IndInv, SharedInv, LogInv
    <2>4. s = r
        BY <1>1, <2>1, <2>3 DEF Landed, KeysAreUsedOnce
    <2>5. QED
        BY <1>0, <1>1, <1>3, <2>3, <2>4 DEF Landed
<1>8. Abstract!Append1(r)
    BY <1>0, <1>1, <1>3, <1>6, <1>7 DEF Abstract!Append1
<1>9. QED
    BY <1>1, <1>8 DEF Abstract!LogNext

(* Every step appends the entry of the reservation or is a stutter.        *)
LEMMA AbstractStep ==
    ASSUME KeysAreUsedOnce
    PROVE  IndInv /\ [Next]_vars => [Abstract!LogNext]_Committed
<1> SUFFICES ASSUME IndInv, [Next]_vars
             PROVE  Abstract!LogNext \/ UNCHANGED Committed
    OBVIOUS
<1>1. ASSUME NEW v \in Versions, PutLog(v, coord.inflight.payload),
             coord.inflight.key # NoKey, v = coord.inflight.version
      PROVE  Abstract!LogNext \/ UNCHANGED Committed
    BY <1>1, AppendEntry, SameLog DEF PutLog
<1>2. ASSUME NEW w \in Workers, WriteLog(w)
      PROVE  Abstract!LogNext \/ UNCHANGED Committed
    <2>1. /\ PutLog(ver[w], req[w].payload)
          /\ ver[w] \in Versions /\ req[w] \in Requests
          /\ ver[w] = req[w].rv + 1
          /\ \/ RequestOf(coord.inflight) = req[w]
             \/ log[ver[w]] = req[w].payload
        BY <1>2 DEF WriteLog, IndInv, TypeOK, WorkerInv, OwnInv
    <2>2. CASE log[ver[w]] = req[w].payload
        BY <2>1, <2>2, RequestFacts, SameLog DEF PutLog
    <2>3. CASE RequestOf(coord.inflight) = req[w]
        <3>1. /\ coord.inflight.key = req[w].key
              /\ coord.inflight.rv = req[w].rv
              /\ coord.inflight.payload = req[w].payload
            BY <2>3 DEF RequestOf
        <3>2. coord.inflight.key # NoKey
            BY <2>1, <3>1, RequestFacts
        <3>3. coord.inflight.version = ver[w]
            BY <2>1, <3>1, <3>2 DEF IndInv, SharedInv, CoordInv
        <3>4. QED
            BY <1>1, <2>1, <3>1, <3>2, <3>3
    <2>4. QED
        BY <2>1, <2>2, <2>3
<1>3. ASSUME NEW w \in Workers, RecoverLog(w)
      PROVE  Abstract!LogNext \/ UNCHANGED Committed
    <2> DEFINE i == snap[w].inflight
    <2>1. CASE UNCHANGED log
        BY <2>1, SameLog
    <2>2. CASE ~UNCHANGED log
        <3>1. PutLog(i.version, i.payload) /\ Known(i) /\ i \in Inflights
            BY <1>3, <2>2
            DEF RecoverLog, IndInv, WorkerInv, RecoverInv, TypeOK, States
        <3>2. i.payload # NoPayload
            BY <3>1, RequestFacts DEF Known, RequestOf
        <3>3. i = coord.inflight
            BY <2>2, <3>1, <3>2 DEF PutLog, Known
        <3>4. coord.inflight.key # NoKey /\ coord.inflight.version \in Versions
            BY <3>1, <3>3 DEF Known, Inflights, NoInflight
        <3>5. QED
            BY <1>1, <3>1, <3>3, <3>4
    <2>3. QED
        BY <2>1, <2>2
<1>4. CASE ~(\E w \in Workers : WriteLog(w) \/ RecoverLog(w))
    <2>1. UNCHANGED log
        BY <1>4 DEF Next, vars, shared, CommitStep, RecoverStep, ReserveStep,
           WriteStep, ReplayStep, Begin, ReplayCommitted, Crash, DeleteStaged,
           Tick, Replay, ReplayHead, ReplayGet, ReplayStore, RecoverHead,
           RecoverGet, RecoverCheck, RecoverRecord, RecoverStore, ReserveHead,
           ReserveGet, ReserveStore, WriteRecord, FinalizeHead, FinalizeGet,
           FinalizeStore, LostRace
    <2>2. QED
        BY <2>1, SameLog
<1>5. QED
    BY <1>2, <1>3, <1>4

(* The coordinator implements the optimistic log: entries are appended one *)
(* by one, each right after the version its client read, each payload at   *)
(* most once, whoever writes it.                                           *)
THEOREM CoordinatorImplementsLog ==
    ASSUME KeysAreUsedOnce
    PROVE  Spec => ImplementsOptimisticLog
<1>1. Init => Abstract!LogInit
    <2> SUFFICES ASSUME Init PROVE Committed = <<>>
        BY DEF Abstract!LogInit
    <2>1. {v \in Versions : log[v] # NoPayload} = {}
        BY DEF Init
    <2>2. Cardinality({}) = 0
        BY FS_EmptySet
    <2>3. Committed = [i \in 1..0 |-> log[i - 1]]
        BY <2>1, <2>2 DEF Committed
    <2>4. Committed \in Seq(Payloads) /\ Len(Committed) = 0
        BY <2>3
    <2>5. QED
        BY <2>4, EmptySeq
<1>2. IndInv /\ [Next]_vars => [Abstract!LogNext]_Committed
    BY AbstractStep
<1>3. QED
    BY <1>1, <1>2, DeltaInvariant, PTL
    DEF Spec, ImplementsOptimisticLog, Abstract!LogSpec
===========================================================================
