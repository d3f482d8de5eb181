--------------------- MODULE CatalogIdempotencyProofs ---------------------
(***************************************************************************)
(* Proofs about CatalogIdempotency for any number of calls, keys, names    *)
(* and requests and any bounds: the type invariant, that the calls of one  *)
(* key create one catalog at most, and that the outcome a marker caches is *)
(* true.                                                                   *)
(***************************************************************************)
EXTENDS CatalogIdempotency, FiniteSetTheorems, TLAPS

(* A call that has not got an entity id yet and may still get one.         *)
Fresh == {c \in Calls : /\ call[c].pc \in {"claim", "check", "takeover", "reserve"}
                        /\ call[c].id = 0}

Owned == {"takeover", "reserve", "lookup", "append", "compact", "commit", "fail",
          "recover"}

Pcs == Owned \cup {"idle", "claim", "check", "replay"}

HasId == {"recover", "lookup", "append", "compact", "commit", "fail"}

(* The records of the calls and of the markers.                            *)
CallRecords ==
    [pc : Pcs, req : [key : Keys \cup {NoKey}, name : Names \cup {NoName}],
     ver : Nat, id : Nat, event : Nat]

MarkerRecords ==
    [status : {"Absent", "InProgress", "Committed", "Failed"},
     name : Names \cup {NoName}, id : Nat, stale : BOOLEAN, ver : Nat]

CallInv ==
    /\ call \in [Calls -> CallRecords]
    /\ \A c \in Calls :
         /\ ~At(c, "idle") => Name(c) \in Names
         /\ call[c].pc \in HasId => call[c].id # 0
         /\ call[c].pc \in {"claim", "check", "recover", "takeover"} => Key(c) # NoKey
         /\ call[c].pc \in {"idle", "claim", "check"} => call[c].id = 0

MarkerInv ==
    /\ marker \in [Keys -> MarkerRecords]
    /\ \A k \in Keys : marker[k].id <= lastId
    /\ lastVer \in Nat

(* Every call takes one id at most.                                        *)
CountInv == IsFiniteSet(Fresh) /\ lastId + Cardinality(Fresh) <= begun

Base == TypeOK /\ CallInv /\ MarkerInv /\ CountInv

(* Whoever holds an entity id, with the key it was reserved for.           *)
Holder(id, key) == [id |-> id, key |-> key]

Holders ==
    created
      \cup {Holder(e.id, e.key) : e \in ledger}
      \cup {Holder(call[c].id, Key(c)) : c \in {x \in Calls : call[x].id # 0}}
      \cup {Holder(marker[k].id, k) : k \in {x \in Keys : marker[x].id # 0}}

(* An id belongs to one key and a key to one id, which the key's marker    *)
(* knows until it caches a failure.                                        *)
HolderInv ==
    /\ \A h \in Holders : h.id \in 1 .. lastId
    /\ \A k \in Keys : marker[k].status = "Absent" => marker[k].id = 0
    /\ \A h, g \in Holders : h.id = g.id => h.key = g.key
    /\ \A h, g \in Holders : h.key = g.key /\ h.key \in Keys => h.id = g.id
    /\ \A h \in Holders : h.key \in Keys =>
         marker[h.key].id # 0 \/ marker[h.key].status = "Failed"

(* A marker that still has the version a call knows is as the call left or *)
(* read it.                                                                *)
VersionInv ==
    \A c \in Calls : call[c].pc \in Owned /\ Key(c) # NoKey
                       /\ call[c].ver = marker[Key(c)].ver =>
        /\ marker[Key(c)].status = "InProgress"
        /\ marker[Key(c)].id = call[c].id
        /\ call[c].pc \in {"recover", "takeover"} => marker[Key(c)].stale

(* What was compacted has been created.                                    *)
CreatedInv ==
    /\ \A n \in Names : visible[n] # 0 => \E h \in created : h.id = visible[n]
    /\ \A c \in Calls : At(c, "commit") => Holder(call[c].id, Key(c)) \in created
    /\ \A c \in Calls : At(c, "compact") =>
         /\ \A e \in ledger : e.n = call[c].event => e.id = call[c].id /\ e.key = Key(c)
         /\ (\A e \in ledger : e.n # call[c].event)
              => Holder(call[c].id, Key(c)) \in created
    /\ \A k \in Keys : marker[k].status = "Committed" => Holder(marker[k].id, k) \in created

Working == {"reserve", "lookup", "append", "compact", "fail"}

Clear == {"takeover", "reserve", "lookup", "append", "fail"}

(* The one call that works on a prompt key.                                *)
Active(c) ==
    \/ call[c].pc \in Working
    \/ /\ At(c, "commit") /\ call[c].ver = marker[Key(c)].ver
       /\ marker[Key(c)].stale = FALSE

(* It has the marker, which is not stale ...                               *)
Fenced(c) ==
    Key(c) \in Prompt /\ call[c].pc \in Working =>
      call[c].ver = marker[Key(c)].ver /\ marker[Key(c)].stale = FALSE

(* ... nobody else works on the key ...                                    *)
Alone(c, d) ==
    Key(c) \in Prompt /\ Key(d) = Key(c) /\ Active(c) /\ Active(d) => c = d

(* ... an event of the key that is not applied is the one it waits for ... *)
Pending(e) ==
    e.key \in Prompt =>
      /\ marker[e.key].status = "InProgress" /\ marker[e.key].stale = FALSE
      /\ \A c \in Calls : Key(c) = e.key /\ Active(c) =>
           At(c, "compact") /\ e.n = call[c].event

(* ... and until it appends one, no catalog of the key has the name.       *)
Untaken(c) ==
    Key(c) \in Prompt /\ call[c].pc \in Clear /\ call[c].ver = marker[Key(c)].ver
      => visible[Name(c)] \notin Own(Key(c))

(* Prompt keys: calls work on them one after the other.                    *)
PromptInv ==
    /\ \A c \in Calls : Fenced(c)
    /\ \A c, d \in Calls : Alone(c, d)
    /\ \A e \in ledger : Pending(e)
    /\ \A c \in Calls : Untaken(c)

(* Events are told apart by their numbers.                                 *)
EventInv == \A e, f \in ledger : e.n = f.n => e = f

----------------------------------------------------------------------------
(* Only one call moves at a time, and only its own marker with it.         *)
CallStep(c) ==
    \/ \E r \in Requests : Begin(c, r)
    \/ Claim(c) \/ Check(c) \/ Recover(c) \/ Takeover(c) \/ Reserve(c)
    \/ Lookup(c) \/ Append(c) \/ Compact(c)
    \/ FinalizeCommitted(c) \/ FinalizeFailed(c) \/ Replay(c) \/ Crash(c)

OtherStep ==
    \/ \E e \in ledger : ApplyLate(e) \/ Refuse(e)
    \/ \E n \in Names : Delete(n)
    \/ \E k \in Keys : MarkerAges(k)

LEMMA NextSteps == Next => OtherStep \/ \E c \in Calls : CallStep(c)
    BY Zenon DEF Next, OtherStep, CallStep

(* A call goes on: everything but its request may change.                  *)
GoesOn(c, p, v, i, n) ==
    call' = [call EXCEPT ![c] = [call[c] EXCEPT !.pc = p, !.ver = v, !.id = i, !.event = n]]

(* The steps of a call, by what they do to its record.                     *)
LEMMA CallForms ==
    ASSUME Base, NEW c \in Calls
    PROVE  /\ \A p : Goto(c, p) => GoesOn(c, p, call[c].ver, call[c].id, call[c].event)
           /\ \A p, v : call' = [call EXCEPT ![c].pc = p, ![c].ver = v]
                => GoesOn(c, p, v, call[c].id, call[c].event)
           /\ \A p, i : call' = [call EXCEPT ![c].pc = p, ![c].id = i]
                => GoesOn(c, p, call[c].ver, i, call[c].event)
           /\ \A p, v, i : call' = [call EXCEPT ![c].pc = p, ![c].id = i, ![c].ver = v]
                => GoesOn(c, p, v, i, call[c].event)
           /\ \A p, n : call' = [call EXCEPT ![c].pc = p, ![c].event = n]
                => GoesOn(c, p, call[c].ver, call[c].id, n)
<1>0. call \in [Calls -> CallRecords] /\ call[c] \in CallRecords
    BY DEF Base, CallInv
<1>1. \A p : Goto(c, p) => GoesOn(c, p, call[c].ver, call[c].id, call[c].event)
    BY <1>0 DEF Goto, GoesOn, CallRecords
<1>2. \A p, v : call' = [call EXCEPT ![c].pc = p, ![c].ver = v]
        => GoesOn(c, p, v, call[c].id, call[c].event)
    BY <1>0 DEF GoesOn, CallRecords
<1>3. \A p, i : call' = [call EXCEPT ![c].pc = p, ![c].id = i]
        => GoesOn(c, p, call[c].ver, i, call[c].event)
    BY <1>0 DEF GoesOn, CallRecords
<1>4. \A p, v, i : call' = [call EXCEPT ![c].pc = p, ![c].id = i, ![c].ver = v]
        => GoesOn(c, p, v, i, call[c].event)
    BY <1>0 DEF GoesOn, CallRecords
<1>5. \A p, n : call' = [call EXCEPT ![c].pc = p, ![c].event = n]
        => GoesOn(c, p, call[c].ver, call[c].id, n)
    BY <1>0 DEF GoesOn, CallRecords
<1> QED  BY <1>1, <1>2, <1>3, <1>4, <1>5

LEMMA GoesOnFacts ==
    ASSUME Base, NEW c \in Calls, NEW p, NEW v, NEW i, NEW n, GoesOn(c, p, v, i, n)
    PROVE  /\ \A d \in Calls \ {c} : call'[d] = call[d]
           /\ call'[c].pc = p /\ call'[c].req = call[c].req /\ call'[c].ver = v
           /\ call'[c].id = i /\ call'[c].event = n
           /\ Key(c)' = Key(c) /\ Name(c)' = Name(c)
<1>0. call \in [Calls -> CallRecords] /\ call[c] \in CallRecords
    BY DEF Base, CallInv
<1> QED  BY <1>0 DEF GoesOn, CallRecords, Key, Name

LEMMA AnswerFacts ==
    ASSUME Base, NEW c \in Calls, Answer(c)
    PROVE  /\ \A d \in Calls \ {c} : call'[d] = call[d]
           /\ call'[c] = Idle /\ call'[c].pc = "idle" /\ call'[c].id = 0
           /\ Key(c)' = NoKey
<1>0. call \in [Calls -> CallRecords]
    BY DEF Base, CallInv
<1> QED  BY <1>0 DEF Answer, Idle, Key

----------------------------------------------------------------------------
(* The steps of a call sorted by what they touch: nothing but the call ... *)
Rest == UNCHANGED <<visible, ledger, created, lastId, begun>>

Quiet == Rest /\ UNCHANGED <<marker, lastVer>>

(* ... with one of these moves ...                                         *)
Edge(c, p, v, i) ==
    \/ At(c, "claim") /\ p = "check" /\ v = marker[Key(c)].ver /\ i = call[c].id
    \/ /\ v = call[c].ver /\ i = marker[Key(c)].id /\ At(c, "check")
       /\ marker[Key(c)].status = "InProgress" /\ marker[Key(c)].stale
       /\ p = IF i # 0 THEN "recover" ELSE "takeover"
    \/ /\ v = call[c].ver /\ i = call[c].id
       /\ \/ call[c].pc \in {"check", "takeover"} /\ p = "replay"
          \/ At(c, "recover") /\ p = "takeover" /\ visible[Name(c)] = 0
          \/ At(c, "recover") /\ p = "commit" /\ visible[Name(c)] = i
          \/ At(c, "reserve") /\ p = "lookup" /\ i # 0
          \/ At(c, "lookup") /\ p \in {"fail", "append"}
          \/ At(c, "compact") /\ p = "commit" /\ \A e \in ledger : e.n # call[c].event

(* ... the call and its marker ...                                         *)
Puts(c, m) ==
    /\ Key(c) \in Keys /\ lastVer' = lastVer + 1
    /\ m.ver = lastVer + 1 /\ m \in MarkerRecords
    /\ marker' = [marker EXCEPT ![Key(c)] = m]

Claims(c) ==
    /\ At(c, "claim") /\ marker[Key(c)].status = "Absent" /\ Rest
    /\ \E m : Puts(c, m) /\ m.status = "InProgress" /\ m.id = call[c].id /\ m.stale = FALSE
    /\ GoesOn(c, "reserve", lastVer + 1, call[c].id, call[c].event)

Matches(c) == marker[Key(c)].ver = call[c].ver

Takes(c) ==
    /\ At(c, "takeover") /\ Matches(c) /\ Rest
    /\ \E m : Puts(c, m) /\ m.status = "InProgress" /\ m.id = call[c].id /\ m.stale = FALSE
    /\ GoesOn(c, "reserve", lastVer + 1, call[c].id, call[c].event)

Finalizes(c) ==
    /\ Matches(c) /\ Rest /\ Answer(c)
    /\ \E m : /\ Puts(c, m)
              /\ \/ At(c, "commit") /\ m.status = "Committed" /\ m.id = call[c].id
                 \/ At(c, "fail") /\ m.status = "Failed" /\ m.id = 0 /\ m.name = Name(c)

(* ... a new id, in the marker of a key ...                                *)
Reserves(c) ==
    /\ At(c, "reserve") /\ call[c].id = 0 /\ lastId' = lastId + 1
    /\ UNCHANGED <<visible, ledger, created, begun>>
    /\ \/ /\ Key(c) = NoKey /\ UNCHANGED <<marker, lastVer>>
          /\ GoesOn(c, "lookup", call[c].ver, lastId + 1, call[c].event)
       \/ /\ Matches(c)
          /\ \E m : /\ Puts(c, m) /\ m.status = "InProgress" /\ m.id = lastId + 1
                    /\ m.stale = marker[Key(c)].stale
          /\ GoesOn(c, "lookup", lastVer + 1, lastId + 1, call[c].event)

(* ... a new event, or an event that is applied.                           *)
Appends(c) ==
    /\ At(c, "append")
    /\ ledger' = ledger \cup {[id |-> call[c].id, name |-> Name(c), key |-> Key(c),
                               n |-> lastVer + 1]}
    /\ lastVer' = lastVer + 1
    /\ GoesOn(c, "compact", call[c].ver, call[c].id, lastVer + 1)
    /\ UNCHANGED <<marker, visible, created, lastId, begun>>

Compacts(c) ==
    /\ At(c, "compact") /\ UNCHANGED <<marker, lastId, lastVer, begun>>
    /\ \E e \in ledger : e.n = call[c].event /\ Apply(e)
    /\ GoesOn(c, "commit", call[c].ver, call[c].id, call[c].event)
Wastes(c) ==
    /\ At(c, "reserve") /\ call[c].id = 0 /\ lastId' = lastId + 1 /\ Answer(c)
    /\ UNCHANGED <<visible, ledger, created, begun, marker, lastVer>>

Moves(c) ==
    Quiet /\ \E p \in Pcs, v \in Nat, i \in Nat :
                Edge(c, p, v, i) /\ GoesOn(c, p, v, i, call[c].event)

(* The markers that are written.                                           *)
LEMMA NoMarkerFacts ==
    NoMarker \in MarkerRecords /\ NoMarker.stale = FALSE
    BY DEF NoMarker, MarkerRecords

LEMMA CallKinds ==
    ASSUME Base, NEW c \in Calls, CallStep(c)
    PROVE  \/ \E r \in Requests : Begin(c, r)
           \/ Answer(c) /\ Quiet
           \/ Moves(c) \/ Claims(c) \/ Takes(c) \/ Finalizes(c)
           \/ Reserves(c) \/ Wastes(c) \/ Appends(c) \/ Compacts(c)
<1>0. /\ call \in [Calls -> CallRecords] /\ call[c] \in CallRecords
      /\ lastVer \in Nat /\ lastId \in Nat
      /\ call[c].ver \in Nat /\ call[c].id \in Nat
      /\ Key(c) \in Keys \cup {NoKey} /\ Name(c) \in Names \cup {NoName}
      /\ NoKey \notin Keys
      /\ \A k \in Keys : marker[k] \in MarkerRecords /\ marker[k].ver \in Nat
                          /\ marker[k].id \in Nat
    BY RequestAssumption DEF Base, CallInv, MarkerInv, TypeOK, Ids, CallRecords,
        MarkerRecords, Key, Name
<1>1. call[c].pc \in {"claim", "check", "recover", "takeover"} => Key(c) \in Keys
    BY <1>0 DEF Base, CallInv
<1>2. Unmoved => Rest
    BY DEF Unmoved, Rest
<1>3. ASSUME NEW p \in Pcs, Goto(c, p), Edge(c, p, call[c].ver, call[c].id), Quiet
      PROVE  Moves(c)
    BY <1>0, <1>3, CallForms DEF Moves
<1>4. /\ InProgress(c) \in MarkerRecords /\ InProgress(c).status = "InProgress"
      /\ InProgress(c).id = call[c].id /\ InProgress(c).stale = FALSE
      /\ InProgress(c).name = Name(c)
    <2>1. /\ InProgress(c) \in MarkerRecords /\ InProgress(c).status = "InProgress"
          /\ InProgress(c).id = call[c].id /\ InProgress(c).name = Name(c)
        BY <1>0, NoMarkerFacts DEF InProgress, MarkerRecords
    <2>2. InProgress(c).stale = NoMarker.stale
        BY <1>0, NoMarkerFacts DEF InProgress, MarkerRecords
    <2> QED  BY <2>1, <2>2, NoMarkerFacts, Zenon
<1>5. ASSUME NEW m \in MarkerRecords, PutMarker(c, m), Key(c) \in Keys
      PROVE  /\ Matches(c) /\ Puts(c, [m EXCEPT !.ver = lastVer + 1])
             /\ [m EXCEPT !.ver = lastVer + 1].status = m.status
             /\ [m EXCEPT !.ver = lastVer + 1].id = m.id
             /\ [m EXCEPT !.ver = lastVer + 1].stale = m.stale
             /\ [m EXCEPT !.ver = lastVer + 1].name = m.name
    BY <1>0, <1>5 DEF PutMarker, Puts, Matches, MarkerRecords
<1>6. CASE Claim(c)
    <2>0. At(c, "claim") /\ Key(c) \in Keys /\ Rest
        BY <1>1, <1>2, <1>6 DEF Claim, At
    <2>1. CASE /\ marker[Key(c)].status = "Absent"
               /\ marker' = [marker EXCEPT ![Key(c)] =
                            [InProgress(c) EXCEPT !.ver = lastVer + 1]]
               /\ lastVer' = lastVer + 1
               /\ call' = [call EXCEPT ![c].pc = "reserve", ![c].ver = lastVer + 1]
        <3> DEFINE m == [InProgress(c) EXCEPT !.ver = lastVer + 1]
        <3>1. Puts(c, m) /\ m.status = "InProgress" /\ m.id = call[c].id /\ m.stale = FALSE
            BY <1>0, <1>4, <2>0, <2>1 DEF Puts, MarkerRecords
        <3>2. GoesOn(c, "reserve", lastVer + 1, call[c].id, call[c].event)
            BY <2>1, CallForms
        <3> QED  BY <2>0, <2>1, <3>1, <3>2 DEF Claims
    <2>2. CASE /\ UNCHANGED <<marker, lastVer>>
               /\ call' = [call EXCEPT ![c].pc = "check", ![c].ver = marker[Key(c)].ver]
        <3>1. GoesOn(c, "check", marker[Key(c)].ver, call[c].id, call[c].event)
            BY <2>2, CallForms
        <3> QED  BY <1>0, <2>0, <2>2, <3>1 DEF Moves, Quiet, Edge, Pcs, Owned
    <2> QED  BY <1>6, <2>1, <2>2 DEF Claim
<1>7. CASE Check(c)
    <2>0. At(c, "check") /\ Key(c) \in Keys /\ Quiet
        BY <1>1, <1>2, <1>7 DEF Check, At, Quiet
    <2>1. Goto(c, "replay") => Moves(c)
        BY <1>3, <2>0 DEF Edge, At, Pcs
    <2>2. ASSUME marker[Key(c)].status = "InProgress", marker[Key(c)].stale,
                 call' = [call EXCEPT
                     ![c].pc = IF marker[Key(c)].id # 0 THEN "recover" ELSE "takeover",
                     ![c].id = marker[Key(c)].id]
          PROVE  Moves(c)
        <3> DEFINE p == IF marker[Key(c)].id # 0 THEN "recover" ELSE "takeover"
        <3>1. GoesOn(c, p, call[c].ver, marker[Key(c)].id, call[c].event) /\ p \in Pcs
            BY <2>2, CallForms DEF Pcs, Owned
        <3>2. Edge(c, p, call[c].ver, marker[Key(c)].id)
            BY <2>0, <2>2 DEF Edge
        <3> HIDE DEF p
        <3> QED  BY <1>0, <2>0, <3>1, <3>2 DEF Moves
    <2> QED  BY <1>7, <2>0, <2>1, <2>2 DEF Check
<1>8. CASE Recover(c)
    <2>0. At(c, "recover") /\ Quiet
        BY <1>2, <1>8 DEF Recover, Quiet
    <2>1. visible[Name(c)] = 0 /\ Goto(c, "takeover") => Moves(c)
        BY <1>3, <2>0 DEF Edge, Pcs, Owned
    <2>2. visible[Name(c)] = call[c].id /\ Goto(c, "commit") => Moves(c)
        BY <1>3, <2>0 DEF Edge, Pcs, Owned
    <2> QED  BY <1>8, <2>0, <2>1, <2>2 DEF Recover
<1>9. CASE Takeover(c)
    <2>0. At(c, "takeover") /\ Key(c) \in Keys /\ Rest
        BY <1>1, <1>2, <1>9 DEF Takeover, At
    <2>1. CASE /\ PutMarker(c, InProgress(c))
               /\ call' = [call EXCEPT ![c].pc = "reserve", ![c].ver = lastVer + 1]
        <3>1. GoesOn(c, "reserve", lastVer + 1, call[c].id, call[c].event)
            BY <2>1, CallForms
        <3> DEFINE m == [InProgress(c) EXCEPT !.ver = lastVer + 1]
        <3>2. /\ Matches(c) /\ Puts(c, m) /\ m.status = "InProgress"
              /\ m.id = call[c].id /\ m.stale = FALSE
            BY <1>4, <1>5, <2>0, <2>1, Zenon
        <3> HIDE DEF m
        <3> QED  BY <2>0, <3>1, <3>2 DEF Takes
    <2>2. Goto(c, "replay") /\ Quiet => Moves(c)
        BY <1>3, <2>0 DEF Edge, Pcs, At
    <2> QED  BY <1>9, <2>0, <2>1, <2>2 DEF Takeover, PutFails, Quiet
<1>10. CASE Reserve(c)
    <2>0. /\ At(c, "reserve") /\ UNCHANGED <<visible, ledger, created, begun>>
        BY <1>10 DEF Reserve, Bounds
    <2>1. CASE /\ call[c].id # 0 /\ Goto(c, "lookup")
               /\ UNCHANGED <<marker, lastId, lastVer>>
        BY <1>3, <2>0, <2>1 DEF Edge, Pcs, Owned, Quiet, Rest
    <2>2. CASE /\ call[c].id = 0 /\ lastId' = lastId + 1
               /\ Key(c) = NoKey /\ UNCHANGED <<marker, lastVer>>
               /\ call' = [call EXCEPT ![c].pc = "lookup", ![c].id = lastId + 1]
        BY <2>0, <2>2, CallForms DEF Reserves
    <2>3. CASE /\ call[c].id = 0 /\ lastId' = lastId + 1 /\ Key(c) # NoKey
               /\ PutMarker(c, [InProgress(c) EXCEPT !.id = lastId + 1,
                                                     !.stale = marker[Key(c)].stale])
               /\ call' = [call EXCEPT ![c].pc = "lookup", ![c].id = lastId + 1,
                                       ![c].ver = lastVer + 1]
        <3> DEFINE m == [InProgress(c) EXCEPT !.id = lastId + 1,
                                              !.stale = marker[Key(c)].stale]
        <3>1. GoesOn(c, "lookup", lastVer + 1, lastId + 1, call[c].event)
            BY <2>3, CallForms
        <3>2. /\ m \in MarkerRecords /\ m.status = "InProgress" /\ m.id = lastId + 1
              /\ m.stale = marker[Key(c)].stale /\ Key(c) \in Keys
            <4>1. marker[Key(c)].stale \in BOOLEAN /\ Key(c) \in Keys /\ lastId + 1 \in Nat
                BY <1>0, <2>3 DEF MarkerRecords
            <4>2. m \in MarkerRecords /\ m.status = "InProgress" /\ m.id = lastId + 1
                BY <1>4, <4>1 DEF MarkerRecords
            <4>3. m.stale = marker[Key(c)].stale
                BY <1>4, <4>1 DEF MarkerRecords
            <4> QED  BY <4>1, <4>2, <4>3
        <3> HIDE DEF m
        <3>4. PutMarker(c, m)
            BY <2>3 DEF m
        <3> DEFINE y == [m EXCEPT !.ver = lastVer + 1]
        <3>5. /\ Matches(c) /\ Puts(c, y) /\ y.status = m.status /\ y.id = m.id
              /\ y.stale = m.stale
            BY <1>5, <3>2, <3>4, Zenon
        <3> HIDE DEF y
        <3>3. Matches(c) /\ \E x : /\ Puts(c, x) /\ x.status = "InProgress"
                                   /\ x.id = lastId + 1
                                   /\ x.stale = marker[Key(c)].stale
            BY <3>2, <3>5
        <3> QED  BY <2>0, <2>3, <3>1, <3>3 DEF Reserves
    <2>4. CASE /\ call[c].id = 0 /\ lastId' = lastId + 1 /\ PutFails(c) /\ Answer(c)
        BY <2>0, <2>4 DEF Wastes, PutFails
    <2> QED  BY <1>10, <2>1, <2>2, <2>3, <2>4 DEF Reserve
<1>11. CASE Lookup(c)
    <2>0. At(c, "lookup") /\ Quiet
        BY <1>2, <1>11 DEF Lookup, Quiet
    <2>1. \A p \in {"fail", "append"} : Goto(c, p) => Moves(c)
        BY <1>3, <2>0 DEF Edge, Pcs, Owned
    <2> QED  BY <1>11, <2>0, <2>1 DEF Lookup
<1>12. CASE Append(c)
    BY <1>12, CallForms DEF Append, Appends, Bounds
<1>13. CASE Compact(c)
    <2>0. At(c, "compact") /\ UNCHANGED <<marker, lastId, lastVer, begun>>
        BY <1>13 DEF Compact, Bounds
    <2>1. ASSUME NEW e \in ledger, e.n = call[c].event, Apply(e), Goto(c, "commit")
          PROVE  Compacts(c)
        BY <2>0, <2>1, CallForms DEF Compacts
    <2>2. CASE /\ \A e \in ledger : e.n # call[c].event
               /\ Goto(c, "commit") /\ UNCHANGED <<visible, ledger, created>>
        BY <1>3, <2>0, <2>2 DEF Edge, Pcs, Owned, Quiet, Rest
    <2>3. CASE Answer(c) /\ UNCHANGED <<visible, ledger, created>>
        BY <2>0, <2>3 DEF Quiet, Rest
    <2> QED  BY <1>13, <2>1, <2>2, <2>3 DEF Compact
<1>14. CASE FinalizeCommitted(c) \/ FinalizeFailed(c)
    <2>0. Rest /\ Answer(c)
        BY <1>2, <1>14 DEF FinalizeCommitted, FinalizeFailed
    <2>1. UNCHANGED <<marker, lastVer>> => Answer(c) /\ Quiet
        BY <2>0 DEF Quiet
    <2>2. ASSUME At(c, "commit"), Key(c) # NoKey,
                 PutMarker(c, [InProgress(c) EXCEPT !.status = "Committed"])
          PROVE  Finalizes(c)
        <3> DEFINE m == [InProgress(c) EXCEPT !.status = "Committed"]
        <3>1. m \in MarkerRecords /\ m.status = "Committed" /\ m.id = call[c].id
              /\ Key(c) \in Keys
            BY <1>0, <1>4, <2>2 DEF MarkerRecords
        <3> HIDE DEF m
        <3>2. PutMarker(c, m)
            BY <2>2 DEF m
        <3> DEFINE x == [m EXCEPT !.ver = lastVer + 1]
        <3>3. /\ Matches(c) /\ Puts(c, x) /\ x.status = m.status /\ x.id = m.id
              /\ x.name = m.name
            BY <1>5, <3>1, <3>2, Zenon
        <3> HIDE DEF x
        <3> QED  BY <2>0, <2>2, <3>1, <3>3 DEF Finalizes
    <2>3. ASSUME At(c, "fail"), Key(c) # NoKey,
                 PutMarker(c, [InProgress(c) EXCEPT !.status = "Failed", !.id = 0])
          PROVE  Finalizes(c)
        <3> DEFINE m == [InProgress(c) EXCEPT !.status = "Failed", !.id = 0]
        <3>1. m \in MarkerRecords /\ m.status = "Failed" /\ m.id = 0
              /\ m.name = Name(c) /\ Key(c) \in Keys
            BY <1>0, <1>4, <2>3 DEF MarkerRecords
        <3> HIDE DEF m
        <3>2. PutMarker(c, m)
            BY <2>3 DEF m
        <3> DEFINE x == [m EXCEPT !.ver = lastVer + 1]
        <3>3. /\ Matches(c) /\ Puts(c, x) /\ x.status = m.status /\ x.id = m.id
              /\ x.name = m.name
            BY <1>5, <3>1, <3>2, Zenon
        <3> HIDE DEF x
        <3> QED  BY <2>0, <2>3, <3>1, <3>3 DEF Finalizes
    <2> QED  BY <1>14, <2>0, <2>1, <2>2, <2>3 DEF FinalizeCommitted, FinalizeFailed,
                PutFails
<1>15. CASE Replay(c) \/ Crash(c)
    BY <1>2, <1>15 DEF Replay, Crash, Quiet, Rest
<1> QED  BY <1>6, <1>7, <1>8, <1>9, <1>10, <1>11, <1>12, <1>13, <1>14, <1>15
         DEF CallStep

----------------------------------------------------------------------------
(* Types.  What is known of the call that moves, and of the rest.          *)
LEMMA BaseFacts ==
    ASSUME Base, NEW c \in Calls
    PROVE  /\ call \in [Calls -> CallRecords] /\ call[c] \in CallRecords
           /\ call[c].pc \in Pcs /\ call[c].event \in Nat
           /\ call[c].ver \in 0..lastVer /\ call[c].id \in 0..lastId
           /\ Key(c) \in Keys \cup {NoKey} /\ NoKey \notin Keys
           /\ lastVer \in Nat /\ lastId \in Nat
    BY RequestAssumption DEF Base, CallInv, MarkerInv, TypeOK, Ids, CallRecords, Key

LEMMA MarkerFacts ==
    ASSUME Base, NEW k \in Keys
    PROVE  /\ marker \in [Keys -> MarkerRecords] /\ marker[k] \in MarkerRecords
           /\ marker[k].ver \in 0..lastVer /\ marker[k].id \in 0..lastId
    BY RequestAssumption DEF Base, MarkerInv, TypeOK, Ids, MarkerRecords

LEMMA KeyedCall ==
    ASSUME Base, NEW c \in Calls,
           call[c].pc \in {"claim", "check", "recover", "takeover"}
    PROVE  Key(c) \in Keys
    BY BaseFacts DEF Base, CallInv

LEMMA CallGoesOn ==
    ASSUME Base, NEW c \in Calls, NEW p \in Pcs, NEW v \in Nat, NEW i \in Nat,
           NEW n \in Nat, GoesOn(c, p, v, i, n), ~At(c, "idle"), p # "idle",
           p \in HasId => i # 0,
           p \in {"claim", "check", "recover", "takeover"} => Key(c) # NoKey,
           p \in {"claim", "check"} => i = 0
    PROVE  CallInv'
<1>0. call \in [Calls -> CallRecords] /\ call[c] \in CallRecords /\ CallInv
    BY BaseFacts DEF Base
<1>1. call'[c] \in CallRecords /\ call' \in [Calls -> CallRecords]
    BY <1>0 DEF GoesOn, CallRecords
<1>2. Name(c) \in Names
    BY <1>0 DEF CallInv
<1> QED  BY <1>0, <1>1, <1>2, GoesOnFacts DEF CallInv, At, Key, Name

LEMMA CallAnswers ==
    ASSUME Base, NEW c \in Calls, Answer(c)
    PROVE  CallInv'
<1>0. call \in [Calls -> CallRecords] /\ CallInv
    BY BaseFacts DEF Base
<1>1. Idle \in CallRecords
    BY DEF Idle, CallRecords, Pcs
<1>2. call' \in [Calls -> CallRecords]
    BY <1>0, <1>1 DEF Answer
<1> QED  BY <1>0, <1>2, AnswerFacts DEF CallInv, At, Key, Name, HasId

LEMMA CallBegins ==
    ASSUME Base, NEW c \in Calls, NEW r \in Requests, Begin(c, r)
    PROVE  /\ CallInv' /\ \A d \in Calls \ {c} : call'[d] = call[d]
           /\ call'[c].pc \in {"reserve", "claim"} /\ call'[c].id = 0 /\ call'[c].ver = 0
           /\ Key(c)' = r.key /\ (call'[c].pc = "reserve" => Key(c)' = NoKey)
           /\ At(c, "idle")
<1>0. call \in [Calls -> CallRecords] /\ CallInv
    BY BaseFacts DEF Base
<1> DEFINE s == [Idle EXCEPT !.req = r,
                   !.pc = IF r.key = NoKey THEN "reserve" ELSE "claim"]
<1>1. /\ s \in CallRecords /\ s.req = r /\ s.id = 0 /\ r.name \in Names /\ s.ver = 0
      /\ s.pc = IF r.key = NoKey THEN "reserve" ELSE "claim"
    BY RequestAssumption DEF Idle, CallRecords, Pcs, Owned
<1>2. call' = [call EXCEPT ![c] = s] /\ At(c, "idle")
    BY DEF Begin
<1> HIDE DEF s
<1>3. call' \in [Calls -> CallRecords] /\ call'[c] = s
      /\ \A d \in Calls \ {c} : call'[d] = call[d]
    BY <1>0, <1>1, <1>2
<1>4. CallInv'
    BY <1>0, <1>1, <1>3 DEF CallInv, At, Key, Name, HasId
<1> QED  BY <1>1, <1>2, <1>3, <1>4 DEF Key

LEMMA CallNext ==
    ASSUME Base, NEW c \in Calls, CallStep(c)
    PROVE  CallInv'
<1>0. CallInv /\ call[c].ver \in Nat /\ call[c].id \in Nat /\ call[c].event \in Nat
      /\ lastVer + 1 \in Nat /\ lastId + 1 \in Nat /\ lastId + 1 # 0
    BY BaseFacts DEF Base
<1>1. CASE \E r \in Requests : Begin(c, r)
    BY <1>1, CallBegins
<1>2. CASE Answer(c)
    BY <1>2, CallAnswers
<1>3. CASE Moves(c)
    <2>1. PICK p \in Pcs, v \in Nat, i \in Nat :
            Edge(c, p, v, i) /\ GoesOn(c, p, v, i, call[c].event)
        BY <1>3 DEF Moves
    <2>0. /\ call[c].pc \in HasId => call[c].id # 0
          /\ call[c].pc \in {"claim", "check", "recover", "takeover"} => Key(c) # NoKey
          /\ call[c].pc \in {"idle", "claim", "check"} => call[c].id = 0
        BY <1>0 DEF CallInv
    <2>2. ~At(c, "idle") /\ p # "idle"
        BY <2>1 DEF Edge, At
    <2>3. p \in HasId => i # 0
        BY <2>0, <2>1 DEF Edge, At, HasId
    <2>4. p \in {"claim", "check", "recover", "takeover"} => Key(c) # NoKey
        BY <2>0, <2>1 DEF Edge, At
    <2>5. p \in {"claim", "check"} => i = 0
        BY <2>0, <2>1 DEF Edge, At
    <2> QED  BY <1>0, <2>1, <2>2, <2>3, <2>4, <2>5, CallGoesOn
<1>4. CASE Claims(c) \/ Takes(c)
    <2>1. "reserve" \in Pcs /\ "reserve" \notin HasId
        BY DEF Pcs, Owned, HasId
    <2> QED  BY <1>0, <1>4, <2>1, CallGoesOn DEF Claims, Takes, At
<1>5. CASE Reserves(c)
    <2>1. "lookup" \in Pcs
        BY DEF Pcs, Owned
    <2> QED  BY <1>0, <1>5, <2>1, CallGoesOn DEF Reserves, At
<1>6. CASE Appends(c) \/ Compacts(c)
    <2>1. "compact" \in Pcs /\ "commit" \in Pcs
        BY DEF Pcs, Owned
    <2>2. call[c].id # 0
        BY <1>0, <1>6 DEF Appends, Compacts, At, CallInv, HasId
    <2> QED  BY <1>0, <1>6, <2>1, <2>2, CallGoesOn DEF Appends, Compacts, At
<1> QED  BY <1>1, <1>2, <1>3, <1>4, <1>5, <1>6, CallKinds DEF Finalizes, Wastes

(* Markers, and the ids that are taken.                                    *)
LEMMA MarkerNext ==
    ASSUME Base, NEW c \in Calls, CallStep(c)
    PROVE  /\ MarkerInv' /\ lastVer' >= lastVer /\ lastId' >= lastId
           /\ \A k \in Keys : /\ marker'[k].ver <= lastVer'
                              /\ marker'[k].status = "Committed" => marker'[k].id # 0
                              /\ marker'[k].status = "Failed" => marker'[k].id = 0
<1>0. /\ MarkerInv /\ call[c].id \in Nat /\ call[c].id <= lastId
      /\ lastVer \in Nat /\ lastId \in Nat
      /\ marker \in [Keys -> MarkerRecords] /\ \A k \in Keys : marker[k].id <= lastId
    BY BaseFacts DEF Base, MarkerInv
<1>1. \A k \in Keys : /\ marker[k].ver \in Nat /\ marker[k].ver <= lastVer
                      /\ marker[k].id \in Nat
                      /\ marker[k].status = "Committed" => marker[k].id # 0
                      /\ marker[k].status = "Failed" => marker[k].id = 0
    BY <1>0, MarkerFacts DEF Base, TypeOK
<1>2. ASSUME UNCHANGED marker, lastVer' \in Nat, lastVer' >= lastVer,
             lastId' \in Nat, lastId' >= lastId
      PROVE  /\ MarkerInv'
             /\ \A k \in Keys : /\ marker'[k].ver <= lastVer'
                                /\ marker'[k].status = "Committed" => marker'[k].id # 0
                                /\ marker'[k].status = "Failed" => marker'[k].id = 0
    BY <1>0, <1>1, <1>2 DEF MarkerInv
<1>3. ASSUME NEW m, Puts(c, m), m.id <= lastId', lastId' \in Nat, lastId' >= lastId,
             m.status = "Committed" => m.id # 0, m.status = "Failed" => m.id = 0
      PROVE  /\ MarkerInv'
             /\ \A k \in Keys : /\ marker'[k].ver <= lastVer'
                                /\ marker'[k].status = "Committed" => marker'[k].id # 0
                                /\ marker'[k].status = "Failed" => marker'[k].id = 0
    <2>1. /\ marker' \in [Keys -> MarkerRecords] /\ lastVer' = lastVer + 1
          /\ \A k \in Keys : marker'[k] = IF k = Key(c) THEN m ELSE marker[k]
          /\ m.ver = lastVer + 1
        BY <1>0, <1>3 DEF Puts
    <2> QED  BY <1>0, <1>1, <1>3, <2>1 DEF MarkerInv
<1>4. CASE \/ \E r \in Requests : Begin(c, r)
           \/ Answer(c) /\ Quiet
           \/ Moves(c) \/ Appends(c) \/ Compacts(c) \/ Wastes(c)
    <2>1. UNCHANGED marker /\ lastVer' \in {lastVer, lastVer + 1}
          /\ lastId' \in {lastId, lastId + 1}
        BY <1>4 DEF Begin, Quiet, Rest, Moves, Appends, Compacts, Wastes
    <2> QED  BY <1>0, <1>2, <2>1
<1>5. CASE Claims(c) \/ Takes(c)
    <2>1. PICK m : Puts(c, m) /\ m.status = "InProgress" /\ m.id = call[c].id
        BY <1>5 DEF Claims, Takes
    <2>2. lastId' = lastId /\ lastVer' = lastVer + 1
        BY <1>5, <2>1 DEF Claims, Takes, Rest, Puts
    <2> QED  BY <1>0, <1>3, <2>1, <2>2
<1>6. CASE Finalizes(c)
    <2>1. PICK m : /\ Puts(c, m)
                   /\ \/ At(c, "commit") /\ m.status = "Committed" /\ m.id = call[c].id
                      \/ At(c, "fail") /\ m.status = "Failed" /\ m.id = 0
        BY <1>6 DEF Finalizes
    <2>2. lastId' = lastId /\ lastVer' = lastVer + 1
        BY <1>6, <2>1 DEF Finalizes, Rest, Puts
    <2>3. At(c, "commit") => call[c].id # 0
        BY DEF Base, CallInv, At, HasId
    <2> QED  BY <1>0, <1>3, <2>1, <2>2, <2>3
<1>7. CASE Reserves(c)
    <2>1. CASE UNCHANGED <<marker, lastVer>>
        BY <1>0, <1>2, <1>7, <2>1 DEF Reserves
    <2>2. CASE \E m : Puts(c, m) /\ m.status = "InProgress" /\ m.id = lastId + 1
        <3>1. PICK m : Puts(c, m) /\ m.status = "InProgress" /\ m.id = lastId + 1
            BY <2>2
        <3>2. lastId' = lastId + 1 /\ lastVer' = lastVer + 1
            BY <1>7, <3>1 DEF Reserves, Puts
        <3> QED  BY <1>0, <1>3, <3>1, <3>2
    <2> QED  BY <1>7, <2>1, <2>2 DEF Reserves
<1> QED  BY <1>4, <1>5, <1>6, <1>7, CallKinds

LEMMA CountNext ==
    ASSUME Base, NEW c \in Calls, CallStep(c)
    PROVE  CountInv'
<1>0. /\ lastId \in Nat /\ begun \in Nat /\ lastId + Cardinality(Fresh) <= begun
      /\ IsFiniteSet(Fresh) /\ Cardinality(Fresh) \in Nat
    BY BaseFacts, FS_CardinalityType DEF Base, CountInv, TypeOK
<1>1. /\ call[c].pc \in HasId => call[c].id # 0
      /\ call[c].pc \in {"idle", "claim", "check"} => call[c].id = 0
    BY DEF Base, CallInv
<1>2. ASSUME lastId' = lastId, begun' = begun, Fresh' \subseteq Fresh
      PROVE  CountInv'
    BY <1>0, <1>2, FS_Subset, FS_CardinalityType DEF CountInv
<1>3. CASE \E r \in Requests : Begin(c, r)
    <2>1. lastId' = lastId /\ begun' = begun + 1
        BY <1>3 DEF Begin
    <2>2. Fresh' \subseteq Fresh \cup {c}
        BY <1>3, CallBegins DEF Fresh
    <2>3. /\ IsFiniteSet(Fresh \cup {c})
          /\ Cardinality(Fresh \cup {c}) \in Nat
          /\ Cardinality(Fresh \cup {c}) <= Cardinality(Fresh) + 1
        <3>1. IsFiniteSet(Fresh \cup {c})
              /\ \/ Cardinality(Fresh \cup {c}) = Cardinality(Fresh)
                 \/ Cardinality(Fresh \cup {c}) = Cardinality(Fresh) + 1
            BY <1>0, FS_AddElement
        <3> QED  BY <1>0, <3>1
    <2>4. /\ IsFiniteSet(Fresh') /\ Cardinality(Fresh') <= Cardinality(Fresh \cup {c})
          /\ Cardinality(Fresh') \in Nat
        BY <2>2, <2>3, FS_Subset, FS_CardinalityType
    <2> QED  BY <1>0, <2>1, <2>3, <2>4 DEF CountInv
<1>4. CASE Answer(c) /\ Quiet
    <2>1. Fresh' \subseteq Fresh
        BY <1>4, AnswerFacts DEF Fresh
    <2> QED  BY <1>2, <1>4, <2>1 DEF Quiet, Rest
<1>5. CASE Moves(c)
    <2>1. PICK p \in Pcs, v \in Nat, i \in Nat :
            Edge(c, p, v, i) /\ GoesOn(c, p, v, i, call[c].event)
        BY <1>5 DEF Moves
    <2>2. p \in {"claim", "check", "takeover", "reserve"} /\ i = 0
            => call[c].pc \in {"claim", "check"} /\ call[c].id = 0
        BY <1>1, <2>1 DEF Edge, At, HasId
    <2>3. Fresh' \subseteq Fresh
        BY <2>1, <2>2, GoesOnFacts DEF Fresh
    <2> QED  BY <1>2, <1>5, <2>3 DEF Moves, Quiet, Rest
<1>6. CASE Claims(c) \/ Takes(c)
    <2>1. /\ GoesOn(c, "reserve", lastVer + 1, call[c].id, call[c].event)
          /\ call[c].pc \in {"claim", "takeover"}
        BY <1>6 DEF Claims, Takes, At
    <2>2. Fresh' \subseteq Fresh
        BY <2>1, GoesOnFacts DEF Fresh
    <2> QED  BY <1>2, <1>6, <2>2 DEF Claims, Takes, Rest
<1>7. CASE Finalizes(c)
    <2>1. Fresh' \subseteq Fresh
        BY <1>7, AnswerFacts DEF Fresh, Finalizes
    <2> QED  BY <1>2, <1>7, <2>1 DEF Finalizes, Rest
<1>8. CASE Reserves(c) \/ Wastes(c)
    <2>1. c \in Fresh /\ lastId' = lastId + 1 /\ begun' = begun
        BY <1>8 DEF Fresh, Reserves, Wastes, At
    <2>2. /\ call'[c].pc \in {"lookup", "idle"}
          /\ \A d \in Calls \ {c} : call'[d] = call[d]
        BY <1>8, AnswerFacts, GoesOnFacts DEF Reserves, Wastes
    <2>3. Fresh' \subseteq Fresh \ {c}
        BY <2>2 DEF Fresh
    <2>4. /\ IsFiniteSet(Fresh \ {c}) /\ Cardinality(Fresh \ {c}) = Cardinality(Fresh) - 1
        BY <1>0, <2>1, FS_RemoveElement
    <2>5. /\ IsFiniteSet(Fresh') /\ Cardinality(Fresh') <= Cardinality(Fresh) - 1
          /\ Cardinality(Fresh') \in Nat
        BY <2>3, <2>4, FS_Subset, FS_CardinalityType
    <2> QED  BY <1>0, <2>1, <2>5 DEF CountInv
<1>9. CASE Appends(c) \/ Compacts(c)
    <2>1. /\ call'[c].pc \in {"compact", "commit"}
          /\ \A d \in Calls \ {c} : call'[d] = call[d]
        BY <1>9, GoesOnFacts DEF Appends, Compacts
    <2>2. Fresh' \subseteq Fresh
        BY <2>1 DEF Fresh
    <2> QED  BY <1>2, <1>9, <2>2 DEF Appends, Compacts
<1> QED  BY <1>3, <1>4, <1>5, <1>6, <1>7, <1>8, <1>9, CallKinds

(* The versions, ids and events that a call knows were handed out.         *)
LEMMA CallLimits ==
    ASSUME Base, NEW c \in Calls, CallStep(c)
    PROVE  /\ \A d \in Calls \ {c} : call'[d] = call[d]
           /\ call'[c].ver <= lastVer' /\ call'[c].id <= lastId'
           /\ call'[c].pc = "compact" => call'[c].event \in 1 .. lastVer'
<1>0. /\ lastVer \in Nat /\ lastId \in Nat /\ call[c].ver \in Nat /\ call[c].id \in Nat
      /\ call[c].ver <= lastVer /\ call[c].id <= lastId
    BY BaseFacts
<1>1. CASE \E r \in Requests : Begin(c, r)
    <2>1. PICK r \in Requests : Begin(c, r)
        BY <1>1
    <2>2. lastVer' = lastVer /\ lastId' = lastId
        BY <2>1 DEF Begin
    <2>3. /\ call'[c].pc \in {"reserve", "claim"} /\ call'[c].id = 0 /\ call'[c].ver = 0
          /\ \A d \in Calls \ {c} : call'[d] = call[d]
        BY <2>1, CallBegins
    <2> QED  BY <1>0, <2>2, <2>3
<1>2. CASE Answer(c) /\ (Quiet \/ Finalizes(c) \/ Wastes(c))
    <2>1. lastVer' \in Nat /\ lastId' \in Nat
        BY <1>0, <1>2 DEF Quiet, Rest, Finalizes, Wastes, Puts
    <2>2. call'[c].ver = 0
        BY <1>2, AnswerFacts DEF Idle
    <2> QED  BY <1>2, <2>1, <2>2, AnswerFacts
<1>3. CASE Moves(c)
    <2>1. PICK p \in Pcs, v \in Nat, i \in Nat :
            Edge(c, p, v, i) /\ GoesOn(c, p, v, i, call[c].event)
        BY <1>3 DEF Moves
    <2>2. p # "compact"
        BY <2>1 DEF Edge
    <2>3. call[c].pc \in {"claim", "check"} =>
            marker[Key(c)].ver <= lastVer /\ marker[Key(c)].id <= lastId
        BY KeyedCall, MarkerFacts
    <2>4. v <= lastVer
        BY <1>0, <2>1, <2>3 DEF Edge, At
    <2>5. i <= lastId
        BY <1>0, <2>1, <2>3 DEF Edge, At
    <2> QED  BY <1>3, <2>1, <2>2, <2>4, <2>5, GoesOnFacts DEF Moves, Quiet, Rest
<1>4. CASE Claims(c) \/ Takes(c)
    <2>1. /\ GoesOn(c, "reserve", lastVer + 1, call[c].id, call[c].event)
          /\ lastVer' = lastVer + 1 /\ lastId' = lastId
        BY <1>4 DEF Claims, Takes, Rest, Puts
    <2> QED  BY <1>0, <2>1, GoesOnFacts
<1>5. CASE Reserves(c)
    BY <1>0, <1>5, GoesOnFacts DEF Reserves, Puts
<1>6. CASE Appends(c) \/ Compacts(c)
    BY <1>0, <1>6, GoesOnFacts DEF Appends, Compacts
<1> QED  BY <1>1, <1>2, <1>3, <1>4, <1>5, <1>6, CallKinds DEF Finalizes, Wastes

(* Applying an event keeps the catalogs, the ledger and the history typed. *)
LEMMA ApplyTypes ==
    ASSUME Base, NEW e \in ledger, Apply(e), lastVer' = lastVer
    PROVE  /\ visible' \in [Names -> Ids]
           /\ ledger' \subseteq [id : Ids \ {0}, name : Names, key : Keys \cup {NoKey},
                                 n : 1 .. lastVer']
           /\ created' \subseteq [id : Ids \ {0}, key : Keys \cup {NoKey}]
<1>1. /\ e \in [id : Ids \ {0}, name : Names, key : Keys \cup {NoKey}, n : 1 .. lastVer]
      /\ visible \in [Names -> Ids]
      /\ ledger \subseteq [id : Ids \ {0}, name : Names, key : Keys \cup {NoKey},
                           n : 1 .. lastVer]
      /\ created \subseteq [id : Ids \ {0}, key : Keys \cup {NoKey}]
    BY DEF Base, TypeOK
<1>2. e.id \in Ids \ {0} /\ e.name \in Names /\ e.key \in Keys \cup {NoKey}
    BY <1>1
<1> QED  BY <1>1, <1>2 DEF Apply

LEMMA CallTypes ==
    ASSUME Base, NEW c \in Calls, CallStep(c)
    PROVE  TypeOK'
<1>0. CallInv' /\ MarkerInv' /\ CountInv' /\ lastVer \in Nat /\ lastId \in Nat
      /\ lastVer' >= lastVer /\ lastVer' \in Nat
    BY CallNext, MarkerNext, CountNext, BaseFacts DEF MarkerInv
<1>1. /\ begun' \in 0 .. MaxCalls /\ lastId' \in Ids
    <2>1. begun' \in 0 .. MaxCalls
        <3>1. begun \in 0 .. MaxCalls /\ MaxCalls \in Nat
            BY RequestAssumption DEF Base, TypeOK
        <3>2. begun' = begun \/ (begun < MaxCalls /\ begun' = begun + 1)
            BY CallKinds DEF Begin, Quiet, Rest, Moves, Claims, Takes, Finalizes,
                Reserves, Wastes, Appends, Compacts
        <3> QED  BY <3>1, <3>2
    <2>2. lastId' \in Nat
        <3>1. lastId' \in {lastId, lastId + 1}
            BY CallKinds DEF Begin, Quiet, Rest, Moves, Claims, Takes, Finalizes,
                Reserves, Wastes, Appends, Compacts
        <3> QED  BY <1>0, <3>1
    <2>3. lastId' + Cardinality(Fresh') <= begun' /\ Cardinality(Fresh') \in Nat
        BY <1>0, FS_CardinalityType DEF CountInv
    <2> QED  BY <2>1, <2>2, <2>3, RequestAssumption DEF Ids
<1>2. \A k \in Keys :
        /\ marker'[k] \in [status : {"Absent", "InProgress", "Committed", "Failed"},
                           name : Names \cup {NoName}, id : Ids, stale : BOOLEAN,
                           ver : 0 .. lastVer']
        /\ marker'[k].status = "Committed" => marker'[k].id # 0
        /\ marker'[k].status = "Failed" => marker'[k].id = 0
    <2>1. TAKE k \in Keys
    <2>2. marker'[k] \in MarkerRecords /\ marker'[k].id <= lastId'
        BY <1>0 DEF MarkerInv
    <2>3. marker'[k].ver <= lastVer' /\ marker'[k].ver \in Nat /\ marker'[k].id \in Nat
        BY <2>2, MarkerNext DEF MarkerRecords
    <2>4. marker'[k].ver \in 0 .. lastVer' /\ marker'[k].id \in Ids
        BY <1>0, <1>1, <2>2, <2>3, RequestAssumption DEF Ids
    <2>5. marker'[k] \in [status : {"Absent", "InProgress", "Committed", "Failed"},
                           name : Names \cup {NoName}, id : Ids, stale : BOOLEAN,
                           ver : 0 .. lastVer']
        BY <2>2, <2>4 DEF MarkerRecords
    <2> QED  BY <2>5, MarkerNext
<1>3. /\ visible' \in [Names -> Ids]
      /\ ledger' \subseteq [id : Ids \ {0}, name : Names, key : Keys \cup {NoKey},
                            n : 1 .. lastVer']
      /\ created' \subseteq [id : Ids \ {0}, key : Keys \cup {NoKey}]
    <2>0. /\ visible \in [Names -> Ids]
          /\ ledger \subseteq [id : Ids \ {0}, name : Names, key : Keys \cup {NoKey},
                               n : 1 .. lastVer]
          /\ created \subseteq [id : Ids \ {0}, key : Keys \cup {NoKey}]
        BY DEF Base, TypeOK
    <2>1. CASE Compacts(c)
        BY <2>1, ApplyTypes DEF Compacts
    <2>2. CASE Appends(c)
        <3>1. /\ call[c].id \in Ids \ {0} /\ Name(c) \in Names /\ Key(c) \in Keys \cup {NoKey}
            <4>1. call[c].id # 0 /\ Name(c) \in Names
                BY <2>2 DEF Appends, Base, CallInv, At, HasId
            <4>2. call[c].id \in 0 .. lastId /\ lastId \in Ids
                BY BaseFacts DEF Base, TypeOK
            <4> QED  BY <4>1, <4>2, BaseFacts, RequestAssumption DEF Ids
        <3>2. lastVer + 1 \in 1 .. lastVer' /\ 1 .. lastVer \subseteq 1 .. lastVer'
            BY <1>0, <2>2 DEF Appends
        <3> DEFINE e == [id |-> call[c].id, name |-> Name(c), key |-> Key(c),
                         n |-> lastVer + 1]
        <3>3. e \in [id : Ids \ {0}, name : Names, key : Keys \cup {NoKey},
                      n : 1 .. lastVer']
            BY <3>1, <3>2
        <3>4. ledger' = ledger \cup {e} /\ UNCHANGED <<visible, created>>
            BY <2>2 DEF Appends
        <3> HIDE DEF e
        <3>5. ledger \subseteq [id : Ids \ {0}, name : Names, key : Keys \cup {NoKey},
                                n : 1 .. lastVer']
            BY <2>0, <3>2
        <3> QED  BY <2>0, <3>3, <3>4, <3>5
    <2>3. CASE UNCHANGED <<visible, ledger, created>>
        <3>1. 1 .. lastVer \subseteq 1 .. lastVer'
            BY <1>0
        <3>2. ledger \subseteq [id : Ids \ {0}, name : Names, key : Keys \cup {NoKey},
                                n : 1 .. lastVer']
            BY <2>0, <3>1
        <3> QED  BY <2>0, <2>3, <3>2
    <2>4. Compacts(c) \/ Appends(c) \/ UNCHANGED <<visible, ledger, created>>
        BY CallKinds DEF Begin, Quiet, Rest, Moves, Claims, Takes, Finalizes, Reserves,
            Wastes
    <2> QED  BY <2>1, <2>2, <2>3, <2>4
<1>4. \A d \in Calls : /\ call'[d].ver \in 0 .. lastVer' /\ call'[d].id \in 0 .. lastId'
                       /\ call'[d].pc = "compact" => call'[d].event \in 1 .. lastVer'
    <2>1. TAKE d \in Calls
    <2>2. call'[d].ver \in Nat /\ call'[d].id \in Nat
        BY <1>0 DEF CallInv, CallRecords
    <2>3. lastId' >= lastId /\ lastId' \in Nat
        BY <1>1, MarkerNext DEF Ids
    <2>4. CASE d = c
        BY <1>0, <2>2, <2>3, <2>4, CallLimits
    <2>5. CASE d # c
        <3>1. call'[d] = call[d]
            BY <2>5, CallLimits
        <3>2. /\ call[d].ver \in 0 .. lastVer /\ call[d].id \in 0 .. lastId
              /\ call[d].pc = "compact" => call[d].event \in 1 .. lastVer
            BY DEF Base, TypeOK
        <3> QED  BY <1>0, <2>3, <3>1, <3>2
    <2> QED  BY <2>4, <2>5
<1>5. deletes' \in 0 .. MaxDeletes /\ crashes' \in 0 .. MaxCrashes
    <2>1. /\ deletes \in 0 .. MaxDeletes /\ crashes \in 0 .. MaxCrashes
          /\ MaxDeletes \in Nat /\ MaxCrashes \in Nat
        BY RequestAssumption DEF Base, TypeOK
    <2>2. /\ deletes' = deletes
          /\ crashes' = crashes \/ (crashes < MaxCrashes /\ crashes' = crashes + 1)
        BY DEF CallStep, Begin, Claim, Check, Recover, Takeover, Reserve, Lookup, Append,
            Compact, FinalizeCommitted, FinalizeFailed, Replay, Crash, Unmoved, Bounds
    <2> QED  BY <2>1, <2>2
<1> QED  BY <1>1, <1>2, <1>3, <1>4, <1>5 DEF TypeOK

(* Fresh, the calls and the versions are untouched by the other steps.     *)
LEMMA BaseKept ==
    ASSUME Base, UNCHANGED <<call, lastId, lastVer, begun>>,
           visible' \in [Names -> Ids],
           ledger' \subseteq [id : Ids \ {0}, name : Names, key : Keys \cup {NoKey},
                              n : 1 .. lastVer'],
           created' \subseteq [id : Ids \ {0}, key : Keys \cup {NoKey}],
           deletes' \in 0 .. MaxDeletes, crashes' \in 0 .. MaxCrashes,
           \/ UNCHANGED marker
           \/ \E k \in Keys : /\ marker' = [marker EXCEPT ![k].stale = TRUE]
                              /\ marker[k].status = "InProgress"
    PROVE  Base'
<1>1. CallInv' /\ CountInv'
    <2>1. CallInv'
        BY DEF Base, CallInv, At, Key, Name
    <2>2. Fresh' = Fresh
        BY DEF Fresh
    <2> QED  BY <2>1, <2>2 DEF Base, CountInv
<1>2. CASE UNCHANGED marker
    <2>1. MarkerInv'
        BY <1>2 DEF Base, MarkerInv
    <2>2. TypeOK'
        BY <1>2 DEF Base, TypeOK
    <2> QED  BY <1>1, <2>1, <2>2 DEF Base
<1>3. ASSUME NEW k \in Keys, marker' = [marker EXCEPT ![k].stale = TRUE]
      PROVE  Base'
    <2>1. marker \in [Keys -> MarkerRecords] /\ \A j \in Keys : marker[j].id <= lastId
          /\ lastVer \in Nat
        BY DEF Base, MarkerInv
    <2>2. /\ marker' \in [Keys -> MarkerRecords]
          /\ \A j \in Keys : /\ marker'[j].status = marker[j].status
                             /\ marker'[j].name = marker[j].name
                             /\ marker'[j].id = marker[j].id
                             /\ marker'[j].ver = marker[j].ver
        <3>1. marker[k] \in MarkerRecords
            BY <2>1
        <3> DEFINE m == [marker[k] EXCEPT !.stale = TRUE]
        <3>2. /\ m \in MarkerRecords /\ m.status = marker[k].status
              /\ m.name = marker[k].name /\ m.id = marker[k].id /\ m.ver = marker[k].ver
            BY <3>1 DEF MarkerRecords
        <3>3. marker' = [marker EXCEPT ![k] = m]
            BY <1>3
        <3> HIDE DEF m
        <3> QED  BY <2>1, <3>2, <3>3
    <2>3. MarkerInv'
        BY <2>1, <2>2 DEF MarkerInv
    <2>4. \A j \in Keys :
            /\ marker'[j] \in [status : {"Absent", "InProgress", "Committed", "Failed"},
                               name : Names \cup {NoName}, id : Ids, stale : BOOLEAN,
                               ver : 0 .. lastVer']
            /\ marker'[j].status = "Committed" => marker'[j].id # 0
            /\ marker'[j].status = "Failed" => marker'[j].id = 0
        <3>1. TAKE j \in Keys
        <3>2. marker[j].id \in Ids /\ marker[j].ver \in 0 .. lastVer'
            BY DEF Base, TypeOK
        <3>3. marker'[j] \in MarkerRecords /\ marker'[j].id \in Ids
              /\ marker'[j].ver \in 0 .. lastVer'
            BY <2>2, <3>2
        <3>4. marker'[j] \in [status : {"Absent", "InProgress", "Committed", "Failed"},
                               name : Names \cup {NoName}, id : Ids, stale : BOOLEAN,
                               ver : 0 .. lastVer']
            BY <3>3 DEF MarkerRecords
        <3> QED  BY <2>2, <3>4 DEF Base, TypeOK
    <2>5. TypeOK'
        BY <2>4 DEF Base, TypeOK
    <2> QED  BY <1>1, <2>3, <2>5 DEF Base
<1> QED  BY <1>2, <1>3

LEMMA BaseNext ==
    ASSUME Base, [Next]_vars
    PROVE  Base'
<1>0. /\ visible \in [Names -> Ids]
      /\ ledger \subseteq [id : Ids \ {0}, name : Names, key : Keys \cup {NoKey},
                           n : 1 .. lastVer]
      /\ created \subseteq [id : Ids \ {0}, key : Keys \cup {NoKey}]
      /\ deletes \in 0 .. MaxDeletes /\ crashes \in 0 .. MaxCrashes
      /\ MaxCalls \in Nat /\ MaxDeletes \in Nat
    BY RequestAssumption DEF Base, TypeOK
<1>1. CASE UNCHANGED vars
    BY <1>0, <1>1, BaseKept DEF vars
<1>2. ASSUME NEW c \in Calls, CallStep(c)
      PROVE  Base'
    BY <1>2, CallNext, MarkerNext, CountNext, CallTypes DEF Base
<1>3. ASSUME NEW e \in ledger, ApplyLate(e)
      PROVE  Base'
    <2>1. /\ Apply(e) /\ UNCHANGED <<marker, call, lastId, lastVer, begun, deletes, crashes>>
        BY <1>3 DEF ApplyLate, Bounds
    <2> QED  BY <1>0, <2>1, ApplyTypes, BaseKept
<1>4. ASSUME NEW e \in ledger, Refuse(e)
      PROVE  Base'
    <2>1. /\ ledger' \subseteq ledger
          /\ UNCHANGED <<marker, visible, created, call, lastId, lastVer, begun, deletes,
                         crashes>>
        BY <1>4 DEF Refuse, Bounds
    <2> QED  BY <1>0, <2>1, BaseKept
<1>5. ASSUME NEW n \in Names, Delete(n)
      PROVE  Base'
    <2>1. visible' \in [Names -> Ids] /\ deletes' \in 0 .. MaxDeletes
        BY <1>0, <1>5 DEF Delete, Ids
    <2> QED  BY <1>0, <1>5, <2>1, BaseKept DEF Delete
<1>6. ASSUME NEW k \in Keys, MarkerAges(k)
      PROVE  Base'
    BY <1>0, <1>6, BaseKept DEF MarkerAges
<1> QED  BY <1>1, <1>2, <1>3, <1>4, <1>5, <1>6, NextSteps DEF OtherStep

LEMMA BaseInit == Init => Base
<1> SUFFICES ASSUME Init PROVE Base
    OBVIOUS
<1>0. /\ MaxCalls \in Nat /\ MaxDeletes \in Nat /\ MaxCrashes \in Nat
    BY RequestAssumption
<1>1. Idle \in CallRecords /\ Idle.pc = "idle" /\ Idle.id = 0 /\ Idle.ver = 0
    BY DEF Idle, CallRecords, Pcs
<1>2. /\ call \in [Calls -> CallRecords] /\ \A c \in Calls : call[c] = Idle
      /\ marker \in [Keys -> MarkerRecords] /\ \A k \in Keys : marker[k] = NoMarker
      /\ lastId = 0 /\ lastVer = 0 /\ begun = 0 /\ deletes = 0 /\ crashes = 0
      /\ visible \in [Names -> Ids] /\ ledger = {} /\ created = {}
    BY <1>0, <1>1, NoMarkerFacts DEF Init, Ids
<1>3. NoMarker.id = 0 /\ NoMarker.ver = 0 /\ NoMarker.status = "Absent"
    BY DEF NoMarker
<1>4. CallInv
    BY <1>1, <1>2 DEF CallInv, At, HasId
<1>5. MarkerInv
    BY <1>2, <1>3 DEF MarkerInv
<1>6. CountInv
    <2>1. Fresh = {}
        BY <1>1, <1>2 DEF Fresh
    <2> QED  BY <1>2, <2>1, FS_EmptySet DEF CountInv
<1>7. TypeOK
    <2>1. NoMarker \in [status : {"Absent", "InProgress", "Committed", "Failed"},
                        name : Names \cup {NoName}, id : Ids, stale : BOOLEAN, ver : 0 .. 0]
        BY <1>0 DEF NoMarker, Ids
    <2> QED  BY <1>0, <1>1, <1>2, <1>3, <2>1 DEF TypeOK, Ids
<1> QED  BY <1>4, <1>5, <1>6, <1>7 DEF Base

(* The inductive invariant behind the types of the catalog writer's state: *)
(* no call of create_catalog takes a second entity id.                     *)
THEOREM CatalogBase == Spec => []Base
<1>1. Init => Base
    BY BaseInit
<1>2. Base /\ [Next]_vars => Base'
    BY BaseNext
<1> QED  BY <1>1, <1>2, PTL DEF Spec

(* Every reachable state is well typed: the markers always name an entity  *)
(* the way handle_marker_status expects.                                   *)
THEOREM CatalogTypes == Spec => []TypeOK
<1>1. Base => TypeOK
    BY DEF Base
<1> QED  BY <1>1, CatalogBase, PTL

----------------------------------------------------------------------------
(* What a marker that still has a call's version says.                     *)
LEMMA NewVersion ==
    ASSUME Base, NEW c \in Calls, NEW m, Puts(c, m)
    PROVE  /\ \A k \in Keys : marker'[k] = IF k = Key(c) THEN m ELSE marker[k]
           /\ \A d \in Calls : call[d].ver <= lastVer /\ call[d].ver \in Nat
           /\ m.ver = lastVer + 1 /\ lastVer \in Nat
           /\ \A d \in Calls : call[d].ver # m.ver
<1>1. marker \in [Keys -> MarkerRecords] /\ lastVer \in Nat
    BY DEF Base, MarkerInv
<1>2. \A d \in Calls : call[d].ver <= lastVer /\ call[d].ver \in Nat
    BY BaseFacts
<1>3. m.ver = lastVer + 1
    BY DEF Puts
<1> QED  BY <1>1, <1>2, <1>3 DEF Puts

LEMMA VersionNext ==
    ASSUME Base, VersionInv, [Next]_vars
    PROVE  VersionInv'
<1> DEFINE Knows(d) ==
        call[d].pc \in Owned /\ Key(d) # NoKey /\ call[d].ver = marker[Key(d)].ver =>
          /\ marker[Key(d)].status = "InProgress"
          /\ marker[Key(d)].id = call[d].id
          /\ call[d].pc \in {"recover", "takeover"} => marker[Key(d)].stale
<1>0. \A d \in Calls : Knows(d)
    BY DEF VersionInv
<1>1. SUFFICES \A d \in Calls : Knows(d)'
    BY DEF VersionInv
<1>2. ASSUME NEW c \in Calls, CallStep(c)
      PROVE  \A d \in Calls : Knows(d)'
    <2>0. \A d \in Calls \ {c} : call'[d] = call[d] /\ Key(d)' = Key(d)
        BY <1>2, CallLimits DEF Key
    <2>1. ASSUME UNCHANGED marker
          PROVE  \A d \in Calls \ {c} : Knows(d)'
        BY <1>0, <2>0, <2>1
    <2>2. ASSUME NEW m, Puts(c, m)
          PROVE  \A d \in Calls \ {c} : Knows(d)'
        <3>1. TAKE d \in Calls \ {c}
        <3>2. Key(d) \in Keys \cup {NoKey}
            BY BaseFacts
        <3> QED  BY <1>0, <2>0, <2>2, <3>2, NewVersion
    <2>3. CASE \/ \E r \in Requests : Begin(c, r)
               \/ (Answer(c) /\ Quiet) \/ Wastes(c)
        <3>1. UNCHANGED marker /\ (call'[c].pc \in Owned => Key(c)' = NoKey)
            BY <2>3, CallBegins, AnswerFacts DEF Begin, Quiet, Wastes, Owned
        <3> QED  BY <2>1, <3>1
    <2>4. CASE Finalizes(c)
        <3>1. call'[c].pc \notin Owned
            BY <2>4, AnswerFacts DEF Finalizes, Owned
        <3> QED  BY <2>2, <2>4, <3>1 DEF Finalizes
    <2>5. CASE Moves(c)
        <3>1. PICK p \in Pcs, v \in Nat, i \in Nat :
                Edge(c, p, v, i) /\ GoesOn(c, p, v, i, call[c].event)
            BY <2>5 DEF Moves
        <3>2. UNCHANGED marker
            BY <2>5 DEF Moves, Quiet
        <3>3. /\ call'[c].pc = p /\ call'[c].ver = v /\ call'[c].id = i
              /\ Key(c)' = Key(c)
            BY <3>1, GoesOnFacts
        <3>4. CASE /\ v = call[c].ver /\ i = marker[Key(c)].id /\ At(c, "check")
                   /\ marker[Key(c)].status = "InProgress" /\ marker[Key(c)].stale
            BY <2>1, <3>2, <3>3, <3>4
        <3>5. CASE /\ v = call[c].ver /\ i = call[c].id /\ call[c].pc \in Owned
                   /\ p = "takeover" => At(c, "recover")
                   /\ p # "recover"
            <4>1. Knows(c)
                BY <1>0
            <4>2. Knows(c)'
                BY <3>2, <3>3, <3>5, <4>1 DEF At
            <4> QED  BY <2>1, <3>2, <4>2
        <3>6. CASE p \notin Owned
            BY <2>1, <3>2, <3>3, <3>6
        <3>7. \/ /\ v = call[c].ver /\ i = marker[Key(c)].id /\ At(c, "check")
                 /\ marker[Key(c)].status = "InProgress" /\ marker[Key(c)].stale
              \/ /\ v = call[c].ver /\ i = call[c].id /\ call[c].pc \in Owned
                 /\ p = "takeover" => At(c, "recover")
                 /\ p # "recover"
              \/ p \notin Owned
            BY <3>1 DEF Edge, At, Owned
        <3> QED  BY <3>4, <3>5, <3>6, <3>7
    <2>6. CASE Claims(c) \/ Takes(c)
        <3>1. PICK m : /\ Puts(c, m) /\ m.status = "InProgress" /\ m.id = call[c].id
            BY <2>6 DEF Claims, Takes
        <3>2. GoesOn(c, "reserve", lastVer + 1, call[c].id, call[c].event)
            BY <2>6 DEF Claims, Takes
        <3>4. /\ call'[c].pc = "reserve" /\ call'[c].id = call[c].id /\ Key(c)' = Key(c)
            BY <3>2, GoesOnFacts
        <3>5. Key(c) \in Keys
            BY <3>1 DEF Puts
        <3>6. marker'[Key(c)] = m
            BY <3>1, <3>5, NewVersion
        <3>3. Knows(c)'
            BY <3>1, <3>4, <3>6
        <3> QED  BY <2>2, <3>1, <3>3
    <2>7. CASE Reserves(c)
        <3>1. CASE Key(c) = NoKey /\ UNCHANGED <<marker, lastVer>>
                   /\ GoesOn(c, "lookup", call[c].ver, lastId + 1, call[c].event)
            BY <2>1, <3>1, GoesOnFacts
        <3>2. ASSUME NEW m, Puts(c, m), m.status = "InProgress", m.id = lastId + 1,
                     GoesOn(c, "lookup", lastVer + 1, lastId + 1, call[c].event)
              PROVE  \A d \in Calls : Knows(d)'
            <4>0. /\ call'[c].pc = "lookup" /\ call'[c].id = lastId + 1 /\ Key(c)' = Key(c)
                BY <3>2, GoesOnFacts
            <4>2. Key(c) \in Keys
                BY <3>2 DEF Puts
            <4>3. marker'[Key(c)] = m
                BY <3>2, <4>2, NewVersion
            <4>1. Knows(c)'
                BY <3>2, <4>0, <4>3
            <4> QED  BY <2>2, <3>2, <4>1
        <3> QED  BY <2>7, <3>1, <3>2 DEF Reserves
    <2>8. CASE Appends(c) \/ Compacts(c)
        <3>1. /\ UNCHANGED marker /\ call[c].pc \in Owned
              /\ call'[c].pc \notin {"recover", "takeover"}
              /\ call'[c].ver = call[c].ver /\ call'[c].id = call[c].id /\ Key(c)' = Key(c)
            BY <2>8, GoesOnFacts DEF Appends, Compacts, At, Owned
        <3>2. Knows(c)'
            BY <1>0, <3>1
        <3> QED  BY <2>1, <3>1, <3>2
    <2> QED  BY <1>2, <2>3, <2>4, <2>5, <2>6, <2>7, <2>8, CallKinds
<1>3. CASE UNCHANGED <<marker, call>>
    BY <1>0, <1>3 DEF Key
<1>4. ASSUME NEW k \in Keys, MarkerAges(k)
      PROVE  \A d \in Calls : Knows(d)'
    <2>1. UNCHANGED call /\ marker[k] \in MarkerRecords /\ marker \in [Keys -> MarkerRecords]
        BY <1>4, MarkerFacts DEF MarkerAges
    <2>2. \A j \in Keys : /\ marker'[j].status = marker[j].status
                          /\ marker'[j].id = marker[j].id
                          /\ marker'[j].ver = marker[j].ver
                          /\ marker[j].stale => marker'[j].stale
        <3> DEFINE m == [marker[k] EXCEPT !.stale = TRUE]
        <3>1. /\ m.status = marker[k].status /\ m.id = marker[k].id /\ m.ver = marker[k].ver
              /\ m.stale = TRUE
            BY <2>1 DEF MarkerRecords
        <3>2. marker' = [marker EXCEPT ![k] = m]
            BY <1>4 DEF MarkerAges
        <3> HIDE DEF m
        <3>3. \A j \in Keys : marker'[j] = IF j = k THEN m ELSE marker[j]
            BY <2>1, <3>2
        <3> QED  BY <3>1, <3>3
    <2>3. \A d \in Calls : Key(d) \in Keys \cup {NoKey} /\ Key(d)' = Key(d)
        BY <2>1, BaseFacts DEF Key
    <2> QED  BY <1>0, <2>1, <2>2, <2>3
<1>5. OtherStep => UNCHANGED <<marker, call>> \/ \E k \in Keys : MarkerAges(k)
    BY DEF OtherStep, ApplyLate, Refuse, Delete
<1> QED  BY <1>2, <1>3, <1>4, <1>5, NextSteps DEF vars

----------------------------------------------------------------------------
(* Who holds which id.                                                     *)
LEMMA InHolders ==
    /\ created \subseteq Holders
    /\ \A e \in ledger : Holder(e.id, e.key) \in Holders
    /\ \A c \in Calls : call[c].id # 0 => Holder(call[c].id, Key(c)) \in Holders
    /\ \A k \in Keys : marker[k].id # 0 => Holder(marker[k].id, k) \in Holders
    BY DEF Holders

LEMMA HoldersWithin ==
    ASSUME NEW S,
           created' \subseteq S,
           \A e \in ledger' : Holder(e.id, e.key) \in S,
           \A c \in Calls : call'[c].id # 0 => Holder(call'[c].id, Key(c)') \in S,
           \A k \in Keys : marker'[k].id # 0 => Holder(marker'[k].id, k) \in S
    PROVE  Holders' \subseteq S
    BY DEF Holders

(* An event that is applied leaves its holder in what was created.         *)
LEMMA ApplyHolders ==
    ASSUME Base, NEW e \in ledger, Apply(e)
    PROVE  /\ created' = created \cup {Holder(e.id, e.key)} /\ ledger' \subseteq ledger
           /\ created' \subseteq Holders
    BY InHolders DEF Apply, Holder

(* Only reserving an id makes a new holder.                                *)
LEMMA HoldersNext ==
    ASSUME Base, VersionInv, NEW c \in Calls, CallStep(c)
    PROVE  \/ Holders' \subseteq Holders
           \/ Reserves(c) /\ Holders' \subseteq Holders \cup {Holder(lastId + 1, Key(c))}
<1>0. \A d \in Calls \ {c} : call'[d] = call[d] /\ Key(d)' = Key(d)
    BY CallLimits DEF Key
<1>1. ASSUME NEW S, Holders \subseteq S, created' \subseteq S,
             \A e \in ledger' : Holder(e.id, e.key) \in S,
             call'[c].id # 0 => Holder(call'[c].id, Key(c)') \in S,
             \/ UNCHANGED marker
             \/ \E m : Puts(c, m) /\ (m.id # 0 => Holder(m.id, Key(c)) \in S)
      PROVE  Holders' \subseteq S
    <2>1. \A d \in Calls : call'[d].id # 0 => Holder(call'[d].id, Key(d)') \in S
        BY <1>0, <1>1, InHolders
    <2>2. \A k \in Keys : marker'[k].id # 0 => Holder(marker'[k].id, k) \in S
        <3>1. CASE UNCHANGED marker
            BY <1>1, <3>1, InHolders
        <3>2. ASSUME NEW m, Puts(c, m), m.id # 0 => Holder(m.id, Key(c)) \in S
              PROVE  \A k \in Keys : marker'[k].id # 0 => Holder(marker'[k].id, k) \in S
            BY <1>1, <3>2, NewVersion, InHolders
        <3> QED  BY <1>1, <3>1, <3>2
    <2> QED  BY <1>1, <2>1, <2>2, HoldersWithin
<1>2. ASSUME UNCHANGED <<created, ledger>>
      PROVE  created' \subseteq Holders /\ \A e \in ledger' : Holder(e.id, e.key) \in Holders
    BY <1>2, InHolders
<1>3. CASE \E r \in Requests : Begin(c, r)
    <2>1. PICK r \in Requests : Begin(c, r)
        BY <1>3
    <2>2. call'[c].id = 0 /\ UNCHANGED <<created, ledger, marker>>
        BY <2>1, CallBegins DEF Begin
    <2> QED  BY <1>1, <1>2, <2>2
<1>4. CASE (Answer(c) /\ Quiet) \/ Wastes(c)
    <2>1. call'[c].id = 0 /\ UNCHANGED <<created, ledger, marker>>
        BY <1>4, AnswerFacts DEF Wastes, Quiet, Rest
    <2> QED  BY <1>1, <1>2, <2>1
<1>5. CASE Moves(c)
    <2>1. PICK p \in Pcs, v \in Nat, i \in Nat :
            Edge(c, p, v, i) /\ GoesOn(c, p, v, i, call[c].event)
        BY <1>5 DEF Moves
    <2>2. call'[c].id = i /\ Key(c)' = Key(c)
        BY <2>1, GoesOnFacts
    <2>3. i = call[c].id \/ (i = marker[Key(c)].id /\ At(c, "check"))
        BY <2>1 DEF Edge
    <2>4. At(c, "check") => Key(c) \in Keys
        BY KeyedCall DEF At
    <2>5. i # 0 => Holder(i, Key(c)) \in Holders
        BY <2>3, <2>4, InHolders
    <2>6. UNCHANGED <<created, ledger, marker>>
        BY <1>5 DEF Moves, Quiet, Rest
    <2> QED  BY <1>1, <1>2, <2>2, <2>5, <2>6
<1>6. CASE Claims(c) \/ Takes(c)
    <2>1. PICK m : Puts(c, m) /\ m.id = call[c].id
        BY <1>6 DEF Claims, Takes
    <2>2. GoesOn(c, "reserve", lastVer + 1, call[c].id, call[c].event)
        BY <1>6 DEF Claims, Takes
    <2>3. call'[c].id = call[c].id /\ Key(c)' = Key(c)
        BY <2>2, GoesOnFacts
    <2>4. UNCHANGED <<created, ledger>>
        BY <1>6 DEF Claims, Takes, Rest
    <2>5. call[c].id # 0 => Holder(call[c].id, Key(c)) \in Holders
        BY InHolders
    <2> QED  BY <1>1, <1>2, <2>1, <2>3, <2>4, <2>5
<1>7. CASE Finalizes(c)
    <2>1. PICK m : Puts(c, m) /\ m.id \in {0, call[c].id}
        BY <1>7 DEF Finalizes
    <2>2. call'[c].id = 0 /\ UNCHANGED <<created, ledger>>
        BY <1>7, AnswerFacts DEF Finalizes, Rest
    <2>3. m.id # 0 => Holder(m.id, Key(c)) \in Holders
        BY <2>1, InHolders
    <2> QED  BY <1>1, <1>2, <2>1, <2>2, <2>3
<1>8. CASE Reserves(c)
    <2> DEFINE S == Holders \cup {Holder(lastId + 1, Key(c))}
    <2>1. UNCHANGED <<created, ledger>>
        BY <1>8 DEF Reserves
    <2>2. call'[c].id = lastId + 1 /\ Key(c)' = Key(c)
        BY <1>8, GoesOnFacts DEF Reserves
    <2>3. \/ UNCHANGED marker
          \/ \E m : Puts(c, m) /\ m.id = lastId + 1
        BY <1>8 DEF Reserves
    <2>4. Holders \subseteq S /\ Holder(lastId + 1, Key(c)) \in S
        OBVIOUS
    <2> HIDE DEF S
    <2>5. Holders' \subseteq S
        BY <1>1, <1>2, <2>1, <2>2, <2>3, <2>4
    <2> QED  BY <1>8, <2>5 DEF S
<1>9. CASE Appends(c)
    <2> DEFINE e == [id |-> call[c].id, name |-> Name(c), key |-> Key(c),
                     n |-> lastVer + 1]
    <2>1. /\ ledger' = ledger \cup {e} /\ UNCHANGED <<created, marker>>
          /\ GoesOn(c, "compact", call[c].ver, call[c].id, lastVer + 1)
        BY <1>9 DEF Appends
    <2>2. call[c].id # 0
        BY <1>9 DEF Appends, Base, CallInv, At, HasId
    <2>3. e.id = call[c].id /\ e.key = Key(c)
        OBVIOUS
    <2> HIDE DEF e
    <2>4. created' \subseteq Holders /\ \A x \in ledger' : Holder(x.id, x.key) \in Holders
        BY <2>1, <2>2, <2>3, InHolders
    <2>5. call'[c].id = call[c].id /\ Key(c)' = Key(c)
        BY <2>1, GoesOnFacts
    <2> QED  BY <1>1, <2>1, <2>4, <2>5, InHolders
<1>10. CASE Compacts(c)
    <2>1. PICK e \in ledger : Apply(e)
        BY <1>10 DEF Compacts
    <2>2. created' \subseteq Holders /\ ledger' \subseteq ledger
        BY <2>1, ApplyHolders
    <2>3. /\ GoesOn(c, "commit", call[c].ver, call[c].id, call[c].event)
          /\ UNCHANGED marker
        BY <1>10 DEF Compacts
    <2>4. call'[c].id = call[c].id /\ Key(c)' = Key(c)
        BY <2>3, GoesOnFacts
    <2> QED  BY <1>1, <2>2, <2>3, <2>4, InHolders
<1> QED  BY <1>3, <1>4, <1>5, <1>6, <1>7, <1>8, <1>9, <1>10, CallKinds

(* With no new holder only the marker that changes is of interest.         *)
LEMMA HolderKept ==
    ASSUME HolderInv, Holders' \subseteq Holders, lastId \in Nat, lastId' \in Nat,
           lastId' >= lastId,
           \A k \in Keys : marker'[k].status = "Absent" => marker'[k].id = 0,
           \A h \in Holders : h.key \in Keys =>
             marker'[h.key].id # 0 \/ marker'[h.key].status = "Failed"
    PROVE  HolderInv'
<1>1. \A h \in Holders' : h.id \in 1 .. lastId'
    BY DEF HolderInv
<1>2. \A h, g \in Holders' : h.id = g.id => h.key = g.key
    BY DEF HolderInv
<1>3. \A h, g \in Holders' : h.key = g.key /\ h.key \in Keys => h.id = g.id
    BY DEF HolderInv
<1> QED  BY <1>1, <1>2, <1>3 DEF HolderInv

LEMMA HolderCall ==
    ASSUME Base, VersionInv, HolderInv, NEW c \in Calls, CallStep(c)
    PROVE  HolderInv'
<1>0. /\ lastId \in Nat /\ lastVer \in Nat /\ NoKey \notin Keys
      /\ Key(c) \in Keys \cup {NoKey}
    BY BaseFacts
<1>1. /\ \A h \in Holders : h.id \in 1 .. lastId
      /\ \A k \in Keys : marker[k].status = "Absent" => marker[k].id = 0
      /\ \A h \in Holders : h.key \in Keys =>
           marker[h.key].id # 0 \/ marker[h.key].status = "Failed"
    BY DEF HolderInv
<1>2. lastId' \in Nat /\ lastId' >= lastId
    <2>1. lastId' \in {lastId, lastId + 1}
        BY CallKinds DEF Begin, Quiet, Rest, Moves, Claims, Takes, Finalizes,
            Reserves, Wastes, Appends, Compacts
    <2> QED  BY <1>0, <2>1
<1>3. ASSUME ~Reserves(c), UNCHANGED marker
      PROVE  HolderInv'
    <2>1. Holders' \subseteq Holders
        BY <1>3, HoldersNext
    <2> QED  BY <1>0, <1>1, <1>2, <1>3, <2>1, HolderKept
<1>4. ASSUME NEW m, Puts(c, m), m.status # "Absent", ~Reserves(c),
             \A h \in Holders : h.key = Key(c) => m.id # 0 \/ m.status = "Failed"
      PROVE  HolderInv'
    <2>1. Holders' \subseteq Holders
        BY <1>4, HoldersNext
    <2>2. \A k \in Keys : marker'[k] = IF k = Key(c) THEN m ELSE marker[k]
        BY <1>4, NewVersion
    <2>3. \A k \in Keys : marker'[k].status = "Absent" => marker'[k].id = 0
        BY <1>1, <1>4, <2>2
    <2>4. \A h \in Holders : h.key \in Keys =>
             marker'[h.key].id # 0 \/ marker'[h.key].status = "Failed"
        BY <1>1, <1>4, <2>2
    <2> QED  BY <1>0, <1>2, <2>1, <2>3, <2>4, HolderKept
<1>5. CASE Reserves(c)
    <2> DEFINE g == Holder(lastId + 1, Key(c))
    <2>0. /\ Holders' \subseteq Holders \cup {g} /\ lastId' = lastId + 1
          /\ g.id = lastId + 1 /\ g.key = Key(c)
        BY <1>5, HoldersNext DEF Reserves, Holder
    <2>1. /\ \A k \in Keys : marker'[k].status = "Absent" => marker'[k].id = 0
          /\ \A h \in Holders : h.key \in Keys => h.key # Key(c)
          /\ \A k \in Keys : k = Key(c) => marker'[k].id # 0
          /\ \A k \in Keys : k # Key(c) => marker'[k] = marker[k]
        <3>1. CASE Key(c) = NoKey /\ UNCHANGED marker
            BY <1>0, <1>1, <3>1
        <3>2. CASE Matches(c) /\ \E m : /\ Puts(c, m) /\ m.status = "InProgress"
                                        /\ m.id = lastId + 1
            <4>1. PICK m : Puts(c, m) /\ m.status = "InProgress" /\ m.id = lastId + 1
                BY <3>2
            <4>2. /\ \A k \in Keys : marker'[k] = IF k = Key(c) THEN m ELSE marker[k]
                  /\ Key(c) \in Keys
                BY <4>1, NewVersion DEF Puts
            <4>3. marker[Key(c)].status = "InProgress" /\ marker[Key(c)].id = 0
                BY <1>0, <1>5, <3>2, <4>2 DEF VersionInv, Reserves, At, Matches, Owned
            <4>4. m.id # 0
                BY <1>0, <4>1
            <4> QED  BY <1>1, <4>1, <4>2, <4>3, <4>4
        <3> QED  BY <1>5, <3>1, <3>2 DEF Reserves
    <2> HIDE DEF g
    <2>2. \A h \in Holders' : h.id \in 1 .. lastId'
        BY <1>0, <1>1, <2>0
    <2>3. \A h \in Holders : h.id # g.id /\ (h.key \in Keys => h.key # g.key)
        BY <1>0, <1>1, <2>0, <2>1
    <2>4. \A h, f \in Holders' : h.id = f.id => h.key = f.key
        BY <2>0, <2>3 DEF HolderInv
    <2>5. \A h, f \in Holders' : h.key = f.key /\ h.key \in Keys => h.id = f.id
        BY <2>0, <2>3 DEF HolderInv
    <2>6. \A h \in Holders' : h.key \in Keys =>
             marker'[h.key].id # 0 \/ marker'[h.key].status = "Failed"
        BY <1>1, <2>0, <2>1
    <2> QED  BY <2>1, <2>2, <2>4, <2>5, <2>6 DEF HolderInv
<1>6. CASE \/ \E r \in Requests : Begin(c, r)
           \/ Answer(c) /\ Quiet
           \/ Moves(c) \/ Appends(c) \/ Compacts(c) \/ Wastes(c)
    <2>1. UNCHANGED marker
        BY <1>6 DEF Begin, Quiet, Moves, Appends, Compacts, Wastes
    <2> QED  BY <1>3, <1>5, <2>1
<1>7. CASE Claims(c)
    <2>1. PICK m : Puts(c, m) /\ m.status = "InProgress"
        BY <1>7 DEF Claims
    <2>2. Key(c) \in Keys /\ marker[Key(c)].status = "Absent"
        BY <1>7, <2>1 DEF Puts, Claims
    <2>3. \A h \in Holders : h.key # Key(c)
        BY <1>1, <2>2
    <2> QED  BY <1>4, <1>5, <2>1, <2>3
<1>8. CASE Takes(c)
    <2>1. PICK m : Puts(c, m) /\ m.status = "InProgress" /\ m.id = call[c].id
        BY <1>8 DEF Takes
    <2>2. Key(c) \in Keys /\ Matches(c) /\ call[c].pc \in Owned
        BY <1>8, <2>1 DEF Puts, Takes, At, Owned
    <2>3. marker[Key(c)].status = "InProgress" /\ marker[Key(c)].id = m.id
        BY <1>0, <2>1, <2>2 DEF VersionInv, Matches
    <2>4. \A h \in Holders : h.key = Key(c) => m.id # 0
        BY <1>1, <2>2, <2>3
    <2> QED  BY <1>4, <1>5, <2>1, <2>4
<1>9. CASE Finalizes(c)
    <2>1. PICK m : /\ Puts(c, m)
                   /\ \/ At(c, "commit") /\ m.status = "Committed" /\ m.id = call[c].id
                      \/ At(c, "fail") /\ m.status = "Failed" /\ m.id = 0
        BY <1>9 DEF Finalizes
    <2>2. At(c, "commit") => call[c].id # 0
        BY DEF Base, CallInv, At, HasId
    <2>3. m.id # 0 \/ m.status = "Failed"
        BY <2>1, <2>2
    <2> QED  BY <1>4, <1>5, <2>1, <2>3
<1> QED  BY <1>5, <1>6, <1>7, <1>8, <1>9, CallKinds

(* The steps that no call takes.                                           *)
LEMMA OtherKinds ==
    ASSUME OtherStep
    PROVE  /\ UNCHANGED <<call, lastId, lastVer>>
           /\ \/ UNCHANGED marker /\ \E e \in ledger : Apply(e)
              \/ UNCHANGED <<marker, visible, created>> /\ \E e \in ledger : Refuse(e)
              \/ UNCHANGED <<marker, ledger, created>> /\ \E n \in Names : Delete(n)
              \/ UNCHANGED <<visible, ledger, created>> /\ \E k \in Keys : MarkerAges(k)
    BY DEF OtherStep, ApplyLate, Refuse, Delete, MarkerAges

LEMMA MarkerGrowsOld ==
    ASSUME Base, NEW k \in Keys, MarkerAges(k)
    PROVE  /\ \A j \in Keys \ {k} : marker'[j] = marker[j]
           /\ \A j \in Keys : /\ marker'[j].status = marker[j].status
                              /\ marker'[j].id = marker[j].id
                              /\ marker'[j].ver = marker[j].ver
                              /\ marker'[j].name = marker[j].name
           /\ marker'[k].stale = TRUE
<1>1. marker \in [Keys -> MarkerRecords] /\ marker[k] \in MarkerRecords
    BY MarkerFacts
<1> DEFINE m == [marker[k] EXCEPT !.stale = TRUE]
<1>2. /\ m.status = marker[k].status /\ m.id = marker[k].id /\ m.ver = marker[k].ver
      /\ m.name = marker[k].name /\ m.stale = TRUE
    BY <1>1 DEF MarkerRecords
<1>3. marker' = [marker EXCEPT ![k] = m]
    BY DEF MarkerAges
<1> HIDE DEF m
<1>4. \A j \in Keys : marker'[j] = IF j = k THEN m ELSE marker[j]
    BY <1>1, <1>3
<1> QED  BY <1>2, <1>4

LEMMA HolderNext ==
    ASSUME Base, VersionInv, HolderInv, [Next]_vars
    PROVE  HolderInv'
<1>1. CASE \E c \in Calls : CallStep(c)
    BY <1>1, HolderCall
<1>2. CASE OtherStep \/ UNCHANGED vars
    <2>0. /\ UNCHANGED <<call, lastId>> /\ lastId \in Nat /\ lastId >= lastId
          /\ \A d \in Calls : Key(d)' = Key(d)
        <3>1. UNCHANGED <<call, lastId>>
            BY <1>2, OtherKinds DEF vars
        <3>2. lastId \in Nat
            BY RequestAssumption DEF Base, TypeOK, Ids
        <3> QED  BY <3>1, <3>2 DEF Key
    <2>1. created' \subseteq Holders /\ ledger' \subseteq ledger
        BY <1>2, OtherKinds, ApplyHolders, InHolders DEF vars, Refuse
    <2>2. \A k \in Keys : /\ marker'[k].status = marker[k].status
                          /\ marker'[k].id = marker[k].id
        BY <1>2, OtherKinds, MarkerGrowsOld DEF vars
    <2>3. Holders' \subseteq Holders
        BY <2>0, <2>1, <2>2, InHolders, HoldersWithin
    <2>4. /\ \A k \in Keys : marker'[k].status = "Absent" => marker'[k].id = 0
          /\ \A h \in Holders : h.key \in Keys =>
               marker'[h.key].id # 0 \/ marker'[h.key].status = "Failed"
        BY <2>2 DEF HolderInv
    <2> QED  BY <2>0, <2>3, <2>4, HolderKept
<1> QED  BY <1>1, <1>2, NextSteps

----------------------------------------------------------------------------
(* What was created.                                                       *)
CompactOK(c) ==
    /\ At(c, "commit") => Holder(call[c].id, Key(c)) \in created
    /\ At(c, "compact") =>
         /\ \A e \in ledger : e.n = call[c].event => e.id = call[c].id /\ e.key = Key(c)
         /\ (\A e \in ledger : e.n # call[c].event)
              => Holder(call[c].id, Key(c)) \in created

LEMMA CreatedForm ==
    CreatedInv <=>
      /\ \A n \in Names : visible[n] # 0 => \E h \in created : h.id = visible[n]
      /\ \A c \in Calls : CompactOK(c)
      /\ \A k \in Keys : marker[k].status = "Committed" => Holder(marker[k].id, k) \in created
    BY DEF CreatedInv, CompactOK

(* An event that is applied makes the calls that wait for it succeed.      *)
LEMMA ApplyCreated ==
    ASSUME Base, CreatedInv, NEW e \in ledger, Apply(e), UNCHANGED marker,
           NEW D \in SUBSET Calls,
           \A d \in D : call'[d] = call[d]
    PROVE  /\ \A n \in Names : visible'[n] # 0 => \E h \in created' : h.id = visible'[n]
           /\ \A d \in D : CompactOK(d)'
           /\ \A k \in Keys : marker'[k].status = "Committed"
                                => Holder(marker'[k].id, k) \in created'
           /\ \A d \in Calls : At(d, "compact") /\ e.n = call[d].event
                => Holder(call[d].id, Key(d)) \in created'
<1>0. /\ \A n \in Names : visible[n] # 0 => \E h \in created : h.id = visible[n]
      /\ \A d \in Calls : CompactOK(d)
      /\ \A k \in Keys : marker[k].status = "Committed" => Holder(marker[k].id, k) \in created
    BY CreatedForm
<1>1. /\ created' = created \cup {Holder(e.id, e.key)} /\ ledger' = ledger \ {e}
      /\ visible' = [visible EXCEPT ![e.name] = e.id] /\ visible \in [Names -> Ids]
    BY ApplyHolders DEF Apply, Base, TypeOK
<1>2. \A n \in Names : visible'[n] # 0 => \E h \in created' : h.id = visible'[n]
    <2>1. Holder(e.id, e.key).id = e.id
        BY DEF Holder
    <2> QED  BY <1>0, <1>1, <2>1
<1>3. \A d \in Calls : At(d, "compact") /\ e.n = call[d].event
        => Holder(call[d].id, Key(d)) \in created'
    BY <1>0, <1>1 DEF CompactOK
<1>4. \A d \in D : CompactOK(d)'
    <2>1. TAKE d \in D
    <2>2. /\ call'[d] = call[d] /\ Key(d)' = Key(d) /\ d \in Calls
          /\ At(d, "compact")' = At(d, "compact") /\ At(d, "commit")' = At(d, "commit")
        BY DEF Key, At
    <2>3. CASE At(d, "compact")
        <3>1. /\ \A x \in ledger : x.n = call[d].event => x.id = call[d].id /\ x.key = Key(d)
              /\ (\A x \in ledger : x.n # call[d].event)
                   => Holder(call[d].id, Key(d)) \in created
            BY <1>0, <2>2, <2>3 DEF CompactOK
        <3>2. ~At(d, "commit")
            BY <2>3 DEF At
        <3>3. (\A x \in ledger' : x.n # call[d].event)
                   => Holder(call[d].id, Key(d)) \in created'
            BY <1>1, <1>3, <2>2, <2>3, <3>1
        <3> QED  BY <1>1, <2>2, <3>1, <3>2, <3>3 DEF CompactOK
    <2>4. CASE ~At(d, "compact")
        BY <1>0, <1>1, <2>2, <2>4 DEF CompactOK
    <2> QED  BY <2>3, <2>4
<1> QED  BY <1>0, <1>1, <1>2, <1>3, <1>4

LEMMA CreatedCall ==
    ASSUME Base, HolderInv, CreatedInv, NEW c \in Calls, CallStep(c)
    PROVE  CreatedInv'
<1>0. /\ \A n \in Names : visible[n] # 0 => \E h \in created : h.id = visible[n]
      /\ \A d \in Calls : CompactOK(d)
      /\ \A k \in Keys : marker[k].status = "Committed" => Holder(marker[k].id, k) \in created
    BY CreatedForm
<1>1. \A d \in Calls \ {c} : call'[d] = call[d] /\ Key(d)' = Key(d)
    BY CallLimits DEF Key
<1>2. ASSUME UNCHANGED <<visible, ledger, created>>, CompactOK(c)',
             \/ UNCHANGED marker
             \/ \E m : /\ Puts(c, m)
                       /\ m.status = "Committed" => Holder(m.id, Key(c)) \in created
      PROVE  CreatedInv'
    <2>1. \A d \in Calls : CompactOK(d)'
        BY <1>0, <1>1, <1>2 DEF CompactOK, At
    <2>2. \A k \in Keys : marker'[k].status = "Committed"
                            => Holder(marker'[k].id, k) \in created'
        <3>1. CASE UNCHANGED marker
            BY <1>0, <1>2, <3>1
        <3>2. ASSUME NEW m, Puts(c, m),
                     m.status = "Committed" => Holder(m.id, Key(c)) \in created
              PROVE  \A k \in Keys : marker'[k].status = "Committed"
                            => Holder(marker'[k].id, k) \in created'
            BY <1>0, <1>2, <3>2, NewVersion
        <3> QED  BY <1>2, <3>1, <3>2
    <2>3. \A n \in Names : visible'[n] # 0 => \E h \in created' : h.id = visible'[n]
        BY <1>0, <1>2
    <2> QED  BY <2>1, <2>2, <2>3 DEF CreatedInv, CompactOK
<1>3. ASSUME call'[c].pc \notin {"compact", "commit"}
      PROVE  CompactOK(c)'
    BY <1>3 DEF CompactOK, At
<1>4. CASE \/ \E r \in Requests : Begin(c, r)
           \/ (Answer(c) /\ Quiet) \/ Wastes(c)
    <2>1. /\ UNCHANGED <<marker, visible, ledger, created>>
          /\ call'[c].pc \notin {"compact", "commit"}
        BY <1>4, CallBegins, AnswerFacts DEF Begin, Quiet, Rest, Wastes
    <2> QED  BY <1>2, <1>3, <2>1
<1>5. CASE Moves(c)
    <2>1. PICK p \in Pcs, v \in Nat, i \in Nat :
            Edge(c, p, v, i) /\ GoesOn(c, p, v, i, call[c].event)
        BY <1>5 DEF Moves
    <2>2. UNCHANGED <<marker, visible, ledger, created>>
        BY <1>5 DEF Moves, Quiet, Rest
    <2>3. /\ call'[c].pc = p /\ call'[c].id = i /\ Key(c)' = Key(c)
        BY <2>1, GoesOnFacts
    <2>4. CASE At(c, "recover") /\ p = "commit" /\ visible[Name(c)] = i
        <3>1. i = call[c].id
            BY <2>1, <2>4 DEF Edge, At
        <3>2. call[c].id # 0 /\ Name(c) \in Names
            BY <2>4 DEF Base, CallInv, At, HasId
        <3>3. PICK h \in created : h.id = call[c].id
            BY <1>0, <2>4, <3>1, <3>2
        <3>4. h \in Holders /\ Holder(call[c].id, Key(c)) \in Holders
            BY <3>2, <3>3, InHolders
        <3>5. h \in [id : Ids \ {0}, key : Keys \cup {NoKey}]
            BY DEF Base, TypeOK
        <3>6. h.key = Key(c)
            <4>1. Holder(call[c].id, Key(c)).id = h.id /\ Holder(call[c].id, Key(c)).key = Key(c)
                BY <3>3 DEF Holder
            <4> QED  BY <3>4, <4>1 DEF HolderInv
        <3>7. h = Holder(call[c].id, Key(c))
            BY <3>3, <3>5, <3>6 DEF Holder
        <3>8. CompactOK(c)'
            BY <2>2, <2>3, <2>4, <3>1, <3>3, <3>7 DEF CompactOK, At
        <3> QED  BY <1>2, <2>2, <3>8
    <2>5. CASE At(c, "compact") /\ p = "commit" /\ \A e \in ledger : e.n # call[c].event
        <3>1. i = call[c].id
            BY <2>1, <2>5 DEF Edge, At
        <3>2. Holder(call[c].id, Key(c)) \in created
            BY <1>0, <2>5 DEF CompactOK
        <3>3. CompactOK(c)'
            BY <2>2, <2>3, <2>5, <3>1, <3>2 DEF CompactOK, At
        <3> QED  BY <1>2, <2>2, <3>3
    <2>6. CASE p \notin {"compact", "commit"}
        BY <1>2, <1>3, <2>2, <2>3, <2>6
    <2> QED  BY <2>1, <2>4, <2>5, <2>6 DEF Edge
<1>6. CASE Claims(c) \/ Takes(c)
    <2>1. PICK m : Puts(c, m) /\ m.status = "InProgress"
        BY <1>6 DEF Claims, Takes
    <2>2. /\ GoesOn(c, "reserve", lastVer + 1, call[c].id, call[c].event)
          /\ UNCHANGED <<visible, ledger, created>>
        BY <1>6 DEF Claims, Takes, Rest
    <2>3. call'[c].pc = "reserve"
        BY <2>2, GoesOnFacts
    <2> QED  BY <1>2, <1>3, <2>1, <2>2, <2>3
<1>7. CASE Finalizes(c)
    <2>1. PICK m : /\ Puts(c, m)
                   /\ \/ At(c, "commit") /\ m.status = "Committed" /\ m.id = call[c].id
                      \/ At(c, "fail") /\ m.status = "Failed" /\ m.id = 0
        BY <1>7 DEF Finalizes
    <2>2. call'[c].pc = "idle" /\ UNCHANGED <<visible, ledger, created>>
        BY <1>7, AnswerFacts DEF Finalizes, Rest
    <2>3. m.status = "Committed" => Holder(m.id, Key(c)) \in created
        BY <1>0, <2>1 DEF CompactOK
    <2> QED  BY <1>2, <1>3, <2>1, <2>2, <2>3
<1>8. CASE Reserves(c)
    <2>1. call'[c].pc = "lookup" /\ UNCHANGED <<visible, ledger, created>>
        BY <1>8, GoesOnFacts DEF Reserves
    <2>2. UNCHANGED marker \/ \E m : Puts(c, m) /\ m.status = "InProgress"
        BY <1>8 DEF Reserves
    <2> QED  BY <1>2, <1>3, <2>1, <2>2
<1>9. CASE Appends(c)
    <2> DEFINE e == [id |-> call[c].id, name |-> Name(c), key |-> Key(c),
                     n |-> lastVer + 1]
    <2>0. e.id = call[c].id /\ e.key = Key(c) /\ e.n = lastVer + 1
        OBVIOUS
    <2>1. /\ ledger' = ledger \cup {e} /\ UNCHANGED <<created, marker, visible>>
          /\ GoesOn(c, "compact", call[c].ver, call[c].id, lastVer + 1)
        BY <1>9 DEF Appends
    <2> HIDE DEF e
    <2>2. /\ call'[c].pc = "compact" /\ call'[c].id = call[c].id
          /\ call'[c].event = lastVer + 1 /\ Key(c)' = Key(c)
        BY <2>1, GoesOnFacts
    <2>3. \A x \in ledger : x.n # lastVer + 1
        <3>1. \A x \in ledger : x.n \in 1 .. lastVer
            BY DEF Base, TypeOK
        <3>2. lastVer \in Nat
            BY DEF Base, MarkerInv
        <3> QED  BY <3>1, <3>2
    <2>4. CompactOK(c)'
        BY <2>0, <2>1, <2>2, <2>3 DEF CompactOK, At
    <2>5. \A d \in Calls \ {c} : CompactOK(d)'
        <3>1. TAKE d \in Calls \ {c}
        <3>2. call[d].pc = "compact" => call[d].event # e.n
            <4>1. call[d].pc = "compact" => call[d].event \in 1 .. lastVer
                BY DEF Base, TypeOK
            <4>2. lastVer \in Nat
                BY DEF Base, MarkerInv
            <4> QED  BY <2>0, <4>1, <4>2
        <3> QED  BY <1>0, <1>1, <2>1, <3>2 DEF CompactOK, At
    <2>6. \A d \in Calls : CompactOK(d)'
        BY <2>4, <2>5
    <2>7. /\ \A n \in Names : visible'[n] # 0 => \E h \in created' : h.id = visible'[n]
          /\ \A k \in Keys : marker'[k].status = "Committed"
                            => Holder(marker'[k].id, k) \in created'
        BY <1>0, <2>1
    <2> QED  BY <2>6, <2>7 DEF CreatedInv, CompactOK
<1>10. CASE Compacts(c)
    <2>1. PICK e \in ledger : e.n = call[c].event /\ Apply(e)
        BY <1>10 DEF Compacts
    <2>2. /\ GoesOn(c, "commit", call[c].ver, call[c].id, call[c].event)
          /\ UNCHANGED marker /\ At(c, "compact")
        BY <1>10 DEF Compacts
    <2>3. call'[c].pc = "commit" /\ call'[c].id = call[c].id /\ Key(c)' = Key(c)
        BY <2>2, GoesOnFacts
    <2> DEFINE D == Calls \ {c}
    <2>4. D \in SUBSET Calls /\ \A d \in D : call'[d] = call[d]
        BY <1>1
    <2> HIDE DEF D
    <2>5. /\ \A n \in Names : visible'[n] # 0 => \E h \in created' : h.id = visible'[n]
          /\ \A d \in D : CompactOK(d)'
          /\ \A k \in Keys : marker'[k].status = "Committed"
                                => Holder(marker'[k].id, k) \in created'
          /\ Holder(call[c].id, Key(c)) \in created'
        BY <2>1, <2>2, <2>4, ApplyCreated
    <2>6. CompactOK(c)'
        BY <2>3, <2>5 DEF CompactOK, At
    <2>7. \A d \in Calls : CompactOK(d)'
        BY <2>5, <2>6 DEF D
    <2> QED  BY <2>5, <2>7 DEF CreatedInv, CompactOK
<1> QED  BY <1>4, <1>5, <1>6, <1>7, <1>8, <1>9, <1>10, CallKinds

LEMMA CreatedNext ==
    ASSUME Base, HolderInv, CreatedInv, [Next]_vars
    PROVE  CreatedInv'
<1>0. /\ \A n \in Names : visible[n] # 0 => \E h \in created : h.id = visible[n]
      /\ \A d \in Calls : CompactOK(d)
      /\ \A k \in Keys : marker[k].status = "Committed" => Holder(marker[k].id, k) \in created
    BY CreatedForm
<1>1. CASE \E c \in Calls : CallStep(c)
    BY <1>1, CreatedCall
<1>2. CASE UNCHANGED <<call, marker>> /\ \E e \in ledger : Apply(e)
    <2>1. PICK e \in ledger : Apply(e)
        BY <1>2
    <2>2. Calls \in SUBSET Calls /\ \A d \in Calls : call'[d] = call[d]
        BY <1>2
    <2>3. /\ \A n \in Names : visible'[n] # 0 => \E h \in created' : h.id = visible'[n]
          /\ \A d \in Calls : CompactOK(d)'
          /\ \A k \in Keys : marker'[k].status = "Committed"
                                => Holder(marker'[k].id, k) \in created'
        BY <1>2, <2>1, <2>2, ApplyCreated
    <2> QED  BY <2>3 DEF CreatedInv, CompactOK
<1>3. ASSUME UNCHANGED <<call, created>>,
             \A k \in Keys : /\ marker'[k].status = marker[k].status
                             /\ marker'[k].id = marker[k].id,
             \/ UNCHANGED ledger
             \/ \E e \in ledger : Refuse(e),
             \/ UNCHANGED visible
             \/ \E n \in Names : Delete(n)
      PROVE  CreatedInv'
    <2>1. \A d \in Calls : CompactOK(d)'
        <3>1. CASE UNCHANGED ledger
            BY <1>0, <1>3, <3>1 DEF CompactOK, At, Key
        <3>2. ASSUME NEW e \in ledger, Refuse(e)
              PROVE  \A d \in Calls : CompactOK(d)'
            <4>1. /\ \A d \in Calls : At(d, "compact") => call[d].event # e.n
                  /\ ledger' = ledger \ {e}
                BY <3>2 DEF Refuse
            <4>2. TAKE d \in Calls
            <4>3. call'[d] = call[d] /\ Key(d)' = Key(d)
                BY <1>3 DEF Key
            <4>4. At(d, "compact") =>
                    ((\A x \in ledger' : x.n # call[d].event)
                      => (\A x \in ledger : x.n # call[d].event))
                BY <4>1
            <4> QED  BY <1>0, <1>3, <4>1, <4>3, <4>4 DEF CompactOK, At
        <3> QED  BY <1>3, <3>1, <3>2
    <2>2. \A n \in Names : visible'[n] # 0 => visible'[n] = visible[n]
        <3>1. visible \in [Names -> Ids]
            BY DEF Base, TypeOK
        <3> QED  BY <1>3, <3>1 DEF Delete
    <2>3. \A n \in Names : visible'[n] # 0 => \E h \in created' : h.id = visible'[n]
        BY <1>0, <1>3, <2>2
    <2>4. \A k \in Keys : marker'[k].status = "Committed"
                                => Holder(marker'[k].id, k) \in created'
        BY <1>0, <1>3
    <2> QED  BY <2>1, <2>3, <2>4 DEF CreatedInv, CompactOK
<1>4. CASE OtherStep
    <2>1. CASE UNCHANGED <<visible, ledger, created>> /\ \E k \in Keys : MarkerAges(k)
        BY <1>3, <1>4, <2>1, OtherKinds, MarkerGrowsOld
    <2>2. CASE UNCHANGED <<marker, visible, created>> /\ \E e \in ledger : Refuse(e)
        BY <1>3, <1>4, <2>2, OtherKinds
    <2>3. CASE UNCHANGED <<marker, ledger, created>> /\ \E n \in Names : Delete(n)
        BY <1>3, <1>4, <2>3, OtherKinds
    <2> QED  BY <1>2, <1>4, <2>1, <2>2, <2>3, OtherKinds
<1>5. CASE UNCHANGED vars
    BY <1>3, <1>5 DEF vars
<1> QED  BY <1>1, <1>4, <1>5, NextSteps

IdsInv == Base /\ VersionInv /\ HolderInv /\ CreatedInv

LEMMA InitFacts ==
    ASSUME Init
    PROVE  /\ \A c \in Calls : /\ call[c].pc = "idle" /\ call[c].id = 0
                               /\ Key(c) = NoKey
           /\ \A k \in Keys : marker[k].status = "Absent" /\ marker[k].id = 0
           /\ \A n \in Names : visible[n] = 0
           /\ ledger = {} /\ created = {} /\ Holders = {}
<1>1. /\ \A c \in Calls : call[c].pc = "idle" /\ call[c].id = 0 /\ Key(c) = NoKey
      /\ \A k \in Keys : marker[k].status = "Absent" /\ marker[k].id = 0
      /\ \A n \in Names : visible[n] = 0
      /\ ledger = {} /\ created = {}
    BY DEF Init, Idle, NoMarker, Key
<1>2. Holders = {}
    BY <1>1 DEF Holders
<1> QED  BY <1>1, <1>2

LEMMA IdsInit == Init => IdsInv
<1> SUFFICES ASSUME Init PROVE IdsInv
    OBVIOUS
<1>1. VersionInv
    BY InitFacts DEF VersionInv, Owned
<1>2. HolderInv
    BY InitFacts DEF HolderInv
<1>3. CreatedInv
    BY InitFacts DEF CreatedInv, At
<1> QED  BY <1>1, <1>2, <1>3, BaseInit DEF IdsInv

LEMMA IdsNext == IdsInv /\ [Next]_vars => IdsInv'
    BY BaseNext, VersionNext, HolderNext, CreatedNext DEF IdsInv

(* One id per key: the marker, the calls, the ledger and the catalogs that *)
(* were ever visible agree on it.                                          *)
LEMMA OneOwn ==
    ASSUME IdsInv
    PROVE  KeyCreatesOne
<1>1. SUFFICES ASSUME NEW k \in Keys PROVE Cardinality(Own(k)) <= 1
    BY DEF KeyCreatesOne
<1>2. \A h, g \in created : h.key = k /\ g.key = k => h.id = g.id
    BY InHolders DEF IdsInv, HolderInv
<1>3. CASE Own(k) = {}
    BY <1>3, FS_EmptySet
<1>4. CASE Own(k) # {}
    <2>1. PICK h \in created : h.key = k
        BY <1>4 DEF Own
    <2>2. Own(k) = {h.id}
        BY <1>2, <2>1 DEF Own
    <2>3. Cardinality({h.id}) = 1
        BY FS_Singleton
    <2> QED  BY <2>2, <2>3
<1> QED  BY <1>3, <1>4

(* The inductive invariant of the entity ids.                              *)
THEOREM CatalogIds == Spec => []IdsInv
<1>1. Init => IdsInv
    BY IdsInit
<1>2. IdsInv /\ [Next]_vars => IdsInv'
    BY IdsNext
<1> QED  BY <1>1, <1>2, PTL DEF Spec

(* Calls with one key never create two catalogs, whatever owners of the    *)
(* marker are slow, die or race in reserve_idempotency_entity and          *)
(* takeover.                                                               *)
THEOREM KeyCreatesOneCatalog == Spec => []KeyCreatesOne
<1>1. IdsInv => KeyCreatesOne
    BY OneOwn
<1> QED  BY <1>1, CatalogIds, PTL

----------------------------------------------------------------------------
(* Events.                                                                 *)
LEMMA EventNext ==
    ASSUME Base, EventInv, [Next]_vars
    PROVE  EventInv'
<1>1. ASSUME ledger' \subseteq ledger PROVE EventInv'
    BY <1>1 DEF EventInv
<1>2. ASSUME NEW c \in Calls, CallStep(c) PROVE EventInv'
    <2>1. CASE Appends(c)
        <3>1. \A x \in ledger : x.n # lastVer + 1
            <4>1. \A x \in ledger : x.n \in 1 .. lastVer
                BY DEF Base, TypeOK
            <4>2. lastVer \in Nat
                BY DEF Base, MarkerInv
            <4> QED  BY <4>1, <4>2
        <3> DEFINE e == [id |-> call[c].id, name |-> Name(c), key |-> Key(c),
                         n |-> lastVer + 1]
        <3>2. ledger' = ledger \cup {e} /\ e.n = lastVer + 1
            BY <2>1 DEF Appends
        <3> HIDE DEF e
        <3> QED  BY <3>1, <3>2 DEF EventInv
    <2>2. CASE Compacts(c)
        BY <1>1, <2>2 DEF Compacts, Apply
    <2>3. Appends(c) \/ Compacts(c) \/ UNCHANGED ledger
        BY <1>2, CallKinds DEF Begin, Quiet, Rest, Moves, Claims, Takes, Finalizes,
            Reserves, Wastes
    <2> QED  BY <1>1, <2>1, <2>2, <2>3
<1>3. OtherStep \/ UNCHANGED vars => ledger' \subseteq ledger
    BY OtherKinds DEF vars, Apply, Refuse
<1> QED  BY <1>1, <1>2, <1>3, NextSteps

(* The catalogs of a key, and the holders they are.                        *)
LEMMA OwnFacts ==
    ASSUME Base, NEW k \in Keys
    PROVE  /\ \A i : i \in Own(k) => Holder(i, k) \in created /\ i # 0
           /\ Own(k) = {e.id : e \in {x \in created : x.key = k}}
<1>1. created \subseteq [id : Ids \ {0}, key : Keys \cup {NoKey}]
    BY DEF Base, TypeOK
<1>2. ASSUME NEW i \in Own(k) PROVE Holder(i, k) \in created /\ i # 0
    <2>1. PICK x \in created : x.key = k /\ x.id = i
        BY <1>2 DEF Own
    <2>2. x = Holder(i, k) /\ i # 0
        BY <1>1, <2>1 DEF Holder
    <2> QED  BY <2>1, <2>2
<1> QED  BY <1>2 DEF Own

(* A key whose marker names no entity and caches no failure has created    *)
(* nothing.                                                                *)
LEMMA NothingOwned ==
    ASSUME Base, HolderInv, NEW k \in Keys, marker[k].id = 0, marker[k].status # "Failed"
    PROVE  Own(k) = {}
<1>1. ASSUME NEW i \in Own(k) PROVE FALSE
    <2>1. Holder(i, k) \in Holders
        BY <1>1, OwnFacts, InHolders
    <2>2. Holder(i, k).key = k
        BY DEF Holder
    <2> QED  BY <2>1, <2>2 DEF HolderInv
<1> QED  BY <1>1

(* A marker that is not stale does not say so.                             *)
LEMMA NotStale == \A k \in Keys : marker[k].stale = FALSE => ~marker[k].stale
    BY Zenon

(* Whoever puts a marker is alone with its key.                            *)
Exclusive(c) ==
    Key(c) \in Prompt =>
      /\ \A d \in Calls \ {c} : Key(d) = Key(c) => call[d].pc \notin Working
      /\ \A e \in ledger : e.key # Key(c)

LEMMA PromptPuts ==
    ASSUME IdsInv, PromptInv, NEW c \in Calls, NEW m, Puts(c, m),
           UNCHANGED <<visible, ledger, created>>,
           \A d \in Calls \ {c} : call'[d] = call[d],
           Exclusive(c),
           \/ call'[c].pc = "idle" /\ Key(c)' = NoKey
           \/ /\ call'[c].pc \in Working /\ call'[c].req = call[c].req
              /\ call'[c].ver = m.ver
              /\ Key(c) \in Prompt => m.stale = FALSE /\ visible[Name(c)] \notin Own(Key(c))
    PROVE  PromptInv'
<1>0. /\ \A k \in Keys : marker'[k] = IF k = Key(c) THEN m ELSE marker[k]
      /\ \A d \in Calls : call[d].ver # m.ver
      /\ Key(c) \in Keys /\ NoKey \notin Keys /\ Prompt \subseteq Keys
    BY NewVersion, RequestAssumption DEF Puts, IdsInv
<1>1. \A d \in Calls \ {c} : Key(d)' = Key(d) /\ Name(d)' = Name(d)
    BY DEF Key, Name
<1>2. Key(c)' \in Prompt => /\ Key(c)' = Key(c) /\ Name(c)' = Name(c)
                            /\ call'[c].pc \in Working /\ call'[c].ver = m.ver
                            /\ m.stale = FALSE /\ visible[Name(c)] \notin Own(Key(c))
    BY <1>0 DEF Key, Name
<1>3. ASSUME NEW d \in Calls \ {c}, Key(d) = Key(c), Key(d) \in Prompt
      PROVE  ~Active(d)'
    <2>1. call'[d].pc \notin Working /\ call'[d].ver # marker'[Key(d)].ver
        BY <1>0, <1>3 DEF Exclusive
    <2> QED  BY <1>1, <2>1 DEF Active
<1>4. ASSUME NEW d \in Calls \ {c}, Key(d) # Key(c), Key(d) \in Prompt
      PROVE  marker'[Key(d)] = marker[Key(d)] /\ (Active(d)' <=> Active(d))
    <2>1. marker'[Key(d)] = marker[Key(d)] /\ call'[d] = call[d] /\ Key(d)' = Key(d)
        BY <1>0, <1>1, <1>4
    <2>2. Active(d)' <=> Active(d)
        BY <2>1 DEF Active, At
    <2> QED  BY <2>1, <2>2
<1>5. \A d \in Calls : Fenced(d)'
    <2>1. Fenced(c)'
        BY <1>0, <1>2 DEF Fenced
    <2>2. ASSUME NEW d \in Calls \ {c} PROVE Fenced(d)'
        <3>1. Fenced(d)
            BY DEF PromptInv
        <3>2. CASE Key(d) = Key(c)
            BY <1>1, <3>2 DEF Fenced, Exclusive
        <3>3. CASE Key(d) # Key(c)
            BY <1>0, <1>1, <3>1, <3>3 DEF Fenced
        <3> QED  BY <3>2, <3>3
    <2> QED  BY <2>1, <2>2
<1>6. \A d, f \in Calls : Alone(d, f)'
    <2>1. SUFFICES ASSUME NEW d \in Calls, NEW f \in Calls, Key(d)' \in Prompt,
                          Key(f)' = Key(d)', Active(d)', Active(f)', d # f
                   PROVE  FALSE
        BY DEF Alone
    <2>2. d # c /\ f # c
        BY <1>1, <1>2, <1>3, <2>1
    <2>3. Key(d) \in Prompt /\ Key(f) = Key(d) /\ Key(d) # Key(c)
        BY <1>1, <1>3, <2>1, <2>2
    <2>4. Active(d) /\ Active(f)
        BY <1>4, <2>1, <2>2, <2>3
    <2> QED  BY <2>1, <2>3, <2>4 DEF PromptInv, Alone
<1>7. \A e \in ledger' : Pending(e)'
    <2>1. SUFFICES ASSUME NEW e \in ledger, e.key \in Prompt
                   PROVE  Pending(e)'
        BY DEF Pending
    <2>2. Pending(e)
        BY DEF PromptInv
    <2>3. e.key # Key(c) /\ e.key \in Keys /\ marker'[e.key] = marker[e.key]
        BY <1>0, <2>1 DEF Exclusive
    <2>4. Key(c)' # e.key
        BY <1>2, <2>1, <2>3
    <2>5. \A d \in Calls : Key(d)' = e.key /\ Active(d)' =>
            At(d, "compact")' /\ e.n = call'[d].event
        <3>1. SUFFICES ASSUME NEW d \in Calls, Key(d)' = e.key, Active(d)'
                       PROVE  At(d, "compact")' /\ e.n = call'[d].event
            OBVIOUS
        <3>2. d # c
            BY <2>4, <3>1
        <3>3. Key(d) = e.key /\ Active(d) /\ call'[d] = call[d]
            BY <1>1, <1>4, <2>1, <2>3, <3>1, <3>2
        <3> QED  BY <2>1, <2>2, <3>3 DEF Pending, At
    <2> QED  BY <2>1, <2>2, <2>3, <2>5 DEF Pending
<1>8. \A d \in Calls : Untaken(d)'
    <2>2. Untaken(c)'
        BY <1>2 DEF Untaken, Own
    <2>3. ASSUME NEW d \in Calls \ {c} PROVE Untaken(d)'
        <3>1. Untaken(d) /\ Key(d)' = Key(d) /\ Name(d)' = Name(d) /\ call'[d] = call[d]
            BY <1>1 DEF PromptInv
        <3>2. CASE Key(d) = Key(c)
            BY <1>0, <3>1, <3>2 DEF Untaken
        <3>3. CASE Key(d) # Key(c)
            BY <1>0, <3>1, <3>3 DEF Untaken, Own
        <3> QED  BY <3>2, <3>3
    <2> QED  BY <2>2, <2>3
<1> QED  BY <1>5, <1>6, <1>7, <1>8 DEF PromptInv

(* A step of a call that leaves everything else as it is.                  *)
LEMMA PromptQuiet ==
    ASSUME IdsInv, PromptInv, NEW c \in Calls,
           UNCHANGED <<marker, visible, ledger, created>>,
           \A d \in Calls \ {c} : call'[d] = call[d],
           Key(c)' \in Prompt /\ call'[c].pc \in Working =>
             call'[c].ver = marker[Key(c)'].ver /\ marker[Key(c)'].stale = FALSE,
           Key(c)' \in Prompt /\ Active(c)' =>
             /\ Key(c)' = Key(c) /\ Active(c)
             /\ \/ At(c, "compact")' /\ call'[c].event = call[c].event
                \/ \A e \in ledger : e.key # Key(c),
           Key(c)' \in Prompt /\ call'[c].pc \in Clear
               /\ call'[c].ver = marker[Key(c)'].ver
             => visible[Name(c)'] \notin Own(Key(c)')
    PROVE  PromptInv'
<1>1. \A d \in Calls \ {c} : /\ Key(d)' = Key(d) /\ Name(d)' = Name(d)
                             /\ (Active(d)' <=> Active(d))
    <2>1. TAKE d \in Calls \ {c}
    <2>2. Key(d)' = Key(d) /\ Name(d)' = Name(d) /\ call'[d] = call[d]
        BY DEF Key, Name
    <2>3. Active(d)' <=> Active(d)
        BY <2>2 DEF Active, At
    <2> QED  BY <2>2, <2>3
<1>2. \A d \in Calls : Fenced(d)'
    <2>1. Fenced(c)'
        BY DEF Fenced
    <2>2. ASSUME NEW d \in Calls \ {c} PROVE Fenced(d)'
        BY <1>1 DEF PromptInv, Fenced
    <2> QED  BY <2>1, <2>2
<1>3. \A d, f \in Calls : Alone(d, f)'
    <2>1. SUFFICES ASSUME NEW d \in Calls, NEW f \in Calls, Key(d)' \in Prompt,
                          Key(f)' = Key(d)', Active(d)', Active(f)'
                   PROVE  d = f
        BY DEF Alone
    <2>2. Key(d)' = Key(d) /\ Active(d)
        BY <1>1, <2>1
    <2>3. Key(f)' = Key(f) /\ Active(f)
        BY <1>1, <2>1
    <2> QED  BY <2>1, <2>2, <2>3 DEF PromptInv, Alone
<1>4. \A e \in ledger' : Pending(e)'
    <2>1. SUFFICES ASSUME NEW e \in ledger, e.key \in Prompt
                   PROVE  Pending(e)'
        BY DEF Pending
    <2>2. Pending(e)
        BY DEF PromptInv
    <2>3. ASSUME NEW d \in Calls, Key(d)' = e.key, Active(d)'
          PROVE  At(d, "compact")' /\ e.n = call'[d].event
        <3>1. Key(d) = e.key /\ Active(d)
            BY <1>1, <2>1, <2>3
        <3>2. At(d, "compact") /\ e.n = call[d].event
            BY <2>1, <2>2, <3>1 DEF Pending
        <3>3. CASE d = c
            BY <2>1, <2>3, <3>1, <3>2, <3>3
        <3>4. CASE d # c
            BY <3>2, <3>4 DEF At
        <3> QED  BY <3>3, <3>4
    <2> QED  BY <2>1, <2>2, <2>3 DEF Pending
<1>5. \A d \in Calls : Untaken(d)'
    <2>1. Untaken(c)'
        BY DEF Untaken, Own
    <2>2. ASSUME NEW d \in Calls \ {c} PROVE Untaken(d)'
        <3>1. Untaken(d) /\ Key(d)' = Key(d) /\ Name(d)' = Name(d) /\ call'[d] = call[d]
            BY <1>1 DEF PromptInv
        <3> QED  BY <3>1 DEF Untaken, Own
    <2> QED  BY <2>1, <2>2
<1> QED  BY <1>2, <1>3, <1>4, <1>5 DEF PromptInv

(* The call appends its event: it is the only one of a prompt key.         *)
LEMMA PromptAppends ==
    ASSUME IdsInv, PromptInv, NEW c \in Calls, Appends(c)
    PROVE  PromptInv'
<1>e. PICK e : e = [id |-> call[c].id, name |-> Name(c), key |-> Key(c), n |-> lastVer + 1]
    OBVIOUS
<1>0. /\ ledger' = ledger \cup {e} /\ UNCHANGED <<created, marker, visible>>
      /\ At(c, "append") /\ e.key = Key(c) /\ e.n = lastVer + 1
      /\ GoesOn(c, "compact", call[c].ver, call[c].id, lastVer + 1)
    BY <1>e DEF Appends
<1>1. /\ \A d \in Calls \ {c} : call'[d] = call[d]
      /\ call'[c].pc = "compact" /\ call'[c].ver = call[c].ver
      /\ call'[c].event = lastVer + 1 /\ call'[c].req = call[c].req
    BY <1>0, GoesOnFacts DEF IdsInv
<1>2. \A d \in Calls : Key(d)' = Key(d) /\ Name(d)' = Name(d)
    BY <1>1 DEF Key, Name
<1>3. Active(c) /\ call[c].pc \in Working
    BY <1>0 DEF Active, Working, At
<1>4. \A d \in Calls : Active(d)' <=> Active(d)
    <2>1. Active(c)'
        BY <1>1 DEF Active, Working
    <2>2. ASSUME NEW d \in Calls \ {c} PROVE Active(d)' <=> Active(d)
        <3>1. call'[d] = call[d] /\ Key(d)' = Key(d) /\ UNCHANGED marker
            BY <1>0, <1>1, <1>2
        <3> QED  BY <3>1 DEF Active, At
    <2> QED  BY <1>3, <2>1, <2>2
<1>5. \A d \in Calls : Fenced(d)'
    <2>1. ASSUME NEW d \in Calls PROVE Fenced(d)'
        <3>1. Fenced(d)
            BY DEF PromptInv
        <3>2. call'[d].ver = call[d].ver /\ (call'[d].pc \in Working => call[d].pc \in Working)
            BY <1>1, <1>3
        <3> QED  BY <1>0, <1>2, <3>1, <3>2 DEF Fenced
    <2> QED  BY <2>1
<1>6. \A d, f \in Calls : Alone(d, f)'
    BY <1>2, <1>4 DEF Alone, PromptInv
<1>7. Pending(e)'
    <2>1. SUFFICES ASSUME Key(c) \in Prompt PROVE Pending(e)'
        BY <1>0 DEF Pending
    <2>2. Key(c) \in Keys /\ Key(c) # NoKey
        BY <2>1, RequestAssumption
    <2>3. call[c].ver = marker[Key(c)].ver /\ marker[Key(c)].stale = FALSE
        BY <1>3, <2>1 DEF PromptInv, Fenced
    <2>4. marker[Key(c)].status = "InProgress"
        BY <1>0, <2>2, <2>3 DEF IdsInv, VersionInv, Owned, At
    <2>5. ASSUME NEW d \in Calls, Key(d)' = Key(c), Active(d)'
          PROVE  At(d, "compact")' /\ lastVer + 1 = call'[d].event
        <3>1. d = c
            BY <1>2, <1>3, <1>4, <2>1, <2>5 DEF PromptInv, Alone
        <3> QED  BY <1>1, <3>1 DEF At
    <2> QED  BY <1>0, <2>3, <2>4, <2>5 DEF Pending
<1>8. \A x \in ledger : Pending(x)'
    <2>1. SUFFICES ASSUME NEW x \in ledger, x.key \in Prompt PROVE Pending(x)'
        BY DEF Pending
    <2>2. Pending(x)
        BY DEF PromptInv
    <2>3. x.key # Key(c)
        BY <1>0, <1>3, <2>1, <2>2 DEF Pending, At
    <2>4. ASSUME NEW d \in Calls, Key(d)' = x.key, Active(d)'
          PROVE  At(d, "compact")' /\ x.n = call'[d].event
        <3>1. d # c /\ Key(d) = x.key /\ Active(d)
            BY <1>2, <1>4, <2>3, <2>4
        <3>2. At(d, "compact") /\ x.n = call[d].event
            BY <2>1, <2>2, <3>1 DEF Pending
        <3> QED  BY <1>1, <3>1, <3>2 DEF At
    <2> QED  BY <1>0, <2>1, <2>2, <2>4 DEF Pending
<1>9. \A d \in Calls : Untaken(d)'
    <2>1. ASSUME NEW d \in Calls PROVE Untaken(d)'
        <3>1. Untaken(d)
            BY DEF PromptInv
        <3>2. call'[d].ver = call[d].ver /\ (call'[d].pc \in Clear => call[d].pc \in Clear)
            BY <1>1 DEF Clear
        <3> QED  BY <1>0, <1>2, <3>1, <3>2 DEF Untaken, Own
    <2> QED  BY <2>1
<1> QED  BY <1>0, <1>5, <1>6, <1>7, <1>8, <1>9 DEF PromptInv

(* An event is applied: the catalog it makes visible is of no other key.   *)
LEMMA AppliedElsewhere ==
    ASSUME IdsInv, NEW e \in ledger, Apply(e), NEW k \in Keys, e.key # k,
           NEW n \in Names, visible[n] \notin Own(k)
    PROVE  visible'[n] \notin Own(k)'
<1>1. /\ created' = created \cup {Holder(e.id, e.key)}
      /\ visible' = [visible EXCEPT ![e.name] = e.id] /\ visible \in [Names -> Ids]
    BY ApplyHolders DEF Apply, Base, TypeOK, IdsInv
<1>2. Own(k)' = Own(k)
    <2>1. {x \in created' : x.key = k} = {x \in created : x.key = k}
        BY <1>1 DEF Holder
    <2> QED  BY <2>1 DEF Own
<1>3. e.id \notin Own(k)
    <2>1. SUFFICES ASSUME e.id \in Own(k) PROVE FALSE
        OBVIOUS
    <2>2. Holder(e.id, k) \in Holders /\ Holder(e.id, e.key) \in Holders
        BY <2>1, OwnFacts, InHolders DEF IdsInv
    <2>3. Holder(e.id, k).id = Holder(e.id, e.key).id /\ Holder(e.id, k).key = k
          /\ Holder(e.id, e.key).key = e.key
        BY DEF Holder
    <2> QED  BY <2>2, <2>3 DEF IdsInv, HolderInv
<1> QED  BY <1>1, <1>2, <1>3

(* Nobody who counts on the name being free works on the event's key.      *)
LEMMA ClearElsewhere ==
    ASSUME IdsInv, PromptInv, NEW e \in ledger, NEW d \in Calls, Key(d) \in Prompt,
           call[d].pc \in Clear, call[d].ver = marker[Key(d)].ver
    PROVE  e.key # Key(d)
<1>1. SUFFICES ASSUME e.key = Key(d) PROVE FALSE
    OBVIOUS
<1>2. /\ marker[Key(d)].stale = FALSE
      /\ Active(d) => At(d, "compact")
    BY <1>1 DEF PromptInv, Pending
<1>3. Key(d) \in Keys /\ Key(d) # NoKey
    BY RequestAssumption
<1>4. CASE At(d, "takeover")
    <2>1. marker[Key(d)].stale
        BY <1>3, <1>4 DEF IdsInv, VersionInv, Owned, At
    <2> QED  BY <1>2, <1>3, <2>1, NotStale
<1>5. CASE ~At(d, "takeover")
    <2>1. call[d].pc \in Working /\ ~At(d, "compact")
        BY <1>5 DEF Clear, Working, At
    <2> QED  BY <1>2, <2>1 DEF Active
<1> QED  BY <1>4, <1>5

LEMMA PromptApply ==
    ASSUME IdsInv, PromptInv, EventInv, NEW e \in ledger, Apply(e), UNCHANGED marker,
           NEW c \in Calls,
           \A d \in Calls \ {c} : call'[d] = call[d],
           \/ call'[c] = call[c]
           \/ /\ At(c, "compact") /\ e.n = call[c].event /\ call'[c].pc = "commit"
              /\ call'[c].ver = call[c].ver /\ call'[c].req = call[c].req
    PROVE  PromptInv'
<1>0. ledger' = ledger \ {e}
    BY DEF Apply
<1>1. \A d \in Calls : /\ Key(d)' = Key(d) /\ Name(d)' = Name(d)
                       /\ call'[d].ver = call[d].ver
                       /\ call'[d] = call[d] \/ (d = c /\ call'[c].pc = "commit")
    BY DEF Key, Name
<1>2. \A d \in Calls : Active(d)' => Active(d)
    <2>1. ASSUME NEW d \in Calls, Active(d)' PROVE Active(d)
        <3>1. CASE call'[d] = call[d]
            BY <1>1, <2>1, <3>1 DEF Active, At
        <3>2. CASE call'[d] # call[d]
            BY <1>1, <3>2 DEF Active, Working, At
        <3> QED  BY <3>1, <3>2
    <2> QED  BY <2>1
<1>3. \A d \in Calls : Fenced(d)'
    BY <1>1 DEF Fenced, PromptInv, Working
<1>4. \A d, f \in Calls : Alone(d, f)'
    BY <1>1, <1>2 DEF Alone, PromptInv
<1>5. \A x \in ledger' : Pending(x)'
    <2>1. SUFFICES ASSUME NEW x \in ledger', x.key \in Prompt PROVE Pending(x)'
        BY DEF Pending
    <2>2. x \in ledger /\ x # e /\ x.n # e.n
        BY <1>0, <2>1 DEF EventInv
    <2>3. Pending(x)
        BY <2>2 DEF PromptInv
    <2>4. ASSUME NEW d \in Calls, Key(d)' = x.key, Active(d)'
          PROVE  At(d, "compact")' /\ x.n = call'[d].event
        <3>1. At(d, "compact") /\ x.n = call[d].event
            BY <1>1, <1>2, <2>1, <2>3, <2>4 DEF Pending
        <3>2. call'[d] = call[d]
            BY <1>1, <2>2, <3>1
        <3> QED  BY <3>1, <3>2 DEF At
    <2> QED  BY <2>1, <2>3, <2>4 DEF Pending
<1>6. \A d \in Calls : Untaken(d)'
    <2>1. SUFFICES ASSUME NEW d \in Calls, Key(d) \in Prompt, call'[d].pc \in Clear,
                          call[d].ver = marker[Key(d)].ver
                   PROVE  visible'[Name(d)] \notin Own(Key(d))'
        BY <1>1 DEF Untaken
    <2>2. call'[d] = call[d] /\ call[d].pc \in Clear
        BY <1>1, <2>1 DEF Clear
    <2>3. /\ visible[Name(d)] \notin Own(Key(d)) /\ e.key # Key(d)
        BY <2>1, <2>2, ClearElsewhere DEF PromptInv, Untaken
    <2>4. Name(d) \in Names /\ Key(d) \in Keys
        BY <2>1, <2>2, RequestAssumption DEF IdsInv, Base, CallInv, At, Clear
    <2> DEFINE k == Key(d)
    <2>6. k \in Keys /\ visible[Name(d)] \notin Own(k) /\ e.key # k
        BY <2>3, <2>4
    <2> HIDE DEF k
    <2>7. visible'[Name(d)] \notin {h.id : h \in {x \in created' : x.key = k}}
        BY <2>4, <2>6, AppliedElsewhere DEF Own
    <2> QED  BY <1>1, <2>7 DEF Own, k
<1> QED  BY <1>3, <1>4, <1>5, <1>6 DEF PromptInv

(* The call that finalises, reserves or takes over is alone with its key.  *)
LEMMA OwnerAlone ==
    ASSUME IdsInv, PromptInv, NEW c \in Calls, call[c].pc \in Owned \ {"compact"},
           call[c].ver = marker[Key(c)].ver, call[c].pc \notin {"recover"}
    PROVE  Exclusive(c)
<1>1. SUFFICES ASSUME Key(c) \in Prompt PROVE Exclusive(c)
    BY DEF Exclusive
<1>2. Key(c) \in Keys /\ Key(c) # NoKey
    BY <1>1, RequestAssumption
<1>3. ASSUME marker[Key(c)].stale = FALSE PROVE Active(c)
    <2>1. ~At(c, "takeover")
        <3>1. At(c, "takeover") => marker[Key(c)].stale
            BY <1>2 DEF IdsInv, VersionInv, Owned, At
        <3> QED  BY <1>2, <1>3, <3>1, NotStale
    <2> QED  BY <1>3, <2>1 DEF Active, Owned, Working, At
<1>4. ASSUME NEW d \in Calls \ {c}, Key(d) = Key(c), call[d].pc \in Working
      PROVE  FALSE
    <2>1. marker[Key(c)].stale = FALSE /\ Active(d)
        BY <1>1, <1>4 DEF PromptInv, Fenced, Active
    <2> QED  BY <1>1, <1>3, <1>4, <2>1 DEF PromptInv, Alone
<1>5. ASSUME NEW e \in ledger, e.key = Key(c) PROVE FALSE
    <2>1. marker[Key(c)].stale = FALSE /\ (Active(c) => At(c, "compact"))
        BY <1>1, <1>5 DEF PromptInv, Pending
    <2>2. ~At(c, "compact")
        BY DEF At
    <2> QED  BY <1>3, <2>1, <2>2
<1> QED  BY <1>4, <1>5 DEF Exclusive

LEMMA PromptCall ==
    ASSUME IdsInv, PromptInv, EventInv, NEW c \in Calls, CallStep(c)
    PROVE  PromptInv'
<1>0. /\ Base /\ \A d \in Calls \ {c} : call'[d] = call[d]
      /\ Prompt \subseteq Keys /\ NoKey \notin Keys
    BY CallLimits, RequestAssumption DEF IdsInv
<1>1. CASE \/ \E r \in Requests : Begin(c, r)
           \/ Answer(c) /\ Quiet
           \/ Wastes(c)
    <2>1. UNCHANGED <<marker, visible, ledger, created>>
        BY <1>1 DEF Begin, Quiet, Rest, Wastes
    <2>2. Key(c)' = NoKey \/ call'[c].pc = "claim"
        BY <1>0, <1>1, CallBegins, AnswerFacts DEF Wastes
    <2>3. "claim" \notin Working \cup Clear
        BY DEF Working, Clear
    <2>4. Key(c)' \notin Prompt \/ call'[c].pc = "claim"
        BY <1>0, <2>2
    <2>5. call'[c].pc = "claim" => ~Active(c)'
        BY DEF Active, Working, At
    <2> QED  BY <1>0, <2>1, <2>3, <2>4, <2>5, PromptQuiet
<1>2. CASE Moves(c)
    <2>1. PICK p \in Pcs, v \in Nat, i \in Nat :
            Edge(c, p, v, i) /\ GoesOn(c, p, v, i, call[c].event)
        BY <1>2 DEF Moves
    <2>2. UNCHANGED <<marker, visible, ledger, created>>
        BY <1>2 DEF Moves, Quiet, Rest
    <2>3. /\ call'[c].pc = p /\ call'[c].id = i /\ call'[c].ver = v
          /\ call'[c].event = call[c].event /\ Key(c)' = Key(c) /\ Name(c)' = Name(c)
        BY <1>0, <2>1, GoesOnFacts
    <2>4. CASE p \in {"check", "replay", "recover"}
        <3>1. p \notin Working \cup Clear /\ ~Active(c)'
            BY <2>3, <2>4 DEF Working, Clear, Active, At
        <3> QED  BY <1>0, <2>2, <2>3, <3>1, PromptQuiet
    <2>5. CASE p = "takeover"
        <3>1. p \notin Working /\ ~Active(c)'
            BY <2>3, <2>5 DEF Working, Active, At
        <3>2. Key(c) \in Prompt => visible[Name(c)] \notin Own(Key(c))
            <4>1. SUFFICES ASSUME Key(c) \in Keys PROVE visible[Name(c)] \notin Own(Key(c))
                BY <1>0
            <4>2. CASE At(c, "check")
                <5>1. marker[Key(c)].id = 0 /\ marker[Key(c)].status = "InProgress"
                    BY <2>1, <2>5, <4>2 DEF Edge, At
                <5> QED  BY <1>0, <4>1, <5>1, NothingOwned DEF IdsInv
            <4>3. CASE visible[Name(c)] = 0
                BY <1>0, <4>1, <4>3, OwnFacts
            <4> QED  BY <2>1, <2>5, <4>2, <4>3 DEF Edge
        <3> QED  BY <1>0, <2>2, <2>3, <3>1, <3>2, PromptQuiet
    <2>6. CASE p = "commit"
        <3>1. p \notin Working \cup Clear
            BY <2>6 DEF Working, Clear
        <3>2. ASSUME Key(c) \in Prompt, Active(c)'
              PROVE  Active(c) /\ \A e \in ledger : e.key # Key(c)
            <4>1. v = marker[Key(c)].ver /\ marker[Key(c)].stale = FALSE
                BY <2>2, <2>3, <2>6, <3>2 DEF Active, Working, At
            <4>2. Key(c) \in Keys /\ Key(c) # NoKey /\ v = call[c].ver
                BY <1>0, <2>1, <2>6, <3>2 DEF Edge
            <4>3. ~At(c, "recover")
                <5>1. At(c, "recover") => marker[Key(c)].stale
                    BY <4>1, <4>2 DEF IdsInv, VersionInv, Owned, At
                <5> QED  BY <4>1, <4>2, <5>1, NotStale
            <4>4. At(c, "compact") /\ \A e \in ledger : e.n # call[c].event
                BY <2>1, <2>6, <4>3 DEF Edge
            <4>5. Active(c)
                BY <4>4 DEF Active, Working, At
            <4> QED  BY <3>2, <4>4, <4>5 DEF PromptInv, Pending
        <3> QED  BY <1>0, <2>2, <2>3, <3>1, <3>2, PromptQuiet
    <2>7. CASE p \in {"lookup", "fail", "append"}
        <3>1. /\ call[c].pc \in {"reserve", "lookup"} /\ v = call[c].ver
            BY <2>1, <2>7 DEF Edge, At
        <3>2. call[c].pc \in Working /\ call[c].pc \in Clear /\ Active(c) /\ ~At(c, "compact")
            BY <3>1 DEF Working, Clear, Active, At
        <3>3. Key(c) \in Prompt =>
                /\ call[c].ver = marker[Key(c)].ver /\ marker[Key(c)].stale = FALSE
                /\ visible[Name(c)] \notin Own(Key(c))
                /\ \A e \in ledger : e.key # Key(c)
            BY <3>2 DEF PromptInv, Fenced, Untaken, Pending
        <3> QED  BY <1>0, <2>2, <2>3, <3>1, <3>2, <3>3, PromptQuiet
    <2>8. p \in {"check", "replay", "recover", "takeover", "commit", "lookup", "fail", "append"}
        BY <2>1 DEF Edge
    <2> QED  BY <2>4, <2>5, <2>6, <2>7, <2>8
<1>3. CASE Claims(c)
    <2>1. PICK m : Puts(c, m) /\ m.stale = FALSE
        BY <1>3 DEF Claims
    <2>2. /\ GoesOn(c, "reserve", lastVer + 1, call[c].id, call[c].event)
          /\ UNCHANGED <<visible, ledger, created>>
          /\ At(c, "claim") /\ marker[Key(c)].status = "Absent"
        BY <1>3 DEF Claims, Rest
    <2>3. /\ call'[c].pc = "reserve" /\ call'[c].ver = lastVer + 1
          /\ call'[c].req = call[c].req
        BY <1>0, <2>2, GoesOnFacts
    <2>4. Key(c) \in Keys /\ m.ver = lastVer + 1 /\ "reserve" \in Working
        BY <2>1 DEF Puts, Working
    <2>5. visible[Name(c)] \notin Own(Key(c))
        <3>1. marker[Key(c)].id = 0
            BY <2>2, <2>4 DEF IdsInv, HolderInv
        <3>2. Own(Key(c)) = {}
            BY <2>2, <2>4, <3>1, NothingOwned DEF IdsInv
        <3> QED  BY <3>2
    <2>6. Exclusive(c)
        <3>1. SUFFICES ASSUME Key(c) \in Prompt PROVE Exclusive(c)
            BY DEF Exclusive
        <3>2. ASSUME NEW d \in Calls, Key(d) = Key(c), call[d].pc \in Working
              PROVE  FALSE
            <4>1. call[d].ver = marker[Key(d)].ver
                BY <3>1, <3>2 DEF PromptInv, Fenced
            <4>2. marker[Key(d)].status = "InProgress"
                BY <1>0, <2>4, <3>2, <4>1 DEF IdsInv, VersionInv, Owned, Working
            <4> QED  BY <2>2, <3>2, <4>2
        <3>3. \A e \in ledger : e.key # Key(c)
            BY <2>2, <3>1 DEF PromptInv, Pending
        <3> QED  BY <3>2, <3>3 DEF Exclusive
    <2> QED  BY <1>0, <2>1, <2>2, <2>3, <2>4, <2>5, <2>6, PromptPuts
<1>4. CASE Takes(c)
    <2>1. PICK m : Puts(c, m) /\ m.stale = FALSE
        BY <1>4 DEF Takes
    <2>2. /\ GoesOn(c, "reserve", lastVer + 1, call[c].id, call[c].event)
          /\ UNCHANGED <<visible, ledger, created>>
          /\ At(c, "takeover") /\ call[c].ver = marker[Key(c)].ver
        BY <1>4 DEF Takes, Rest, Matches
    <2>3. /\ call'[c].pc = "reserve" /\ call'[c].ver = lastVer + 1
          /\ call'[c].req = call[c].req
        BY <1>0, <2>2, GoesOnFacts
    <2>4. m.ver = lastVer + 1 /\ "reserve" \in Working
        BY <2>1 DEF Puts, Working
    <2>5. Key(c) \in Prompt => visible[Name(c)] \notin Own(Key(c))
        BY <2>2 DEF PromptInv, Untaken, At, Clear
    <2>6. Exclusive(c)
        BY <2>2, OwnerAlone DEF At, Owned
    <2> QED  BY <1>0, <2>1, <2>2, <2>3, <2>4, <2>5, <2>6, PromptPuts
<1>5. CASE Finalizes(c)
    <2>1. PICK m : Puts(c, m)
        BY <1>5 DEF Finalizes
    <2>2. /\ UNCHANGED <<visible, ledger, created>> /\ call'[c].pc = "idle"
          /\ Key(c)' = NoKey /\ call[c].ver = marker[Key(c)].ver
          /\ call[c].pc \in {"commit", "fail"}
        BY <1>0, <1>5, AnswerFacts DEF Finalizes, Rest, Matches, At
    <2>3. Exclusive(c)
        BY <2>2, OwnerAlone DEF Owned
    <2> QED  BY <1>0, <2>1, <2>2, <2>3, PromptPuts
<1>6. CASE Reserves(c)
    <2>1. CASE /\ Key(c) = NoKey /\ UNCHANGED <<marker, lastVer>>
               /\ GoesOn(c, "lookup", call[c].ver, lastId + 1, call[c].event)
        <3>1. Key(c)' \notin Prompt
            BY <1>0, <2>1, GoesOnFacts
        <3>2. UNCHANGED <<marker, visible, ledger, created>>
            BY <1>6, <2>1 DEF Reserves
        <3> QED  BY <1>0, <3>1, <3>2, PromptQuiet
    <2>2. ASSUME NEW m, Puts(c, m), m.stale = marker[Key(c)].stale, Matches(c),
                 GoesOn(c, "lookup", lastVer + 1, lastId + 1, call[c].event)
          PROVE  PromptInv'
        <3>1. /\ call'[c].pc = "lookup" /\ call'[c].ver = lastVer + 1
              /\ call'[c].req = call[c].req
            BY <1>0, <2>2, GoesOnFacts
        <3>2. /\ m.ver = lastVer + 1 /\ "lookup" \in Working
            BY <2>2 DEF Puts, Working
        <3>3. /\ At(c, "reserve") /\ UNCHANGED <<visible, ledger, created>>
              /\ call[c].ver = marker[Key(c)].ver
            BY <1>6, <2>2 DEF Reserves, Matches
        <3>4. Exclusive(c)
            BY <3>3, OwnerAlone DEF At, Owned
        <3>5. Key(c) \in Prompt => marker[Key(c)].stale = FALSE
            BY <3>3 DEF PromptInv, Fenced, At, Working
        <3>6. Key(c) \in Prompt => visible[Name(c)] \notin Own(Key(c))
            BY <3>3 DEF PromptInv, Untaken, At, Clear
        <3>7. Key(c) \in Prompt => m.stale = FALSE
            BY <2>2, <3>5, Zenon
        <3> QED  BY <1>0, <2>2, <3>1, <3>2, <3>3, <3>4, <3>6, <3>7, PromptPuts
    <2> QED  BY <1>6, <2>1, <2>2 DEF Reserves
<1>7. CASE Appends(c)
    BY <1>7, PromptAppends
<1>8. CASE Compacts(c)
    <2>1. PICK e \in ledger : e.n = call[c].event /\ Apply(e)
        BY <1>8 DEF Compacts
    <2>2. /\ GoesOn(c, "commit", call[c].ver, call[c].id, call[c].event)
          /\ UNCHANGED marker /\ At(c, "compact")
        BY <1>8 DEF Compacts
    <2>3. /\ call'[c].pc = "commit" /\ call'[c].ver = call[c].ver
          /\ call'[c].req = call[c].req
        BY <1>0, <2>2, GoesOnFacts
    <2> QED  BY <1>0, <2>1, <2>2, <2>3, PromptApply
<1> QED  BY <1>0, <1>1, <1>2, <1>3, <1>4, <1>5, <1>6, <1>7, <1>8, CallKinds

LEMMA PromptNext ==
    ASSUME IdsInv, PromptInv, EventInv, [Next]_vars
    PROVE  PromptInv'
<1>0. Base /\ Prompt \subseteq Keys /\ NoKey \notin Keys
    BY RequestAssumption DEF IdsInv
<1>1. CASE \E c \in Calls : CallStep(c)
    BY <1>1, PromptCall
<1>2. ASSUME UNCHANGED <<call, marker>>, NEW e \in ledger, Apply(e)
      PROVE  PromptInv'
    <2>1. CASE Calls = {}
        <3>1. \A x \in ledger' : x \in ledger
            BY <1>2 DEF Apply
        <3>2. \A x \in ledger' : Pending(x)'
            BY <1>2, <2>1, <3>1 DEF PromptInv, Pending
        <3> QED  BY <2>1, <3>2 DEF PromptInv
    <2>2. ASSUME NEW c \in Calls PROVE PromptInv'
        BY <1>2, PromptApply
    <2> QED  BY <2>1, <2>2
<1>3. ASSUME UNCHANGED <<call, marker, created>>, ledger' \subseteq ledger,
             \A n \in Names : visible'[n] \in {0, visible[n]}
      PROVE  PromptInv'
    <2>1. \A c \in Calls : /\ Key(c)' = Key(c) /\ Name(c)' = Name(c)
                           /\ (Active(c)' <=> Active(c)) /\ call'[c] = call[c]
        <3>1. \A c \in Calls : Key(c)' = Key(c) /\ Name(c)' = Name(c) /\ call'[c] = call[c]
            BY <1>3 DEF Key, Name
        <3>2. \A c \in Calls : Active(c)' <=> Active(c)
            BY <1>3, <3>1 DEF Active, At
        <3> QED  BY <3>1, <3>2
    <2>2. \A c \in Calls : Fenced(c)'
        BY <1>3, <2>1 DEF PromptInv, Fenced
    <2>3. \A c, d \in Calls : Alone(c, d)'
        BY <2>1 DEF PromptInv, Alone
    <2>4. \A e \in ledger' : Pending(e)'
        BY <1>3, <2>1 DEF PromptInv, Pending, At
    <2>5. \A c \in Calls : Untaken(c)'
        <3>1. SUFFICES ASSUME NEW c \in Calls, Key(c) \in Prompt, call[c].pc \in Clear,
                              call[c].ver = marker[Key(c)].ver
                       PROVE  visible'[Name(c)] \notin Own(Key(c))
            BY <1>3, <2>1 DEF Untaken, Own
        <3>2. Name(c) \in Names /\ Key(c) \in Keys
            BY <1>0, <3>1 DEF Base, CallInv, At, Clear
        <3>3. visible[Name(c)] \notin Own(Key(c)) /\ 0 \notin Own(Key(c))
            BY <1>0, <3>1, <3>2, OwnFacts DEF PromptInv, Untaken
        <3> QED  BY <1>3, <3>2, <3>3
    <2> QED  BY <2>2, <2>3, <2>4, <2>5 DEF PromptInv
<1>4. ASSUME UNCHANGED <<call, visible, ledger, created>>, NEW k \in Keys, MarkerAges(k)
      PROVE  PromptInv'
    <2>0. /\ \A j \in Keys \ {k} : marker'[j] = marker[j]
          /\ \A j \in Keys : /\ marker'[j].status = marker[j].status
                             /\ marker'[j].ver = marker[j].ver
          /\ marker'[k].stale = TRUE
        BY <1>0, <1>4, MarkerGrowsOld
    <2>1. \A c \in Calls : Key(c)' = Key(c) /\ Name(c)' = Name(c) /\ call'[c] = call[c]
        BY <1>4 DEF Key, Name
    <2>2. k \in Prompt => /\ \A c \in Calls : Key(c) = k => call[c].pc \notin Working
                          /\ \A e \in ledger : e.key # k
        BY <1>4 DEF MarkerAges, Settled, Working
    <2>3. marker'[k].stale # FALSE
        BY <2>0
    <2>4. ASSUME NEW c \in Calls, Key(c) \in Prompt, Active(c)'
          PROVE  Active(c) /\ Key(c) # k
        <3>1. Key(c) # k
            BY <2>1, <2>2, <2>3, <2>4 DEF Active
        <3>2. marker'[Key(c)] = marker[Key(c)]
            BY <1>0, <2>0, <2>4, <3>1
        <3> QED  BY <2>1, <2>4, <3>1, <3>2 DEF Active, At
    <2>5. \A c \in Calls : Fenced(c)'
        <3>1. TAKE c \in Calls
        <3>2. CASE Key(c) = k
            BY <2>1, <2>2, <3>2 DEF Fenced
        <3>3. CASE Key(c) # k
            BY <1>0, <2>0, <2>1, <3>3 DEF Fenced, PromptInv
        <3> QED  BY <3>2, <3>3
    <2>6. \A c, d \in Calls : Alone(c, d)'
        BY <2>1, <2>4 DEF PromptInv, Alone
    <2>7. \A e \in ledger' : Pending(e)'
        <3>1. SUFFICES ASSUME NEW e \in ledger, e.key \in Prompt PROVE Pending(e)'
            BY <1>4 DEF Pending
        <3>2. e.key # k /\ e.key \in Keys /\ marker'[e.key] = marker[e.key] /\ Pending(e)
            BY <1>0, <2>0, <2>2, <3>1 DEF PromptInv
        <3>3. ASSUME NEW c \in Calls, Key(c)' = e.key, Active(c)'
              PROVE  At(c, "compact")' /\ e.n = call'[c].event
            BY <2>1, <2>4, <3>1, <3>2, <3>3 DEF Pending, At
        <3> QED  BY <3>1, <3>2, <3>3 DEF Pending
    <2>8. \A c \in Calls : Untaken(c)'
        BY <1>0, <1>4, <2>0, <2>1 DEF PromptInv, Untaken, Own
    <2> QED  BY <2>5, <2>6, <2>7, <2>8 DEF PromptInv
<1>5. CASE OtherStep
    <2>0. visible \in [Names -> Ids]
        BY <1>0 DEF Base, TypeOK
    <2>1. CASE UNCHANGED <<marker, visible, created>> /\ \E e \in ledger : Refuse(e)
        BY <1>3, <1>5, <2>1, OtherKinds DEF Refuse
    <2>2. CASE UNCHANGED <<marker, ledger, created>> /\ \E n \in Names : Delete(n)
        <3>1. \A n \in Names : visible'[n] \in {0, visible[n]}
            BY <2>0, <2>2 DEF Delete
        <3> QED  BY <1>3, <1>5, <2>2, <3>1, OtherKinds
    <2> QED  BY <1>2, <1>4, <1>5, <2>1, <2>2, OtherKinds
<1>6. CASE UNCHANGED vars
    BY <1>3, <1>6 DEF vars
<1> QED  BY <1>1, <1>5, <1>6, NextSteps

----------------------------------------------------------------------------
(* The failures that are cached.                                           *)
FailedInv ==
    \A k \in Keys : marker[k].status = "Failed" =>
        /\ marker[k].name \in Names
        /\ k \in Prompt => visible[marker[k].name] \notin Own(k)

LEMMA FailedNext ==
    ASSUME IdsInv, PromptInv, FailedInv, [Next]_vars
    PROVE  FailedInv'
<1>0. Base /\ Prompt \subseteq Keys /\ NoKey \notin Keys /\ visible \in [Names -> Ids]
    BY RequestAssumption DEF IdsInv, Base, TypeOK
<1>1. ASSUME \A k \in Keys : /\ marker'[k].status = marker[k].status
                             /\ marker'[k].name = marker[k].name,
             UNCHANGED created, \A n \in Names : visible'[n] \in {0, visible[n]}
      PROVE  FailedInv'
    <2>1. \A k \in Keys : 0 \notin Own(k)
        BY <1>0, OwnFacts
    <2> QED  BY <1>1, <2>1 DEF FailedInv, Own
<1>2. ASSUME UNCHANGED marker, NEW e \in ledger, Apply(e)
      PROVE  FailedInv'
    <2>1. SUFFICES ASSUME NEW k \in Keys, marker[k].status = "Failed"
                   PROVE  /\ marker[k].name \in Names
                          /\ k \in Prompt => visible'[marker[k].name] \notin Own(k)'
        BY <1>2 DEF FailedInv
    <2>2. /\ marker[k].name \in Names
          /\ k \in Prompt => visible[marker[k].name] \notin Own(k)
        BY <2>1 DEF FailedInv
    <2>3. k \in Prompt => e.key # k
        BY <2>1 DEF PromptInv, Pending
    <2> QED  BY <1>2, <2>2, <2>3, AppliedElsewhere
<1>3. ASSUME NEW c \in Calls, NEW m, Puts(c, m), UNCHANGED <<visible, created>>,
             m.status = "Failed" =>
               /\ m.name \in Names
               /\ Key(c) \in Prompt => visible[m.name] \notin Own(Key(c))
      PROVE  FailedInv'
    <2>1. \A k \in Keys : marker'[k] = IF k = Key(c) THEN m ELSE marker[k]
        BY <1>0, <1>3, NewVersion
    <2> QED  BY <1>3, <2>1 DEF FailedInv, Own
<1>4. ASSUME NEW c \in Calls, CallStep(c)
      PROVE  FailedInv'
    <2>1. CASE \/ \E r \in Requests : Begin(c, r)
               \/ Answer(c) /\ Quiet
               \/ Moves(c) \/ Appends(c) \/ Wastes(c)
        <3>1. UNCHANGED <<marker, visible, created>>
            BY <2>1 DEF Begin, Quiet, Rest, Moves, Appends, Wastes
        <3> QED  BY <1>1, <3>1
    <2>2. CASE Claims(c) \/ Takes(c)
        <3>1. PICK m : Puts(c, m) /\ m.status = "InProgress"
            BY <2>2 DEF Claims, Takes
        <3>2. UNCHANGED <<visible, created>>
            BY <2>2 DEF Claims, Takes, Rest
        <3> QED  BY <1>3, <3>1, <3>2
    <2>3. CASE Finalizes(c)
        <3>1. PICK m : /\ Puts(c, m)
                       /\ \/ At(c, "commit") /\ m.status = "Committed"
                          \/ At(c, "fail") /\ m.status = "Failed" /\ m.name = Name(c)
            BY <2>3 DEF Finalizes
        <3>2. UNCHANGED <<visible, created>> /\ call[c].ver = marker[Key(c)].ver
            BY <2>3 DEF Finalizes, Rest, Matches
        <3>3. At(c, "fail") =>
                /\ Name(c) \in Names
                /\ Key(c) \in Prompt => visible[Name(c)] \notin Own(Key(c))
            BY <1>0, <3>2 DEF PromptInv, Untaken, Clear, At, Base, CallInv
        <3> QED  BY <1>3, <3>1, <3>2, <3>3
    <2>4. CASE Reserves(c)
        <3>1. UNCHANGED <<visible, created>>
            BY <2>4 DEF Reserves
        <3>2. UNCHANGED marker \/ \E m : Puts(c, m) /\ m.status = "InProgress"
            BY <2>4 DEF Reserves
        <3> QED  BY <1>1, <1>3, <3>1, <3>2
    <2>5. CASE Compacts(c)
        BY <1>2, <2>5 DEF Compacts
    <2> QED  BY <1>0, <1>4, <2>1, <2>2, <2>3, <2>4, <2>5, CallKinds
<1>5. CASE OtherStep
    <2>1. CASE UNCHANGED <<marker, visible, created>> /\ \E e \in ledger : Refuse(e)
        BY <1>1, <2>1
    <2>2. CASE UNCHANGED <<marker, ledger, created>> /\ \E n \in Names : Delete(n)
        <3>1. \A n \in Names : visible'[n] \in {0, visible[n]}
            BY <1>0, <2>2 DEF Delete
        <3> QED  BY <1>1, <2>2, <3>1
    <2>3. CASE UNCHANGED <<visible, ledger, created>> /\ \E k \in Keys : MarkerAges(k)
        BY <1>0, <1>1, <2>3, MarkerGrowsOld
    <2> QED  BY <1>2, <1>5, <2>1, <2>2, <2>3, OtherKinds
<1>6. CASE UNCHANGED vars
    BY <1>1, <1>6 DEF vars
<1> QED  BY <1>4, <1>5, <1>6, NextSteps

(* All of it together.                                                     *)
IndInv == IdsInv /\ EventInv /\ PromptInv /\ FailedInv

LEMMA OutcomesTrue == IndInv => OutcomeTrue
<1> SUFFICES ASSUME IndInv, NEW k \in Keys
             PROVE  /\ marker[k].status = "Committed" => marker[k].id \in Own(k)
                    /\ marker[k].status = "Failed" /\ k \in Prompt =>
                         visible[marker[k].name] \notin Own(k)
    BY DEF OutcomeTrue
<1>1. marker[k].status = "Committed" => Holder(marker[k].id, k) \in created
    BY DEF IndInv, IdsInv, CreatedInv
<1>2. Holder(marker[k].id, k).id = marker[k].id /\ Holder(marker[k].id, k).key = k
    BY DEF Holder
<1>3. marker[k].status = "Committed" => marker[k].id \in Own(k)
    BY <1>1, <1>2 DEF Own
<1> QED  BY <1>3 DEF IndInv, FailedInv

(* The inductive invariant of create_catalog: ids, events and the order in *)
(* which calls work on a prompt key.                                       *)
THEOREM CatalogInvariant == Spec => []IndInv
<1>1. Init => IndInv
    <2> SUFFICES ASSUME Init PROVE IndInv
        OBVIOUS
    <2>1. EventInv
        BY InitFacts DEF EventInv
    <2>2. PromptInv
        <3>1. /\ \A c \in Calls : Key(c) \notin Prompt
              /\ ledger = {}
            BY InitFacts, RequestAssumption
        <3> QED  BY <3>1 DEF PromptInv, Fenced, Alone, Untaken
    <2>3. FailedInv
        BY InitFacts DEF FailedInv
    <2> QED  BY <2>1, <2>2, <2>3, IdsInit DEF IndInv
<1>2. IndInv /\ [Next]_vars => IndInv'
    BY IdsNext, EventNext, PromptNext, FailedNext DEF IndInv, IdsInv
<1> QED  BY <1>1, <1>2, PTL DEF Spec

(* What a marker caches is true: a committed one names a catalog of its    *)
(* own key, although recover_reserved_catalog looks catalogs up by name,   *)
(* and a failure of a prompt key left no catalog of the key in place.      *)
THEOREM CachedOutcomeTrue == Spec => []OutcomeTrue
<1>1. IndInv => OutcomeTrue
    BY OutcomesTrue
<1> QED  BY <1>1, CatalogInvariant, PTL
=============================================================================
