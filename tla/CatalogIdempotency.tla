------------------------- MODULE CatalogIdempotency -------------------------
(***************************************************************************)
(* The idempotency markers of the catalog writer (arco-catalog             *)
(* idempotency.rs and writer.rs): create_catalog called with a key, again  *)
(* with the same key by clients that got no answer, without a key by       *)
(* others, and delete_catalog in between.  A marker is claimed, an entity  *)
(* id is reserved in it, the catalog is created by a ledger event, and     *)
(* the marker is finalised; a marker whose owner is silent for             *)
(* DEFAULT_STALE_TIMEOUT is recovered or taken over by the next call.      *)
(* What Tier1WritePath shows of the write path in detail is one step here: *)
(* an event is published at most once and only while its name is free.     *)
(***************************************************************************)
EXTENDS Naturals, FiniteSets

CONSTANTS
    Calls,         \* concurrent executions of create_catalog
    Keys, NoKey,   \* idempotency keys; a call without one
    Names, NoName, \* catalog names
    Requests,      \* the requests clients send: [key, name]
    Prompt,        \* keys whose calls, and the events they leave in the
                   \* ledger, are done before the marker is stale
    MaxCalls,      \* bound on the calls that are made
    MaxDeletes,    \* bound on the deletions
    MaxCrashes     \* bound on calls that die

ASSUME RequestAssumption ==
    /\ Requests \subseteq [key : Keys \cup {NoKey}, name : Names]
    /\ NoKey \notin Keys /\ NoName \notin Names
    /\ Prompt \subseteq Keys
    /\ MaxCalls \in Nat /\ MaxDeletes \in Nat /\ MaxCrashes \in Nat

VARIABLES
    marker,    \* one object per key, version 0 while it does not exist
    visible,   \* the id of the visible catalog of a name, 0 for none
    ledger,    \* CatalogCreated events that are not applied
    created,   \* what was ever visible: [id, key]
    call,      \* the executions
    lastId,    \* ids handed out: Uuid::now_v7
    lastVer,   \* object versions and event numbers handed out
    begun, deletes, crashes

vars == <<marker, visible, ledger, created, call, lastId, lastVer, begun, deletes, crashes>>

Ids == 0 .. MaxCalls

(* CatalogIdempotencyMarker.  The reserved name is the request's, whose    *)
(* hash the marker carries; stale says that started_at is too long ago.    *)
NoMarker == [status |-> "Absent", name |-> NoName, id |-> 0, stale |-> FALSE, ver |-> 0]

Idle == [pc |-> "idle", req |-> [key |-> NoKey, name |-> NoName], ver |-> 0, id |-> 0,
         event |-> 0]

Init ==
    /\ marker = [k \in Keys |-> NoMarker]
    /\ visible = [n \in Names |-> 0]
    /\ ledger = {} /\ created = {}
    /\ call = [c \in Calls |-> Idle]
    /\ lastId = 0 /\ lastVer = 0 /\ begun = 0 /\ deletes = 0 /\ crashes = 0

Key(c) == call[c].req.key
Name(c) == call[c].req.name
At(c, pc) == call[c].pc = pc
Goto(c, pc) == call' = [call EXCEPT ![c].pc = pc]

(* The call returns, whatever the answer is.                               *)
Answer(c) == call' = [call EXCEPT ![c] = Idle]

Unmoved == UNCHANGED <<visible, ledger, created, lastId, begun, deletes, crashes>>
Bounds == UNCHANGED <<begun, deletes, crashes>>

(* put with MatchesVersion(call[c].ver): the new marker and its version,   *)
(* and what the call goes on with.                                         *)
PutMarker(c, m) ==
    /\ marker[Key(c)].ver = call[c].ver
    /\ marker' = [marker EXCEPT ![Key(c)] = [m EXCEPT !.ver = lastVer + 1]]
    /\ lastVer' = lastVer + 1

PutFails(c) ==
    /\ marker[Key(c)].ver # call[c].ver
    /\ UNCHANGED <<marker, lastVer>>

InProgress(c) == [NoMarker EXCEPT !.status = "InProgress", !.name = Name(c), !.id = call[c].id]

(* The client sends a request, for the first time or again.                *)
Begin(c, r) ==
    /\ At(c, "idle") /\ begun < MaxCalls
    /\ begun' = begun + 1
    /\ call' = [call EXCEPT ![c] = [Idle EXCEPT !.req = r,
                                    !.pc = IF r.key = NoKey THEN "reserve" ELSE "claim"]]
    /\ UNCHANGED <<marker, visible, ledger, created, lastId, lastVer, deletes, crashes>>

(* claim: the marker is created, or its version is what the failed put     *)
(* reports and its content is read afterwards.                             *)
Claim(c) ==
    /\ At(c, "claim") /\ Unmoved
    /\ \/ /\ marker[Key(c)].status = "Absent"
          /\ marker' = [marker EXCEPT ![Key(c)] =
                            [InProgress(c) EXCEPT !.ver = lastVer + 1]]
          /\ lastVer' = lastVer + 1
          /\ call' = [call EXCEPT ![c].pc = "reserve", ![c].ver = lastVer + 1]
       \/ /\ marker[Key(c)].status # "Absent"
          /\ UNCHANGED <<marker, lastVer>>
          /\ call' = [call EXCEPT ![c].pc = "check", ![c].ver = marker[Key(c)].ver]

(* check_idempotency on the marker that is there.  A different request is  *)
(* a conflict, a marker in progress sends the client away until it is      *)
(* stale, a finalised one answers the call.                                *)
Check(c) ==
    LET m == marker[Key(c)] IN
    /\ At(c, "check") /\ UNCHANGED <<marker, lastVer>> /\ Unmoved
    /\ \/ /\ m.name # Name(c) \/ m.status = "Failed" \/ (m.status = "InProgress" /\ ~m.stale)
          /\ Answer(c)
       \/ /\ m.name = Name(c) /\ m.status = "Committed"
          /\ Goto(c, "replay")
       \/ /\ m.name = Name(c) /\ m.status = "InProgress" /\ m.stale
          /\ call' = [call EXCEPT ![c].pc = IF m.id # 0 THEN "recover" ELSE "takeover",
                                  ![c].id = m.id]

(* Mutant of Recover: whatever has the name is taken for the reserved one.  *)
RecoverAny(c) ==
    /\ At(c, "recover") /\ UNCHANGED <<marker, lastVer>> /\ Unmoved
    /\ \/ visible[Name(c)] = 0 /\ Goto(c, "takeover")
       \/ /\ visible[Name(c)] # 0
          /\ call' = [call EXCEPT ![c].pc = "commit", ![c].id = visible[Name(c)]]

(* recover_reserved_catalog: the reserved entity may be visible already,   *)
(* or its name may belong to somebody else.                                *)
Recover(c) ==
    /\ At(c, "recover") /\ UNCHANGED <<marker, lastVer>> /\ Unmoved
    /\ \/ visible[Name(c)] = 0 /\ Goto(c, "takeover")
       \/ visible[Name(c)] \notin {0, call[c].id} /\ Answer(c)
       \/ visible[Name(c)] = call[c].id /\ visible[Name(c)] # 0 /\ Goto(c, "commit")

(* Mutant of Takeover: the refreshed marker is a new one.                  *)
TakeoverForgets(c) ==
    /\ At(c, "takeover") /\ Unmoved
    /\ \/ /\ PutMarker(c, [InProgress(c) EXCEPT !.id = 0])
          /\ call' = [call EXCEPT ![c].pc = "reserve", ![c].ver = lastVer + 1, ![c].id = 0]
       \/ PutFails(c) /\ Answer(c)

(* takeover keeps the reservation and starts the marker's time again.      *)
(* Whoever loses the race reads the marker: finalised as committed it is   *)
(* replayed when nothing was reserved, and an error otherwise.             *)
Takeover(c) ==
    /\ At(c, "takeover") /\ Unmoved
    /\ \/ /\ PutMarker(c, InProgress(c))
          /\ call' = [call EXCEPT ![c].pc = "reserve", ![c].ver = lastVer + 1]
       \/ /\ PutFails(c)
          /\ \/ /\ call[c].id = 0 /\ marker[Key(c)].status = "Committed"
                /\ Goto(c, "replay")
             \/ /\ ~(call[c].id = 0 /\ marker[Key(c)].status = "Committed")
                /\ Answer(c)

(* The id of the new catalog: the reserved one, or a new one which is      *)
(* first made known in the marker.                                         *)
Reserve(c) ==
    /\ At(c, "reserve") /\ UNCHANGED <<visible, ledger, created>> /\ Bounds
    /\ \/ /\ call[c].id # 0
          /\ Goto(c, "lookup")
          /\ UNCHANGED <<marker, lastId, lastVer>>
       \/ /\ call[c].id = 0
          /\ lastId' = lastId + 1
          /\ \/ /\ Key(c) = NoKey
                /\ UNCHANGED <<marker, lastVer>>
                /\ call' = [call EXCEPT ![c].pc = "lookup", ![c].id = lastId + 1]
             \/ /\ Key(c) # NoKey
                /\ PutMarker(c, [InProgress(c) EXCEPT !.id = lastId + 1,
                                                      !.stale = marker[Key(c)].stale])
                /\ call' = [call EXCEPT ![c].pc = "lookup", ![c].id = lastId + 1,
                                        ![c].ver = lastVer + 1]
             \/ Key(c) # NoKey /\ PutFails(c) /\ Answer(c)

(* Under the Tier-1 lock the name is looked up.  A duplicate is an error   *)
(* that is cached in the marker, and so is a manifest or snapshot that is  *)
(* not found or not valid; a lock that is not granted, a version mismatch  *)
(* or a failing call is not (should_cache_idempotency_failure).            *)
Lookup(c) ==
    /\ At(c, "lookup") /\ UNCHANGED <<marker, lastVer>> /\ Unmoved
    /\ \/ Goto(c, "fail")
       \/ visible[Name(c)] = 0 /\ Goto(c, "append")
       \/ Answer(c)

(* append_ledger_event.  An event is its call's: created_at differs        *)
(* between two events for one reserved id.                                 *)
Append(c) ==
    /\ At(c, "append")
    /\ ledger' = ledger \cup {[id |-> call[c].id, name |-> Name(c), key |-> Key(c),
                               n |-> lastVer + 1]}
    /\ lastVer' = lastVer + 1
    /\ call' = [call EXCEPT ![c].pc = "compact", ![c].event = lastVer + 1]
    /\ UNCHANGED <<marker, visible, created, lastId>> /\ Bounds

(* apply_catalog_event_v2: neither the id nor the name may be taken.       *)
Applies(e) == visible[e.name] = 0

Apply(e) ==
    /\ Applies(e)
    /\ visible' = [visible EXCEPT ![e.name] = e.id]
    /\ created' = created \cup {[id |-> e.id, key |-> e.key]}
    /\ ledger' = ledger \ {e}

(* sync_compact: the event is applied now, or was by another compaction.   *)
(* An error leaves the event in the ledger, and is not cached.             *)
Compact(c) ==
    /\ At(c, "compact") /\ UNCHANGED <<marker, lastId, lastVer>> /\ Bounds
    /\ \/ \E e \in ledger : e.n = call[c].event /\ Apply(e) /\ Goto(c, "commit")
       \/ /\ \A e \in ledger : e.n # call[c].event
          /\ Goto(c, "commit")
          /\ UNCHANGED <<visible, ledger, created>>
       \/ Answer(c) /\ UNCHANGED <<visible, ledger, created>>

(* A compaction that timed out, or the notification consumer, applies the  *)
(* event later; or never, when it is refused or passed by the watermark.   *)
ApplyLate(e) ==
    /\ e \in ledger /\ Apply(e)
    /\ UNCHANGED <<marker, call, lastId, lastVer>> /\ Bounds

Refuse(e) ==
    /\ e \in ledger /\ \A c \in Calls : At(c, "compact") => call[c].event # e.n
    /\ ledger' = ledger \ {e}
    /\ UNCHANGED <<marker, visible, created, call, lastId, lastVer>> /\ Bounds

(* finalize_idempotency_success: a marker that is somebody else's by now   *)
(* makes the call fail although its catalog is visible.                    *)
FinalizeCommitted(c) ==
    /\ At(c, "commit") /\ Unmoved /\ Answer(c)
    /\ \/ Key(c) = NoKey /\ UNCHANGED <<marker, lastVer>>
       \/ Key(c) # NoKey /\ PutMarker(c, [InProgress(c) EXCEPT !.status = "Committed"])
       \/ Key(c) # NoKey /\ PutFails(c)

(* Mutant of FinalizeFailed: the entity stays in the marker.               *)
FailedKeepsEntity(c) ==
    /\ At(c, "fail") /\ Unmoved /\ Answer(c)
    /\ \/ Key(c) # NoKey /\ PutMarker(c, [InProgress(c) EXCEPT !.status = "Failed"])
       \/ Key(c) = NoKey /\ UNCHANGED <<marker, lastVer>>

(* finalize_idempotency_failure forgets the entity.                        *)
FinalizeFailed(c) ==
    /\ At(c, "fail") /\ Unmoved /\ Answer(c)
    /\ \/ Key(c) = NoKey /\ UNCHANGED <<marker, lastVer>>
       \/ Key(c) # NoKey /\ PutMarker(c, [InProgress(c) EXCEPT !.status = "Failed", !.id = 0])
       \/ Key(c) # NoKey /\ PutFails(c)

(* replay_catalog_by_name: the catalog that has the name today.            *)
Replay(c) ==
    /\ At(c, "replay") /\ UNCHANGED <<marker, lastVer>> /\ Unmoved
    /\ Answer(c)

(* delete_catalog.                                                         *)
Delete(n) ==
    /\ visible[n] # 0 /\ deletes < MaxDeletes
    /\ visible' = [visible EXCEPT ![n] = 0]
    /\ deletes' = deletes + 1
    /\ UNCHANGED <<marker, ledger, created, call, lastId, lastVer, begun, crashes>>

(* DEFAULT_STALE_TIMEOUT passes since the marker was claimed or refreshed. *)
Settled(k) ==
    /\ \A c \in Calls : Key(c) = k =>
        call[c].pc \notin {"reserve", "lookup", "append", "compact", "commit", "fail"}
    /\ \A e \in ledger : e.key # k

MarkerAges(k) ==
    /\ marker[k].status = "InProgress" /\ ~marker[k].stale
    /\ k \in Prompt => Settled(k)
    /\ marker' = [marker EXCEPT ![k].stale = TRUE]
    /\ UNCHANGED <<visible, ledger, created, call, lastId, lastVer, begun, deletes, crashes>>

(* The process of a call dies, or a storage call of it fails.              *)
Crash(c) ==
    /\ ~At(c, "idle") /\ crashes < MaxCrashes
    /\ crashes' = crashes + 1
    /\ Answer(c)
    /\ UNCHANGED <<marker, visible, ledger, created, lastId, lastVer, begun, deletes>>

Next ==
    \/ \E c \in Calls :
        \/ \E r \in Requests : Begin(c, r)
        \/ Claim(c) \/ Check(c) \/ Recover(c) \/ Takeover(c) \/ Reserve(c)
        \/ Lookup(c) \/ Append(c) \/ Compact(c)
        \/ FinalizeCommitted(c) \/ FinalizeFailed(c) \/ Replay(c) \/ Crash(c)
    \/ \E e \in ledger : ApplyLate(e) \/ Refuse(e)
    \/ \E n \in Names : Delete(n)
    \/ \E k \in Keys : MarkerAges(k)

Spec == Init /\ [][Next]_vars

(***************************************************************************)
(* Properties.                                                             *)
(***************************************************************************)
(* Every variable keeps its type: markers, which name an entity as         *)
(* handle_marker_status expects, catalogs, events and calls.               *)
TypeOK ==
    /\ \A k \in Keys :
        marker[k] \in [status : {"Absent", "InProgress", "Committed", "Failed"},
                      name : Names \cup {NoName}, id : Ids, stale : BOOLEAN, ver : 0 .. lastVer]
    /\ \A k \in Keys : /\ marker[k].status = "Committed" => marker[k].id # 0
                       /\ marker[k].status = "Failed" => marker[k].id = 0
    /\ visible \in [Names -> Ids]
    /\ ledger \subseteq [id : Ids \ {0}, name : Names, key : Keys \cup {NoKey}, n : 1 .. lastVer]
    /\ created \subseteq [id : Ids \ {0}, key : Keys \cup {NoKey}]
    /\ \A c \in Calls : /\ call[c].ver \in 0 .. lastVer
                        /\ call[c].id \in 0 .. lastId
                        /\ call[c].pc = "compact" => call[c].event \in 1 .. lastVer
    /\ lastId \in Ids /\ begun \in 0 .. MaxCalls
    /\ deletes \in 0 .. MaxDeletes /\ crashes \in 0 .. MaxCrashes

Own(k) == {e.id : e \in {x \in created : x.key = k}}

(* Calls with one key never create two catalogs, however slow the owners   *)
(* are that reserve_idempotency_entity and takeover race with, and even    *)
(* if the catalog was deleted before the call is repeated.                 *)
KeyCreatesOne == \A k \in Keys : Cardinality(Own(k)) <= 1

(* A committed marker names a catalog that its own calls made visible,     *)
(* never one of the same name that somebody else created                   *)
(* (recover_reserved_catalog), and a failure is cached only if no call     *)
(* with the key has left its catalog in place.                             *)
OutcomeTrue ==
    \A k \in Keys :
        /\ marker[k].status = "Committed" => marker[k].id \in Own(k)
        /\ marker[k].status = "Failed" /\ k \in Prompt =>
                visible[marker[k].name] \notin Own(k)

(* A cached failure means that the request had no effect.                  *)
FailureHadNoEffect ==
    \A k \in Keys : marker[k].status = "Failed" => visible[marker[k].name] \notin Own(k)
=============================================================================
