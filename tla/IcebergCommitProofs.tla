------------------------ MODULE IcebergCommitProofs ------------------------
(***************************************************************************)
(* Proofs about IcebergCommit for any number of tables, calls, keys and    *)
(* transactions, any retention and any bounds.  The invariant says what    *)
(* the storage looks like (FileInv, PointerInv, MarkerInv, GcInv) and what *)
(* a running call knows of it (CallInv); OnceInv adds why a guarded commit *)
(* is applied once.                                                        *)
(***************************************************************************)
EXTENDS IcebergCommit, NumberSetLemmas, FiniteSetTheorems, SequenceTheorems, TLAPS

(* The operations in a history, and in the one that ends at location l.    *)
Names(h, o) == \E i \in DOMAIN h : h[i].op = o
In(o, l) == Names(History(l), o)

KeyPcs == {"load", "claim", "recheck", "found", "takeover", "write", "swap", "fail",
           "finish", "reread"}
RepairPcs == {"pending", "abortStale", "clear", "finalize"}
Preparing == {"prepare", "stage", "mark", "update"}
Prepared == {"barrier", "commit", "reload", "publish"}
TxPcs == {"lookup", "abortOld", "create", "abort", "unmark"} \cup Preparing \cup Prepared
Ended == {"idle", "done", "dead"}
Pcs == KeyPcs \cup RepairPcs \cup TxPcs \cup Ended

(* The calls that work on the table At(c), those that know its pointer,    *)
(* and those that have a marker.                                           *)
Walking == {"prepare", "stage", "mark", "barrier", "publish", "unmark"} \cup RepairPcs
HasPtr == {"claim", "recheck", "takeover", "write", "swap", "stage", "mark"} \cup RepairPcs
HasMarker == {"recheck", "found", "takeover", "write", "swap", "fail", "finish"}

(* A file that is there and that the collector has not picked.             *)
Safe(l) == Exists(l) /\ l \notin gcOrphans

(* A call that has made the record of its transaction.                     *)
Has(c) == call[c].own # "none"

(* Where a call is.                                                        *)
PcInv(c) ==
    /\ pc[c] \in KeyPcs => op[c] \in Keys
    /\ pc[c] \in TxPcs => op[c] \in Txs
    /\ call[c].todo \subseteq OpTables[op[c]]
    /\ IsTx(c) /\ pc[c] \in Walking => call[c].todo # {}
    /\ pc[c] \in Preparing => call[c].own = "preparing"
    /\ IsTx(c) /\ pc[c] \in RepairPcs => call[c].own = "preparing"
    /\ pc[c] \in Prepared => call[c].own = "prepared"
    /\ pc[c] \in {"abort", "unmark"} => call[c].own \in {"preparing", "prepared"}
    /\ pc[c] \in Ended \cup KeyPcs \cup {"lookup", "abortOld", "create"} => call[c].own = "none"
    /\ op[c] \in Keys => call[c].own = "none"
    /\ pc[c] = "update" => call[c].todo = {}
    /\ pc[c] \in {"abortStale", "abortOld"} => call[c].seen \in {"preparing", "prepared"}

(* The pointer a call has read.                                            *)
PtrInv(c) ==
    pc[c] \in HasPtr =>
        LET p == call[c].ptr IN
        /\ p.cur \in DOMAIN files /\ p.cur.table = At(c)
        /\ p.ver <= pointer[At(c)].ver
        /\ p.ver = pointer[At(c)].ver => p = pointer[At(c)]
        /\ pc[c] \notin RepairPcs => p.pending = NoPending
        /\ pc[c] \in RepairPcs => p.pending # NoPending /\ record[p.pending.tx] # "none"
        /\ pc[c] = "clear" => record[p.pending.tx] = "aborted"
        /\ pc[c] = "finalize" => record[p.pending.tx] = "committed"

(* The transaction a call runs.                                            *)
Done(c) == IF call[c].own = "preparing" THEN OpTables[op[c]] \ call[c].todo ELSE OpTables[op[c]]

(* The metadata file it stages: TxLocation.                                *)
TxLocationAt(c) == Location(At(c), call[c].ptr.cur.seq + 1, op[c], None)

TxInv(c) ==
    Has(c) =>
        /\ pc[c] # "publish" => record[op[c]] \in {call[c].own, "aborted"}
        /\ pc[c] = "publish" => record[op[c]] = "committed"
        /\ pc[c] = "unmark" => record[op[c]] = "aborted"
        /\ record[op[c]] = call[c].own =>
             \A t \in Done(c) : pointer[t].pending.tx = op[c]
        /\ pc[c] \in RepairPcs \cup {"prepare", "stage"} =>
             \A l \in DOMAIN files : l.op = op[c] => l.table \notin call[c].todo
        /\ pc[c] = "mark" =>
             /\ \A l \in DOMAIN files : l.op = op[c] /\ l.table \in call[c].todo => l = TxLocationAt(c)
             /\ Safe(TxLocationAt(c))
             /\ call[c].ptr.ver = pointer[At(c)].ver =>
                  files[TxLocationAt(c)] = History(call[c].ptr.cur)

(* The marker a call has claimed or read.                                  *)
KeyInv(c) ==
    /\ pc[c] \in HasMarker =>
         LET l == call[c].mk.loc IN
         /\ l \in Locations /\ l.op = op[c] /\ l.table = At(c)
         /\ pc[c] \in {"write", "swap"} => l.seq = call[c].ptr.cur.seq + 1
         /\ pc[c] = "swap" =>
              /\ Safe(l)
              /\ call[c].ptr.ver = pointer[At(c)].ver => files[l] = History(call[c].ptr.cur)
    /\ pc[c] \in {"found", "finish"} => In(op[c], Effective(At(c)))
    /\ reply[c] = "ok" => \A t \in OpTables[op[c]] : In(op[c], Effective(t))

BaseInv(c) ==
    pc[c] = "swap" /\ op[c] \in Guarded => base[op[c]][At(c)] = call[c].ptr.cur

CallInv(c) == PcInv(c) /\ PtrInv(c) /\ TxInv(c) /\ KeyInv(c)

FileInv ==
    /\ files \in [DOMAIN files -> Seq(DOMAIN files)]
    /\ \A l \in DOMAIN files : Len(files[l]) = l.seq
    /\ \A l \in DOMAIN files : l.op \in Txs => record[l.op] # "none"
    /\ gcOrphans \subseteq DOMAIN files \ gone

PointerInv(t) ==
    LET p == pointer[t] IN
    /\ p.cur \in Locations /\ p.cur.table = t /\ Safe(p.cur)
    /\ p.pending # NoPending =>
         /\ t \in OpTables[p.pending.tx]
         /\ p.pending.loc.op = p.pending.tx /\ p.pending.loc.table = t /\ Safe(p.pending.loc)
         /\ files[p.pending.loc] = History(p.cur)
         /\ record[p.pending.tx] # "none"
    /\ \A x \in Txs : In(x, p.cur) => record[x] = "committed"
    /\ \A x \in Txs : t \in OpTables[x] /\ record[x] = "committed" =>
         In(x, p.cur) \/ p.pending.tx = x

(* A marker is about its key, and true.                                    *)
MarkerOK(k, m) ==
    m.status # "none" =>
        /\ m.loc \in Locations /\ m.loc.op = k /\ m.loc.table \in OpTables[k]
        /\ m.status = "committed" => In(k, Effective(m.loc.table))

MarkerInv == \A k \in Keys : MarkerOK(k, marker[k])

GcInv ==
    gcMarker # None =>
        /\ gcMarker \in [key : Keys, read : Markers, step : {"check", "finalize", "delete"}]
        /\ gcMarker.read.loc \in Locations
        /\ gcMarker.read.loc.op = gcMarker.key /\ gcMarker.read.loc.table \in OpTables[gcMarker.key]
        /\ gcMarker.step = "finalize" => In(gcMarker.key, Effective(gcMarker.read.loc.table))

UniqueInv == \A c, d \in Calls : Has(c) /\ Has(d) /\ op[c] = op[d] => c = d

TypeInv == TypeOK /\ op \in [Calls -> Ops] /\ pc \in [Calls -> Pcs]

IndInv ==
    /\ TypeInv /\ FileInv /\ MarkerInv /\ GcInv /\ UniqueInv
    /\ \A t \in Tables : PointerInv(t)
    /\ \A c \in Calls : CallInv(c)

(* A guarded commit that is applied has arrived, and the table is past the *)
(* metadata that it asserts.                                               *)
PastBase(k, t) ==
    In(k, Effective(t)) =>
        /\ \E c \in Calls : op[c] = k /\ pc[c] # "idle"
        /\ base[k][t] \in Locations /\ base[k][t].seq < Effective(t).seq

Twice(h, o) == \E i, j \in DOMAIN h : i # j /\ h[i].op = o /\ h[j].op = o

OnceInv ==
    /\ \A c \in Calls : BaseInv(c)
    /\ \A k \in Guarded \cap Keys : \A t \in OpTables[k] : PastBase(k, t)
    /\ \A o \in Guarded \cup Txs : \A t \in OpTables[o] : ~Twice(History(Effective(t)), o)

----------------------------------------------------------------------------
(* The tables of an operation, and the one a call is at.                   *)
LEMMA OpFacts ==
    /\ \A o \in Ops : OpTables[o] \subseteq Tables /\ OpTables[o] # {}
    /\ \A k \in Keys : \A t, u \in OpTables[k] : t = u
    /\ Keys \cap Txs = {} /\ None \notin Ops /\ None \notin Calls
<1>1. \A o \in Ops : OpTables[o] \subseteq Tables /\ OpTables[o] # {}
    BY IcebergAssumption
<1>2. ASSUME NEW k \in Keys PROVE \A t, u \in OpTables[k] : t = u
    <2>1. OpTables[k] \in SUBSET Tables
        BY <1>1 DEF Ops
    <2>2. IsFiniteSet(OpTables[k]) /\ Cardinality(OpTables[k]) = 1
        BY <2>1, FS_Subset, IcebergAssumption
    <2>3. \E x : OpTables[k] = {x}
        BY <2>2, FS_Singleton
    <2> QED  BY <2>3
<1> QED  BY <1>1, <1>2, IcebergAssumption

LEMMA AtFacts ==
    ASSUME TypeInv, NEW c \in Calls, PcInv(c)
    PROVE  /\ op[c] \in Keys => At(c) = TableOf(c) /\ At(c) \in OpTables[op[c]]
           /\ op[c] \in Txs /\ call[c].todo # {} =>
                At(c) \in call[c].todo /\ At(c) \in OpTables[op[c]]
           /\ op[c] \in Ops
           /\ \A t \in OpTables[op[c]] : t \in Tables
<1>1. op[c] \in Ops /\ op[c] \in Keys \cup Txs
    BY DEF TypeInv, Ops
<1>2. \A t \in OpTables[op[c]] : t \in Tables
    BY <1>1, OpFacts
<1>3. ASSUME op[c] \in Keys PROVE At(c) = TableOf(c) /\ At(c) \in OpTables[op[c]]
    BY <1>1, <1>3, OpFacts DEF At, IsTx, TableOf
<1>4. ASSUME op[c] \in Txs, call[c].todo # {} PROVE At(c) \in call[c].todo
    <2>1. call[c].todo \subseteq Tables
        BY <1>2 DEF PcInv
    <2>2. call[c].todo \in SUBSET Int /\ IsFiniteSet(call[c].todo)
        <3>1. Tables \subseteq Int /\ IsFiniteSet(Tables)
            BY IcebergAssumption
        <3> QED  BY <2>1, <3>1, FS_Subset
    <2>3. Min(call[c].todo) \in call[c].todo
        BY <2>2, <1>4, MinFacts
    <2> QED  BY <2>3, <1>4 DEF At, IsTx
<1> QED  BY <1>1, <1>2, <1>3, <1>4 DEF PcInv

----------------------------------------------------------------------------
(* Pointers that are written.                                              *)
LEMMA PendingFacts ==
    ASSUME NEW p \in Pointers
    PROVE  /\ p.ver \in Nat /\ p.cur \in Locations \cup {None} /\ p.prev \in Locations \cup {None}
           /\ p.pending # NoPending => p.pending.tx \in Txs /\ p.pending.loc \in Locations
           /\ p.pending.tx \in Txs => p.pending # NoPending
<1>1. None \notin Txs
    BY OpFacts DEF Ops
<1> QED  BY <1>1 DEF Pointers, NoPending

LEMMA WithoutFacts ==
    ASSUME NEW p \in Pointers
    PROVE  LET q == WithoutPending(p) IN
           q \in Pointers /\ q.cur = p.cur /\ q.pending = NoPending
BY DEF Pointers, WithoutPending

LEMMA FinalizeFacts ==
    ASSUME NEW p \in Pointers, p.pending # NoPending
    PROVE  LET q == FinalizePending(p) IN
           q \in Pointers /\ q.cur = p.pending.loc /\ q.pending = NoPending
BY PendingFacts DEF Pointers, FinalizePending

LEMMA SwapFacts ==
    ASSUME NEW p \in Pointers, NEW l \in Locations
    PROVE  LET q == [p EXCEPT !.cur = l, !.prev = p.cur, !.pending = NoPending] IN
           q \in Pointers /\ q.cur = l /\ q.pending = NoPending
BY DEF Pointers

LEMMA MarkFacts ==
    ASSUME NEW p \in Pointers, NEW x \in Txs, NEW l \in Locations
    PROVE  LET q == [p EXCEPT !.pending = [tx |-> x, loc |-> l]] IN
           q \in Pointers /\ q.cur = p.cur /\ q.pending = [tx |-> x, loc |-> l]
BY DEF Pointers

LEMMA SetFacts ==
    ASSUME pointer \in [Tables -> Pointers], NEW t \in Tables, NEW p \in Pointers, SetPointer(t, p)
    PROVE  /\ pointer' \in [Tables -> Pointers]
           /\ \A u \in Tables : u # t => pointer'[u] = pointer[u]
           /\ pointer'[t].ver = pointer[t].ver + 1
           /\ pointer'[t].cur = p.cur /\ pointer'[t].pending = p.pending
<1>1. pointer[t].ver + 1 \in Nat
    BY PendingFacts
<1> DEFINE q == [p EXCEPT !.ver = pointer[t].ver + 1]
<1>2. q \in Pointers /\ q.ver = pointer[t].ver + 1 /\ q.cur = p.cur /\ q.pending = p.pending
    BY <1>1 DEF Pointers
<1>3. pointer' = [pointer EXCEPT ![t] = q]
    BY DEF SetPointer
<1> HIDE DEF q
<1> QED  BY <1>2, <1>3

----------------------------------------------------------------------------
(* What a step does to the files, the pointers and the records: nothing,   *)
(* a new file, ...                                                         *)
Quiet == UNCHANGED <<pointer, files, gone, record, gcOrphans>>

NewFile(l, b) ==
    /\ l \in Locations /\ ~Exists(l)
    /\ b \in DOMAIN files /\ l.seq = b.seq + 1
    /\ l.op \in Txs => record[l.op] # "none"
    /\ files' = Put(l, History(b)) /\ gone' = gone \ {l}
    /\ UNCHANGED <<pointer, record, gcOrphans>>

(* ... one pointer, in one of four ways, ...                               *)
Swapped(t) ==
    LET l == pointer'[t].cur IN
    /\ pointer[t].pending = NoPending /\ pointer'[t].pending = NoPending
    /\ l \in Locations /\ l.table = t /\ l.op \in Keys
    /\ Safe(l) /\ files[l] = History(pointer[t].cur)

Cleared(t) ==
    /\ pointer[t].pending # NoPending /\ pointer'[t].pending = NoPending
    /\ record[pointer[t].pending.tx] = "aborted"
    /\ pointer'[t].cur = pointer[t].cur

Finalized(t) ==
    /\ pointer[t].pending # NoPending /\ pointer'[t].pending = NoPending
    /\ record[pointer[t].pending.tx] = "committed"
    /\ pointer'[t].cur = pointer[t].pending.loc

Marked(t) ==
    LET new == pointer'[t].pending IN
    /\ pointer[t].pending = NoPending /\ new # NoPending
    /\ pointer'[t].cur = pointer[t].cur
    /\ t \in OpTables[new.tx] /\ new.loc.op = new.tx /\ new.loc.table = t
    /\ record[new.tx] \notin {"none", "committed"}
    /\ Safe(new.loc) /\ files[new.loc] = History(pointer[t].cur)

PointerMoves(t) ==
    /\ pointer' \in [Tables -> Pointers]
    /\ \A u \in Tables : u # t => pointer'[u] = pointer[u]
    /\ pointer'[t].ver = pointer[t].ver + 1
    /\ Swapped(t) \/ Cleared(t) \/ Finalized(t) \/ Marked(t)
    /\ UNCHANGED <<files, gone, record, gcOrphans>>

(* ... one record, ...                                                     *)
RecordMoves(x) ==
    /\ \/ record[x] = "none" /\ record' = [record EXCEPT ![x] = "preparing"]
       \/ record[x] = "preparing" /\ record' = [record EXCEPT ![x] = "prepared"]
       \/ record[x] \in {"preparing", "prepared"} /\ record' = [record EXCEPT ![x] = "aborted"]
       \/ /\ record[x] = "prepared" /\ record' = [record EXCEPT ![x] = "committed"]
          /\ \A t \in OpTables[x] : pointer[t].pending.tx = x
    /\ UNCHANGED <<pointer, files, gone, gcOrphans>>

(* ... or what the collector takes.                                        *)
Plans(t) ==
    /\ gcOrphans' \subseteq
         {l \in DOMAIN files \ gone : /\ l.table = t
                                      /\ l # pointer[t].cur /\ l # pointer[t].pending.loc
                                      /\ \A c \in Calls : Publishing(c) => op[c] # l.op}
    /\ UNCHANGED <<pointer, files, gone, record>>

Sweeps ==
    /\ gone' = gone \cup gcOrphans /\ gcOrphans' = {}
    /\ UNCHANGED <<pointer, files, record>>

StorageMoves ==
    \/ Quiet
    \/ \E l \in Locations, b \in DOMAIN files : NewFile(l, b)
    \/ \E t \in Tables : PointerMoves(t) \/ Plans(t)
    \/ \E x \in Txs : RecordMoves(x)
    \/ Sweeps

----------------------------------------------------------------------------
(* The storage.  A file's history is its log with the file at the end.     *)
StoreTypes ==
    /\ pointer \in [Tables -> Pointers]
    /\ DOMAIN files \subseteq Locations /\ gone \subseteq DOMAIN files
    /\ record \in [Txs -> Statuses]

StoreInv == StoreTypes /\ FileInv /\ \A t \in Tables : PointerInv(t)

LEMMA HistoryFacts ==
    ASSUME FileInv, DOMAIN files \subseteq Locations, NEW l \in DOMAIN files
    PROVE  /\ l.seq \in Nat
           /\ History(l) \in Seq(DOMAIN files) /\ Len(History(l)) = l.seq + 1
           /\ DOMAIN History(l) = 1 .. (l.seq + 1)
           /\ History(l)[l.seq + 1] = l
           /\ \A i \in 1 .. l.seq : History(l)[i] = files[l][i] /\ files[l][i] \in DOMAIN files
<1>1. l.seq \in Nat
    BY DEF Locations
<1>2. files[l] \in Seq(DOMAIN files) /\ Len(files[l]) = l.seq
    BY DEF FileInv
<1> QED  BY <1>1, <1>2 DEF History

LEMMA NamesAppend ==
    ASSUME NEW S, NEW h \in Seq(S), NEW l \in S
    PROVE  \A o : Names(Append(h, l), o) <=> Names(h, o) \/ l.op = o
<1>1. /\ DOMAIN Append(h, l) = 1 .. (Len(h) + 1) /\ DOMAIN h = 1 .. Len(h) /\ Len(h) \in Nat
      /\ Append(h, l)[Len(h) + 1] = l
      /\ \A i \in 1 .. Len(h) : Append(h, l)[i] = h[i]
    OBVIOUS
<1> QED  BY <1>1 DEF Names

LEMMA InSelf ==
    ASSUME FileInv, DOMAIN files \subseteq Locations, NEW l \in DOMAIN files
    PROVE  In(l.op, l)
<1>1. files[l] \in Seq(DOMAIN files)
    BY DEF FileInv
<1> QED  BY <1>1, NamesAppend DEF In, History

(* A file that exists is not written again.                                *)
LEMMA NewFileFacts ==
    ASSUME StoreInv, NEW l \in Locations, NEW b \in DOMAIN files, NewFile(l, b)
    PROVE  /\ DOMAIN files' = DOMAIN files \cup {l}
           /\ files'[l] = History(b)
           /\ \A m \in DOMAIN files : m # l => files'[m] = files[m]
           /\ \A m : Exists(m) => m # l /\ Exists(m)' /\ files'[m] = files[m]
           /\ Exists(l)' /\ l \notin gcOrphans'
<1>1. /\ DOMAIN files' = DOMAIN files \cup {l}
      /\ files'[l] = History(b)
      /\ \A m \in DOMAIN files : m # l => files'[m] = files[m]
    BY DEF NewFile, Put
<1>2. \A m : Exists(m) => m # l /\ Exists(m)' /\ files'[m] = files[m]
    BY <1>1 DEF Exists, NewFile
<1> QED  BY <1>1, <1>2 DEF Exists, NewFile, StoreInv, FileInv

LEMMA FileNext ==
    ASSUME StoreInv, StorageMoves
    PROVE  StoreTypes' /\ FileInv'
<1>1. CASE Quiet
    BY <1>1 DEF Quiet, StoreInv, StoreTypes, FileInv
<1>2. ASSUME NEW l \in Locations, NEW b \in DOMAIN files, NewFile(l, b)
      PROVE  StoreTypes' /\ FileInv'
    <2>1. StoreTypes'
        BY <1>2, NewFileFacts DEF NewFile, StoreTypes, StoreInv
    <2>2. \A m \in DOMAIN files' : (m \in DOMAIN files /\ m # l) \/ m = l
        BY <1>2, NewFileFacts
    <2>3. History(b) \in Seq(DOMAIN files) /\ Len(History(b)) = l.seq
        BY <1>2, HistoryFacts DEF NewFile, StoreInv, StoreTypes
    <2>4. \A m \in DOMAIN files' : files'[m] \in Seq(DOMAIN files') /\ Len(files'[m]) = m.seq
        <3>1. \A q \in Seq(DOMAIN files) : q \in Seq(DOMAIN files')
            <4>1. DOMAIN files \subseteq DOMAIN files'
                BY <1>2, NewFileFacts
            <4>2. ASSUME NEW q \in Seq(DOMAIN files) PROVE q \in Seq(DOMAIN files')
                BY <4>1, <4>2
            <4> QED  BY <4>2
        <3> QED  BY <1>2, <2>2, <2>3, <3>1, NewFileFacts DEF StoreInv, FileInv
    <2>5. \A m \in DOMAIN files' : m.op \in Txs => record'[m.op] # "none"
        BY <1>2, <2>2 DEF NewFile, StoreInv, FileInv
    <2>6. gcOrphans' \subseteq DOMAIN files' \ gone'
        BY <1>2, NewFileFacts DEF NewFile, StoreInv, FileInv
    <2>7. files' \in [DOMAIN files' -> Seq(DOMAIN files')]
        <3>1. files' = [x \in DOMAIN files' |-> files'[x]]
            BY <1>2 DEF NewFile, Put
        <3> QED  BY <2>4, <3>1
    <2> QED  BY <2>1, <2>4, <2>5, <2>6, <2>7 DEF FileInv
<1>3. ASSUME NEW t \in Tables, PointerMoves(t) \/ Plans(t)
      PROVE  StoreTypes' /\ FileInv'
    BY <1>3 DEF PointerMoves, Plans, StoreInv, StoreTypes, FileInv
<1>4. ASSUME NEW x \in Txs, RecordMoves(x)
      PROVE  StoreTypes' /\ FileInv'
    <2>1. record' \in [Txs -> Statuses] /\ \A y \in Txs : record[y] # "none" => record'[y] # "none"
        BY <1>4 DEF RecordMoves, StoreInv, StoreTypes, Statuses
    <2> QED  BY <1>4, <2>1 DEF RecordMoves, StoreInv, StoreTypes, FileInv
<1>5. CASE Sweeps
    BY <1>5 DEF Sweeps, StoreInv, StoreTypes, FileInv
<1> QED  BY <1>1, <1>2, <1>3, <1>4, <1>5 DEF StorageMoves

(* What a file that is kept says.                                          *)
LEMMA CurFacts ==
    ASSUME StoreInv, NEW t \in Tables
    PROVE  LET p == pointer[t] IN
           /\ p \in Pointers /\ p.ver \in Nat
           /\ p.cur \in DOMAIN files /\ History(p.cur) \in Seq(DOMAIN files)
           /\ p.pending # NoPending => /\ p.pending.tx \in Txs
                                       /\ p.pending.loc \in DOMAIN files
                                       /\ p.pending.loc \in Locations
           /\ \A x \in Txs : p.pending.tx = x => p.pending # NoPending
<1>1. pointer[t] \in Pointers
    BY DEF StoreInv, StoreTypes
<1>2. pointer[t].cur \in DOMAIN files
    BY DEF StoreInv, PointerInv, Safe, Exists
<1>3. History(pointer[t].cur) \in Seq(DOMAIN files)
    BY <1>2, HistoryFacts DEF StoreInv, StoreTypes
<1>4. pointer[t].pending # NoPending => pointer[t].pending.loc \in DOMAIN files
    BY DEF StoreInv, PointerInv, Safe, Exists
<1> QED  BY <1>1, <1>2, <1>3, <1>4, PendingFacts

(* A table whose pointer, files and transactions stay as they are.         *)
LEMMA TableStays ==
    ASSUME StoreInv, NEW t \in Tables, pointer'[t] = pointer[t],
           \A l : Safe(l) => files'[l] = files[l],
           Safe(pointer[t].cur) => Safe(pointer[t].cur)',
           pointer[t].pending # NoPending /\ Safe(pointer[t].pending.loc)
             => Safe(pointer[t].pending.loc)',
           \A x \in Txs : record'[x] = record[x]
    PROVE  PointerInv(t)'
<1> DEFINE p == pointer[t]
<1>0. pointer'[t] = p /\ PointerInv(t)
    BY DEF StoreInv
<1>1. p.cur \in Locations /\ p.cur.table = t /\ Safe(p.cur) /\ Safe(p.cur)'
    BY DEF StoreInv, PointerInv
<1>2. files'[p.cur] = files[p.cur]
    BY <1>1
<1>3. ASSUME p.pending # NoPending
      PROVE  /\ t \in OpTables[p.pending.tx] /\ p.pending.tx \in Txs
             /\ p.pending.loc.op = p.pending.tx /\ p.pending.loc.table = t
             /\ Safe(p.pending.loc)'
             /\ files'[p.pending.loc] = Append(files[p.cur], p.cur)
             /\ record[p.pending.tx] # "none"
    BY <1>3, CurFacts DEF StoreInv, PointerInv, History
<1>4. \A x \in Txs : Names(Append(files[p.cur], p.cur), x) => record[x] = "committed"
    BY DEF StoreInv, PointerInv, In, History
<1>5. \A x \in Txs : t \in OpTables[x] /\ record[x] = "committed" =>
         Names(Append(files[p.cur], p.cur), x) \/ p.pending.tx = x
    BY DEF StoreInv, PointerInv, In, History
<1> QED  BY <1>0, <1>1, <1>2, <1>3, <1>4, <1>5 DEF PointerInv, In, History

(* The pointer that moves.                                                 *)
LEMMA TableMoves ==
    ASSUME StoreInv, NEW t \in Tables, PointerMoves(t)
    PROVE  PointerInv(t)'
<1> DEFINE p == pointer[t]  q == pointer'[t]
<1>0. /\ UNCHANGED <<files, gone, record, gcOrphans>>
      /\ \A l : Safe(l) <=> l \in DOMAIN files' \ gone' /\ l \notin gcOrphans'
    BY DEF PointerMoves, Safe, Exists
<1>1. /\ p.cur \in Locations /\ p.cur.table = t /\ Safe(p.cur)
      /\ \A x \in Txs : Names(Append(files[p.cur], p.cur), x) => record[x] = "committed"
      /\ \A x \in Txs : t \in OpTables[x] /\ record[x] = "committed" =>
           Names(Append(files[p.cur], p.cur), x) \/ p.pending.tx = x
    BY DEF StoreInv, PointerInv, In, History
<1>2. p.cur \in DOMAIN files /\ Append(files[p.cur], p.cur) \in Seq(DOMAIN files)
    BY CurFacts DEF History
<1>3. p.pending = NoPending => p.pending.tx \notin Txs
    BY CurFacts
<1>4. q \in Pointers
    BY DEF PointerMoves
<1>5. \A l \in DOMAIN files : files[l] = Append(files[p.cur], p.cur) =>
         \A x : Names(Append(files[l], l), x) <=>
                  Names(Append(files[p.cur], p.cur), x) \/ l.op = x
    <2>1. PICK h : h = Append(files[p.cur], p.cur)
        OBVIOUS
    <2>2. h \in Seq(DOMAIN files)
        BY <1>2, <2>1
    <2>3. \A l \in DOMAIN files : \A x : Names(Append(h, l), x) <=> Names(h, x) \/ l.op = x
        BY <2>2, NamesAppend
    <2> QED  BY <2>1, <2>3
<1>6. CASE Swapped(t)
    <2>1. /\ q.cur \in Locations /\ q.cur.table = t /\ Safe(q.cur) /\ q.cur.op \in Keys
          /\ files[q.cur] = Append(files[p.cur], p.cur)
          /\ p.pending = NoPending /\ q.pending = NoPending
        BY <1>6 DEF Swapped, History
    <2>2. q.cur \in DOMAIN files /\ q.cur.op \notin Txs
        BY <2>1, OpFacts DEF Safe, Exists
    <2>3. \A x \in Txs : Names(Append(files[q.cur], q.cur), x) <=>
                           Names(Append(files[p.cur], p.cur), x)
        BY <1>5, <2>1, <2>2
    <2> QED  BY <1>0, <1>1, <1>3, <2>1, <2>3 DEF PointerInv, In, History, Safe, Exists
<1>7. CASE Cleared(t)
    <2>1. /\ q.cur = p.cur /\ q.pending = NoPending /\ p.pending.tx \in Txs
          /\ record[p.pending.tx] = "aborted"
        BY <1>7, CurFacts DEF Cleared
    <2>2. \A x \in Txs : t \in OpTables[x] /\ record[x] = "committed" =>
             Names(Append(files[p.cur], p.cur), x)
        BY <1>1, <2>1
    <2> QED  BY <1>0, <1>1, <2>1, <2>2 DEF PointerInv, In, History, Safe, Exists
<1>8. CASE Finalized(t)
    <2>1. /\ q.cur = p.pending.loc /\ q.pending = NoPending /\ p.pending.tx \in Txs
          /\ record[p.pending.tx] = "committed" /\ p.pending # NoPending
        BY <1>8, CurFacts DEF Finalized
    <2>2. /\ q.cur \in Locations /\ q.cur.table = t /\ Safe(q.cur) /\ q.cur.op = p.pending.tx
          /\ files[q.cur] = Append(files[p.cur], p.cur)
        BY <2>1, CurFacts DEF StoreInv, PointerInv, History
    <2>3. q.cur \in DOMAIN files
        BY <2>2 DEF Safe, Exists
    <2>4. \A x \in Txs : Names(Append(files[q.cur], q.cur), x) <=>
                           Names(Append(files[p.cur], p.cur), x) \/ p.pending.tx = x
        BY <1>5, <2>2, <2>3
    <2> QED  BY <1>0, <1>1, <2>1, <2>2, <2>4 DEF PointerInv, In, History, Safe, Exists
<1>9. CASE Marked(t)
    <2>1. /\ q.cur = p.cur /\ p.pending = NoPending /\ q.pending # NoPending
          /\ t \in OpTables[q.pending.tx] /\ q.pending.loc.op = q.pending.tx
          /\ q.pending.loc.table = t /\ Safe(q.pending.loc)
          /\ record[q.pending.tx] # "none"
          /\ files[q.pending.loc] = Append(files[p.cur], p.cur)
        BY <1>9 DEF Marked, History
    <2>2. \A x \in Txs : t \in OpTables[x] /\ record[x] = "committed" =>
             Names(Append(files[p.cur], p.cur), x)
        BY <1>1, <1>3, <2>1
    <2> QED  BY <1>0, <1>1, <2>1, <2>2 DEF PointerInv, In, History, Safe, Exists
<1> QED  BY <1>6, <1>7, <1>8, <1>9 DEF PointerMoves

LEMMA PointerNext ==
    ASSUME StoreInv, StorageMoves, NEW t \in Tables
    PROVE  PointerInv(t)'
<1>1. CASE Quiet
    BY <1>1, TableStays DEF Quiet, Safe, Exists
<1>2. ASSUME NEW l \in Locations, NEW b \in DOMAIN files, NewFile(l, b) PROVE PointerInv(t)'
    <2>1. \A m : Safe(m) => files'[m] = files[m] /\ m \in DOMAIN files' \ gone' /\ m \notin gcOrphans'
        BY <1>2, NewFileFacts DEF Safe, Exists, NewFile
    <2>2. pointer' = pointer /\ record' = record
        BY <1>2 DEF NewFile
    <2> QED  BY <2>1, <2>2, TableStays DEF Safe, Exists
<1>3. ASSUME NEW u \in Tables, PointerMoves(u) PROVE PointerInv(t)'
    <2>1. CASE t = u
        BY <1>3, <2>1, TableMoves
    <2>2. CASE t # u
        <3>1. pointer'[t] = pointer[t] /\ UNCHANGED <<files, gone, record, gcOrphans>>
            BY <1>3, <2>2 DEF PointerMoves
        <3> QED  BY <3>1, TableStays DEF Safe, Exists
    <2> QED  BY <2>1, <2>2
<1>4. ASSUME NEW u \in Tables, Plans(u) PROVE PointerInv(t)'
    <2>1. UNCHANGED <<pointer, files, gone, record>>
        BY <1>4 DEF Plans
    <2>2. pointer[t].cur \notin gcOrphans'
        <3>1. pointer[t].cur.table = t
            BY DEF StoreInv, PointerInv
        <3> QED  BY <1>4, <3>1 DEF Plans
    <2>3. pointer[t].pending # NoPending => pointer[t].pending.loc \notin gcOrphans'
        <3>1. pointer[t].pending # NoPending => pointer[t].pending.loc.table = t
            BY DEF StoreInv, PointerInv
        <3> QED  BY <1>4, <3>1 DEF Plans
    <2> QED  BY <2>1, <2>2, <2>3, TableStays DEF Safe, Exists
<1>5. CASE Sweeps
    <2>1. UNCHANGED <<pointer, files, record>> /\ gone' = gone \cup gcOrphans /\ gcOrphans' = {}
        BY <1>5 DEF Sweeps
    <2> QED  BY <2>1, TableStays DEF Safe, Exists
<1>6. ASSUME NEW x \in Txs, RecordMoves(x) PROVE PointerInv(t)'
    <2> DEFINE p == pointer[t]
    <2>1. UNCHANGED <<pointer, files, gone, gcOrphans>>
        BY <1>6 DEF RecordMoves
    <2>2. /\ \A y \in Txs : y # x => record'[y] = record[y]
          /\ record[x] # "none" => record'[x] # "none"
          /\ record[x] # "committed"
          /\ record'[x] = "committed" => \A u \in OpTables[x] : pointer[u].pending.tx = x
        BY <1>6 DEF RecordMoves, StoreInv, StoreTypes
    <2>3. /\ p.cur \in Locations /\ p.cur.table = t /\ Safe(p.cur)
          /\ \A y \in Txs : In(y, p.cur) => record[y] = "committed"
          /\ \A y \in Txs : t \in OpTables[y] /\ record[y] = "committed" =>
               In(y, p.cur) \/ p.pending.tx = y
          /\ p.pending # NoPending =>
               /\ t \in OpTables[p.pending.tx]
               /\ p.pending.loc.op = p.pending.tx /\ p.pending.loc.table = t /\ Safe(p.pending.loc)
               /\ files[p.pending.loc] = History(p.cur)
               /\ record[p.pending.tx] # "none" /\ p.pending.tx \in Txs
        BY CurFacts DEF StoreInv, PointerInv
    <2>4. /\ \A y \in Txs : In(y, p.cur) => record'[y] = "committed"
          /\ \A y \in Txs : t \in OpTables[y] /\ record'[y] = "committed" =>
               In(y, p.cur) \/ p.pending.tx = y
          /\ p.pending # NoPending => record'[p.pending.tx] # "none"
        BY <2>2, <2>3
    <2> QED  BY <2>1, <2>3, <2>4 DEF PointerInv, In, History, Safe, Exists
<1> QED  BY <1>1, <1>2, <1>3, <1>4, <1>5, <1>6 DEF StorageMoves

----------------------------------------------------------------------------
(* The history that readers are sent to: it stays, or it gets the commit   *)
(* of a swap or of the transaction that is committed.                      *)
LEMMA EffectiveFacts ==
    ASSUME StoreInv, NEW t \in Tables
    PROVE  LET l == Effective(t) IN
           /\ l \in DOMAIN files /\ l \in Locations /\ l.table = t /\ Safe(l) /\ l.seq \in Nat
           /\ History(l) \in Seq(DOMAIN files)
           /\ pointer[t].pending = NoPending => l = pointer[t].cur
           /\ pointer[t].pending # NoPending =>
                l = IF record[pointer[t].pending.tx] = "committed"
                    THEN pointer[t].pending.loc ELSE pointer[t].cur
<1> DEFINE p == pointer[t]
<1>1. p.pending # NoPending => p.pending.loc \in DOMAIN files /\ p.pending.loc \in Locations
    BY CurFacts
<1>2. /\ p.cur \in DOMAIN files /\ p.cur.table = t /\ Safe(p.cur) /\ p.cur \in Locations
      /\ p.pending # NoPending => p.pending.loc.table = t /\ Safe(p.pending.loc)
    BY CurFacts DEF StoreInv, PointerInv
<1>3. Effective(t) = IF p.pending # NoPending /\ record[p.pending.tx] = "committed"
                     THEN p.pending.loc ELSE p.cur
    BY DEF Effective, EffectiveLocation
<1>4. /\ Effective(t) \in DOMAIN files /\ Effective(t) \in Locations
      /\ Effective(t).table = t /\ Safe(Effective(t))
    BY <1>1, <1>2, <1>3
<1>5. History(Effective(t)) \in Seq(DOMAIN files) /\ Effective(t).seq \in Nat
    BY <1>4, HistoryFacts DEF StoreInv, StoreTypes
<1> QED  BY <1>3, <1>4, <1>5

Stays(t) ==
    Effective(t)' = Effective(t) /\ History(Effective(t))' = History(Effective(t))

Appends(t) ==
    LET m == Effective(t)' IN
    /\ m \in Locations /\ m.table = t /\ m.seq = Effective(t).seq + 1
    /\ History(Effective(t))' = Append(History(Effective(t)), m)
    /\ \/ PointerMoves(t) /\ Swapped(t) /\ Effective(t) = pointer[t].cur /\ m = pointer'[t].cur
       \/ m.op \in Txs /\ ~In(m.op, Effective(t)) /\ record'[m.op] = "committed"

LEMMA HistoryNext ==
    ASSUME StoreInv, StorageMoves, NEW t \in Tables
    PROVE  Stays(t) \/ Appends(t)
<1> DEFINE p == pointer[t]  q == pointer'[t]
<1>a. Effective(t)' = IF q.pending # NoPending /\ record'[q.pending.tx] = "committed"
                      THEN q.pending.loc ELSE q.cur
    BY DEF Effective, EffectiveLocation
<1>b. Effective(t) = IF p.pending # NoPending /\ record[p.pending.tx] = "committed"
                     THEN p.pending.loc ELSE p.cur
    BY DEF Effective, EffectiveLocation
<1>c. PICK l : l = Effective(t)
    OBVIOUS
<1>d. l \in DOMAIN files /\ Safe(l) /\ l.seq \in Nat
    BY <1>c, EffectiveFacts
<1>e. ASSUME Effective(t)' = l, files'[l] = files[l] PROVE Stays(t)
    BY <1>c, <1>e DEF Stays, History
<1>1. CASE Quiet
    <2>1. Effective(t)' = l /\ files'[l] = files[l]
        BY <1>1, <1>a, <1>b, <1>c DEF Quiet
    <2> QED  BY <1>e, <2>1
<1>2. ASSUME NEW n \in Locations, NEW b \in DOMAIN files, NewFile(n, b) PROVE Stays(t)
    <2>1. files'[l] = files[l]
        BY <1>2, <1>d, NewFileFacts DEF Safe
    <2>2. Effective(t)' = l
        BY <1>2, <1>a, <1>b, <1>c DEF NewFile
    <2> QED  BY <1>e, <2>1, <2>2
<1>3. ASSUME NEW u \in Tables, Plans(u) PROVE Stays(t)
    <2>1. Effective(t)' = l /\ files'[l] = files[l]
        BY <1>3, <1>a, <1>b, <1>c DEF Plans
    <2> QED  BY <1>e, <2>1
<1>4. CASE Sweeps
    <2>1. Effective(t)' = l /\ files'[l] = files[l]
        BY <1>4, <1>a, <1>b, <1>c DEF Sweeps
    <2> QED  BY <1>e, <2>1
<1>5. ASSUME NEW u \in Tables, PointerMoves(u) PROVE Stays(t) \/ Appends(t)
    <2>0. UNCHANGED <<files, record>>
        BY <1>5 DEF PointerMoves
    <2>1. CASE u # t
        <3>1. q = p
            BY <1>5, <2>1 DEF PointerMoves
        <3> QED  BY <1>a, <1>b, <1>c, <1>e, <2>0, <3>1
    <2>2. CASE u = t /\ Swapped(t)
        <3>1. /\ p.pending = NoPending /\ q.pending = NoPending
              /\ q.cur \in Locations /\ q.cur.table = t
              /\ files[q.cur] = History(p.cur) /\ q.cur \in DOMAIN files
            BY <2>2 DEF Swapped, Safe, Exists
        <3>2. l = p.cur /\ Effective(t)' = q.cur
            BY <1>a, <1>b, <1>c, <3>1
        <3>3. Len(files[q.cur]) = q.cur.seq /\ Len(History(p.cur)) = l.seq + 1
            BY <3>1, <3>2, <1>d, HistoryFacts DEF StoreInv, StoreTypes, FileInv
        <3>4. History(Effective(t))' = Append(History(l), q.cur)
            BY <2>0, <3>1, <3>2 DEF History
        <3> QED  BY <1>5, <2>2, <1>c, <3>1, <3>2, <3>3, <3>4 DEF Appends
    <2>3. CASE u = t /\ Cleared(t)
        <3>1. Effective(t)' = l
            BY <1>a, <1>b, <1>c, <2>3 DEF Cleared
        <3> QED  BY <1>e, <2>0, <3>1
    <2>4. CASE u = t /\ Finalized(t)
        <3>1. Effective(t)' = l
            BY <1>a, <1>b, <1>c, <2>4 DEF Finalized
        <3> QED  BY <1>e, <2>0, <3>1
    <2>5. CASE u = t /\ Marked(t)
        <3>1. Effective(t)' = l
            BY <1>a, <1>b, <1>c, <2>0, <2>5 DEF Marked
        <3> QED  BY <1>e, <2>0, <3>1
    <2> QED  BY <1>5, <2>1, <2>2, <2>3, <2>4, <2>5 DEF PointerMoves
<1>6. ASSUME NEW x \in Txs, RecordMoves(x) PROVE Stays(t) \/ Appends(t)
    <2>0. UNCHANGED <<pointer, files>>
        BY <1>6 DEF RecordMoves
    <2>1. /\ \A y \in Txs : y # x => record'[y] = record[y]
          /\ record[x] # "committed"
        BY <1>6 DEF RecordMoves, StoreInv, StoreTypes
    <2>2. CASE p.pending.tx = x /\ record'[x] = "committed"
        <3>1. p.pending # NoPending
            BY <2>2, CurFacts
        <3>2. l = p.cur /\ Effective(t)' = p.pending.loc
            BY <1>a, <1>b, <1>c, <2>0, <2>1, <2>2, <3>1
        <3>3. /\ p.pending.loc \in DOMAIN files /\ p.pending.loc \in Locations
              /\ p.pending.loc.table = t /\ p.pending.loc.op = x
              /\ files[p.pending.loc] = History(p.cur)
              /\ ~In(x, p.cur)
            BY <2>1, <2>2, <3>1, CurFacts DEF StoreInv, PointerInv
        <3>4. Len(files[p.pending.loc]) = p.pending.loc.seq /\ Len(History(p.cur)) = l.seq + 1
            BY <3>2, <3>3, <1>d, HistoryFacts DEF StoreInv, StoreTypes, FileInv
        <3>5. History(Effective(t))' = Append(History(l), p.pending.loc)
            BY <2>0, <3>2, <3>3 DEF History
        <3>6. Appends(t)
            BY <1>c, <2>2, <3>2, <3>3, <3>4, <3>5 DEF Appends
        <3> QED  BY <3>6
    <2>3. CASE ~(p.pending.tx = x /\ record'[x] = "committed")
        <3>1. p.pending # NoPending => p.pending.tx \in Txs
            BY CurFacts
        <3>2. Effective(t)' = l
            BY <1>a, <1>b, <1>c, <2>0, <2>1, <2>3, <3>1
        <3> QED  BY <1>e, <2>0, <3>2
    <2> QED  BY <2>2, <2>3
<1> QED  BY <1>1, <1>2, <1>3, <1>4, <1>5, <1>6 DEF StorageMoves

(* What is applied stays applied.                                          *)
LEMMA AppliedStays ==
    ASSUME StoreInv, StorageMoves, NEW t \in Tables, NEW o, In(o, Effective(t))
    PROVE  Names(History(Effective(t))', o)
<1>1. CASE Stays(t)
    BY <1>1 DEF Stays, In
<1>2. CASE Appends(t)
    <2>1. PICK h, m : /\ h = History(Effective(t)) /\ m = Effective(t)'
                      /\ History(Effective(t))' = Append(h, m)
        BY <1>2 DEF Appends
    <2>2. h \in Seq(Locations) /\ m \in Locations
        <3>1. h \in Seq(DOMAIN files) /\ DOMAIN files \subseteq Locations
            BY <2>1, EffectiveFacts DEF StoreInv, StoreTypes
        <3> QED  BY <3>1, <2>1, <1>2 DEF Appends
    <2>3. Names(h, o)
        BY <2>1 DEF In
    <2> QED  BY <2>1, <2>2, <2>3, NamesAppend
<1> QED  BY <1>1, <1>2, HistoryNext

----------------------------------------------------------------------------
(* How the storage may change under a running call.                        *)
Evolves ==
    /\ \A t \in Tables : /\ pointer[t].ver <= pointer'[t].ver
                         /\ pointer'[t].ver = pointer[t].ver => pointer'[t] = pointer[t]
    /\ DOMAIN files \subseteq DOMAIN files'
    /\ \A l : Exists(l) => files'[l] = files[l]
    /\ \A x \in Txs : /\ record[x] # "none" => record'[x] # "none"
                      /\ record[x] \in {"aborted", "committed"} => record'[x] = record[x]
    /\ \A x \in Txs, t \in Tables :
         pointer[t].pending.tx = x /\ record[x] \notin {"aborted", "committed"} =>
           pointer'[t].pending.tx = x
    /\ \A l, d : Safe(l) /\ d \in Calls /\ Publishing(d) /\ op[d] = l.op =>
         l \in DOMAIN files' \ gone' /\ l \notin gcOrphans'

LEMMA EvolvesNext ==
    ASSUME StoreInv, StorageMoves
    PROVE  Evolves
<1>0. \A t \in Tables : pointer[t].ver \in Nat
    BY CurFacts
<1>1. CASE Quiet
    BY <1>0, <1>1 DEF Quiet, Evolves, Safe, Exists
<1>2. ASSUME NEW l \in Locations, NEW b \in DOMAIN files, NewFile(l, b) PROVE Evolves
    <2>1. UNCHANGED <<pointer, record, gcOrphans>>
        BY <1>2 DEF NewFile
    <2>2. \A m : Exists(m) => /\ m \in DOMAIN files' \ gone' /\ files'[m] = files[m]
        BY <1>2, NewFileFacts DEF Exists
    <2>3. DOMAIN files \subseteq DOMAIN files'
        BY <1>2, NewFileFacts
    <2> QED  BY <1>0, <2>1, <2>2, <2>3 DEF Evolves, Safe
<1>3. ASSUME NEW u \in Tables, PointerMoves(u) PROVE Evolves
    <2>1. UNCHANGED <<files, gone, record, gcOrphans>>
        BY <1>3 DEF PointerMoves
    <2>2. \A t \in Tables : /\ pointer[t].ver <= pointer'[t].ver
                            /\ pointer'[t].ver = pointer[t].ver => pointer'[t] = pointer[t]
        BY <1>0, <1>3 DEF PointerMoves
    <2>3. ASSUME NEW x \in Txs, NEW t \in Tables, pointer[t].pending.tx = x,
                 record[x] \notin {"aborted", "committed"}
          PROVE  pointer'[t].pending.tx = x
        <3>1. pointer[t].pending # NoPending
            BY <2>3, CurFacts
        <3>2. ~(Swapped(t) \/ Cleared(t) \/ Finalized(t) \/ Marked(t))
            BY <2>3, <3>1 DEF Swapped, Cleared, Finalized, Marked
        <3>3. u # t
            BY <1>3, <3>2 DEF PointerMoves
        <3> QED  BY <1>3, <2>3, <3>3 DEF PointerMoves
    <2> QED  BY <2>1, <2>2, <2>3 DEF Evolves, Safe, Exists
<1>4. ASSUME NEW u \in Tables, Plans(u) PROVE Evolves
    <2>1. UNCHANGED <<pointer, files, gone, record>>
        BY <1>4 DEF Plans
    <2>2. \A l, d : d \in Calls /\ Publishing(d) /\ op[d] = l.op => l \notin gcOrphans'
        BY <1>4 DEF Plans
    <2> QED  BY <1>0, <2>1, <2>2 DEF Evolves, Safe, Exists
<1>5. CASE Sweeps
    BY <1>0, <1>5 DEF Sweeps, Evolves, Safe, Exists
<1>6. ASSUME NEW x \in Txs, RecordMoves(x) PROVE Evolves
    <2>1. UNCHANGED <<pointer, files, gone, gcOrphans>>
        BY <1>6 DEF RecordMoves
    <2>2. \A y \in Txs : /\ record[y] # "none" => record'[y] # "none"
                         /\ record[y] \in {"aborted", "committed"} => record'[y] = record[y]
        BY <1>6 DEF RecordMoves, StoreInv, StoreTypes
    <2> QED  BY <1>0, <2>1, <2>2 DEF Evolves, Safe, Exists
<1> QED  BY <1>1, <1>2, <1>3, <1>4, <1>5, <1>6 DEF StorageMoves

(* What a call knows survives the steps of the others: they neither move   *)
(* its transaction, but to abort it, nor write files for it.               *)
Same(d) == pc'[d] = pc[d] /\ call'[d] = call[d] /\ reply'[d] = reply[d]

Foreign(d) ==
    Has(d) => /\ record'[op[d]] \in {record[op[d]], "aborted"}
              /\ \A l \in DOMAIN files' \ DOMAIN files : l.op # op[d]

LEMMA TxLocationFacts ==
    ASSUME FileInv, NEW c, call[c].ptr.cur \in DOMAIN files
    PROVE  TxLocation(c) = TxLocationAt(c)
BY DEF FileInv, TxLocation, TxLocationAt, Tx

LEMMA OthersKeep ==
    ASSUME TypeInv, StoreInv, StorageMoves, op' = op,
           NEW d \in Calls, CallInv(d), Same(d), Foreign(d)
    PROVE  CallInv(d)'
<1>0. Evolves /\ (Has(d) => op[d] \in Txs) /\ op[d] \in Ops
    <2>1. Has(d) => op[d] \in Txs
        BY DEF CallInv, PcInv, Has, TypeInv, Ops
    <2> QED  BY EvolvesNext, <2>1 DEF TypeInv
<1>1. /\ pc'[d] = pc[d] /\ call'[d] = call[d] /\ reply'[d] = reply[d] /\ op'[d] = op[d]
      /\ At(d)' = At(d)
    BY DEF Same, At, IsTx, TableOf
<1>2. pc[d] \in HasPtr => At(d) \in Tables
    <2>1. pc[d] \in HasPtr => op[d] \in Keys \/ (op[d] \in Txs /\ call[d].todo # {})
        BY DEF HasPtr, CallInv, PcInv, KeyPcs, RepairPcs, Walking, IsTx, TypeInv, Ops
    <2> QED  BY <2>1, AtFacts DEF CallInv
<1>3. PcInv(d)'
    BY <1>1 DEF CallInv, PcInv, IsTx
<1>4. PtrInv(d)'
    <2>1. SUFFICES ASSUME pc[d] \in HasPtr PROVE PtrInv(d)'
        BY <1>1 DEF PtrInv
    <2> DEFINE p == call[d].ptr  t == At(d)
    <2>2. /\ p.cur \in DOMAIN files /\ p.cur.table = t
          /\ p.ver <= pointer[t].ver /\ (p.ver = pointer[t].ver => p = pointer[t])
          /\ pc[d] \notin RepairPcs => p.pending = NoPending
          /\ pc[d] \in RepairPcs => p.pending # NoPending /\ record[p.pending.tx] # "none"
          /\ pc[d] = "clear" => record[p.pending.tx] = "aborted"
          /\ pc[d] = "finalize" => record[p.pending.tx] = "committed"
        BY <2>1 DEF CallInv, PtrInv
    <2>3. p \in Pointers /\ p.ver \in Nat /\ (p.pending # NoPending => p.pending.tx \in Txs)
        BY PendingFacts DEF TypeInv, TypeOK
    <2>4. t \in Tables /\ pointer[t].ver \in Nat /\ pointer'[t].ver \in Nat
        BY <1>2, <2>1, FileNext DEF StoreInv, StoreTypes, Pointers
    <2>5. /\ p.ver <= pointer'[t].ver /\ (p.ver = pointer'[t].ver => p = pointer'[t])
        BY <1>0, <2>2, <2>3, <2>4 DEF Evolves
    <2>6. "clear" \in RepairPcs /\ "finalize" \in RepairPcs
        BY DEF RepairPcs
    <2>7. /\ pc[d] \in RepairPcs => record'[p.pending.tx] # "none"
          /\ pc[d] = "clear" => record'[p.pending.tx] = "aborted"
          /\ pc[d] = "finalize" => record'[p.pending.tx] = "committed"
        BY <1>0, <2>2, <2>3, <2>6 DEF Evolves
    <2>8. p.cur \in DOMAIN files'
        BY <1>0, <2>2 DEF Evolves
    <2> QED  BY <1>1, <2>2, <2>5, <2>7, <2>8 DEF PtrInv
<1>5. TxInv(d)'
    <2>1. SUFFICES ASSUME Has(d) PROVE TxInv(d)'
        BY <1>1 DEF TxInv, Has
    <2>2. op[d] \in Txs /\ record'[op[d]] \in {record[op[d]], "aborted"}
        BY <1>0, <2>1 DEF Foreign
    <2>3. /\ pc[d] # "publish" => record'[op[d]] \in {call[d].own, "aborted"}
          /\ pc[d] = "publish" => record'[op[d]] = "committed"
          /\ pc[d] = "unmark" => record'[op[d]] = "aborted"
        BY <1>0, <2>1, <2>2 DEF CallInv, TxInv, Evolves
    <2>4. call[d].own \in {"preparing", "prepared"}
        BY <2>1 DEF Has, CallInv, PcInv, Ended, KeyPcs, RepairPcs, TxPcs, Preparing, Prepared, IsTx,
                    TypeInv, Ops, Pcs
    <2>5. ASSUME record'[op[d]] = call[d].own, NEW t \in Done(d) PROVE pointer'[t].pending.tx = op[d]
        <3>1. record[op[d]] = call[d].own
            BY <2>2, <2>4, <2>5
        <3>2. t \in Tables
            BY <1>0, OpFacts DEF Done
        <3>3. pointer[t].pending.tx = op[d]
            BY <2>1, <3>1 DEF CallInv, TxInv
        <3> QED  BY <1>0, <2>2, <2>4, <3>1, <3>2, <3>3 DEF Evolves
    <2>6. Done(d)' = Done(d) /\ TxLocationAt(d)' = TxLocationAt(d)
        BY <1>1 DEF Done, TxLocationAt
    <2>7. pc[d] \in RepairPcs \cup {"prepare", "stage"} =>
             \A l \in DOMAIN files' : l.op = op[d] => l.table \notin call[d].todo
        BY <2>1 DEF CallInv, TxInv, Foreign
    <2>8. ASSUME pc[d] = "mark"
          PROVE  /\ \A l \in DOMAIN files' : l.op = op[d] /\ l.table \in call[d].todo => l = TxLocationAt(d)
                 /\ TxLocationAt(d) \in DOMAIN files' \ gone' /\ TxLocationAt(d) \notin gcOrphans'
                 /\ call[d].ptr.ver = pointer'[At(d)].ver =>
                      files'[TxLocationAt(d)] = Append(files'[call[d].ptr.cur], call[d].ptr.cur)
        <3>1. \A l \in DOMAIN files' : l.op = op[d] /\ l.table \in call[d].todo => l = TxLocationAt(d)
            BY <2>1, <2>8 DEF CallInv, TxInv, Foreign
        <3>2. Publishing(d) /\ TxLocationAt(d).op = op[d] /\ Safe(TxLocationAt(d))
            BY <2>1, <2>8 DEF Publishing, TxLocationAt, Location, CallInv, TxInv
        <3>3. TxLocationAt(d) \in DOMAIN files' \ gone' /\ TxLocationAt(d) \notin gcOrphans'
            BY <1>0, <3>2 DEF Evolves
        <3>4. ASSUME call[d].ptr.ver = pointer'[At(d)].ver
              PROVE  files'[TxLocationAt(d)] = Append(files'[call[d].ptr.cur], call[d].ptr.cur)
            <4>1. At(d) \in Tables /\ pc[d] \in HasPtr
                BY <1>2, <2>8 DEF HasPtr
            <4>2. call[d].ptr.ver <= pointer[At(d)].ver /\ call[d].ptr.ver \in Nat
                BY <4>1, PendingFacts DEF CallInv, PtrInv, TypeInv, TypeOK
            <4>3. pointer[At(d)].ver \in Nat /\ pointer[At(d)].ver <= pointer'[At(d)].ver
                BY <1>0, <4>1, CurFacts DEF Evolves
            <4>4. call[d].ptr.ver = pointer[At(d)].ver
                BY <3>4, <4>2, <4>3
            <4>5. call[d].ptr = pointer[At(d)]
                BY <4>1, <4>4 DEF CallInv, PtrInv
            <4>6. Exists(call[d].ptr.cur)
                BY <4>1, <4>5 DEF StoreInv, PointerInv, Safe
            <4>7. files[TxLocationAt(d)] = Append(files[call[d].ptr.cur], call[d].ptr.cur)
                BY <2>1, <2>8, <4>4 DEF CallInv, TxInv, History
            <4> QED  BY <1>0, <3>2, <4>6, <4>7 DEF Evolves, Safe
        <3> QED  BY <3>1, <3>3, <3>4
    <2> QED  BY <1>1, <2>3, <2>5, <2>6, <2>7, <2>8 DEF TxInv, Safe, Exists, History
<1>6. KeyInv(d)'
    <2>1. ASSUME pc[d] \in HasMarker
          PROVE  LET l == call[d].mk.loc IN
                 /\ l \in Locations /\ l.op = op[d] /\ l.table = At(d)
                 /\ pc[d] \in {"write", "swap"} => l.seq = call[d].ptr.cur.seq + 1
                 /\ pc[d] = "swap" =>
                      /\ l \in DOMAIN files' \ gone' /\ l \notin gcOrphans'
                      /\ call[d].ptr.ver = pointer'[At(d)].ver =>
                           files'[l] = Append(files'[call[d].ptr.cur], call[d].ptr.cur)
        <3> DEFINE l == call[d].mk.loc
        <3>1. /\ l \in Locations /\ l.op = op[d] /\ l.table = At(d)
              /\ pc[d] \in {"write", "swap"} => l.seq = call[d].ptr.cur.seq + 1
            BY <2>1 DEF CallInv, KeyInv
        <3>2. ASSUME pc[d] = "swap"
              PROVE  /\ l \in DOMAIN files' \ gone' /\ l \notin gcOrphans'
                     /\ call[d].ptr.ver = pointer'[At(d)].ver =>
                          files'[l] = Append(files'[call[d].ptr.cur], call[d].ptr.cur)
            <4>1. Publishing(d) /\ Safe(l)
                BY <2>1, <3>2 DEF Publishing, CallInv, KeyInv
            <4>2. l \in DOMAIN files' \ gone' /\ l \notin gcOrphans'
                BY <1>0, <3>1, <4>1 DEF Evolves
            <4>3. ASSUME call[d].ptr.ver = pointer'[At(d)].ver
                  PROVE  files'[l] = Append(files'[call[d].ptr.cur], call[d].ptr.cur)
                <5>1. At(d) \in Tables /\ pc[d] \in HasPtr
                    BY <1>2, <3>2 DEF HasPtr, KeyPcs
                <5>2. call[d].ptr.ver <= pointer[At(d)].ver /\ call[d].ptr.ver \in Nat
                    BY <5>1, PendingFacts DEF CallInv, PtrInv, TypeInv, TypeOK
                <5>3. pointer[At(d)].ver \in Nat /\ pointer[At(d)].ver <= pointer'[At(d)].ver
                    BY <1>0, <5>1, CurFacts DEF Evolves
                <5>4. call[d].ptr.ver = pointer[At(d)].ver
                    BY <4>3, <5>2, <5>3
                <5>5. call[d].ptr = pointer[At(d)]
                    BY <5>1, <5>4 DEF CallInv, PtrInv
                <5>6. Exists(call[d].ptr.cur)
                    BY <5>1, <5>5 DEF StoreInv, PointerInv, Safe
                <5>7. files[l] = Append(files[call[d].ptr.cur], call[d].ptr.cur)
                    BY <2>1, <3>2, <5>4 DEF CallInv, KeyInv, History
                <5> QED  BY <1>0, <4>1, <5>6, <5>7 DEF Evolves, Safe
            <4> QED  BY <4>2, <4>3
        <3> QED  BY <3>1, <3>2
    <2>2. ASSUME pc[d] \in {"found", "finish"}
          PROVE  Names(History(Effective(At(d)))', op[d])
        <3>1. In(op[d], Effective(At(d))) /\ At(d) \in Tables
            BY <2>2, AtFacts DEF KeyPcs, CallInv, KeyInv, PcInv
        <3>2. PICK t \in Tables : t = At(d)
            BY <3>1
        <3>3. Names(History(Effective(t))', op[d])
            BY <3>1, <3>2, AppliedStays
        <3>4. History(Effective(At(d)))' = History(Effective(t))'
            BY <1>1, <3>2 DEF Effective
        <3> QED  BY <3>3, <3>4
    <2>3. ASSUME reply[d] = "ok", NEW t \in OpTables[op[d]]
          PROVE  Names(History(Effective(t))', op[d])
        <3>1. t \in Tables
            BY <1>0, OpFacts
        <3>2. In(op[d], Effective(t))
            BY <2>3 DEF CallInv, KeyInv
        <3> QED  BY <3>1, <3>2, AppliedStays
    <2> QED  BY <1>1, <2>1, <2>2, <2>3 DEF KeyInv, In, Safe, Exists, History
<1> QED  BY <1>3, <1>4, <1>5, <1>6 DEF CallInv

----------------------------------------------------------------------------
(* A step of a call: its own variables ...                                 *)
CallRecords ==
    [round : 0..MaxTakeover, ptr : Pointers, mk : Markers, seen : Statuses, own : Statuses,
     todo : SUBSET Tables]
Replies == {"none", "ok", "failed", "retry", "error"}

Moves(c, l, r, a) ==
    /\ l \in Pcs /\ r \in CallRecords /\ a \in Replies
    /\ pc' = [pc EXCEPT ![c] = l]
    /\ call' = [call EXCEPT ![c] = r]
    /\ reply' = [reply EXCEPT ![c] = a]

LEMMA MovesFacts ==
    ASSUME TypeInv, NEW c \in Calls, NEW l, NEW r, NEW a, Moves(c, l, r, a)
    PROVE  /\ pc'[c] = l /\ call'[c] = r /\ reply'[c] = a
           /\ \A d \in Calls : d # c => Same(d)
           /\ pc' \in [Calls -> Pcs] /\ call' \in [Calls -> CallRecords]
           /\ reply' \in [Calls -> Replies]
<1>1. pc \in [Calls -> Pcs] /\ call \in [Calls -> CallRecords] /\ reply \in [Calls -> Replies]
    BY DEF TypeInv, TypeOK, CallRecords, Replies
<1> QED  BY <1>1 DEF Moves, Same

LEMMA FreshFacts ==
    /\ Fresh \in CallRecords /\ Fresh.own = "none" /\ Fresh.todo = {} /\ Fresh.round = 0
    /\ NoPointer \in Pointers /\ NoMarker \in Markers
<1>1. NoPointer \in Pointers
    BY DEF NoPointer, Pointers
<1>2. NoMarker \in Markers
    BY DEF NoMarker, Markers, MarkerStatuses
<1>3. 0 \in 0 .. MaxTakeover
    BY IcebergAssumption
<1> QED  BY <1>1, <1>2, <1>3 DEF Fresh, CallRecords, Statuses

LEMMA GotoMoves ==
    ASSUME TypeInv, NEW c \in Calls, NEW l \in Pcs, NEW r \in CallRecords, Goto(c, l, r)
    PROVE  Moves(c, l, r, reply[c])
<1>1. reply \in [Calls -> Replies]
    BY DEF TypeInv, TypeOK, Replies
<1>2. reply' = [reply EXCEPT ![c] = reply[c]] /\ reply[c] \in Replies
    BY <1>1 DEF Goto
<1> QED  BY <1>2 DEF Goto, Moves

LEMMA AnswerMoves ==
    ASSUME NEW c \in Calls, NEW a \in Replies, Answer(c, a)
    PROVE  Moves(c, "done", Fresh, a)
BY FreshFacts DEF Answer, Moves, Pcs, Ended

(* ... and what it does to the storage, the markers and the other calls.   *)
StepOK(c) ==
    /\ StorageMoves
    /\ marker' \in [Keys -> Markers]
    /\ \A k \in Keys : marker'[k] = marker[k] \/ MarkerOK(k, marker'[k])
    /\ UNCHANGED <<op, gcMarker, txStale>>
    /\ \E l, r, a : Moves(c, l, r, a)
    /\ \A d \in Calls : d # c => Foreign(d)
    /\ CallInv(c)'
    /\ call'[c].own # "none" => Has(c) \/ record[op[c]] = "none"

(* True markers stay true.                                                 *)
LEMMA MarkerStays ==
    ASSUME StoreInv, StorageMoves, NEW k \in Keys, NEW m \in Markers, MarkerOK(k, m)
    PROVE  m.status # "none" =>
             /\ m.loc \in Locations /\ m.loc.op = k /\ m.loc.table \in OpTables[k]
             /\ m.status = "committed" => Names(History(Effective(m.loc.table))', k)
<1>1. m.status # "none" => m.loc \in Locations /\ m.loc.op = k /\ m.loc.table \in OpTables[k]
    BY DEF MarkerOK
<1>2. ASSUME m.status = "committed" PROVE Names(History(Effective(m.loc.table))', k)
    <2>1. m.loc.table \in Tables /\ In(k, Effective(m.loc.table))
        BY <1>1, <1>2, OpFacts DEF MarkerOK, Ops
    <2> QED  BY <2>1, AppliedStays
<1> QED  BY <1>1, <1>2

LEMMA MarkerNext ==
    ASSUME StoreInv, MarkerInv, StorageMoves,
           marker \in [Keys -> Markers], marker' \in [Keys -> Markers],
           \A k \in Keys : marker'[k] = marker[k] \/ MarkerOK(k, marker'[k])
    PROVE  MarkerInv'
<1> SUFFICES ASSUME NEW k \in Keys PROVE MarkerOK(k, marker[k])'
    BY DEF MarkerInv
<1>1. PICK m \in Markers : m = marker'[k]
    OBVIOUS
<1>2. MarkerOK(k, m)
    BY <1>1 DEF MarkerInv
<1>3. m.status # "none" =>
             /\ m.loc \in Locations /\ m.loc.op = k /\ m.loc.table \in OpTables[k]
             /\ m.status = "committed" => Names(History(Effective(m.loc.table))', k)
    BY <1>2, MarkerStays
<1> QED  BY <1>1, <1>3 DEF MarkerOK, In, Effective

LEMMA GcNext ==
    ASSUME StoreInv, GcInv, StorageMoves, UNCHANGED gcMarker
    PROVE  GcInv'
<1>1. ASSUME gcMarker # None, gcMarker.step = "finalize"
      PROVE  Names(History(Effective(gcMarker.read.loc.table))', gcMarker.key)
    <2>1. PICK t : t = gcMarker.read.loc.table
        OBVIOUS
    <2>2. t \in Tables /\ In(gcMarker.key, Effective(t))
        BY <1>1, <2>1, OpFacts DEF GcInv, Ops
    <2>3. Names(History(Effective(t))', gcMarker.key)
        BY <2>2, AppliedStays
    <2> QED  BY <2>1, <2>3 DEF Effective
<1> QED  BY <1>1 DEF GcInv, In

LEMMA TypeNext ==
    ASSUME TypeInv, StoreInv, StorageMoves, marker' \in [Keys -> Markers], txStale' \subseteq Txs,
           op' = op, pc' \in [Calls -> Pcs], call' \in [Calls -> CallRecords],
           reply' \in [Calls -> Replies]
    PROVE  TypeInv'
<1>1. StoreTypes' /\ FileInv'
    BY FileNext
<1>2. \A l \in DOMAIN files' : \A i \in DOMAIN files'[l] : files'[l][i] \in DOMAIN files'
    <2> SUFFICES ASSUME NEW l \in DOMAIN files', NEW i \in DOMAIN files'[l]
                 PROVE  files'[l][i] \in DOMAIN files'
        OBVIOUS
    <2>1. files'[l] \in Seq(DOMAIN files')
        BY <1>1 DEF FileInv
    <2> QED  BY <2>1
<1> QED  BY <1>1, <1>2 DEF TypeInv, TypeOK, StoreTypes, CallRecords, Replies

LEMMA Assemble ==
    ASSUME IndInv, NEW c \in Calls, StepOK(c)
    PROVE  IndInv'
<1>0. StoreInv
    BY DEF IndInv, TypeInv, TypeOK, StoreInv, StoreTypes
<1>1. PICK l, r, a : Moves(c, l, r, a)
    BY DEF StepOK
<1>2. /\ pc'[c] = l /\ call'[c] = r /\ reply'[c] = a
      /\ \A d \in Calls : d # c => Same(d)
      /\ pc' \in [Calls -> Pcs] /\ call' \in [Calls -> CallRecords]
      /\ reply' \in [Calls -> Replies]
    BY <1>1, MovesFacts DEF IndInv
<1>3. TypeInv'
    <2>1. txStale' \subseteq Txs /\ op' = op
        BY DEF StepOK, IndInv, TypeInv, TypeOK
    <2> QED  BY <1>0, <1>2, <2>1, TypeNext DEF StepOK, IndInv
<1>4. FileInv'
    BY <1>0, FileNext DEF StepOK
<1>5. MarkerInv'
    BY <1>0, MarkerNext DEF StepOK, IndInv, TypeInv, TypeOK
<1>6. GcInv'
    BY <1>0, GcNext DEF StepOK, IndInv
<1>7. \A t \in Tables : PointerInv(t)'
    BY <1>0, PointerNext DEF StepOK
<1>8. ASSUME NEW d \in Calls PROVE CallInv(d)'
    <2>1. CASE d = c
        BY <2>1 DEF StepOK
    <2>2. CASE d # c
        BY <1>0, <1>2, <2>2, OthersKeep DEF StepOK, IndInv
    <2> QED  BY <2>1, <2>2
<1>9. UniqueInv'
    <2>1. \A d \in Calls : d # c => call'[d].own = call[d].own /\ op'[d] = op[d]
        BY <1>2 DEF Same, StepOK
    <2>2. \A d \in Calls : Has(d) => record[op[d]] # "none"
        <3> SUFFICES ASSUME NEW d \in Calls, Has(d) PROVE record[op[d]] # "none"
            OBVIOUS
        <3>1. CallInv(d)
            BY DEF IndInv
        <3> QED  BY <3>1 DEF CallInv, TxInv, Has
    <2>3. op'[c] = op[c] /\ (call'[c].own # "none" => Has(c) \/ record[op[c]] = "none")
        BY DEF StepOK
    <2> QED  BY <2>1, <2>2, <2>3 DEF UniqueInv, Has, IndInv
<1> QED  BY <1>3, <1>4, <1>5, <1>6, <1>7, <1>8, <1>9 DEF IndInv

----------------------------------------------------------------------------
(* What every step of a call starts from.                                  *)
LEMMA Known ==
    ASSUME IndInv, NEW c \in Calls
    PROVE  /\ TypeInv /\ StoreInv /\ MarkerInv /\ CallInv(c) /\ UniqueInv
           /\ op[c] \in Ops /\ OpTables[op[c]] \subseteq Tables
           /\ call[c] \in CallRecords /\ reply[c] \in Replies /\ pc[c] \in Pcs
           /\ marker \in [Keys -> Markers]
           /\ op[c] \in Keys => call[c].own = "none"
           /\ Has(c) => /\ op[c] \in Txs /\ call[c].own \in {"preparing", "prepared"}
                        /\ record[op[c]] # "none"
<1>1. TypeInv /\ StoreInv /\ MarkerInv /\ CallInv(c) /\ UniqueInv
    BY DEF IndInv, TypeInv, TypeOK, StoreInv, StoreTypes
<1>2. /\ op[c] \in Ops /\ call[c] \in CallRecords /\ reply[c] \in Replies /\ pc[c] \in Pcs
      /\ marker \in [Keys -> Markers]
    BY <1>1 DEF TypeInv, TypeOK, CallRecords, Replies
<1>3. op[c] \in Keys => call[c].own = "none"
    BY <1>1 DEF CallInv, PcInv
<1>4. Has(c) => call[c].own \in {"preparing", "prepared"}
    BY <1>1, <1>2 DEF Has, CallInv, PcInv, Ended, KeyPcs, RepairPcs, TxPcs, Preparing, Prepared, IsTx,
                      Ops, Pcs
<1>5. Has(c) => op[c] \in Txs /\ record[op[c]] # "none"
    BY <1>1, <1>2, <1>3, <1>4 DEF Has, Ops, CallInv, TxInv
<1> QED  BY <1>1, <1>2, <1>3, <1>4, <1>5, OpFacts

(* What was said "ok" to stays true.                                       *)
LEMMA ReplyStays ==
    ASSUME IndInv, StorageMoves, op' = op, NEW c \in Calls
    PROVE  /\ reply[c] = "ok" => \A t \in OpTables[op[c]] : Names(History(Effective(t))', op[c])
           /\ \A t \in OpTables[op[c]] : In(op[c], Effective(t)) =>
                Names(History(Effective(t))', op[c])
<1>1. \A t \in OpTables[op[c]] : In(op[c], Effective(t)) => Names(History(Effective(t))', op[c])
    <2> SUFFICES ASSUME NEW t \in OpTables[op[c]], In(op[c], Effective(t))
                 PROVE  Names(History(Effective(t))', op[c])
        OBVIOUS
    <2>1. t \in Tables /\ StoreInv
        BY Known
    <2> QED  BY <2>1, AppliedStays
<1> QED  BY <1>1, Known DEF CallInv, KeyInv

(* A call ends.                                                            *)
LEMMA EndsOK ==
    ASSUME IndInv, StorageMoves, op' = op, NEW c \in Calls, NEW l \in {"done", "dead"}, NEW a,
           Moves(c, l, Fresh, a),
           a = "ok" => reply[c] = "ok" \/ \A t \in OpTables[op[c]] : In(op[c], Effective(t))
    PROVE  CallInv(c)' /\ call'[c].own = "none"
<1>1. pc'[c] = l /\ call'[c] = Fresh /\ reply'[c] = a /\ op'[c] = op[c]
    BY MovesFacts DEF IndInv
<1>2. call'[c].own = "none" /\ call'[c].todo = {}
    BY <1>1, FreshFacts
<1>3. PcInv(c)'
    BY <1>1, <1>2 DEF PcInv, KeyPcs, TxPcs, Walking, RepairPcs, Preparing, Prepared, Ended, IsTx
<1>4. PtrInv(c)'
    BY <1>1 DEF PtrInv, HasPtr, RepairPcs
<1>5. TxInv(c)'
    BY <1>2 DEF TxInv, Has
<1>6. KeyInv(c)'
    <2>1. a = "ok" => \A t \in OpTables[op[c]] : Names(History(Effective(t))', op[c])
        BY ReplyStays
    <2> QED  BY <1>1, <2>1 DEF KeyInv, HasMarker, In
<1> QED  BY <1>2, <1>3, <1>4, <1>5, <1>6 DEF CallInv

(* A transaction's call gives up.                                          *)
LEMMA GivesUpOK ==
    ASSUME IndInv, StorageMoves, op' = op, NEW c \in Calls, NEW a \in {"retry", "failed"},
           Has(c), pc[c] \notin {"publish", "unmark"}, GiveUp(c, a),
           record'[op[c]] \in {record[op[c]], "aborted"}
    PROVE  CallInv(c)' /\ \E l, r : Moves(c, l, r, a)
<1> DEFINE r == [call[c] EXCEPT !.ptr = NoPointer, !.seen = "none"]
<1>0. r \in CallRecords /\ r.own = call[c].own /\ r.todo = call[c].todo
    BY Known, FreshFacts DEF CallRecords, Statuses
<1>1. Moves(c, "abort", r, a)
    <2>1. call' = [call EXCEPT ![c] = r]
        BY Known DEF GiveUp, CallRecords, TypeInv, TypeOK
    <2> QED  BY <1>0, <2>1 DEF GiveUp, Moves, Pcs, TxPcs, Replies
<1>2. pc'[c] = "abort" /\ call'[c] = r /\ reply'[c] = a /\ op'[c] = op[c]
    BY <1>1, MovesFacts DEF IndInv
<1> HIDE DEF r
<1>3. call'[c].own = call[c].own /\ call'[c].todo = call[c].todo
    BY <1>0, <1>2
<1>4. PcInv(c)'
    BY <1>2, <1>3, Known
    DEF CallInv, PcInv, KeyPcs, TxPcs, Walking, RepairPcs, Preparing, Prepared, Ended, IsTx, Ops
<1>5. PtrInv(c)'
    BY <1>2 DEF PtrInv, HasPtr, RepairPcs
<1>6. TxInv(c)'
    <2>1. record'[op[c]] \in {call[c].own, "aborted"}
        BY Known DEF CallInv, TxInv
    <2>2. ASSUME record'[op[c]] = call[c].own, NEW t \in Done(c)
          PROVE  pointer'[t].pending.tx = op[c]
        <3>1. record[op[c]] = call[c].own /\ t \in Tables
            BY <2>2, Known DEF Done
        <3>2. pointer[t].pending.tx = op[c]
            BY <3>1, Known DEF CallInv, TxInv
        <3> QED  BY <3>1, <3>2, Known, EvolvesNext DEF Evolves
    <2>3. Done(c)' = Done(c)
        BY <1>2, <1>3 DEF Done
    <2> QED  BY <1>2, <1>3, <2>1, <2>2, <2>3 DEF TxInv, RepairPcs
<1>7. KeyInv(c)'
    BY <1>2 DEF KeyInv, HasMarker
<1> QED  BY <1>1, <1>4, <1>5, <1>6, <1>7 DEF CallInv

(* A step that leaves the storage alone.                                   *)
LEMMA QuietOK ==
    ASSUME Quiet
    PROVE  StorageMoves /\ \A d \in Calls : Foreign(d)
BY DEF Quiet, StorageMoves, Foreign

(* A call is answered, and nothing else happens but to its marker.         *)
LEMMA QuietEnd ==
    ASSUME IndInv, NEW c \in Calls, NEW a \in Replies, Answer(c, a), Quiet,
           UNCHANGED <<op, gcMarker, txStale>>,
           marker' \in [Keys -> Markers],
           \A k \in Keys : marker'[k] = marker[k] \/ MarkerOK(k, marker'[k]),
           a = "ok" => reply[c] = "ok" \/ \A t \in OpTables[op[c]] : In(op[c], Effective(t))
    PROVE  StepOK(c)
<1>1. Moves(c, "done", Fresh, a)
    BY AnswerMoves
<1>2. CallInv(c)' /\ call'[c].own = "none"
    BY <1>1, EndsOK, QuietOK
<1> QED  BY <1>1, <1>2, QuietOK DEF StepOK

(* A single-table call goes on.                                            *)
LEMMA KeyGoes ==
    ASSUME IndInv, StorageMoves, op' = op, NEW c \in Calls, op[c] \in Keys,
           NEW l \in KeyPcs \cup RepairPcs, NEW r \in CallRecords, Goto(c, l, r),
           r.own = "none", r.todo = call[c].todo \/ r.todo = {},
           l = "abortStale" => r.seen \in {"preparing", "prepared"}
    PROVE  /\ Moves(c, l, r, reply[c]) /\ pc'[c] = l /\ call'[c] = r /\ op'[c] = op[c]
           /\ PcInv(c)' /\ TxInv(c)' /\ call'[c].own = "none"
           /\ At(c)' = At(c) /\ At(c) = TableOf(c) /\ At(c) \in Tables /\ OpTables[op[c]] = {At(c)}
           /\ reply'[c] = "ok" => \A t \in OpTables[op[c]] : Names(History(Effective(t))', op[c])
<1>0. l \in Pcs
    BY DEF Pcs
<1>1. Moves(c, l, r, reply[c])
    BY <1>0, GotoMoves DEF IndInv
<1>2. pc'[c] = l /\ call'[c] = r /\ reply'[c] = reply[c] /\ op'[c] = op[c]
    BY <1>1, MovesFacts DEF IndInv
<1>3. call'[c].own = "none" /\ call'[c].todo \subseteq OpTables[op[c]]
    BY <1>2, Known DEF CallInv, PcInv
<1>4. op[c] \notin Txs
    BY OpFacts
<1>5. PcInv(c)'
    BY <1>2, <1>3, <1>4
    DEF PcInv, KeyPcs, TxPcs, Walking, RepairPcs, Preparing, Prepared, Ended, IsTx
<1>6. TxInv(c)'
    BY <1>3 DEF TxInv, Has
<1>7. At(c) = TableOf(c) /\ At(c) \in OpTables[op[c]]
    BY AtFacts, Known DEF CallInv
<1>8. At(c)' = At(c)
    BY <1>2, <1>4, <1>7 DEF At, IsTx, TableOf
<1>9. OpTables[op[c]] = {At(c)} /\ At(c) \in Tables
    BY <1>7, OpFacts, Known
<1> QED  BY <1>1, <1>2, <1>3, <1>5, <1>6, <1>7, <1>8, <1>9, ReplyStays

(* Its pointer and its marker when only markers change.                    *)
LEMMA KeyQuiet ==
    ASSUME IndInv, Quiet, UNCHANGED <<op, gcMarker, txStale>>, NEW c \in Calls, op[c] \in Keys,
           NEW l \in KeyPcs \cup RepairPcs, NEW r \in CallRecords, Goto(c, l, r),
           r.own = "none", r.todo = call[c].todo \/ r.todo = {},
           l = "abortStale" => r.seen \in {"preparing", "prepared"},
           marker' \in [Keys -> Markers],
           \A k \in Keys : marker'[k] = marker[k] \/ MarkerOK(k, marker'[k]),
           l \in HasPtr =>
             /\ r.ptr.cur \in DOMAIN files /\ r.ptr.cur.table = At(c)
             /\ r.ptr.ver <= pointer[At(c)].ver
             /\ r.ptr.ver = pointer[At(c)].ver => r.ptr = pointer[At(c)]
             /\ l \notin RepairPcs => r.ptr.pending = NoPending
             /\ l \in RepairPcs => r.ptr.pending # NoPending /\ record[r.ptr.pending.tx] # "none"
             /\ l = "clear" => record[r.ptr.pending.tx] = "aborted"
             /\ l = "finalize" => record[r.ptr.pending.tx] = "committed",
           l \in HasMarker =>
             /\ r.mk.loc \in Locations /\ r.mk.loc.op = op[c] /\ r.mk.loc.table = At(c)
             /\ l = "write" => r.mk.loc.seq = r.ptr.cur.seq + 1,
           l # "swap",
           l \in {"found", "finish"} => In(op[c], Effective(At(c)))
    PROVE  StepOK(c)
<1>1. StorageMoves /\ \A d \in Calls : Foreign(d)
    BY QuietOK
<1>2. /\ Moves(c, l, r, reply[c]) /\ pc'[c] = l /\ call'[c] = r /\ op'[c] = op[c]
      /\ PcInv(c)' /\ TxInv(c)' /\ call'[c].own = "none"
      /\ At(c)' = At(c) /\ At(c) \in Tables
      /\ reply'[c] = "ok" => \A t \in OpTables[op[c]] : Names(History(Effective(t))', op[c])
    BY <1>1, KeyGoes
<1>3. UNCHANGED <<pointer, files, record>>
    BY DEF Quiet
<1>4. PtrInv(c)'
    BY <1>2, <1>3 DEF PtrInv
<1>5. KeyInv(c)'
    <2>1. l \in {"found", "finish"} => Names(History(Effective(At(c)))', op[c])
        <3>1. History(Effective(At(c)))' = History(Effective(At(c)))
            BY <1>2, <1>3 DEF History, Effective, EffectiveLocation
        <3> QED  BY <3>1 DEF In
    <2> QED  BY <1>2, <2>1 DEF KeyInv, In
<1>6. CallInv(c)'
    BY <1>2, <1>4, <1>5 DEF CallInv
<1> QED  BY <1>1, <1>2, <1>6 DEF StepOK

LEMMA SetMarkerFacts ==
    ASSUME marker \in [Keys -> Markers], NEW k \in Keys, NEW l \in Locations,
           NEW s \in {"inProgress", "committed", "failed"}, SetMarker(k, s, l),
           l.op = k, l.table \in OpTables[k], s = "committed" => In(k, Effective(l.table))
    PROVE  /\ marker' \in [Keys -> Markers] /\ marker'[k] \in Markers /\ marker'[k].loc = l
           /\ \A j \in Keys : marker'[j] = marker[j] \/ MarkerOK(j, marker'[j])
<1>1. marker[k].ver + 1 \in Nat
    BY DEF Markers
<1>2. PICK m : m = [status |-> s, loc |-> l, age |-> "fresh", ver |-> marker[k].ver + 1]
    OBVIOUS
<1>3. m \in Markers /\ m.loc = l /\ m.status = s
    BY <1>1, <1>2 DEF Markers, MarkerStatuses
<1>4. marker' = [marker EXCEPT ![k] = m]
    BY <1>2 DEF SetMarker
<1>5. MarkerOK(k, m)
    BY <1>3 DEF MarkerOK
<1>6. marker'[k] = m /\ \A j \in Keys : j # k => marker'[j] = marker[j]
    BY <1>4
<1>7. marker' \in [Keys -> Markers]
    BY <1>3, <1>4
<1>8. \A j \in Keys : marker'[j] = marker[j] \/ MarkerOK(j, marker'[j])
    <2> SUFFICES ASSUME NEW j \in Keys, j = k PROVE MarkerOK(j, marker'[j])
        BY <1>6
    <2> QED  BY <1>5, <1>6
<1> QED  BY <1>3, <1>6, <1>7, <1>8

LEMMA NextLocationFacts ==
    ASSUME IndInv, NEW c \in Calls, op[c] \in Keys, NEW by \in Calls \cup {None},
           call[c].ptr.cur \in DOMAIN files
    PROVE  LET l == NextLocation(c, by) IN
           /\ l \in Locations /\ l.op = op[c] /\ l.table = At(c) /\ l.table \in OpTables[op[c]]
           /\ l.seq = call[c].ptr.cur.seq + 1
<1>1. At(c) = TableOf(c) /\ At(c) \in OpTables[op[c]] /\ At(c) \in Tables
    BY AtFacts, Known DEF CallInv
<1>2. Len(files[call[c].ptr.cur]) = call[c].ptr.cur.seq /\ call[c].ptr.cur.seq \in Nat
    BY Known DEF StoreInv, StoreTypes, FileInv, Locations
<1> QED  BY <1>1, <1>2, Known DEF NextLocation, Location, Locations, Key

(* A key's call takes the marker over or makes it.                         *)
LEMMA TakeMarkerOK ==
    ASSUME IndInv, NEW c \in Calls, op[c] \in Keys, NEW by \in Calls \cup {None},
           pc[c] \in {"claim", "takeover"}, TakeMarker(c, NextLocation(c, by)),
           Quiet, UNCHANGED <<op, gcMarker, txStale>>
    PROVE  StepOK(c)
<1>1. PICK l : l = NextLocation(c, by)
    OBVIOUS
<1>2. /\ call[c].ptr.cur \in DOMAIN files /\ call[c].ptr.cur.table = At(c)
      /\ call[c].ptr.ver <= pointer[At(c)].ver
      /\ call[c].ptr.ver = pointer[At(c)].ver => call[c].ptr = pointer[At(c)]
      /\ call[c].ptr.pending = NoPending
    BY Known DEF CallInv, PtrInv, HasPtr, RepairPcs
<1>3. /\ l \in Locations /\ l.op = op[c] /\ l.table = At(c) /\ l.table \in OpTables[op[c]]
      /\ l.seq = call[c].ptr.cur.seq + 1
    BY <1>1, <1>2, NextLocationFacts
<1>4. SetMarker(op[c], "inProgress", l)
    BY <1>1 DEF TakeMarker, Key
<1>5. /\ marker' \in [Keys -> Markers] /\ marker'[op[c]] \in Markers /\ marker'[op[c]].loc = l
      /\ \A j \in Keys : marker'[j] = marker[j] \/ MarkerOK(j, marker'[j])
    BY <1>3, <1>4, Known, SetMarkerFacts
<1>6. PICK r : r = [call[c] EXCEPT !.mk = marker'[op[c]]]
    OBVIOUS
<1>7. /\ r \in CallRecords /\ r.own = "none" /\ r.todo = call[c].todo /\ r.ptr = call[c].ptr
      /\ r.mk.loc = l
    BY <1>5, <1>6, Known DEF CallRecords
<1>8. Goto(c, "write", r)
    BY <1>6 DEF TakeMarker, Key
<1>9. "write" \in KeyPcs /\ "write" \in HasPtr /\ "write" \notin RepairPcs
    BY DEF KeyPcs, HasPtr, RepairPcs
<1> QED  BY <1>2, <1>3, <1>5, <1>7, <1>8, <1>9, KeyQuiet DEF RepairPcs

LEMMA LoadOK ==
    ASSUME IndInv, NEW c \in Calls, Load(c)
    PROVE  StepOK(c)
<1>0. Quiet /\ UNCHANGED <<op, gcMarker, txStale, marker>> /\ marker' \in [Keys -> Markers] /\ op[c] \in Keys
    BY Known DEF Load, Quiet, storage, rest, gc, CallInv, PcInv, KeyPcs
<1>1. CASE call[c].round = MaxTakeover
    <2>1. Answer(c, "retry")
        BY <1>1 DEF Load
    <2> QED  BY <1>0, <2>1, QuietEnd DEF Replies
<1>2. CASE call[c].round # MaxTakeover
    <2>1. At(c) = TableOf(c) /\ At(c) \in Tables
        BY <1>0, AtFacts, Known DEF CallInv
    <2>2. PICK p : p = pointer[At(c)]
        OBVIOUS
    <2>3. /\ p \in Pointers /\ p.ver \in Nat /\ p.cur \in DOMAIN files /\ p.cur.table = At(c)
          /\ p.pending # NoPending => record[p.pending.tx] # "none"
        BY <2>1, <2>2, CurFacts, Known DEF StoreInv, PointerInv
    <2>4. PICK r : r = [Fresh EXCEPT !.round = call[c].round + 1, !.ptr = p]
        OBVIOUS
    <2>5. call[c].round + 1 \in 0 .. MaxTakeover
        <3>1. MaxTakeover \in Nat
            BY IcebergAssumption
        <3>2. call[c].round \in 0 .. MaxTakeover
            BY Known DEF CallRecords
        <3> QED  BY <1>2, <3>1, <3>2
    <2>6. r \in CallRecords /\ r.own = "none" /\ r.todo = {} /\ r.ptr = p
        BY <2>3, <2>4, <2>5, FreshFacts DEF CallRecords
    <2>7. Goto(c, IF p.pending # NoPending THEN "pending" ELSE "claim", r)
        BY <1>2, <2>1, <2>2, <2>4 DEF Load
    <2>8. CASE p.pending # NoPending
        <3>1. Goto(c, "pending", r)
            BY <2>7, <2>8
        <3>2. "pending" \in RepairPcs /\ "pending" \notin HasMarker
            BY DEF RepairPcs, HasMarker
        <3> QED  BY <1>0, <2>2, <2>3, <2>6, <2>8, <3>1, <3>2, KeyQuiet
    <2>9. CASE p.pending = NoPending
        <3>1. Goto(c, "claim", r)
            BY <2>7, <2>9
        <3>2. "claim" \in KeyPcs /\ "claim" \notin HasMarker /\ "claim" \notin RepairPcs
            BY DEF RepairPcs, HasMarker, KeyPcs
        <3> QED  BY <1>0, <2>2, <2>3, <2>6, <2>9, <3>1, <3>2, KeyQuiet
    <2> QED  BY <2>8, <2>9
<1> QED  BY <1>1, <1>2

LEMMA ClaimOK ==
    ASSUME IndInv, NEW c \in Calls, Claim(c)
    PROVE  StepOK(c)
<1>0. Quiet /\ UNCHANGED <<op, gcMarker, txStale>> /\ op[c] \in Keys
    BY Known DEF Claim, Quiet, rest, gc, CallInv, PcInv, KeyPcs
<1>1. OpTables[op[c]] = {At(c)} /\ At(c) \in Tables
    BY <1>0, AtFacts, OpFacts, Known DEF CallInv
<1> DEFINE m == marker[op[c]]
<1>2. m \in Markers /\ MarkerOK(op[c], m)
    BY <1>0, Known DEF MarkerInv
<1>3. CASE UNCHANGED marker /\ Answer(c, "error")
    BY <1>0, <1>3, Known, QuietEnd DEF Replies
<1>4. CASE TakeMarker(c, NextLocation(c, None))
    BY <1>0, <1>4, TakeMarkerOK DEF Claim
<1>5. CASE m.status = "inProgress" /\ Goto(c, "recheck", [call[c] EXCEPT !.mk = m]) /\ UNCHANGED marker
    <2>1. PICK r : r = [call[c] EXCEPT !.mk = m]
        OBVIOUS
    <2>2. r \in CallRecords /\ r.own = "none" /\ r.todo = call[c].todo /\ r.ptr = call[c].ptr /\ r.mk = m
        BY <1>0, <1>2, <2>1, Known DEF CallRecords
    <2>3. m.loc \in Locations /\ m.loc.op = op[c] /\ m.loc.table = At(c)
        BY <1>1, <1>2, <1>5 DEF MarkerOK
    <2>4. /\ call[c].ptr.cur \in DOMAIN files /\ call[c].ptr.cur.table = At(c)
          /\ call[c].ptr.ver <= pointer[At(c)].ver
          /\ call[c].ptr.ver = pointer[At(c)].ver => call[c].ptr = pointer[At(c)]
          /\ call[c].ptr.pending = NoPending
        BY Known DEF CallInv, PtrInv, HasPtr, RepairPcs, Claim
    <2>5. Goto(c, "recheck", r) /\ marker' \in [Keys -> Markers]
        BY <1>5, <2>1, Known
    <2>6. "recheck" \in KeyPcs /\ "recheck" \notin RepairPcs
        BY DEF KeyPcs, RepairPcs
    <2> QED  BY <1>0, <1>5, <2>2, <2>3, <2>4, <2>5, <2>6, KeyQuiet DEF RepairPcs
<1>6. CASE /\ m.status \in {"committed", "failed"} /\ UNCHANGED marker
           /\ Answer(c, IF m.status = "failed" THEN "failed"
                        ELSE IF Exists(m.loc) THEN "ok" ELSE "error")
    <2>1. PICK a : a = IF m.status = "failed" THEN "failed"
                       ELSE IF Exists(m.loc) THEN "ok" ELSE "error"
        OBVIOUS
    <2>2. a \in Replies /\ (a = "ok" => m.status = "committed")
        BY <1>6, <2>1 DEF Replies
    <2>3. a = "ok" => \A t \in OpTables[op[c]] : In(op[c], Effective(t))
        BY <1>1, <1>2, <2>2 DEF MarkerOK
    <2> QED  BY <1>0, <1>6, <2>1, <2>2, <2>3, Known, QuietEnd
<1> QED  BY <1>3, <1>4, <1>5, <1>6 DEF Claim, Key

(* What a call with a marker knows of it.                                  *)
LEMMA HasMarkerFacts ==
    ASSUME IndInv, NEW c \in Calls, pc[c] \in HasMarker
    PROVE  /\ op[c] \in Keys /\ OpTables[op[c]] = {At(c)} /\ At(c) \in Tables /\ At(c) = TableOf(c)
           /\ call[c].own = "none"
           /\ call[c].mk.loc \in Locations /\ call[c].mk.loc.op = op[c] /\ call[c].mk.loc.table = At(c)
<1>1. op[c] \in Keys
    BY Known DEF CallInv, PcInv, KeyPcs, HasMarker
<1>2. OpTables[op[c]] = {At(c)} /\ At(c) \in Tables /\ At(c) = TableOf(c)
    BY <1>1, AtFacts, OpFacts, Known DEF CallInv
<1> QED  BY <1>1, <1>2, Known DEF CallInv, KeyInv

(* A key's call goes on with what it has, and only markers change.         *)
LEMMA KeyOn ==
    ASSUME IndInv, NEW c \in Calls, op[c] \in Keys, NEW l \in KeyPcs, On(c, l),
           Quiet, UNCHANGED <<op, gcMarker, txStale, marker>>,
           l \in HasPtr => pc[c] \in {"claim", "recheck", "takeover", "write", "swap"},
           l \in HasMarker => pc[c] \in HasMarker,
           l \notin {"write", "swap"},
           l \in {"found", "finish"} => In(op[c], Effective(At(c)))
    PROVE  StepOK(c)
<1>1. Goto(c, l, call[c]) /\ call[c] \in CallRecords /\ call[c].own = "none" /\ marker' \in [Keys -> Markers]
    BY Known DEF On
<1>2. l \notin RepairPcs
    BY DEF KeyPcs, RepairPcs
<1>3. l \in HasPtr =>
             /\ call[c].ptr.cur \in DOMAIN files /\ call[c].ptr.cur.table = At(c)
             /\ call[c].ptr.ver <= pointer[At(c)].ver
             /\ call[c].ptr.ver = pointer[At(c)].ver => call[c].ptr = pointer[At(c)]
             /\ call[c].ptr.pending = NoPending
    BY Known DEF CallInv, PtrInv, HasPtr, RepairPcs
<1>4. l \in HasMarker => /\ call[c].mk.loc \in Locations /\ call[c].mk.loc.op = op[c]
                         /\ call[c].mk.loc.table = At(c)
    BY HasMarkerFacts
<1> QED  BY <1>1, <1>2, <1>3, <1>4, KeyQuiet DEF RepairPcs

LEMMA RecheckOK ==
    ASSUME IndInv, NEW c \in Calls, Recheck(c)
    PROVE  StepOK(c)
<1>0. /\ Quiet /\ UNCHANGED <<op, gcMarker, txStale, marker>> /\ marker' \in [Keys -> Markers]
      /\ pc[c] = "recheck"
    BY Known DEF Recheck, Quiet, storage, rest, gc
<1>1. pc[c] \in HasMarker
    BY <1>0 DEF HasMarker
<1> DEFINE m == call[c].mk  current == Effective(TableOf(c)) = m.loc
<1>2. CASE current /\ On(c, "found")
    <2>1. Effective(At(c)) = m.loc /\ m.loc.op = op[c] /\ op[c] \in Keys /\ At(c) \in Tables
        BY <1>1, <1>2, HasMarkerFacts
    <2>2. In(op[c], Effective(At(c)))
        <3>1. Effective(At(c)) \in DOMAIN files
            BY <2>1, Known, EffectiveFacts
        <3>2. PICK l \in DOMAIN files : l = Effective(At(c))
            BY <3>1
        <3>3. In(l.op, l)
            BY InSelf, Known DEF StoreInv, StoreTypes
        <3> QED  BY <2>1, <3>2, <3>3
    <2> QED  BY <1>0, <1>1, <1>2, <2>1, <2>2, KeyOn DEF KeyPcs, HasPtr, RepairPcs
<1>3. CASE Answer(c, "error")
    BY <1>0, <1>3, QuietEnd DEF Replies
<1>4. CASE On(c, "takeover")
    BY <1>0, <1>1, <1>4, HasMarkerFacts, KeyOn DEF KeyPcs, HasPtr, RepairPcs
<1>5. CASE Answer(c, "retry")
    BY <1>0, <1>5, QuietEnd DEF Replies
<1> QED  BY <1>2, <1>3, <1>4, <1>5 DEF Recheck

LEMMA FoundOK ==
    ASSUME IndInv, NEW c \in Calls, Found(c)
    PROVE  StepOK(c)
<1>0. Quiet /\ UNCHANGED <<op, gcMarker, txStale>> /\ pc[c] = "found" /\ Answer(c, "ok")
    BY DEF Found, Quiet, rest, gc
<1>1. pc[c] \in HasMarker
    BY <1>0 DEF HasMarker
<1>2. In(op[c], Effective(At(c)))
    BY <1>0, Known DEF CallInv, KeyInv
<1>3. /\ marker' \in [Keys -> Markers]
      /\ \A j \in Keys : marker'[j] = marker[j] \/ MarkerOK(j, marker'[j])
    <2>1. CASE Mine(c)
        <3>1. SetMarker(op[c], "committed", call[c].mk.loc)
            BY <2>1 DEF Found, Key
        <3> QED  BY <1>1, <1>2, <3>1, HasMarkerFacts, Known, SetMarkerFacts
    <2>2. CASE ~Mine(c)
        BY <2>2, Known DEF Found
    <2> QED  BY <2>1, <2>2
<1>4. \A t \in OpTables[op[c]] : In(op[c], Effective(t))
    BY <1>1, <1>2, HasMarkerFacts
<1> QED  BY <1>0, <1>3, <1>4, QuietEnd DEF Replies

LEMMA TakeoverOK ==
    ASSUME IndInv, NEW c \in Calls, Takeover(c)
    PROVE  StepOK(c)
<1>0. Quiet /\ UNCHANGED <<op, gcMarker, txStale>> /\ pc[c] = "takeover"
    BY DEF Takeover, Quiet, rest, gc
<1>1. op[c] \in Keys
    BY <1>0, HasMarkerFacts DEF HasMarker
<1>2. CASE Mine(c)
    BY <1>0, <1>1, <1>2, TakeMarkerOK DEF Takeover
<1>3. CASE ~Mine(c)
    BY <1>0, <1>1, <1>3, KeyOn DEF Takeover, KeyPcs, HasPtr, HasMarker, RepairPcs
<1> QED  BY <1>2, <1>3

LEMMA FailOK ==
    ASSUME IndInv, NEW c \in Calls, Fail(c)
    PROVE  StepOK(c)
<1>0. Quiet /\ UNCHANGED <<op, gcMarker, txStale>> /\ pc[c] \in HasMarker
    BY DEF Fail, Quiet, rest, gc, HasMarker
<1>1. CASE Mine(c) /\ SetMarker(Key(c), "failed", call[c].mk.loc) /\ Answer(c, "failed")
    <2>1. /\ marker' \in [Keys -> Markers]
          /\ \A j \in Keys : marker'[j] = marker[j] \/ MarkerOK(j, marker'[j])
        BY <1>0, <1>1, HasMarkerFacts, Known, SetMarkerFacts DEF Key
    <2> QED  BY <1>0, <1>1, <2>1, QuietEnd DEF Replies
<1>2. CASE Answer(c, "retry") /\ UNCHANGED marker
    BY <1>0, <1>2, Known, QuietEnd DEF Replies
<1> QED  BY <1>1, <1>2 DEF Fail

LEMMA FinishOK ==
    ASSUME IndInv, NEW c \in Calls, Finish(c)
    PROVE  StepOK(c)
<1>0. Quiet /\ UNCHANGED <<op, gcMarker, txStale>> /\ pc[c] \in HasMarker /\ pc[c] = "finish"
    BY DEF Finish, Quiet, rest, gc, HasMarker
<1>1. In(op[c], Effective(At(c))) /\ op[c] \in Keys /\ OpTables[op[c]] = {At(c)}
    BY <1>0, Known, HasMarkerFacts DEF CallInv, KeyInv
<1>2. CASE Mine(c) /\ SetMarker(Key(c), "committed", call[c].mk.loc) /\ Answer(c, "ok")
    <2>1. /\ marker' \in [Keys -> Markers]
          /\ \A j \in Keys : marker'[j] = marker[j] \/ MarkerOK(j, marker'[j])
        BY <1>0, <1>1, <1>2, HasMarkerFacts, Known, SetMarkerFacts DEF Key
    <2> QED  BY <1>0, <1>1, <1>2, <2>1, QuietEnd DEF Replies
<1>3. CASE On(c, "reread") /\ UNCHANGED marker
    BY <1>0, <1>1, <1>3, KeyOn DEF KeyPcs, HasPtr, HasMarker, RepairPcs
<1> QED  BY <1>2, <1>3 DEF Finish

LEMMA RereadOK ==
    ASSUME IndInv, NEW c \in Calls, Reread(c)
    PROVE  StepOK(c)
<1>0. /\ Quiet /\ UNCHANGED <<op, gcMarker, txStale, marker>> /\ marker' \in [Keys -> Markers]
      /\ op[c] \in Keys
    BY Known DEF Reread, Quiet, storage, rest, gc, CallInv, PcInv, KeyPcs
<1>1. OpTables[op[c]] = {At(c)}
    BY <1>0, AtFacts, OpFacts, Known DEF CallInv
<1>2. PICK a : a = IF marker[op[c]].status = "committed" THEN "ok" ELSE "retry"
    OBVIOUS
<1>3. a = "ok" => \A t \in OpTables[op[c]] : In(op[c], Effective(t))
    BY <1>0, <1>1, <1>2, Known DEF MarkerInv, MarkerOK
<1>4. Answer(c, a) /\ a \in Replies
    BY <1>2 DEF Reread, Replies, Key
<1> QED  BY <1>0, <1>3, <1>4, QuietEnd

LEMMA WriteOK ==
    ASSUME IndInv, NEW c \in Calls, Write(c)
    PROVE  StepOK(c)
<1>0. UNCHANGED <<pointer, marker, record, op, gcMarker, gcOrphans, txStale>> /\ pc[c] = "write"
    BY DEF Write, rest, gc
<1>1. /\ pc[c] \in HasMarker /\ op[c] \in Keys /\ At(c) \in Tables /\ call[c].own = "none"
      /\ marker' \in [Keys -> Markers]
    BY <1>0, HasMarkerFacts, Known DEF HasMarker
<1>2. CASE On(c, "fail") /\ UNCHANGED <<files, gone>>
    BY <1>0, <1>1, <1>2, KeyOn DEF Quiet, KeyPcs, HasPtr, HasMarker, RepairPcs
<1>3. CASE /\ ~Exists(call[c].mk.loc)
           /\ files' = Put(call[c].mk.loc, History(call[c].ptr.cur))
           /\ gone' = gone \ {call[c].mk.loc}
           /\ On(c, "swap")
    <2>1. PICK l, p : l = call[c].mk.loc /\ p = call[c].ptr
        OBVIOUS
    <2>2. /\ p.cur \in DOMAIN files /\ p.cur.table = At(c) /\ p.ver <= pointer[At(c)].ver
          /\ p.ver = pointer[At(c)].ver => p = pointer[At(c)]
          /\ p.pending = NoPending
        BY <1>0, <2>1, Known DEF CallInv, PtrInv, HasPtr, RepairPcs
    <2>3. l \in Locations /\ l.op = op[c] /\ l.table = At(c) /\ l.seq = p.cur.seq + 1 /\ l.op \notin Txs
        BY <1>0, <1>1, <2>1, Known, HasMarkerFacts, OpFacts DEF CallInv, KeyInv
    <2>4. NewFile(l, p.cur)
        BY <1>0, <1>3, <2>1, <2>2, <2>3 DEF NewFile
    <2>5. StorageMoves
        BY <2>2, <2>3, <2>4 DEF StorageMoves
    <2>6. Goto(c, "swap", call[c]) /\ "swap" \in KeyPcs
        BY <1>3 DEF On, KeyPcs
    <2>7. /\ Moves(c, "swap", call[c], reply[c]) /\ pc'[c] = "swap" /\ call'[c] = call[c] /\ op'[c] = op[c]
          /\ PcInv(c)' /\ TxInv(c)' /\ call'[c].own = "none"
          /\ At(c)' = At(c)
          /\ reply'[c] = "ok" => \A t \in OpTables[op[c]] : Names(History(Effective(t))', op[c])
        BY <1>0, <1>1, <2>5, <2>6, Known, KeyGoes
    <2>8. /\ DOMAIN files' = DOMAIN files \cup {l} /\ files'[l] = History(p.cur)
          /\ \A m : Exists(m) => files'[m] = files[m]
          /\ l \in DOMAIN files' \ gone' /\ l \notin gcOrphans'
        BY <2>2, <2>3, <2>4, NewFileFacts, Known DEF Exists
    <2>9. PtrInv(c)'
        BY <1>0, <2>1, <2>2, <2>7, <2>8 DEF PtrInv, RepairPcs
    <2>10. p.ver = pointer[At(c)].ver => files'[l] = Append(files'[p.cur], p.cur)
        <3> SUFFICES ASSUME p.ver = pointer[At(c)].ver PROVE files'[p.cur] = files[p.cur]
            BY <2>8 DEF History
        <3>1. p.cur = pointer[At(c)].cur /\ Exists(p.cur)
            BY <1>1, <2>2, Known DEF StoreInv, PointerInv, Safe
        <3> QED  BY <2>8, <3>1
    <2>11. KeyInv(c)'
        BY <1>0, <2>1, <2>3, <2>7, <2>8, <2>10 DEF KeyInv, In, Safe, Exists, History
    <2>12. ASSUME NEW d \in Calls PROVE Foreign(d)
        <3>1. Has(d) => op[d] \in Txs
            BY Known
        <3> QED  BY <1>0, <2>3, <2>8, <3>1 DEF Foreign
    <2> QED  BY <1>0, <1>1, <2>5, <2>7, <2>9, <2>11, <2>12 DEF StepOK, CallInv
<1> QED  BY <1>2, <1>3 DEF Write

LEMMA SwapOK ==
    ASSUME IndInv, NEW c \in Calls, Swap(c)
    PROVE  StepOK(c)
<1>0. UNCHANGED <<files, gone, marker, record, op, gcMarker, gcOrphans, txStale>> /\ pc[c] = "swap"
    BY DEF Swap, rest, gc
<1>1. /\ pc[c] \in HasMarker /\ op[c] \in Keys /\ At(c) \in Tables /\ call[c].own = "none"
      /\ OpTables[op[c]] = {At(c)} /\ At(c) = TableOf(c) /\ marker' \in [Keys -> Markers]
    BY <1>0, HasMarkerFacts, Known DEF HasMarker
<1>2. CASE On(c, "fail") /\ UNCHANGED pointer
    BY <1>0, <1>1, <1>2, KeyOn DEF Quiet, KeyPcs, HasPtr, HasMarker, RepairPcs
<1>3. CASE /\ PointerIs(TableOf(c), call[c].ptr.ver)
           /\ SetPointer(TableOf(c), [call[c].ptr EXCEPT !.cur = call[c].mk.loc, !.prev = call[c].ptr.cur,
                                                         !.pending = NoPending])
           /\ On(c, "finish")
    <2>1. PICK l, p : l = call[c].mk.loc /\ p = call[c].ptr
        OBVIOUS
    <2>2. p = pointer[At(c)] /\ p \in Pointers /\ p.pending = NoPending /\ p.ver = pointer[At(c)].ver
        BY <1>0, <1>1, <1>3, <2>1, Known DEF CallInv, PtrInv, HasPtr, RepairPcs, PointerIs, CallRecords
    <2>3. /\ l \in Locations /\ l.op = op[c] /\ l.table = At(c) /\ Safe(l) /\ files[l] = History(p.cur)
        BY <1>0, <1>1, <2>1, <2>2, Known, HasMarkerFacts DEF CallInv, KeyInv
    <2>4. PICK q : q = [p EXCEPT !.cur = l, !.prev = p.cur, !.pending = NoPending]
        OBVIOUS
    <2>5. q \in Pointers /\ q.cur = l /\ q.pending = NoPending
        BY <2>2, <2>3, <2>4, SwapFacts
    <2>6. SetPointer(At(c), q)
        BY <1>1, <1>3, <2>1, <2>4
    <2>7. /\ pointer' \in [Tables -> Pointers]
          /\ \A u \in Tables : u # At(c) => pointer'[u] = pointer[u]
          /\ pointer'[At(c)].ver = pointer[At(c)].ver + 1
          /\ pointer'[At(c)].cur = l /\ pointer'[At(c)].pending = NoPending
        BY <1>1, <2>5, <2>6, Known, SetFacts DEF StoreInv, StoreTypes
    <2>8. PICK t \in Tables : t = At(c)
        BY <1>1
    <2>9. PointerMoves(t) /\ StorageMoves
        BY <1>0, <1>1, <2>2, <2>3, <2>7, <2>8 DEF PointerMoves, Swapped, StorageMoves
    <2>10. Goto(c, "finish", call[c]) /\ "finish" \in KeyPcs
        BY <1>3 DEF On, KeyPcs
    <2>11. /\ Moves(c, "finish", call[c], reply[c]) /\ pc'[c] = "finish" /\ call'[c] = call[c] /\ op'[c] = op[c]
           /\ PcInv(c)' /\ TxInv(c)' /\ call'[c].own = "none"
           /\ At(c)' = At(c)
           /\ reply'[c] = "ok" => \A u \in OpTables[op[c]] : Names(History(Effective(u))', op[c])
        BY <1>0, <1>1, <2>9, <2>10, Known, KeyGoes
    <2>12. PtrInv(c)'
        BY <2>11 DEF PtrInv, HasPtr, RepairPcs
    <2>13. Names(History(Effective(At(c)))', op[c])
        <3>1. Effective(At(c))' = l
            BY <2>7, <2>11 DEF Effective, EffectiveLocation
        <3>2. History(Effective(At(c)))' = Append(files[l], l)
            BY <1>0, <3>1 DEF History
        <3>3. files[l] \in Seq(DOMAIN files) /\ l \in DOMAIN files
            BY <2>3, Known DEF StoreInv, FileInv, Safe, Exists
        <3> QED  BY <2>3, <3>2, <3>3, NamesAppend
    <2>14. KeyInv(c)'
        BY <2>1, <2>3, <2>11, <2>13 DEF KeyInv, In
    <2>15. ASSUME NEW d \in Calls PROVE Foreign(d)
        BY <1>0 DEF Foreign
    <2> QED  BY <1>0, <1>1, <2>9, <2>11, <2>12, <2>14, <2>15 DEF StepOK, CallInv
<1> QED  BY <1>2, <1>3 DEF Swap

----------------------------------------------------------------------------
(* A transaction's call goes on.                                           *)
LEMMA TxGoes ==
    ASSUME IndInv, StorageMoves, op' = op, NEW c \in Calls, op[c] \in Txs,
           NEW l \in TxPcs \cup RepairPcs, NEW r \in CallRecords, Goto(c, l, r),
           r.todo \subseteq OpTables[op[c]],
           l \in Walking => r.todo # {},
           l \in Preparing \cup RepairPcs => r.own = "preparing",
           l \in Prepared => r.own = "prepared",
           l \in {"abort", "unmark"} => r.own \in {"preparing", "prepared"},
           l \in {"lookup", "abortOld", "create"} => r.own = "none",
           l = "update" => r.todo = {},
           l \in {"abortStale", "abortOld"} => r.seen \in {"preparing", "prepared"}
    PROVE  /\ Moves(c, l, r, reply[c]) /\ pc'[c] = l /\ call'[c] = r /\ op'[c] = op[c]
           /\ PcInv(c)' /\ KeyInv(c)'
           /\ At(c)' = Min(r.todo)
<1>0. l \in Pcs
    BY DEF Pcs
<1>1. Moves(c, l, r, reply[c])
    BY <1>0, GotoMoves DEF IndInv
<1>2. pc'[c] = l /\ call'[c] = r /\ reply'[c] = reply[c] /\ op'[c] = op[c]
    BY <1>1, MovesFacts DEF IndInv
<1>4. op[c] \notin Keys
    BY OpFacts
<1>5. PcInv(c)'
    BY <1>2, <1>4
    DEF PcInv, KeyPcs, TxPcs, Walking, RepairPcs, Preparing, Prepared, Ended, IsTx
<1>6. KeyInv(c)'
    BY <1>2, ReplyStays DEF KeyInv, In, HasMarker, TxPcs, RepairPcs, Preparing, Prepared
<1>7. At(c)' = Min(r.todo)
    BY <1>2 DEF At, IsTx
<1> QED  BY <1>1, <1>2, <1>5, <1>6, <1>7

(* A transaction's call that has its record goes on with its tables, and   *)
(* nothing is written.                                                     *)
LEMMA TxQuiet ==
    ASSUME IndInv, Quiet, UNCHANGED <<op, gcMarker, txStale, marker>>, NEW c \in Calls, op[c] \in Txs,
           NEW l \in RepairPcs \cup {"stage"}, NEW r \in CallRecords, Goto(c, l, r),
           pc[c] \in RepairPcs \cup {"prepare"},
           r.own = call[c].own, r.todo = call[c].todo,
           l = "abortStale" => r.seen \in {"preparing", "prepared"},
           /\ r.ptr.cur \in DOMAIN files /\ r.ptr.cur.table = At(c)
           /\ r.ptr.ver <= pointer[At(c)].ver
           /\ r.ptr.ver = pointer[At(c)].ver => r.ptr = pointer[At(c)]
           /\ l \notin RepairPcs => r.ptr.pending = NoPending
           /\ l \in RepairPcs => r.ptr.pending # NoPending /\ record[r.ptr.pending.tx] # "none"
           /\ l = "clear" => record[r.ptr.pending.tx] = "aborted"
           /\ l = "finalize" => record[r.ptr.pending.tx] = "committed"
    PROVE  StepOK(c)
<1>1. StorageMoves /\ \A d \in Calls : Foreign(d)
    BY QuietOK
<1>2. /\ call[c].own = "preparing" /\ call[c].todo \subseteq OpTables[op[c]] /\ call[c].todo # {}
    BY Known DEF CallInv, PcInv, Walking, Preparing, RepairPcs, IsTx
<1>3. /\ Moves(c, l, r, reply[c]) /\ pc'[c] = l /\ call'[c] = r /\ op'[c] = op[c]
      /\ PcInv(c)' /\ KeyInv(c)'
      /\ At(c)' = Min(r.todo)
    BY <1>1, <1>2, TxGoes DEF TxPcs, RepairPcs, Preparing, Prepared
<1>4. At(c)' = At(c)
    BY <1>3 DEF At, IsTx
<1>5. UNCHANGED <<pointer, files, gone, record, gcOrphans>>
    BY DEF Quiet
<1>6. PtrInv(c)'
    BY <1>3, <1>4, <1>5 DEF PtrInv
<1>7. TxInv(c)'
    <2>1. Has(c)
        BY <1>2 DEF Has
    <2>2. /\ record[op[c]] \in {call[c].own, "aborted"}
          /\ record[op[c]] = call[c].own => \A t \in Done(c) : pointer[t].pending.tx = op[c]
          /\ \A m \in DOMAIN files : m.op = op[c] => m.table \notin call[c].todo
        BY <2>1, Known DEF CallInv, TxInv, RepairPcs
    <2>3. Done(c)' = Done(c)
        BY <1>3 DEF Done
    <2> QED  BY <1>3, <1>5, <2>2, <2>3 DEF TxInv, RepairPcs
<1>8. marker' \in [Keys -> Markers]
    BY Known
<1>9. Has(c)
    BY <1>2 DEF Has
<1> QED  BY <1>1, <1>3, <1>6, <1>7, <1>8, <1>9 DEF StepOK, CallInv

LEMMA QuietGiveUp ==
    ASSUME IndInv, Quiet, UNCHANGED <<op, gcMarker, txStale, marker>>, NEW c \in Calls,
           NEW a \in {"retry", "failed"}, GiveUp(c, a), Has(c), pc[c] \notin {"publish", "unmark"}
    PROVE  StepOK(c)
<1>1. StorageMoves /\ \A d \in Calls : Foreign(d)
    BY QuietOK
<1>2. CallInv(c)' /\ \E l, r : Moves(c, l, r, a)
    BY <1>1, GivesUpOK DEF Quiet
<1>3. marker' \in [Keys -> Markers]
    BY Known
<1> QED  BY <1>1, <1>2, <1>3 DEF StepOK

LEMMA RepairFacts ==
    ASSUME IndInv, NEW c \in Calls, pc[c] \in RepairPcs
    PROVE  /\ op[c] \in Keys \/ (op[c] \in Txs /\ Has(c))
           /\ At(c) \in Tables
           /\ LET p == call[c].ptr IN
              /\ p \in Pointers /\ p.pending # NoPending /\ p.pending.tx \in Txs /\ p.ver \in Nat
              /\ record[p.pending.tx] # "none"
              /\ p.cur \in DOMAIN files /\ p.cur.table = At(c)
              /\ p.ver <= pointer[At(c)].ver
              /\ p.ver = pointer[At(c)].ver => p = pointer[At(c)]
<1>1. op[c] \in Keys \/ (op[c] \in Txs /\ Has(c) /\ call[c].todo # {})
    BY Known DEF CallInv, PcInv, Ops, IsTx, Has, RepairPcs, Walking
<1>2. At(c) \in Tables
    BY <1>1, AtFacts, Known DEF CallInv
<1>3. call[c].ptr \in Pointers
    BY Known DEF CallRecords
<1> QED  BY <1>1, <1>2, <1>3, Known, PendingFacts DEF CallInv, PtrInv, HasPtr, RepairPcs

(* A call goes on with the pending update it found.                        *)
LEMMA RepairGoes ==
    ASSUME IndInv, Quiet, UNCHANGED <<op, gcMarker, txStale, marker>>, NEW c \in Calls,
           pc[c] \in RepairPcs,
           NEW l \in RepairPcs, NEW r \in CallRecords, Goto(c, l, r),
           r.own = call[c].own, r.todo = call[c].todo, r.ptr = call[c].ptr,
           l = "abortStale" => r.seen \in {"preparing", "prepared"},
           l = "clear" => record[Other(c)] = "aborted",
           l = "finalize" => record[Other(c)] = "committed"
    PROVE  StepOK(c)
<1>1. marker' \in [Keys -> Markers] /\ (op[c] \in Keys => call[c].own = "none")
    BY Known
<1>2. l \notin HasMarker /\ l # "swap" /\ l \notin {"found", "finish"}
    BY DEF RepairPcs, HasMarker
<1>3. CASE op[c] \in Keys
    BY <1>1, <1>2, <1>3, RepairFacts, KeyQuiet DEF Other
<1>4. CASE op[c] \in Txs
    BY <1>4, RepairFacts, TxQuiet DEF Other
<1> QED  BY <1>3, <1>4, RepairFacts

LEMMA BeginOK ==
    ASSUME IndInv, NEW c \in Calls, Begin(c)
    PROVE  StepOK(c)
<1>0. /\ Quiet /\ UNCHANGED <<op, gcMarker, txStale, marker>> /\ marker' \in [Keys -> Markers]
      /\ pc[c] = "idle" /\ call[c].own = "none" /\ call[c].todo \subseteq OpTables[op[c]]
      /\ call[c] \in CallRecords
    BY Known DEF Begin, Quiet, storage, gc, CallInv, PcInv, Ended
<1>1. CASE op[c] \in Keys
    <2>1. On(c, "load")
        BY <1>1, OpFacts DEF Begin, IsTx
    <2> QED  BY <1>0, <1>1, <2>1, KeyOn DEF KeyPcs, HasPtr, HasMarker, RepairPcs
<1>2. CASE op[c] \in Txs
    <2>1. Goto(c, "lookup", call[c])
        BY <1>2 DEF Begin, IsTx, On
    <2>2. StorageMoves /\ \A d \in Calls : Foreign(d)
        BY <1>0, QuietOK
    <2>3. /\ Moves(c, "lookup", call[c], reply[c]) /\ pc'[c] = "lookup" /\ call'[c] = call[c]
          /\ PcInv(c)' /\ KeyInv(c)'
        BY <1>0, <1>2, <2>1, <2>2, TxGoes DEF TxPcs, RepairPcs, Preparing, Prepared, Walking
    <2>4. PtrInv(c)' /\ TxInv(c)'
        BY <1>0, <2>3 DEF PtrInv, TxInv, Has, HasPtr, RepairPcs
    <2> QED  BY <1>0, <2>2, <2>3, <2>4 DEF StepOK, CallInv
<1> QED  BY <1>1, <1>2, Known DEF Ops

LEMMA PendingOK ==
    ASSUME IndInv, NEW c \in Calls, Pending(c)
    PROVE  StepOK(c)
<1>0. /\ Quiet /\ UNCHANGED <<op, gcMarker, txStale, marker>> /\ marker' \in [Keys -> Markers]
      /\ pc[c] = "pending" /\ pc[c] \in RepairPcs /\ call[c] \in CallRecords
    BY Known DEF Pending, Quiet, storage, rest, gc, RepairPcs
<1>1. record[Other(c)] # "none" /\ Other(c) \in Txs
    BY <1>0, RepairFacts DEF Other
<1>2. CASE record[Other(c)] = "committed" /\ On(c, "finalize")
    BY <1>0, <1>2, RepairGoes DEF On, RepairPcs
<1>3. CASE record[Other(c)] = "aborted" /\ On(c, "clear")
    BY <1>0, <1>3, RepairGoes DEF On, RepairPcs
<1>4. CASE /\ record[Other(c)] \in {"preparing", "prepared"}
           /\ Goto(c, "abortStale", [call[c] EXCEPT !.seen = record[Other(c)]])
    <2>1. PICK r : r = [call[c] EXCEPT !.seen = record[Other(c)]]
        OBVIOUS
    <2>2. /\ r \in CallRecords /\ r.seen \in {"preparing", "prepared"} /\ r.own = call[c].own
          /\ r.todo = call[c].todo /\ r.ptr = call[c].ptr
        BY <1>0, <1>4, <2>1 DEF CallRecords, Statuses
    <2> QED  BY <1>0, <1>4, <2>1, <2>2, RepairGoes DEF RepairPcs
<1>5. CASE IsTx(c) /\ GiveUp(c, "retry")
    <2>1. Has(c)
        BY <1>0, <1>5, RepairFacts, OpFacts DEF IsTx
    <2> QED  BY <1>0, <1>5, <2>1, QuietGiveUp
<1>6. CASE Answer(c, "retry")
    BY <1>0, <1>6, QuietEnd DEF Replies
<1>7. record[Other(c)] \in Statuses
    BY <1>1, Known DEF StoreInv, StoreTypes
<1> QED  BY <1>1, <1>2, <1>3, <1>4, <1>5, <1>6, <1>7 DEF Pending, Statuses

(* Its own transaction while the record of another one, or of this one, is *)
(* aborted.                                                                *)
LEMMA TxAborts ==
    ASSUME IndInv, StorageMoves, NEW c \in Calls, Has(c), pc[c] \in RepairPcs,
           UNCHANGED <<pointer, files>>, record'[op[c]] \in {record[op[c]], "aborted"},
           op'[c] = op[c], call'[c] = call[c], pc'[c] \in RepairPcs
    PROVE  TxInv(c)'
<1>1. /\ record[op[c]] \in {call[c].own, "aborted"} /\ call[c].own # "aborted"
      /\ record[op[c]] = call[c].own => \A t \in Done(c) : pointer[t].pending.tx = op[c]
      /\ \A m \in DOMAIN files : m.op = op[c] => m.table \notin call[c].todo
    BY Known DEF CallInv, TxInv, RepairPcs
<1>2. Done(c)' = Done(c)
    BY DEF Done
<1> QED  BY <1>1, <1>2 DEF TxInv, RepairPcs

LEMMA AbortStaleOK ==
    ASSUME IndInv, NEW c \in Calls, AbortStale(c)
    PROVE  StepOK(c)
<1>0. /\ UNCHANGED <<pointer, files, gone, gcOrphans, op, gcMarker, txStale, marker>>
      /\ marker' \in [Keys -> Markers]
      /\ pc[c] = "abortStale" /\ pc[c] \in RepairPcs /\ call[c] \in CallRecords
    BY Known DEF AbortStale, rest, gc, RepairPcs
<1>1. CASE record[Other(c)] # call[c].seen /\ Settled(c) /\ UNCHANGED record
    <2>1. Quiet
        BY <1>0, <1>1 DEF Quiet
    <2>2. CASE op[c] \in Txs
        <3>1. Has(c) /\ GiveUp(c, "retry")
            BY <1>0, <1>1, <2>2, RepairFacts, OpFacts DEF Settled, IsTx
        <3> QED  BY <1>0, <2>1, <3>1, QuietGiveUp
    <2>3. CASE op[c] \in Keys
        <3>1. On(c, "load")
            BY <1>1, <2>3, OpFacts DEF Settled, IsTx
        <3> QED  BY <1>0, <2>1, <2>3, <3>1, KeyOn DEF KeyPcs, HasPtr, HasMarker, RepairPcs
    <2> QED  BY <2>2, <2>3, Known DEF Ops
<1>2. CASE record[Other(c)] = call[c].seen /\ SetRecord(Other(c), "aborted") /\ On(c, "clear")
    <2> DEFINE x == Other(c)
    <2>1. x \in Txs /\ record[x] \in {"preparing", "prepared"} /\ record' = [record EXCEPT ![x] = "aborted"]
        BY <1>0, <1>2, RepairFacts, Known DEF Other, SetRecord, CallInv, PcInv
    <2>2. RecordMoves(x) /\ StorageMoves
        BY <1>0, <2>1 DEF RecordMoves, StorageMoves
    <2>3. /\ record'[x] = "aborted" /\ record' \in [Txs -> Statuses]
          /\ \A y \in Txs : record'[y] \in {record[y], "aborted"}
        BY <2>1, Known DEF StoreInv, StoreTypes, Statuses
    <2>4. \A d \in Calls : Foreign(d)
        BY <1>0, <2>3, Known DEF Foreign
    <2>5. Goto(c, "clear", call[c]) /\ "clear" \in RepairPcs
        BY <1>2 DEF On, RepairPcs
    <2>6. /\ Moves(c, "clear", call[c], reply[c]) /\ pc'[c] = "clear" /\ call'[c] = call[c]
          /\ PcInv(c)' /\ KeyInv(c)' /\ TxInv(c)' /\ At(c)' = At(c) /\ op'[c] = op[c]
        <3>1. CASE op[c] \in Keys
            <4>1. /\ Moves(c, "clear", call[c], reply[c]) /\ pc'[c] = "clear" /\ call'[c] = call[c]
                  /\ PcInv(c)' /\ TxInv(c)' /\ At(c)' = At(c) /\ op'[c] = op[c]
                  /\ reply'[c] = "ok" => \A t \in OpTables[op[c]] : Names(History(Effective(t))', op[c])
                BY <1>0, <2>2, <2>5, <3>1, Known, KeyGoes
            <4>2. KeyInv(c)'
                BY <4>1 DEF KeyInv, HasMarker, In
            <4> QED  BY <4>1, <4>2
        <3>2. CASE op[c] \in Txs
            <4>1. /\ call[c].own = "preparing" /\ call[c].todo \subseteq OpTables[op[c]]
                  /\ call[c].todo # {}
                BY <1>0, <3>2, Known DEF CallInv, PcInv, Walking, IsTx
            <4>2. /\ Moves(c, "clear", call[c], reply[c]) /\ pc'[c] = "clear" /\ call'[c] = call[c]
                  /\ PcInv(c)' /\ KeyInv(c)' /\ op'[c] = op[c] /\ At(c)' = Min(call[c].todo)
                BY <1>0, <2>2, <2>5, <3>2, <4>1, TxGoes DEF TxPcs, RepairPcs, Preparing, Prepared
            <4>3. At(c)' = At(c)
                BY <3>2, <4>2 DEF At, IsTx
            <4>4. TxInv(c)'
                BY <1>0, <2>2, <2>3, <2>5, <3>2, <4>1, <4>2, TxAborts DEF Has
            <4> QED  BY <4>2, <4>3, <4>4
        <3> QED  BY <3>1, <3>2, Known DEF Ops
    <2>7. PtrInv(c)'
        BY <1>0, <2>3, <2>6, RepairFacts DEF PtrInv, Other, RepairPcs
    <2>8. call'[c].own # "none" => Has(c)
        BY <2>6 DEF Has
    <2> QED  BY <1>0, <2>2, <2>4, <2>6, <2>7, <2>8 DEF StepOK, CallInv
<1> QED  BY <1>1, <1>2 DEF AbortStale

LEMMA RepairPendingOK ==
    ASSUME IndInv, NEW c \in Calls, RepairPending(c)
    PROVE  StepOK(c)
<1>0. /\ UNCHANGED <<files, gone, record, gcOrphans, op, gcMarker, txStale, marker>>
      /\ marker' \in [Keys -> Markers]
      /\ pc[c] \in {"clear", "finalize"} /\ pc[c] \in RepairPcs /\ call[c] \in CallRecords
    BY Known DEF RepairPending, rest, gc, RepairPcs
<1>1. PICK p : p = call[c].ptr
    OBVIOUS
<1>2. /\ p \in Pointers /\ p.pending # NoPending /\ At(c) \in Tables
      /\ p.ver = pointer[At(c)].ver => p = pointer[At(c)]
      /\ pc[c] = "clear" => record[p.pending.tx] = "aborted"
      /\ pc[c] = "finalize" => record[p.pending.tx] = "committed"
    BY <1>0, <1>1, RepairFacts, Known DEF CallInv, PtrInv, HasPtr
<1>3. StorageMoves
    <2>1. CASE UNCHANGED pointer
        BY <1>0, <2>1 DEF StorageMoves, Quiet
    <2>2. CASE /\ PointerIs(At(c), p.ver) /\ pc[c] = "clear"
               /\ SetPointer(At(c), WithoutPending(p))
        <3>1. p = pointer[At(c)]
            BY <1>2, <2>2 DEF PointerIs
        <3>2. PICK q, t : q = WithoutPending(p) /\ t = At(c)
            OBVIOUS
        <3>3. q \in Pointers /\ q.cur = p.cur /\ q.pending = NoPending /\ t \in Tables
            BY <1>2, <3>2, WithoutFacts
        <3>4. /\ pointer' \in [Tables -> Pointers]
              /\ \A u \in Tables : u # t => pointer'[u] = pointer[u]
              /\ pointer'[t].ver = pointer[t].ver + 1
              /\ pointer'[t].cur = p.cur /\ pointer'[t].pending = NoPending
            BY <2>2, <3>2, <3>3, Known, SetFacts DEF StoreInv, StoreTypes
        <3>5. PointerMoves(t)
            BY <1>0, <1>2, <2>2, <3>1, <3>2, <3>4 DEF PointerMoves, Cleared
        <3> QED  BY <3>3, <3>5 DEF StorageMoves
    <2>3. CASE /\ PointerIs(At(c), p.ver) /\ pc[c] = "finalize"
               /\ SetPointer(At(c), FinalizePending(p))
        <3>1. p = pointer[At(c)]
            BY <1>2, <2>3 DEF PointerIs
        <3>2. PICK q, t : q = FinalizePending(p) /\ t = At(c)
            OBVIOUS
        <3>3. q \in Pointers /\ q.cur = p.pending.loc /\ q.pending = NoPending /\ t \in Tables
            BY <1>2, <3>2, FinalizeFacts
        <3>4. /\ pointer' \in [Tables -> Pointers]
              /\ \A u \in Tables : u # t => pointer'[u] = pointer[u]
              /\ pointer'[t].ver = pointer[t].ver + 1
              /\ pointer'[t].cur = p.pending.loc /\ pointer'[t].pending = NoPending
            BY <2>3, <3>2, <3>3, Known, SetFacts DEF StoreInv, StoreTypes
        <3>5. PointerMoves(t)
            BY <1>0, <1>2, <2>3, <3>1, <3>2, <3>4 DEF PointerMoves, Finalized
        <3> QED  BY <3>3, <3>5 DEF StorageMoves
    <2> QED  BY <1>0, <1>1, <2>1, <2>2, <2>3 DEF RepairPending
<1>4. \A d \in Calls : Foreign(d)
    BY <1>0 DEF Foreign
<1>5. CASE op[c] \in Txs
    <2>1. Has(c) /\ GiveUp(c, "retry") /\ pc[c] \notin {"publish", "unmark"}
        BY <1>0, <1>5, RepairFacts, OpFacts DEF Settled, IsTx, RepairPending
    <2>2. CallInv(c)' /\ \E l, r : Moves(c, l, r, "retry")
        BY <1>0, <1>3, <2>1, GivesUpOK
    <2> QED  BY <1>0, <1>3, <1>4, <2>1, <2>2 DEF StepOK
<1>6. CASE op[c] \in Keys
    <2>1. Goto(c, "load", call[c]) /\ "load" \in KeyPcs
        BY <1>6, OpFacts DEF Settled, IsTx, RepairPending, On, KeyPcs
    <2>2. /\ Moves(c, "load", call[c], reply[c]) /\ pc'[c] = "load" /\ call'[c] = call[c]
          /\ PcInv(c)' /\ TxInv(c)' /\ call'[c].own = "none" /\ op'[c] = op[c]
          /\ reply'[c] = "ok" => \A t \in OpTables[op[c]] : Names(History(Effective(t))', op[c])
        BY <1>0, <1>3, <1>6, <2>1, Known, KeyGoes
    <2>3. KeyInv(c)' /\ PtrInv(c)'
        BY <2>2 DEF KeyInv, PtrInv, HasMarker, HasPtr, RepairPcs, In
    <2> QED  BY <1>0, <1>3, <1>4, <2>2, <2>3 DEF StepOK, CallInv
<1> QED  BY <1>5, <1>6, Known DEF Ops

(* A committed transaction is in the history of its tables, and only such  *)
(* a one.                                                                  *)
LEMMA CommittedApplied ==
    ASSUME StoreInv, NEW x \in Txs, NEW t \in OpTables[x]
    PROVE  In(x, Effective(t)) <=> record[x] = "committed"
<1>0. t \in Tables
    BY OpFacts DEF Ops
<1> DEFINE p == pointer[t]
<1>1. /\ p.cur \in DOMAIN files /\ History(p.cur) \in Seq(DOMAIN files)
      /\ In(x, p.cur) => record[x] = "committed"
      /\ record[x] = "committed" => In(x, p.cur) \/ p.pending.tx = x
      /\ p.pending.tx = x => p.pending # NoPending
    BY <1>0, CurFacts DEF StoreInv, PointerInv
<1>2. CASE p.pending # NoPending /\ record[p.pending.tx] = "committed"
    <2>1. PICK l : l = p.pending.loc
        OBVIOUS
    <2>2. Effective(t) = l /\ l \in DOMAIN files /\ l.op = p.pending.tx /\ files[l] = History(p.cur)
        BY <1>0, <1>2, <2>1, EffectiveFacts, CurFacts DEF StoreInv, PointerInv
    <2>3. In(x, l) <=> In(x, p.cur) \/ l.op = x
        <3>1. PICK h : h = History(p.cur)
            OBVIOUS
        <3>2. Names(Append(h, l), x) <=> Names(h, x) \/ l.op = x
            BY <1>1, <2>2, <3>1, NamesAppend
        <3>3. In(x, p.cur) <=> Names(h, x)
            BY <3>1 DEF In
        <3>4. In(x, l) <=> Names(Append(h, l), x)
            BY <2>2, <3>1 DEF In, History
        <3> QED  BY <3>2, <3>3, <3>4
    <2> QED  BY <1>1, <1>2, <2>2, <2>3
<1>3. CASE ~(p.pending # NoPending /\ record[p.pending.tx] = "committed")
    <2>1. Effective(t) = p.cur
        BY <1>0, <1>3, EffectiveFacts
    <2> QED  BY <1>1, <1>3, <2>1
<1> QED  BY <1>2, <1>3

LEMMA LookupOK ==
    ASSUME IndInv, NEW c \in Calls, Lookup(c)
    PROVE  StepOK(c)
<1>0. /\ Quiet /\ UNCHANGED <<op, gcMarker, txStale, marker>> /\ marker' \in [Keys -> Markers]
      /\ pc[c] = "lookup" /\ call[c] \in CallRecords /\ op[c] \in Txs
      /\ call[c].own = "none" /\ call[c].todo \subseteq OpTables[op[c]]
    BY Known DEF Lookup, Quiet, storage, rest, gc, CallInv, PcInv, TxPcs
<1>1. StorageMoves /\ \A d \in Calls : Foreign(d)
    BY <1>0, QuietOK
<1>2. ASSUME NEW l \in {"create", "abortOld"}, NEW r \in CallRecords, Goto(c, l, r), r.own = "none",
             r.todo \subseteq OpTables[op[c]], l = "abortOld" => r.seen \in {"preparing", "prepared"}
      PROVE  StepOK(c)
    <2>1. l \in TxPcs /\ l \notin Walking \cup Preparing \cup RepairPcs \cup Prepared
        BY DEF TxPcs, RepairPcs, Preparing, Prepared, Walking
    <2>2. l \notin {"abort", "unmark", "update", "abortStale"}
        OBVIOUS
    <2>3. /\ Moves(c, l, r, reply[c]) /\ pc'[c] = l /\ call'[c] = r
          /\ PcInv(c)' /\ KeyInv(c)'
        BY <1>0, <1>1, <1>2, <2>1, <2>2, TxGoes
    <2>4. PtrInv(c)' /\ TxInv(c)'
        BY <1>2, <2>3 DEF PtrInv, TxInv, Has, HasPtr, RepairPcs
    <2> QED  BY <1>0, <1>1, <1>2, <2>3, <2>4 DEF StepOK, CallInv
<1>3. CASE On(c, "create")
    BY <1>0, <1>2, <1>3 DEF On
<1>4. CASE record[op[c]] = "committed" /\ Answer(c, "ok")
    <2>1. \A t \in OpTables[op[c]] : In(op[c], Effective(t))
        BY <1>0, <1>4, Known, CommittedApplied
    <2> QED  BY <1>0, <1>4, <2>1, QuietEnd DEF Replies
<1>5. CASE Answer(c, "failed")
    BY <1>0, <1>5, QuietEnd DEF Replies
<1>6. CASE Answer(c, "retry")
    BY <1>0, <1>6, QuietEnd DEF Replies
<1>7. CASE /\ record[op[c]] \in {"preparing", "prepared"}
           /\ Goto(c, "abortOld", [Fresh EXCEPT !.seen = record[op[c]]])
    <2>1. PICK r : r = [Fresh EXCEPT !.seen = record[op[c]]]
        OBVIOUS
    <2>2. r \in CallRecords /\ r.own = "none" /\ r.todo = {} /\ r.seen \in {"preparing", "prepared"}
        BY <1>7, <2>1, FreshFacts DEF CallRecords, Statuses
    <2> QED  BY <1>2, <1>7, <2>1, <2>2
<1>8. record[op[c]] \in Statuses
    BY <1>0, Known DEF StoreInv, StoreTypes
<1> QED  BY <1>3, <1>4, <1>5, <1>6, <1>7, <1>8 DEF Lookup, Tx, Statuses

(* A record that is aborted.                                               *)
LEMMA AbortsFacts ==
    ASSUME IndInv, NEW x \in Txs, record[x] \in {"preparing", "prepared"}, SetRecord(x, "aborted"),
           UNCHANGED <<pointer, files, gone, gcOrphans>>
    PROVE  /\ StorageMoves /\ \A d \in Calls : Foreign(d)
           /\ record'[x] = "aborted"
<1>1. RecordMoves(x)
    BY DEF RecordMoves, SetRecord
<1>2. record \in [Txs -> Statuses]
    BY DEF IndInv, TypeInv, TypeOK
<1>3. record'[x] = "aborted" /\ \A y \in Txs : record'[y] \in {record[y], "aborted"}
    BY <1>2 DEF SetRecord
<1>4. ASSUME NEW d \in Calls PROVE Foreign(d)
    <2>1. Has(d) => op[d] \in Txs
        BY Known
    <2> QED  BY <1>3, <2>1 DEF Foreign
<1> QED  BY <1>1, <1>3, <1>4 DEF StorageMoves

LEMMA AbortOldOK ==
    ASSUME IndInv, NEW c \in Calls, AbortOld(c)
    PROVE  StepOK(c)
<1>0. /\ UNCHANGED <<pointer, files, gone, gcOrphans, op, gcMarker, txStale, marker>>
      /\ marker' \in [Keys -> Markers] /\ op[c] \in Txs /\ Answer(c, "retry")
      /\ call[c].seen \in {"preparing", "prepared"}
    BY Known DEF AbortOld, rest, gc, CallInv, PcInv, TxPcs
<1>1. CASE UNCHANGED record
    BY <1>0, <1>1, QuietEnd DEF Quiet, Replies
<1>2. CASE record[op[c]] = call[c].seen /\ SetRecord(op[c], "aborted")
    <2>1. StorageMoves /\ \A d \in Calls : Foreign(d)
        BY <1>0, <1>2, AbortsFacts
    <2>2. Moves(c, "done", Fresh, "retry")
        BY <1>0, AnswerMoves DEF Replies
    <2>3. CallInv(c)' /\ call'[c].own = "none"
        BY <1>0, <2>1, <2>2, EndsOK
    <2> QED  BY <1>0, <2>1, <2>2, <2>3 DEF StepOK
<1> QED  BY <1>1, <1>2 DEF AbortOld, Tx

LEMMA CreateOK ==
    ASSUME IndInv, NEW c \in Calls, Create(c)
    PROVE  StepOK(c)
<1>0. /\ UNCHANGED <<pointer, files, gone, gcOrphans, op, gcMarker, txStale, marker>>
      /\ marker' \in [Keys -> Markers] /\ op[c] \in Txs
    BY Known DEF Create, rest, gc, CallInv, PcInv, TxPcs
<1>1. CASE record[op[c]] # "none"
    <2>1. PICK a : a = CASE record[op[c]] = "committed" -> "ok"
                         [] record[op[c]] = "aborted" -> "failed"
                         [] OTHER -> "retry"
        OBVIOUS
    <2>2. Answer(c, a) /\ Quiet
        BY <1>0, <1>1, <2>1 DEF Create, Tx, Quiet
    <2>3. a \in Replies /\ (a = "ok" => record[op[c]] = "committed")
        BY <2>1 DEF Replies
    <2>4. a = "ok" => \A t \in OpTables[op[c]] : In(op[c], Effective(t))
        BY <1>0, <2>3, Known, CommittedApplied
    <2> QED  BY <1>0, <2>2, <2>3, <2>4, QuietEnd
<1>2. CASE record[op[c]] = "none"
    <2> DEFINE x == op[c]
    <2>1. SetRecord(x, "preparing")
        BY <1>2 DEF Create, Tx
    <2>2. RecordMoves(x) /\ StorageMoves
        BY <1>0, <1>2, <2>1 DEF RecordMoves, SetRecord, StorageMoves
    <2>3. record'[x] = "preparing" /\ \A y \in Txs : y # x => record'[y] = record[y]
        BY <1>0, <2>1, Known DEF SetRecord, StoreInv, StoreTypes
    <2>4. ASSUME NEW d \in Calls PROVE Foreign(d)
        <3>1. Has(d) => op[d] \in Txs /\ op[d] # x
            BY <1>2, Known
        <3> QED  BY <1>0, <2>3, <3>1 DEF Foreign
    <2>5. PICK r : r = [Fresh EXCEPT !.own = "preparing", !.todo = OpTables[x]]
        OBVIOUS
    <2>6. r \in CallRecords /\ r.own = "preparing" /\ r.todo = OpTables[x] /\ OpTables[x] # {}
        BY <1>0, <2>5, FreshFacts, OpFacts, Known DEF CallRecords, Statuses
    <2>7. Goto(c, "prepare", r)
        BY <1>2, <2>5 DEF Create, Tx
    <2>8. /\ Moves(c, "prepare", r, reply[c]) /\ pc'[c] = "prepare" /\ call'[c] = r
          /\ PcInv(c)' /\ KeyInv(c)' /\ op'[c] = x
        BY <1>0, <2>2, <2>6, <2>7, TxGoes DEF TxPcs, RepairPcs, Preparing, Prepared, Walking
    <2>9. PtrInv(c)'
        BY <2>8 DEF PtrInv, HasPtr, RepairPcs
    <2>10. Done(c)' = {}
        BY <2>6, <2>8 DEF Done
    <2>11. \A l \in DOMAIN files : l.op # x
        BY <1>0, <1>2, Known DEF StoreInv, FileInv
    <2>12. TxInv(c)'
        BY <1>0, <2>3, <2>6, <2>8, <2>10, <2>11 DEF TxInv, Has, RepairPcs
    <2> QED  BY <1>0, <1>2, <2>2, <2>4, <2>8, <2>9, <2>12 DEF StepOK, CallInv
<1> QED  BY <1>1, <1>2

LEMMA PrepareOK ==
    ASSUME IndInv, NEW c \in Calls, Prepare(c)
    PROVE  StepOK(c)
<1>0. /\ Quiet /\ UNCHANGED <<op, gcMarker, txStale, marker>>
      /\ pc[c] = "prepare" /\ call[c] \in CallRecords /\ op[c] \in Txs
      /\ call[c].todo # {}
    BY Known DEF Prepare, Quiet, storage, rest, gc, CallInv, PcInv, TxPcs, Preparing, Walking, IsTx
<1>1. At(c) \in Tables
    BY <1>0, AtFacts, Known DEF CallInv
<1>2. PICK p : p = pointer[At(c)]
    OBVIOUS
<1>3. /\ p \in Pointers /\ p.ver \in Nat /\ p.cur \in DOMAIN files /\ p.cur.table = At(c)
      /\ p.pending # NoPending => record[p.pending.tx] # "none"
    BY <1>1, <1>2, CurFacts, Known DEF StoreInv, PointerInv
<1>4. PICK r : r = [call[c] EXCEPT !.ptr = p]
    OBVIOUS
<1>5. r \in CallRecords /\ r.own = call[c].own /\ r.todo = call[c].todo /\ r.ptr = p
    BY <1>0, <1>3, <1>4 DEF CallRecords
<1>6. Goto(c, IF p.pending # NoPending THEN "pending" ELSE "stage", r)
    BY <1>2, <1>4 DEF Prepare
<1>7. CASE p.pending # NoPending
    <2>1. Goto(c, "pending", r) /\ "pending" \in RepairPcs
        BY <1>6, <1>7 DEF RepairPcs
    <2> QED  BY <1>0, <1>2, <1>3, <1>5, <1>7, <2>1, TxQuiet
<1>8. CASE p.pending = NoPending
    <2>1. Goto(c, "stage", r) /\ "stage" \notin RepairPcs
        BY <1>6, <1>8 DEF RepairPcs
    <2> QED  BY <1>0, <1>2, <1>3, <1>5, <1>8, <2>1, TxQuiet
<1> QED  BY <1>7, <1>8

(* Steps of the one call that has the record leave the transactions of the *)
(* others alone.                                                           *)
LEMMA OwnStep ==
    ASSUME IndInv, NEW c \in Calls, Has(c),
           \A y \in Txs : y # op[c] => record'[y] = record[y],
           \A l \in DOMAIN files' \ DOMAIN files : l.op = op[c]
    PROVE  \A d \in Calls : d # c => Foreign(d)
<1> SUFFICES ASSUME NEW d \in Calls, d # c, Has(d) PROVE Foreign(d)
    BY DEF Foreign
<1>1. op[d] # op[c] /\ op[d] \in Txs
    BY Known DEF UniqueInv
<1> QED  BY <1>1 DEF Foreign

(* What a coordinator that prepares knows.                                 *)
LEMMA PreparingFacts ==
    ASSUME IndInv, NEW c \in Calls, pc[c] \in {"stage", "mark"}
    PROVE  /\ op[c] \in Txs /\ Has(c) /\ call[c].own = "preparing"
           /\ call[c].todo \subseteq OpTables[op[c]] /\ call[c].todo # {}
           /\ At(c) \in call[c].todo /\ At(c) \in Tables /\ At(c) \in OpTables[op[c]]
           /\ record[op[c]] \in {"preparing", "aborted"}
           /\ record[op[c]] = "preparing" =>
                \A t \in OpTables[op[c]] \ call[c].todo : pointer[t].pending.tx = op[c]
           /\ LET p == call[c].ptr IN
              /\ p \in Pointers /\ p.ver \in Nat /\ p.pending = NoPending
              /\ p.cur \in DOMAIN files /\ p.cur.table = At(c) /\ p.cur.seq \in Nat
              /\ p.ver <= pointer[At(c)].ver
              /\ p.ver = pointer[At(c)].ver => p = pointer[At(c)]
           /\ LET l == TxLocation(c) IN
              /\ l = TxLocationAt(c) /\ l \in Locations
              /\ l.op = op[c] /\ l.table = At(c) /\ l.seq = call[c].ptr.cur.seq + 1
<1>1. /\ op[c] \in Txs /\ Has(c) /\ call[c].own = "preparing"
      /\ call[c].todo \subseteq OpTables[op[c]] /\ call[c].todo # {}
    BY Known DEF CallInv, PcInv, TxPcs, Preparing, Walking, IsTx, Has
<1>2. At(c) \in call[c].todo /\ At(c) \in Tables /\ At(c) \in OpTables[op[c]]
    BY <1>1, AtFacts, Known DEF CallInv
<1>3. /\ record[op[c]] \in {"preparing", "aborted"}
      /\ record[op[c]] = "preparing" =>
           \A t \in OpTables[op[c]] \ call[c].todo : pointer[t].pending.tx = op[c]
    BY <1>1, Known DEF CallInv, TxInv, Done
<1>4. LET p == call[c].ptr IN
      /\ p.pending = NoPending
      /\ p.cur \in DOMAIN files /\ p.cur.table = At(c)
      /\ p.ver <= pointer[At(c)].ver
      /\ p.ver = pointer[At(c)].ver => p = pointer[At(c)]
    BY Known DEF CallInv, PtrInv, HasPtr, RepairPcs
<1>5. call[c].ptr \in Pointers /\ call[c].ptr.ver \in Nat
    BY Known, PendingFacts DEF CallRecords
<1>6. call[c].ptr.cur.seq \in Nat
    BY <1>4, Known DEF StoreInv, StoreTypes, Locations
<1>7. TxLocation(c) = TxLocationAt(c)
    BY <1>4, Known, TxLocationFacts DEF StoreInv
<1>8. /\ TxLocationAt(c) \in Locations /\ TxLocationAt(c).op = op[c] /\ TxLocationAt(c).table = At(c)
      /\ TxLocationAt(c).seq = call[c].ptr.cur.seq + 1
    BY <1>1, <1>2, <1>6 DEF TxLocationAt, Location, Locations, Ops
<1> QED  BY <1>1, <1>2, <1>3, <1>4, <1>5, <1>6, <1>7, <1>8

LEMMA StageOK ==
    ASSUME IndInv, NEW c \in Calls, Stage(c)
    PROVE  StepOK(c)
<1>0. /\ UNCHANGED <<pointer, record, gcOrphans, op, gcMarker, txStale, marker>>
      /\ marker' \in [Keys -> Markers] /\ pc[c] = "stage"
    BY Known DEF Stage, rest, gc
<1>1. CASE GiveUp(c, "failed") /\ UNCHANGED <<files, gone>>
    BY <1>0, <1>1, PreparingFacts, QuietGiveUp DEF Quiet
<1>2. CASE /\ files' = IF Exists(TxLocation(c)) THEN files
                       ELSE Put(TxLocation(c), History(call[c].ptr.cur))
           /\ gone' = gone \ {TxLocation(c)}
           /\ On(c, "mark")
    <2>1. PICK l, p : l = TxLocation(c) /\ p = call[c].ptr
        OBVIOUS
    <2>2. /\ op[c] \in Txs /\ Has(c) /\ call[c].own = "preparing"
          /\ call[c].todo \subseteq OpTables[op[c]] /\ call[c].todo # {} /\ At(c) \in call[c].todo
          /\ At(c) \in Tables
          /\ record[op[c]] \in {"preparing", "aborted"}
          /\ record[op[c]] = "preparing" =>
                \A t \in OpTables[op[c]] \ call[c].todo : pointer[t].pending.tx = op[c]
        BY <1>0, PreparingFacts
    <2>3. /\ p.cur \in DOMAIN files /\ p.cur.table = At(c) /\ p.ver <= pointer[At(c)].ver
          /\ p.ver = pointer[At(c)].ver => p = pointer[At(c)]
          /\ p.pending = NoPending
        BY <1>0, <2>1, PreparingFacts
    <2>4. /\ l = TxLocationAt(c) /\ l \in Locations /\ l.op = op[c] /\ l.table = At(c)
          /\ l.seq = p.cur.seq + 1
        BY <1>0, <2>1, PreparingFacts
    <2>5. \A m \in DOMAIN files : m.op = op[c] => m.table \notin call[c].todo
        BY <1>0, <2>2, Known DEF CallInv, TxInv
    <2>6. l \notin DOMAIN files
        BY <2>2, <2>4, <2>5
    <2>7. NewFile(l, p.cur)
        BY <1>0, <1>2, <2>1, <2>2, <2>3, <2>4, <2>6 DEF NewFile, Exists
    <2>8. StorageMoves
        BY <2>3, <2>4, <2>7 DEF StorageMoves
    <2>9. /\ DOMAIN files' = DOMAIN files \cup {l} /\ files'[l] = History(p.cur)
          /\ \A m : Exists(m) => files'[m] = files[m]
          /\ l \in DOMAIN files' \ gone' /\ l \notin gcOrphans'
        BY <2>3, <2>4, <2>7, NewFileFacts, Known DEF Exists
    <2>10. Goto(c, "mark", call[c])
        BY <1>2 DEF On
    <2>11. /\ Moves(c, "mark", call[c], reply[c]) /\ pc'[c] = "mark" /\ call'[c] = call[c]
           /\ PcInv(c)' /\ KeyInv(c)' /\ op'[c] = op[c] /\ At(c)' = Min(call[c].todo)
        BY <1>0, <2>2, <2>8, <2>10, Known, TxGoes DEF TxPcs, RepairPcs, Preparing, Prepared, Walking
    <2>12. At(c)' = At(c) /\ TxLocationAt(c)' = l /\ Done(c)' = Done(c)
        <3>1. At(c)' = At(c)
            BY <2>2, <2>11 DEF At, IsTx
        <3> QED  BY <2>4, <2>11, <3>1 DEF TxLocationAt, Done
    <2>13. PtrInv(c)'
        BY <1>0, <2>1, <2>3, <2>9, <2>11, <2>12 DEF PtrInv, RepairPcs
    <2>14. p.ver = pointer[At(c)].ver => files'[l] = Append(files'[p.cur], p.cur)
        <3> SUFFICES ASSUME p.ver = pointer[At(c)].ver PROVE files'[p.cur] = files[p.cur]
            BY <2>9 DEF History
        <3>1. p.cur = pointer[At(c)].cur /\ Exists(p.cur)
            BY <2>2, <2>3, Known DEF StoreInv, PointerInv, Safe
        <3> QED  BY <2>9, <3>1
    <2>15. \A m \in DOMAIN files' : m.op = op[c] /\ m.table \in call[c].todo => m = l
        BY <2>5, <2>9
    <2>16. Done(c) = OpTables[op[c]] \ call[c].todo
        BY <2>2 DEF Done
    <2>17. TxInv(c)'
        BY <1>0, <2>1, <2>2, <2>9, <2>11, <2>12, <2>14, <2>15, <2>16
        DEF TxInv, Safe, Exists, History, RepairPcs
    <2>18. \A d \in Calls : d # c => Foreign(d)
        BY <1>0, <2>2, <2>4, <2>9, OwnStep
    <2> QED  BY <1>0, <2>2, <2>8, <2>11, <2>13, <2>17, <2>18 DEF StepOK, CallInv
<1> QED  BY <1>1, <1>2 DEF Stage

LEMMA MarkOK ==
    ASSUME IndInv, NEW c \in Calls, Mark(c)
    PROVE  StepOK(c)
<1>0. /\ UNCHANGED <<files, gone, record, gcOrphans, op, gcMarker, txStale, marker>>
      /\ marker' \in [Keys -> Markers] /\ pc[c] = "mark"
    BY Known DEF Mark, rest, gc
<1>1. CASE GiveUp(c, "failed") /\ UNCHANGED pointer
    BY <1>0, <1>1, PreparingFacts, QuietGiveUp DEF Quiet
<1>2. PICK x, l, p, left : /\ x = op[c] /\ l = TxLocation(c) /\ p = call[c].ptr
                           /\ left = call[c].todo \ {At(c)}
    OBVIOUS
<1>3. CASE /\ PointerIs(At(c), p.ver)
           /\ SetPointer(At(c), [p EXCEPT !.pending = [tx |-> x, loc |-> l]])
           /\ Goto(c, IF left = {} THEN "update" ELSE "prepare",
                   [call[c] EXCEPT !.todo = left, !.ptr = NoPointer])
    <2>2. /\ x \in Txs /\ Has(c) /\ call[c].own = "preparing"
          /\ call[c].todo \subseteq OpTables[x] /\ call[c].todo # {} /\ At(c) \in call[c].todo
          /\ At(c) \in Tables /\ At(c) \in OpTables[x]
          /\ record[x] \in {"preparing", "aborted"}
          /\ record[x] = "preparing" =>
                \A t \in OpTables[x] \ call[c].todo : pointer[t].pending.tx = x
        BY <1>0, <1>2, PreparingFacts
    <2>3. /\ p = pointer[At(c)] /\ p \in Pointers /\ p.pending = NoPending
        BY <1>0, <1>2, <1>3, PreparingFacts DEF PointerIs
    <2>4. l = TxLocationAt(c) /\ l \in Locations /\ l.op = x /\ l.table = At(c)
        BY <1>0, <1>2, PreparingFacts
    <2>5. /\ Safe(l) /\ files[l] = History(p.cur)
          /\ \A m \in DOMAIN files : m.op = x /\ m.table \in call[c].todo => m = l
        BY <1>0, <1>2, <2>2, <2>3, <2>4, Known DEF CallInv, TxInv
    <2>6. PICK q, t : q = [p EXCEPT !.pending = [tx |-> x, loc |-> l]] /\ t = At(c)
        OBVIOUS
    <2>7. q \in Pointers /\ q.cur = p.cur /\ q.pending = [tx |-> x, loc |-> l] /\ t \in Tables
        BY <2>2, <2>3, <2>4, <2>6, MarkFacts
    <2>8. /\ pointer' \in [Tables -> Pointers]
          /\ \A u \in Tables : u # t => pointer'[u] = pointer[u]
          /\ pointer'[t].ver = pointer[t].ver + 1
          /\ pointer'[t].cur = p.cur /\ pointer'[t].pending = [tx |-> x, loc |-> l]
        BY <1>3, <2>6, <2>7, Known, SetFacts DEF StoreInv, StoreTypes
    <2>9. pointer'[t].pending # NoPending /\ pointer'[t].pending.tx = x /\ pointer'[t].pending.loc = l
        BY <2>2, <2>8, OpFacts DEF NoPending, Ops
    <2>10. Marked(t)
        BY <2>2, <2>3, <2>4, <2>5, <2>6, <2>8, <2>9 DEF Marked
    <2>11. PointerMoves(t) /\ StorageMoves
        BY <1>0, <2>7, <2>8, <2>10 DEF PointerMoves, StorageMoves
    <2>12. PICK r : r = [call[c] EXCEPT !.todo = left, !.ptr = NoPointer]
        OBVIOUS
    <2>13. r \in CallRecords /\ r.todo = left /\ r.own = "preparing" /\ left \subseteq OpTables[x]
        BY <1>2, <2>2, <2>12, Known, FreshFacts DEF CallRecords
    <2>14. PICK n : n = IF left = {} THEN "update" ELSE "prepare"
        OBVIOUS
    <2>15. Goto(c, n, r) /\ n \in {"update", "prepare"} /\ (n = "update" <=> left = {})
        BY <1>3, <2>12, <2>14
    <2>16. /\ n \in TxPcs /\ n \notin Prepared \cup RepairPcs
           /\ n \notin {"abort", "unmark", "lookup", "abortOld", "create", "abortStale"}
           /\ n \in Walking => n = "prepare"
        BY <2>15 DEF TxPcs, RepairPcs, Preparing, Prepared, Walking
    <2>17. /\ Moves(c, n, r, reply[c]) /\ pc'[c] = n /\ call'[c] = r
           /\ PcInv(c)' /\ KeyInv(c)' /\ op'[c] = x
        BY <1>0, <1>2, <2>2, <2>11, <2>13, <2>15, <2>16, TxGoes
    <2>18. PtrInv(c)'
        BY <2>15, <2>17 DEF PtrInv, HasPtr, RepairPcs
    <2>19. Done(c)' = OpTables[x] \ left
        BY <1>0, <1>2, <2>13, <2>17 DEF Done
    <2>20. ASSUME record[x] = "preparing", NEW u \in OpTables[x] \ left PROVE pointer'[u].pending.tx = x
        <3>1. u \in Tables
            BY <1>2, <2>2, OpFacts DEF Ops
        <3>2. u = t \/ u \in OpTables[x] \ call[c].todo
            BY <1>2, <2>6
        <3> QED  BY <2>2, <2>8, <2>9, <2>20, <3>1, <3>2, <2>6
    <2>21. \A m \in DOMAIN files : m.op = x => m.table \notin left
        BY <1>2, <2>4, <2>5
    <2>22. TxInv(c)'
        BY <1>0, <2>2, <2>13, <2>15, <2>17, <2>19, <2>20, <2>21 DEF TxInv, RepairPcs
    <2>23. \A d \in Calls : d # c => Foreign(d)
        BY <1>0, <2>2, OwnStep
    <2> QED  BY <1>0, <2>2, <2>11, <2>17, <2>18, <2>22, <2>23 DEF StepOK, CallInv
<1> QED  BY <1>1, <1>2, <1>3 DEF Mark, Tx

(* What a coordinator that has its record knows of it.                     *)
LEMMA OwnerFacts ==
    ASSUME IndInv, NEW c \in Calls,
           pc[c] \in {"update", "barrier", "commit", "reload", "publish", "abort", "unmark"}
    PROVE  /\ op[c] \in Txs /\ Has(c) /\ call[c].own \in {"preparing", "prepared"}
           /\ call[c].todo \subseteq OpTables[op[c]]
           /\ pc[c] # "publish" => record[op[c]] \in {call[c].own, "aborted"}
           /\ record[op[c]] = call[c].own => \A t \in Done(c) : pointer[t].pending.tx = op[c]
           /\ pc[c] = "update" => call[c].own = "preparing" /\ call[c].todo = {}
           /\ pc[c] \in Prepared => call[c].own = "prepared" /\ Done(c) = OpTables[op[c]]
           /\ pc[c] \in Walking => At(c) \in call[c].todo /\ At(c) \in Tables
<1>1. /\ op[c] \in Txs /\ Has(c) /\ call[c].own \in {"preparing", "prepared"}
      /\ call[c].todo \subseteq OpTables[op[c]]
      /\ pc[c] = "update" => call[c].own = "preparing" /\ call[c].todo = {}
      /\ pc[c] \in Prepared => call[c].own = "prepared"
      /\ pc[c] \in Walking => call[c].todo # {}
    BY Known DEF CallInv, PcInv, TxPcs, Preparing, Prepared, IsTx, Has
<1>2. pc[c] \in Walking => At(c) \in call[c].todo /\ At(c) \in Tables
    BY <1>1, AtFacts, Known DEF CallInv
<1> QED  BY <1>1, <1>2, Known DEF CallInv, TxInv, Done

LEMMA UpdateOK ==
    ASSUME IndInv, NEW c \in Calls, Update(c)
    PROVE  StepOK(c)
<1>0. /\ UNCHANGED <<pointer, files, gone, gcOrphans, op, gcMarker, txStale, marker>>
      /\ marker' \in [Keys -> Markers] /\ pc[c] = "update"
    BY Known DEF Update, rest, gc
<1>1. CASE GiveUp(c, "retry") /\ UNCHANGED record
    BY <1>0, <1>1, OwnerFacts, QuietGiveUp DEF Quiet
<1>2. CASE /\ Held(c) /\ SetRecord(op[c], "prepared")
           /\ Goto(c, "barrier", [call[c] EXCEPT !.own = "prepared", !.todo = OpTables[op[c]]])
    <2>1. PICK x, r : x = op[c] /\ r = [call[c] EXCEPT !.own = "prepared", !.todo = OpTables[op[c]]]
        OBVIOUS
    <2>2. /\ x \in Txs /\ Has(c) /\ call[c].own = "preparing" /\ record[x] = "preparing"
          /\ \A t \in OpTables[x] : pointer[t].pending.tx = x
        <3>1. Done(c) = OpTables[op[c]]
            BY <1>0, OwnerFacts DEF Done
        <3> QED  BY <1>0, <1>2, <2>1, <3>1, OwnerFacts DEF Held, Tx
    <2>3. r \in CallRecords /\ r.own = "prepared" /\ r.todo = OpTables[x] /\ OpTables[x] # {}
        BY <2>1, <2>2, Known, OpFacts DEF CallRecords, Statuses
    <2>4. RecordMoves(x) /\ StorageMoves
        BY <1>0, <1>2, <2>1, <2>2 DEF RecordMoves, SetRecord, StorageMoves
    <2>5. record'[x] = "prepared" /\ \A y \in Txs : y # x => record'[y] = record[y]
        BY <1>2, <2>1, <2>2, Known DEF SetRecord, StoreInv, StoreTypes
    <2>6. \A d \in Calls : d # c => Foreign(d)
        BY <1>0, <2>1, <2>2, <2>5, OwnStep
    <2>7. /\ Moves(c, "barrier", r, reply[c]) /\ pc'[c] = "barrier" /\ call'[c] = r
          /\ PcInv(c)' /\ KeyInv(c)' /\ op'[c] = x
        <3>0. PICK l : l = "barrier"
            OBVIOUS
        <3>1. Goto(c, l, r) /\ op[c] \in Txs /\ r.todo \subseteq OpTables[op[c]] /\ r.todo # {}
            BY <1>2, <2>1, <2>2, <2>3, <3>0
        <3>2. /\ l \in TxPcs /\ l \notin Preparing \cup RepairPcs
              /\ l \notin {"abort", "unmark", "lookup", "abortOld", "create", "update", "abortStale"}
            BY <3>0 DEF TxPcs, RepairPcs, Preparing, Prepared
        <3>3. /\ Moves(c, l, r, reply[c]) /\ pc'[c] = l /\ call'[c] = r
              /\ PcInv(c)' /\ KeyInv(c)' /\ op'[c] = op[c]
            BY <1>0, <2>3, <2>4, <3>1, <3>2, TxGoes
        <3> QED  BY <2>1, <3>0, <3>3
    <2>8. PtrInv(c)'
        BY <2>7 DEF PtrInv, HasPtr, RepairPcs
    <2>9. Done(c)' = OpTables[x]
        BY <2>3, <2>7 DEF Done
    <2>10. TxInv(c)'
        BY <1>0, <2>2, <2>3, <2>5, <2>7, <2>9 DEF TxInv, RepairPcs
    <2> QED  BY <1>0, <2>2, <2>4, <2>6, <2>7, <2>8, <2>10 DEF StepOK, CallInv
<1> QED  BY <1>1, <1>2 DEF Update, Tx

(* The coordinator goes on without writing anything.                       *)
LEMMA OwnerQuiet ==
    ASSUME IndInv, NEW c \in Calls, NEW l \in {"barrier", "commit", "reload"},
           NEW r \in CallRecords, Goto(c, l, r), Quiet, UNCHANGED <<op, gcMarker, txStale, marker>>,
           pc[c] \in {"barrier", "commit"}, r.own = call[c].own, r.todo \subseteq OpTables[op[c]],
           l = "barrier" => r.todo # {}
    PROVE  StepOK(c)
<1>0. marker' \in [Keys -> Markers] /\ UNCHANGED <<pointer, files, gone, record, gcOrphans>>
    BY Known DEF Quiet
<1>1. StorageMoves /\ \A d \in Calls : Foreign(d)
    BY QuietOK
<1>2. /\ op[c] \in Txs /\ Has(c) /\ call[c].own = "prepared" /\ Done(c) = OpTables[op[c]]
      /\ record[op[c]] \in {"prepared", "aborted"}
      /\ record[op[c]] = "prepared" => \A t \in OpTables[op[c]] : pointer[t].pending.tx = op[c]
    BY OwnerFacts DEF Prepared
<1>3. /\ Moves(c, l, r, reply[c]) /\ pc'[c] = l /\ call'[c] = r
      /\ PcInv(c)' /\ KeyInv(c)' /\ op'[c] = op[c]
    BY <1>1, <1>2, TxGoes DEF TxPcs, RepairPcs, Preparing, Prepared, Walking
<1>4. PtrInv(c)'
    BY <1>3 DEF PtrInv, HasPtr, RepairPcs
<1>5. Done(c)' = OpTables[op[c]]
    BY <1>2, <1>3 DEF Done
<1>6. TxInv(c)'
    BY <1>0, <1>2, <1>3, <1>5 DEF TxInv, RepairPcs
<1> QED  BY <1>0, <1>1, <1>2, <1>3, <1>4, <1>6 DEF StepOK, CallInv

LEMMA BarrierOK ==
    ASSUME IndInv, NEW c \in Calls, Barrier(c)
    PROVE  StepOK(c)
<1>0. /\ Quiet /\ UNCHANGED <<op, gcMarker, txStale, marker>> /\ pc[c] = "barrier"
    BY DEF Barrier, Quiet, storage, rest, gc
<1>1. CASE GiveUp(c, "failed")
    BY <1>0, <1>1, OwnerFacts, QuietGiveUp
<1>2. PICK left : left = call[c].todo \ {At(c)}
    OBVIOUS
<1>3. CASE Goto(c, IF left = {} THEN "commit" ELSE "barrier", [call[c] EXCEPT !.todo = left])
    <2>1. PICK r : r = [call[c] EXCEPT !.todo = left]
        OBVIOUS
    <2>2. left \subseteq OpTables[op[c]] /\ left \subseteq Tables
        BY <1>0, <1>2, OwnerFacts, Known
    <2>3. r \in CallRecords /\ r.own = call[c].own /\ r.todo = left
        BY <2>1, <2>2, Known DEF CallRecords
    <2>4. CASE left = {}
        BY <1>0, <1>3, <2>1, <2>2, <2>3, <2>4, OwnerQuiet
    <2>5. CASE left # {}
        BY <1>0, <1>3, <2>1, <2>2, <2>3, <2>5, OwnerQuiet
    <2> QED  BY <2>4, <2>5
<1> QED  BY <1>1, <1>2, <1>3 DEF Barrier

LEMMA CommitOK ==
    ASSUME IndInv, NEW c \in Calls, Commit(c)
    PROVE  StepOK(c)
<1>0. /\ UNCHANGED <<pointer, files, gone, gcOrphans, op, gcMarker, txStale, marker>>
      /\ marker' \in [Keys -> Markers] /\ pc[c] = "commit"
    BY Known DEF Commit, rest, gc
<1>1. CASE On(c, "reload") /\ UNCHANGED record
    BY <1>0, <1>1, Known, OwnerFacts, OwnerQuiet DEF Quiet, On
<1>2. CASE /\ Held(c) /\ SetRecord(op[c], "committed")
           /\ Goto(c, "publish", [call[c] EXCEPT !.todo = OpTables[op[c]]])
    <2>1. PICK x, r : x = op[c] /\ r = [call[c] EXCEPT !.todo = OpTables[op[c]]]
        OBVIOUS
    <2>2. /\ x \in Txs /\ Has(c) /\ call[c].own = "prepared" /\ record[x] = "prepared"
          /\ \A t \in OpTables[x] : pointer[t].pending.tx = x
        BY <1>0, <1>2, <2>1, OwnerFacts DEF Held, Tx, Prepared
    <2>3. r \in CallRecords /\ r.own = "prepared" /\ r.todo = OpTables[x] /\ OpTables[x] # {}
        BY <2>1, <2>2, Known, OpFacts DEF CallRecords, Statuses
    <2>4. RecordMoves(x) /\ StorageMoves
        BY <1>0, <1>2, <2>1, <2>2 DEF RecordMoves, SetRecord, StorageMoves
    <2>5. record'[x] = "committed" /\ \A y \in Txs : y # x => record'[y] = record[y]
        BY <1>2, <2>1, <2>2, Known DEF SetRecord, StoreInv, StoreTypes
    <2>6. \A d \in Calls : d # c => Foreign(d)
        BY <1>0, <2>1, <2>2, <2>5, OwnStep
    <2>7. /\ Moves(c, "publish", r, reply[c]) /\ pc'[c] = "publish" /\ call'[c] = r
          /\ PcInv(c)' /\ KeyInv(c)' /\ op'[c] = x
        <3>0. PICK l : l = "publish"
            OBVIOUS
        <3>1. Goto(c, l, r) /\ op[c] \in Txs /\ r.todo \subseteq OpTables[op[c]] /\ r.todo # {}
            BY <1>2, <2>1, <2>2, <2>3, <3>0
        <3>2. /\ l \in TxPcs /\ l \notin Preparing \cup RepairPcs
              /\ l \notin {"abort", "unmark", "lookup", "abortOld", "create", "update", "abortStale"}
            BY <3>0 DEF TxPcs, RepairPcs, Preparing, Prepared
        <3>3. /\ Moves(c, l, r, reply[c]) /\ pc'[c] = l /\ call'[c] = r
              /\ PcInv(c)' /\ KeyInv(c)' /\ op'[c] = op[c]
            BY <1>0, <2>3, <2>4, <3>1, <3>2, TxGoes
        <3> QED  BY <2>1, <3>0, <3>3
    <2>8. PtrInv(c)'
        BY <2>7 DEF PtrInv, HasPtr, RepairPcs
    <2>9. TxInv(c)'
        BY <2>3, <2>5, <2>7 DEF TxInv, RepairPcs
    <2> QED  BY <1>0, <2>2, <2>4, <2>6, <2>7, <2>8, <2>9 DEF StepOK, CallInv
<1> QED  BY <1>1, <1>2 DEF Commit, Tx

LEMMA ReloadOK ==
    ASSUME IndInv, NEW c \in Calls, Reload(c)
    PROVE  StepOK(c)
<1>0. /\ Quiet /\ UNCHANGED <<op, gcMarker, txStale, marker>> /\ marker' \in [Keys -> Markers]
      /\ op[c] \in Txs
    BY Known, OwnerFacts DEF Reload, Quiet, storage, rest, gc
<1>1. PICK a : a = IF record[op[c]] = "committed" THEN "ok" ELSE "retry"
    OBVIOUS
<1>2. Answer(c, a) /\ a \in Replies /\ (a = "ok" => record[op[c]] = "committed")
    BY <1>1 DEF Reload, Tx, Replies
<1>3. a = "ok" => \A t \in OpTables[op[c]] : In(op[c], Effective(t))
    BY <1>0, <1>2, Known, CommittedApplied
<1> QED  BY <1>0, <1>2, <1>3, QuietEnd

(* finalize_pointers and the clearing loop: a pointer that carries the     *)
(* pending update of the call's own, settled transaction is settled too.   *)
LEMMA VisitOK ==
    ASSUME IndInv, NEW c \in Calls, pc[c] \in {"publish", "unmark"}, NEW p, NEW end \in Replies,
           Visit(c, p, end),
           UNCHANGED <<files, gone, record, gcOrphans, op, gcMarker, txStale, marker>>,
           pointer[At(c)].pending.tx = op[c] =>
             /\ p \in Pointers /\ p.pending = NoPending
             /\ pc[c] = "unmark" => p.cur = pointer[At(c)].cur
             /\ pc[c] = "publish" => p.cur = pointer[At(c)].pending.loc,
           end = "ok" => reply[c] = "ok" \/ \A t \in OpTables[op[c]] : In(op[c], Effective(t))
    PROVE  StepOK(c)
<1>0. marker' \in [Keys -> Markers] /\ pc[c] \in Walking
    BY Known DEF Walking
<1>1. /\ op[c] \in Txs /\ Has(c) /\ call[c].own \in {"preparing", "prepared"}
      /\ call[c].todo \subseteq OpTables[op[c]]
      /\ pc[c] = "publish" => call[c].own = "prepared"
      /\ At(c) \in call[c].todo /\ At(c) \in Tables
    BY <1>0, OwnerFacts DEF Prepared
<1>2. /\ pc[c] = "publish" => record[op[c]] = "committed"
      /\ pc[c] = "unmark" => record[op[c]] = "aborted"
    BY <1>1, Known DEF CallInv, TxInv
<1>3. StorageMoves
    <2>1. CASE UNCHANGED pointer
        BY <2>1 DEF StorageMoves, Quiet
    <2>2. CASE pointer[At(c)].pending.tx = op[c] /\ SetPointer(At(c), p)
        <3>1. PICK t : t = At(c)
            OBVIOUS
        <3>2. t \in Tables /\ pointer[t].pending # NoPending /\ pointer[t].pending.tx = op[c]
            BY <1>1, <2>2, <3>1, CurFacts, Known
        <3>3. /\ p \in Pointers /\ p.pending = NoPending
              /\ pc[c] = "unmark" => p.cur = pointer[t].cur
              /\ pc[c] = "publish" => p.cur = pointer[t].pending.loc
            BY <2>2, <3>1
        <3>4. /\ pointer' \in [Tables -> Pointers]
              /\ \A u \in Tables : u # t => pointer'[u] = pointer[u]
              /\ pointer'[t].ver = pointer[t].ver + 1
              /\ pointer'[t].cur = p.cur /\ pointer'[t].pending = NoPending
            BY <2>2, <3>1, <3>2, <3>3, Known, SetFacts DEF StoreInv, StoreTypes
        <3>5. Cleared(t) \/ Finalized(t)
            BY <1>2, <3>2, <3>3, <3>4 DEF Cleared, Finalized
        <3>6. PointerMoves(t)
            BY <3>4, <3>5 DEF PointerMoves
        <3> QED  BY <3>2, <3>6 DEF StorageMoves
    <2> QED  BY <2>1, <2>2 DEF Visit, Tx
<1>4. \A d \in Calls : d # c => Foreign(d)
    BY <1>1, OwnStep
<1>5. PICK left : left = call[c].todo \ {At(c)}
    OBVIOUS
<1>6. CASE left = {}
    <2>1. Answer(c, end)
        BY <1>5, <1>6 DEF Visit
    <2>2. Moves(c, "done", Fresh, end)
        BY <2>1, AnswerMoves
    <2>3. CallInv(c)' /\ call'[c].own = "none"
        BY <1>3, <2>2, EndsOK
    <2> QED  BY <1>0, <1>3, <1>4, <2>2, <2>3 DEF StepOK
<1>7. CASE left # {}
    <2>1. PICK l, r : l = pc[c] /\ r = [call[c] EXCEPT !.todo = left]
        OBVIOUS
    <2>2. Goto(c, l, r)
        BY <1>5, <1>7, <2>1 DEF Visit
    <2>3. r \in CallRecords /\ r.todo = left /\ r.own = call[c].own /\ left \subseteq OpTables[op[c]]
        BY <1>1, <1>5, <2>1, Known DEF CallRecords
    <2>4. /\ l \in TxPcs /\ l \notin Preparing \cup RepairPcs /\ (l \in Prepared => l = "publish")
          /\ l \notin {"lookup", "abortOld", "create", "update", "abortStale"}
        BY <2>1 DEF TxPcs, RepairPcs, Preparing, Prepared
    <2>5. l \in {"publish", "unmark"}
        BY <2>1
    <2>6. /\ Moves(c, l, r, reply[c]) /\ pc'[c] = l /\ call'[c] = r
          /\ PcInv(c)' /\ KeyInv(c)' /\ op'[c] = op[c]
        <3>1. r.own \in {"preparing", "prepared"} /\ (l \in Prepared => r.own = "prepared")
            BY <1>1, <2>1, <2>3, <2>4
        <3> QED  BY <1>1, <1>3, <1>7, <2>2, <2>3, <2>4, <3>1, TxGoes
    <2>7. PtrInv(c)'
        BY <2>5, <2>6 DEF PtrInv, HasPtr, RepairPcs
    <2>8. TxInv(c)'
        BY <1>1, <1>2, <2>1, <2>3, <2>5, <2>6 DEF TxInv, RepairPcs
    <2> QED  BY <1>0, <1>1, <1>3, <1>4, <2>6, <2>7, <2>8 DEF StepOK, CallInv
<1> QED  BY <1>6, <1>7

LEMMA PublishOK ==
    ASSUME IndInv, NEW c \in Calls, Publish(c)
    PROVE  StepOK(c)
<1>1. /\ UNCHANGED <<files, gone, record, gcOrphans, op, gcMarker, txStale, marker>>
      /\ pc[c] = "publish" /\ pc[c] \in Walking /\ pc[c] \in Prepared
    BY DEF Publish, rest, gc, Walking, Prepared
<1>2. op[c] \in Txs /\ Has(c) /\ At(c) \in Tables
    BY <1>1, OwnerFacts
<1>3. record[op[c]] = "committed"
    BY <1>1, <1>2, Known DEF CallInv, TxInv
<1>4. \A t \in OpTables[op[c]] : In(op[c], Effective(t))
    BY <1>2, <1>3, Known, CommittedApplied
<1>5. PICK p : p = FinalizePending(pointer[At(c)])
    OBVIOUS
<1>6. pointer[At(c)].pending.tx = op[c] =>
        p \in Pointers /\ p.pending = NoPending /\ p.cur = pointer[At(c)].pending.loc
    BY <1>2, <1>5, Known, CurFacts, FinalizeFacts
<1>7. Visit(c, p, "ok") /\ "ok" \in Replies
    BY <1>5 DEF Publish, Replies
<1> QED  BY <1>1, <1>4, <1>6, <1>7, VisitOK

LEMMA UnmarkOK ==
    ASSUME IndInv, NEW c \in Calls, Unmark(c)
    PROVE  StepOK(c)
<1>1. /\ UNCHANGED <<files, gone, record, gcOrphans, op, gcMarker, txStale, marker>>
      /\ pc[c] = "unmark" /\ pc[c] \in Walking
    BY DEF Unmark, rest, gc, Walking
<1>2. At(c) \in Tables
    BY <1>1, OwnerFacts
<1>3. PICK p : p = WithoutPending(pointer[At(c)])
    OBVIOUS
<1>4. p \in Pointers /\ p.pending = NoPending /\ p.cur = pointer[At(c)].cur
    BY <1>2, <1>3, Known, CurFacts, WithoutFacts
<1>5. PICK a : a = reply[c]
    OBVIOUS
<1>6. Visit(c, p, a) /\ a \in Replies
    BY <1>3, <1>5, Known DEF Unmark
<1> QED  BY <1>1, <1>4, <1>5, <1>6, VisitOK

LEMMA AbortOK ==
    ASSUME IndInv, NEW c \in Calls, Abort(c)
    PROVE  StepOK(c)
<1>0. /\ UNCHANGED <<pointer, files, gone, gcOrphans, op, gcMarker, txStale, marker>>
      /\ marker' \in [Keys -> Markers] /\ pc[c] = "abort"
    BY Known DEF Abort, rest, gc
<1>1. /\ op[c] \in Txs /\ Has(c) /\ call[c].own \in {"preparing", "prepared"}
      /\ record[op[c]] \in {call[c].own, "aborted"}
    BY <1>0, OwnerFacts
<1>2. /\ StorageMoves /\ (\A d \in Calls : Foreign(d))
      /\ record'[op[c]] = "aborted"
    <2>1. CASE Held(c)
        <3>1. record[op[c]] \in {"preparing", "prepared"} /\ SetRecord(op[c], "aborted")
            BY <1>1, <2>1 DEF Abort, Held, Tx
        <3> QED  BY <1>0, <1>1, <3>1, AbortsFacts
    <2>2. CASE ~Held(c)
        <3>1. Quiet /\ record[op[c]] = "aborted"
            BY <1>0, <1>1, <2>2 DEF Abort, Held, Tx, Quiet
        <3> QED  BY <3>1, QuietOK DEF Quiet
    <2> QED  BY <2>1, <2>2
<1>3. PICK done : done = Done(c)
    OBVIOUS
<1>4. done \subseteq OpTables[op[c]]
    BY <1>3 DEF Done
<1>5. CASE done = {}
    <2>1. PICK a : a = reply[c]
        OBVIOUS
    <2>2. Answer(c, a) /\ a \in Replies
        BY <1>3, <1>5, <2>1, Known DEF Abort, Done, Tx
    <2>3. Moves(c, "done", Fresh, a)
        BY <2>2, AnswerMoves
    <2>4. CallInv(c)' /\ call'[c].own = "none"
        BY <1>0, <1>2, <2>1, <2>3, EndsOK
    <2> QED  BY <1>0, <1>2, <2>3, <2>4 DEF StepOK
<1>6. CASE done # {}
    <2>1. PICK l, r : l = "unmark" /\ r = [call[c] EXCEPT !.todo = done]
        OBVIOUS
    <2>2. Goto(c, l, r)
        BY <1>3, <1>6, <2>1 DEF Abort, Done, Tx
    <2>3. r \in CallRecords /\ r.todo = done /\ r.own = call[c].own
        BY <1>4, <2>1, Known DEF CallRecords
    <2>4. /\ l \in TxPcs /\ l \notin Preparing \cup RepairPcs \cup Prepared
          /\ l \notin {"lookup", "abortOld", "create", "update", "abortStale"}
        BY <2>1 DEF TxPcs, RepairPcs, Preparing, Prepared
    <2>5. /\ Moves(c, l, r, reply[c]) /\ pc'[c] = l /\ call'[c] = r
          /\ PcInv(c)' /\ KeyInv(c)' /\ op'[c] = op[c]
        BY <1>0, <1>1, <1>2, <1>4, <1>6, <2>2, <2>3, <2>4, TxGoes
    <2>6. PtrInv(c)'
        BY <2>1, <2>5 DEF PtrInv, HasPtr, RepairPcs
    <2>7. TxInv(c)'
        BY <1>1, <1>2, <2>1, <2>3, <2>5 DEF TxInv, RepairPcs
    <2> QED  BY <1>0, <1>1, <1>2, <2>5, <2>6, <2>7 DEF StepOK, CallInv
<1> QED  BY <1>5, <1>6

LEMMA CrashOK ==
    ASSUME IndInv, NEW c \in Calls, Crash(c)
    PROVE  StepOK(c)
<1>0. /\ Quiet /\ UNCHANGED <<op, gcMarker, txStale, marker>> /\ marker' \in [Keys -> Markers]
      /\ Goto(c, "dead", Fresh)
    BY Known DEF Crash, Quiet, storage, gc
<1>1. StorageMoves /\ \A d \in Calls : Foreign(d)
    BY <1>0, QuietOK
<1>2. Moves(c, "dead", Fresh, reply[c])
    BY <1>0, Known, FreshFacts, GotoMoves DEF Pcs, Ended
<1>3. CallInv(c)' /\ call'[c].own = "none"
    BY <1>0, <1>1, <1>2, EndsOK
<1> QED  BY <1>0, <1>1, <1>2, <1>3 DEF StepOK

----------------------------------------------------------------------------
(* Time and the collectors: no call moves.                                 *)
LEMMA Around ==
    ASSUME IndInv, StorageMoves, UNCHANGED <<op, locals, files, record>>,
           txStale' \subseteq Txs, marker' \in [Keys -> Markers],
           \A k \in Keys : marker'[k] = marker[k] \/ MarkerOK(k, marker'[k]),
           gcMarker' = gcMarker \/ GcInv'
    PROVE  IndInv'
<1>0. StoreInv /\ TypeInv
    BY DEF IndInv, TypeInv, TypeOK, StoreInv, StoreTypes
<1>1. TypeInv'
    <2>1. call \in [Calls -> CallRecords] /\ reply \in [Calls -> Replies] /\ pc \in [Calls -> Pcs]
        BY <1>0 DEF TypeInv, TypeOK, CallRecords, Replies
    <2>2. call' = call /\ reply' = reply /\ pc' = pc
        BY DEF locals
    <2> QED  BY <1>0, <2>1, <2>2, TypeNext
<1>2. FileInv' /\ \A t \in Tables : PointerInv(t)'
    BY <1>0, FileNext, PointerNext
<1>3. MarkerInv'
    BY <1>0, MarkerNext DEF IndInv, TypeInv, TypeOK
<1>4. GcInv'
    BY <1>0, GcNext DEF IndInv
<1>5. ASSUME NEW d \in Calls PROVE CallInv(d)'
    <2>1. Same(d) /\ Foreign(d)
        BY DEF Same, Foreign, locals
    <2> QED  BY <1>0, <2>1, OthersKeep DEF IndInv
<1>6. UniqueInv'
    BY DEF IndInv, UniqueInv, Has, locals
<1> QED  BY <1>1, <1>2, <1>3, <1>4, <1>5, <1>6 DEF IndInv

LEMMA MarkerFacts ==
    ASSUME IndInv
    PROVE  /\ marker \in [Keys -> Markers] /\ txStale \subseteq Txs
           /\ \A k \in Keys : MarkerOK(k, marker[k])
BY DEF IndInv, TypeInv, TypeOK, MarkerInv

LEMMA MarkerAgesOK ==
    ASSUME IndInv, NEW k \in Keys, MarkerAges(k)
    PROVE  IndInv'
<1>1. /\ Quiet /\ UNCHANGED <<op, locals, files, record, gcMarker, txStale>>
    BY DEF MarkerAges, Quiet, rest, gc
<1>2. PICK a \in {"stale", "expired"} : marker' = [marker EXCEPT ![k].age = a]
    BY DEF MarkerAges
<1>3. PICK m : m = [marker[k] EXCEPT !.age = a]
    OBVIOUS
<1>4. marker[k] \in Markers /\ MarkerOK(k, marker[k]) /\ marker \in [Keys -> Markers]
    BY MarkerFacts
<1>5. m \in Markers /\ m.status = marker[k].status /\ m.loc = marker[k].loc
    BY <1>3, <1>4 DEF Markers
<1>6. marker' = [marker EXCEPT ![k] = m]
    BY <1>2, <1>3
<1>7. marker' \in [Keys -> Markers] /\ marker'[k] = m /\ \A j \in Keys : j # k => marker'[j] = marker[j]
    BY <1>4, <1>5, <1>6
<1>8. MarkerOK(k, m)
    BY <1>4, <1>5 DEF MarkerOK
<1> QED  BY <1>1, <1>7, <1>8, MarkerFacts, QuietOK, Around

LEMMA TxAgesOK ==
    ASSUME IndInv, NEW x \in Txs, TxAges(x)
    PROVE  IndInv'
<1>1. /\ Quiet /\ UNCHANGED <<op, locals, files, record, gcMarker, marker>>
      /\ txStale' = txStale \cup {x}
    BY DEF TxAges, Quiet, storage, gc
<1> QED  BY <1>1, MarkerFacts, QuietOK, Around

LEMMA GcListOK ==
    ASSUME IndInv, NEW k \in Keys, GcList(k)
    PROVE  IndInv'
<1>1. /\ Quiet /\ UNCHANGED <<op, locals, files, record, marker, txStale>>
    BY DEF GcList, Quiet, storage
<1>2. PICK s : s = IF marker[k].status = "inProgress" THEN "check" ELSE "delete"
    OBVIOUS
<1>3. gcMarker' = [key |-> k, read |-> marker[k], step |-> s] /\ s \in {"check", "delete"}
    BY <1>2 DEF GcList
<1>4. marker[k] \in Markers /\ MarkerOK(k, marker[k]) /\ marker[k].status # "none"
    BY MarkerFacts DEF GcList
<1>5. GcInv'
    BY <1>3, <1>4 DEF GcInv, MarkerOK
<1> QED  BY <1>1, <1>5, MarkerFacts, QuietOK, Around

LEMMA GcCheckOK ==
    ASSUME IndInv, GcCheck
    PROVE  IndInv'
<1>1. /\ Quiet /\ UNCHANGED <<op, locals, files, record, marker, txStale, pointer>>
    BY DEF GcCheck, Quiet, storage
<1>2. PICK g, l : g = gcMarker /\ l = gcMarker.read.loc
    OBVIOUS
<1>3. /\ g \in [key : Keys, read : Markers, step : {"check", "finalize", "delete"}]
      /\ l \in Locations /\ l.op = g.key /\ l.table \in OpTables[g.key]
    BY <1>2 DEF IndInv, GcInv, GcCheck
<1>4. PICK t : t = CHOOSE u \in OpTables[g.key] : TRUE
    OBVIOUS
<1>5. l.table = t /\ t \in Tables
    BY <1>3, <1>4, OpFacts DEF Ops
<1>6. PICK s : s = IF Effective(t) = l THEN "finalize" ELSE "delete"
    OBVIOUS
<1>7. gcMarker' = [g EXCEPT !.step = s] /\ s \in {"finalize", "delete"}
    BY <1>2, <1>4, <1>6 DEF GcCheck
<1>8. /\ gcMarker' \in [key : Keys, read : Markers, step : {"check", "finalize", "delete"}]
      /\ gcMarker'.key = g.key /\ gcMarker'.read = g.read /\ gcMarker'.step = s
    BY <1>3, <1>7
<1>9. s = "finalize" => In(g.key, Effective(t))
    <2> SUFFICES ASSUME s = "finalize" PROVE In(g.key, Effective(t))
        OBVIOUS
    <2>1. Effective(t) = l
        BY <1>6
    <2>2. StoreInv
        BY DEF IndInv, TypeInv, TypeOK, StoreInv, StoreTypes
    <2>3. l \in DOMAIN files /\ FileInv /\ DOMAIN files \subseteq Locations
        BY <1>5, <2>1, <2>2, EffectiveFacts DEF StoreInv, StoreTypes
    <2> QED  BY <1>3, <2>1, <2>3, InSelf
<1>10. s = "finalize" => In(g.key, Effective(t))'
    BY <1>1, <1>9 DEF In, Effective, EffectiveLocation, History
<1>11. GcInv'
    BY <1>2, <1>3, <1>5, <1>8, <1>10 DEF GcInv
<1> QED  BY <1>1, <1>11, MarkerFacts, QuietOK, Around

LEMMA GcCleanOK ==
    ASSUME IndInv, GcClean
    PROVE  IndInv'
<1>1. /\ Quiet /\ UNCHANGED <<op, locals, files, record, txStale>> /\ gcMarker' = None
    BY DEF GcClean, Quiet
<1>2. PICK k, l : k = gcMarker.key /\ l = gcMarker.read.loc
    OBVIOUS
<1>3. /\ k \in Keys /\ l \in Locations /\ l.op = k /\ l.table \in OpTables[k]
      /\ gcMarker.step = "finalize" => In(k, Effective(l.table))
    BY <1>2 DEF IndInv, GcInv, GcClean
<1>4. /\ marker' \in [Keys -> Markers]
      /\ \A j \in Keys : marker'[j] = marker[j] \/ MarkerOK(j, marker'[j])
    <2>1. CASE gcMarker.step = "delete"
        <3>1. PICK m : m = [NoMarker EXCEPT !.ver = marker[k].ver]
            OBVIOUS
        <3>2. marker[k].ver \in Nat
            BY <1>3, MarkerFacts DEF Markers
        <3>3. m \in Markers /\ m.status = "none"
            BY <3>1, <3>2 DEF NoMarker, Markers, MarkerStatuses
        <3>4. marker' = [marker EXCEPT ![k] = m]
            BY <1>2, <2>1, <3>1 DEF GcClean
        <3> QED  BY <1>3, <3>3, <3>4, MarkerFacts DEF MarkerOK
    <2>2. CASE gcMarker.step = "finalize" /\ MarkerIs(k, gcMarker.read.ver)
        <3>1. SetMarker(k, "committed", l)
            BY <1>2, <2>2 DEF GcClean
        <3> QED  BY <1>3, <2>2, <3>1, MarkerFacts, SetMarkerFacts
    <2>3. CASE gcMarker.step = "finalize" /\ ~MarkerIs(k, gcMarker.read.ver)
        BY <1>2, <2>3, MarkerFacts DEF GcClean
    <2> QED  BY <2>1, <2>2, <2>3 DEF GcClean
<1>5. GcInv'
    BY <1>1 DEF GcInv
<1> QED  BY <1>1, <1>4, <1>5, MarkerFacts, QuietOK, Around

LEMMA GcPlanOK ==
    ASSUME IndInv, NEW t \in Tables, GcPlan(t)
    PROVE  IndInv'
<1>1. UNCHANGED <<pointer, files, gone, marker, record, locals, op, txStale, gcMarker>>
    BY DEF GcPlan, storage
<1>2. pointer[t].cur \in Allowlist(pointer[t]) /\ pointer[t].pending.loc \in Allowlist(pointer[t])
    BY DEF Allowlist
<1>3. Plans(t)
    BY <1>1, <1>2 DEF Plans, GcPlan
<1>4. StorageMoves
    BY <1>3 DEF StorageMoves
<1> QED  BY <1>1, <1>4, MarkerFacts, Around

LEMMA GcSweepOK ==
    ASSUME IndInv, GcSweep
    PROVE  IndInv'
<1>1. /\ UNCHANGED <<pointer, files, marker, record, locals, op, txStale, gcMarker>>
      /\ StorageMoves
    BY DEF GcSweep, Sweeps, StorageMoves
<1> QED  BY <1>1, MarkerFacts, Around

----------------------------------------------------------------------------
(* The invariant, and what every step does to the storage.                 *)
LEMMA InitFacts ==
    ASSUME Init
    PROVE  /\ gone = {} /\ gcOrphans = {} /\ gcMarker = None /\ txStale = {} /\ op \in Mixes
           /\ marker = [k \in Keys |-> NoMarker]
           /\ record = [x \in Txs |-> "none"]
           /\ pc = [c \in Calls |-> "idle"]
           /\ call = [c \in Calls |-> Fresh]
           /\ reply = [c \in Calls |-> "none"]
BY Zenon DEF Init

LEMMA InitPointers ==
    ASSUME Init
    PROVE  /\ pointer = [t \in Tables |-> pointer[t]]
           /\ \A t \in Tables : pointer[t] = [NoPointer EXCEPT !.ver = 1, !.cur = First(t)]
<1>1. pointer = [t \in Tables |-> [NoPointer EXCEPT !.ver = 1, !.cur = First(t)]]
    BY Zenon DEF Init
<1> QED  BY <1>1, Zenon

LEMMA InitFiles ==
    ASSUME Init
    PROVE  /\ DOMAIN files = {First(t) : t \in Tables}
           /\ files = [l \in DOMAIN files |-> <<>>]
           /\ \A l \in DOMAIN files : files[l] = <<>>
<1>1. PICK S : S = {First(t) : t \in Tables}
    OBVIOUS
<1>2. files = [l \in S |-> <<>>]
    BY <1>1, Zenon DEF Init
<1> QED  BY <1>1, <1>2

LEMMA InitStorage ==
    ASSUME Init, NEW t \in Tables
    PROVE  /\ First(t) \in DOMAIN files /\ First(t) \in Locations
           /\ First(t).table = t /\ First(t).seq = 0 /\ First(t).op = None
           /\ files[First(t)] = <<>> /\ Safe(First(t))
           /\ pointer[t] \in Pointers /\ pointer[t].cur = First(t) /\ pointer[t].pending = NoPending
<1>1. First(t) \in Locations /\ First(t).table = t /\ First(t).seq = 0 /\ First(t).op = None
    BY DEF First, Location, Locations
<1>2. First(t) \in DOMAIN files /\ files[First(t)] = <<>>
    BY InitFiles
<1>a. Safe(First(t))
    BY <1>2, InitFacts DEF Safe, Exists
<1>3. PICK p : p = [NoPointer EXCEPT !.ver = 1, !.cur = First(t)]
    OBVIOUS
<1>4. p \in Pointers /\ p.cur = First(t) /\ p.pending = NoPending
    BY <1>1, <1>3 DEF NoPointer, Pointers
<1>5. pointer[t] = p
    BY <1>3, InitPointers, Zenon
<1> QED  BY <1>1, <1>2, <1>a, <1>4, <1>5

LEMMA IndInit == Init => IndInv
<1> SUFFICES ASSUME Init PROVE IndInv
    OBVIOUS
<1>1. DOMAIN files = {First(t) : t \in Tables} /\ gone = {} /\ gcOrphans = {}
    BY InitFacts, InitFiles
<1>2. \A l \in DOMAIN files : l \in Locations /\ l.seq = 0 /\ l.op = None /\ files[l] = <<>>
    BY <1>1, InitStorage
<1>3. TypeInv
    <2>1. pointer \in [Tables -> Pointers]
        <3>1. pointer = [t \in Tables |-> pointer[t]]
            BY InitPointers, Zenon
        <3> QED  BY <3>1, InitStorage
    <2>2. op \in [Calls -> Ops]
        BY IcebergAssumption, InitFacts
    <2>3. pc \in [Calls -> Pcs] /\ reply \in [Calls -> Replies] /\ call \in [Calls -> CallRecords]
        BY FreshFacts, InitFacts DEF Pcs, Ended, Replies
    <2>4. marker \in [Keys -> Markers] /\ record \in [Txs -> Statuses] /\ txStale \subseteq Txs
        BY FreshFacts, InitFacts DEF Statuses
    <2>5. \A l \in DOMAIN files : \A i \in DOMAIN files[l] : files[l][i] \in DOMAIN files
        BY <1>2
    <2> QED  BY <1>1, <1>2, <2>1, <2>2, <2>3, <2>4, <2>5 DEF TypeInv, TypeOK, CallRecords, Replies
<1>4. FileInv
    <2>1. files = [l \in DOMAIN files |-> <<>>]
        BY InitFiles
    <2>2. \A l \in DOMAIN files : files[l] \in Seq(DOMAIN files) /\ Len(files[l]) = l.seq
        <3>1. <<>> \in Seq(DOMAIN files) /\ Len(<<>>) = 0
            OBVIOUS
        <3> QED  BY <1>2, <3>1
    <2>3. files \in [DOMAIN files -> Seq(DOMAIN files)]
        BY <2>1, <2>2
    <2> QED  BY <1>1, <1>2, <2>2, <2>3, OpFacts DEF FileInv, Ops
<1>5. ASSUME NEW t \in Tables PROVE PointerInv(t)
    <2>1. PICK l : l = First(t)
        OBVIOUS
    <2>2. /\ l \in Locations /\ l.table = t /\ Safe(l) /\ l.op = None /\ files[l] = <<>>
          /\ pointer[t].cur = l /\ pointer[t].pending = NoPending
        BY <2>1, InitStorage
    <2>3. \A x \in Txs : ~In(x, l) /\ record[x] = "none"
        <3>1. \A x \in Txs : ~Names(Append(<<>>, l), x)
            BY <2>2, OpFacts DEF Names, Ops
        <3> QED  BY <2>2, <3>1, InitFacts DEF In, History
    <2> QED  BY <2>2, <2>3 DEF PointerInv
<1>6. MarkerInv /\ GcInv
    BY InitFacts DEF MarkerInv, MarkerOK, GcInv, NoMarker
<1>7. ASSUME NEW c \in Calls PROVE CallInv(c) /\ ~Has(c)
    <2>1. pc[c] = "idle" /\ call[c] = Fresh /\ reply[c] = "none"
        BY InitFacts
    <2>2. call[c].own = "none" /\ call[c].todo = {}
        BY <2>1, FreshFacts
    <2>3. PcInv(c)
        BY <2>1, <2>2 DEF PcInv, KeyPcs, TxPcs, Preparing, Prepared, RepairPcs, Walking
    <2> QED  BY <2>1, <2>2, <2>3
             DEF CallInv, PtrInv, TxInv, KeyInv, Has, HasPtr, RepairPcs, HasMarker
<1>8. UniqueInv
    BY <1>7 DEF UniqueInv
<1> QED  BY <1>3, <1>4, <1>5, <1>6, <1>7, <1>8 DEF IndInv

LEMMA CallSteps ==
    ASSUME IndInv, NEW c \in Calls, Step(c) \/ Crash(c)
    PROVE  StepOK(c)
<1>1. CASE Crash(c)
    BY <1>1, CrashOK
<1>2. CASE Begin(c) \/ Load(c) \/ Pending(c) \/ AbortStale(c) \/ RepairPending(c)
    BY <1>2, BeginOK, LoadOK, PendingOK, AbortStaleOK, RepairPendingOK
<1>3. CASE \/ Claim(c) \/ Recheck(c) \/ Found(c) \/ Takeover(c) \/ Write(c) \/ Swap(c)
           \/ Fail(c) \/ Finish(c) \/ Reread(c)
    BY <1>3, ClaimOK, RecheckOK, FoundOK, TakeoverOK, WriteOK, SwapOK, FailOK, FinishOK, RereadOK
<1>4. CASE Lookup(c) \/ AbortOld(c) \/ Create(c) \/ Prepare(c) \/ Stage(c) \/ Mark(c)
    BY <1>4, LookupOK, AbortOldOK, CreateOK, PrepareOK, StageOK, MarkOK
<1>5. CASE \/ Update(c) \/ Barrier(c) \/ Commit(c) \/ Reload(c) \/ Publish(c)
           \/ Abort(c) \/ Unmark(c)
    BY <1>5, UpdateOK, BarrierOK, CommitOK, ReloadOK, PublishOK, AbortOK, UnmarkOK
<1> QED  BY <1>1, <1>2, <1>3, <1>4, <1>5 DEF Step

LEMMA IndStep == IndInv /\ [Next]_vars => IndInv'
<1> SUFFICES ASSUME IndInv, [Next]_vars PROVE IndInv'
    OBVIOUS
<1>1. ASSUME NEW c \in Calls, Step(c) \/ Crash(c) PROVE IndInv'
    BY <1>1, CallSteps, Assemble
<1>2. ASSUME NEW k \in Keys, MarkerAges(k) \/ GcList(k) PROVE IndInv'
    BY <1>2, MarkerAgesOK, GcListOK
<1>3. ASSUME NEW x \in Txs, TxAges(x) PROVE IndInv'
    BY <1>3, TxAgesOK
<1>4. CASE GcCheck \/ GcClean \/ GcSweep
    BY <1>4, GcCheckOK, GcCleanOK, GcSweepOK
<1>5. ASSUME NEW t \in Tables, GcPlan(t) PROVE IndInv'
    BY <1>5, GcPlanOK
<1>6. CASE UNCHANGED vars
    <2>1. Quiet /\ UNCHANGED <<op, locals, files, record, marker, txStale, gcMarker>>
        BY <1>6 DEF vars, Quiet, storage, rest, gc
    <2> QED  BY <2>1, MarkerFacts, QuietOK, Around
<1> QED  BY <1>1, <1>2, <1>3, <1>4, <1>5, <1>6 DEF Next

LEMMA StorageStep ==
    ASSUME IndInv, [Next]_vars
    PROVE  StoreInv /\ StorageMoves
<1>0. SUFFICES StorageMoves
    BY DEF IndInv, TypeInv, TypeOK, StoreInv, StoreTypes
<1>1. ASSUME NEW c \in Calls, Step(c) \/ Crash(c) PROVE StorageMoves
    BY <1>1, CallSteps DEF StepOK
<1>2. ASSUME NEW k \in Keys, MarkerAges(k) \/ GcList(k) PROVE StorageMoves
    BY <1>2 DEF MarkerAges, GcList, StorageMoves, Quiet, storage, rest, gc
<1>3. ASSUME NEW x \in Txs, TxAges(x) PROVE StorageMoves
    BY <1>3 DEF TxAges, StorageMoves, Quiet, storage, gc
<1>4. CASE GcCheck \/ GcClean \/ GcSweep
    <2>1. CASE GcCheck \/ GcClean
        <3>1. Quiet
            BY <2>1 DEF GcCheck, GcClean, Quiet, storage
        <3> QED  BY <3>1, QuietOK
    <2>2. CASE GcSweep
        <3>1. Sweeps
            BY <2>2 DEF GcSweep, Sweeps
        <3> QED  BY <3>1, Zenon DEF StorageMoves
    <2> QED  BY <1>4, <2>1, <2>2
<1>5. ASSUME NEW t \in Tables, GcPlan(t) PROVE StorageMoves
    <2>1. pointer[t].cur \in Allowlist(pointer[t]) /\ pointer[t].pending.loc \in Allowlist(pointer[t])
        BY DEF Allowlist
    <2>2. Plans(t)
        BY <1>5, <2>1 DEF Plans, GcPlan, storage
    <2> QED  BY <2>2 DEF StorageMoves
<1>6. CASE UNCHANGED vars
    <2>1. Quiet
        BY <1>6 DEF vars, Quiet, storage, rest, gc
    <2> QED  BY <2>1, QuietOK
<1> QED  BY <1>1, <1>2, <1>3, <1>4, <1>5, <1>6 DEF Next

----------------------------------------------------------------------------
(* What follows from the invariant.                                        *)

(* The inductive invariant: what the storage holds, and what every running *)
(* call of commit_table and of the coordinator knows of it.                *)
THEOREM IcebergInvariant == Spec => []IndInv
BY IndInit, IndStep, PTL DEF Spec

(* Every variable keeps its type, a metadata log names only files that     *)
(* were written, and no call exceeds MAX_TAKEOVER_ATTEMPTS.                *)
THEOREM IcebergTypes == Spec => []TypeOK
<1>1. IndInv => TypeOK
    BY DEF IndInv, TypeInv
<1> QED  BY <1>1, IcebergInvariant, PTL

LEMMA AppliedIn ==
    ASSUME NEW o, NEW t
    PROVE  Applied(o, t) <=> In(o, Effective(t))
<1>1. PICK h : h = History(Effective(t))
    OBVIOUS
<1>2. HistoryOf(t) = [i \in DOMAIN h |-> h[i].op]
    BY <1>1 DEF HistoryOf, OpsOf
<1>3. DOMAIN HistoryOf(t) = DOMAIN h /\ \A i \in DOMAIN h : HistoryOf(t)[i] = h[i].op
    BY <1>2
<1> QED  BY <1>1, <1>3 DEF Applied, In, Names

(* The record is the commit point (coordinator.rs): a committed            *)
(* transaction is in the history of each of its tables and any other is in *)
(* the history of none, whichever calls finalize, clear or abort it.       *)
THEOREM TransactionsAreAtomic == Spec => []TxAtomic
<1>1. IndInv => TxAtomic
    <2> SUFFICES ASSUME IndInv, NEW x \in Txs, NEW t \in OpTables[x]
                 PROVE  Applied(x, t) <=> record[x] = "committed"
        BY DEF TxAtomic
    <2>1. StoreInv
        BY DEF IndInv, TypeInv, TypeOK, StoreInv, StoreTypes
    <2> QED  BY <2>1, CommittedApplied, AppliedIn
<1> QED  BY <1>1, IcebergInvariant, PTL

(* A success answered by commit_table or by the coordinator, also one read *)
(* from another call's marker or record, is an applied operation.          *)
THEOREM AckedIsApplied == Spec => []AckedApplied
<1>1. IndInv => AckedApplied
    <2> SUFFICES ASSUME IndInv, NEW c \in Calls, reply[c] = "ok", NEW t \in OpTables[op[c]]
                 PROVE  Applied(op[c], t)
        BY DEF AckedApplied, Answered
    <2>1. In(op[c], Effective(t))
        BY Known DEF CallInv, KeyInv
    <2> QED  BY <2>1, AppliedIn
<1> QED  BY <1>1, IcebergInvariant, PTL

(* A Committed marker, written by the call, by a retry or by the collector,*)
(* names a commit that is in its table's history.                          *)
THEOREM CommittedMarkersTrue == Spec => []CommittedMarkerTrue
<1>1. IndInv => CommittedMarkerTrue
    <2> SUFFICES ASSUME IndInv, NEW k \in Keys, marker[k].status = "committed", NEW t \in OpTables[k]
                 PROVE  Applied(k, t)
        BY DEF CommittedMarkerTrue
    <2>1. /\ marker[k].loc.table \in OpTables[k]
          /\ In(k, Effective(marker[k].loc.table))
        BY MarkerFacts DEF MarkerOK
    <2>2. marker[k].loc.table = t
        BY <2>1, OpFacts
    <2> QED  BY <2>1, <2>2, AppliedIn
<1> QED  BY <1>1, IcebergInvariant, PTL

(* clean_orphans never deletes the metadata file that readers are sent to. *)
THEOREM CurrentStaysReadable == Spec => []CurrentReadable
<1>1. IndInv => CurrentReadable
    <2> SUFFICES ASSUME IndInv, NEW t \in Tables PROVE Exists(Effective(t))
        BY DEF CurrentReadable
    <2>1. StoreInv
        BY DEF IndInv, TypeInv, TypeOK, StoreInv, StoreTypes
    <2> QED  BY <2>1, EffectiveFacts DEF Safe
<1> QED  BY <1>1, IcebergInvariant, PTL

LEMMA OpsOfAppend ==
    ASSUME NEW S, NEW h \in Seq(S), NEW m \in S
    PROVE  LET g == OpsOf(Append(h, m))  f == OpsOf(h) IN
           Len(g) = Len(f) + 1 /\ IsPrefix(f, g)
<1>1. /\ DOMAIN Append(h, m) = 1 .. (Len(h) + 1) /\ DOMAIN h = 1 .. Len(h) /\ Len(h) \in Nat
      /\ \A i \in 1 .. Len(h) : Append(h, m)[i] = h[i]
    OBVIOUS
<1>2. PICK f, g : f = OpsOf(h) /\ g = OpsOf(Append(h, m))
    OBVIOUS
<1>3. /\ f = [i \in 1 .. Len(h) |-> h[i].op] /\ g = [i \in 1 .. (Len(h) + 1) |-> Append(h, m)[i].op]
    BY <1>1, <1>2 DEF OpsOf
<1>4. Len(f) = Len(h) /\ Len(g) = Len(h) + 1
    BY <1>1, <1>3
<1>5. \A i \in 1 .. Len(h) : f[i] = g[i]
    BY <1>1, <1>3
<1>6. SubSeq(f, 1, Len(f)) = SubSeq(g, 1, Len(f))
    <2>1. PICK n, T : n = Len(h) /\ T = {f[i] : i \in 1 .. Len(h)}
        OBVIOUS
    <2>2. n \in Int /\ 1 \in Int /\ n >= 0 /\ Len(f) = n
        BY <1>1, <1>4, <2>1
    <2>3. (\A i \in 1 .. n : f[i] \in T) /\ (\A i \in 1 .. n : g[i] \in T)
        BY <1>5, <2>1
    <2>4. PICK u, v : u = SubSeq(f, 1, n) /\ v = SubSeq(g, 1, n)
        OBVIOUS
    <2>5. /\ u \in Seq(T) /\ Len(u) = n /\ \A i \in 1 .. n : u[i] = f[i]
        BY <2>2, <2>3, <2>4, SubSeqProperties
    <2>6. /\ v \in Seq(T) /\ Len(v) = n /\ \A i \in 1 .. n : v[i] = g[i]
        BY <2>2, <2>3, <2>4, SubSeqProperties
    <2>7. u = v
        BY <1>5, <2>1, <2>5, <2>6, SeqEqual
    <2> QED  BY <2>2, <2>4, <2>7
<1> QED  BY <1>1, <1>2, <1>4, <1>6 DEF IsPrefix

(* No commit is lost or rewritten: a table's history stays or gets one     *)
(* commit at its end, whatever swaps, finalizes, clears or collects.       *)
THEOREM HistoryOnlyExtends == Spec => HistoryExtends
<1>1. IndInv /\ [Next]_vars =>
        \A t \in Tables : LET h == HistoryOf(t)  g == HistoryOf(t)' IN
                          g = h \/ (Len(g) = Len(h) + 1 /\ IsPrefix(h, g))
    <2> SUFFICES ASSUME IndInv, [Next]_vars, NEW t \in Tables
                 PROVE  LET h == HistoryOf(t)  g == HistoryOf(t)' IN
                        g = h \/ (Len(g) = Len(h) + 1 /\ IsPrefix(h, g))
        OBVIOUS
    <2>1. StoreInv /\ StorageMoves
        BY StorageStep
    <2>2. CASE Stays(t)
        BY <2>2 DEF Stays, HistoryOf, OpsOf
    <2>3. CASE Appends(t)
        <3>1. PICK h, m : /\ h = History(Effective(t)) /\ m = Effective(t)'
                          /\ History(Effective(t))' = Append(h, m)
            BY <2>3 DEF Appends
        <3>2. h \in Seq(Locations) /\ m \in Locations
            <4>1. h \in Seq(DOMAIN files) /\ DOMAIN files \subseteq Locations
                BY <2>1, <3>1, EffectiveFacts DEF StoreInv, StoreTypes
            <4> QED  BY <4>1, <3>1, <2>3 DEF Appends
        <3>3. HistoryOf(t) = OpsOf(h) /\ HistoryOf(t)' = OpsOf(Append(h, m))
            BY <3>1 DEF HistoryOf, OpsOf
        <3> QED  BY <3>2, <3>3, OpsOfAppend
    <2> QED  BY <2>1, <2>2, <2>3, HistoryNext
<1> QED  BY <1>1, IcebergInvariant, PTL DEF Spec, HistoryExtends

----------------------------------------------------------------------------
(* A guarded commit is applied once.  Where a call's own step takes it:    *)
(* only Write leads to the swap, and no call becomes idle again.           *)
LEMMA PcAfter ==
    ASSUME TypeInv, NEW c \in Calls
    PROVE  /\ \A l, r : Goto(c, l, r) => pc'[c] = l
           /\ \A l : On(c, l) => pc'[c] = l
           /\ \A a : Answer(c, a) => pc'[c] = "done"
           /\ \A a : GiveUp(c, a) => pc'[c] = "abort"
           /\ Settled(c) => pc'[c] \in {"abort", "load"}
<1>1. pc \in [Calls -> Pcs]
    BY DEF TypeInv
<1>2. \A l, r : Goto(c, l, r) => pc'[c] = l
    BY <1>1 DEF Goto
<1>3. \A l : On(c, l) => pc'[c] = l
    BY <1>2 DEF On
<1>4. \A a : Answer(c, a) => pc'[c] = "done"
    BY <1>1 DEF Answer
<1>5. \A a : GiveUp(c, a) => pc'[c] = "abort"
    BY <1>1 DEF GiveUp
<1> QED  BY <1>2, <1>3, <1>4, <1>5 DEF Settled

LEMMA OwnPc ==
    ASSUME IndInv, NEW c \in Calls, Step(c) \/ Crash(c)
    PROVE  /\ pc'[c] # "idle" /\ (pc'[c] = "swap" => Write(c))
           /\ Begin(c) \/ base' = base
<1>0. TypeInv
    BY DEF IndInv
<1>1. CASE Begin(c)
    BY <1>0, <1>1, PcAfter DEF Begin
<1>2. CASE Crash(c)
    BY <1>0, <1>2, PcAfter DEF Crash
<1>3. CASE Load(c)
    BY <1>0, <1>3, PcAfter DEF Load, rest
<1>4. CASE Pending(c)
    <2>1. record[Other(c)] \in Statuses
        BY <1>4, RepairFacts, Known DEF Pending, RepairPcs, Other, StoreInv, StoreTypes
    <2> QED  BY <1>0, <1>4, <2>1, PcAfter DEF Pending, Statuses, rest
<1>5. CASE AbortStale(c)
    BY <1>0, <1>5, PcAfter DEF AbortStale, rest
<1>6. CASE RepairPending(c)
    BY <1>0, <1>6, PcAfter DEF RepairPending, rest
<1>7. CASE Claim(c)
    BY <1>0, <1>7, PcAfter DEF Claim, TakeMarker, rest
<1>8. CASE Recheck(c)
    BY <1>0, <1>8, PcAfter DEF Recheck, rest
<1>9. CASE Found(c)
    BY <1>0, <1>9, PcAfter DEF Found, rest
<1>10. CASE Takeover(c)
    BY <1>0, <1>10, PcAfter DEF Takeover, TakeMarker, rest
<1>11. CASE Write(c)
    BY <1>0, <1>11, PcAfter DEF Write, rest
<1>12. CASE Swap(c)
    BY <1>0, <1>12, PcAfter DEF Swap, rest
<1>13. CASE Fail(c)
    BY <1>0, <1>13, PcAfter DEF Fail, rest
<1>14. CASE Finish(c)
    BY <1>0, <1>14, PcAfter DEF Finish, rest
<1>15. CASE Reread(c)
    BY <1>0, <1>15, PcAfter DEF Reread, rest
<1>16. CASE Lookup(c)
    <2>1. op[c] \in Txs
        BY <1>16, Known DEF Lookup, CallInv, PcInv, TxPcs
    <2>2. record[Tx(c)] \in Statuses
        BY <2>1, Known DEF Tx, StoreInv, StoreTypes
    <2> QED  BY <1>0, <1>16, <2>2, PcAfter DEF Lookup, Statuses, rest
<1>17. CASE AbortOld(c)
    BY <1>0, <1>17, PcAfter DEF AbortOld, rest
<1>18. CASE Create(c)
    BY <1>0, <1>18, PcAfter DEF Create, rest
<1>19. CASE Prepare(c)
    BY <1>0, <1>19, PcAfter DEF Prepare, rest
<1>20. CASE Stage(c)
    BY <1>0, <1>20, PcAfter DEF Stage, rest
<1>21. CASE Mark(c)
    BY <1>0, <1>21, PcAfter DEF Mark, rest
<1>22. CASE Update(c)
    BY <1>0, <1>22, PcAfter DEF Update, rest
<1>23. CASE Barrier(c)
    BY <1>0, <1>23, PcAfter DEF Barrier, rest
<1>24. CASE Commit(c)
    BY <1>0, <1>24, PcAfter DEF Commit, rest
<1>25. CASE Reload(c)
    BY <1>0, <1>25, PcAfter DEF Reload, rest
<1>26. CASE Publish(c)
    BY <1>0, <1>26, PcAfter DEF Publish, Visit, rest
<1>27. CASE Abort(c)
    BY <1>0, <1>27, PcAfter DEF Abort, rest
<1>28. CASE Unmark(c)
    BY <1>0, <1>28, PcAfter DEF Unmark, Visit, rest
<1> QED  BY <1>1, <1>2, <1>3, <1>4, <1>5, <1>6, <1>7, <1>8, <1>9, <1>10, <1>11, <1>12, <1>13, <1>14, <1>15, <1>16, <1>17, <1>18, <1>19, <1>20, <1>21, <1>22, <1>23, <1>24, <1>25, <1>26, <1>27, <1>28 DEF Step

LEMMA OtherPcs ==
    ASSUME IndInv, [Next]_vars
    PROVE  /\ op' = op
           /\ \A d \in Calls : Same(d) \/ (pc'[d] # "idle" /\ (pc'[d] = "swap" => Write(d)))
           /\ base' = base \/ \E c \in Calls : Begin(c)
<1>1. ASSUME NEW c \in Calls, Step(c) \/ Crash(c)
      PROVE  op' = op /\ \A d \in Calls : d # c => Same(d)
    <2>1. StepOK(c)
        BY <1>1, CallSteps
    <2>2. PICK l, r, a : Moves(c, l, r, a)
        BY <2>1 DEF StepOK
    <2> QED  BY <2>1, <2>2, MovesFacts DEF StepOK, IndInv
<1>2. CASE \E c \in Calls : Step(c) \/ Crash(c)
    BY <1>1, <1>2, OwnPc
<1>3. CASE UNCHANGED <<op, base, locals>>
    BY <1>3 DEF Same, locals
<1>4. ASSUME NEW k \in Keys, MarkerAges(k) \/ GcList(k) PROVE UNCHANGED <<op, base, locals>>
    BY <1>4 DEF MarkerAges, GcList, rest
<1>5. ASSUME NEW x \in Txs, TxAges(x) PROVE UNCHANGED <<op, base, locals>>
    BY <1>5 DEF TxAges
<1>6. ASSUME GcCheck \/ GcClean \/ GcSweep PROVE UNCHANGED <<op, base, locals>>
    BY <1>6 DEF GcCheck, GcClean, GcSweep
<1>7. ASSUME NEW t \in Tables, GcPlan(t) PROVE UNCHANGED <<op, base, locals>>
    BY <1>7 DEF GcPlan
<1>8. ASSUME UNCHANGED vars PROVE UNCHANGED <<op, base, locals>>
    BY <1>8 DEF vars, rest
<1> QED  BY <1>2, <1>3, <1>4, <1>5, <1>6, <1>7, <1>8 DEF Next

(* A pointer without a pending update goes to another file only by Swap.   *)
LEMMA MovesOne ==
    ASSUME StoreInv, NEW t \in Tables, PointerMoves(t), NEW u \in Tables, NEW p, SetPointer(u, p)
    PROVE  u = t
<1>1. pointer'[t].ver # pointer[t].ver
    BY CurFacts DEF PointerMoves
<1>2. pointer \in [Tables -> Pointers]
    BY DEF StoreInv, StoreTypes
<1> QED  BY <1>1, <1>2 DEF SetPointer

LEMMA SwapOnly ==
    ASSUME IndInv, [Next]_vars, NEW t \in Tables, PointerMoves(t), Swapped(t)
    PROVE  \E c \in Calls : /\ Swap(c) /\ At(c) = t /\ op[c] = pointer'[t].cur.op
                            /\ op[c] \in Keys /\ call[c].ptr = pointer[t]
<1>0. StoreInv /\ UNCHANGED <<files, gone, record, gcOrphans>>
    BY StorageStep DEF PointerMoves
<1>1. pointer' # pointer /\ pointer[t].pending = NoPending /\ pointer'[t].pending = NoPending
    BY <1>0, CurFacts DEF PointerMoves, Swapped
<1>2. ASSUME NEW c \in Calls, Swap(c)
      PROVE  /\ At(c) = t /\ op[c] = pointer'[t].cur.op
             /\ op[c] \in Keys /\ call[c].ptr = pointer[t]
    <2>1. PICK l, p, u : l = call[c].mk.loc /\ p = call[c].ptr /\ u = At(c)
        OBVIOUS
    <2>a. PICK q : q = [p EXCEPT !.cur = l, !.prev = p.cur, !.pending = NoPending]
        OBVIOUS
    <2>2. /\ op[c] \in Keys /\ u \in Tables /\ u = TableOf(c) /\ l \in Locations /\ l.op = op[c]
        BY <1>2, <2>1, HasMarkerFacts DEF Swap, HasMarker
    <2>3. p \in Pointers /\ p.ver = pointer[u].ver /\ SetPointer(u, q)
        BY <1>1, <1>2, <2>1, <2>a, <2>2, Known DEF Swap, PointerIs, CallRecords
    <2>4. p = pointer[u]
        BY <1>2, <2>1, <2>3, Known DEF Swap, CallInv, PtrInv, HasPtr
    <2>5. u = t
        BY <1>0, <2>2, <2>3, MovesOne
    <2>6. q \in Pointers /\ q.cur = l
        <3>1. p \in Pointers /\ l \in Locations
            BY <2>2, <2>3
        <3> QED  BY <2>a, <3>1 DEF Pointers
    <2>7. pointer'[t].cur = l
        BY <1>0, <2>3, <2>5, <2>6, SetFacts DEF StoreInv, StoreTypes
    <2> QED  BY <2>1, <2>2, <2>4, <2>5, <2>7
<1>3. ASSUME NEW c \in Calls, RepairPending(c) PROVE FALSE
    <2>1. PICK p, q, u : p = call[c].ptr /\ u = At(c) /\ p.ver = pointer[u].ver /\ SetPointer(u, q)
        BY <1>1, <1>3 DEF RepairPending, PointerIs
    <2>2. u \in Tables /\ p.pending # NoPending /\ (p.ver = pointer[u].ver => p = pointer[u])
        BY <1>3, <2>1, RepairFacts DEF RepairPending, RepairPcs
    <2>3. u = t
        BY <1>0, <2>1, <2>2, MovesOne
    <2> QED  BY <1>1, <2>1, <2>2, <2>3
<1>4. ASSUME NEW c \in Calls, Mark(c) PROVE FALSE
    <2>1. PICK x, l, p, q, u : /\ x = op[c] /\ l = TxLocation(c) /\ p = call[c].ptr /\ u = At(c)
                               /\ q = [p EXCEPT !.pending = [tx |-> x, loc |-> l]]
        OBVIOUS
    <2>2. SetPointer(u, q)
        BY <1>1, <1>4, <2>1 DEF Mark, Tx
    <2>3. x \in Txs /\ l \in Locations /\ p \in Pointers /\ u \in Tables
        BY <1>4, <2>1, PreparingFacts DEF Mark
    <2>4. q \in Pointers /\ q.pending = [tx |-> x, loc |-> l]
        BY <2>1, <2>3, MarkFacts
    <2>5. u = t
        BY <1>0, <2>2, <2>3, MovesOne
    <2>6. pointer'[t].pending = [tx |-> x, loc |-> l]
        BY <1>0, <2>2, <2>3, <2>4, <2>5, SetFacts DEF StoreInv, StoreTypes
    <2> QED  BY <1>1, <2>3, <2>6, OpFacts DEF NoPending, Ops
<1>5. ASSUME NEW c \in Calls, Publish(c) \/ Unmark(c) PROVE FALSE
    <2>1. PICK q, u : u = At(c) /\ pointer[u].pending.tx = op[c] /\ SetPointer(u, q)
        BY <1>1, <1>5 DEF Publish, Unmark, Visit, Tx
    <2>2. op[c] \in Txs /\ u \in Tables
        BY <1>5, <2>1, OwnerFacts DEF Publish, Unmark, Walking
    <2>3. u = t
        BY <1>0, <2>1, <2>2, MovesOne
    <2> QED  BY <1>0, <1>1, <2>1, <2>2, <2>3, CurFacts
<1>6. ASSUME NEW c \in Calls, Step(c) \/ Crash(c)
      PROVE  Swap(c) \/ RepairPending(c) \/ Mark(c) \/ Publish(c) \/ Unmark(c)
    <2>1. CASE Begin(c) \/ Crash(c)
        BY <1>1, <2>1 DEF Begin, Crash, storage
    <2>2. CASE Load(c) \/ Pending(c) \/ AbortStale(c)
        BY <1>1, <2>2 DEF Load, Pending, AbortStale, storage
    <2>3. CASE \/ Claim(c) \/ Recheck(c) \/ Found(c) \/ Takeover(c) \/ Write(c)
               \/ Fail(c) \/ Finish(c) \/ Reread(c)
        BY <1>1, <2>3 DEF Claim, Recheck, Found, Takeover, Write, Fail, Finish, Reread, storage
    <2>4. CASE Lookup(c) \/ AbortOld(c) \/ Create(c) \/ Prepare(c) \/ Stage(c)
        BY <1>1, <2>4 DEF Lookup, AbortOld, Create, Prepare, Stage, storage
    <2>5. CASE Update(c) \/ Barrier(c) \/ Commit(c) \/ Reload(c) \/ Abort(c)
        BY <1>1, <2>5 DEF Update, Barrier, Commit, Reload, Abort, storage
    <2> QED  BY <1>6, <2>1, <2>2, <2>3, <2>4, <2>5 DEF Step
<1>7. \E c \in Calls : Step(c) \/ Crash(c)
    <2>1. ASSUME NEW k \in Keys, MarkerAges(k) \/ GcList(k) PROVE UNCHANGED pointer
        BY <2>1 DEF MarkerAges, GcList, storage
    <2>2. ASSUME NEW x \in Txs, TxAges(x) PROVE UNCHANGED pointer
        BY <2>2 DEF TxAges, storage
    <2>3. ASSUME GcCheck \/ GcClean \/ GcSweep PROVE UNCHANGED pointer
        BY <2>3 DEF GcCheck, GcClean, GcSweep, storage
    <2>4. ASSUME NEW v \in Tables, GcPlan(v) PROVE UNCHANGED pointer
        BY <2>4 DEF GcPlan, storage
    <2>5. ASSUME UNCHANGED vars PROVE UNCHANGED pointer
        BY <2>5 DEF vars, storage
    <2> QED  BY <1>1, <2>1, <2>2, <2>3, <2>4, <2>5 DEF Next
<1> QED  BY <1>2, <1>3, <1>4, <1>5, <1>6, <1>7

LEMMA BaseNext ==
    ASSUME IndInv, \A c \in Calls : BaseInv(c), [Next]_vars, NEW c \in Calls
    PROVE  BaseInv(c)'
<1> SUFFICES ASSUME pc'[c] = "swap", op'[c] \in Guarded
             PROVE  base'[op'[c]][At(c)'] = call'[c].ptr.cur
    BY DEF BaseInv
<1>1. op' = op
    BY OtherPcs
<1>2. CASE Same(c)
    <2>1. pc[c] = "swap" /\ call'[c] = call[c]
        BY <1>2 DEF Same
    <2>2. At(c)' = At(c)
        BY <1>1, <2>1 DEF At, IsTx, TableOf
    <2>3. base[op[c]][At(c)] = call[c].ptr.cur
        BY <1>1, <2>1 DEF BaseInv
    <2>4. base'[op[c]] = base[op[c]]
        <3>1. CASE base' = base
            BY <3>1
        <3>2. ASSUME NEW d \in Calls, Begin(d) PROVE base'[op[c]] = base[op[c]]
            BY <1>1, <2>1, <3>2 DEF Begin
        <3> QED  BY <3>1, <3>2, OtherPcs
    <2> QED  BY <1>1, <2>1, <2>2, <2>3, <2>4
<1>3. CASE Write(c)
    <2>1. /\ base' = base /\ pc[c] = "write"
        BY <1>3 DEF Write, rest
    <2>2. TypeInv /\ pc \in [Calls -> Pcs] /\ call \in [Calls -> CallRecords]
        BY DEF IndInv, TypeInv, TypeOK, CallRecords
    <2>3. ~On(c, "fail")
        BY <2>2, PcAfter
    <2>4. RequirementsHold(op[c], call[c].ptr) /\ On(c, "swap")
        BY <1>3, <2>3 DEF Write, Key
    <2>5. call'[c] = call[c]
        BY <2>2, <2>4 DEF On, Goto
    <2>6. call[c].ptr.cur.table = At(c)
        BY <2>1, Known DEF CallInv, PtrInv, HasPtr
    <2>7. At(c)' = At(c)
        BY <1>1, <2>5 DEF At, IsTx, TableOf
    <2> QED  BY <1>1, <2>1, <2>4, <2>5, <2>6, <2>7 DEF RequirementsHold
<1> QED  BY <1>2, <1>3, OtherPcs

(* The commit that a step adds to a table was not in its history.          *)
LEMMA AddedOnce ==
    ASSUME IndInv, OnceInv, [Next]_vars, NEW o \in Guarded \cup Txs, NEW t \in OpTables[o],
           Appends(t), Effective(t)'.op = o
    PROVE  /\ ~In(o, Effective(t))
           /\ o \in Keys => /\ base' = base /\ base[o][t] = Effective(t)
                            /\ \E c \in Calls : op[c] = o /\ pc[c] # "idle"
<1>0. o \in Ops /\ t \in Tables /\ StoreInv
    BY IcebergAssumption, OpFacts, StorageStep DEF Ops
<1>1. CASE o \in Txs
    <2>1. o \notin Keys
        BY <1>1, OpFacts
    <2> QED  BY <1>1, <2>1 DEF Appends, Swapped
<1>2. CASE o \in Keys
    <2>1. PointerMoves(t) /\ Swapped(t) /\ Effective(t) = pointer[t].cur /\ pointer'[t].cur.op = o
        BY <1>2, OpFacts DEF Appends
    <2>2. PICK c \in Calls : /\ Swap(c) /\ At(c) = t /\ op[c] = o /\ call[c].ptr = pointer[t]
        BY <1>0, <2>1, SwapOnly
    <2>3. pc[c] = "swap" /\ base' = base /\ o \in Guarded
        BY <1>2, <2>2, OpFacts DEF Swap, rest
    <2>4. base[o][t] = Effective(t)
        BY <2>1, <2>2, <2>3 DEF OnceInv, BaseInv
    <2>5. Effective(t).seq \in Nat
        BY <1>0, EffectiveFacts
    <2>6. ~In(o, Effective(t))
        BY <1>2, <2>3, <2>4, <2>5 DEF OnceInv, PastBase
    <2> QED  BY <2>2, <2>3, <2>4, <2>6
<1> QED  BY <1>0, <1>1, <1>2 DEF Ops

LEMMA TwiceAppend ==
    ASSUME NEW S, NEW h \in Seq(S), NEW m \in S, NEW o, ~Twice(h, o), m.op = o => ~Names(h, o)
    PROVE  ~Twice(Append(h, m), o)
<1>1. /\ DOMAIN Append(h, m) = 1 .. (Len(h) + 1) /\ DOMAIN h = 1 .. Len(h) /\ Len(h) \in Nat
      /\ Append(h, m)[Len(h) + 1] = m
      /\ \A i \in 1 .. Len(h) : Append(h, m)[i] = h[i]
    OBVIOUS
<1> QED  BY <1>1 DEF Twice, Names

LEMMA AppendParts ==
    ASSUME StoreInv, NEW t \in Tables, Appends(t)
    PROVE  \E h \in Seq(Locations), m \in Locations :
             /\ h = History(Effective(t)) /\ m = Effective(t)'
             /\ History(Effective(t))' = Append(h, m) /\ m.seq = Effective(t).seq + 1
             /\ Effective(t).seq \in Nat
<1>1. History(Effective(t)) \in Seq(DOMAIN files) /\ DOMAIN files \subseteq Locations
      /\ Effective(t).seq \in Nat
    BY EffectiveFacts DEF StoreInv, StoreTypes
<1>2. History(Effective(t)) \in Seq(Locations)
    BY <1>1
<1> QED  BY <1>1, <1>2 DEF Appends

LEMMA PastBaseNext ==
    ASSUME IndInv, OnceInv, [Next]_vars, NEW k \in Guarded \cap Keys, NEW t \in OpTables[k]
    PROVE  PastBase(k, t)'
<1> SUFFICES ASSUME Names(History(Effective(t))', k)
             PROVE  /\ \E c \in Calls : op'[c] = k /\ pc'[c] # "idle"
                    /\ base'[k][t] \in Locations /\ base'[k][t].seq < Effective(t)'.seq
    BY DEF PastBase, In
<1>0. t \in Tables /\ StoreInv /\ StorageMoves /\ op' = op
    BY OpFacts, StorageStep, OtherPcs DEF Ops
<1>1. \A c \in Calls : pc[c] # "idle" => pc'[c] # "idle"
    BY OtherPcs DEF Same
<1>2. ASSUME In(k, Effective(t))
      PROVE  /\ \E c \in Calls : op[c] = k /\ pc[c] # "idle"
             /\ base[k][t] \in Locations /\ base[k][t].seq < Effective(t).seq
             /\ base'[k] = base[k]
    <2>1. /\ \E c \in Calls : op[c] = k /\ pc[c] # "idle"
          /\ base[k][t] \in Locations /\ base[k][t].seq < Effective(t).seq
        BY <1>2 DEF OnceInv, PastBase
    <2>2. ASSUME NEW d \in Calls, Begin(d) PROVE base'[k] = base[k]
        BY <2>1, <2>2 DEF Begin
    <2> QED  BY <2>1, <2>2, OtherPcs
<1>3. CASE Stays(t)
    BY <1>0, <1>1, <1>2, <1>3 DEF Stays, In
<1>4. CASE Appends(t)
    <2>1. PICK h \in Seq(Locations), m \in Locations :
            /\ h = History(Effective(t)) /\ m = Effective(t)'
            /\ History(Effective(t))' = Append(h, m) /\ m.seq = Effective(t).seq + 1
            /\ Effective(t).seq \in Nat
        BY <1>0, <1>4, AppendParts
    <2>2. In(k, Effective(t)) \/ m.op = k
        BY <2>1, NamesAppend DEF In
    <2>3. CASE m.op = k
        <3>1. /\ base' = base /\ base[k][t] = Effective(t)
              /\ \E c \in Calls : op[c] = k /\ pc[c] # "idle"
            BY <1>4, <2>1, <2>3, AddedOnce
        <3>2. Effective(t) \in Locations
            BY <1>0, EffectiveFacts
        <3> QED  BY <1>0, <1>1, <2>1, <3>1, <3>2
    <2>4. CASE In(k, Effective(t))
        <3>1. base[k][t].seq \in Nat
            BY <1>2, <2>4 DEF Locations
        <3> QED  BY <1>0, <1>1, <1>2, <2>1, <2>4, <3>1
    <2> QED  BY <2>2, <2>3, <2>4
<1> QED  BY <1>0, <1>3, <1>4, HistoryNext

LEMMA OnceStep == IndInv /\ OnceInv /\ [Next]_vars => OnceInv'
<1> SUFFICES ASSUME IndInv, OnceInv, [Next]_vars PROVE OnceInv'
    OBVIOUS
<1>1. \A c \in Calls : BaseInv(c)'
    BY BaseNext DEF OnceInv
<1>2. \A k \in Guarded \cap Keys : \A t \in OpTables[k] : PastBase(k, t)'
    BY PastBaseNext
<1>3. ASSUME NEW o \in Guarded \cup Txs, NEW t \in OpTables[o]
      PROVE  ~Twice(History(Effective(t))', o)
    <2>0. t \in Tables /\ StoreInv /\ StorageMoves
        BY IcebergAssumption, OpFacts, StorageStep DEF Ops
    <2>1. ~Twice(History(Effective(t)), o)
        BY DEF OnceInv
    <2>2. CASE Stays(t)
        BY <2>1, <2>2 DEF Stays
    <2>3. CASE Appends(t)
        <3>1. PICK h \in Seq(Locations), m \in Locations :
                /\ h = History(Effective(t)) /\ m = Effective(t)'
                /\ History(Effective(t))' = Append(h, m)
            BY <2>0, <2>3, AppendParts
        <3>2. m.op = o => ~Names(h, o)
            BY <2>3, <3>1, AddedOnce DEF In
        <3> QED  BY <2>1, <3>1, <3>2, TwiceAppend
    <2> QED  BY <2>0, <2>2, <2>3, HistoryNext
<1> QED  BY <1>1, <1>2, <1>3 DEF OnceInv, Twice

LEMMA OnceInit == Init => OnceInv
<1> SUFFICES ASSUME Init PROVE OnceInv
    OBVIOUS
<1>1. \A c \in Calls : BaseInv(c)
    BY InitFacts DEF BaseInv
<1>2. ASSUME NEW o \in Ops, NEW t \in OpTables[o]
      PROVE  ~In(o, Effective(t)) /\ ~Twice(History(Effective(t)), o)
    <2>1. PICK l : l = First(t)
        OBVIOUS
    <2>2. t \in Tables
        BY OpFacts
    <2>3. l.op = None /\ files[l] = <<>> /\ pointer[t].cur = l /\ pointer[t].pending = NoPending
        BY <2>1, <2>2, InitStorage
    <2>4. History(Effective(t)) = Append(<<>>, l)
        BY <2>3 DEF Effective, EffectiveLocation, History
    <2>5. ~Names(Append(<<>>, l), o) /\ ~Twice(Append(<<>>, l), o)
        BY <2>3, OpFacts DEF Names, Twice
    <2> QED  BY <2>4, <2>5 DEF In
<1>3. Guarded \subseteq Ops /\ Txs \subseteq Ops
    BY IcebergAssumption DEF Ops
<1> QED  BY <1>1, <1>2, <1>3 DEF OnceInv, PastBase

(* Why a guarded commit is applied once: a call swaps the pointer only     *)
(* when the metadata it asserts is current (validate_requirements and the  *)
(* compare-and-swap), and its table is past that once it is applied.       *)
THEOREM OnceInvariant == Spec => []OnceInv
<1>1. IndInv /\ OnceInv /\ [Next]_vars => (IndInv /\ OnceInv)'
    BY IndStep, OnceStep
<1>2. Init => IndInv /\ OnceInv
    BY IndInit, OnceInit
<1> QED  BY <1>1, <1>2, PTL DEF Spec

LEMMA OnceCardinality ==
    ASSUME NEW o, NEW t, ~Twice(History(Effective(t)), o)
    PROVE  Cardinality({i \in DOMAIN HistoryOf(t) : HistoryOf(t)[i] = o}) <= 1
<1>1. PICK h, P : h = History(Effective(t)) /\ P = {i \in DOMAIN HistoryOf(t) : HistoryOf(t)[i] = o}
    OBVIOUS
<1>2. HistoryOf(t) = [i \in DOMAIN h |-> h[i].op]
    BY <1>1 DEF HistoryOf, OpsOf
<1>3. P = {i \in DOMAIN h : h[i].op = o}
    BY <1>1, <1>2
<1>4. \A i, j \in P : i = j
    BY <1>1, <1>3 DEF Twice
<1>5. P = {} \/ \E x : P = {x}
    <2>1. ASSUME NEW x \in P PROVE P = {x}
        BY <1>4
    <2> QED  BY <2>1
<1>6. Cardinality(P) \in {0, 1}
    BY <1>5, FS_EmptySet, FS_Singleton
<1> QED  BY <1>1, <1>6

(* When every commit asserts the snapshot it was built on, no operation is *)
(* applied twice, through retries, takeovers of stale markers and markers  *)
(* that the collector deletes.  Without the assertion it can be, as the    *)
(* run iceberg_once shows.                                                 *)
THEOREM GuardedAppliedOnce ==
    ASSUME Keys \subseteq Guarded
    PROVE  Spec => []AppliedOnce
<1>1. OnceInv => AppliedOnce
    <2> SUFFICES ASSUME OnceInv, NEW o \in Ops, NEW t \in OpTables[o]
                 PROVE  Cardinality({i \in DOMAIN HistoryOf(t) : HistoryOf(t)[i] = o}) <= 1
        BY DEF AppliedOnce
    <2>1. ~Twice(History(Effective(t)), o)
        BY DEF OnceInv, Ops
    <2> QED  BY <2>1, OnceCardinality
<1> QED  BY <1>1, OnceInvariant, PTL
=============================================================================
