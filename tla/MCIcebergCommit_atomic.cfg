SPECIFICATION Spec
CONSTANTS
    c1 = c1
    c2 = c2
    c3 = c3
    key1 = key1
    key2 = key2
    tx1 = tx1
    tx2 = tx2
    None = None
    Tables <- Two
    Calls = {c1, c2, c3}
    Keys = {key1}
    Txs = {tx1, tx2}
    Mixes <- WithTxs
    OpTables <- TxsTables
    Guarded = {key1, tx1, tx2}
    MaxTakeover = 3
    PreviousVersionsMax = 0
    MaxCrashes = 1
    MaxCollections = 2
INVARIANTS TypeOK TxAtomic AckedApplied CommittedMarkerTrue AppliedOnce CurrentReadable
PROPERTY HistoryExtends
CHECK_DEADLOCK FALSE
