SPECIFICATION Spec
CONSTANTS
    c1 = c1
    c2 = c2
    c3 = c3
    key1 = key1
    key2 = key2
    tx1 = tx1
    tx2 = tx2
    None = None
    Tables <- One
    Calls = {c1, c2, c3}
    Keys = {key1, key2}
    Txs = {}
    Mixes <- Commits
    OpTables <- CommitsTables
    Guarded = {}
    MaxTakeover = 3
    PreviousVersionsMax = 0
    MaxCrashes = 1
    MaxCollections = 0
INVARIANT AppliedOnce
CHECK_DEADLOCK FALSE
