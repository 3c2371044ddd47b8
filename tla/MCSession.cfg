\* Two application goroutines call, execute, listen and destroy while the catalog may be closed from elsewhere.
CONSTANTS
    k1 = k1
    EmptyValue = EmptyValue
    t1 = t1
    t2 = t2
    Watcher = Watcher
    Keys = {k1}
    Values = {EmptyValue}
    Empty = EmptyValue
    UpdateLists = {}
    Threads <- MCThreads
    SessNamespaces = {n1}
    MaxRev = 0
    MaxSeq = 3
    SeqModulus = 3

SPECIFICATION SessSpec

INVARIANT SessTypeOK
INVARIANT NothingAfterDestroy
INVARIANT CallsWhileLive
PROPERTY SessionEndsWithCatalog
PROPERTY DestroyCompletes
