\* One remote goroutine reads and updates two keys while the owner updates them.
CONSTANTS
    k1 = k1
    k2 = k2
    A = A
    EmptyValue = EmptyValue
    t1 = t1
    t2 = t2
    NoThread = NoThread
    Keys <- TwoKeys
    Values <- MCValues
    Empty = EmptyValue
    Threads <- OneThread
    UpdateLists <- MCUpdateLists
    RemoteUpdateLists <- MCRemoteUpdateLists
    MaxRev = 2
    MaxSeq = 0
    MaxInFlight = 1
    SeqModulus = 2147483647

SPECIFICATION RemoteSpec

INVARIANT FetchSound
INVARIANT UpdateApplied
INVARIANT ClosedOnlyIfDestroyed

