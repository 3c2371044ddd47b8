\* Two remote goroutines and the owner race on one key, up to revision 3; only the owner freezes it.
CONSTANTS
    k1 = k1
    k2 = k2
    A = A
    EmptyValue = EmptyValue
    t1 = t1
    t2 = t2
    NoThread = NoThread
    Keys <- OneKey
    Values <- MCValues
    Empty = EmptyValue
    Threads <- TwoThreads
    UpdateLists <- MCUpdateLists
    RemoteUpdateLists <- MCRemoteUnfrozenLists
    MaxRev = 3
    MaxSeq = 0
    MaxInFlight = 1
    SeqModulus = 2147483647

SPECIFICATION RemoteSpec

INVARIANT RemoteTypeOK
INVARIANT FetchSound
INVARIANT UpdateApplied
INVARIANT ClosedOnlyIfDestroyed

SYMMETRY ThreadSymmetry
