\* A remote TryUpdate that sets one key twice leaves the cache holding the first value.
CONSTANTS
    k1 = k1
    k2 = k2
    A = A
    EmptyValue = EmptyValue
    t1 = t1
    t2 = t2
    NoThread = NoThread
    Keys <- OneKey
    Values <- MCValues
    Empty = EmptyValue
    Threads <- OneThread
    UpdateLists <- MCUpdateLists
    RemoteUpdateLists <- MCRemoteUpdateListsDup
    MaxRev = 2
    MaxSeq = 0
    MaxInFlight = 1
    SeqModulus = 2147483647

SPECIFICATION RemoteSpec


INVARIANT FetchSound
