\* The owner catalog alone: every TryUpdate, TryDestroy, Close and NextMessageID interleaving up to revision 3.
CONSTANTS
    k1 = k1
    k2 = k2
    A = A
    EmptyValue = EmptyValue
    Keys <- MCKeys
    Values <- MCValues
    Empty = EmptyValue
    UpdateLists <- MCUpdateLists
    MaxRev = 3
    MaxSeq = 2
    SeqModulus = 2147483647

SPECIFICATION Spec

INVARIANT TypeOK
INVARIANT MessageIDFence
INVARIANT MetaMatchesHistory

PROPERTY CatalogRefinement
