\* seq is a uint32: with the counter shrunk to modulus 3, NextMessageID wraps to 0 and reissues IDs.
CONSTANTS
    k1 = k1
    k2 = k2
    A = A
    EmptyValue = EmptyValue
    Keys <- MCKeys
    Values <- MCValues
    Empty = EmptyValue
    UpdateLists <- MCUpdateLists
    MaxRev = 1
    MaxSeq = 3
    SeqModulus = 3

SPECIFICATION Spec

INVARIANT MessageIDFence

