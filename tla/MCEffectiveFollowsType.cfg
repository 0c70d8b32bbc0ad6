SPECIFICATION Spec
CONSTANTS
    w1 = w1
    w2 = w2
    Writers <- MCWriters
    MaxSeq = 1
    Kinds = {"other"}
    Legacy = {0}
    MaxItems = 1
    MaxEdits = 0
    NoBid = NoBid
    NoWriter = NoWriter
SYMMETRY WriterSymmetry
INVARIANT
    EffectiveFollowsType
CHECK_DEADLOCK FALSE
