SPECIFICATION Spec
CONSTANTS
    w1 = w1
    w2 = w2
    Writers <- MCWriters
    MaxSeq = 1
    Kinds = {"other"}
    Legacy = {}
    MaxItems = 1
    MaxEdits = 0
    NoBid = NoBid
    NoWriter = NoWriter
SYMMETRY WriterSymmetry
INVARIANT
    LatestEffectiveIsEffective
CHECK_DEADLOCK FALSE
