SPECIFICATION Spec
CONSTANTS
    w1 = w1
    w2 = w2
    Writers <- MCWriters
    MaxSeq = 2
    Kinds = {"other"}
    Legacy = {0}
    MaxItems = 2
    MaxEdits = 1
    NoBid = NoBid
    NoWriter = NoWriter
SYMMETRY WriterSymmetry
INVARIANTS
    TypeOK
    OneLatestVersion
    AllOrNothing
PROPERTIES
    SyncsKeepUserChoices
    ImplementsNoticeVersions
CHECK_DEADLOCK FALSE
