SPECIFICATION Spec
CONSTANTS
    r1 = r1
    r2 = r2
    r3 = r3
    a = a
    b = b
    Runs <- MCRuns
    Plans <- MCPlans
    Names <- MCNames
    MaxItems = 2
    Nobody = Nobody
SYMMETRY RunSymmetry
INVARIANTS
    TypeOK
    SerialRunsMirror
    CrawledFilesAreCurrent
    NothingFromFailedRuns
CHECK_DEADLOCK FALSE
