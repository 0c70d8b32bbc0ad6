SPECIFICATION Spec
CONSTANTS
    r1 = r1
    r2 = r2
    r3 = r3
    a = a
    b = b
    Runs <- MCPairs
    Plans <- MCLicenses
    Names <- MCNames
    MaxItems = 2
    Nobody = Nobody

INVARIANTS
    NoDuplicates
CHECK_DEADLOCK FALSE
