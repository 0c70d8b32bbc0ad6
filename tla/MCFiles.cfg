SPECIFICATION Spec
CONSTANTS
    r1 = r1
    r2 = r2
    r3 = r3
    a = a
    b = b
    Runs <- MCPairs
    Plans <- MCCrawls
    Names <- MCNames
    MaxItems = 2
    Nobody = Nobody

INVARIANTS
    FilesCanBeStored
CHECK_DEADLOCK FALSE
