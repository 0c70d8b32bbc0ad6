CONSTANTS
    c1 = c1
    c2 = c2
    b1 = b1
    b2 = b2
    Nobody = Nobody
    Other = Other
    Calls <- MCPair
    Bids <- MCBids
    WithPage <- MCWithPage
    Requests <- ScopeRequests
    MaxKeys = 2
SPECIFICATION Spec
SYMMETRY CallSymmetry
INVARIANT BatchKeepsSelection
CHECK_DEADLOCK FALSE
