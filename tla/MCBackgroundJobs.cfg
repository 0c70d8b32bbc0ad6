SPECIFICATION FairSpec
CONSTANTS
    t1 = t1
    t2 = t2
    Tasks <- MCTasks
    MaxId = 2
    MaxCrashes = 1
    NoRow = NoRow
INVARIANTS
    TypeOK
    ClaimsAreCommitted
    FailedStepNeverOverclaims
    FavoriteFailedStepIsExact
    LockOnlyInService
    OwnRow
PROPERTIES
    EveryTaskSettles
    ImplementsLifecycle
