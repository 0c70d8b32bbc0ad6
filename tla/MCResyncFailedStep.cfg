SPECIFICATION Spec
CONSTANTS
    t1 = t1
    t2 = t2
    Tasks <- MCTasks
    MaxId = 1
    MaxCrashes = 0
    NoRow = NoRow
INVARIANT
    ResyncFailedStepIsExact
