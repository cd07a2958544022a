SPECIFICATION SessionSpec
CONSTANTS
    MaxAttempts = 2
    MaxRetries = 0
    MaxSessionSize = 2
    MaxReconnects = 2
    MaxBlocks = 1
    MaxOps = 2
    MaxPrompts = 1
    ResumeMayDrop = TRUE
CONSTANTS
    MaxActivity = 2
    MaxDisruption = 2
CONSTRAINT Budget
INVARIANTS TypeOK UnackedContiguous OneSession NothingLost LatestStateArrives
PROPERTIES FinishedForGood ImplementsOrderedLog
CHECK_DEADLOCK FALSE
