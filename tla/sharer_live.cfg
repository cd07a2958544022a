SPECIFICATION FairSpec
CONSTANTS
    MaxAttempts = 1
    MaxRetries = 1
    MaxSessionSize = 2
    MaxReconnects = 1
    MaxBlocks = 0
    MaxOps = 0
    MaxPrompts = 0
    ResumeMayDrop = FALSE
PROPERTY ImplementsLiveLog
CHECK_DEADLOCK FALSE
