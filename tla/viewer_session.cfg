SPECIFICATION SessionSpec
CONSTANTS
    MaxEvents = 3
    Roles = {Reader, Executor}
    Reader = Reader
    NoRole = NoRole
    MaxRetries = 0
    MaxReconnects = 2
    MaxReauth = 1
    MaxBlocks = 1
    MaxOps = 2
    Unordered = TRUE
    ResumeMayDrop = TRUE
    MaxRoleChanges = 1
CONSTANTS
    MaxActivity = 3
    MaxDisruption = 2
CONSTRAINT Budget
INVARIANTS AppliedInOrder ActiveIffCaughtUp StreamsContinue RoleCaughtUp NetworkTypeOK
PROPERTY ImplementsOrderedLog
CHECK_DEADLOCK FALSE
