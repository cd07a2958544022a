SPECIFICATION FairSpec
CONSTANTS
    MaxEvents = 2
    Roles = {Reader, Executor}
    Reader = Reader
    NoRole = NoRole
    MaxRetries = 1
    MaxReconnects = 2
    MaxReauth = 0
    MaxBlocks = 0
    MaxOps = 0
    Unordered = FALSE
    ResumeMayDrop = FALSE
    MaxRoleChanges = 2
PROPERTY ImplementsLiveLog
CHECK_DEADLOCK FALSE
