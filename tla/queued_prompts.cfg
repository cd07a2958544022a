SPECIFICATION FairQueueSpec
CONSTANTS
    None = None
    Actions = {r1}
    Kind <- KindOf
    MAX_RETRIES = 1
    MaxCalls = 1
    MaxQueries = 2
    MaxStops = 2
    Prompts = {p1}
    ShellCommands = {s1}
INVARIANTS QueueTypeOK
PROPERTIES FiresAlone QueueDrains
CHECK_DEADLOCK FALSE
