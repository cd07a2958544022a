SPECIFICATION Spec
CONSTANTS
    None = None
    Commands = {c1, c2}
    Reads = {r1, r2}
    Actions <- AllCalls
    Kind <- KindOf
    MAX_RETRIES = 1
    MaxCalls = 2
    MaxQueries = 1
    MaxStops = 0
PROPERTY FollowUpAnswersEveryCall
CHECK_DEADLOCK FALSE
