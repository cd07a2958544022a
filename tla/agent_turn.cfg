SPECIFICATION Spec
CONSTANTS
    None = None
    Commands = {c1, c2}
    Reads = {r1, r2}
    Actions <- AllCalls
    Kind <- KindOf
    MAX_RETRIES = 1
    MaxCalls = 2
    MaxQueries = 2
    MaxStops = 1
SYMMETRY CallSymmetry
INVARIANTS TypeOK OneResultPerCall PhaseBarrier InProgressMovesOn ReconnectingHasARecovery
PROPERTY FollowUpInCallOrder
CHECK_DEADLOCK FALSE
