SPECIFICATION FairSpec
CONSTANTS
    Sessions = {s1}
    Calls = {c1}
    Requests = {r1}
    Abort = Abort
    None = None
    Hosts = {h1}
    MAX_RECONNECT_ATTEMPTS = 2
PROPERTY LostConnectionNoticed
CHECK_DEADLOCK FALSE
