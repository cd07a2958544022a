SPECIFICATION Spec
CONSTANTS
    Sessions = {s1, s2}
    Calls = {c1}
    Requests = {r1}
    Abort = Abort
    None = None
    Hosts = {h1, h2}
    MAX_RECONNECT_ATTEMPTS = 2
SYMMETRY Alike
INVARIANTS TypeOK NoCallOutlivesReader HostsTracked NoRequestWithoutHost NobodyForgotten
PROPERTY StaysDeregistered
CHECK_DEADLOCK FALSE
