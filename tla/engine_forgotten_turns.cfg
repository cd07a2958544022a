SPECIFICATION Spec
CONSTANTS
    Turns = {1, 2}
    Calls = {1, 2}
    KnownCalls <- AllButOne
    Backends = {"anthropic", "openai", "acp"}
    MaxParts = 2
INVARIANT EveryTurnPresented
CHECK_DEADLOCK FALSE
