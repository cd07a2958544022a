SPECIFICATION FairSpec
CONSTANTS
    Turns = {1, 2}
    Calls = {1, 2}
    KnownCalls <- AllButOne
    Backends = {"anthropic", "openai", "acp"}
    MaxParts = 2
INVARIANTS TypeOK AnswersOwnPrompt ClientFollows
PROPERTY ImplementsResponseContract
PROPERTY EveryTurnEnds
ACTION_CONSTRAINT SilentOnceStopped
CHECK_DEADLOCK FALSE
