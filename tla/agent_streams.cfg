SPECIFICATION AgentSpec
CONSTANTS
    Owners = {alice, bob}
    Admin = root
    NoOwner = nobody
    MaxStreams = 2
    MaxCalls = 1
    MaxObjects = 2
    QueueCap = 1
    Ops = {"edit", "delete"}
    Cases <- SmallCases
    Duration = 3
    MinGap = 3
    Holds = {1, 4}
INVARIANTS  LastingDecided
PROPERTY TransitionsBacked
CHECK_DEADLOCK FALSE
