SPECIFICATION TasksSpec
CONSTANTS
    Owners = {alice, bob}
    Admin = root
    NoOwner = nobody
    MaxStreams = 1
    MaxCalls = 2
    MaxObjects = 1
    QueueCap = 1
    Ops = {}
    Cases <- SmallCases
    Duration = 3
    MinGap = 3
    Holds = {1, 4}
INVARIANT OwnerDuringSend
  
