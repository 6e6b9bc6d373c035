SPECIFICATION Spec
CONSTANTS
    Users = {alice, bob}
    NoUser = nouser
    Workers = {w1, w2}
    Clients = {agent}
    Agent = agent
    MaxTransfers = 2
    MaxRestarts = 1
    Ops = {"move", "retry", "cancel", "timeout", "drop", "restart", "dberr"}
INVARIANTS
    
    LongTermCredentialProven
    
PROPERTY ImplementsLedger
