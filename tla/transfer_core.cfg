SPECIFICATION Spec
CONSTANTS
    Users = {alice, bob}
    NoUser = nouser
    Workers = {w1, w2}
    Clients = {agent}
    Agent = agent
    MaxTransfers = 2
    MaxRestarts = 0
    Ops = {"move", "retry", "cancel", "timeout", "fail", "drop", "dberr", "old", "expire"}
INVARIANTS
    OnePendingRow
    
    NewestRowDecidesOwner
    NoRollbackBehindTransfer
 
