SPECIFICATION Spec
CONSTANTS
    Users = {alice, bob}
    NoUser = nouser
    Workers = {w1, w2}
    Clients = {agent}
    Agent = agent
    MaxTransfers = 1
    MaxRestarts = 0
    Ops = {"move", "edit"}
INVARIANT NewestRowDecidesOwner
