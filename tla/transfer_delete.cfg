SPECIFICATION Spec
CONSTANTS
    Users = {alice, bob}
    NoUser = nouser
    Workers = {w1}
    Clients = {agent, other}
    Agent = agent
    MaxTransfers = 2
    MaxRestarts = 0
    Ops = {"move", "cancel", "drop", "deleteServer", "deleteUser", "edit"}
INVARIANT NoOrphanPending
PROPERTIES  DestinationHeldOut
