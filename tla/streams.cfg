SPECIFICATION PartsSpec
CONSTANTS
    Owners = {alice, bob}
    Admin = root
    FirstOwner = alice
    MaxStreams = 2
    MaxSessions = 2
    MaxConns = 2
    Tokens = {pat}
    UserCap = 1
    ServerCap = 2
INVARIANTS PipesOfOwner RevokedTokenCut
 
CHECK_DEADLOCK FALSE
