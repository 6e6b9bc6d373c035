SPECIFICATION AccessSpec
CONSTANTS
    Owners = {alice, bob}
    Admin = root
    MaxUrls = 1
    MaxRedeemers = 2
    MaxCalls = 1
    MaxEpoch = 2
    SaveFails = {"disabling"}
    FirstOwner = alice
    Providers = {github}
    OpenIds = {1, 2}
    MaxSessions = 2
    MaxRequests = 2
    OverlappingUpdates = FALSE
    MaxExchanges = 3
    MaxAccesses = 1
    MaxRotations = 1
    MaxDisables = 1
INVARIANTS KillSwitchComplete DisabledHoldsNothing
PROPERTIES
     ImplementsOneTimeURL
    SessionsOfPassword LetInWasValid
CHECK_DEADLOCK FALSE
