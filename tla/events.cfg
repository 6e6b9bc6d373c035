SPECIFICATION DeliverySpec
CONSTANTS
    Recipients = {mail, chat}
    Kinds = {"service", "always", "latency"}
    MaxSenders = 2
    MaxEvents = 3
    MaxEdits = 1
    MaxExpiries = 1
INVARIANT MuteOfEpisode
PROPERTIES PhasesInOrder LatestReaches
CHECK_DEADLOCK FALSE
