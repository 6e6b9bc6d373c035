SPECIFICATION MonitoringSpec
CONSTANTS
    Window = 1
    MaxTime = 3
    MaxRows = 3
    MaxLeases = 2
    MaxRestarts = 1
    Faults = {"read", "write"}
    Days = 3
    DayLength = 2
    MaxClock = 4
    MaxReports = 3
    MaxQueue = 1
    MaxStarts = 1
    MaxVersions = 3
    MaxTriggers = 2
    CronFaults = {"none", "late", "expire"}
INVARIANTS
     OfflineNotCounted
    TotalsAdd HistoryExact 
    JobsOfTasks SentResultsAccepted
CHECK_DEADLOCK FALSE
PROPERTY OverSessionsClose
