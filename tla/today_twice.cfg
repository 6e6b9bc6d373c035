SPECIFICATION MonitorSpec
CONSTANTS
    Days = 3
    DayLength = 2
    MaxClock = 4
    MaxReports = 2
    MaxQueue = 1
    MaxStarts = 1
INVARIANT TodayOnce
