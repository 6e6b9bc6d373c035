-------------------------- MODULE ServiceMonitoring --------------------------
(* One service monitor without the time series store: the reports its agent *)
(* sends, the worker that counts them (servicesentinel.go), the table of    *)
(* daily counts that LoadStats brings up to date and midnight shifts, the    *)
(* history rows of fifteen minutes each, edits and deletion through the      *)
(* endpoints, and restarts. Successes and failures go through the same       *)
(* statements, so one count stands for either.                               *)
EXTENDS Naturals, FiniteSetsExt

CONSTANTS
    Days,          \* columns of the table; the last one is today
    DayLength,     \* ticks a day; a tick is the fifteen minutes of a history row
    MaxClock,       \* bound: the clock
    MaxReports,    \* bound: reports accepted
    MaxQueue,      \* capacity of serviceReportChannel
    MaxStarts    \* bound: restarts

ASSUME MonitoringAssumption ==
    /\ {Days, DayLength} \subseteq Nat \ {0}
    /\ {MaxClock, MaxReports, MaxQueue, MaxStarts} \subseteq Nat

Columns == 1 .. Days
Unset == MaxClock + 1   \* a zero lastHistoryAt
Day(t) == t \div DayLength

VARIABLES
    clock, starts,               \* the clock; restarts so far
    stored, registered, admits,  \* the row; ss.services; its cover admits the reporter
    editor, deleter,             \* positions of updateService and batchDeleteService
    channel, worker,             \* serviceReportChannel; the worker's position
    today, days, total,          \* serviceStatusToday; Up and TotalUp of the table
    current,                     \* the service is a key of serviceResponseDataStore
    period, periodStart,         \* history and lastHistoryAt of the running period
    history,                     \* service_histories: counts by the day of created_at
    refresh, loaded,             \* the daily job; LoadStats has run since start-up
    carried, accepted            \* history: added at start-up; accepted and not lost

registry == <<stored, registered, admits>>
handlers == <<editor, deleter>>
table == <<today, days, total, current>>
periods == <<period, periodStart, history>>
monitorVars == <<clock, starts, registry, handlers, channel, worker, table, periods, refresh, loaded, carried, accepted>>

NoDays == [d \in Columns |-> 0]
Sum(counts, S) == MapThenSumSet(LAMBDA d : counts[d], S)

MonitorInit ==
    /\ clock = 0 /\ starts = 0
    /\ stored = TRUE /\ registered = TRUE /\ admits = TRUE
    /\ editor = "idle" /\ deleter = "idle" /\ channel = 0 /\ worker = "idle"
    /\ today = 0 /\ days = NoDays /\ total = 0 /\ current = FALSE
    /\ period = 0 /\ periodStart = Unset /\ history = [d \in 0 .. Day(MaxClock) |-> 0]
    /\ refresh = "idle" /\ loaded = FALSE /\ carried = 0 /\ accepted = 0

-----------------------------------------------------------------------------
(* Reports. *)

Dispatch ==
    /\ channel < MaxQueue /\ channel' = channel + 1
    /\ UNCHANGED <<clock, starts, registry, handlers, worker, table, periods, refresh, loaded, carried, accepted>>

CanReport == registered /\ admits   \* canReportServiceResult of the registered service

Validate ==
    /\ worker = "idle" /\ channel > 0 /\ channel' = channel - 1
    /\ worker' = IF CanReport THEN "validated" ELSE "idle"
    /\ UNCHANGED <<clock, starts, registry, handlers, table, periods, refresh, loaded, carried, accepted>>

(* The report opens a period, joins it, or closes the one that is fifteen    *)
(* minutes old; a row that cannot be written keeps its period open.          *)
FlushResetting ==   \* mutant: the period is reset although its row was not written
    IF periodStart = Unset \/ clock < periodStart + 1
    THEN period' = period + 1 /\ periodStart' = (IF periodStart = Unset THEN clock ELSE periodStart) /\ UNCHANGED history
    ELSE \/ history' = [history EXCEPT ![Day(periodStart)] = @ + period] /\ period' = 1 /\ periodStart' = clock
         \/ UNCHANGED history /\ period' = 1 /\ periodStart' = clock
FlushServiceHistory ==
    IF periodStart = Unset \/ clock < periodStart + 1
    THEN period' = period + 1 /\ periodStart' = (IF periodStart = Unset THEN clock ELSE periodStart) /\ UNCHANGED history
    ELSE \/ history' = [history EXCEPT ![Day(periodStart)] = @ + period] /\ period' = 1 /\ periodStart' = clock
         \/ period' = period + 1 /\ UNCHANGED <<history, periodStart>>

(* An edit or the deletion may have come between the validation and the lock. *)
ProcessReport ==
    /\ worker = "validated" /\ worker' = "idle"
    /\ \/ ~CanReport /\ UNCHANGED <<today, current, periods, accepted>>
       \/ /\ CanReport /\ accepted < MaxReports
          /\ FlushServiceHistory /\ today' = today + 1 /\ current' = TRUE /\ accepted' = accepted + 1
    /\ UNCHANGED <<clock, starts, registry, handlers, channel, days, total, refresh, loaded, carried>>

-----------------------------------------------------------------------------
(* The table of days. *)

BroughtUpAdding == total' = total + today /\ days' = [days EXCEPT ![Days] = today]   \* mutant
BroughtUp == IF registered
             THEN total' = total - days[Days] + today /\ days' = [days EXCEPT ![Days] = today]
             ELSE UNCHANGED <<total, days>>

LoadStats ==
    /\ BroughtUp /\ loaded' = TRUE
    /\ UNCHANGED <<clock, starts, registry, handlers, channel, worker, today, current, periods, refresh, carried, accepted>>

RefreshLoadsStats ==
    /\ refresh = "due" /\ refresh' = "shift" /\ BroughtUp /\ loaded' = TRUE
    /\ UNCHANGED <<clock, starts, registry, handlers, channel, worker, today, current, periods, carried, accepted>>

RefreshMonthlyServiceStatus ==
    /\ refresh = "shift" /\ refresh' = "idle"
    /\ IF registered
       THEN /\ total' = total - days[1] /\ today' = 0 /\ current' = TRUE
            /\ days' = [d \in Columns |-> IF d = Days THEN 0 ELSE days[d + 1]]
       ELSE UNCHANGED table
    /\ UNCHANGED <<clock, starts, registry, handlers, channel, worker, periods, loaded, carried, accepted>>

(* The clock; at midnight the daily job starts, the last one being done. *)
ClockTicks ==
    /\ clock < MaxClock /\ clock' = clock + 1
    /\ IF Day(clock') # Day(clock) THEN refresh = "idle" /\ refresh' = "due" ELSE UNCHANGED refresh
    /\ UNCHANGED <<starts, registry, handlers, channel, worker, table, periods, loaded, carried, accepted>>

-----------------------------------------------------------------------------
(* The endpoints: an edit reads the row, saves what it made of it, which     *)
(* inserts a row that is gone, and registers it; a deletion removes the row  *)
(* and then the registered service.                                          *)

ReadService ==
    /\ editor = "idle" /\ stored /\ editor' = "read"
    /\ UNCHANGED <<clock, starts, registry, deleter, channel, worker, table, periods, refresh, loaded, carried, accepted>>

SaveService ==
    /\ editor = "read" /\ editor' = "saved" /\ stored' = TRUE
    /\ UNCHANGED <<clock, starts, registered, admits, deleter, channel, worker, table, periods, refresh, loaded, carried, accepted>>

UpdateService ==
    /\ editor = "saved" /\ editor' = "idle"
    /\ \/ UNCHANGED <<registered, admits, table, carried>>   \* no job could be added
       \/ /\ registered' = TRUE /\ admits' \in BOOLEAN
          /\ IF registered THEN UNCHANGED <<table, carried>>
             ELSE /\ today' = 0 /\ days' = NoDays /\ total' = 0 /\ carried' = 0 /\ UNCHANGED current
    /\ UNCHANGED <<clock, starts, stored, deleter, channel, worker, periods, refresh, loaded, accepted>>

DeleteServiceRow ==
    /\ deleter = "idle" /\ stored /\ deleter' = "gone" /\ stored' = FALSE
    /\ UNCHANGED <<clock, starts, registered, admits, editor, channel, worker, table, periods, refresh, loaded, carried, accepted>>

DeleteService ==
    /\ deleter = "gone" /\ deleter' = "idle" /\ registered' = FALSE
    /\ today' = 0 /\ days' = NoDays /\ total' = 0 /\ current' = FALSE /\ carried' = 0
    /\ period' = 0 /\ periodStart' = Unset /\ accepted' = accepted - period
    /\ UNCHANGED <<clock, starts, stored, admits, editor, channel, worker, history, refresh, loaded>>

(* A restart forgets the running period and reads the rows back: those of    *)
(* the days before into the table, those of today into today's counts and    *)
(* into the total.                                                           *)
OfColumn(d) == {t \in DOMAIN history : t + Days = Day(clock) + d /\ d < Days}
RestartSentinel ==
    /\ starts < MaxStarts /\ starts' = starts + 1
    /\ registered' = stored /\ editor' = "idle" /\ deleter' = "idle"
    /\ channel' = 0 /\ worker' = "idle" /\ refresh' = "idle" /\ loaded' = FALSE
    /\ current' = FALSE /\ period' = 0 /\ periodStart' = Unset /\ accepted' = accepted - period
    /\ IF stored
       THEN /\ today' = history[Day(clock)] /\ carried' = today'
            /\ days' = [d \in Columns |-> Sum(history, OfColumn(d))]
            /\ total' = Sum(days', Columns) + today'
       ELSE today' = 0 /\ carried' = 0 /\ days' = NoDays /\ total' = 0
    /\ UNCHANGED <<clock, stored, admits, history>>

MonitorNext ==
    \/ Dispatch \/ Validate \/ ProcessReport
    \/ LoadStats \/ RefreshLoadsStats \/ RefreshMonthlyServiceStatus \/ ClockTicks
    \/ ReadService \/ SaveService \/ UpdateService \/ DeleteServiceRow \/ DeleteService \/ RestartSentinel
MonitorSpec == MonitorInit /\ [][MonitorNext]_monitorVars

-----------------------------------------------------------------------------
(* What LoadStats goes through is registered, so a report that was validated *)
(* before the deletion leaves no nil pointer to follow, and its 30-day total *)
(* is what the days add up to and what start-up read of the day that was     *)
(* running: no call of LoadStats, no shift at midnight, edit or report adds  *)
(* a probe twice or takes one away.                                          *)
TotalsAdd == registered \/ current => registered /\ total = Sum(days, Columns) + carried

(* Once LoadStats has run, the total is what the days add up to: the counts  *)
(* of today are not counted twice.                                           *)
TodayOnce == registered /\ loaded => total = Sum(days, Columns)

(* Every accepted report is in exactly one history row or in the running     *)
(* period, whatever gaps there are and whichever writes fail.                *)
HistoryExact == Sum(history, DOMAIN history) + period = accepted
=============================================================================
