---------------------------- MODULE MCMonitoring ----------------------------
(* Small instances of what watches the servers: the online history, a        *)
(* service monitor and a task. The three share no state, so a behaviour runs *)
(* one of them and leaves the others as they were; of the task, edits that   *)
(* overlap and triggers that overlap take turns.                             *)
EXTENDS OnlineHistory, ServiceMonitoring, CronTasks

VARIABLE part   \* "online", "service", "edits" or "triggers"; never changes
watchers == <<historyVars, monitorVars, cronVars, part>>

PartsInit ==
    /\ HistoryInit /\ MonitorInit /\ CronInit
    /\ part \in {"online", "service", "edits", "triggers"}
    /\ part # "triggers" => fault = "none"
    /\ part \in {"online", "service"} => scheduled = {}

EditsNext ==
    /\ part = "edits" /\ CronNext
    /\ \A t \in Triggers \ {1} : trigger'[t] = "none"
TriggersNext ==
    /\ part = "triggers" /\ CronNext
    /\ \A v \in Versions \ {1} : step'[v] = "none"

PartsNext ==
    /\ UNCHANGED part
    /\ \/ part = "online" /\ HistoryNext /\ UNCHANGED <<monitorVars, cronVars>>
       \/ part = "service" /\ MonitorNext /\ UNCHANGED <<historyVars, cronVars>>
       \/ (EditsNext \/ TriggersNext) /\ UNCHANGED <<historyVars, monitorVars>>

MonitoringSpec == PartsInit /\ [][PartsNext]_watchers /\ HistoryFairness
=============================================================================
