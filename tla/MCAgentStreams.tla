--------------------------- MODULE MCAgentStreams ---------------------------
(* Small instances of what the dashboard makes of an agent's two streams:    *)
(* the tasks sent over one (TaskDelivery), and the alert rules that judge    *)
(* the reports of the other (AlertEvaluation). They share no state, so a     *)
(* behaviour runs one of them.                                               *)
EXTENDS TaskDelivery, AlertEvaluation

VARIABLE part   \* "tasks" or "reports"; never changes
agentVars == <<vars, alertVars, part>>

(* One condition on a metric that is measured or missing, an offline rule,   *)
(* and a cycle condition joined with a metric.                               *)
Metric == [rule |-> <<"metric">>, reports |-> {<<"pass">>, <<"fail">>}, late |-> 0]
Missing == [rule |-> <<"metric">>, reports |-> {<<"none">>, <<"fail">>}, late |-> 1]
Absence == [rule |-> <<"offline">>, reports |-> {<<"pass">>}, late |-> 1]
Compound == [rule |-> <<"cycle", "metric">>, reports |-> {<<"pass", "fail">>, <<"fail", "fail">>}, late |-> 0]
SmallCases == {Metric, Missing, Absence, Compound}

(* The owners are alike, so the first one may be any of them. *)
PartsInit ==
    /\ Init /\ owner = CHOOSE u \in Owners : TRUE
    /\ AlertInit /\ part \in {"tasks", "reports"} /\ (part = "tasks" => case = Absence)
PartsNext ==
    /\ UNCHANGED part
    /\ \/ part = "tasks" /\ Next /\ UNCHANGED alertVars
       \/ part = "reports" /\ AlertNext /\ UNCHANGED vars

(* Where edits are the question, tasks carry no guard of an owner; what a    *)
(* guard does is asked by TasksSpec.                                         *)
AgentNext == PartsNext /\ \A c \in Calls : guard'[c] \in {guard[c], NoOwner}
AgentSpec == PartsInit /\ [][AgentNext]_agentVars

(* Only the tasks, guarded ones too, with the fairness of what sends them.   *)
TasksInit == PartsInit /\ part = "tasks"
TasksSpec == TasksInit /\ [][PartsNext]_agentVars /\ Fairness
=============================================================================
