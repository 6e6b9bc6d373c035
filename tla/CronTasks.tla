------------------------------ MODULE CronTasks ------------------------------
(* One task and the scheduler (singleton/crontask.go): edits and deletion by *)
(* the endpoints (controller/cron.go), which register a job before the row   *)
(* is saved, and the authorizations by which results of alert-triggered      *)
(* commands are accepted from the agent (CanReportCronResult).               *)
EXTENDS Naturals, FiniteSets

CONSTANTS
    MaxVersions,   \* bound: the first version and its edits
    MaxTriggers,   \* bound: alerts that trigger the task
    CronFaults         \* "none", "late": a command arrives although its send fails,
                   \* "expire": a result takes more than 24 hours

ASSUME CronAssumption ==
    /\ {MaxVersions, MaxTriggers} \subseteq Nat \ {0}
    /\ CronFaults \subseteq {"none", "late", "expire"} /\ CronFaults # {}

Versions == 1 .. MaxVersions   \* an edit's version names its handler, too
Triggers == 1 .. MaxTriggers
NoTask == 0

VARIABLES
    row, task,        \* the version in the database; the one in CronShared.list
    scheduled,        \* versions of a scheduled task; the others are alert-triggered
    jobs, committed,  \* versions whose job is in the scheduler; committed flags
    step, deletion,    \* positions of updateCron, by version, and of batchDeleteCron
    trigger,          \* the goroutines of SendTriggerTasks
    authorized,       \* pendingAlertTriggerTasks: how many results are authorized
    arrived,          \* commands the agent has
    fault,            \* what goes wrong; never changes
    ran, durable,     \* history: versions a job has sent, versions ever saved
    refused           \* history: triggers whose result was refused

tasks == <<row, task, scheduled, jobs, committed, step, deletion>>
results == <<trigger, authorized, arrived, fault, refused>>
cronVars == <<tasks, results, ran, durable>>

CronInit ==
    /\ row = 1 /\ task = 1 /\ scheduled \in {{}, {1}} /\ jobs = scheduled /\ committed = {1}
    /\ step = [v \in Versions |-> IF v = 1 THEN "done" ELSE "none"] /\ deletion = "idle"
    /\ trigger = [t \in Triggers |-> "none"] /\ authorized = 0 /\ arrived = {} /\ fault \in CronFaults
    /\ ran = {} /\ durable = {1} /\ refused = {}

-----------------------------------------------------------------------------
(* updateCron: the row is read, the new version's job registered, the row    *)
(* saved - which inserts one that is gone - or the job removed again, the    *)
(* cached task replaced, its authorizations dropped, and the job let run.    *)

ReadCron(v) ==
    /\ step[v] = "none" /\ (\A u \in Versions : u < v => step[u] # "none") /\ row # NoTask
    /\ step' = [step EXCEPT ![v] = "read"]
    /\ UNCHANGED <<row, task, scheduled, jobs, committed, deletion, results, ran, durable>>

RegisterJob(v) ==
    /\ step[v] = "read"
    /\ \/ step' = [step EXCEPT ![v] = "done"] /\ UNCHANGED <<scheduled, jobs>>   \* no such schedule
       \/ step' = [step EXCEPT ![v] = "registered"] /\ UNCHANGED <<scheduled, jobs>>
       \/ /\ step' = [step EXCEPT ![v] = "registered"]
          /\ scheduled' = scheduled \cup {v} /\ jobs' = jobs \cup {v}
    /\ UNCHANGED <<row, task, committed, deletion, results, ran, durable>>

SaveCron(v) ==
    /\ step[v] = "registered"
    /\ \/ row' = v /\ durable' = durable \cup {v} /\ step' = [step EXCEPT ![v] = "saved"] /\ UNCHANGED jobs
       \/ step' = [step EXCEPT ![v] = "done"] /\ jobs' = jobs \ {v} /\ UNCHANGED <<row, durable>>
    /\ UNCHANGED <<task, scheduled, committed, deletion, results, ran>>

UpdateOfRead(v) ==   \* mutant: the job of the version that was read is removed, not of the cached one
    /\ step[v] = "saved" /\ step' = [step EXCEPT ![v] = "updated"]
    /\ jobs' = jobs \ {v - 1} /\ task' = v
    /\ UNCHANGED <<row, scheduled, committed, deletion, results, ran, durable>>
UpdateTask(v) ==
    /\ step[v] = "saved" /\ step' = [step EXCEPT ![v] = "updated"]
    /\ jobs' = jobs \ {task} /\ task' = v
    /\ UNCHANGED <<row, scheduled, committed, deletion, results, ran, durable>>

Commit(v) ==
    /\ step[v] = "updated" /\ step' = [step EXCEPT ![v] = "done"]
    /\ authorized' = 0 /\ committed' = committed \cup {v}
    /\ UNCHANGED <<row, task, scheduled, jobs, deletion, trigger, arrived, fault, refused, ran, durable>>

DeleteCronRow ==
    /\ deletion = "idle" /\ deletion' = "gone" /\ row' = NoTask
    /\ UNCHANGED <<task, scheduled, jobs, committed, step, results, ran, durable>>

DeleteTask ==
    /\ deletion = "gone" /\ deletion' = "removed" /\ jobs' = jobs \ {task} /\ task' = NoTask
    /\ UNCHANGED <<row, scheduled, committed, step, results, ran, durable>>

DeleteAuthorizations ==
    /\ deletion = "removed" /\ deletion' = "done" /\ authorized' = 0
    /\ UNCHANGED <<row, task, scheduled, jobs, committed, step, trigger, arrived, fault, refused, ran, durable>>

(* The scheduler runs a job: nothing happens before its row is committed. *)
RunJob(v) ==
    /\ v \in (jobs \cap committed) \ ran /\ ran' = ran \cup {v} /\ UNCHANGED <<tasks, results, durable>>

-----------------------------------------------------------------------------
(* An alert triggers the task: the task is looked up, a result authorized    *)
(* before the command is sent, and the authorization taken back when the     *)
(* send fails. The agent may report while the send has not returned yet.     *)

SendTriggerTasks(t) ==
    /\ trigger[t] = "none" /\ task # NoTask /\ task \notin scheduled
    /\ trigger' = [trigger EXCEPT ![t] = "taken"]
    /\ UNCHANGED <<tasks, authorized, arrived, fault, refused, ran, durable>>

ReserveLater(t) ==   \* mutant: the result is authorized once the send has returned
    /\ trigger[t] = "taken" /\ trigger' = [trigger EXCEPT ![t] = "send"]
    /\ UNCHANGED <<tasks, authorized, arrived, fault, refused, ran, durable>>
Reserve(t) ==
    /\ trigger[t] = "taken"
    /\ \/ trigger' = [trigger EXCEPT ![t] = "send"] /\ authorized' = authorized + 1
       \/ trigger' = [trigger EXCEPT ![t] = "over"] /\ UNCHANGED authorized   \* offline, or not the owner's
    /\ UNCHANGED <<tasks, arrived, fault, refused, ran, durable>>

Arrives(t) ==
    /\ trigger[t] = "send" \/ (trigger[t] = "failed" /\ fault = "late")
    /\ t \notin arrived /\ arrived' = arrived \cup {t}
    /\ UNCHANGED <<tasks, trigger, authorized, fault, refused, ran, durable>>

SendTaskGuarded(t) ==
    /\ trigger[t] = "send"
    /\ \/ trigger' = [trigger EXCEPT ![t] = "over"] /\ t \in arrived
       \/ trigger' = [trigger EXCEPT ![t] = "failed"] /\ (t \notin arrived \/ fault = "late")
    /\ UNCHANGED <<tasks, authorized, arrived, fault, refused, ran, durable>>

Revoke(t) ==
    /\ trigger[t] = "failed" /\ trigger' = [trigger EXCEPT ![t] = "over"]
    /\ authorized' = IF authorized = 0 THEN 0 ELSE authorized - 1
    /\ UNCHANGED <<tasks, arrived, fault, refused, ran, durable>>

Consumable == task # NoTask /\ task \notin scheduled /\ authorized > 0
ReportResult(t) ==
    /\ t \in arrived /\ trigger[t] \in {"send", "failed", "over"}
    /\ arrived' = arrived \ {t}
    /\ \/ Consumable /\ authorized' = authorized - 1 /\ UNCHANGED refused
       \/ ~Consumable /\ refused' = refused \cup {t} /\ UNCHANGED authorized
    /\ trigger' = [trigger EXCEPT ![t] = IF @ = "send" THEN "answered" ELSE @]
    /\ UNCHANGED <<tasks, fault, ran, durable>>

SendReturns(t) ==   \* the send of a command that has been answered
    /\ trigger[t] = "answered"
    /\ \/ trigger' = [trigger EXCEPT ![t] = "over"]
       \/ fault = "late" /\ trigger' = [trigger EXCEPT ![t] = "failed"]
    /\ UNCHANGED <<tasks, authorized, arrived, fault, refused, ran, durable>>

AuthorizationExpires ==
    /\ fault = "expire" /\ authorized > 0 /\ authorized' = authorized - 1
    /\ UNCHANGED <<tasks, trigger, arrived, fault, refused, ran, durable>>

EditStep(v) == ReadCron(v) \/ RegisterJob(v) \/ SaveCron(v) \/ UpdateTask(v) \/ Commit(v)
TriggerStep(t) == SendTriggerTasks(t) \/ Reserve(t) \/ Arrives(t) \/ SendTaskGuarded(t)
                  \/ Revoke(t) \/ ReportResult(t) \/ SendReturns(t)
CronNext ==
    \/ \E v \in Versions : EditStep(v) \/ RunJob(v)
    \/ DeleteCronRow \/ DeleteTask \/ DeleteAuthorizations \/ AuthorizationExpires
    \/ \E t \in Triggers : TriggerStep(t)
CronSpec == CronInit /\ [][CronNext]_cronVars

-----------------------------------------------------------------------------
JobTypes ==
    /\ row \in Versions \cup {NoTask} /\ task \in Versions \cup {NoTask}
    /\ scheduled \subseteq Versions /\ jobs \subseteq Versions /\ committed \subseteq Versions
    /\ step \in [Versions -> {"none", "read", "registered", "saved", "updated", "done"}]
    /\ deletion \in {"idle", "gone", "removed", "done"} /\ ran \subseteq Versions /\ durable \subseteq Versions
ResultTypes ==
    /\ trigger \in [Triggers -> {"none", "taken", "send", "answered", "failed", "over"}]
    /\ authorized \in Nat /\ arrived \subseteq Triggers /\ fault \in CronFaults /\ refused \subseteq Triggers
CronTypeOK == JobTypes /\ ResultTypes

(* The scheduler holds the job of the cached task and of edits under way,    *)
(* and no other: edits that overlap, fail or meet a deletion leave no job    *)
(* behind that would send an old command for ever, and lose none. And no job *)
(* sends what was never saved, though it is registered before the row.       *)
JobsOfTasks ==
    /\ \A v \in jobs : task = v \/ step[v] \in {"registered", "saved"}
    /\ task \in scheduled => task \in jobs
    /\ ran \subseteq durable

(* While nobody edits or deletes the task and no answer is lost or late, the *)
(* result of a command that was sent is accepted, also when it arrives       *)
(* before the send has returned and when other sends fail meanwhile.         *)
Untouched == deletion = "idle" /\ \A v \in Versions : v # 1 => step[v] \in {"none", "read", "registered"}
SentResultsAccepted == fault = "none" /\ Untouched => Cardinality(arrived) <= authorized /\ refused = {}
=============================================================================
