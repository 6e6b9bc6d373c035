---------------------------- MODULE TaskDelivery ----------------------------
(* How tasks reach one agent: the task streams it opens, the Server objects  *)
(* that publish them (model/server.go), the sends and queues of a stream     *)
(* (model/agent_task_delivery.go), the RequestTask handler that keeps a      *)
(* stream alive (service/rpc/nezha.go), and the control lease that a guarded *)
(* send holds (service/singleton/server_control.go).                         *)
EXTENDS Naturals, Sequences, FiniteSets

CONSTANTS
    Owners,          \* users that may own the server
    Admin, NoOwner,  \* the guard of an administrator's task, and of no one's
    MaxStreams,      \* bound: RequestTask calls of the agent
    MaxCalls,        \* bound: tasks sent or queued
    MaxObjects,      \* bound: Server objects published by edits
    QueueCap,        \* maxQueuedAgentTasks
    Ops              \* "edit", "editRace", "delete": what happens besides

ASSUME BoundsAssumption ==
    MaxStreams \in Nat /\ MaxCalls \in Nat /\ MaxObjects \in Nat \ {0} /\ QueueCap \in Nat
ASSUME OwnersAssumption == Owners # {} /\ NoOwner \notin Owners /\ Admin \notin Owners \cup {NoOwner}

None == 0   \* no stream, call or object
Streams == 1 .. MaxStreams
Calls == 1 .. MaxCalls
Objects == 1 .. MaxObjects
Guards == Owners \cup {Admin, NoOwner}

VARIABLES
    \* the Server objects
    current,  \* the one in ServerShared, None when the server is deleted
    last,     \* the newest one
    draft,    \* the one an edit has filled and not published
    ptr,      \* Server.taskStream; a holder is known by its stream
    \* each RequestTask call and its holder
    hpc, hobj,  \* the handler's position and captured object
    alive,      \* the stream's context is not done
    failed, permit, queue,
    drain, job, \* the draining worker: running, and the call it is in
    \* each send: the caller, its goroutine, its deadline
    call, hold, guard, go,
    \* ownership under the control lock
    owner, moving,  \* Server.UserID, ServerControlTransitioning
    leases,         \* calls that hold the read lock
    waiting         \* handlers whose rollback waits for the write lock

objects == <<current, last, draft, ptr>>
handlers == <<hpc, hobj>>
holder == <<permit, queue, drain, job>>
sends == <<call, hold, guard, go>>
control == <<owner, moving, leases, waiting>>
vars == <<objects, handlers, alive, failed, holder, sends, control>>

Init ==
    /\ current = 1 /\ last = 1 /\ draft = None /\ ptr = [o \in Objects |-> None]
    /\ hpc = [s \in Streams |-> "off"] /\ hobj = [s \in Streams |-> None]
    /\ alive = [s \in Streams |-> FALSE] /\ failed = alive
    /\ permit = [s \in Streams |-> None] /\ queue = [s \in Streams |-> <<>>]
    /\ drain = [s \in Streams |-> FALSE] /\ job = [s \in Streams |-> None]
    /\ call = [c \in Calls |-> "new"] /\ hold = [c \in Calls |-> None]
    /\ guard = [c \in Calls |-> NoOwner] /\ go = [c \in Calls |-> "none"]
    /\ owner \in Owners /\ moving = FALSE /\ leases = {} /\ waiting = {}

Fail(S) == failed' = [s \in Streams |-> failed[s] \/ s \in S]
GoTo(c, next) == call' = [call EXCEPT ![c] = next]
Run(c, next) == go' = [go EXCEPT ![c] = next]

-----------------------------------------------------------------------------
(* The RequestTask handler.                                                  *)

Handler(s, here, next) == hpc[s] \in here /\ hpc' = [hpc EXCEPT ![s] = next]

(* A configuration without "editRace" keeps the two halves of an edit and    *)
(* the two halves of attaching or detaching a stream apart.                  *)
NoDraft == "editRace" \in Ops \/ draft = None
NoHandover == "editRace" \in Ops \/ \A s \in Streams : hpc[s] \notin {"attach", "detach"}

RequestTask(s) ==
    /\ Handler(s, {"off"}, "attach") /\ current # None /\ NoDraft
    /\ \A r \in Streams : r < s => hpc[r] # "off"
    /\ hobj' = [hobj EXCEPT ![s] = current] /\ alive' = [alive EXCEPT ![s] = TRUE]
    /\ UNCHANGED <<objects, failed, holder, sends, control>>

SetTaskStream(s) ==
    /\ Handler(s, {"attach"}, "watch")
    /\ ptr' = [ptr EXCEPT ![hobj[s]] = s] /\ Fail({ptr[hobj[s]]})
    /\ UNCHANGED <<current, last, draft, hobj, alive, holder, sends, control>>

(* A holder that is no longer published counts as failed. *)
TaskStreamFailure(s) ==
    /\ Handler(s, {"watch"}, IF ptr[hobj[s]] = s THEN "serve" ELSE "clear")
    /\ UNCHANGED <<objects, hobj, alive, failed, holder, sends, control>>

Published(s) == current # None /\ ptr[current] = s

(* A result ends the handler when its stream is not the cached object's; the *)
(* report that a transfer failed starts a rollback beside the handler.       *)
Receive(s) ==
    /\ alive[s]
    /\ \/ /\ ~Published(s)
          /\ Handler(s, {"serve"}, "clear") /\ UNCHANGED waiting
       \/ /\ Published(s) /\ moving /\ s \notin waiting
          /\ Handler(s, {"serve"}, "rollback") /\ waiting' = waiting \cup {s}
    /\ UNCHANGED <<objects, hobj, alive, failed, holder, sends, owner, moving, leases>>

RolledBack(s) ==
    /\ s \notin waiting /\ Handler(s, {"rollback"}, "serve")
    /\ UNCHANGED <<objects, hobj, alive, failed, holder, sends, control>>

LeaveServing(s) ==   \* mutant: a handler waits its rollback out
    /\ failed[s] \/ ~alive[s]
    /\ Handler(s, {"serve"}, "clear")
    /\ UNCHANGED <<objects, hobj, alive, failed, holder, sends, control>>
Leave(s) ==
    /\ failed[s] \/ ~alive[s]
    /\ Handler(s, {"serve", "rollback"}, "clear")
    /\ UNCHANGED <<objects, hobj, alive, failed, holder, sends, control>>

(* clearRequestTaskStream looks the cached object up, then detaches; the     *)
(* return of the handler cancels the stream's context.                       *)
FindCurrent(s) ==
    /\ Handler(s, {"clear"}, "detach") /\ NoDraft
    /\ hobj' = [hobj EXCEPT ![s] = IF current = None THEN hobj[s] ELSE current]
    /\ UNCHANGED <<objects, alive, failed, holder, sends, control>>

ClearTaskStream(s) ==   \* mutant: whatever stream is published
    /\ Handler(s, {"detach"}, "over")
    /\ ptr' = [ptr EXCEPT ![hobj[s]] = None] /\ Fail({s})
    /\ alive' = [alive EXCEPT ![s] = FALSE]
    /\ UNCHANGED <<current, last, draft, hobj, holder, sends, control>>
ClearTaskStreamIfCurrent(s) ==
    /\ Handler(s, {"detach"}, "over")
    /\ IF ptr[hobj[s]] = s THEN ptr' = [ptr EXCEPT ![hobj[s]] = None] /\ Fail({s})
         ELSE UNCHANGED <<ptr, failed>>
    /\ alive' = [alive EXCEPT ![s] = FALSE]
    /\ UNCHANGED <<current, last, draft, hobj, holder, sends, control>>

AgentDrop(s) ==
    /\ alive[s] /\ alive' = [alive EXCEPT ![s] = FALSE]
    /\ UNCHANGED <<objects, handlers, failed, holder, sends, control>>

-----------------------------------------------------------------------------
(* updateServer and batchDeleteServer.                                       *)

CopyFromRunningServer ==
    /\ "edit" \in Ops /\ current # None /\ draft = None /\ last < MaxObjects /\ NoHandover
    /\ last' = last + 1 /\ draft' = last' /\ ptr' = [ptr EXCEPT ![last'] = ptr[current]]
    /\ UNCHANGED <<current, handlers, alive, failed, holder, sends, control>>

Update ==
    /\ draft # None /\ current' = draft /\ draft' = None
    /\ UNCHANGED <<last, ptr, handlers, alive, failed, holder, sends, control>>

Delete ==
    /\ "delete" \in Ops /\ current # None /\ NoDraft /\ NoHandover /\ current' = None
    /\ UNCHANGED <<last, draft, ptr, handlers, alive, failed, holder, sends, control>>

-----------------------------------------------------------------------------
(* Sending and queueing. A task is guarded by the user whose server it is    *)
(* meant for; the guards Admin and NoOwner do not look at the owner.         *)

Offline(c) ==
    /\ \E o \in 1 .. last : o # draft /\ ptr[o] = None
    /\ GoTo(c, "over") /\ UNCHANGED <<holder, hold, guard>>
Load(c, s, g) ==
    /\ \E o \in 1 .. last : o # draft /\ ptr[o] = s
    /\ hold' = [hold EXCEPT ![c] = s] /\ guard' = [guard EXCEPT ![c] = g]
Fresh(c) == call[c] = "new" /\ \A d \in Calls : d < c => call[d] # "new"

SendTaskGuarded(c) ==
    /\ Fresh(c)
    /\ \/ Offline(c)
       \/ \E s \in Streams, g \in Guards :
            Load(c, s, g) /\ GoTo(c, "wait") /\ UNCHANGED holder
    /\ UNCHANGED <<objects, handlers, alive, failed, go, control>>

Enqueue(c, s) ==
    IF failed[s] \/ Len(queue[s]) = QueueCap
    THEN GoTo(c, "over") /\ UNCHANGED holder
    ELSE /\ GoTo(c, "queued")
         /\ queue' = [queue EXCEPT ![s] = Append(@, c)]
         /\ drain' = [drain EXCEPT ![s] = TRUE] /\ UNCHANGED <<permit, job>>
QueueTaskGuarded(c) ==
    /\ Fresh(c)
    /\ \/ Offline(c)
       \/ \E s \in Streams, g \in Guards : Load(c, s, g) /\ Enqueue(c, s)
    /\ UNCHANGED <<objects, handlers, alive, failed, go, control>>

Idle(s) == job[s] # None => call[job[s]] = "over"
DrainOnce(s) ==   \* mutant: the worker stops after a task
    /\ drain[s] /\ Idle(s)
    /\ IF queue[s] = <<>> \/ job[s] # None
         THEN /\ drain' = [drain EXCEPT ![s] = FALSE] /\ job' = [job EXCEPT ![s] = None]
              /\ UNCHANGED <<queue, call>>
         ELSE /\ job' = [job EXCEPT ![s] = Head(queue[s])]
              /\ queue' = [queue EXCEPT ![s] = Tail(@)]
              /\ GoTo(job'[s], "wait") /\ UNCHANGED drain
    /\ UNCHANGED <<objects, handlers, alive, failed, permit, hold, guard, go, control>>
DrainTasks(s) ==
    /\ drain[s] /\ Idle(s)
    /\ IF queue[s] = <<>>
         THEN /\ drain' = [drain EXCEPT ![s] = FALSE] /\ job' = [job EXCEPT ![s] = None]
              /\ UNCHANGED <<queue, call>>
         ELSE /\ job' = [job EXCEPT ![s] = Head(queue[s])]
              /\ queue' = [queue EXCEPT ![s] = Tail(@)]
              /\ GoTo(job'[s], "wait") /\ UNCHANGED drain
    /\ UNCHANGED <<objects, handlers, alive, failed, permit, hold, guard, go, control>>

-----------------------------------------------------------------------------
(* sendBefore, the caller's side. A deadline may pass at any time, and every *)
(* look at it that finds it passed ends what looks.                          *)

AcquirePermit(c) ==
    /\ call[c] = "wait" /\ permit[hold[c]] = None
    /\ permit' = [permit EXCEPT ![hold[c]] = c] /\ GoTo(c, "check")
    /\ UNCHANGED <<objects, handlers, alive, failed, queue, drain, job, hold, guard, go, control>>

GiveUp(c) ==
    /\ call[c] = "wait" /\ GoTo(c, "over")
    /\ UNCHANGED <<objects, handlers, alive, failed, holder, hold, guard, go, control>>

Free(c) == permit' = [permit EXCEPT ![hold[c]] = None]

Start(c) ==
    /\ call[c] = "check" /\ ~failed[hold[c]] /\ GoTo(c, "watch")
    /\ Run(c, IF guard[c] = NoOwner THEN "recheck" ELSE "admit")
    /\ UNCHANGED <<objects, handlers, alive, failed, holder, hold, guard, control>>
Refuse(c) ==
    /\ call[c] = "check" /\ Free(c) /\ GoTo(c, "over")
    /\ UNCHANGED <<objects, handlers, alive, failed, queue, drain, job, hold, guard, go, control>>

Answered(c) ==
    /\ call[c] = "watch" /\ go[c] \in {"release", "none"} /\ GoTo(c, "over")
    /\ UNCHANGED <<objects, handlers, alive, failed, holder, hold, guard, go, control>>

Stalled(c) == call[c] = "watch" /\ GoTo(c, "over")
AbandonReleasing(c) ==   \* mutant: the caller drops the lease
    /\ Stalled(c) /\ Fail({hold[c]}) /\ leases' = leases \ {c}
    /\ UNCHANGED <<objects, handlers, alive, holder, hold, guard, go, owner, moving, waiting>>
Abandon(c) ==
    /\ Stalled(c) /\ Fail({hold[c]})
    /\ UNCHANGED <<objects, handlers, alive, holder, hold, guard, go, control>>

-----------------------------------------------------------------------------
(* The goroutine that sends. Admission is BeginServerControl, whose lease is *)
(* dropped by the deferred release after the permit and the answer.          *)

Admit(c) ==
    /\ go[c] = "admit"
    /\ IF current # None /\ (guard[c] = Admin \/ (owner = guard[c] /\ ~moving))
         THEN leases' = leases \cup {c} /\ Run(c, "recheck")
         ELSE Run(c, "finish") /\ UNCHANGED leases
    /\ UNCHANGED <<objects, handlers, alive, failed, holder, call, hold, guard, owner, moving, waiting>>

Recheck(c) ==
    /\ go[c] = "recheck"
    /\ \E next \in {"send", "finish"} : (next = "send" => ~failed[hold[c]]) /\ Run(c, next)
    /\ UNCHANGED <<objects, handlers, alive, failed, holder, call, hold, guard, control>>

SendReturns(c) ==
    /\ go[c] = "send" /\ Run(c, "finish")
    /\ UNCHANGED <<objects, handlers, alive, failed, holder, call, hold, guard, control>>

Finish(c) ==
    /\ go[c] = "finish" /\ Free(c) /\ guard' = [guard EXCEPT ![c] = NoOwner]
    /\ Run(c, IF c \in leases THEN "release" ELSE "none")
    /\ UNCHANGED <<objects, handlers, alive, failed, queue, drain, job, call, hold, control>>

Release(c) ==
    /\ go[c] = "release" /\ leases' = leases \ {c} /\ Run(c, "none")
    /\ UNCHANGED <<objects, handlers, alive, failed, holder, call, hold, guard, owner, moving, waiting>>

-----------------------------------------------------------------------------
(* Transfers, as far as deliveries see them: the owner changes under the     *)
(* write lock, and the transition lasts until the agent has confirmed.       *)

BeginTransfer ==
    /\ current # None /\ ~moving /\ leases = {}
    /\ owner' \in Owners \ {owner} /\ moving' = TRUE
    /\ UNCHANGED <<objects, handlers, alive, failed, holder, sends, leases, waiting>>

Settle ==
    /\ moving /\ moving' = FALSE
    /\ UNCHANGED <<objects, handlers, alive, failed, holder, sends, owner, leases, waiting>>

RollBack(s) ==
    /\ s \in waiting /\ leases = {} /\ waiting' = waiting \ {s}
    /\ owner' \in (IF moving THEN Owners ELSE {owner})
    /\ UNCHANGED <<objects, handlers, alive, failed, holder, sends, moving, leases>>

-----------------------------------------------------------------------------
HandlerStep(s) ==
    \/ SetTaskStream(s) \/ TaskStreamFailure(s) \/ RolledBack(s) \/ Leave(s)
    \/ FindCurrent(s) \/ ClearTaskStreamIfCurrent(s)
SendStep(c) ==
    \/ AcquirePermit(c) \/ GiveUp(c) \/ Start(c) \/ Refuse(c) \/ Answered(c) \/ Abandon(c)
    \/ Recheck(c) \/ Finish(c) \/ Release(c)

Next ==
    \/ \E s \in Streams : RequestTask(s) \/ HandlerStep(s) \/ Receive(s) \/ AgentDrop(s)
                          \/ DrainTasks(s) \/ RollBack(s)
    \/ \E c \in Calls : SendTaskGuarded(c) \/ QueueTaskGuarded(c) \/ SendStep(c) \/ Admit(c)
                        \/ SendReturns(c)
    \/ CopyFromRunningServer \/ Update \/ Delete \/ BeginTransfer \/ Settle

SendCancelled(c) == SendReturns(c) /\ ~alive[hold[c]]
ReadLocked(c) == Admit(c) /\ waiting = {}

(* Goroutines run, timers fire and locks are granted; a reader may have to   *)
(* wait until no writer waits. A Send returns for certain only when its      *)
(* transport is gone.                                                        *)
Fairness ==
    /\ \A s \in Streams : /\ WF_vars(HandlerStep(s)) /\ WF_vars(Leave(s))
                          /\ WF_vars(DrainTasks(s)) /\ SF_vars(RollBack(s))
    /\ \A c \in Calls : /\ WF_vars(SendStep(c)) /\ SF_vars(ReadLocked(c))
                        /\ WF_vars(SendCancelled(c))
    /\ WF_vars(Update)

Spec == Init /\ [][Next]_vars /\ Fairness

-----------------------------------------------------------------------------
(* Every variable has a value of its kind; a handler at work has an object,  *)
(* a call under way a stream (nezha.go:60-64).                               *)
ObjectTypes ==
    /\ current \in 0 .. MaxObjects /\ last \in Objects /\ draft \in 0 .. MaxObjects
    /\ ptr \in [Objects -> 0 .. MaxStreams]
HandlerTypes ==
    /\ hpc \in [Streams -> {"off", "attach", "watch", "serve", "rollback", "clear", "detach", "over"}]
    /\ hobj \in [Streams -> 0 .. MaxObjects]
    /\ \A s \in Streams : hpc[s] # "off" => hobj[s] # None
    /\ alive \in [Streams -> BOOLEAN] /\ failed \in [Streams -> BOOLEAN]
HolderTypes ==
    /\ permit \in [Streams -> 0 .. MaxCalls] /\ queue \in [Streams -> Seq(Calls)]
    /\ drain \in [Streams -> BOOLEAN] /\ job \in [Streams -> 0 .. MaxCalls]
SendTypes ==
    /\ call \in [Calls -> {"new", "queued", "wait", "check", "watch", "over"}]
    /\ hold \in [Calls -> 0 .. MaxStreams]
    /\ \A c \in Calls : call[c] \notin {"new", "over"} \/ go[c] # "none" => hold[c] # None
    /\ guard \in [Calls -> Guards]
    /\ go \in [Calls -> {"none", "admit", "recheck", "send", "finish", "release"}]
ControlTypes ==
    owner \in Owners /\ moving \in BOOLEAN /\ leases \subseteq Calls /\ waiting \subseteq Streams
TypeOK == ObjectTypes /\ HandlerTypes /\ HolderTypes /\ SendTypes /\ ControlTypes

(* Two goroutines never send on one stream, whichever Server object, direct  *)
(* call or queue they came by, and however their callers gave up: the permit *)
(* of sendBefore (agent_task_delivery.go:44, 85, 95).                        *)
Sending(c) == go[c] \in {"admit", "recheck", "send", "finish"}
OneSend == \A c, d \in Calls : Sending(c) /\ Sending(d) /\ hold[c] = hold[d] => c = d

(* While an owner's task is on its way the server is that owner's and no     *)
(* transfer of it is open, even when the caller has given up long ago        *)
(* (agent_task_delivery.go:108-109).                                         *)
OwnerDuringSend == \A c \in Calls :
    go[c] = "send" /\ guard[c] \in Owners => owner = guard[c] /\ ~moving

(* The stream a handler serves is the one that new tasks go to, until it is  *)
(* condemned or the server deleted: neither the cleanup of an older stream   *)
(* (server.go:267-269) nor an edit (server.go:506-510) hides it.             *)
ServingReachable == \A s \in Streams :
    hpc[s] \in {"serve", "rollback"} /\ ~failed[s] /\ current # None => ptr[current] = s

(* The published stream is one whose handler has not ended: cleanup finds    *)
(* the object that has adopted the stream (nezha.go:74-77).                  *)
PublishedStreamLives ==
    current # None /\ ptr[current] # None => hpc[ptr[current]] # "over"

(* Every task handed over comes to an end, its caller's wait and its Send,   *)
(* also behind a stalled agent or a full queue: the deadline condemns the    *)
(* stream (agent_task_delivery.go:94-100), the handler returns and cancels   *)
(* the transport (nezha.go:118-119), and the worker goes on.                 *)
UnderWay(c) == call[c] \notin {"new", "over"} \/ go[c] # "none"
CallsEnd == \A c \in Calls : UnderWay(c) ~> ~UnderWay(c)

(* A rollback that waits for the lease of a blocked Send gets the lock       *)
(* (nezha.go:216-219).                                                       *)
RollbackEnds == \A s \in Streams : s \in waiting ~> s \notin waiting

=============================================================================
