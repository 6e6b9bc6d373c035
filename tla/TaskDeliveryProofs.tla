------------------------- MODULE TaskDeliveryProofs -------------------------
(* Theorems about TaskDelivery and their proofs.                             *)
EXTENDS TaskDelivery, TLAPS

(* What is in a stream's queue was queued there, once, and nothing else has  *)
(* been done with it.                                                        *)
QueueInv == \A s \in Streams : \A i \in 1 .. Len(queue[s]) :
    /\ hold[queue[s][i]] = s /\ call[queue[s][i]] = "queued"
    /\ \A j \in 1 .. Len(queue[s]) : queue[s][i] = queue[s][j] => i = j

(* A goroutine exists only after its caller has checked under the permit.    *)
GoroutineInv == \A c \in Calls : call[c] \in {"new", "queued", "wait", "check"} => go[c] = "none"

(* Whoever checks or sends has the permit of its stream.                     *)
PermitInv == \A c \in Calls : call[c] = "check" \/ Sending(c) => permit[hold[c]] = c

(* A guarded task that has been admitted has its lease, and its owner has    *)
(* the server unless an administrator sent it.                               *)
AdmittedInv == \A c \in Calls : go[c] \in {"recheck", "send"} /\ guard[c] # NoOwner =>
    c \in leases /\ (guard[c] = Admin \/ (owner = guard[c] /\ ~moving))

SendInv == TypeOK /\ QueueInv /\ GoroutineInv /\ PermitInv /\ AdmittedInv

(* Objects are numbered as they are made; a draft has the stream of the      *)
(* object it will replace, and while there is one nobody attaches or         *)
(* detaches.                                                                 *)
DraftInv ==
    /\ current <= last
    /\ draft # None => /\ draft <= last /\ current # None /\ ptr[draft] = ptr[current]
                       /\ \A s \in Streams : hpc[s] \notin {"attach", "detach"}

(* Who attaches or detaches does it to the published object.                 *)
HandoverInv == \A s \in Streams :
    hpc[s] \in {"attach", "detach"} /\ current # None => hobj[s] = current

(* ServingReachable, from the attachment on.                                 *)
AttachedInv == \A s \in Streams :
    hpc[s] \in {"watch", "serve", "rollback"} /\ ~failed[s] /\ current # None => ptr[current] = s

StreamInv == DraftInv /\ HandoverInv /\ AttachedInv /\ PublishedStreamLives

(* Numbers: 0 stands for no stream, call or object. *)
LEMMA Numbers ==
    /\ None \notin Streams /\ None \notin Calls /\ None \notin Objects
    /\ Streams \subseteq Nat /\ Calls \subseteq Nat /\ Objects \subseteq Nat
    /\ 0 .. MaxStreams = Streams \cup {None} /\ 0 .. MaxCalls = Calls \cup {None}
    /\ 0 .. MaxObjects = Objects \cup {None} /\ 1 \in Objects
  BY BoundsAssumption DEF None, Streams, Calls, Objects

LEMMA InitType == Init => TypeOK
  <1> SUFFICES ASSUME Init PROVE TypeOK
    OBVIOUS
  <1>1. ObjectTypes /\ HandlerTypes
    BY Numbers DEF Init, ObjectTypes, HandlerTypes
  <1>2. HolderTypes
    BY Numbers DEF Init, HolderTypes
  <1>3. SendTypes
    BY Numbers DEF Init, SendTypes, Guards
  <1>4. ControlTypes
    BY DEF Init, ControlTypes
  <1> QED BY <1>1, <1>2, <1>3, <1>4 DEF TypeOK

LEMMA AppendFacts ==
  ASSUME NEW S, NEW q \in Seq(S), NEW x \in S
  PROVE  /\ Len(q) \in Nat /\ Len(Append(q, x)) = Len(q) + 1
         /\ \A k \in 1 .. Len(q) : Append(q, x)[k] = q[k]
         /\ Append(q, x)[Len(q) + 1] = x
  OBVIOUS

LEMMA StepType ==
  ASSUME TypeOK, QueueInv, Next
  PROVE  TypeOK'
  <1> USE DEF TypeOK
  <1>1. ASSUME NEW s \in Streams, RequestTask(s) PROVE TypeOK'
    <2>1. HandlerTypes'
      BY <1>1, Numbers DEF RequestTask, Handler, HandlerTypes, ObjectTypes
    <2>2. ObjectTypes /\ HolderTypes /\ SendTypes /\ ControlTypes
      OBVIOUS
    <2>3. UNCHANGED <<objects, holder, sends, control>>
      BY <1>1 DEF RequestTask, objects, handlers, holder, sends, control
    <2> QED BY <2>1, <2>2, <2>3 DEF ObjectTypes, HolderTypes, SendTypes, ControlTypes, objects, handlers, holder, sends, control
  <1>2. ASSUME NEW s \in Streams, SetTaskStream(s) PROVE TypeOK'
    <2>1. ObjectTypes'
      BY <1>2, Numbers DEF SetTaskStream, Fail, Handler, ObjectTypes, HandlerTypes
    <2>2. HandlerTypes'
      BY <1>2, Numbers DEF SetTaskStream, Fail, Handler, HandlerTypes, ObjectTypes
    <2>3. HolderTypes /\ SendTypes /\ ControlTypes
      OBVIOUS
    <2>4. UNCHANGED <<holder, sends, control>>
      BY <1>2 DEF SetTaskStream, objects, handlers, holder, sends, control
    <2> QED BY <2>1, <2>2, <2>3, <2>4 DEF HolderTypes, SendTypes, ControlTypes, objects, handlers, holder, sends, control
  <1>3. ASSUME NEW s \in Streams, TaskStreamFailure(s) PROVE TypeOK'
    <2>1. HandlerTypes'
      BY <1>3, Numbers DEF TaskStreamFailure, Handler, HandlerTypes
    <2>2. ObjectTypes /\ HolderTypes /\ SendTypes /\ ControlTypes
      OBVIOUS
    <2>3. UNCHANGED <<objects, holder, sends, control>>
      BY <1>3 DEF TaskStreamFailure, objects, handlers, holder, sends, control
    <2> QED BY <2>1, <2>2, <2>3 DEF ObjectTypes, HolderTypes, SendTypes, ControlTypes, objects, handlers, holder, sends, control
  <1>4. ASSUME NEW s \in Streams, Receive(s) PROVE TypeOK'
    <2>1. HandlerTypes'
      <3> PICK next \in {"clear", "rollback"} : hpc' = [hpc EXCEPT ![s] = next]
        BY <1>4 DEF Receive, Handler
      <3>1. hpc[s] # "off" /\ UNCHANGED <<hobj, alive, failed>>
        BY <1>4 DEF Receive, Handler
      <3> QED BY <3>1 DEF HandlerTypes
    <2>2. ControlTypes'
      BY <1>4 DEF Receive, ControlTypes
    <2>3. ObjectTypes /\ HolderTypes /\ SendTypes
      OBVIOUS
    <2>4. UNCHANGED <<objects, holder, sends>>
      BY <1>4 DEF Receive, objects, handlers, holder, sends, control
    <2> QED BY <2>1, <2>2, <2>3, <2>4 DEF ObjectTypes, HolderTypes, SendTypes, objects, handlers, holder, sends, control
  <1>5. ASSUME NEW s \in Streams, RolledBack(s) PROVE TypeOK'
    <2>1. HandlerTypes'
      BY <1>5, Numbers DEF RolledBack, Handler, HandlerTypes
    <2>2. ObjectTypes /\ HolderTypes /\ SendTypes /\ ControlTypes
      OBVIOUS
    <2>3. UNCHANGED <<objects, holder, sends, control>>
      BY <1>5 DEF RolledBack, objects, handlers, holder, sends, control
    <2> QED BY <2>1, <2>2, <2>3 DEF ObjectTypes, HolderTypes, SendTypes, ControlTypes, objects, handlers, holder, sends, control
  <1>6. ASSUME NEW s \in Streams, Leave(s) PROVE TypeOK'
    <2>1. HandlerTypes'
      BY <1>6, Numbers DEF Leave, Handler, HandlerTypes
    <2>2. ObjectTypes /\ HolderTypes /\ SendTypes /\ ControlTypes
      OBVIOUS
    <2>3. UNCHANGED <<objects, holder, sends, control>>
      BY <1>6 DEF Leave, objects, handlers, holder, sends, control
    <2> QED BY <2>1, <2>2, <2>3 DEF ObjectTypes, HolderTypes, SendTypes, ControlTypes, objects, handlers, holder, sends, control
  <1>7. ASSUME NEW s \in Streams, FindCurrent(s) PROVE TypeOK'
    <2>1. HandlerTypes'
      BY <1>7, Numbers DEF FindCurrent, Handler, HandlerTypes, ObjectTypes
    <2>2. ObjectTypes /\ HolderTypes /\ SendTypes /\ ControlTypes
      OBVIOUS
    <2>3. UNCHANGED <<objects, holder, sends, control>>
      BY <1>7 DEF FindCurrent, objects, handlers, holder, sends, control
    <2> QED BY <2>1, <2>2, <2>3 DEF ObjectTypes, HolderTypes, SendTypes, ControlTypes, objects, handlers, holder, sends, control
  <1>8. ASSUME NEW s \in Streams, ClearTaskStreamIfCurrent(s) PROVE TypeOK'
    <2>1. ObjectTypes'
      BY <1>8, Numbers DEF ClearTaskStreamIfCurrent, Fail, Handler, ObjectTypes, HandlerTypes
    <2>2. HandlerTypes'
      <3>1. failed' \in [Streams -> BOOLEAN]
        BY <1>8 DEF ClearTaskStreamIfCurrent, Fail, HandlerTypes
      <3> QED BY <1>8, <3>1 DEF ClearTaskStreamIfCurrent, Handler, HandlerTypes
    <2>3. HolderTypes /\ SendTypes /\ ControlTypes
      OBVIOUS
    <2>4. UNCHANGED <<holder, sends, control>>
      BY <1>8 DEF ClearTaskStreamIfCurrent, objects, handlers, holder, sends, control
    <2> QED BY <2>1, <2>2, <2>3, <2>4 DEF HolderTypes, SendTypes, ControlTypes, objects, handlers, holder, sends, control
  <1>9. ASSUME NEW s \in Streams, AgentDrop(s) PROVE TypeOK'
    <2>1. HandlerTypes'
      BY <1>9 DEF AgentDrop, HandlerTypes, handlers
    <2>2. ObjectTypes /\ HolderTypes /\ SendTypes /\ ControlTypes
      OBVIOUS
    <2>3. UNCHANGED <<objects, holder, sends, control>>
      BY <1>9 DEF AgentDrop, objects, handlers, holder, sends, control
    <2> QED BY <2>1, <2>2, <2>3 DEF ObjectTypes, HolderTypes, SendTypes, ControlTypes, objects, handlers, holder, sends, control
  <1>10. ASSUME NEW s \in Streams, DrainTasks(s) PROVE TypeOK'
    <2>1. HolderTypes'
      <3>1. CASE queue[s] = <<>>
        BY <1>10, <3>1, Numbers DEF DrainTasks, HolderTypes
      <3>2. CASE queue[s] # <<>>
        <4>1. queue[s] \in Seq(Calls)
          BY DEF HolderTypes
        <4>2. Head(queue[s]) \in Calls /\ Tail(queue[s]) \in Seq(Calls)
          BY <3>2, <4>1
        <4>3. /\ job' = [job EXCEPT ![s] = Head(queue[s])]
              /\ queue' = [queue EXCEPT ![s] = Tail(queue[s])] /\ UNCHANGED <<permit, drain>>
          BY <1>10, <3>2 DEF DrainTasks
        <4> QED BY <4>2, <4>3, Numbers DEF HolderTypes
      <3> QED BY <3>1, <3>2
    <2>2. SendTypes'
      <3>1. CASE queue[s] = <<>>
        BY <1>10, <3>1 DEF DrainTasks, SendTypes
      <3>2. CASE queue[s] # <<>>
        <4>1. queue[s] \in Seq(Calls) /\ job \in [Streams -> 0 .. MaxCalls]
          BY DEF HolderTypes
        <4>2. Head(queue[s]) \in Calls /\ 1 \in 1 .. Len(queue[s]) /\ Head(queue[s]) = queue[s][1]
          BY <3>2, <4>1
        <4>3. hold[Head(queue[s])] # None
          BY <4>2, Numbers DEF QueueInv
        <4>4. call' = [call EXCEPT ![Head(queue[s])] = "wait"] /\ UNCHANGED <<hold, guard, go>>
          BY <1>10, <3>2, <4>1 DEF DrainTasks, GoTo
        <4> QED BY <4>2, <4>3, <4>4 DEF SendTypes
      <3> QED BY <3>1, <3>2
    <2>3. ObjectTypes /\ HandlerTypes /\ ControlTypes
      OBVIOUS
    <2>4. UNCHANGED <<objects, <<handlers, alive, failed>>, control>>
      BY <1>10 DEF DrainTasks, objects, handlers, holder, sends, control
    <2> QED BY <2>1, <2>2, <2>3, <2>4 DEF ObjectTypes, HandlerTypes, ControlTypes, objects, handlers, holder, sends, control
  <1>11. ASSUME NEW s \in Streams, RollBack(s) PROVE TypeOK'
    <2>1. ControlTypes'
      BY <1>11, Numbers DEF RollBack, ControlTypes
    <2>2. ObjectTypes /\ HandlerTypes /\ HolderTypes /\ SendTypes
      OBVIOUS
    <2>3. UNCHANGED <<objects, <<handlers, alive, failed>>, holder, sends>>
      BY <1>11 DEF RollBack, objects, handlers, holder, sends, control
    <2> QED BY <2>1, <2>2, <2>3 DEF ObjectTypes, HandlerTypes, HolderTypes, SendTypes, objects, handlers, holder, sends, control
  <1>12. ASSUME NEW c \in Calls, SendTaskGuarded(c) PROVE TypeOK'
    <2>1. HolderTypes'
      BY <1>12 DEF SendTaskGuarded, Offline, HolderTypes, holder
    <2>2. SendTypes'
      <3>1. CASE Offline(c)
        BY <1>12, <3>1 DEF SendTaskGuarded, Offline, GoTo, Fresh, SendTypes
      <3>2. ASSUME NEW r \in Streams, NEW g \in Guards,
                   NEW next \in {"over", "queued", "wait"},
                   hold' = [hold EXCEPT ![c] = r], guard' = [guard EXCEPT ![c] = g],
                   call' = [call EXCEPT ![c] = next], UNCHANGED go
            PROVE  SendTypes'
        BY <3>2, Numbers DEF SendTypes
      <3> QED BY <1>12, <3>1, <3>2 DEF SendTaskGuarded, Load, GoTo
    <2>3. ObjectTypes /\ HandlerTypes /\ ControlTypes
      OBVIOUS
    <2>4. UNCHANGED <<objects, <<handlers, alive, failed>>, control>>
      BY <1>12 DEF SendTaskGuarded, objects, handlers, holder, sends, control
    <2> QED BY <2>1, <2>2, <2>3, <2>4 DEF ObjectTypes, HandlerTypes, ControlTypes, objects, handlers, holder, sends, control
  <1>13. ASSUME NEW c \in Calls, QueueTaskGuarded(c) PROVE TypeOK'
    <2>1. HolderTypes'
      <3>1. CASE UNCHANGED holder
        BY <3>1 DEF holder, HolderTypes
      <3>2. ASSUME NEW r \in Streams, queue' = [queue EXCEPT ![r] = Append(queue[r], c)],
                   drain' = [drain EXCEPT ![r] = TRUE], UNCHANGED <<permit, job>>
            PROVE  HolderTypes'
        BY <3>2 DEF HolderTypes
      <3> QED BY <1>13, <3>1, <3>2 DEF QueueTaskGuarded, Offline, Enqueue
    <2>2. SendTypes'
      <3>1. CASE Offline(c)
        BY <1>13, <3>1 DEF QueueTaskGuarded, Offline, GoTo, Fresh, SendTypes
      <3>2. ASSUME NEW r \in Streams, NEW g \in Guards,
                   NEW next \in {"over", "queued", "wait"},
                   hold' = [hold EXCEPT ![c] = r], guard' = [guard EXCEPT ![c] = g],
                   call' = [call EXCEPT ![c] = next], UNCHANGED go
            PROVE  SendTypes'
        BY <3>2, Numbers DEF SendTypes
      <3> QED BY <1>13, <3>1, <3>2 DEF QueueTaskGuarded, Load, GoTo, Enqueue
    <2>3. ObjectTypes /\ HandlerTypes /\ ControlTypes
      OBVIOUS
    <2>4. UNCHANGED <<objects, <<handlers, alive, failed>>, control>>
      BY <1>13 DEF QueueTaskGuarded, objects, handlers, holder, sends, control
    <2> QED BY <2>1, <2>2, <2>3, <2>4 DEF ObjectTypes, HandlerTypes, ControlTypes, objects, handlers, holder, sends, control
  <1>14. ASSUME NEW c \in Calls, AcquirePermit(c) PROVE TypeOK'
    <2>1. HolderTypes'
      BY <1>14, Numbers DEF AcquirePermit, GoTo, HolderTypes, SendTypes
    <2>2. SendTypes'
      BY <1>14, Numbers DEF AcquirePermit, GoTo, SendTypes
    <2>3. ObjectTypes /\ HandlerTypes /\ ControlTypes
      OBVIOUS
    <2>4. UNCHANGED <<objects, <<handlers, alive, failed>>, control>>
      BY <1>14 DEF AcquirePermit, objects, handlers, holder, sends, control
    <2> QED BY <2>1, <2>2, <2>3, <2>4 DEF ObjectTypes, HandlerTypes, ControlTypes, objects, handlers, holder, sends, control
  <1>15. ASSUME NEW c \in Calls, GiveUp(c) PROVE TypeOK'
    <2>1. SendTypes'
      BY <1>15, Numbers DEF GiveUp, GoTo, SendTypes
    <2>2. ObjectTypes /\ HandlerTypes /\ HolderTypes /\ ControlTypes
      OBVIOUS
    <2>3. UNCHANGED <<objects, <<handlers, alive, failed>>, holder, control>>
      BY <1>15 DEF GiveUp, objects, handlers, holder, sends, control
    <2> QED BY <2>1, <2>2, <2>3 DEF ObjectTypes, HandlerTypes, HolderTypes, ControlTypes, objects, handlers, holder, sends, control
  <1>16. ASSUME NEW c \in Calls, Start(c) PROVE TypeOK'
    <2>1. SendTypes'
      BY <1>16, Numbers DEF Start, GoTo, Run, SendTypes
    <2>2. ObjectTypes /\ HandlerTypes /\ HolderTypes /\ ControlTypes
      OBVIOUS
    <2>3. UNCHANGED <<objects, <<handlers, alive, failed>>, holder, control>>
      BY <1>16 DEF Start, objects, handlers, holder, sends, control
    <2> QED BY <2>1, <2>2, <2>3 DEF ObjectTypes, HandlerTypes, HolderTypes, ControlTypes, objects, handlers, holder, sends, control
  <1>17. ASSUME NEW c \in Calls, Refuse(c) PROVE TypeOK'
    <2>1. HolderTypes'
      BY <1>17, Numbers DEF Refuse, Free, GoTo, HolderTypes, SendTypes
    <2>2. SendTypes'
      BY <1>17, Numbers DEF Refuse, Free, GoTo, SendTypes
    <2>3. ObjectTypes /\ HandlerTypes /\ ControlTypes
      OBVIOUS
    <2>4. UNCHANGED <<objects, <<handlers, alive, failed>>, control>>
      BY <1>17 DEF Refuse, objects, handlers, holder, sends, control
    <2> QED BY <2>1, <2>2, <2>3, <2>4 DEF ObjectTypes, HandlerTypes, ControlTypes, objects, handlers, holder, sends, control
  <1>18. ASSUME NEW c \in Calls, Answered(c) PROVE TypeOK'
    <2>1. SendTypes'
      BY <1>18, Numbers DEF Answered, GoTo, SendTypes
    <2>2. ObjectTypes /\ HandlerTypes /\ HolderTypes /\ ControlTypes
      OBVIOUS
    <2>3. UNCHANGED <<objects, <<handlers, alive, failed>>, holder, control>>
      BY <1>18 DEF Answered, objects, handlers, holder, sends, control
    <2> QED BY <2>1, <2>2, <2>3 DEF ObjectTypes, HandlerTypes, HolderTypes, ControlTypes, objects, handlers, holder, sends, control
  <1>19. ASSUME NEW c \in Calls, Abandon(c) PROVE TypeOK'
    <2>1. HandlerTypes'
      BY <1>19 DEF Abandon, Stalled, Fail, HandlerTypes, handlers
    <2>2. SendTypes'
      BY <1>19, Numbers DEF Abandon, Stalled, Fail, GoTo, SendTypes
    <2>3. ObjectTypes /\ HolderTypes /\ ControlTypes
      OBVIOUS
    <2>4. UNCHANGED <<objects, holder, control>>
      BY <1>19 DEF Abandon, objects, handlers, holder, sends, control
    <2> QED BY <2>1, <2>2, <2>3, <2>4 DEF ObjectTypes, HolderTypes, ControlTypes, objects, handlers, holder, sends, control
  <1>20. ASSUME NEW c \in Calls, Recheck(c) PROVE TypeOK'
    <2>1. SendTypes'
      <3> PICK next \in {"send", "finish"} : go' = [go EXCEPT ![c] = next]
        BY <1>20 DEF Recheck, Run
      <3>1. go[c] # "none" /\ UNCHANGED <<call, hold, guard>>
        BY <1>20 DEF Recheck
      <3> QED BY <3>1 DEF SendTypes
    <2>2. ObjectTypes /\ HandlerTypes /\ HolderTypes /\ ControlTypes
      OBVIOUS
    <2>3. UNCHANGED <<objects, <<handlers, alive, failed>>, holder, control>>
      BY <1>20 DEF Recheck, objects, handlers, holder, sends, control
    <2> QED BY <2>1, <2>2, <2>3 DEF ObjectTypes, HandlerTypes, HolderTypes, ControlTypes, objects, handlers, holder, sends, control
  <1>21. ASSUME NEW c \in Calls, Finish(c) PROVE TypeOK'
    <2>1. HolderTypes'
      BY <1>21, Numbers DEF Finish, Free, Run, HolderTypes, SendTypes
    <2>2. SendTypes'
      BY <1>21, Numbers DEF Finish, Free, Run, SendTypes, Guards
    <2>3. ObjectTypes /\ HandlerTypes /\ ControlTypes
      OBVIOUS
    <2>4. UNCHANGED <<objects, <<handlers, alive, failed>>, control>>
      BY <1>21 DEF Finish, objects, handlers, holder, sends, control
    <2> QED BY <2>1, <2>2, <2>3, <2>4 DEF ObjectTypes, HandlerTypes, ControlTypes, objects, handlers, holder, sends, control
  <1>22. ASSUME NEW c \in Calls, Release(c) PROVE TypeOK'
    <2>1. SendTypes'
      BY <1>22, Numbers DEF Release, Run, SendTypes
    <2>2. ControlTypes'
      BY <1>22, Numbers DEF Release, Run, ControlTypes
    <2>3. ObjectTypes /\ HandlerTypes /\ HolderTypes
      OBVIOUS
    <2>4. UNCHANGED <<objects, <<handlers, alive, failed>>, holder>>
      BY <1>22 DEF Release, objects, handlers, holder, sends, control
    <2> QED BY <2>1, <2>2, <2>3, <2>4 DEF ObjectTypes, HandlerTypes, HolderTypes, objects, handlers, holder, sends, control
  <1>23. ASSUME NEW c \in Calls, Admit(c) PROVE TypeOK'
    <2>1. SendTypes'
      <3> PICK next \in {"recheck", "finish"} : go' = [go EXCEPT ![c] = next]
        BY <1>23 DEF Admit, Run
      <3>1. go[c] # "none" /\ UNCHANGED <<call, hold, guard>>
        BY <1>23 DEF Admit
      <3> QED BY <3>1 DEF SendTypes
    <2>2. ControlTypes'
      BY <1>23 DEF Admit, ControlTypes
    <2>3. ObjectTypes /\ HandlerTypes /\ HolderTypes
      OBVIOUS
    <2>4. UNCHANGED <<objects, <<handlers, alive, failed>>, holder>>
      BY <1>23 DEF Admit, objects, handlers, holder, sends, control
    <2> QED BY <2>1, <2>2, <2>3, <2>4 DEF ObjectTypes, HandlerTypes, HolderTypes, objects, handlers, holder, sends, control
  <1>24. ASSUME NEW c \in Calls, SendReturns(c) PROVE TypeOK'
    <2>1. SendTypes'
      BY <1>24, Numbers DEF SendReturns, Run, SendTypes
    <2>2. ObjectTypes /\ HandlerTypes /\ HolderTypes /\ ControlTypes
      OBVIOUS
    <2>3. UNCHANGED <<objects, <<handlers, alive, failed>>, holder, control>>
      BY <1>24 DEF SendReturns, objects, handlers, holder, sends, control
    <2> QED BY <2>1, <2>2, <2>3 DEF ObjectTypes, HandlerTypes, HolderTypes, ControlTypes, objects, handlers, holder, sends, control
  <1>25. ASSUME CopyFromRunningServer PROVE TypeOK'
    <2>1. ObjectTypes'
      <3>1. last + 1 \in Objects
        BY <1>25, BoundsAssumption DEF CopyFromRunningServer, ObjectTypes, Objects
      <3> QED BY <1>25, <3>1, Numbers DEF CopyFromRunningServer, ObjectTypes
    <2>2. HandlerTypes /\ HolderTypes /\ SendTypes /\ ControlTypes
      OBVIOUS
    <2>3. UNCHANGED <<<<handlers, alive, failed>>, holder, sends, control>>
      BY <1>25 DEF CopyFromRunningServer, objects, handlers, holder, sends, control
    <2> QED BY <2>1, <2>2, <2>3 DEF HandlerTypes, HolderTypes, SendTypes, ControlTypes, objects, handlers, holder, sends, control
  <1>26. ASSUME Update PROVE TypeOK'
    <2>1. ObjectTypes'
      BY <1>26, Numbers DEF Update, ObjectTypes
    <2>2. HandlerTypes /\ HolderTypes /\ SendTypes /\ ControlTypes
      OBVIOUS
    <2>3. UNCHANGED <<<<handlers, alive, failed>>, holder, sends, control>>
      BY <1>26 DEF Update, objects, handlers, holder, sends, control
    <2> QED BY <2>1, <2>2, <2>3 DEF HandlerTypes, HolderTypes, SendTypes, ControlTypes, objects, handlers, holder, sends, control
  <1>27. ASSUME Delete PROVE TypeOK'
    <2>1. ObjectTypes'
      BY <1>27, Numbers DEF Delete, ObjectTypes
    <2>2. HandlerTypes /\ HolderTypes /\ SendTypes /\ ControlTypes
      OBVIOUS
    <2>3. UNCHANGED <<<<handlers, alive, failed>>, holder, sends, control>>
      BY <1>27 DEF Delete, objects, handlers, holder, sends, control
    <2> QED BY <2>1, <2>2, <2>3 DEF HandlerTypes, HolderTypes, SendTypes, ControlTypes, objects, handlers, holder, sends, control
  <1>28. ASSUME BeginTransfer PROVE TypeOK'
    <2>1. ControlTypes'
      BY <1>28, Numbers DEF BeginTransfer, ControlTypes
    <2>2. ObjectTypes /\ HandlerTypes /\ HolderTypes /\ SendTypes
      OBVIOUS
    <2>3. UNCHANGED <<objects, <<handlers, alive, failed>>, holder, sends>>
      BY <1>28 DEF BeginTransfer, objects, handlers, holder, sends, control
    <2> QED BY <2>1, <2>2, <2>3 DEF ObjectTypes, HandlerTypes, HolderTypes, SendTypes, objects, handlers, holder, sends, control
  <1>29. ASSUME Settle PROVE TypeOK'
    <2>1. ControlTypes'
      BY <1>29, Numbers DEF Settle, ControlTypes
    <2>2. ObjectTypes /\ HandlerTypes /\ HolderTypes /\ SendTypes
      OBVIOUS
    <2>3. UNCHANGED <<objects, <<handlers, alive, failed>>, holder, sends>>
      BY <1>29 DEF Settle, objects, handlers, holder, sends, control
    <2> QED BY <2>1, <2>2, <2>3 DEF ObjectTypes, HandlerTypes, HolderTypes, SendTypes, objects, handlers, holder, sends, control
  <1> QED BY <1>1, <1>2, <1>3, <1>4, <1>5, <1>6, <1>7, <1>8, <1>9, <1>10, <1>11, <1>12, <1>13, <1>14, <1>15, <1>16, <1>17, <1>18, <1>19, <1>20, <1>21, <1>22, <1>23, <1>24, <1>25, <1>26, <1>27, <1>28, <1>29 DEF Next, HandlerStep, SendStep

LEMMA QueueKept ==
  ASSUME TypeOK, QueueInv, UNCHANGED queue,
         \A c \in Calls : call[c] = "queued" => call'[c] = "queued" /\ hold'[c] = hold[c]
  PROVE  QueueInv'
  <1>1. \A s \in Streams : queue[s] \in Seq(Calls)
    BY DEF TypeOK, HolderTypes
  <1>2. \A s \in Streams : \A i \in 1 .. Len(queue[s]) : queue[s][i] \in Calls
    BY <1>1
  <1> QED BY <1>2 DEF QueueInv

LEMMA QueueStep ==
  ASSUME TypeOK, QueueInv, Next
  PROVE  QueueInv'
  <1>1. ASSUME NEW c \in Calls, SendTaskGuarded(c) PROVE QueueInv'
    <2>1. CASE Offline(c)
      BY <1>1, <2>1, QueueKept DEF SendTaskGuarded, Fresh, Offline, GoTo, holder, TypeOK, SendTypes
    <2>2. ASSUME NEW r \in Streams, NEW g \in Guards,
                 Load(c, r, g), GoTo(c, "wait"), UNCHANGED holder
          PROVE  QueueInv'
      BY <1>1, <2>2, QueueKept DEF SendTaskGuarded, Fresh, Load, GoTo, holder, TypeOK, SendTypes
    <2> QED BY <1>1, <2>1, <2>2 DEF SendTaskGuarded
  <1>2. ASSUME NEW c \in Calls, QueueTaskGuarded(c) PROVE QueueInv'
    <2>1. call[c] = "new"
      BY <1>2 DEF QueueTaskGuarded, Fresh
    <2>2. CASE Offline(c)
      BY <2>1, <2>2, QueueKept DEF Offline, GoTo, holder, TypeOK, SendTypes
    <2>3. ASSUME NEW r \in Streams, NEW g \in Guards, Load(c, r, g), Enqueue(c, r)
          PROVE  QueueInv'
      <3>1. hold'[c] = r /\ \A d \in Calls \ {c} : hold'[d] = hold[d]
        BY <2>3 DEF Load, TypeOK, SendTypes
      <3>2. CASE failed[r] \/ Len(queue[r]) = QueueCap
        <4>1. call' = [call EXCEPT ![c] = "over"] /\ UNCHANGED queue
          BY <2>3, <3>2 DEF Enqueue, holder, GoTo
        <4>2. \A d \in Calls \ {c} : call'[d] = call[d]
          BY <4>1 DEF TypeOK, SendTypes
        <4> QED BY <2>1, <3>1, <4>1, <4>2, QueueKept
      <3>3. CASE ~(failed[r] \/ Len(queue[r]) = QueueCap)
        <4>1. /\ call' = [call EXCEPT ![c] = "queued"]
              /\ queue' = [queue EXCEPT ![r] = Append(queue[r], c)]
          BY <2>3, <3>3 DEF Enqueue, GoTo
        <4>2. /\ queue \in [Streams -> Seq(Calls)] /\ queue[r] \in Seq(Calls)
              /\ \A q \in Streams : queue'[q] = IF q = r THEN Append(queue[r], c) ELSE queue[q]
          BY <4>1 DEF TypeOK, HolderTypes
        <4>3. call'[c] = "queued" /\ \A d \in Calls \ {c} : call'[d] = call[d]
          BY <4>1 DEF TypeOK, SendTypes
        <4>4. \A q \in Streams : \A i \in 1 .. Len(queue[q]) :
                queue[q][i] \in Calls /\ queue[q][i] # c
          BY <2>1, <4>2 DEF QueueInv
        <4>5. ASSUME NEW q \in Streams, q # r, NEW i \in 1 .. Len(queue'[q]),
                     NEW j \in 1 .. Len(queue'[q])
              PROVE  /\ hold'[queue'[q][i]] = q /\ call'[queue'[q][i]] = "queued"
                     /\ queue'[q][i] = queue'[q][j] => i = j
          <5>1. queue'[q] = queue[q]
            BY <4>2, <4>5
          <5>2. queue[q][i] \in Calls \ {c} /\ i \in 1 .. Len(queue[q]) /\ j \in 1 .. Len(queue[q])
            BY <4>4, <5>1
          <5> QED BY <3>1, <4>3, <5>1, <5>2 DEF QueueInv
        <4>6. ASSUME NEW i \in 1 .. Len(queue'[r]), NEW j \in 1 .. Len(queue'[r])
              PROVE  /\ hold'[queue'[r][i]] = r /\ call'[queue'[r][i]] = "queued"
                     /\ queue'[r][i] = queue'[r][j] => i = j
          <5>1. queue'[r] = Append(queue[r], c)
            BY <4>2
          <5>2. /\ Len(queue'[r]) = Len(queue[r]) + 1 /\ Len(queue[r]) \in Nat
                /\ \A k \in 1 .. Len(queue[r]) : queue'[r][k] = queue[r][k]
                /\ queue'[r][Len(queue[r]) + 1] = c
            BY <4>2, <5>1, AppendFacts
          <5>3. \A k \in 1 .. Len(queue'[r]) : k \in 1 .. Len(queue[r]) \/ k = Len(queue[r]) + 1
            BY <5>2
          <5> QED BY <3>1, <4>3, <4>4, <5>2, <5>3, SMTT(20) DEF QueueInv
        <4> QED BY <4>5, <4>6 DEF QueueInv
      <3> QED BY <3>2, <3>3
    <2> QED BY <1>2, <2>2, <2>3 DEF QueueTaskGuarded
  <1>3. ASSUME NEW s \in Streams, DrainTasks(s) PROVE QueueInv'
    <2>1. CASE queue[s] = <<>>
      BY <1>3, <2>1, QueueKept DEF DrainTasks
    <2>2. CASE queue[s] # <<>>
      <3> DEFINE n == Head(queue[s])
      <3>1. /\ job \in [Streams -> 0 .. MaxCalls] /\ queue \in [Streams -> Seq(Calls)]
            /\ queue[s] \in Seq(Calls)
        BY DEF TypeOK, HolderTypes
      <3>2. n \in Calls /\ 1 \in 1 .. Len(queue[s]) /\ n = queue[s][1]
        BY <2>2, <3>1
      <3>3. /\ call' = [call EXCEPT ![n] = "wait"] /\ hold' = hold
            /\ queue' = [queue EXCEPT ![s] = Tail(queue[s])]
        BY <1>3, <2>2, <3>1 DEF DrainTasks, GoTo
      <3>4. \A d \in Calls \ {n} : call'[d] = call[d]
        BY <3>3 DEF TypeOK, SendTypes
      <3>5. ASSUME NEW q \in Streams, q # s
            PROVE  /\ queue'[q] = queue[q]
                   /\ \A i \in 1 .. Len(queue[q]) : queue[q][i] \in Calls \ {n}
        <4>1. queue'[q] = queue[q] /\ queue[q] \in Seq(Calls)
          BY <3>1, <3>3, <3>5
        <4>2. hold[n] = s /\ \A i \in 1 .. Len(queue[q]) : hold[queue[q][i]] = q
          BY <3>2 DEF QueueInv
        <4> QED BY <3>5, <4>1, <4>2
      <3>6. /\ queue'[s] = Tail(queue[s]) /\ Len(queue[s]) \in Nat \ {0}
            /\ Len(Tail(queue[s])) = Len(queue[s]) - 1
            /\ \A i \in 1 .. Len(Tail(queue[s])) :
                 i + 1 \in 1 .. Len(queue[s]) /\ Tail(queue[s])[i] = queue[s][i + 1]
        BY <2>2, <3>1, <3>3
      <3>7. \A i \in 1 .. Len(queue'[s]) : queue'[s][i] \in Calls \ {n}
        BY <3>1, <3>2, <3>6 DEF QueueInv
      <3>8. ASSUME NEW i \in 1 .. Len(queue'[s]), NEW j \in 1 .. Len(queue'[s])
            PROVE  /\ hold'[queue'[s][i]] = s /\ call'[queue'[s][i]] = "queued"
                   /\ queue'[s][i] = queue'[s][j] => i = j
        <4>1. /\ i + 1 \in 1 .. Len(queue[s]) /\ queue'[s][i] = queue[s][i + 1]
              /\ j + 1 \in 1 .. Len(queue[s]) /\ queue'[s][j] = queue[s][j + 1]
          BY <3>6
        <4>2. /\ hold[queue[s][i + 1]] = s /\ call[queue[s][i + 1]] = "queued"
              /\ queue[s][i + 1] = queue[s][j + 1] => i + 1 = j + 1
          BY <4>1 DEF QueueInv
        <4>3. i + 1 = j + 1 => i = j
          BY <3>6
        <4> QED BY <3>3, <3>4, <3>7, <4>1, <4>2, <4>3
      <3>9. ASSUME NEW q \in Streams, q # s, NEW i \in 1 .. Len(queue'[q]),
                   NEW j \in 1 .. Len(queue'[q])
            PROVE  /\ hold'[queue'[q][i]] = q /\ call'[queue'[q][i]] = "queued"
                   /\ queue'[q][i] = queue'[q][j] => i = j
        BY <3>3, <3>4, <3>5, <3>9 DEF QueueInv
      <3> QED BY <3>8, <3>9 DEF QueueInv
    <2> QED BY <2>1, <2>2
  <1>4. ASSUME NEW c \in Calls, AcquirePermit(c) PROVE QueueInv'
    BY <1>4, QueueKept DEF AcquirePermit, GoTo, TypeOK, SendTypes, holder, sends
  <1>5. ASSUME NEW c \in Calls, GiveUp(c) PROVE QueueInv'
    BY <1>5, QueueKept DEF GiveUp, GoTo, TypeOK, SendTypes, holder, sends
  <1>6. ASSUME NEW c \in Calls, Start(c) PROVE QueueInv'
    BY <1>6, QueueKept DEF Start, GoTo, TypeOK, SendTypes, holder, sends
  <1>7. ASSUME NEW c \in Calls, Refuse(c) PROVE QueueInv'
    BY <1>7, QueueKept DEF Refuse, GoTo, TypeOK, SendTypes, holder, sends
  <1>8. ASSUME NEW c \in Calls, Answered(c) PROVE QueueInv'
    BY <1>8, QueueKept DEF Answered, GoTo, TypeOK, SendTypes, holder, sends
  <1>9. ASSUME NEW c \in Calls, Abandon(c) PROVE QueueInv'
    BY <1>9, QueueKept DEF Abandon, GoTo, Stalled, TypeOK, SendTypes, holder, sends
  <1>10. ASSUME NEW s \in Streams,
                RequestTask(s) \/ SetTaskStream(s)
                \/ TaskStreamFailure(s) \/ Receive(s) \/ RolledBack(s)
                \/ Leave(s) \/ FindCurrent(s)
                \/ ClearTaskStreamIfCurrent(s) \/ AgentDrop(s)
                \/ RollBack(s)
         PROVE  QueueInv'
    <2>1. UNCHANGED <<queue, hold, call>>
      BY <1>10 DEF RequestTask, SetTaskStream, TaskStreamFailure, Receive,
          RolledBack, Leave, FindCurrent, ClearTaskStreamIfCurrent,
          AgentDrop, RollBack, objects, handlers, holder, sends, control
    <2> QED BY <2>1 DEF QueueInv
  <1>11. ASSUME NEW c \in Calls,
                Recheck(c) \/ Finish(c) \/ Release(c) \/ Admit(c)
                \/ SendReturns(c)
         PROVE  QueueInv'
    <2>1. UNCHANGED <<queue, hold, call>>
      BY <1>11 DEF Recheck, Finish, Release, Admit, SendReturns, objects,
          handlers, holder, sends, control
    <2> QED BY <2>1 DEF QueueInv
  <1>12. ASSUME CopyFromRunningServer \/ Update \/ Delete
                \/ BeginTransfer \/ Settle
         PROVE  QueueInv'
    <2>1. UNCHANGED <<queue, hold, call>>
      BY <1>12 DEF CopyFromRunningServer, Update, Delete, BeginTransfer, Settle,
          objects, handlers, holder, sends, control
    <2> QED BY <2>1 DEF QueueInv
  <1> QED BY <1>1, <1>2, <1>3, <1>4, <1>5, <1>6, <1>7, <1>8, <1>9, <1>10,
             <1>11, <1>12
         DEF Next, HandlerStep, SendStep

LEMMA GoroutineStep ==
  ASSUME TypeOK, QueueInv, GoroutineInv, Next
  PROVE  GoroutineInv'
  <1>1. ASSUME NEW s \in Streams, DrainTasks(s) PROVE GoroutineInv'
    <2>1. queue[s] \in Seq(Calls)
      BY DEF TypeOK, HolderTypes
    <2>2. CASE queue[s] = <<>>
      BY <1>1, <2>2 DEF DrainTasks, GoroutineInv
    <2>3. CASE queue[s] # <<>>
      <3>1. Head(queue[s]) \in Calls /\ 1 \in 1 .. Len(queue[s]) /\ Head(queue[s]) = queue[s][1]
        BY <2>1, <2>3
      <3>2. call[Head(queue[s])] = "queued"
        BY <3>1 DEF QueueInv
      <3>3. call' = [call EXCEPT ![Head(queue[s])] = "wait"] /\ go' = go
        BY <1>1, <2>3 DEF DrainTasks, GoTo, TypeOK, HolderTypes
      <3> QED BY <3>1, <3>2, <3>3 DEF GoroutineInv, TypeOK, SendTypes
    <2> QED BY <2>2, <2>3
  <1>2. ASSUME NEW c \in Calls, SendTaskGuarded(c) PROVE GoroutineInv'
    BY <1>2 DEF SendTaskGuarded, GoTo, Run, Offline, Fresh, GoroutineInv, TypeOK, SendTypes, sends
  <1>3. ASSUME NEW c \in Calls, QueueTaskGuarded(c) PROVE GoroutineInv'
    BY <1>3 DEF QueueTaskGuarded, GoTo, Run, Offline, Enqueue, Fresh, GoroutineInv, TypeOK, SendTypes, sends
  <1>4. ASSUME NEW c \in Calls, AcquirePermit(c) PROVE GoroutineInv'
    BY <1>4 DEF AcquirePermit, GoTo, Run, GoroutineInv, TypeOK, SendTypes, sends
  <1>5. ASSUME NEW c \in Calls, GiveUp(c) PROVE GoroutineInv'
    BY <1>5 DEF GiveUp, GoTo, Run, GoroutineInv, TypeOK, SendTypes, sends
  <1>6. ASSUME NEW c \in Calls, Start(c) PROVE GoroutineInv'
    BY <1>6 DEF Start, GoTo, Run, GoroutineInv, TypeOK, SendTypes, sends
  <1>7. ASSUME NEW c \in Calls, Refuse(c) PROVE GoroutineInv'
    BY <1>7 DEF Refuse, GoTo, Run, GoroutineInv, TypeOK, SendTypes, sends
  <1>8. ASSUME NEW c \in Calls, Answered(c) PROVE GoroutineInv'
    BY <1>8 DEF Answered, GoTo, Run, GoroutineInv, TypeOK, SendTypes, sends
  <1>9. ASSUME NEW c \in Calls, Abandon(c) PROVE GoroutineInv'
    BY <1>9 DEF Abandon, GoTo, Run, Stalled, GoroutineInv, TypeOK, SendTypes, sends
  <1>10. ASSUME NEW c \in Calls, Recheck(c) PROVE GoroutineInv'
    BY <1>10 DEF Recheck, GoTo, Run, GoroutineInv, TypeOK, SendTypes, sends
  <1>11. ASSUME NEW c \in Calls, Finish(c) PROVE GoroutineInv'
    BY <1>11 DEF Finish, GoTo, Run, GoroutineInv, TypeOK, SendTypes, sends
  <1>12. ASSUME NEW c \in Calls, Release(c) PROVE GoroutineInv'
    BY <1>12 DEF Release, GoTo, Run, GoroutineInv, TypeOK, SendTypes, sends
  <1>13. ASSUME NEW c \in Calls, Admit(c) PROVE GoroutineInv'
    BY <1>13 DEF Admit, GoTo, Run, GoroutineInv, TypeOK, SendTypes, sends
  <1>14. ASSUME NEW c \in Calls, SendReturns(c) PROVE GoroutineInv'
    BY <1>14 DEF SendReturns, GoTo, Run, GoroutineInv, TypeOK, SendTypes, sends
  <1>15. ASSUME NEW s \in Streams,
                RequestTask(s) \/ SetTaskStream(s)
                \/ TaskStreamFailure(s) \/ Receive(s) \/ RolledBack(s)
                \/ Leave(s) \/ FindCurrent(s)
                \/ ClearTaskStreamIfCurrent(s) \/ AgentDrop(s)
                \/ RollBack(s)
         PROVE  GoroutineInv'
    <2>1. UNCHANGED <<call, go>>
      BY <1>15 DEF RequestTask, SetTaskStream, TaskStreamFailure, Receive,
          RolledBack, Leave, FindCurrent, ClearTaskStreamIfCurrent,
          AgentDrop, RollBack, objects, handlers, holder, sends, control
    <2> QED BY <2>1 DEF GoroutineInv
  <1>16. ASSUME CopyFromRunningServer \/ Update \/ Delete
                \/ BeginTransfer \/ Settle
         PROVE  GoroutineInv'
    <2>1. UNCHANGED <<call, go>>
      BY <1>16 DEF CopyFromRunningServer, Update, Delete, BeginTransfer, Settle,
          objects, handlers, holder, sends, control
    <2> QED BY <2>1 DEF GoroutineInv
  <1> QED BY <1>1, <1>2, <1>3, <1>4, <1>5, <1>6, <1>7, <1>8, <1>9, <1>10,
             <1>11, <1>12, <1>13, <1>14, <1>15, <1>16
         DEF Next, HandlerStep, SendStep

LEMMA PermitStep ==
  ASSUME TypeOK, GoroutineInv, PermitInv, Next
  PROVE  PermitInv'
  <1>1. ASSUME NEW s \in Streams, DrainTasks(s) PROVE PermitInv'
    <2>1. /\ UNCHANGED <<hold, go, permit>>
          /\ \A c \in Calls : call'[c] = "check" => call[c] = "check"
      BY <1>1 DEF DrainTasks, GoTo, TypeOK, SendTypes
    <2> QED BY <2>1 DEF PermitInv, Sending
  <1>2. ASSUME NEW c \in Calls, SendTaskGuarded(c) PROVE PermitInv'
    <2>1. CASE Offline(c)
      BY <1>2, <2>1 DEF SendTaskGuarded, Offline, GoTo, PermitInv, Sending, TypeOK, SendTypes, holder
    <2>2. ASSUME NEW r \in Streams, NEW g \in Guards,
                 Load(c, r, g), GoTo(c, "wait"), UNCHANGED holder
          PROVE  PermitInv'
      BY <1>2, <2>2 DEF SendTaskGuarded, Fresh, Load, GoTo, PermitInv, Sending, GoroutineInv,
                        TypeOK, SendTypes, holder
    <2> QED BY <1>2, <2>1, <2>2 DEF SendTaskGuarded
  <1>3. ASSUME NEW c \in Calls, QueueTaskGuarded(c) PROVE PermitInv'
    <2>1. CASE Offline(c)
      BY <1>3, <2>1 DEF QueueTaskGuarded, Offline, GoTo, PermitInv, Sending, TypeOK, SendTypes, holder
    <2>2. ASSUME NEW r \in Streams, NEW g \in Guards, Load(c, r, g), Enqueue(c, r)
          PROVE  PermitInv'
      <3>1. UNCHANGED permit /\ \E next \in {"over", "queued"} : call' = [call EXCEPT ![c] = next]
        BY <2>2 DEF Enqueue, GoTo, holder
      <3> QED BY <1>3, <2>2, <3>1 DEF QueueTaskGuarded, Fresh, Load, PermitInv, Sending,
                                       GoroutineInv, TypeOK, SendTypes
    <2> QED BY <1>3, <2>1, <2>2 DEF QueueTaskGuarded
  <1>4. ASSUME NEW c \in Calls, AcquirePermit(c) PROVE PermitInv'
    <2>1. hold[c] \in Streams /\ None \notin Calls /\ hold \in [Calls -> 0 .. MaxStreams]
      BY <1>4, Numbers DEF AcquirePermit, TypeOK, SendTypes
    <2>2. /\ permit' = [permit EXCEPT ![hold[c]] = c] /\ permit[hold[c]] = None
          /\ call' = [call EXCEPT ![c] = "check"] /\ UNCHANGED <<hold, go>>
      BY <1>4 DEF AcquirePermit, GoTo
    <2>3. permit \in [Streams -> 0 .. MaxCalls]
      BY DEF TypeOK, HolderTypes
    <2>4. \A d \in Calls \ {c} : call[d] = "check" \/ Sending(d) => hold[d] # hold[c]
      BY <2>1, <2>2 DEF PermitInv
    <2>5. ASSUME NEW d \in Calls, call'[d] = "check" \/ Sending(d)' PROVE permit'[hold'[d]] = d
      <3>1. CASE d = c
        BY <2>1, <2>2, <2>3, <3>1
      <3>2. CASE d # c
        <4>1. (call[d] = "check" \/ Sending(d)) /\ hold'[d] = hold[d]
          BY <2>2, <2>5, <3>2 DEF Sending, TypeOK, SendTypes
        <4> QED BY <2>2, <2>3, <2>4, <3>2, <4>1 DEF PermitInv
      <3> QED BY <3>1, <3>2
    <2> QED BY <2>5 DEF PermitInv
  <1>5. ASSUME NEW c \in Calls, GiveUp(c) PROVE PermitInv'
    BY <1>5 DEF GiveUp, GoTo, Run, PermitInv, Sending, GoroutineInv, TypeOK, SendTypes, HolderTypes, sends, holder
  <1>6. ASSUME NEW c \in Calls, Start(c) PROVE PermitInv'
    BY <1>6 DEF Start, GoTo, Run, PermitInv, Sending, GoroutineInv, TypeOK, SendTypes, HolderTypes, sends, holder
  <1>7. ASSUME NEW c \in Calls, Refuse(c) PROVE PermitInv'
    BY <1>7 DEF Refuse, GoTo, Run, Free, PermitInv, Sending, GoroutineInv, TypeOK, SendTypes, HolderTypes, sends, holder
  <1>8. ASSUME NEW c \in Calls, Answered(c) PROVE PermitInv'
    BY <1>8 DEF Answered, GoTo, Run, PermitInv, Sending, GoroutineInv, TypeOK, SendTypes, HolderTypes, sends, holder
  <1>9. ASSUME NEW c \in Calls, Abandon(c) PROVE PermitInv'
    BY <1>9 DEF Abandon, GoTo, Run, Stalled, PermitInv, Sending, GoroutineInv, TypeOK, SendTypes, HolderTypes, sends, holder
  <1>10. ASSUME NEW c \in Calls, Recheck(c) PROVE PermitInv'
    BY <1>10 DEF Recheck, GoTo, Run, PermitInv, Sending, GoroutineInv, TypeOK, SendTypes, HolderTypes, sends, holder
  <1>11. ASSUME NEW c \in Calls, Finish(c) PROVE PermitInv'
    BY <1>11 DEF Finish, GoTo, Run, Free, PermitInv, Sending, GoroutineInv, TypeOK, SendTypes, HolderTypes, sends, holder
  <1>12. ASSUME NEW c \in Calls, Release(c) PROVE PermitInv'
    BY <1>12 DEF Release, GoTo, Run, PermitInv, Sending, GoroutineInv, TypeOK, SendTypes, HolderTypes, sends, holder
  <1>13. ASSUME NEW c \in Calls, Admit(c) PROVE PermitInv'
    BY <1>13 DEF Admit, GoTo, Run, PermitInv, Sending, GoroutineInv, TypeOK, SendTypes, HolderTypes, sends, holder
  <1>14. ASSUME NEW c \in Calls, SendReturns(c) PROVE PermitInv'
    BY <1>14 DEF SendReturns, GoTo, Run, PermitInv, Sending, GoroutineInv, TypeOK, SendTypes, HolderTypes, sends, holder
  <1>15. ASSUME NEW s \in Streams,
                RequestTask(s) \/ SetTaskStream(s)
                \/ TaskStreamFailure(s) \/ Receive(s) \/ RolledBack(s)
                \/ Leave(s) \/ FindCurrent(s)
                \/ ClearTaskStreamIfCurrent(s) \/ AgentDrop(s)
                \/ RollBack(s)
         PROVE  PermitInv'
    <2>1. UNCHANGED <<call, hold, go, permit>>
      BY <1>15 DEF RequestTask, SetTaskStream, TaskStreamFailure, Receive,
          RolledBack, Leave, FindCurrent, ClearTaskStreamIfCurrent,
          AgentDrop, RollBack, objects, handlers, holder, sends, control
    <2> QED BY <2>1 DEF PermitInv, Sending
  <1>16. ASSUME CopyFromRunningServer \/ Update \/ Delete
                \/ BeginTransfer \/ Settle
         PROVE  PermitInv'
    <2>1. UNCHANGED <<call, hold, go, permit>>
      BY <1>16 DEF CopyFromRunningServer, Update, Delete, BeginTransfer, Settle,
          objects, handlers, holder, sends, control
    <2> QED BY <2>1 DEF PermitInv, Sending
  <1> QED BY <1>1, <1>2, <1>3, <1>4, <1>5, <1>6, <1>7, <1>8, <1>9, <1>10,
             <1>11, <1>12, <1>13, <1>14, <1>15, <1>16
         DEF Next, HandlerStep, SendStep

LEMMA AdmittedStep ==
  ASSUME TypeOK, GoroutineInv, AdmittedInv, Next
  PROVE  AdmittedInv'
  <1>1. ASSUME NEW s \in Streams, RollBack(s) PROVE AdmittedInv'
    BY <1>1 DEF RollBack, Run, AdmittedInv, TypeOK, SendTypes, ControlTypes, sends, control
  <1>2. ASSUME NEW c \in Calls, SendTaskGuarded(c) PROVE AdmittedInv'
    BY <1>2 DEF SendTaskGuarded, Run, Offline, Load, Fresh, GoroutineInv, AdmittedInv, TypeOK, SendTypes, ControlTypes, sends, control
  <1>3. ASSUME NEW c \in Calls, QueueTaskGuarded(c) PROVE AdmittedInv'
    BY <1>3 DEF QueueTaskGuarded, Run, Offline, Load, Fresh, GoroutineInv, AdmittedInv, TypeOK, SendTypes, ControlTypes, sends, control
  <1>4. ASSUME NEW c \in Calls, Start(c) PROVE AdmittedInv'
    BY <1>4 DEF Start, Run, AdmittedInv, TypeOK, SendTypes, ControlTypes, sends, control
  <1>5. ASSUME NEW c \in Calls, Recheck(c) PROVE AdmittedInv'
    BY <1>5 DEF Recheck, Run, AdmittedInv, TypeOK, SendTypes, ControlTypes, sends, control
  <1>6. ASSUME NEW c \in Calls, Finish(c) PROVE AdmittedInv'
    BY <1>6 DEF Finish, Run, Free, AdmittedInv, TypeOK, SendTypes, ControlTypes, sends, control
  <1>7. ASSUME NEW c \in Calls, Release(c) PROVE AdmittedInv'
    BY <1>7 DEF Release, Run, AdmittedInv, TypeOK, SendTypes, ControlTypes, sends, control
  <1>8. ASSUME NEW c \in Calls, Admit(c) PROVE AdmittedInv'
    BY <1>8 DEF Admit, Run, AdmittedInv, TypeOK, SendTypes, ControlTypes, sends, control
  <1>9. ASSUME NEW c \in Calls, SendReturns(c) PROVE AdmittedInv'
    BY <1>9 DEF SendReturns, Run, AdmittedInv, TypeOK, SendTypes, ControlTypes, sends, control
  <1>10. ASSUME BeginTransfer PROVE AdmittedInv'
    BY <1>10 DEF BeginTransfer, Run, AdmittedInv, TypeOK, SendTypes, ControlTypes, sends, control
  <1>11. ASSUME Settle PROVE AdmittedInv'
    BY <1>11 DEF Settle, Run, AdmittedInv, TypeOK, SendTypes, ControlTypes, sends, control
  <1>12. ASSUME NEW s \in Streams,
                RequestTask(s) \/ SetTaskStream(s)
                \/ TaskStreamFailure(s) \/ Receive(s) \/ RolledBack(s)
                \/ Leave(s) \/ FindCurrent(s)
                \/ ClearTaskStreamIfCurrent(s) \/ AgentDrop(s)
                \/ DrainTasks(s)
         PROVE  AdmittedInv'
    <2>1. UNCHANGED <<go, guard, leases, owner, moving>>
      BY <1>12 DEF RequestTask, SetTaskStream, TaskStreamFailure, Receive,
          RolledBack, Leave, FindCurrent, ClearTaskStreamIfCurrent,
          AgentDrop, DrainTasks, objects, handlers, holder, sends,
          control
    <2> QED BY <2>1 DEF AdmittedInv
  <1>13. ASSUME NEW c \in Calls,
                AcquirePermit(c) \/ GiveUp(c) \/ Refuse(c)
                \/ Answered(c) \/ Abandon(c)
         PROVE  AdmittedInv'
    <2>1. UNCHANGED <<go, guard, leases, owner, moving>>
      BY <1>13 DEF AcquirePermit, GiveUp, Refuse, Answered, Abandon, Stalled,
          objects, handlers, holder, sends, control
    <2> QED BY <2>1 DEF AdmittedInv
  <1>14. ASSUME CopyFromRunningServer \/ Update \/ Delete
         PROVE  AdmittedInv'
    <2>1. UNCHANGED <<go, guard, leases, owner, moving>>
      BY <1>14 DEF CopyFromRunningServer, Update, Delete, objects, handlers,
          holder, sends, control
    <2> QED BY <2>1 DEF AdmittedInv
  <1> QED BY <1>1, <1>2, <1>3, <1>4, <1>5, <1>6, <1>7, <1>8, <1>9, <1>10,
             <1>11, <1>12, <1>13, <1>14
         DEF Next, HandlerStep, SendStep

(* What is published of the streams. Without "editRace" an edit and an      *)
(* attachment do not overlap.                                                *)
LEMMA DraftStep ==
  ASSUME TypeOK, DraftInv, HandoverInv, AttachedInv, PublishedStreamLives, "editRace" \notin Ops, Next
  PROVE  DraftInv'
  <1>1. ASSUME NEW s \in Streams, RequestTask(s) PROVE DraftInv'
    BY <1>1 DEF RequestTask, Handler, NoDraft, DraftInv, TypeOK, ObjectTypes, HandlerTypes, objects, handlers
  <1>2. ASSUME NEW s \in Streams, TaskStreamFailure(s) PROVE DraftInv'
    BY <1>2 DEF TaskStreamFailure, Handler, DraftInv, TypeOK, ObjectTypes, HandlerTypes, objects, handlers
  <1>3. ASSUME NEW s \in Streams, Receive(s) PROVE DraftInv'
    BY <1>3 DEF Receive, Handler, DraftInv, TypeOK, ObjectTypes, HandlerTypes, objects, handlers
  <1>4. ASSUME NEW s \in Streams, RolledBack(s) PROVE DraftInv'
    BY <1>4 DEF RolledBack, Handler, DraftInv, TypeOK, ObjectTypes, HandlerTypes, objects, handlers
  <1>5. ASSUME NEW s \in Streams, Leave(s) PROVE DraftInv'
    BY <1>5 DEF Leave, Handler, DraftInv, TypeOK, ObjectTypes, HandlerTypes, objects, handlers
  <1>6. ASSUME NEW s \in Streams, FindCurrent(s) PROVE DraftInv'
    BY <1>6 DEF FindCurrent, Handler, NoDraft, DraftInv, TypeOK, ObjectTypes, HandlerTypes, objects, handlers
  <1>7. ASSUME NEW s \in Streams, SetTaskStream(s) PROVE DraftInv'
    BY <1>7 DEF SetTaskStream, Handler, DraftInv, TypeOK, ObjectTypes, HandlerTypes, objects, handlers
  <1>8. ASSUME NEW s \in Streams, ClearTaskStreamIfCurrent(s) PROVE DraftInv'
    BY <1>8 DEF ClearTaskStreamIfCurrent, Handler, DraftInv, TypeOK, ObjectTypes, HandlerTypes, objects, handlers
  <1>9. ASSUME CopyFromRunningServer PROVE DraftInv'
    <2>1. /\ current # None /\ last' = last + 1 /\ draft' = last + 1 /\ current' = current
          /\ ptr' = [ptr EXCEPT ![last + 1] = ptr[current]] /\ hpc' = hpc
          /\ \A s \in Streams : hpc[s] \notin {"attach", "detach"}
      BY <1>9 DEF CopyFromRunningServer, NoHandover, handlers
    <2>2. last \in Nat /\ current \in Nat /\ last + 1 \in Objects /\ current # last + 1 /\ current <= last
      BY <1>9, BoundsAssumption DEF CopyFromRunningServer, DraftInv, TypeOK, ObjectTypes, Objects
    <2>3. current \in Objects
      BY <2>1, Numbers DEF TypeOK, ObjectTypes
    <2>4. ptr'[last + 1] = ptr[current] /\ ptr'[current] = ptr[current]
      BY <2>1, <2>2, <2>3 DEF TypeOK, ObjectTypes
    <2> QED BY <2>1, <2>2, <2>4 DEF DraftInv
  <1>10. ASSUME Update PROVE DraftInv'
    <2>1. draft \in Nat /\ last \in Nat /\ None \in Nat
      BY BoundsAssumption DEF TypeOK, ObjectTypes, Objects, None
    <2> QED BY <1>10, <2>1 DEF Update, DraftInv, handlers
  <1>11. ASSUME Delete PROVE DraftInv'
    <2>1. last \in Nat /\ None <= last
      BY BoundsAssumption DEF TypeOK, ObjectTypes, Objects, None
    <2> QED BY <1>11, <2>1 DEF Delete, NoDraft, DraftInv
  <1>12. ASSUME NEW s \in Streams,
                AgentDrop(s) \/ DrainTasks(s) \/ RollBack(s)
         PROVE  DraftInv'
    <2>1. UNCHANGED <<current, last, draft, ptr, hpc>>
      BY <1>12 DEF AgentDrop, DrainTasks, RollBack, objects, handlers, holder,
          sends, control
    <2> QED BY <2>1 DEF DraftInv
  <1>13. ASSUME NEW c \in Calls,
                SendTaskGuarded(c) \/ QueueTaskGuarded(c)
                \/ AcquirePermit(c) \/ GiveUp(c) \/ Start(c)
                \/ Refuse(c) \/ Answered(c) \/ Abandon(c) \/ Recheck(c)
                \/ Finish(c) \/ Release(c) \/ Admit(c) \/ SendReturns(c)
         PROVE  DraftInv'
    <2>1. UNCHANGED <<current, last, draft, ptr, hpc>>
      BY <1>13 DEF SendTaskGuarded, QueueTaskGuarded, AcquirePermit, GiveUp,
          Start, Refuse, Answered, Abandon, Recheck, Finish, Release,
          Admit, SendReturns, Stalled, Offline, Load, objects, handlers,
          holder, sends, control
    <2> QED BY <2>1 DEF DraftInv
  <1>14. ASSUME BeginTransfer \/ Settle
         PROVE  DraftInv'
    <2>1. UNCHANGED <<current, last, draft, ptr, hpc>>
      BY <1>14 DEF BeginTransfer, Settle, objects, handlers, holder, sends,
          control
    <2> QED BY <2>1 DEF DraftInv
  <1> QED BY <1>1, <1>2, <1>3, <1>4, <1>5, <1>6, <1>7, <1>8, <1>9, <1>10,
             <1>11, <1>12, <1>13, <1>14
         DEF Next, HandlerStep, SendStep

LEMMA HandoverStep ==
  ASSUME TypeOK, DraftInv, HandoverInv, AttachedInv, PublishedStreamLives, "editRace" \notin Ops, Next
  PROVE  HandoverInv'
  <1>1. ASSUME NEW s \in Streams, RequestTask(s) PROVE HandoverInv'
    BY <1>1 DEF RequestTask, Handler, HandoverInv, TypeOK, ObjectTypes, HandlerTypes, objects, handlers
  <1>2. ASSUME NEW s \in Streams, TaskStreamFailure(s) PROVE HandoverInv'
    BY <1>2 DEF TaskStreamFailure, Handler, HandoverInv, TypeOK, ObjectTypes, HandlerTypes, objects, handlers
  <1>3. ASSUME NEW s \in Streams, Receive(s) PROVE HandoverInv'
    BY <1>3 DEF Receive, Handler, HandoverInv, TypeOK, ObjectTypes, HandlerTypes, objects, handlers
  <1>4. ASSUME NEW s \in Streams, RolledBack(s) PROVE HandoverInv'
    BY <1>4 DEF RolledBack, Handler, HandoverInv, TypeOK, ObjectTypes, HandlerTypes, objects, handlers
  <1>5. ASSUME NEW s \in Streams, Leave(s) PROVE HandoverInv'
    BY <1>5 DEF Leave, Handler, HandoverInv, TypeOK, ObjectTypes, HandlerTypes, objects, handlers
  <1>6. ASSUME NEW s \in Streams, SetTaskStream(s) PROVE HandoverInv'
    BY <1>6 DEF SetTaskStream, Handler, HandoverInv, TypeOK, ObjectTypes, HandlerTypes, objects, handlers
  <1>7. ASSUME NEW s \in Streams, ClearTaskStreamIfCurrent(s) PROVE HandoverInv'
    BY <1>7 DEF ClearTaskStreamIfCurrent, Handler, HandoverInv, TypeOK, ObjectTypes, HandlerTypes, objects, handlers
  <1>8. ASSUME NEW s \in Streams, FindCurrent(s) PROVE HandoverInv'
    BY <1>8 DEF FindCurrent, Handler, HandoverInv, TypeOK, ObjectTypes, HandlerTypes, objects, handlers
  <1>9. ASSUME Update PROVE HandoverInv'
    BY <1>9 DEF Update, DraftInv, HandoverInv, handlers
  <1>10. ASSUME Delete PROVE HandoverInv'
    BY <1>10 DEF Delete, HandoverInv
  <1>11. ASSUME NEW s \in Streams,
                AgentDrop(s) \/ DrainTasks(s) \/ RollBack(s)
         PROVE  HandoverInv'
    <2>1. UNCHANGED <<current, hpc, hobj>>
      BY <1>11 DEF AgentDrop, DrainTasks, RollBack, objects, handlers, holder,
          sends, control
    <2> QED BY <2>1 DEF HandoverInv
  <1>12. ASSUME NEW c \in Calls,
                SendTaskGuarded(c) \/ QueueTaskGuarded(c)
                \/ AcquirePermit(c) \/ GiveUp(c) \/ Start(c)
                \/ Refuse(c) \/ Answered(c) \/ Abandon(c) \/ Recheck(c)
                \/ Finish(c) \/ Release(c) \/ Admit(c) \/ SendReturns(c)
         PROVE  HandoverInv'
    <2>1. UNCHANGED <<current, hpc, hobj>>
      BY <1>12 DEF SendTaskGuarded, QueueTaskGuarded, AcquirePermit, GiveUp,
          Start, Refuse, Answered, Abandon, Recheck, Finish, Release,
          Admit, SendReturns, Stalled, Offline, Load, objects, handlers,
          holder, sends, control
    <2> QED BY <2>1 DEF HandoverInv
  <1>13. ASSUME CopyFromRunningServer \/ BeginTransfer \/ Settle
         PROVE  HandoverInv'
    <2>1. UNCHANGED <<current, hpc, hobj>>
      BY <1>13 DEF CopyFromRunningServer, BeginTransfer, Settle, objects,
          handlers, holder, sends, control
    <2> QED BY <2>1 DEF HandoverInv
  <1> QED BY <1>1, <1>2, <1>3, <1>4, <1>5, <1>6, <1>7, <1>8, <1>9, <1>10,
             <1>11, <1>12, <1>13
         DEF Next, HandlerStep, SendStep

LEMMA AttachedStep ==
  ASSUME TypeOK, DraftInv, HandoverInv, AttachedInv, PublishedStreamLives, "editRace" \notin Ops, Next
  PROVE  AttachedInv'
  <1>1. ASSUME NEW s \in Streams, RequestTask(s) PROVE AttachedInv'
    BY <1>1 DEF RequestTask, Handler, AttachedInv, TypeOK, ObjectTypes, HandlerTypes, objects, handlers
  <1>2. ASSUME NEW s \in Streams, TaskStreamFailure(s) PROVE AttachedInv'
    BY <1>2 DEF TaskStreamFailure, Handler, AttachedInv, TypeOK, ObjectTypes, HandlerTypes, objects, handlers
  <1>3. ASSUME NEW s \in Streams, Receive(s) PROVE AttachedInv'
    BY <1>3 DEF Receive, Handler, AttachedInv, TypeOK, ObjectTypes, HandlerTypes, objects, handlers
  <1>4. ASSUME NEW s \in Streams, RolledBack(s) PROVE AttachedInv'
    BY <1>4 DEF RolledBack, Handler, AttachedInv, TypeOK, ObjectTypes, HandlerTypes, objects, handlers
  <1>5. ASSUME NEW s \in Streams, Leave(s) PROVE AttachedInv'
    BY <1>5 DEF Leave, Handler, AttachedInv, TypeOK, ObjectTypes, HandlerTypes, objects, handlers
  <1>6. ASSUME NEW s \in Streams, FindCurrent(s) PROVE AttachedInv'
    BY <1>6 DEF FindCurrent, Handler, AttachedInv, TypeOK, ObjectTypes, HandlerTypes, objects, handlers
  <1>7. ASSUME NEW s \in Streams, SetTaskStream(s) PROVE AttachedInv'
    <2>1. hobj[s] \in Objects /\ (current # None => hobj[s] = current)
      BY <1>7, Numbers DEF SetTaskStream, Handler, HandoverInv, TypeOK, HandlerTypes
    <2>2. /\ hpc' = [hpc EXCEPT ![s] = "watch"] /\ ptr' = [ptr EXCEPT ![hobj[s]] = s]
          /\ failed' = [r \in Streams |-> failed[r] \/ r = ptr[hobj[s]]] /\ current' = current
      BY <1>7 DEF SetTaskStream, Handler, Fail
    <2>3. ptr'[hobj[s]] = s
      BY <2>1, <2>2 DEF TypeOK, ObjectTypes
    <2>4. ASSUME NEW r \in Streams, hpc'[r] \in {"watch", "serve", "rollback"}, ~failed'[r], current' # None
          PROVE  ptr'[current'] = r
      <3>1. CASE r = s
        BY <2>1, <2>2, <2>3, <2>4, <3>1
      <3>2. CASE r # s
        <4>1. hpc[r] \in {"watch", "serve", "rollback"} /\ ~failed[r] /\ r # ptr[hobj[s]]
          BY <2>2, <2>4, <3>2 DEF TypeOK, HandlerTypes
        <4>2. ptr[current] = r
          BY <2>2, <2>4, <4>1 DEF AttachedInv
        <4> QED BY <2>1, <2>2, <2>4, <4>1, <4>2
      <3> QED BY <3>1, <3>2
    <2> QED BY <2>4 DEF AttachedInv
  <1>8. ASSUME NEW s \in Streams, ClearTaskStreamIfCurrent(s) PROVE AttachedInv'
    <2>1. hobj[s] \in Objects /\ (current # None => hobj[s] = current)
      BY <1>8, Numbers DEF ClearTaskStreamIfCurrent, Handler, HandoverInv, TypeOK, HandlerTypes
    <2>2. /\ hpc' = [hpc EXCEPT ![s] = "over"] /\ current' = current
          /\ \A r \in Streams : failed[r] => failed'[r]
          /\ \/ ptr' = ptr \/ ptr[hobj[s]] = s
      BY <1>8 DEF ClearTaskStreamIfCurrent, Handler, Fail
    <2>3. ASSUME NEW r \in Streams, hpc'[r] \in {"watch", "serve", "rollback"}, ~failed'[r], current' # None
          PROVE  ptr'[current'] = r
      <3>1. r # s /\ hpc[r] \in {"watch", "serve", "rollback"} /\ ~failed[r]
        BY <2>2, <2>3 DEF TypeOK, HandlerTypes
      <3>2. ptr[current] = r /\ hobj[s] = current
        BY <2>1, <2>2, <2>3, <3>1 DEF AttachedInv
      <3> QED BY <2>2, <3>1, <3>2
    <2> QED BY <2>3 DEF AttachedInv
  <1>9. ASSUME NEW c \in Calls, Abandon(c) PROVE AttachedInv'
    <2>1. UNCHANGED <<current, ptr, hpc>> /\ \A r \in Streams : failed[r] => failed'[r]
      BY <1>9 DEF Abandon, Stalled, Fail, objects, handlers
    <2> QED BY <2>1 DEF AttachedInv
  <1>10. ASSUME CopyFromRunningServer PROVE AttachedInv'
    <2>1. /\ current # None /\ current' = current /\ UNCHANGED <<hpc, failed>>
          /\ ptr' = [ptr EXCEPT ![last + 1] = ptr[current]]
      BY <1>10 DEF CopyFromRunningServer, handlers
    <2>2. current # last + 1 /\ current \in Objects
      BY <2>1, Numbers, BoundsAssumption DEF DraftInv, TypeOK, ObjectTypes, Objects
    <2>3. ptr'[current] = ptr[current]
      BY <2>1, <2>2 DEF TypeOK, ObjectTypes
    <2> QED BY <2>1, <2>3 DEF AttachedInv
  <1>11. ASSUME Update PROVE AttachedInv'
    BY <1>11 DEF Update, DraftInv, AttachedInv, handlers
  <1>12. ASSUME Delete PROVE AttachedInv'
    BY <1>12 DEF Delete, AttachedInv
  <1>13. ASSUME NEW s \in Streams,
                AgentDrop(s) \/ DrainTasks(s) \/ RollBack(s)
         PROVE  AttachedInv'
    <2>1. UNCHANGED <<current, ptr, hpc, failed>>
      BY <1>13 DEF AgentDrop, DrainTasks, RollBack, objects, handlers, holder,
          sends, control
    <2> QED BY <2>1 DEF AttachedInv
  <1>14. ASSUME NEW c \in Calls,
                SendTaskGuarded(c) \/ QueueTaskGuarded(c)
                \/ AcquirePermit(c) \/ GiveUp(c) \/ Start(c)
                \/ Refuse(c) \/ Answered(c) \/ Recheck(c) \/ Finish(c)
                \/ Release(c) \/ Admit(c) \/ SendReturns(c)
         PROVE  AttachedInv'
    <2>1. UNCHANGED <<current, ptr, hpc, failed>>
      BY <1>14 DEF SendTaskGuarded, QueueTaskGuarded, AcquirePermit, GiveUp,
          Start, Refuse, Answered, Recheck, Finish, Release, Admit,
          SendReturns, Offline, Load, objects, handlers, holder, sends,
          control
    <2> QED BY <2>1 DEF AttachedInv
  <1>15. ASSUME BeginTransfer \/ Settle
         PROVE  AttachedInv'
    <2>1. UNCHANGED <<current, ptr, hpc, failed>>
      BY <1>15 DEF BeginTransfer, Settle, objects, handlers, holder, sends,
          control
    <2> QED BY <2>1 DEF AttachedInv
  <1> QED BY <1>1, <1>2, <1>3, <1>4, <1>5, <1>6, <1>7, <1>8, <1>9, <1>10,
             <1>11, <1>12, <1>13, <1>14, <1>15
         DEF Next, HandlerStep, SendStep

LEMMA PublishedKept ==
  ASSUME TypeOK, PublishedStreamLives, UNCHANGED <<current, ptr>>,
         \A r \in Streams : hpc'[r] = "over" => hpc[r] = "over"
  PROVE  PublishedStreamLives'
  <1>1. current # None => ptr[current] \in Streams \cup {None}
    BY Numbers DEF TypeOK, ObjectTypes
  <1> QED BY <1>1 DEF PublishedStreamLives

LEMMA PublishedStep ==
  ASSUME TypeOK, DraftInv, HandoverInv, AttachedInv, PublishedStreamLives, "editRace" \notin Ops, Next
  PROVE  PublishedStreamLives'
  <1>1. ASSUME NEW s \in Streams, RequestTask(s) PROVE PublishedStreamLives'
    <2>1. UNCHANGED <<current, ptr>> /\ \A r \in Streams : hpc'[r] = "over" => hpc[r] = "over"
      BY <1>1 DEF RequestTask, Handler, TypeOK, ObjectTypes, HandlerTypes, objects
    <2> QED BY <2>1, PublishedKept
  <1>2. ASSUME NEW s \in Streams, TaskStreamFailure(s) PROVE PublishedStreamLives'
    <2>1. UNCHANGED <<current, ptr>> /\ \A r \in Streams : hpc'[r] = "over" => hpc[r] = "over"
      BY <1>2 DEF TaskStreamFailure, Handler, TypeOK, ObjectTypes, HandlerTypes, objects
    <2> QED BY <2>1, PublishedKept
  <1>3. ASSUME NEW s \in Streams, Receive(s) PROVE PublishedStreamLives'
    <2>1. UNCHANGED <<current, ptr>> /\ \A r \in Streams : hpc'[r] = "over" => hpc[r] = "over"
      BY <1>3 DEF Receive, Handler, TypeOK, ObjectTypes, HandlerTypes, objects
    <2> QED BY <2>1, PublishedKept
  <1>4. ASSUME NEW s \in Streams, RolledBack(s) PROVE PublishedStreamLives'
    <2>1. UNCHANGED <<current, ptr>> /\ \A r \in Streams : hpc'[r] = "over" => hpc[r] = "over"
      BY <1>4 DEF RolledBack, Handler, TypeOK, ObjectTypes, HandlerTypes, objects
    <2> QED BY <2>1, PublishedKept
  <1>5. ASSUME NEW s \in Streams, Leave(s) PROVE PublishedStreamLives'
    <2>1. UNCHANGED <<current, ptr>> /\ \A r \in Streams : hpc'[r] = "over" => hpc[r] = "over"
      BY <1>5 DEF Leave, Handler, TypeOK, ObjectTypes, HandlerTypes, objects
    <2> QED BY <2>1, PublishedKept
  <1>6. ASSUME NEW s \in Streams, FindCurrent(s) PROVE PublishedStreamLives'
    <2>1. UNCHANGED <<current, ptr>> /\ \A r \in Streams : hpc'[r] = "over" => hpc[r] = "over"
      BY <1>6 DEF FindCurrent, Handler, TypeOK, ObjectTypes, HandlerTypes, objects
    <2> QED BY <2>1, PublishedKept
  <1>7. ASSUME NEW s \in Streams, SetTaskStream(s) PROVE PublishedStreamLives'
    <2>1. hobj[s] \in Objects /\ (current # None => hobj[s] = current)
      BY <1>7, Numbers DEF SetTaskStream, Handler, HandoverInv, TypeOK, HandlerTypes
    <2>2. /\ hpc' = [hpc EXCEPT ![s] = "watch"] /\ ptr' = [ptr EXCEPT ![hobj[s]] = s]
          /\ current' = current
      BY <1>7 DEF SetTaskStream, Handler
    <2>3. current # None => ptr'[current] = s
      BY <2>1, <2>2 DEF TypeOK, ObjectTypes
    <2>4. hpc'[s] = "watch"
      BY <2>2 DEF TypeOK, HandlerTypes
    <2> QED BY <2>2, <2>3, <2>4 DEF PublishedStreamLives
  <1>8. ASSUME NEW s \in Streams, ClearTaskStreamIfCurrent(s) PROVE PublishedStreamLives'
    <2>1. hobj[s] \in Objects /\ (current # None => hobj[s] = current)
      BY <1>8, Numbers DEF ClearTaskStreamIfCurrent, Handler, HandoverInv, TypeOK, HandlerTypes
    <2>2. hpc' = [hpc EXCEPT ![s] = "over"] /\ current' = current
      BY <1>8 DEF ClearTaskStreamIfCurrent, Handler
    <2>3. current # None => ptr[current] \in Streams \cup {None}
      BY <2>1, Numbers DEF TypeOK, ObjectTypes
    <2>4. CASE ptr[hobj[s]] = s
      <3>1. ptr'[hobj[s]] = None
        BY <1>8, <2>1, <2>4 DEF ClearTaskStreamIfCurrent, TypeOK, ObjectTypes
      <3> QED BY <2>1, <2>2, <3>1 DEF PublishedStreamLives
    <2>5. CASE ptr[hobj[s]] # s
      <3>1. ptr' = ptr
        BY <1>8, <2>5 DEF ClearTaskStreamIfCurrent
      <3> QED BY <2>1, <2>2, <2>3, <2>5, <3>1 DEF PublishedStreamLives, TypeOK, HandlerTypes
    <2> QED BY <2>4, <2>5
  <1>9. ASSUME CopyFromRunningServer PROVE PublishedStreamLives'
    <2>1. /\ current # None /\ current' = current /\ hpc' = hpc
          /\ ptr' = [ptr EXCEPT ![last + 1] = ptr[current]]
      BY <1>9 DEF CopyFromRunningServer, handlers
    <2>2. current # last + 1 /\ current \in Objects
      BY <2>1, Numbers, BoundsAssumption DEF DraftInv, TypeOK, ObjectTypes, Objects
    <2>3. ptr'[current] = ptr[current]
      BY <2>1, <2>2 DEF TypeOK, ObjectTypes
    <2> QED BY <2>1, <2>3 DEF PublishedStreamLives
  <1>10. ASSUME Update PROVE PublishedStreamLives'
    BY <1>10 DEF Update, DraftInv, PublishedStreamLives, handlers
  <1>11. ASSUME Delete PROVE PublishedStreamLives'
    BY <1>11 DEF Delete, PublishedStreamLives
  <1>12. ASSUME NEW s \in Streams,
                AgentDrop(s) \/ DrainTasks(s) \/ RollBack(s)
         PROVE  PublishedStreamLives'
    <2>1. UNCHANGED <<current, ptr, hpc>>
      BY <1>12 DEF AgentDrop, DrainTasks, RollBack, objects, handlers, holder,
          sends, control
    <2> QED BY <2>1 DEF PublishedStreamLives
  <1>13. ASSUME NEW c \in Calls,
                SendTaskGuarded(c) \/ QueueTaskGuarded(c)
                \/ AcquirePermit(c) \/ GiveUp(c) \/ Start(c)
                \/ Refuse(c) \/ Answered(c) \/ Abandon(c) \/ Recheck(c)
                \/ Finish(c) \/ Release(c) \/ Admit(c) \/ SendReturns(c)
         PROVE  PublishedStreamLives'
    <2>1. UNCHANGED <<current, ptr, hpc>>
      BY <1>13 DEF SendTaskGuarded, QueueTaskGuarded, AcquirePermit, GiveUp,
          Start, Refuse, Answered, Abandon, Recheck, Finish, Release,
          Admit, SendReturns, Stalled, Offline, Load, objects, handlers,
          holder, sends, control
    <2> QED BY <2>1 DEF PublishedStreamLives
  <1>14. ASSUME BeginTransfer \/ Settle
         PROVE  PublishedStreamLives'
    <2>1. UNCHANGED <<current, ptr, hpc>>
      BY <1>14 DEF BeginTransfer, Settle, objects, handlers, holder, sends,
          control
    <2> QED BY <2>1 DEF PublishedStreamLives
  <1> QED BY <1>1, <1>2, <1>3, <1>4, <1>5, <1>6, <1>7, <1>8, <1>9, <1>10,
             <1>11, <1>12, <1>13, <1>14
         DEF Next, HandlerStep, SendStep

LEMMA InvariantsInit == Init => SendInv /\ StreamInv
  <1> SUFFICES ASSUME Init PROVE SendInv /\ StreamInv
    OBVIOUS
  <1>1. QueueInv /\ GoroutineInv /\ PermitInv /\ AdmittedInv
    BY DEF Init, QueueInv, GoroutineInv, PermitInv, AdmittedInv, Sending
  <1>2. StreamInv
    BY BoundsAssumption DEF Init, StreamInv, DraftInv, HandoverInv, AttachedInv,
                            PublishedStreamLives, None, Objects
  <1> QED BY <1>1, <1>2, InitType DEF SendInv

LEMMA InvariantsStutter ==
  ASSUME SendInv, UNCHANGED vars
  PROVE  SendInv' /\ (StreamInv => StreamInv')
  <1> USE DEF vars, objects, handlers, holder, sends, control
  <1>1. TypeOK'
    BY DEF SendInv, TypeOK, ObjectTypes, HandlerTypes, HolderTypes, SendTypes, ControlTypes
  <1>2. QueueInv' /\ GoroutineInv' /\ PermitInv' /\ AdmittedInv'
    BY DEF SendInv, QueueInv, GoroutineInv, PermitInv, AdmittedInv, Sending
  <1>3. StreamInv => StreamInv'
    BY DEF StreamInv, DraftInv, HandoverInv, AttachedInv, PublishedStreamLives
  <1> QED BY <1>1, <1>2, <1>3 DEF SendInv

LEMMA SendInvariant == Spec => []SendInv
  <1>1. ASSUME SendInv, [Next]_vars PROVE SendInv'
    <2>1. CASE Next
      BY <1>1, <2>1, StepType, QueueStep, GoroutineStep, PermitStep, AdmittedStep DEF SendInv
    <2>2. CASE UNCHANGED vars
      BY <1>1, <2>2, InvariantsStutter
    <2> QED BY <1>1, <2>1, <2>2
  <1> QED BY <1>1, InvariantsInit, PTL DEF Spec

LEMMA StreamInvariant == "editRace" \notin Ops => (Spec => []StreamInv)
  <1> SUFFICES ASSUME "editRace" \notin Ops PROVE Spec => []StreamInv
    OBVIOUS
  <1>1. ASSUME SendInv, StreamInv, [Next]_vars PROVE StreamInv'
    <2>1. CASE Next
      BY <1>1, <2>1, DraftStep, HandoverStep, AttachedStep, PublishedStep DEF SendInv, StreamInv
    <2>2. CASE UNCHANGED vars
      BY <1>1, <2>2, InvariantsStutter
    <2> QED BY <1>1, <2>1, <2>2
  <1> QED BY <1>1, InvariantsInit, SendInvariant, PTL DEF Spec

(* Every variable keeps its type: in particular no handler publishes its     *)
(* stream in an object that does not exist (nezha.go:60-64).                 *)
THEOREM DeliveryTypes == Spec => []TypeOK
  <1>1. SendInv => TypeOK
    BY DEF SendInv
  <1> QED BY <1>1, SendInvariant, PTL

(* At most one goroutine is between taking and returning the permit of a     *)
(* stream, however many objects, callers and queues share it                 *)
(* (agent_task_delivery.go:44, 85, 95).                                      *)
THEOREM OneSendAtATime == Spec => []OneSend
  <1>1. SendInv => OneSend
    BY DEF SendInv, PermitInv, OneSend
  <1> QED BY <1>1, SendInvariant, PTL

(* An owner's task is sent while the server is that owner's and no transfer  *)
(* is open, whoever has stopped waiting for it                               *)
(* (agent_task_delivery.go:108-109).                                         *)
THEOREM OwnedDuringSend == Spec => []OwnerDuringSend
  <1>1. SendInv => OwnerDuringSend
    BY OwnersAssumption DEF SendInv, AdmittedInv, OwnerDuringSend
  <1> QED BY <1>1, SendInvariant, PTL

(* Where edits do not overlap with attachments, the stream that a handler    *)
(* serves is the one tasks are sent to, and no ended stream is published     *)
(* (server.go:267-269, nezha.go:74-77).                                      *)
THEOREM StreamsReachable ==
    "editRace" \notin Ops => (Spec => [](ServingReachable /\ PublishedStreamLives))
  <1> SUFFICES ASSUME "editRace" \notin Ops PROVE Spec => [](ServingReachable /\ PublishedStreamLives)
    OBVIOUS
  <1>1. StreamInv => ServingReachable /\ PublishedStreamLives
    BY DEF StreamInv, AttachedInv, ServingReachable
  <1> QED BY <1>1, StreamInvariant, PTL

=============================================================================
