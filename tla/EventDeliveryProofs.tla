------------------------- MODULE EventDeliveryProofs -------------------------
(* Theorems about EventDelivery and their proofs.                            *)
EXTENDS EventDelivery, TLAPS

Active(w) == sender[w].pc # "none"
Live(w) == Active(w) /\ ~sender[w].cancelled

(* Senders that work have an event to deliver; latency notices have none,    *)
(* and carry the generation under which they were asked for.                 *)
LabelInv ==
    /\ \A w \in Senders : sender[w].pc = "none" => sender[w].event = 0
    /\ kind # "latency" => /\ \A w \in Senders : Active(w) => sender[w].event # 0
                           /\ \A r \in Recipients : <<0, r>> \notin muted
NoticeInv == kind = "latency" =>
    /\ delivery = 0 /\ \A w \in Senders : sender[w].event = 0
    /\ \A c \in Edits, r \in Recipients : received[c][r] = 0
    /\ \A w \in Senders : sender[w].pc = "post" =>
          /\ sender[w].generation <= generation
          /\ sender[w].generation = generation => sender[w].fresh

(* The registered delivery is the only one that has not been given up; of    *)
(* one configuration, one worker works for a service, and one delivery of a  *)
(* rule sends.                                                               *)
OwnInv ==
    /\ delivery # 0 => Live(delivery) /\ sender[delivery].edit = edits
    /\ \A w \in Senders : sender[w].edit <= edits
    /\ kind # "latency" => \A w \in Senders : Live(w) => w = delivery
    /\ Ordered => \A w \in Senders : Active(w) /\ sender[w].edit = edits => w = delivery
    /\ Ordered => \A v, w \in Senders : Active(v) /\ Active(w) /\ sender[v].edit = sender[w].edit => v = w
    /\ Alerting => \A v, w \in Senders : Sending(v) /\ Sending(w) /\ sender[v].edit = sender[w].edit => v = w

(* Events follow one another, and who may still send has nothing to tell     *)
(* that is older than what its configuration has told.                       *)
OrderInv ==
    /\ \A w \in Senders : /\ sender[w].event <= event /\ sender[w].pending <= event
                          /\ sender[w].pending # 0 => Ordered /\ sender[w].pending > sender[w].event
    /\ \A c \in Edits, r \in Recipients : received[c][r] <= event
    /\ Alerting /\ delivery # 0 => \A w \in Senders : sender[w].event <= sender[delivery].event
    /\ \A w \in Senders : Sending(w) \/ Live(w) =>
          \A r \in Recipients : received[sender[w].edit][r] <= sender[w].event

(* What a later configuration of a service delivers is no older than what an *)
(* earlier one does or will, and a recipient is muted only for what it has   *)
(* heard.                                                                    *)
PastInv == Ordered =>
    /\ delivery # 0 => sender[delivery].pending \in {0, event}
    /\ \A c \in Edits, r \in Recipients : c > edits => received[c][r] = 0
    /\ \A v, w \in Senders : Active(v) /\ Active(w) /\ sender[v].edit < sender[w].edit =>
          sender[v].event <= sender[w].event /\ sender[v].pending <= sender[w].event
    /\ \A e \in Events, r \in Recipients : <<e, r>> \in muted => \E c \in Edits : received[c][r] >= e

(* A worker that goes on to a further event need not tell those who are      *)
(* muted, or done with, again: they have heard of the event under its        *)
(* configuration or an earlier one.                                          *)
Matters(w) == Active(w) /\ (w = delivery \/ sender[w].pending # 0)
HeardBy(w, r) == \E c \in Edits : c <= sender[w].edit /\ received[c][r] = sender[w].event
PhaseInv == Ordered => \A w \in Senders : Matters(w) => \A r \in Recipients :
    /\ <<sender[w].event, r>> \in muted => HeardBy(w, r)
    /\ Sending(w) /\ ~sender[w].failed /\ r \notin sender[w].todo => HeardBy(w, r)

-----------------------------------------------------------------------------
(* What a step does to those fields of the senders that tell what they       *)
(* deliver and how far they are.                                             *)

SameJob(v) == /\ sender'[v].event = sender[v].event /\ sender'[v].pending = sender[v].pending
              /\ sender'[v].edit = sender[v].edit
SameWork(v) == /\ SameJob(v) /\ sender'[v].pc = sender[v].pc
               /\ sender'[v].todo = sender[v].todo /\ sender'[v].failed = sender[v].failed
Same(v) == SameWork(v) /\ sender'[v].cancelled = sender[v].cancelled
OnlyMoves(w) == \A v \in Senders : v # w => Same(v)

Quiet ==
    /\ UNCHANGED <<kind, edits, delivery, received>> /\ muted' \subseteq muted
    /\ event <= event' /\ (Ordered => event' = event) /\ \A v \in Senders : Same(v)
Begins(w) ==
    /\ kind # "latency" /\ UNCHANGED <<kind, edits, received, muted>>
    /\ event' \in {event, event + 1} /\ event' # 0 /\ (Alerting => event' = event + 1)
    /\ sender[w].pc = "none" /\ delivery' = w /\ (Ordered => delivery = 0)
    /\ sender'[w].pc = "check" /\ sender'[w].event = event' /\ sender'[w].pending = 0
    /\ sender'[w].edit = edits /\ ~sender'[w].cancelled
    /\ \A v \in Senders : v # w => /\ SameWork(v) /\ (v # delivery => sender'[v].cancelled = sender[v].cancelled)
                                   /\ v = delivery => sender'[v].cancelled
Joins ==
    /\ Ordered /\ UNCHANGED <<kind, edits, received, muted, delivery>> /\ event' \in {event, event + 1}
    /\ delivery # 0 /\ sender[delivery].event < event' /\ OnlyMoves(delivery)
    /\ sender'[delivery].pc = sender[delivery].pc /\ sender'[delivery].event = sender[delivery].event
    /\ sender'[delivery].edit = sender[delivery].edit /\ sender'[delivery].pending = event'
    /\ sender'[delivery].cancelled = sender[delivery].cancelled
    /\ sender'[delivery].todo = sender[delivery].todo /\ sender'[delivery].failed = sender[delivery].failed
Changes ==
    /\ kind # "latency" /\ UNCHANGED <<kind, event, received, muted>> /\ edits' = edits + 1 /\ delivery' = 0
    /\ \A v \in Senders : /\ SameWork(v) /\ (v # delivery => sender'[v].cancelled = sender[v].cancelled)
                          /\ v = delivery => sender'[v].cancelled
Still == UNCHANGED <<kind, event, edits, received>>
Works(w) == /\ Still /\ UNCHANGED delivery /\ Active(w) /\ OnlyMoves(w)
            /\ sender'[w].edit = sender[w].edit /\ sender'[w].cancelled = sender[w].cancelled
Notifies(w) ==
    /\ kind = "latency" /\ Still /\ UNCHANGED <<delivery, muted>> /\ OnlyMoves(w)
    /\ sender[w].pc = "none" /\ sender'[w].event = 0 /\ sender'[w].pending = 0 /\ sender'[w].edit = 0
Rests(w) == Works(w) /\ UNCHANGED muted /\ SameJob(w) /\ sender'[w].pc \in {"check", "lock", "wait"}
Starts(w) == /\ Works(w) /\ UNCHANGED muted /\ SameJob(w) /\ sender'[w].pc = "send" /\ sender'[w].todo = Recipients
             /\ Live(w) /\ (Alerting => Unlocked(w))
Sends(w) == /\ Works(w) /\ UNCHANGED muted /\ SameJob(w) /\ Sending(w) /\ sender'[w].pc \in {"send", "post"}
            /\ sender'[w].failed = sender[w].failed
            /\ \A r \in Recipients : r \in sender'[w].todo \/ r \notin sender[w].todo \/ <<sender[w].event, r>> \in muted
Answers(w) ==
    /\ kind' = kind /\ UNCHANGED <<event, edits, delivery>> /\ Sending(w) /\ OnlyMoves(w)
    /\ SameJob(w) /\ sender'[w].cancelled = sender[w].cancelled /\ sender'[w].pc = "send"
    /\ \A c \in Edits, r \in Recipients : c # sender[w].edit \/ r \notin sender[w].target => received'[c][r] = received[c][r]
    /\ \A r \in sender[w].target : received'[sender[w].edit][r] \in {received[sender[w].edit][r], sender[w].event}
    /\ \A r \in Recipients : <<sender[w].event, r>> \in muted' =>
            <<sender[w].event, r>> \in muted \/ received'[sender[w].edit][r] = sender[w].event
    /\ \A e \in Events, r \in Recipients : e # sender[w].event /\ <<e, r>> \in muted' => <<e, r>> \in muted
    /\ ~sender'[w].failed => /\ ~sender[w].failed
                             /\ \A r \in Recipients : r \in sender'[w].todo \/ r \notin sender[w].todo
                                                      \/ received'[sender[w].edit][r] = sender[w].event
GoesOn(w) ==
    /\ Ordered /\ Works(w) /\ UNCHANGED muted /\ Sending(w) /\ ~sender[w].failed /\ sender[w].todo = {}
    /\ sender[w].pending # 0 /\ sender'[w].event = sender[w].pending /\ sender'[w].pending = 0 /\ sender'[w].pc = "check"
Ends(w) ==
    /\ Still /\ UNCHANGED muted /\ Active(w) /\ OnlyMoves(w) /\ delivery' = IF delivery = w THEN 0 ELSE delivery
    /\ sender'[w].pc = "none" /\ sender'[w].event = 0 /\ sender'[w].pending = 0 /\ sender'[w].edit = 0
Move ==
    \/ Quiet \/ Joins \/ Changes
    \/ \E w \in Senders : \/ Begins(w) \/ Notifies(w) \/ Rests(w) \/ Starts(w) \/ Sends(w)
                          \/ Answers(w) \/ GoesOn(w) \/ Ends(w)

-----------------------------------------------------------------------------
(* The ways in which a change of state may begin a delivery, join one or     *)
(* leave all as it is.                                                       *)

Others == UNCHANGED <<kind, edits, expiries, muted, busy, backoff, generation, received, told>>
Raised == event' \in {event, event + 1} /\ event' \in Events /\ event' # 0
Begin(w, a) ==
    /\ kind # "latency" /\ Raised /\ Others /\ failing' \in BOOLEAN
    /\ sender[w].pc = "none" /\ delivery' = w
    /\ (Ordered => delivery = 0) /\ (Alerting => event' = event + 1)
    /\ sender' = [v \in Senders |-> IF v = w THEN Started(event', a)
                                    ELSE IF v = delivery THEN [sender[v] EXCEPT !.cancelled = TRUE]
                                    ELSE sender[v]]
Join ==
    /\ Ordered /\ Raised /\ Others /\ delivery # 0 /\ UNCHANGED <<failing, delivery>>
    /\ sender[delivery].event < event'
    /\ sender' = [sender EXCEPT ![delivery].pending = event', ![delivery].update = TRUE]
Keep == Ordered /\ Others /\ UNCHANGED <<event, failing, delivery, sender>>
Step ==
    \/ (\E w \in Senders, a \in BOOLEAN : Begin(w, a)) \/ Join \/ Keep
    \/ Edit \/ SendNotificationAsync \/ UnMuteNotification \/ Expire \/ \E w \in Senders : SenderStep(w)

LEMMA Numbers == MaxSenders \in Nat /\ MaxEvents \in Nat /\ MaxEdits \in Nat /\ 0 \notin Senders
                 /\ 0 \in Events /\ 0 \in Edits
  BY DeliveryAssumption DEF Senders, Events, Edits

LEMMA AnsweredFields ==
  ASSUME NEW s \in SenderStates, NEW ok \in BOOLEAN
  PROVE  /\ Answered(s, ok) \in SenderStates
         /\ LET a == Answered(s, ok) IN
            /\ a.pc = "send" /\ a.event = s.event /\ a.pending = s.pending /\ a.cancelled = s.cancelled
            /\ a.edit = s.edit /\ a.todo = s.todo \ s.target /\ (~a.failed => ok /\ ~s.failed)
  <1>1. \A f \in BOOLEAN : [s EXCEPT !.pc = "send", !.todo = @ \ s.target, !.target = {}, !.failed = f,
                             !.generation = 0, !.fresh = TRUE] \in SenderStates
    BY Numbers DEF SenderStates
  <1>2. (s.failed \/ ~ok) \in BOOLEAN
    BY DEF SenderStates
  <1>3. Answered(s, ok) \in SenderStates
    BY <1>1, <1>2 DEF Answered
  <1>4. LET a == Answered(s, ok) IN
            /\ a.pc = "send" /\ a.event = s.event /\ a.pending = s.pending /\ a.cancelled = s.cancelled
            /\ a.edit = s.edit /\ a.todo = s.todo \ s.target /\ (~a.failed => ok /\ ~s.failed)
    BY DEF Answered, SenderStates
  <1> QED BY <1>3, <1>4

LEMMA InitInv == DeliveryInit => DeliveryTypeOK /\ LabelInv /\ NoticeInv /\ OwnInv /\ OrderInv /\ PastInv /\ PhaseInv
  <1> SUFFICES ASSUME DeliveryInit
               PROVE  DeliveryTypeOK /\ LabelInv /\ NoticeInv /\ OwnInv /\ OrderInv /\ PastInv /\ PhaseInv
    OBVIOUS
  <1>1. DeliveryTypeOK
    BY DeliveryAssumption, Numbers DEF DeliveryInit, DeliveryTypeOK, SenderStates, Idle, Events, Edits
  <1>2. \A w \in Senders : sender[w] = Idle
    BY DEF DeliveryInit
  <1>3. \A c \in Edits, r \in Recipients : received[c][r] = 0
    BY DEF DeliveryInit
  <1>4. LabelInv /\ NoticeInv /\ OwnInv
    BY <1>2, <1>3, Numbers DEF DeliveryInit, LabelInv, NoticeInv, OwnInv, Active, Live, Sending, Idle, Edits, Events
  <1>5. OrderInv /\ PastInv /\ PhaseInv
    BY <1>2, <1>3, Numbers
       DEF DeliveryInit, OrderInv, PastInv, PhaseInv, Active, Live, Sending, Matters, Idle, Edits, Events
  <1> QED BY <1>1, <1>4, <1>5

LEMMA Steps ==
  ASSUME DeliveryTypeOK, OwnInv, OrderInv, DeliveryNext
  PROVE  Step
  <1>1. ASSUME Free # {} PROVE Starter \in Senders /\ sender[Starter].pc = "none"
    BY <1>1 DEF Free, Starter
  <1>2. ASSUME NEW e \in Events, Ordered, SendServiceState(e), Others, event' = e, e \in {event, event + 1}, e # 0,
               UNCHANGED failing
        PROVE  Step
    <2>1. CASE delivery = 0
      <3>1. Starter \in Senders /\ sender[Starter].pc = "none"
        BY <1>1, <1>2, <2>1 DEF SendServiceState
      <3>2. Begin(Starter, FALSE)
        BY <1>2, <2>1, <3>1, Numbers DEF SendServiceState, Begin, Raised, DeliveryTypeOK, Ordered, Alerting
      <3> QED BY <3>1, <3>2 DEF Step
    <2>2. CASE delivery # 0
      <3> DEFINE d == sender[delivery]
      <3>1. d.pending \in Events /\ d.event \in Events /\ d.pending <= event /\ d.event <= event /\ delivery \in Senders
        BY <2>2 DEF DeliveryTypeOK, SenderStates, OrderInv
      <3>2. d.pending # 0 => d.pending > d.event
        BY <2>2, <3>1 DEF OrderInv
      <3>3. CASE (d.pending = 0 /\ d.event = e) \/ d.pending = e
        <4>1. e = event
          BY <1>2, <3>1, <3>3, Numbers DEF Events, DeliveryTypeOK
        <4> QED BY <1>2, <2>2, <3>3, <4>1 DEF SendServiceState, Keep, Step
      <3>4. CASE ~((d.pending = 0 /\ d.event = e) \/ d.pending = e)
        <4>1. d.event < e
          BY <1>2, <3>1, <3>2, <3>4, Numbers DEF Events, DeliveryTypeOK
        <4> QED BY <1>2, <2>2, <3>4, <4>1 DEF SendServiceState, Join, Raised, Step
      <3> QED BY <3>3, <3>4
    <2> QED BY <2>1, <2>2
  <1>3. ASSUME StateChanges PROVE Step
    <2>1. event' \in Events /\ event' = event + 1 /\ event' # 0 /\ Others /\ kind # "latency"
      BY <1>3, Numbers DEF StateChanges, DeliveryTypeOK, Events, Edits, Others
    <2>2. CASE Ordered /\ SendServiceState(event') /\ UNCHANGED failing
      BY <1>2, <2>1, <2>2
    <2>3. CASE Alerting /\ StartAlertDelivery(event', ~failing) /\ failing' = ~failing
      <3>1. Starter \in Senders /\ sender[Starter].pc = "none"
        BY <1>1, <2>3 DEF StartAlertDelivery
      <3>2. ~Ordered /\ failing' \in BOOLEAN
        BY <2>3 DEF Alerting, Ordered
      <3>3. Begin(Starter, ~failing /\ kind = "always")
        BY <2>1, <2>3, <3>1, <3>2 DEF StartAlertDelivery, Begin, Raised
      <3> QED BY <3>1, <3>3 DEF Step
    <2> QED BY <1>3, <2>2, <2>3 DEF StateChanges
  <1>4. ASSUME StillDown PROVE Step
    <2>1. event \in Events /\ event # 0 /\ event' = event /\ Others /\ UNCHANGED failing
      BY <1>4, Numbers DEF StillDown, DeliveryTypeOK, Events, Others
    <2> QED BY <1>2, <1>4, <2>1 DEF StillDown
  <1> QED BY <1>3, <1>4 DEF DeliveryNext, Step

LEMMA StepTypes ==
  ASSUME DeliveryTypeOK, Step
  PROVE  DeliveryTypeOK'
  <1>1. ASSUME NEW w \in Senders, NEW a \in BOOLEAN, Begin(w, a) PROVE DeliveryTypeOK'
    <2>1. event' \in Events /\ edits \in Edits
      BY <1>1 DEF Begin, Raised, DeliveryTypeOK
    <2>2. Started(event', a) \in SenderStates
      BY <2>1, Numbers DEF Started, Idle, SenderStates
    <2>0. \A s \in SenderStates : [s EXCEPT !.cancelled = TRUE] \in SenderStates
      BY DEF SenderStates
    <2>3. \A v \in Senders : sender[v] \in SenderStates /\ [sender[v] EXCEPT !.cancelled = TRUE] \in SenderStates
      BY <2>0 DEF DeliveryTypeOK
    <2>4. sender' \in [Senders -> SenderStates]
      BY <1>1, <2>2, <2>3 DEF Begin
    <2> QED BY <1>1, <2>1, <2>4 DEF Begin, Others, DeliveryTypeOK
  <1>2. ASSUME Join PROVE DeliveryTypeOK'
    <2>1. event' \in Events /\ delivery \in Senders /\ sender[delivery] \in SenderStates
      BY <1>2 DEF Join, Raised, DeliveryTypeOK
    <2>2. [sender[delivery] EXCEPT !.pending = event', !.update = TRUE] \in SenderStates
      BY <2>1 DEF SenderStates
    <2>3. sender' = [sender EXCEPT ![delivery] = [sender[delivery] EXCEPT !.pending = event', !.update = TRUE]]
      BY <1>2, <2>1 DEF Join, DeliveryTypeOK
    <2>4. sender' \in [Senders -> SenderStates]
      BY <2>1, <2>2, <2>3 DEF DeliveryTypeOK
    <2> QED BY <1>2, <2>1, <2>4 DEF Join, Others, DeliveryTypeOK
  <1>3. ASSUME Keep PROVE DeliveryTypeOK'
    BY <1>3, Numbers DEF Keep, Others, DeliveryTypeOK, SenderStates, Events, Edits
  <1>4. ASSUME Edit PROVE DeliveryTypeOK'
    <2>0. \A s \in SenderStates : [s EXCEPT !.cancelled = TRUE] \in SenderStates
      BY DEF SenderStates
    <2>1. \A v \in Senders : sender[v] \in SenderStates /\ [sender[v] EXCEPT !.cancelled = TRUE] \in SenderStates
      BY <2>0 DEF DeliveryTypeOK
    <2>2. sender' \in [Senders -> SenderStates]
      BY <1>4, <2>1 DEF Edit
    <2>3. edits' \in Edits
      BY <1>4, Numbers DEF Edit, Edits, DeliveryTypeOK
    <2> QED BY <1>4, <2>2, <2>3 DEF Edit, DeliveryTypeOK
  <1>5. ASSUME SendNotificationAsync PROVE DeliveryTypeOK'
    BY <1>5, Numbers DEF SendNotificationAsync, Idle, Free, Starter, DeliveryTypeOK, SenderStates,
        Events, Edits
  <1>6. ASSUME UnMuteNotification PROVE DeliveryTypeOK'
    <2>0. \A s \in SenderStates, f \in BOOLEAN : [s EXCEPT !.fresh = f] \in SenderStates
      BY DEF SenderStates
    <2>1. \A v \in Senders : [sender[v] EXCEPT !.fresh = sender[v].pc # "post"] \in SenderStates
      BY <2>0 DEF DeliveryTypeOK
    <2>2. sender' \in [Senders -> SenderStates]
      BY <1>6, <2>1 DEF UnMuteNotification
    <2>3. event' \in Events /\ generation' \in Nat
      BY <1>6, Numbers DEF UnMuteNotification, Events, DeliveryTypeOK
    <2> QED BY <1>6, <2>2, <2>3 DEF UnMuteNotification, DeliveryTypeOK
  <1>7. ASSUME Expire PROVE DeliveryTypeOK'
    <2>1. muted' \subseteq muted /\ backoff' \in BOOLEAN
      BY <1>7 DEF Expire, DeliveryTypeOK
    <2> QED BY <1>7, <2>1 DEF Expire, DeliveryTypeOK
  <1>8. ASSUME NEW w \in Senders, RunCheck(w) PROVE DeliveryTypeOK'
    <2>1. sender[w] \in SenderStates
      BY DEF DeliveryTypeOK
    <2>2. Idle \in SenderStates
      BY Numbers DEF Idle, SenderStates
    <2>3. [sender[w] EXCEPT !.pc = "lock"] \in SenderStates
      BY <2>1 DEF SenderStates
    <2>4. [sender[w] EXCEPT !.pc = "send", !.todo = Recipients, !.failed = FALSE] \in SenderStates
      BY <2>1 DEF SenderStates
    <2> QED BY <1>8, <2>2, <2>3, <2>4 DEF RunCheck, DeliveryTypeOK
  <1>9. ASSUME NEW w \in Senders, LockSendMu(w) PROVE DeliveryTypeOK'
    <2>1. sender[w] \in SenderStates
      BY DEF DeliveryTypeOK
    <2>2. Idle \in SenderStates
      BY Numbers DEF Idle, SenderStates
    <2>3. [sender[w] EXCEPT !.pc = "send", !.todo = Recipients, !.failed = FALSE] \in SenderStates
      BY <2>1 DEF SenderStates
    <2> QED BY <1>9, <2>2, <2>3 DEF LockSendMu, DeliveryTypeOK
  <1>10. ASSUME NEW w \in Senders, NextPhase(w) PROVE DeliveryTypeOK'
    <2>1. \A s \in SenderStates :
             [s EXCEPT !.pc = "check", !.event = s.pending, !.pending = 0, !.update = FALSE] \in SenderStates
      BY Numbers DEF SenderStates
    <2>2. sender[w] \in SenderStates
      BY DEF DeliveryTypeOK
    <2>3. [sender[w] EXCEPT !.pc = "check", !.event = sender[w].pending, !.pending = 0, !.update = FALSE] \in SenderStates
      BY <2>1, <2>2
    <2> QED BY <1>10, <2>3 DEF NextPhase, DeliveryTypeOK
  <1>11. ASSUME NEW w \in Senders, Done(w) PROVE DeliveryTypeOK'
    BY <1>11, Numbers DEF Done, Idle, Round, Delivered, DeliveryTypeOK, SenderStates, Events, Edits
  <1>12. ASSUME NEW w \in Senders, Wait(w) PROVE DeliveryTypeOK'
    <2>1. sender[w] \in SenderStates
      BY DEF DeliveryTypeOK

    <2>2. [sender[w] EXCEPT !.pc = "wait"] \in SenderStates
      BY <2>1, Numbers DEF SenderStates
    <2> QED BY <1>12, <2>2 DEF Wait, DeliveryTypeOK
  <1>13. ASSUME NEW w \in Senders, Wake(w) PROVE DeliveryTypeOK'
    <2>1. sender[w] \in SenderStates
      BY DEF DeliveryTypeOK

    <2>2. [sender[w] EXCEPT !.pc = "check", !.update = FALSE] \in SenderStates
      BY <2>1, Numbers DEF SenderStates
    <2> QED BY <1>13, <2>2 DEF Wake, DeliveryTypeOK
  <1>14. ASSUME NEW w \in Senders, AsyncDone(w) PROVE DeliveryTypeOK'
    BY <1>14, Numbers DEF AsyncDone, Idle, Round, Delivered, DeliveryTypeOK, SenderStates, Events,
        Edits
  <1>15. ASSUME NEW w \in Senders, NEW r \in Recipients, SkipMuted(w, r) PROVE DeliveryTypeOK'
    <2>1. sender[w] \in SenderStates
      BY DEF DeliveryTypeOK

    <2>2. [sender[w] EXCEPT !.todo = @ \ {r}] \in SenderStates
      BY <2>1, Numbers DEF SenderStates
    <2> QED BY <1>15, <2>2 DEF SkipMuted, DeliveryTypeOK
  <1>16. ASSUME NEW w \in Senders, NEW r \in Recipients, Post(w, r) PROVE DeliveryTypeOK'
    <2>1. sender[w] \in SenderStates /\ generation \in Nat
      BY DEF DeliveryTypeOK
    <2>2. [sender[w] EXCEPT !.pc = "post", !.target = {r}, !.generation = generation, !.fresh = TRUE] \in SenderStates
      BY <2>1 DEF SenderStates
    <2> QED BY <1>16, <2>2 DEF Post, DeliveryTypeOK
  <1>17. ASSUME NEW w \in Senders, NEW arrived \in BOOLEAN, NEW ok \in BOOLEAN, Answer(w, arrived,
              ok)
       PROVE  DeliveryTypeOK'
    <2>1. sender[w] \in SenderStates
      BY DEF DeliveryTypeOK
    <2>2. sender' \in [Senders -> SenderStates]
      BY <1>17, <2>1, AnsweredFields DEF Answer, DeliveryTypeOK
    <2>3. sender[w].event \in Events /\ sender[w].target \subseteq Recipients
      BY <2>1 DEF SenderStates
    <2>4. received' \in [Edits -> [Recipients -> Events]]
      BY <1>17, <2>3 DEF Answer, DeliveryTypeOK
    <2>5. muted' \subseteq Events \X Recipients /\ told' \subseteq Recipients
      BY <1>17, <2>3 DEF Answer, Mute, DeliveryTypeOK
    <2> QED BY <1>17, <2>2, <2>4, <2>5 DEF Answer, DeliveryTypeOK
  <1> QED BY <1>1, <1>2, <1>3, <1>4, <1>5, <1>6, <1>7, <1>8, <1>9, <1>10, <1>11, <1>12, <1>13,
         <1>14, <1>15, <1>16, <1>17
  DEF Step, SenderStep

LEMMA StepLabelInv ==
  ASSUME DeliveryTypeOK, LabelInv, OrderInv, Step
  PROVE  LabelInv'
  <1>1. ASSUME NEW w \in Senders, NEW a \in BOOLEAN, Begin(w, a) PROVE LabelInv'
    BY <1>1, Numbers DEF Begin, Raised, Others, Started, Idle, DeliveryTypeOK, SenderStates, Events,
        Edits, LabelInv, Active
  <1>2. ASSUME Join PROVE LabelInv'
    BY <1>2, Numbers DEF Join, Raised, Others, DeliveryTypeOK, SenderStates, Events, Edits,
        LabelInv, Active, Ordered
  <1>3. ASSUME Edit PROVE LabelInv'
    BY <1>3, Numbers DEF Edit, DeliveryTypeOK, SenderStates, Events, Edits, LabelInv, Active
  <1>4. ASSUME SendNotificationAsync PROVE LabelInv'
    BY <1>4, Numbers DEF SendNotificationAsync, Idle, Free, Starter, DeliveryTypeOK, SenderStates,
        Events, Edits, LabelInv, Active
  <1>5. ASSUME UnMuteNotification PROVE LabelInv'
    BY <1>5, Numbers DEF UnMuteNotification, DeliveryTypeOK, SenderStates, Events, Edits, LabelInv,
        Active
  <1>6. ASSUME Expire PROVE LabelInv'
    BY <1>6, Numbers DEF Expire, DeliveryTypeOK, SenderStates, Events, Edits, LabelInv, Active
  <1>7. ASSUME NEW w \in Senders, RunCheck(w) PROVE LabelInv'
    BY <1>7, Numbers DEF RunCheck, Idle, DeliveryTypeOK, SenderStates, Events, Edits, LabelInv,
        Active
  <1>8. ASSUME NEW w \in Senders, LockSendMu(w) PROVE LabelInv'
    BY <1>8, Numbers DEF LockSendMu, Idle, Unlocked, DeliveryTypeOK, SenderStates, Events, Edits,
        LabelInv, Active
  <1>9. ASSUME NEW w \in Senders, NextPhase(w) PROVE LabelInv'
    BY <1>9, Numbers DEF NextPhase, Round, Delivered, DeliveryTypeOK, SenderStates, Events, Edits,
        LabelInv, Active, Ordered
  <1>10. ASSUME NEW w \in Senders, Done(w) PROVE LabelInv'
    BY <1>10, Numbers DEF Done, Idle, Round, Delivered, DeliveryTypeOK, SenderStates, Events, Edits,
        LabelInv, Active
  <1>11. ASSUME NEW w \in Senders, Wait(w) PROVE LabelInv'
    BY <1>11, Numbers DEF Wait, Round, Delivered, DeliveryTypeOK, SenderStates, Events, Edits,
        LabelInv, Active
  <1>12. ASSUME NEW w \in Senders, Wake(w) PROVE LabelInv'
    BY <1>12, Numbers DEF Wake, DeliveryTypeOK, SenderStates, Events, Edits, LabelInv, Active
  <1>13. ASSUME NEW w \in Senders, AsyncDone(w) PROVE LabelInv'
    BY <1>13, Numbers DEF AsyncDone, Idle, Round, Delivered, DeliveryTypeOK, SenderStates, Events,
        Edits, LabelInv, Active
  <1>14. ASSUME NEW w \in Senders, NEW r \in Recipients, SkipMuted(w, r) PROVE LabelInv'
    BY <1>14, Numbers DEF SkipMuted, DeliveryTypeOK, SenderStates, Events, Edits, LabelInv, Active
  <1>15. ASSUME NEW w \in Senders, NEW r \in Recipients, Post(w, r) PROVE LabelInv'
    BY <1>15, Numbers DEF Post, DeliveryTypeOK, SenderStates, Events, Edits, LabelInv, Active
  <1>16. ASSUME NEW w \in Senders, NEW arrived \in BOOLEAN, NEW ok \in BOOLEAN, Answer(w, arrived,
              ok)
       PROVE  LabelInv'
    <2>1. sender[w] \in SenderStates /\ sender \in [Senders -> SenderStates]
      BY DEF DeliveryTypeOK
    <2>2. kind' = kind /\ sender' = [sender EXCEPT ![w] = Answered(sender[w], ok)]
      BY <1>16 DEF Answer
    <2>3. Answered(sender[w], ok).pc # "none" /\ Answered(sender[w], ok).event = sender[w].event
      BY <2>1, AnsweredFields
    <2>4. sender[w].pc = "post" /\ \A m \in muted' : m \in muted \/ m[1] = sender[w].event
      BY <1>16 DEF Answer, Mute
    <2> QED BY <2>1, <2>2, <2>3, <2>4 DEF LabelInv, Active
  <1>17. ASSUME \/ Keep
         PROVE  UNCHANGED <<kind, sender, muted>>
    BY <1>17 DEF Keep, Others
  <1>18. ASSUME UNCHANGED <<kind, sender, muted>> PROVE LabelInv'
    BY <1>18 DEF DeliveryTypeOK, SenderStates, Events, Edits, LabelInv, Active
  <1> QED BY <1>1, <1>2, <1>3, <1>4, <1>5, <1>6, <1>7, <1>8, <1>9, <1>10, <1>11, <1>12, <1>13,
         <1>14, <1>15, <1>16, <1>17, <1>18
  DEF Step, SenderStep

LEMMA StepNoticeInv ==
  ASSUME DeliveryTypeOK, NoticeInv, Step
  PROVE  NoticeInv'
  <1>1. ASSUME NEW w \in Senders, NEW a \in BOOLEAN, Begin(w, a) PROVE NoticeInv'
    BY <1>1, Numbers DEF Begin, Raised, Others, Started, Idle, DeliveryTypeOK, SenderStates, Events,
        Edits, NoticeInv
  <1>2. ASSUME Join PROVE NoticeInv'
    BY <1>2, Numbers DEF Join, Raised, Others, DeliveryTypeOK, SenderStates, Events, Edits,
        NoticeInv, Ordered
  <1>3. ASSUME Edit PROVE NoticeInv'
    BY <1>3, Numbers DEF Edit, DeliveryTypeOK, SenderStates, Events, Edits, NoticeInv
  <1>4. ASSUME SendNotificationAsync PROVE NoticeInv'
    BY <1>4, Numbers DEF SendNotificationAsync, Idle, Free, Starter, DeliveryTypeOK, SenderStates,
        Events, Edits, NoticeInv
  <1>5. ASSUME UnMuteNotification PROVE NoticeInv'
    BY <1>5, Numbers DEF UnMuteNotification, DeliveryTypeOK, SenderStates, Events, Edits, NoticeInv
  <1>6. ASSUME NEW w \in Senders, RunCheck(w) PROVE NoticeInv'
    BY <1>6, Numbers DEF RunCheck, Idle, DeliveryTypeOK, SenderStates, Events, Edits, NoticeInv
  <1>7. ASSUME NEW w \in Senders, LockSendMu(w) PROVE NoticeInv'
    BY <1>7, Numbers DEF LockSendMu, Idle, Unlocked, DeliveryTypeOK, SenderStates, Events, Edits,
        NoticeInv
  <1>8. ASSUME NEW w \in Senders, NextPhase(w) PROVE NoticeInv'
    BY <1>8, Numbers DEF NextPhase, Round, Delivered, DeliveryTypeOK, SenderStates, Events, Edits,
        NoticeInv, Ordered
  <1>9. ASSUME NEW w \in Senders, Done(w) PROVE NoticeInv'
    BY <1>9, Numbers DEF Done, Idle, Round, Delivered, DeliveryTypeOK, SenderStates, Events, Edits,
        NoticeInv, Ordered, Alerting
  <1>10. ASSUME NEW w \in Senders, Wait(w) PROVE NoticeInv'
    BY <1>10, Numbers DEF Wait, Round, Delivered, DeliveryTypeOK, SenderStates, Events, Edits,
        NoticeInv
  <1>11. ASSUME NEW w \in Senders, Wake(w) PROVE NoticeInv'
    BY <1>11, Numbers DEF Wake, DeliveryTypeOK, SenderStates, Events, Edits, NoticeInv
  <1>12. ASSUME NEW w \in Senders, AsyncDone(w) PROVE NoticeInv'
    BY <1>12, Numbers DEF AsyncDone, Idle, Round, Delivered, DeliveryTypeOK, SenderStates, Events,
        Edits, NoticeInv
  <1>13. ASSUME NEW w \in Senders, NEW r \in Recipients, SkipMuted(w, r) PROVE NoticeInv'
    BY <1>13, Numbers DEF SkipMuted, DeliveryTypeOK, SenderStates, Events, Edits, NoticeInv
  <1>14. ASSUME NEW w \in Senders, NEW r \in Recipients, Post(w, r) PROVE NoticeInv'
    BY <1>14, Numbers DEF Post, DeliveryTypeOK, SenderStates, Events, Edits, NoticeInv
  <1>15. ASSUME NEW w \in Senders, NEW arrived \in BOOLEAN, NEW ok \in BOOLEAN, Answer(w, arrived,
              ok)
       PROVE  NoticeInv'
    <2>1. sender[w] \in SenderStates /\ sender \in [Senders -> SenderStates]
      BY DEF DeliveryTypeOK
    <2>2. /\ kind' = kind /\ delivery' = delivery /\ generation' = generation
          /\ sender' = [sender EXCEPT ![w] = Answered(sender[w], ok)]
      BY <1>15 DEF Answer
    <2>3. Answered(sender[w], ok).pc = "send" /\ Answered(sender[w], ok).event = sender[w].event
      BY <2>1, AnsweredFields
    <2>4. ASSUME kind = "latency" PROVE \A c \in Edits, r \in Recipients : received'[c][r] = 0
      BY <1>15, <2>4 DEF Answer, NoticeInv, DeliveryTypeOK
    <2> QED BY <2>1, <2>2, <2>3, <2>4 DEF NoticeInv
  <1>16. ASSUME \/ Keep
           \/ Expire
         PROVE  UNCHANGED <<kind, delivery, sender, received, generation>>
    BY <1>16 DEF Keep, Expire, Others
  <1>17. ASSUME UNCHANGED <<kind, delivery, sender, received, generation>> PROVE NoticeInv'
    BY <1>17 DEF DeliveryTypeOK, SenderStates, Events, Edits, NoticeInv
  <1> QED BY <1>1, <1>2, <1>3, <1>4, <1>5, <1>6, <1>7, <1>8, <1>9, <1>10, <1>11, <1>12, <1>13,
         <1>14, <1>15, <1>16, <1>17
  DEF Step, SenderStep

-----------------------------------------------------------------------------
(* Every step is one of these moves. *)

LEMMA Fields ==
  ASSUME DeliveryTypeOK
  PROVE  /\ event \in Nat /\ edits \in Nat /\ edits \in Edits /\ delivery \in Senders \cup {0}
         /\ \A w \in Senders : /\ sender[w].event \in Nat /\ sender[w].pending \in Nat /\ sender[w].edit \in Nat
                               /\ sender[w].edit \in Edits /\ sender[w].event \in Events /\ sender[w].pending \in Events
                               /\ sender[w].cancelled \in BOOLEAN /\ sender[w].failed \in BOOLEAN
                               /\ sender[w].todo \subseteq Recipients /\ sender[w].target \subseteq Recipients
         /\ \A c \in Edits, r \in Recipients : received[c][r] \in Nat
         /\ \A c \in Edits : c \in Nat
         /\ \A e \in Events : e \in Nat
  BY Numbers DEF DeliveryTypeOK, SenderStates, Events, Edits

LEMMA Moves ==
  ASSUME DeliveryTypeOK, NoticeInv, OwnInv, Step
  PROVE  Move
  <1> USE DEF SameJob, SameWork, Same, OnlyMoves, Still, Works, Active, Live, Sending
  <1>0. sender \in [Senders -> SenderStates] /\ delivery \in Senders \cup {0} /\ event \in Nat
         /\ \A w \in Senders : sender[w].edit \in Edits /\ sender[w].event \in Events /\ sender[w].target \subseteq Recipients
    BY Fields DEF DeliveryTypeOK
  <1>1. ASSUME NEW w \in Senders, NEW a \in BOOLEAN, Begin(w, a) PROVE Begins(w)
    BY <1>0, <1>1 DEF Begin, Begins, Raised, Others, Started, Idle, SenderStates
  <1>2. ASSUME Join PROVE Joins
    BY <1>0, <1>2, Numbers DEF Join, Joins, Raised, Others, SenderStates
  <1>3. ASSUME Keep \/ Expire PROVE Quiet
    BY <1>0, <1>3 DEF Keep, Expire, Others, Quiet
  <1>4. ASSUME Edit PROVE Changes
    BY <1>0, <1>4, Numbers DEF Edit, Changes, OwnInv, SenderStates
  <1>5. ASSUME SendNotificationAsync PROVE \E w \in Senders : Notifies(w)
    BY <1>0, <1>5 DEF SendNotificationAsync, Notifies, Idle, Free, Starter
  <1>6. ASSUME UnMuteNotification PROVE Quiet
    BY <1>0, <1>6 DEF UnMuteNotification, Quiet, Ordered, SenderStates
  <1>7. ASSUME NEW w \in Senders, RunCheck(w) PROVE Rests(w) \/ Starts(w) \/ Ends(w)
    <2>1. CASE sender[w].cancelled
      BY <1>0, <1>7, <2>1 DEF RunCheck, Ends, Idle, OwnInv
    <2>2. CASE ~sender[w].cancelled /\ Alerting
      BY <1>0, <1>7, <2>2 DEF RunCheck, Rests, SenderStates
    <2>3. CASE ~sender[w].cancelled /\ ~Alerting
      BY <1>0, <1>7, <2>3 DEF RunCheck, Starts, SenderStates
    <2> QED BY <2>1, <2>2, <2>3
  <1>8. ASSUME NEW w \in Senders, LockSendMu(w) PROVE Starts(w) \/ Ends(w)
    <2>1. CASE sender[w].cancelled
      BY <1>0, <1>8, <2>1 DEF LockSendMu, Ends, Idle, OwnInv
    <2>2. CASE ~sender[w].cancelled
      BY <1>0, <1>8, <2>2 DEF LockSendMu, Starts, SenderStates
    <2> QED BY <2>1, <2>2
  <1>9. ASSUME NEW w \in Senders, NextPhase(w) PROVE GoesOn(w)
    BY <1>0, <1>9 DEF NextPhase, GoesOn, Round, Delivered, SenderStates
  <1>10. ASSUME NEW w \in Senders, Done(w) PROVE Ends(w)
    BY <1>0, <1>10 DEF Done, Ends, Idle, Round, Delivered
  <1>11. ASSUME NEW w \in Senders, Wait(w) PROVE Rests(w)
    BY <1>0, <1>11 DEF Wait, Rests, Round, SenderStates
  <1>12. ASSUME NEW w \in Senders, Wake(w) PROVE Rests(w)
    BY <1>0, <1>12 DEF Wake, Rests, SenderStates
  <1>13. ASSUME NEW w \in Senders, AsyncDone(w) PROVE Ends(w)
    BY <1>0, <1>13 DEF AsyncDone, Ends, Idle, Round, NoticeInv
  <1>14. ASSUME NEW w \in Senders, NEW r \in Recipients, SkipMuted(w, r) PROVE Sends(w)
    BY <1>0, <1>14 DEF SkipMuted, Sends, SenderStates
  <1>15. ASSUME NEW w \in Senders, NEW r \in Recipients, Post(w, r) PROVE Sends(w)
    BY <1>0, <1>15 DEF Post, Sends, SenderStates
  <1>16. ASSUME NEW w \in Senders, NEW arrived \in BOOLEAN, NEW ok \in BOOLEAN, Answer(w, arrived, ok)
         PROVE  Answers(w)
    <2> DEFINE s == sender[w]
    <2>1. s \in SenderStates /\ s.target \subseteq Recipients /\ (ok => arrived)
      BY <1>0, <1>16 DEF Answer
    <2>2. /\ kind' = kind /\ UNCHANGED <<event, edits, delivery>> /\ Sending(w) /\ OnlyMoves(w)
          /\ sender'[w] = Answered(s, ok)
      BY <1>0, <1>16 DEF Answer
    <2>3. /\ SameJob(w) /\ sender'[w].cancelled = s.cancelled /\ sender'[w].pc = "send"
          /\ sender'[w].todo = s.todo \ s.target /\ (~sender'[w].failed => ok /\ ~s.failed)
      BY <2>1, <2>2, AnsweredFields
    <2>4. /\ \A c \in Edits, r \in Recipients : c # s.edit \/ r \notin s.target => received'[c][r] = received[c][r]
          /\ \A r \in s.target : /\ received'[s.edit][r] \in {received[s.edit][r], s.event}
                                 /\ ok => received'[s.edit][r] = s.event
      BY <1>0, <1>16, <2>1 DEF Answer, DeliveryTypeOK
    <2>5. \A e \in Events, r \in Recipients : <<e, r>> \in muted' => <<e, r>> \in muted \/ (ok /\ e = s.event /\ r \in s.target)
      BY <1>16 DEF Answer, Mute
    <2> QED BY <1>0, <2>1, <2>2, <2>3, <2>4, <2>5 DEF Answers
  <1> QED BY <1>1, <1>2, <1>3, <1>4, <1>5, <1>6, <1>7, <1>8, <1>9, <1>10, <1>11, <1>12, <1>13, <1>14, <1>15, <1>16
          DEF Step, SenderStep, Move

-----------------------------------------------------------------------------
(* What every move preserves. *)

LEMMA StepOwnInv ==
  ASSUME DeliveryTypeOK, DeliveryTypeOK', NoticeInv, OwnInv, Move
  PROVE  OwnInv'
  <1> USE DEF OwnInv, Active, Live, Sending, Ordered, Alerting, SameJob, SameWork, Same, OnlyMoves
  <1>0. /\ edits \in Nat /\ delivery \in Senders \cup {0} /\ 0 \notin Senders
        /\ \A w \in Senders : sender[w].edit \in Nat /\ sender[w].cancelled \in BOOLEAN /\ sender'[w].cancelled \in BOOLEAN
    BY Fields, Numbers DEF DeliveryTypeOK, SenderStates
  <1>1. CASE Quiet
    BY <1>0, <1>1 DEF Quiet
  <1>2. CASE Joins
    BY <1>0, <1>2 DEF Joins
  <1>3. CASE Changes
    BY <1>0, <1>3 DEF Changes
  <1>4. ASSUME NEW w \in Senders, Begins(w) PROVE OwnInv'
    BY <1>0, <1>4 DEF Begins
  <1>5. ASSUME NEW w \in Senders, Notifies(w) PROVE OwnInv'
    BY <1>0, <1>5 DEF Notifies, Still, NoticeInv
  <1>6. ASSUME NEW w \in Senders, Rests(w) PROVE OwnInv'
    BY <1>0, <1>6 DEF Rests, Works, Still
  <1>7. ASSUME NEW w \in Senders, Starts(w) PROVE OwnInv'
    BY <1>0, <1>7 DEF Starts, Works, Still, Unlocked
  <1>8. ASSUME NEW w \in Senders, Sends(w) PROVE OwnInv'
    BY <1>0, <1>8 DEF Sends, Works, Still
  <1>9. ASSUME NEW w \in Senders, Answers(w) PROVE OwnInv'
    BY <1>0, <1>9 DEF Answers
  <1>10. ASSUME NEW w \in Senders, GoesOn(w) PROVE OwnInv'
    BY <1>0, <1>10 DEF GoesOn, Works, Still
  <1>11. ASSUME NEW w \in Senders, Ends(w) PROVE OwnInv'
    BY <1>0, <1>11 DEF Ends, Still
  <1> QED BY <1>1, <1>2, <1>3, <1>4, <1>5, <1>6, <1>7, <1>8, <1>9, <1>10, <1>11 DEF Move

LEMMA StepOrderInv ==
  ASSUME DeliveryTypeOK, DeliveryTypeOK', NoticeInv, OwnInv, OrderInv, Move
  PROVE  OrderInv'
  <1> USE DEF OrderInv, Active, Live, Sending, Ordered, Alerting, SameJob, SameWork, Same, OnlyMoves
  <1>0. /\ event \in Nat /\ event' \in Nat /\ edits \in Nat /\ delivery \in Senders \cup {0} /\ 0 \notin Senders
        /\ \A w \in Senders : /\ sender[w].event \in Nat /\ sender[w].pending \in Nat /\ sender[w].edit \in Edits
                              /\ sender[w].cancelled \in BOOLEAN /\ sender[w].target \subseteq Recipients
        /\ \A c \in Edits, r \in Recipients : received[c][r] \in Nat
    BY Fields, Numbers DEF DeliveryTypeOK, Events
  <1>1. CASE Quiet
    BY <1>0, <1>1 DEF Quiet
  <1>2. CASE Joins
    BY <1>0, <1>2 DEF Joins
  <1>3. CASE Changes
    BY <1>0, <1>3 DEF Changes
  <1>4. ASSUME NEW w \in Senders, Begins(w) PROVE OrderInv'
    <2>1. /\ event <= event' /\ sender'[w].event = event' /\ sender'[w].pending = 0 /\ sender'[w].edit = edits
          /\ delivery' = w /\ kind' = kind /\ UNCHANGED received /\ \A v \in Senders : v # w => SameWork(v)
          /\ \A v \in Senders : v # w /\ ~sender'[v].cancelled => ~sender[v].cancelled
      BY <1>0, <1>4, Fields DEF Begins, DeliveryTypeOK, SenderStates
    <2>2. \A v \in Senders : /\ sender'[v].event <= event' /\ sender'[v].pending <= event'
                             /\ sender'[v].pending # 0 => Ordered' /\ sender'[v].pending > sender'[v].event
      BY <1>0, <2>1
    <2>3. \A c \in Edits, r \in Recipients : received'[c][r] <= event'
      BY <1>0, <2>1
    <2>4. \A v \in Senders : v # w /\ (Sending(v)' \/ Live(v)') =>
             \A r \in Recipients : received'[sender'[v].edit][r] <= sender'[v].event
      BY <1>0, <2>1
    <2>5. \A r \in Recipients : received'[sender'[w].edit][r] <= sender'[w].event
      BY <1>0, <2>1, <2>3, Fields
    <2> QED BY <2>1, <2>2, <2>3, <2>4, <2>5
  <1>5. ASSUME NEW w \in Senders, Notifies(w) PROVE OrderInv'
    BY <1>0, <1>5, Numbers DEF Notifies, Still, NoticeInv
  <1>6. ASSUME NEW w \in Senders, Rests(w) PROVE OrderInv'
    BY <1>0, <1>6 DEF Rests, Works, Still
  <1>7. ASSUME NEW w \in Senders, Starts(w) PROVE OrderInv'
    BY <1>0, <1>7 DEF Starts, Works, Still
  <1>8. ASSUME NEW w \in Senders, Sends(w) PROVE OrderInv'
    BY <1>0, <1>8 DEF Sends, Works, Still
  <1>9. ASSUME NEW w \in Senders, Answers(w) PROVE OrderInv'
    <2>1. /\ UNCHANGED <<kind, event, delivery, edits>> /\ Sending(w)
          /\ \A v \in Senders : SameJob(v) /\ (Sending(v)' \/ Live(v)' => Sending(v) \/ Live(v))
      BY <1>9 DEF Answers
    <2>2. \A c \in Edits, r \in Recipients :
             received'[c][r] = received[c][r] \/ (c = sender[w].edit /\ received'[c][r] = sender[w].event)
      BY <1>0, <1>9 DEF Answers
    <2>3. ASSUME NEW v \in Senders, Sending(v) \/ Live(v), sender[v].edit = sender[w].edit
          PROVE  sender[w].event <= sender[v].event
      <3>1. CASE Ordered
        BY <1>0, <2>1, <2>3, <3>1 DEF OwnInv
      <3>2. CASE Alerting
        BY <1>0, <2>1, <2>3, <3>2 DEF OwnInv
      <3>3. CASE kind = "latency"
        BY <1>0, <2>1, <2>3, <3>3 DEF NoticeInv
      <3> QED BY <3>1, <3>2, <3>3, DeliveryAssumption DEF DeliveryTypeOK
    <2>4. \A v \in Senders : Sending(v)' \/ Live(v)' =>
             \A r \in Recipients : received'[sender'[v].edit][r] <= sender'[v].event
      BY <1>0, <2>1, <2>2, <2>3
    <2>5. \A c \in Edits, r \in Recipients : received'[c][r] <= event'
      BY <1>0, <2>1, <2>2
    <2> QED BY <1>0, <2>1, <2>4, <2>5
  <1>10. ASSUME NEW w \in Senders, GoesOn(w) PROVE OrderInv'
    BY <1>0, <1>10 DEF GoesOn, Works, Still
  <1>11. ASSUME NEW w \in Senders, Ends(w) PROVE OrderInv'
    BY <1>0, <1>11 DEF Ends, Still
  <1> QED BY <1>1, <1>2, <1>3, <1>4, <1>5, <1>6, <1>7, <1>8, <1>9, <1>10, <1>11 DEF Move

LEMMA StepPastInv ==
  ASSUME DeliveryTypeOK, DeliveryTypeOK', OwnInv, OrderInv, PastInv, Move, Ordered
  PROVE  PastInv'
  <1> USE DEF Active, Sending, Ordered, SameJob, SameWork, Same, OnlyMoves
  <1>0. /\ event \in Nat /\ event' \in Nat /\ edits \in Nat /\ delivery \in Senders \cup {0} /\ 0 \notin Senders
        /\ \A w \in Senders : /\ sender[w].event \in Nat /\ sender[w].pending \in Nat /\ sender[w].edit \in Edits
                              /\ sender[w].edit \in Nat /\ sender[w].event \in Events /\ sender[w].target \subseteq Recipients
        /\ \A c \in Edits, r \in Recipients : received[c][r] \in Nat /\ c \in Nat
        /\ \A e \in Events : e \in Nat
    BY Fields, Numbers DEF DeliveryTypeOK, Events
  <1>1. CASE Quiet
    BY <1>0, <1>1 DEF Quiet, PastInv
  <1>2. CASE Joins
    <2>1. sender[delivery].edit = edits /\ Active(delivery) /\ delivery \in Senders
      BY <1>0, <1>2 DEF Joins, OwnInv, Live
    <2>2. \A v \in Senders : sender'[v].edit = sender[v].edit /\ sender'[v].pc = sender[v].pc /\ sender'[v].event = sender[v].event
                             /\ (v # delivery => sender'[v].pending = sender[v].pending)
      BY <1>2 DEF Joins
    <2>3. \A v, w \in Senders : Active(v)' /\ Active(w)' /\ sender'[v].edit < sender'[w].edit =>
             sender'[v].event <= sender'[w].event /\ sender'[v].pending <= sender'[w].event
      BY <1>0, <2>1, <2>2 DEF PastInv, OwnInv
    <2> QED BY <1>0, <1>2, <2>3 DEF Joins, PastInv
  <1>3. CASE Changes
    BY <1>0, <1>3 DEF Changes, PastInv
  <1>4. ASSUME NEW w \in Senders, Begins(w) PROVE PastInv'
    <2>1. /\ event <= event' /\ sender'[w].event = event' /\ sender'[w].pending = 0 /\ sender'[w].edit = edits
          /\ delivery' = w /\ UNCHANGED <<kind, edits, received, muted>> /\ \A v \in Senders : v # w => SameWork(v)
      BY <1>0, <1>4 DEF Begins
    <2>2. \A u, v \in Senders : Active(u)' /\ Active(v)' /\ sender'[u].edit < sender'[v].edit =>
             sender'[u].event <= sender'[v].event /\ sender'[u].pending <= sender'[v].event
      BY <1>0, <2>1 DEF PastInv, OwnInv, OrderInv
    <2> QED BY <1>0, <2>1, <2>2 DEF PastInv
  <1>5. ASSUME NEW w \in Senders, Rests(w) \/ Starts(w) \/ Sends(w) PROVE PastInv'
    BY <1>0, <1>5 DEF Rests, Starts, Sends, Works, Still, PastInv
  <1>6. ASSUME NEW w \in Senders, Answers(w) PROVE PastInv'
    <2>1. /\ UNCHANGED <<kind, event, delivery, edits>> /\ Sending(w)
          /\ \A v \in Senders : SameJob(v) /\ (Active(v)' => Active(v))
      BY <1>6 DEF Answers
    <2>2. \A c \in Edits, r \in Recipients :
             received'[c][r] = received[c][r] \/ (c = sender[w].edit /\ received'[c][r] = sender[w].event)
      BY <1>0, <1>6 DEF Answers
    <2>3. \A c \in Edits, r \in Recipients : received'[c][r] >= received[c][r]
      BY <1>0, <2>1, <2>2 DEF OrderInv
    <2>4. \A c \in Edits, r \in Recipients : c > edits => received'[c][r] = 0
      BY <1>0, <2>1, <2>2 DEF PastInv, OwnInv
    <2>5. ASSUME NEW e \in Events, NEW r \in Recipients, <<e, r>> \in muted' PROVE \E c \in Edits : received'[c][r] >= e
      <3>1. CASE <<e, r>> \in muted
        <4>1. PICK c \in Edits : received[c][r] >= e
          BY <3>1 DEF PastInv
        <4>2. received'[c][r] >= received[c][r] /\ received'[c][r] \in Nat /\ received[c][r] \in Nat /\ e \in Nat
          BY <1>0, <2>2, <2>3
        <4> QED BY <4>1, <4>2
      <3>2. CASE <<e, r>> \notin muted
        <4>1. e = sender[w].event /\ received'[sender[w].edit][r] = e
          BY <1>6, <2>5, <3>2 DEF Answers
        <4> QED BY <1>0, <4>1
      <3> QED BY <3>1, <3>2
    <2> QED BY <1>0, <2>1, <2>4, <2>5 DEF PastInv
  <1>7. ASSUME NEW w \in Senders, GoesOn(w) PROVE PastInv'
    BY <1>0, <1>7 DEF GoesOn, Works, Still, PastInv, OrderInv
  <1>8. ASSUME NEW w \in Senders, Ends(w) PROVE PastInv'
    BY <1>0, <1>8 DEF Ends, Still, PastInv
  <1> QED BY <1>1, <1>2, <1>3, <1>4, <1>5, <1>6, <1>7, <1>8 DEF Move, Notifies

LEMMA StepPhaseInv ==
  ASSUME DeliveryTypeOK, DeliveryTypeOK', LabelInv, OwnInv, OrderInv, PastInv, PhaseInv, Move, Ordered
  PROVE  PhaseInv'
  <1> USE DEF Active, Sending, Ordered, SameJob, SameWork, Same, OnlyMoves
  <1>0. /\ event \in Nat /\ event' \in Nat /\ edits \in Nat /\ delivery \in Senders \cup {0} /\ 0 \notin Senders
        /\ \A w \in Senders : /\ sender[w].event \in Nat /\ sender[w].pending \in Nat /\ sender[w].edit \in Edits
                              /\ sender[w].edit \in Nat /\ sender[w].event \in Events /\ sender[w].target \subseteq Recipients
        /\ \A c \in Edits, r \in Recipients : received[c][r] \in Nat /\ c \in Nat
        /\ \A e \in Events : e \in Nat
    BY Fields, Numbers DEF DeliveryTypeOK, Events
  <1>1. ASSUME NEW e \in Events, e # 0, e >= event, NEW r \in Recipients, <<e, r>> \in muted
        PROVE  \E c \in Edits : c <= edits /\ received[c][r] = e
    <2>1. PICK c \in Edits : received[c][r] >= e
      BY <1>1 DEF PastInv
    <2> QED BY <1>0, <1>1, <2>1 DEF PastInv, OrderInv
  <1>2. ASSUME NEW w \in Senders, Matters(w), UNCHANGED received, muted' \subseteq muted,
               sender'[w].event = sender[w].event, sender'[w].edit = sender[w].edit,
               \/ sender'[w].pc \notin {"send", "post"}
               \/ sender'[w].todo = Recipients
               \/ /\ Sending(w) /\ sender'[w].failed = sender[w].failed
                  /\ \A r \in Recipients : r \in sender'[w].todo \/ r \notin sender[w].todo \/ <<sender[w].event, r>> \in muted
        PROVE  \A r \in Recipients : /\ <<sender'[w].event, r>> \in muted' => HeardBy(w, r)'
                                     /\ Sending(w)' /\ ~sender'[w].failed /\ r \notin sender'[w].todo => HeardBy(w, r)'
    BY <1>0, <1>2 DEF PhaseInv, HeardBy
  <1>3. ASSUME \A w \in Senders : Matters(w)' =>
               /\ Matters(w) /\ sender'[w].event = sender[w].event /\ sender'[w].edit = sender[w].edit
               /\ \/ sender'[w].pc \notin {"send", "post"}
                  \/ sender'[w].todo = Recipients
                  \/ /\ Sending(w) /\ sender'[w].failed = sender[w].failed
                     /\ \A r \in Recipients : r \in sender'[w].todo \/ r \notin sender[w].todo \/ <<sender[w].event, r>> \in muted,
               UNCHANGED received, muted' \subseteq muted
        PROVE  PhaseInv'
    BY <1>2, <1>3 DEF PhaseInv
  <1>4. CASE Quiet
    BY <1>3, <1>4 DEF Quiet, Matters
  <1>5. CASE Joins
    BY <1>0, <1>3, <1>5 DEF Joins, Matters
  <1>6. CASE Changes
    BY <1>0, <1>3, <1>6 DEF Changes, Matters
  <1>7. ASSUME NEW w \in Senders, Begins(w) PROVE PhaseInv'
    <2>1. /\ delivery' = w /\ event' >= event /\ event' # 0 /\ event' \in Events /\ UNCHANGED <<received, muted>>
          /\ sender'[w].event = event' /\ sender'[w].edit = edits /\ sender'[w].pc = "check"
          /\ \A v \in Senders : v # w => SameWork(v)
      BY <1>0, <1>7 DEF Begins, DeliveryTypeOK
    <2>2. \A r \in Recipients : <<sender'[w].event, r>> \in muted' => HeardBy(w, r)'
      BY <1>1, <2>1 DEF HeardBy
    <2>3. ASSUME NEW v \in Senders, v # w, Matters(v)'
          PROVE  \A r \in Recipients : /\ <<sender'[v].event, r>> \in muted' => HeardBy(v, r)'
                                       /\ Sending(v)' /\ ~sender'[v].failed /\ r \notin sender'[v].todo => HeardBy(v, r)'
      BY <1>0, <2>1, <2>3 DEF Matters, PhaseInv, HeardBy
    <2> QED BY <2>1, <2>2, <2>3 DEF PhaseInv
  <1>8. ASSUME NEW w \in Senders, Rests(w) \/ Starts(w) \/ Sends(w) PROVE PhaseInv'
    BY <1>0, <1>3, <1>8 DEF Rests, Starts, Sends, Works, Still, Matters
  <1>9. ASSUME NEW w \in Senders, Answers(w) PROVE PhaseInv'
    <2>1. /\ UNCHANGED <<kind, event, delivery, edits>> /\ Sending(w) /\ sender'[w].pc = "send"
          /\ \A v \in Senders : SameJob(v) /\ (Matters(v)' => Matters(v)) /\ (v # w => Same(v))
      BY <1>9 DEF Answers, Matters
    <2>2. \A c \in Edits, r \in Recipients :
             received'[c][r] = received[c][r] \/ (c = sender[w].edit /\ received'[c][r] = sender[w].event)
      BY <1>0, <1>9 DEF Answers
    <2>3. ASSUME NEW v \in Senders, Matters(v), NEW r \in Recipients, HeardBy(v, r) PROVE HeardBy(v, r)'
      <3>1. PICK c \in Edits : c <= sender[v].edit /\ received[c][r] = sender[v].event
        BY <2>3 DEF HeardBy
      <3>2. CASE v # w /\ c = sender[w].edit
        <4>1. sender[w].edit < sender[v].edit
          BY <1>0, <2>1, <2>3, <3>1, <3>2 DEF Matters, OwnInv
        <4>2. sender[w].event <= sender[v].event
          BY <2>1, <2>3, <4>1 DEF PastInv, Matters
        <4>3. received[c][r] <= sender[w].event
          BY <2>1, <3>2 DEF OrderInv
        <4> QED BY <1>0, <2>1, <2>2, <3>1, <4>2, <4>3 DEF HeardBy
      <3>3. CASE v = w \/ c # sender[w].edit
        BY <2>1, <2>2, <3>1, <3>3 DEF HeardBy
      <3> QED BY <3>2, <3>3
    <2>4. ASSUME NEW v \in Senders, Matters(v), NEW r \in Recipients, <<sender[v].event, r>> \in muted' PROVE HeardBy(v, r)'
      <3>1. CASE <<sender[v].event, r>> \in muted
        BY <2>3, <2>4, <3>1 DEF PhaseInv
      <3>2. CASE <<sender[v].event, r>> \notin muted
        <4>1. sender[v].event = sender[w].event /\ received'[sender[w].edit][r] = sender[v].event
          BY <1>0, <1>9, <2>4, <3>2 DEF Answers
        <4>2. sender[w].edit <= sender[v].edit
          <5>1. CASE sender[v].pending # 0
            BY <1>0, <2>1, <2>4, <4>1, <5>1 DEF PastInv, OrderInv, Matters
          <5>2. CASE v = delivery
            BY <1>0, <2>1, <5>2 DEF OwnInv
          <5> QED BY <2>4, <5>1, <5>2 DEF Matters
        <4> QED BY <1>0, <2>1, <4>1, <4>2 DEF HeardBy
      <3> QED BY <3>1, <3>2
    <2>5. ASSUME NEW v \in Senders, Matters(v), NEW r \in Recipients,
                 Sending(v)', ~sender'[v].failed, r \notin sender'[v].todo
          PROVE  HeardBy(v, r)'
      <3>1. CASE v # w
        BY <2>1, <2>3, <2>5, <3>1 DEF PhaseInv
      <3>2. CASE v = w
        <4>1. ~sender[w].failed /\ (r \notin sender[w].todo \/ received'[sender[w].edit][r] = sender[w].event)
          BY <1>9, <2>5, <3>2 DEF Answers
        <4>2. CASE r \notin sender[w].todo
          BY <2>1, <2>3, <2>5, <3>2, <4>1, <4>2 DEF PhaseInv
        <4>3. CASE received'[sender[w].edit][r] = sender[w].event
          BY <1>0, <2>1, <3>2, <4>3 DEF HeardBy
        <4> QED BY <4>1, <4>2, <4>3
      <3> QED BY <3>1, <3>2
    <2> QED BY <2>1, <2>4, <2>5 DEF PhaseInv
  <1>10. ASSUME NEW w \in Senders, GoesOn(w) PROVE PhaseInv'
    <2>1. /\ UNCHANGED <<kind, event, delivery, edits, received, muted>> /\ sender[w].pending # 0 /\ Active(w)
          /\ sender'[w].event = sender[w].pending /\ sender'[w].pending = 0 /\ sender'[w].pc = "check"
          /\ sender'[w].edit = sender[w].edit /\ \A v \in Senders : v # w => Same(v)
      BY <1>10 DEF GoesOn, Works, Still
    <2>2. ASSUME Matters(w)', NEW r \in Recipients, <<sender'[w].event, r>> \in muted' PROVE HeardBy(w, r)'
      <3>1. w = delivery /\ sender[w].edit = edits /\ sender[w].pending = event
        BY <1>0, <2>1, <2>2 DEF Matters, OwnInv, PastInv
      <3> QED BY <1>0, <1>1, <2>1, <2>2, <3>1 DEF HeardBy, DeliveryTypeOK
    <2>3. ASSUME NEW v \in Senders, v # w, Matters(v)'
          PROVE  \A r \in Recipients : /\ <<sender'[v].event, r>> \in muted' => HeardBy(v, r)'
                                       /\ Sending(v)' /\ ~sender'[v].failed /\ r \notin sender'[v].todo => HeardBy(v, r)'
      BY <2>1, <2>3 DEF Matters, PhaseInv, HeardBy
    <2> QED BY <2>1, <2>2, <2>3 DEF PhaseInv
  <1>11. ASSUME NEW w \in Senders, Ends(w) PROVE PhaseInv'
    BY <1>0, <1>3, <1>11 DEF Ends, Still, Matters
  <1> QED BY <1>4, <1>5, <1>6, <1>7, <1>8, <1>9, <1>10, <1>11 DEF Move, Notifies

LEMMA StepMuteOfEpisode ==
  ASSUME DeliveryTypeOK, LabelInv', NoticeInv, MuteOfEpisode, Step
  PROVE  MuteOfEpisode'
  <1>1. CASE kind' # "latency"
    BY <1>1 DEF LabelInv, MuteOfEpisode
  <1>2. ASSUME UNCHANGED told, muted' \subseteq muted PROVE MuteOfEpisode'
    BY <1>2 DEF MuteOfEpisode
  <1>3. ASSUME \/ \E w \in Senders, a \in BOOLEAN : Begin(w, a)
               \/ Join \/ Keep \/ Edit \/ SendNotificationAsync \/ Expire
               \/ \E w \in Senders : RunCheck(w) \/ LockSendMu(w) \/ NextPhase(w) \/ Done(w) \/ Wait(w) \/ Wake(w) \/ AsyncDone(w)
               \/ \E w \in Senders, r \in Recipients : SkipMuted(w, r) \/ Post(w, r)
        PROVE  UNCHANGED told /\ muted' \subseteq muted
    BY <1>3 DEF Begin, Join, Keep, Others, Edit, SendNotificationAsync, Expire, RunCheck, LockSendMu, NextPhase,
                Done, Wait, Wake, AsyncDone, SkipMuted, Post
  <1>4. CASE UnMuteNotification
    BY <1>4 DEF UnMuteNotification, MuteOfEpisode
  <1>5. ASSUME kind' = "latency", NEW w \in Senders, NEW arrived \in BOOLEAN, NEW ok \in BOOLEAN, Answer(w, arrived, ok)
        PROVE  MuteOfEpisode'
    <2>1. sender[w].pc = "post" /\ kind = "latency" /\ told \subseteq told'
      BY <1>5 DEF Answer
    <2>2. \A r \in Recipients : <<0, r>> \in muted' =>
             <<0, r>> \in muted \/ (ok /\ sender[w].generation = generation /\ r \in sender[w].target)
      BY <1>5 DEF Answer, Mute
    <2>3. ok /\ sender[w].generation = generation => sender[w].target \subseteq told'
      BY <1>5, <2>1 DEF Answer, NoticeInv
    <2> QED BY <2>1, <2>2, <2>3 DEF MuteOfEpisode
  <1> QED BY <1>1, <1>2, <1>3, <1>4, <1>5 DEF Step, SenderStep

LEMMA StepPhasesInOrder ==
  ASSUME DeliveryTypeOK, LabelInv, OwnInv, OrderInv, PhaseInv, Move
  PROVE  /\ \A c \in Edits, r \in Recipients : received[c][r] <= received'[c][r]
         /\ \A w \in Senders : sender'[w].event > sender[w].event /\ sender[w].event # 0 => HeardByAll(sender[w].event)
  <1> USE DEF Active, Sending, Ordered, SameJob, SameWork, Same, OnlyMoves
  <1>0. /\ \A w \in Senders : sender[w].event \in Nat
        /\ \A c \in Edits, r \in Recipients : received[c][r] \in Nat
    BY Fields
  <1>1. CASE Quiet \/ Joins \/ Changes
    BY <1>0, <1>1 DEF Quiet, Joins, Changes
  <1>2. ASSUME NEW w \in Senders, Begins(w) \/ Notifies(w) \/ Ends(w)
        PROVE  /\ UNCHANGED received
               /\ \A v \in Senders : sender'[v].event > sender[v].event => v = w /\ sender[w].event = 0
    BY <1>0, <1>2 DEF Begins, Notifies, Ends, Still, LabelInv
  <1>3. ASSUME NEW w \in Senders, Rests(w) \/ Starts(w) \/ Sends(w)
        PROVE  UNCHANGED received /\ \A v \in Senders : sender'[v].event = sender[v].event
    BY <1>3 DEF Rests, Starts, Sends, Works, Still
  <1>4. ASSUME NEW w \in Senders, Answers(w)
        PROVE  /\ \A c \in Edits, r \in Recipients : received[c][r] <= received'[c][r]
               /\ \A v \in Senders : sender'[v].event = sender[v].event
    <2>1. \A r \in Recipients : received[sender[w].edit][r] <= sender[w].event
      BY <1>4 DEF Answers, OrderInv
    <2> QED BY <1>0, <1>4, <2>1 DEF Answers
  <1>5. ASSUME NEW w \in Senders, GoesOn(w)
        PROVE  /\ UNCHANGED received /\ HeardByAll(sender[w].event)
               /\ \A v \in Senders : v # w => sender'[v].event = sender[v].event
    <2>1. Matters(w) /\ ~sender[w].failed /\ sender[w].todo = {} /\ Sending(w) /\ Ordered
      BY <1>5 DEF GoesOn, Works, Matters
    <2>2. \A r \in Recipients : HeardBy(w, r)
      BY <2>1 DEF PhaseInv
    <2> QED BY <1>5, <2>2 DEF GoesOn, Works, Still, HeardBy, HeardByAll
  <1> QED BY <1>0, <1>1, <1>2, <1>3, <1>4, <1>5 DEF Move

-----------------------------------------------------------------------------
EventInv == DeliveryTypeOK /\ LabelInv /\ NoticeInv /\ OwnInv /\ OrderInv /\ PastInv /\ PhaseInv /\ MuteOfEpisode

LEMMA StepEventInv ==
  ASSUME EventInv, [DeliveryNext]_deliveryVars
  PROVE  EventInv'
  <1>1. CASE DeliveryNext
    <2>1. Step
      BY <1>1, Steps DEF EventInv
    <2>2. DeliveryTypeOK' /\ LabelInv' /\ NoticeInv'
      BY <2>1, StepTypes, StepLabelInv, StepNoticeInv DEF EventInv
    <2>3. Move
      BY <2>1, Moves DEF EventInv
    <2>4. OwnInv' /\ OrderInv'
      BY <2>2, <2>3, StepOwnInv, StepOrderInv DEF EventInv
    <2>5. PastInv' /\ PhaseInv'
      <3>1. CASE Ordered
        BY <2>2, <2>3, <3>1, StepPastInv, StepPhaseInv DEF EventInv
      <3>2. CASE ~Ordered
        <4>1. ~Ordered'
          BY <1>1, <3>2 DEF DeliveryNext, StateChanges, StillDown, Edit, SendNotificationAsync, UnMuteNotification,
             Expire, SenderStep, RunCheck, LockSendMu, NextPhase, Done, Wait, Wake, AsyncDone, SkipMuted, Post, Answer, Ordered
        <4> QED BY <4>1 DEF PastInv, PhaseInv
      <3> QED BY <3>1, <3>2
    <2>6. MuteOfEpisode'
      BY <2>1, <2>2, StepMuteOfEpisode DEF EventInv
    <2> QED BY <2>2, <2>4, <2>5, <2>6 DEF EventInv
  <1>2. CASE UNCHANGED deliveryVars
    <2> USE <1>2 DEF deliveryVars, EventInv, Active, Live, Sending, Ordered, Alerting
    <2>1. DeliveryTypeOK'
      BY DEF DeliveryTypeOK
    <2>2. LabelInv' /\ NoticeInv' /\ MuteOfEpisode'
      BY DEF LabelInv, NoticeInv, MuteOfEpisode
    <2>3. OwnInv' /\ OrderInv'
      BY DEF OwnInv, OrderInv
    <2>4. PastInv' /\ PhaseInv'
      BY DEF PastInv, PhaseInv, Matters, HeardBy
    <2> QED BY <2>1, <2>2, <2>3, <2>4
  <1> QED BY <1>1, <1>2

LEMMA EventInvHolds == DeliverySpec => []EventInv
  <1>1. DeliveryInit => EventInv
    BY InitInv DEF EventInv, DeliveryInit, MuteOfEpisode
  <1> QED BY <1>1, StepEventInv, PTL DEF DeliverySpec

(* Every variable keeps its declared type: the registered delivery is a      *)
(* goroutine, and mute entries are of events and recipients that exist.      *)
THEOREM EventTypes == DeliverySpec => []DeliveryTypeOK
  <1>1. EventInv => DeliveryTypeOK
    BY DEF EventInv
  <1> QED BY <1>1, EventInvHolds, PTL

(* For any number of recipients and goroutines: a latency notice that was on *)
(* its way when the latency became normal leaves no mute entry behind, so    *)
(* whoever is muted was told since.                                          *)
THEOREM MutesFollowEpisodes == DeliverySpec => []MuteOfEpisode
  <1>1. EventInv => MuteOfEpisode
    BY DEF EventInv
  <1> QED BY <1>1, EventInvHolds, PTL

(* For any number of recipients, goroutines, changes of state and edits:     *)
(* under one configuration nobody hears of an older change after a newer     *)
(* one, and a service's worker goes on only when all have heard.             *)
THEOREM PhasesFollow == DeliverySpec => PhasesInOrder
  <1>1. ASSUME EventInv, [DeliveryNext]_deliveryVars
        PROVE  [/\ \A c \in Edits, r \in Recipients : received[c][r] <= received'[c][r]
                /\ \A w \in Senders : sender'[w].event > sender[w].event /\ sender[w].event # 0 =>
                      HeardByAll(sender[w].event)]_deliveryVars
    <2>1. CASE DeliveryNext
      <3>1. Move
        BY <1>1, <2>1, Steps, Moves DEF EventInv
      <3> QED BY <1>1, <3>1, StepPhasesInOrder DEF EventInv
    <2>2. CASE UNCHANGED deliveryVars
      BY <2>2
    <2> QED BY <1>1, <2>1, <2>2
  <1> QED BY <1>1, EventInvHolds, PTL DEF DeliverySpec, PhasesInOrder
=============================================================================
