---------------------------- MODULE EventDelivery ----------------------------
(* How events reach the recipients of a notification group: the ordered      *)
(* worker of a service's state changes, the deliveries of an alert rule for  *)
(* one server (alertsentinel.go), and the asynchronous latency notices, all  *)
(* over SendNotification and its mute entries (notification.go).             *)
EXTENDS Naturals, FiniteSets

CONSTANTS
    Recipients,    \* the notification methods of the group
    Kinds,         \* which of "service", "alert", "always" and "latency" to run
    MaxSenders,    \* bound: goroutines that deliver at the same time
    MaxEvents,     \* bound: changes of state and edits
    MaxEdits,      \* bound: edits of the service or the rule
    MaxExpiries    \* bound: mute entries and backoffs that run out

ASSUME DeliveryAssumption ==
    /\ Kinds \subseteq {"service", "alert", "always", "latency"} /\ Kinds # {}
    /\ MaxSenders \in Nat \ {0} /\ {MaxEvents, MaxEdits, MaxExpiries} \subseteq Nat

Senders == 1 .. MaxSenders
Events == 0 .. MaxEvents         \* 0: no event, and the one label of latency notices
Edits == 0 .. MaxEdits

VARIABLES
    kind,            \* what is delivered; never changes
    event, failing,  \* the last event; alertsPrevState is _RuleCheckFail
    edits, expiries, \* edits, and expiries, so far
    delivery,        \* the sender registered in serviceDelivery or alertDeliveries
    sender,          \* the goroutines
    muted,           \* Cache: labels and recipients whose entry has not run out
    busy, backoff,   \* asyncInFlight; asyncRetryAfter is in the future
    generation,      \* muteGeneration
    received,        \* history: the newest event a recipient got, by configuration
    told             \* history: recipients told since the last normal latency

deliveryVars == <<kind, event, failing, edits, expiries, delivery, sender, muted, busy, backoff, generation, received, told>>

Idle == [pc |-> "none", event |-> 0, pending |-> 0, update |-> FALSE, cancelled |-> FALSE, edit |-> 0,
         todo |-> {}, failed |-> FALSE, target |-> {}, generation |-> 0, always |-> FALSE, fresh |-> TRUE]

DeliveryInit ==
    /\ kind \in Kinds /\ event = 0 /\ failing = FALSE /\ edits = 0 /\ expiries = 0
    /\ delivery = 0 /\ sender = [w \in Senders |-> Idle] /\ muted = {} /\ busy = FALSE /\ backoff = FALSE
    /\ generation = 0 /\ received = [c \in Edits |-> [r \in Recipients |-> 0]] /\ told = {}

Ordered == kind = "service"
Alerting == kind \in {"alert", "always"}

-----------------------------------------------------------------------------
(* A change of state starts a delivery, or joins the one that is running.    *)

Free == {w \in Senders : sender[w].pc = "none"}
Starter == CHOOSE w \in Free : TRUE
Started(e, always) == [Idle EXCEPT !.pc = "check", !.event = e, !.edit = edits, !.always = always]

SendWhenFree(e) ==   \* mutant: a change of state during a delivery is not kept
    IF delivery = 0
    THEN Free # {} /\ delivery' = Starter /\ sender' = [sender EXCEPT ![Starter] = Started(e, FALSE)]
    ELSE UNCHANGED <<delivery, sender>>
SendServiceState(e) ==
    IF delivery = 0
    THEN Free # {} /\ delivery' = Starter /\ sender' = [sender EXCEPT ![Starter] = Started(e, FALSE)]
    ELSE LET d == sender[delivery] IN
         /\ UNCHANGED delivery
         /\ sender' = IF (d.pending = 0 /\ d.event = e) \/ d.pending = e THEN sender
                      ELSE [sender EXCEPT ![delivery].pending = e, ![delivery].update = TRUE]

StartAlertDelivery(e, incident) ==
    /\ Free # {} /\ delivery' = Starter
    /\ sender' = [[w \in Senders |-> IF w = delivery THEN [sender[w] EXCEPT !.cancelled = TRUE] ELSE sender[w]]
                    EXCEPT ![Starter] = Started(e, incident /\ kind = "always")]

StateChanges ==
    /\ kind # "latency" /\ event + edits < MaxEvents /\ event' = event + 1
    /\ \/ Ordered /\ SendServiceState(event') /\ UNCHANGED failing
       \/ Alerting /\ StartAlertDelivery(event', ~failing) /\ failing' = ~failing
    /\ UNCHANGED <<kind, edits, expiries, muted, busy, backoff, generation, received, told>>

(* A service that is still down is reported again. *)
StillDown ==
    /\ Ordered /\ event > 0 /\ SendServiceState(event)
    /\ UNCHANGED <<kind, event, failing, edits, expiries, muted, busy, backoff, generation, received, told>>

(* An edit of the service or of the rule gives up what is being delivered;   *)
(* the rule is then evaluated afresh.                                        *)
Edit ==
    /\ kind # "latency" /\ edits < MaxEdits /\ event + edits < MaxEvents /\ edits' = edits + 1
    /\ delivery' = 0 /\ failing' = FALSE
    /\ sender' = [w \in Senders |-> IF w = delivery /\ sender[w].pc # "none"
                                    THEN [sender[w] EXCEPT !.cancelled = TRUE] ELSE sender[w]]
    /\ UNCHANGED <<kind, event, expiries, muted, busy, backoff, generation, received, told>>

SendNotificationAsync ==
    /\ kind = "latency" /\ ~busy /\ ~backoff /\ Free # {}
    /\ busy' = TRUE
    /\ sender' = [sender EXCEPT ![Starter] = [Idle EXCEPT !.pc = "send", !.todo = Recipients]]
    /\ UNCHANGED <<kind, event, failing, edits, expiries, delivery, muted, backoff, generation, received, told>>

UnMuteNotification ==
    /\ kind = "latency" /\ event < MaxEvents /\ event' = event + 1
    /\ generation' = generation + 1 /\ muted' = {} /\ told' = {}
    /\ sender' = [w \in Senders |-> [sender[w] EXCEPT !.fresh = sender[w].pc # "post"]]
    /\ UNCHANGED <<kind, failing, edits, expiries, delivery, busy, backoff, received>>

-----------------------------------------------------------------------------
(* SendNotification: the recipients one after the other, in any order, each  *)
(* skipped while its mute entry for the event lasts. A request may fail, or  *)
(* arrive although its answer is lost.                                       *)

RunCheck(w) ==
    /\ sender[w].pc = "check"
    /\ sender' = [sender EXCEPT ![w] =
            IF sender[w].cancelled THEN Idle
            ELSE IF Alerting THEN [@ EXCEPT !.pc = "lock"]
            ELSE [@ EXCEPT !.pc = "send", !.todo = Recipients, !.failed = FALSE]]
    /\ UNCHANGED <<kind, event, failing, edits, expiries, delivery, muted, busy, backoff, generation, received, told>>

Sending(w) == sender[w].pc \in {"send", "post"}
Unlocked(w) == \A v \in Senders : sender[v].edit = sender[w].edit => ~Sending(v)   \* sendMu of the rule's entries
SendMuUnlocked(w) ==   \* mutant: the recovery does not wait for the incident's request
    /\ sender[w].pc = "lock"
    /\ sender' = [sender EXCEPT ![w] = [@ EXCEPT !.pc = "send", !.todo = Recipients, !.failed = FALSE]]
    /\ UNCHANGED <<kind, event, failing, edits, expiries, delivery, muted, busy, backoff, generation, received, told>>
LockSendMu(w) ==
    /\ sender[w].pc = "lock" /\ Unlocked(w)
    /\ sender' = [sender EXCEPT ![w] =
            IF sender[w].cancelled THEN Idle ELSE [@ EXCEPT !.pc = "send", !.todo = Recipients, !.failed = FALSE]]
    /\ UNCHANGED <<kind, event, failing, edits, expiries, delivery, muted, busy, backoff, generation, received, told>>

SkipMuted(w, r) ==
    /\ sender[w].pc = "send" /\ r \in sender[w].todo /\ <<sender[w].event, r>> \in muted
    /\ sender' = [sender EXCEPT ![w].todo = @ \ {r}]
    /\ UNCHANGED <<kind, event, failing, edits, expiries, delivery, muted, busy, backoff, generation, received, told>>

Post(w, r) ==
    /\ sender[w].pc = "send" /\ r \in sender[w].todo /\ <<sender[w].event, r>> \notin muted
    /\ \A v \in Senders : sender[v].pc = "post" => <<sender[v].event, sender[v].target>> # <<sender[w].event, {r}>>
    /\ sender' = [sender EXCEPT ![w] = [@ EXCEPT !.pc = "post", !.target = {r}, !.generation = generation, !.fresh = TRUE]]
    /\ UNCHANGED <<kind, event, failing, edits, expiries, delivery, muted, busy, backoff, generation, received, told>>

MuteAnyway(w) == muted' = muted \cup ({sender[w].event} \X sender[w].target)   \* mutant: the generation is not compared
Mute(w) == muted' = IF sender[w].generation = generation THEN muted \cup ({sender[w].event} \X sender[w].target) ELSE muted

Answered(s, ok) == [s EXCEPT !.pc = "send", !.todo = @ \ s.target, !.target = {}, !.failed = @ \/ ~ok,
                             !.generation = 0, !.fresh = TRUE]
Answer(w, arrived, ok) ==
    /\ sender[w].pc = "post" /\ (ok => arrived)
    /\ sender' = [sender EXCEPT ![w] = Answered(sender[w], ok)]
    /\ received' = [received EXCEPT ![sender[w].edit] = [r \in Recipients |->
                        IF arrived /\ r \in sender[w].target THEN sender[w].event ELSE @[r]]]
    /\ told' = IF ok /\ kind = "latency" /\ sender[w].fresh THEN told \cup sender[w].target ELSE told
    /\ IF ok THEN Mute(w) ELSE UNCHANGED muted
    /\ UNCHANGED <<kind, event, failing, edits, expiries, delivery, busy, backoff, generation>>

-----------------------------------------------------------------------------
(* What follows a round of requests. *)

Round(w) == sender[w].pc = "send" /\ sender[w].todo = {}
Delivered(w) == ~sender[w].failed

NextPhase(w) ==
    /\ Ordered /\ Round(w) /\ Delivered(w) /\ sender[w].pending # 0
    /\ sender' = [sender EXCEPT ![w] = [@ EXCEPT !.pc = "check", !.event = sender[w].pending, !.pending = 0, !.update = FALSE]]
    /\ UNCHANGED <<kind, event, failing, edits, expiries, delivery, muted, busy, backoff, generation, received, told>>

Done(w) ==
    /\ Round(w) /\ Delivered(w)
    /\ \/ Ordered /\ sender[w].pending = 0 /\ delivery' = IF delivery = w THEN 0 ELSE delivery
       \/ Alerting /\ ~sender[w].always /\ delivery' = IF delivery = w THEN 0 ELSE delivery
    /\ sender' = [sender EXCEPT ![w] = Idle]
    /\ UNCHANGED <<kind, event, failing, edits, expiries, muted, busy, backoff, generation, received, told>>

Wait(w) ==
    /\ kind # "latency" /\ Round(w) /\ (~Delivered(w) \/ sender[w].always)
    /\ sender' = [sender EXCEPT ![w].pc = "wait"]
    /\ UNCHANGED <<kind, event, failing, edits, expiries, delivery, muted, busy, backoff, generation, received, told>>

(* Cancelled, told of a pending event, or the timer. *)
Wake(w) ==
    /\ sender[w].pc = "wait"
    /\ sender' = [sender EXCEPT ![w] = [@ EXCEPT !.pc = "check", !.update = FALSE]]
    /\ UNCHANGED <<kind, event, failing, edits, expiries, delivery, muted, busy, backoff, generation, received, told>>

AsyncDone(w) ==
    /\ kind = "latency" /\ Round(w)
    /\ busy' = FALSE /\ backoff' = ~Delivered(w) /\ sender' = [sender EXCEPT ![w] = Idle]
    /\ UNCHANGED <<kind, event, failing, edits, expiries, delivery, muted, generation, received, told>>

Expire ==
    /\ expiries < MaxExpiries /\ expiries' = expiries + 1
    /\ \/ \E m \in muted : muted' = muted \ {m} /\ UNCHANGED backoff
       \/ backoff /\ backoff' = FALSE /\ UNCHANGED muted
    /\ UNCHANGED <<kind, event, failing, edits, delivery, sender, busy, generation, received, told>>

SenderStep(w) ==
    \/ RunCheck(w) \/ LockSendMu(w) \/ NextPhase(w) \/ Done(w) \/ Wait(w) \/ Wake(w) \/ AsyncDone(w)
    \/ \E r \in Recipients : SkipMuted(w, r) \/ Post(w, r)
    \/ \E arrived, ok \in BOOLEAN : Answer(w, arrived, ok)
DeliveryNext ==
    \/ StateChanges \/ StillDown \/ Edit \/ SendNotificationAsync \/ UnMuteNotification \/ Expire
    \/ \E w \in Senders : SenderStep(w)

(* Goroutines run, and a recipient that is asked again and again answers.    *)
Succeeds(w, r) == Answer(w, TRUE, TRUE) /\ sender[w].target = {r}
DeliveryFairness ==
    \A w \in Senders :
        /\ WF_deliveryVars(SenderStep(w))
        /\ \A r \in Recipients : SF_deliveryVars(Succeeds(w, r))
DeliverySpec == DeliveryInit /\ [][DeliveryNext]_deliveryVars /\ DeliveryFairness

-----------------------------------------------------------------------------
SenderStates ==
    [pc : {"none", "check", "lock", "send", "post", "wait"}, event : Events, pending : Events,
     update : BOOLEAN, cancelled : BOOLEAN, edit : Edits, todo : SUBSET Recipients, failed : BOOLEAN,
     target : SUBSET Recipients, generation : Nat, always : BOOLEAN, fresh : BOOLEAN]
DeliveryTypeOK ==
    /\ kind \in Kinds /\ event \in Events /\ edits \in Edits /\ expiries \in Nat
    /\ failing \in BOOLEAN /\ busy \in BOOLEAN /\ backoff \in BOOLEAN
    /\ delivery \in Senders \cup {0} /\ sender \in [Senders -> SenderStates]
    /\ muted \subseteq Events \X Recipients /\ generation \in Nat
    /\ received \in [Edits -> [Recipients -> Events]] /\ told \subseteq Recipients

(* Under one configuration no recipient hears of an older change of state    *)
(* after a newer one: a recovery never overtakes its incident, however slow  *)
(* a webhook is and however often a request is repeated.                     *)
(* The worker of a service leaves a change only when all have heard of it.   *)
HeardByAll(e) == \A r \in Recipients : \E c \in Edits : received[c][r] = e
PhasesInOrder ==
    [][/\ \A c \in Edits, r \in Recipients : received[c][r] <= received'[c][r]
       /\ \A w \in Senders : sender'[w].event > sender[w].event /\ sender[w].event # 0 =>
            HeardByAll(sender[w].event)]_deliveryVars

(* The last change of state reaches every recipient that answers now and     *)
(* then, unless an edit gives the delivery up.                               *)
LatestReaches == \A e \in Events \ {0}, c \in Edits : delivery # 0 /\ event = e /\ edits = c ~>
    event # e \/ edits # c \/ \A r \in Recipients : \E d \in Edits : received[d][r] = e

(* A latency notice that was on its way when the latency became normal does  *)
(* not mute the next one.                                                    *)
MuteOfEpisode == \A r \in Recipients : <<0, r>> \in muted => r \in told

(* Across edits as well, no recipient hears of an older change of state      *)
(* after a newer one.                                                        *)
OrderAcrossEdits == [][\A c, d \in Edits, r \in Recipients :
    received'[c][r] # received[c][r] => received'[c][r] >= received[d][r]]_deliveryVars
=============================================================================
