--------------------------- MODULE AlertEvaluation ---------------------------
(* How an alert rule judges one server: every three seconds the sentinel     *)
(* looks at the newest report, keeps the points it saw, and lets the window  *)
(* of a condition decide (alertsentinel.go, model/alertrule.go,              *)
(* model/rule.go). Time passes in seconds; an instant is kept as its age.    *)
EXTENDS Integers, Sequences, FiniteSets, FiniteSetsExt

CONSTANTS
    Cases,      \* [rule |-> kinds of the conditions, reports |-> what a report can
                \* measure, late |-> bound: seconds from a tick to its look]
    Duration,   \* Rule.Duration
    MinGap,     \* bound: seconds between two reports, at least
    Holds       \* for how many seconds a cycle condition may keep its result

Measures == {"pass", "fail", "none"}
ASSUME AlertAssumption ==
    /\ \A c \in Cases : /\ c.rule # <<>> /\ \A i \in DOMAIN c.rule : c.rule[i] \in {"metric", "offline", "cycle"}
                        /\ c.late \in 0 .. 2 /\ \A m \in c.reports : m \in [DOMAIN c.rule -> Measures]
    /\ Duration \in Nat /\ Duration >= 3 /\ ({MinGap} \cup Holds) \subseteq Nat \ {0}

SampleInterval == 3
SampleMaxAge == 6
AlertWindow == Duration * SampleInterval
TimedRetention == AlertWindow + SampleMaxAge

VARIABLES
    case,        \* the rule, and what its server can report; never changes
    phase, due,  \* seconds since the last tick; its look is still to come
    runtime,     \* RuntimeSnapshot: age and measures of the newest report,
                 \* whether its stream is attached (else LastActive is zero),
                 \* and whether its sequence differs from alertsLastMetricSeq
    samples,     \* alertsStore: the points, the newest last
    verdict,     \* alertsPrevState
    cycle,       \* NextTransferAt and LastCycleStatus of the cycle condition
    looked,      \* history: every point a look saw, as long as it can matter
    same         \* history: looks in a row that saw the same, in time

alertVars == <<case, phase, due, runtime, samples, verdict, cycle, looked, same>>

Conditions == DOMAIN case.rule
Silent == AlertWindow + 1            \* no report for longer than the window
IsMetricRule == \E i \in Conditions : case.rule[i] # "offline"
NoRun == [values |-> <<>>, looks |-> 0]

AlertInit ==
    /\ case \in Cases /\ phase = 0 /\ due = TRUE
    /\ runtime = [age |-> Silent, measures |-> <<>>, attached |-> FALSE, fresh |-> FALSE]
    /\ samples = <<>> /\ verdict = "none" /\ cycle = [left |-> 0, passed |-> TRUE] /\ looked = <<>> /\ same = NoRun

-----------------------------------------------------------------------------
(* Time, reports, and changes of the rule. *)

Older(points) == [k \in DOMAIN points |-> [points[k] EXCEPT !.age = @ + 1]]
Recent(points, most) ==   \* the oldest points go, up to the first that is recent
    LET first == Min({k \in DOMAIN points : points[k].age <= most} \cup {Len(points) + 1})
    IN  SubSeq(points, first, Len(points))

Second ==
    /\ due => phase < case.late
    /\ phase' = (phase + 1) % SampleInterval /\ due' = (due \/ phase' = 0)
    /\ runtime' = [runtime EXCEPT !.age = IF @ = Silent THEN @ ELSE @ + 1]
    /\ cycle' = [cycle EXCEPT !.left = IF @ = 0 THEN 0 ELSE @ - 1]
    /\ samples' = Older(samples)
    /\ looked' = Recent(Older(looked), AlertWindow + 2)
    /\ UNCHANGED <<case, verdict, same>>

Report ==
    /\ runtime.age >= MinGap
    /\ \E m \in case.reports : runtime' = [age |-> 0, measures |-> m, attached |-> TRUE, fresh |-> TRUE]
    /\ UNCHANGED <<case, phase, due, samples, verdict, cycle, looked, same>>

(* The stream ends, or the host reports that it was started again. *)
Disconnect ==
    /\ runtime.attached
    /\ runtime' = [runtime EXCEPT !.attached = FALSE]
    /\ UNCHANGED <<case, phase, due, samples, verdict, cycle, looked, same>>

OnRefreshOrAddAlert ==
    /\ samples' = <<>> /\ verdict' = "none" /\ same' = NoRun
    /\ runtime' = [runtime EXCEPT !.fresh = runtime.measures # <<>>]
    /\ cycle' = [left |-> 0, passed |-> TRUE]
    /\ UNCHANGED <<case, phase, due, looked>>

-----------------------------------------------------------------------------
(* What the conditions say of the newest report (EvaluateRuntime). *)

Online == runtime.attached /\ runtime.age <= SampleMaxAge
FromCache(i) == case.rule[i] = "cycle" /\ cycle.left > 0
Measured(i) ==
    CASE case.rule[i] = "offline" -> IF Online THEN "pass" ELSE "fail"
      [] FromCache(i) -> IF cycle.passed THEN "pass" ELSE "fail"
      [] OTHER -> runtime.measures[i]
AllKnown == \A i \in Conditions : Measured(i) # "none"
Point == [i \in Conditions |-> Measured(i) = "pass"]

(* The result of a cycle condition is kept for a time that depends on how    *)
(* near the limit is.                                                        *)
KeepCycle ==
    \/ /\ \A i \in Conditions : case.rule[i] = "cycle" => FromCache(i) \/ Measured(i) = "none"
       /\ UNCHANGED cycle
    \/ \E i \in Conditions, hold \in Holds :
        /\ case.rule[i] = "cycle" /\ ~FromCache(i) /\ Measured(i) # "none"
        /\ cycle' = [left |-> hold, passed |-> Measured(i) = "pass"]

-----------------------------------------------------------------------------
(* CheckTimed: how much of the window the points cover, and how much of it   *)
(* failed. Instants are relative to now; the last point stands for one tick. *)

WindowEnd == SampleInterval
WindowStart == WindowEnd - AlertWindow
NoSpan == 0   \* mutant: the last point stands for no time
LastSpan == SampleInterval

Span(points, k) ==
    LET at == -points[k].age
        until == IF k = Len(points) THEN at + LastSpan ELSE -points[k + 1].age
        to == Min({until, at + SampleMaxAge, WindowEnd})
    IN  Max({0, to - Max({at, WindowStart})})
Spans(points) == [k \in DOMAIN points |-> Span(points, k)]
Seconds(spans, S) == MapThenSumSet(LAMBDA k : spans[k], S)
Covered(points) == Seconds(Spans(points), DOMAIN points)
Failed(points, i) == Seconds(Spans(points), {k \in DOMAIN points : ~points[k].values[i]})

Decidable(points) == -points[1].age <= WindowStart /\ 10 * Covered(points) >= 9 * AlertWindow

Fails(points, i) ==
    CASE case.rule[i] = "cycle" -> ~points[Len(points)].values[i]
      [] case.rule[i] = "offline" ->
            /\ Decidable(points) /\ Covered(points) - Failed(points, i) < SampleInterval
            /\ Failed(points, i) >= AlertWindow - SampleInterval
      [] OTHER -> Decidable(points) /\ 10 * Failed(points, i) > 7 * AlertWindow
Passes(points, i) ==
    CASE case.rule[i] = "cycle" -> points[Len(points)].values[i]
      [] case.rule[i] = "offline" -> Decidable(points) /\ Covered(points) - Failed(points, i) >= SampleInterval
      [] OTHER -> /\ Decidable(points) /\ 10 * Failed(points, i) <= 7 * AlertWindow
                  /\ 10 * (Failed(points, i) + AlertWindow - Covered(points)) <= 7 * AlertWindow
CheckTimed(points) ==
    IF \E i \in Conditions : ~Fails(points, i) /\ ~Passes(points, i) THEN "unknown"
    ELSE IF \A i \in Conditions : Fails(points, i) THEN "fail" ELSE "pass"

-----------------------------------------------------------------------------
(* checkStatusForServer. *)

Tick == due /\ due' = FALSE /\ UNCHANGED <<case, phase>>
Distinct == IsMetricRule => Online /\ runtime.fresh

(* The agent is away: what it measured before says nothing of now.           *)
LooksAtNothing ==
    /\ Tick /\ IsMetricRule /\ ~Online
    /\ samples' = <<>> /\ same' = NoRun
    /\ UNCHANGED <<runtime, verdict, cycle, looked>>

(* A report counts once. *)
LooksAgain ==
    /\ Tick /\ IsMetricRule /\ Online /\ ~runtime.fresh
    /\ same' = NoRun
    /\ UNCHANGED <<runtime, samples, verdict, cycle, looked>>

SeesUnknown ==
    /\ Tick /\ Distinct /\ ~AllKnown /\ KeepCycle
    /\ runtime' = [runtime EXCEPT !.fresh = FALSE]
    /\ samples' = <<>> /\ same' = NoRun
    /\ UNCHANGED <<verdict, looked>>

SampledAtTick == [age |-> 0, values |-> Point]   \* mutant: a report counts from the look on, however old it is
Sampled == [age |-> IF IsMetricRule THEN runtime.age ELSE 0, values |-> Point]
InTime == IsMetricRule => 10 * runtime.age <= AlertWindow
Kept == Recent(Append(samples, Sampled), TimedRetention)

Judges ==
    /\ Tick /\ Distinct /\ AllKnown /\ KeepCycle
    /\ runtime' = [runtime EXCEPT !.fresh = @ /\ ~IsMetricRule]
    /\ samples' = Kept
    /\ verdict' = IF CheckTimed(Kept) = "unknown" THEN verdict ELSE CheckTimed(Kept)
    /\ looked' = Append(looked, [age |-> IF IsMetricRule THEN runtime.age ELSE 0, values |-> Point])
    /\ same' = IF ~InTime THEN NoRun
               ELSE [values |-> Point, looks |-> IF same.values = Point THEN Min({same.looks, Duration}) + 1 ELSE 1]

CheckStatus == LooksAtNothing \/ LooksAgain \/ SeesUnknown \/ Judges
AlertNext == Second \/ Report \/ Disconnect \/ OnRefreshOrAddAlert \/ CheckStatus
AlertSpec == AlertInit /\ [][AlertNext]_alertVars

-----------------------------------------------------------------------------
(* What was in force in the second that began s seconds from now: the newest *)
(* point seen by then, as long as it is not older than a sample may be.      *)
InForce(i, s) == {p.values[i] : p \in {looked[k] : k \in {k \in DOMAIN looked :
    /\ -looked[k].age <= s /\ s < SampleMaxAge - looked[k].age
    /\ \A j \in DOMAIN looked : j > k => -looked[j].age > s}}}
SecondsOf(i, value) == Cardinality({s \in WindowStart .. WindowEnd - 1 : InForce(i, s) = {value}})

BreachBacked(i) ==
    CASE case.rule[i] = "offline" -> SecondsOf(i, FALSE) >= AlertWindow - SampleInterval
      [] case.rule[i] = "cycle" -> \E k \in DOMAIN looked : ~looked[k].values[i] /\ looked[k].age <= SampleMaxAge
      [] OTHER -> 10 * SecondsOf(i, FALSE) > 7 * AlertWindow
HealthBacked(i) ==
    CASE case.rule[i] = "offline" -> Online
      [] case.rule[i] = "cycle" -> \E k \in DOMAIN looked : looked[k].values[i] /\ looked[k].age <= SampleMaxAge
      [] OTHER -> 10 * SecondsOf(i, TRUE) >= 3 * AlertWindow

(* An incident rests on more than seven tenths of the window of every        *)
(* condition, in seconds in which a breach was in force, and for an offline  *)
(* rule on all but one tick of it; it is resolved only by three tenths of    *)
(* health, or an agent that is there. Gaps, repeated looks at one report,    *)
(* points dropped and points kept too long make neither (checkTimed).        *)
TransitionsBacked ==
    [][/\ verdict # "fail" /\ verdict' = "fail" => \A i \in Conditions : BreachBacked(i)'
       /\ verdict = "fail" /\ verdict' = "pass" => \E i \in Conditions : HealthBacked(i)']_alertVars

(* What every look of a window sees, in a report no older than a tenth of    *)
(* the window, is decided by the next one: a lasting breach raises its       *)
(* incident and lasting health resolves it.                                  *)
LastingDecided == same.looks > Duration => (verdict = "fail") = (\A i \in Conditions : ~same.values[i])
=============================================================================
