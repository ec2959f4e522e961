--------------------------- MODULE HysteresisAnalysis ---------------------------
(***************************************************************************)
(* analyze_hysteresis (analysis/hysteresis.py) on the cycles that          *)
(* run_hysteresis cuts out of its records (runners/hysteresis.py): one     *)
(* rising and one falling leg per cycle, the input interval in which the   *)
(* digital state changes, and the thresholds and widths of the cycles.     *)
(*                                                                         *)
(* Thresholds are doubled, so that the midpoint of an interval is an       *)
(* integer.  "Refused" is a ValidationError out of the whole analysis.     *)
(***************************************************************************)
EXTENDS MeasurementQuality, SequencesExt

Direction == {"rising", "falling"}

--------------------------------------------------------------------------------
(* The runner's plan and the batches of its records *)

\* a plan = [rising, falling, cycles] that HysteresisPlan accepts
PlanAccepted(plan) ==
    /\ Len(plan.rising) >= 2 /\ Len(plan.falling) >= 2
    /\ \A i \in 1..Len(plan.rising) - 1 : plan.rising[i] <= plan.rising[i + 1]
    /\ \A i \in 1..Len(plan.falling) - 1 : plan.falling[i] >= plan.falling[i + 1]
    /\ plan.cycles >= 1

PointsPerCycle(plan) == Len(plan.rising) + Len(plan.falling)

\* the setpoints in the order of _planned_steps
PlannedSetpoints(plan) ==
    [s \in 1..plan.cycles * PointsPerCycle(plan) |->
        (plan.rising \o plan.falling)[((s - 1) % PointsPerCycle(plan)) + 1]]

\* _cycle_inputs
CycleInputs(plan, ms) ==
    LET rising == 2 * Len(plan.rising)
        start(c) == (c - 1) * 2 * PointsPerCycle(plan)
    IN  [c \in 1..plan.cycles |->
            [rising |-> SubSeq(ms, start(c) + 1, start(c) + rising),
             falling |-> SubSeq(ms, start(c) + rising + 1,
                                    start(c) + 2 * PointsPerCycle(plan))]]

--------------------------------------------------------------------------------
(* One leg: an input and a digital state in turn *)

\* _state_value raises
StateRefused(m) ==
    \/ m.channel # "state"
    \/ m.unit # "bool"
    \/ m.value \notin {"missing", "nonfinite"} /\ m.number \notin {0, 1}

\* _points raises
LegRefused(ms) ==
    \/ Len(ms) % 2 = 1
    \/ Len(ms) < 4
    \/ \E i \in DOMAIN ms :
          IF i % 2 = 1 THEN ms[i].channel # "input" \/ UnitRefused(ms[i])
          ELSE StateRefused(ms[i])

LegPoints(ms, config) ==
    [k \in 1..Len(ms) \div 2 |->
        LET input == Assess(ms[2 * k - 1], config.allowed, config.unit)
            state == ms[2 * k]
            reasons ==
                {r \in {"input-not-included"} : input.disposition # "INCLUDED"}
                \cup {r \in {"state-status"} : state.status # "VALID"}
        IN  [input |-> input,
             state |-> IF state.status = "VALID" THEN <<state.number>> ELSE <<>>,
             flags |-> state.flags,
             status |-> state.status,
             reasons |-> reasons,
             included |-> reasons = {}]]

\* The validation of a HysteresisPointResult.
LegPointAccepted(p) ==
    /\ p.state \in {<<>>, <<0>>, <<1>>}
    /\ p.included <=> /\ p.input.disposition = "INCLUDED"
                      /\ p.status = "VALID"
                      /\ p.flags = {}
                      /\ p.state # <<>>
    /\ p.included <=> p.reasons = {}

Usable(points) == \A k \in DOMAIN points : points[k].included

InputAt(points, k) == points[k].input.value[1]

Monotone(points, direction) ==
    \A k \in 1..Len(points) - 1 :
        IF direction = "rising" THEN InputAt(points, k) <= InputAt(points, k + 1)
        ELSE InputAt(points, k) >= InputAt(points, k + 1)

\* the points whose state differs from the one before
Changes(points) ==
    {k \in 2..Len(points) : points[k - 1].state # points[k].state}

\* the first state a leg must have
Before(direction) == IF direction = "rising" THEN <<0>> ELSE <<1>>

\* _transition raises: not monotone, chatter, or reversed
TransitionRefused(points, direction) ==
    /\ Usable(points)
    /\ \/ ~Monotone(points, direction)
       \/ Cardinality(Changes(points)) > 1
       \/ \E k \in Changes(points) : points[k - 1].state # Before(direction)

\* _transition finds a gap
TransitionMissing(points, direction) ==
    IF ~Usable(points) THEN {<<direction, "usable-points">>}
    ELSE IF Changes(points) = {} THEN {<<direction, "transition">>}
    ELSE {}

Threshold(points) ==
    LET k == CHOOSE j \in Changes(points) : TRUE
    IN  InputAt(points, k - 1) + InputAt(points, k)

--------------------------------------------------------------------------------
(* Cycles and their summary *)

\* a cycle = [rising, falling] of points
CycleMissing(cycle) ==
    UNION {TransitionMissing(cycle[d], d) : d \in Direction}

\* _analyze_cycle raises
CycleRefused(cycle) ==
    \/ \E d \in Direction : TransitionRefused(cycle[d], d)
    \/ /\ CycleMissing(cycle) = {}
       /\ Threshold(cycle.rising) < Threshold(cycle.falling)

Width(cycle) == Threshold(cycle.rising) - Threshold(cycle.falling)

\* analyze_hysteresis gives a summary, on cycles that it does not refuse
Summarised(cycles) == \A c \in DOMAIN cycles : CycleMissing(cycles[c]) = {}

(***************************************************************************)
(* fmean in a floating-point arithmetic with Bits significant bits: the    *)
(* sum is rounded once, then the quotient (fsum(data) / n), both to the    *)
(* nearest, ties to even.  The widths are Bits-bit integers with the top   *)
(* bit set, so that the quotient is rounded to an integer.                 *)
(***************************************************************************)
RoundTo(numerator, denominator) ==
    LET floor == numerator \div denominator
        twice == 2 * (numerator % denominator)
    IN  IF twice > denominator \/ (twice = denominator /\ floor % 2 = 1)
        THEN floor + 1 ELSE floor

Rounded(sum, bits) ==
    LET unit == CHOOSE u \in {2 ^ k : k \in 0..bits} :
                    /\ sum < u * 2 ^ bits
                    /\ u = 1 \/ sum >= u * 2 ^ (bits - 1)
    IN  unit * RoundTo(sum, unit)

FMean(widths, bits) ==
    RoundTo(Rounded(FoldSeq(LAMBDA x, y : x + y, 0, widths), bits), Len(widths))

\* The validation of a HysteresisSummary: the mean lies within the bounds.
SummaryAccepted(widths, mean) ==
    /\ \E i \in DOMAIN widths : widths[i] <= mean
    /\ \E i \in DOMAIN widths : mean <= widths[i]

================================================================================
