--------------------------- MODULE AcceptanceCriteria ---------------------------
(***************************************************************************)
(* From an analysis to PASS, FAIL or INCOMPLETE: the acceptance criteria   *)
(* of the four kinds of test (analysis/*_criteria.py) and what a           *)
(* TestRunResult accepts (domain/test_runs.py).                            *)
(*                                                                         *)
(* An analysis is [unit, missing, size, actual]: its gaps, its included    *)
(* points or complete cycles, and the value of every criterion.  The       *)
(* criteria are a set of at most one record [unit, minimum, limits]; a     *)
(* limit that is None is the empty set.  Numbers are integers.             *)
(***************************************************************************)
EXTENDS Integers

Limits(lower, upper) == [lower |-> lower, upper |-> upper]

AtMost(n) == Limits({}, {n})
AtLeast(n) == Limits({n}, {})
Within(a, b) == Limits({a}, {b})

\* DCSweepAcceptanceCriteria, as _evaluate_complete_fit uses it
DCSweepLimits(c) ==
    [GAIN |-> Within(c.targetGain - c.gainTolerance, c.targetGain + c.gainTolerance),
     ABS_OFFSET |-> AtMost(c.maxAbsOffset),
     R_SQUARED |-> AtLeast(c.minRSquared),
     RMSE |-> AtMost(c.maxRmse)]

\* HysteresisAcceptanceCriteria
HysteresisLimits(c) ==
    [MEAN_HIGH_THRESHOLD |-> Within(c.minHigh, c.maxHigh),
     MEAN_LOW_THRESHOLD |-> Within(c.minLow, c.maxLow),
     MEAN_WIDTH |-> Within(c.minWidth, c.maxWidth),
     WIDTH_SPAN |-> AtMost(c.maxSpan)]

\* CalibrationAcceptanceCriteria
CalibrationLimits(c) ==
    [AFTER_RMSE |-> AtMost(c.maxRmse),
     AFTER_MEAN_ABSOLUTE_ERROR |-> AtMost(c.maxMean),
     AFTER_MAX_ABSOLUTE_ERROR |-> AtMost(c.maxMax),
     RMSE_REDUCTION |-> AtLeast(c.minReduction)]

\* FrequencyResponseAcceptanceCriteria: per cent of the target, in hundredths
FrequencyLimits(c) ==
    [CUTOFF_FREQUENCY |-> Within(c.target * (100 - c.tolerance),
                                 c.target * (100 + c.tolerance))]

\* one inclusive check
Passed(value, limit) ==
    /\ \A low \in limit.lower : value >= low
    /\ \A high \in limit.upper : value <= high

\* the last criterion of every kind: INCLUDED_POINTS or COMPLETE_CYCLES
SizePassed(analysis, c) == Passed(analysis.size, AtLeast(c.minimum))

AllPassed(analysis, c) ==
    /\ \A name \in DOMAIN c.limits : Passed(analysis.actual[name], c.limits[name])
    /\ SizePassed(analysis, c)

\* a unit that differs raises; a frequency response has no unit to compare
EvaluationRefused(kind, analysis, criteria) ==
    kind # "frequency" /\ \E c \in criteria : c.unit # analysis.unit

\* the gaps that keep the criteria from being evaluated
Gaps(analysis, criteria) ==
    {r \in {"acceptance-criteria"} : criteria = {}} \cup analysis.missing

\* _derive_evaluation and the _derive of the other three kinds
Derive(analysis, criteria) ==
    IF Gaps(analysis, criteria) # {}
    THEN [outcome |-> "INCOMPLETE", missing |-> Gaps(analysis, criteria)]
    ELSE IF \E c \in criteria : analysis.size < c.minimum
    THEN [outcome |-> "INCOMPLETE", missing |-> {"criteria-size"}]
    ELSE IF \A c \in criteria : AllPassed(analysis, c)
    THEN [outcome |-> "PASS", missing |-> {}]
    ELSE [outcome |-> "FAIL", missing |-> {}]

\* The validation of a TestRunResult with so many evidence records.
TestRunAccepted(result, evidence) ==
    /\ result.outcome \in {"PASS", "FAIL"} => result.missing = {} /\ evidence > 0
    /\ result.outcome \in {"INCOMPLETE", "UNSUPPORTED"} => result.missing # {}

\* b asks no more than a
Looser(b, a) ==
    /\ b.minimum <= a.minimum
    /\ DOMAIN b.limits = DOMAIN a.limits
    /\ \A name \in DOMAIN a.limits :
          /\ \A low \in b.limits[name].lower :
                \E other \in a.limits[name].lower : low <= other
          /\ \A high \in b.limits[name].upper :
                \E other \in a.limits[name].upper : other <= high

================================================================================
