---------------------------- MODULE DCSweepAnalysis ----------------------------
(***************************************************************************)
(* analyze_dc_sweep (analysis/dc_sweep.py): pairing of the records of two  *)
(* channels, the decision about every pair, and the least-squares line     *)
(* through the pairs that are included.                                    *)
(*                                                                         *)
(* The fit is computed exactly: with n points, every quantity is an        *)
(* integer over a denominator that is named.                               *)
(***************************************************************************)
EXTENDS MeasurementQuality, SequencesExt

OfChannel(ms, c) == SelectSeq(ms, LAMBDA m : m.channel = c)

\* what the analysis refuses with a ValidationError
PairingRefused(ms) ==
    \/ \E i \in DOMAIN ms : ms[i].channel \notin {"input", "output"}
    \/ \E i \in DOMAIN ms : UnitRefused(ms[i])
    \/ OfChannel(ms, "input") = <<>>
    \/ Len(OfChannel(ms, "input")) # Len(OfChannel(ms, "output"))

Pairs(ms) ==
    LET inputs == OfChannel(ms, "input")
        outputs == OfChannel(ms, "output")
    IN  [i \in DOMAIN inputs |-> [input |-> inputs[i], output |-> outputs[i]]]

\* _classify_point under config = [allowed, unit, low, high, minimum]
ClassifyPoint(pair, config) ==
    LET input == Assess(pair.input, config.allowed, config.unit)
        output == Assess(pair.output, config.allowed, config.unit)
        reasons ==
            {r \in {"INPUT_NOT_INCLUDED"} : input.disposition # "INCLUDED"}
            \cup {r \in {"OUTPUT_NOT_INCLUDED"} : output.disposition # "INCLUDED"}
            \cup {r \in {"LOW_SATURATION"} :
                    output.value # <<>> /\ output.value[1] <= config.low}
            \cup {r \in {"HIGH_SATURATION"} :
                    output.value # <<>> /\ output.value[1] > config.low
                                        /\ output.value[1] >= config.high}
    IN  [input |-> input, output |-> output, reasons |-> reasons,
         disposition |-> Combined({input, output}, reasons)]

\* The validation of a DCSweepPointResult.
PointAccepted(p) ==
    LET included(d) == d.disposition = "INCLUDED"
        saturated == {"LOW_SATURATION", "HIGH_SATURATION"}
    IN  /\ included(p.input) <=> "INPUT_NOT_INCLUDED" \notin p.reasons
        /\ included(p.output) <=> "OUTPUT_NOT_INCLUDED" \notin p.reasons
        /\ (p.disposition = "INVALID")
              <=> "INVALID" \in {p.input.disposition, p.output.disposition}
        /\ IF p.disposition = "INCLUDED"
           THEN p.reasons = {} /\ included(p.input) /\ included(p.output)
           ELSE p.reasons # {}
        /\ ~(saturated \subseteq p.reasons)
        /\ saturated \cap p.reasons # {} => p.output.value # <<>>

Included(points) == SelectSeq(points, LAMBDA p : p.disposition = "INCLUDED")

\* analyze_dc_sweep: what is missing for a fit
MissingForFit(points, config) ==
    LET included == Included(points)
        inputs == {included[i].input.value[1] : i \in DOMAIN included}
    IN  {r \in {"included-points"} : Len(included) < config.minimum}
        \cup {r \in {"distinct-input-values"} : Cardinality(inputs) < 2}

--------------------------------------------------------------------------------
(* _fit_included_points over the inputs xs and the outputs ys *)

Total(s) == FoldSeq(LAMBDA x, y : x + y, 0, s)
Products(s, t) == [i \in DOMAIN s |-> s[i] * t[i]]

\* n times a sum of products of deviations from the means
Deviations(s, t) == Len(s) * Total(Products(s, t)) - Total(s) * Total(t)

\* the gain is Deviations(xs, ys) / Deviations(xs, xs), refused when this is zero
NoGain(xs) == Deviations(xs, xs) = 0

\* the residuals, times n * Deviations(xs, xs)
Residuals(xs, ys) ==
    [i \in DOMAIN xs |->
        Deviations(xs, xs) * (Len(xs) * ys[i] - Total(ys))
        - Deviations(xs, ys) * (Len(xs) * xs[i] - Total(xs))]

\* n * n * Deviations(xs, xs) * residual sum of squares, by the residuals
ResidualSquares(xs, ys) ==
    LET e == Residuals(xs, ys) IN Total(Products(e, e)) \div Deviations(xs, xs)

\* n * n * Deviations(xs, xs) * total sum of squares
TotalSquares(xs, ys) == Len(xs) * Deviations(ys, ys) * Deviations(xs, xs)

\* r_squared before it is clamped, times TotalSquares; 1 or 0 without variation
RSquaredTimesTotal(xs, ys) == TotalSquares(xs, ys) - ResidualSquares(xs, ys)

================================================================================
