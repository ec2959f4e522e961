-------------------------- MODULE CalibrationAnalysis --------------------------
(***************************************************************************)
(* fit_linear_calibration and apply_linear_calibration                     *)
(* (analysis/calibration.py): observed and reference records in pairs, the *)
(* line from observed to reference with the lineage of its coefficients,   *)
(* and the records derived by applying it.                                 *)
(***************************************************************************)
EXTENDS DCSweepAnalysis

\* _paired_points raises
BatchesRefused(observed, reference) ==
    \/ Len(observed) # Len(reference)
    \/ {observed[i].id : i \in DOMAIN observed}
          \cap {reference[i].id : i \in DOMAIN reference} # {}
    \/ \E i \in DOMAIN observed :
          observed[i].channel # "observed" \/ UnitRefused(observed[i])
    \/ \E i \in DOMAIN reference :
          reference[i].channel # "reference" \/ UnitRefused(reference[i])

CalibrationPoint(observed, reference, config) ==
    LET o == Assess(observed, config.allowed, config.unit)
        r == Assess(reference, config.allowed, config.unit)
        reasons ==
            {x \in {"OBSERVED_NOT_INCLUDED"} : o.disposition # "INCLUDED"}
            \cup {x \in {"REFERENCE_NOT_INCLUDED"} : r.disposition # "INCLUDED"}
    IN  [input |-> o, output |-> r, reasons |-> reasons,
         raw |-> <<observed.raw, reference.raw>>,
         disposition |-> Combined({o, r}, reasons)]

CalibrationPoints(observed, reference, config) ==
    [i \in DOMAIN observed |->
        CalibrationPoint(observed[i], reference[i], config)]

\* fit_linear_calibration: "included-points", "distinct-observed-values"
MissingForCalibration(points, config) == MissingForFit(points, config)

\* the scale is zero, which raises instead of giving a gap
ScaleRefused(xs, ys) == Deviations(xs, ys) = 0

\* LinearCalibrationCoefficients refuses raw records that occur twice
LineageRefused(points) ==
    LET included == Included(points)
    IN  \E i, j \in DOMAIN included : \E side \in {1, 2} :
            i # j /\ included[i].raw[side] = included[j].raw[side]

\* _errors before and after, as sums of squares over the same denominator
SquaresBefore(xs, ys) ==
    LET e == [i \in DOMAIN xs |-> xs[i] - ys[i]]
    IN  Len(xs) * Len(xs) * Deviations(xs, xs) * Total(Products(e, e))

SquaresAfter(xs, ys) == ResidualSquares(xs, ys)

\* apply_linear_calibration on one record, with the calibrated number given
Applied(m, config, number) ==
    LET decision == Assess(m, config.allowed, config.unit)
    IN  [decision |-> decision,
         derived |->
            IF decision.disposition = "INCLUDED"
            THEN <<[m EXCEPT !.channel = "calibrated", !.number = number,
                             !.unit = config.unit, !.id = <<"derived", m.id>>]>>
            ELSE <<>>]

\* The validation of a CalibrationAppliedPoint.
AppliedAccepted(m, p) ==
    /\ p.decision.disposition = "INCLUDED" <=> p.derived # <<>>
    /\ \A k \in DOMAIN p.derived :
          /\ Consistent(p.derived[k])
          /\ p.derived[k].raw = m.raw
          /\ p.derived[k].source = m.source

================================================================================
