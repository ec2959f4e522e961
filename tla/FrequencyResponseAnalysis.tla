------------------------ MODULE FrequencyResponseAnalysis ------------------------
(***************************************************************************)
(* analyze_frequency_response (analysis/frequency_response.py): triples of *)
(* frequency, input and output amplitude, and the one cutoff crossing.     *)
(*                                                                         *)
(* A gain is an integer number of decibels; a crossing is a doubled index, *)
(* even at a point, odd strictly between two.  The interpolated frequency  *)
(* itself (a logarithm) is left out.                                       *)
(***************************************************************************)
EXTENDS MeasurementQuality

Finite(m) == m.value \notin {"missing", "nonfinite"}

\* assess_frequency_measurement raises: not in hertz, or not positive
FrequencyRefused(m) == m.unit # "Hz" \/ (Finite(m) /\ m.number <= 0)

AssessFrequency(m, allowed) ==
    LET decided == QualityOutcome(m.status, m.flags, allowed)
    IN  [value |-> IF Finite(m) THEN <<m.number>> ELSE <<>>,
         status |-> m.status,
         flags |-> m.flags,
         disposition |-> decided.disposition,
         reasons |-> decided.reasons]

\* The validation of a FrequencyMeasurementDecision.
FrequencyDecisionAccepted(d, allowed) ==
    LET decided == QualityOutcome(d.status, d.flags, allowed)
    IN  /\ d.disposition = decided.disposition /\ d.reasons = decided.reasons
        /\ (d.value = <<>>)
              <=> \E i \in DOMAIN d.reasons : d.reasons[i] \in Unavailable

\* _point_reasons
PointReasons(f, i, o) ==
    {r \in {"FREQUENCY_NOT_INCLUDED"} : f.disposition # "INCLUDED"}
    \cup {r \in {"INPUT_NOT_INCLUDED"} : i.disposition # "INCLUDED"}
    \cup {r \in {"OUTPUT_NOT_INCLUDED"} : o.disposition # "INCLUDED"}

ResponsePoint(f, i, o, config) ==
    LET df == AssessFrequency(f, config.allowed)
        di == Assess(i, config.allowed, config.unit)
        do == Assess(o, config.allowed, config.unit)
        reasons == PointReasons(df, di, do)
    IN  [frequency |-> df, input |-> di, output |-> do, reasons |-> reasons,
         disposition |-> Combined({df, di, do}, reasons)]

\* the ratio of an included point is not positive, which raises
RatioRefused(p) ==
    /\ p.disposition = "INCLUDED"
    /\ p.input.value[1] <= 0 \/ p.output.value[1] <= 0

IncludedResponses(points) ==
    SelectSeq(points, LAMBDA p : p.disposition = "INCLUDED")

\* the frequencies of the included points must increase
OrderRefused(points) ==
    LET included == IncludedResponses(points)
    IN  \E k \in 1..Len(included) - 1 :
            included[k + 1].frequency.value[1] <= included[k].frequency.value[1]

\* every supplied point must be usable, not only enough of them
MissingForResponse(points, minimum) ==
    LET included == IncludedResponses(points)
    IN  {r \in {"included-points"} : Len(included) < minimum}
        \cup {r \in {"usable-points"} : Len(included) # Len(points)}

--------------------------------------------------------------------------------
(* _interpolate_crossings over the gains of points with increasing frequencies *)

\* what the pair of points k and k + 1 contributes
PairCrossing(gains, target, k) ==
    IF gains[k] = target THEN <<2 * k>>
    ELSE IF gains[k + 1] = target THEN <<2 * k + 2>>
    ELSE IF (gains[k] - target) * (gains[k + 1] - target) < 0 THEN <<2 * k + 1>>
    ELSE <<>>

\* a crossing that equals the last one is not repeated
Crossings(gains, target) ==
    LET upTo[k \in 0..Len(gains) - 1] ==
            IF k = 0 THEN <<>>
            ELSE LET found == upTo[k - 1]
                     next == PairCrossing(gains, target, k)
                 IN  IF /\ next # <<>>
                        /\ found # <<>> => found[Len(found)] # next[1]
                     THEN found \o next ELSE found
    IN  upTo[Len(gains) - 1]

CutoffTarget(gains, drop) == gains[1] - drop

================================================================================
