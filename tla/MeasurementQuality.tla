-------------------------- MODULE MeasurementQuality --------------------------
(***************************************************************************)
(* When a measurement may be used (domain/measurements.py and              *)
(* analysis/common.py): what quality a measurement may carry, what an      *)
(* analysis decides about it under a quality policy, and what a decision   *)
(* object accepts.                                                         *)
(*                                                                         *)
(* A number is an integer in its unit; a normalised one counts thousandths *)
(* of the target unit, so that both conversions are exact.  A None is the  *)
(* empty sequence.                                                         *)
(***************************************************************************)
EXTENDS Integers, Sequences, FiniteSets

\* in the order of the enumeration, in which reasons are listed
FlagOrder == <<"MISSING", "NON_FINITE", "SATURATED", "OUT_OF_RANGE",
               "TIME_ANOMALY", "COMMUNICATION_ERROR", "DEVICE_FAULT">>

QualityFlag == {FlagOrder[i] : i \in DOMAIN FlagOrder}

Unavailable == {"MISSING", "NON_FINITE"}

Status == {"VALID", "SUSPECT", "INVALID"}

\* the validation of a Measurement: its value, status and flags agree
Consistent(m) ==
    /\ (m.value = "missing") <=> ("MISSING" \in m.flags)
    /\ (m.value = "nonfinite") <=> ("NON_FINITE" \in m.flags)
    /\ m.value \in {"missing", "nonfinite"} => m.status = "INVALID"
    /\ (m.status = "VALID") <=> (m.flags = {})

\* the suspect flags that a policy may allow
AllowedFlags == SUBSET (QualityFlag \ Unavailable)

\* a batch is not empty, its record IDs are unique, its source is one
BatchAccepted(ms) ==
    /\ Len(ms) > 0
    /\ \A i, j \in DOMAIN ms : ms[i].id = ms[j].id => i = j
    /\ \A i, j \in DOMAIN ms : ms[i].source = ms[j].source

\* from one voltage unit to another, in thousandths of the second
NormalizeVoltage(v, unit, target) ==
    IF unit = target THEN 1000 * v
    ELSE IF unit = "V" THEN 1000000 * v
    ELSE v

\* assess_voltage_measurement raises
UnitRefused(m) == m.unit \notin {"V", "mV"}

\* a reason is named as its flag
QualityReasons(flags) == SelectSeq(FlagOrder, LAMBDA f : f \in flags)

\* what status and flags decide, for a voltage and for a frequency
QualityOutcome(status, flags, allowed) ==
    LET disallowed == flags \ allowed
    IN  IF status = "INVALID"
        THEN [disposition |-> "INVALID",
              reasons |-> <<"INVALID_STATUS">> \o QualityReasons(flags)]
        ELSE IF status = "SUSPECT" /\ disallowed # {}
        THEN [disposition |-> "EXCLUDED",
              reasons |-> <<"SUSPECT_STATUS">> \o QualityReasons(disallowed)]
        ELSE [disposition |-> "INCLUDED", reasons |-> <<>>]

\* assess_voltage_measurement, up to the construction of the decision
Assess(m, allowed, target) ==
    LET decided == QualityOutcome(m.status, m.flags, allowed)
    IN  [value |-> IF m.value \in {"missing", "nonfinite"} THEN <<>>
                   ELSE <<NormalizeVoltage(m.number, m.unit, target)>>,
         status |-> m.status,
         flags |-> m.flags,
         disposition |-> decided.disposition,
         reasons |-> decided.reasons]

\* The validation of a MeasurementDecision, which does not trust its maker.
DecisionAccepted(d, allowed) ==
    LET has(r) == \E i \in DOMAIN d.reasons : d.reasons[i] = r
        disallowed == QualityReasons(d.flags \ allowed)
    IN  /\ (d.status = "VALID") <=> (d.flags = {})
        /\ (d.disposition = "INVALID") <=> (d.status = "INVALID")
        /\ d.disposition = "INVALID" =>
              d.reasons = <<"INVALID_STATUS">> \o QualityReasons(d.flags)
        /\ d.disposition = "EXCLUDED" =>
              /\ d.status = "SUSPECT"
              /\ disallowed # <<>>
              /\ d.reasons = <<"SUSPECT_STATUS">> \o disallowed
        /\ d.disposition = "INCLUDED" =>
              /\ d.reasons = <<>>
              /\ d.value # <<>>
              /\ d.status = "SUSPECT" => d.flags \subseteq allowed
        /\ (d.value = <<>>) <=> \E r \in Unavailable : has(r)

\* any decision of several: what becomes of the point they make up
Combined(decisions, reasons) ==
    IF \E d \in decisions : d.disposition = "INVALID" THEN "INVALID"
    ELSE IF reasons # {} THEN "EXCLUDED"
    ELSE "INCLUDED"

================================================================================
