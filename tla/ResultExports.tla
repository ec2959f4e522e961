------------------------------ MODULE ResultExports ------------------------------
(***************************************************************************)
(* The result of an evaluation as a document (exports/): what the builders *)
(* put into a bundle, what a bundle accepts, the CSV rows and the JSON     *)
(* fields it is written as, what the parsers accept, and the coefficients  *)
(* of a calibration.                                                       *)
(*                                                                         *)
(* A point comes with the references [record, raw, source] of its records, *)
(* one per side, and with the decisions about them.  Values are named, not *)
(* counted; an absent document is the empty sequence.                      *)
(***************************************************************************)
EXTENDS CalibrationAnalysis, HysteresisAnalysis, FrequencyResponseAnalysis,
        AcceptanceCriteria

Kind == {"dc", "calibration", "hysteresis", "frequency"}

\* the records of a point, in the order of its references
Roles ==
    [dc |-> <<"input", "output">>,
     calibration |-> <<"observed", "reference">>,
     hysteresis |-> <<"input", "state">>,
     frequency |-> <<"frequency", "input", "output">>]

\* what a point says besides the values of its records
Derivations ==
    [dc |-> <<"predicted_output", "residual">>,
     calibration |-> <<"calibrated", "before_error", "after_error">>,
     hysteresis |-> <<>>,
     frequency |-> <<"amplitude_ratio", "gain">>]

\* the metrics of a complete analysis
Summary ==
    [dc |-> <<"gain", "offset", "r_squared", "rmse", "max_abs_residual", "fit_used_points">>,
     calibration |-> <<"coefficient_id", "coefficient_version", "calibration_method",
                       "scale", "offset", "before_rmse", "after_rmse",
                       "before_mean_absolute_error", "after_mean_absolute_error",
                       "before_max_absolute_error", "after_max_absolute_error">>,
     hysteresis |-> <<"complete_cycles", "mean_high_threshold", "mean_low_threshold",
                      "mean_width", "minimum_width", "maximum_width", "width_span">>,
     frequency |-> <<"reference_gain", "cutoff_target_gain", "cutoff_frequency",
                     "cutoff_interpolation_method">>]

Schemas(kind, criteria) ==
    <<<<"common", "analysis">>, <<"common", "test-run">>, <<kind, "analysis">>,
      <<kind, "evaluation">>>>
        \o IF criteria = {} THEN <<>> ELSE <<<<kind, "criteria">>>>

--------------------------------------------------------------------------------
(* Builders *)

\* _hysteresis_disposition: of a point that is only included or not
HysteresisDisposition(p) ==
    IF p.included THEN "INCLUDED"
    ELSE IF p.input.disposition = "INVALID" \/ p.status = "INVALID" THEN "INVALID"
    ELSE "EXCLUDED"

\* the state record of a hysteresis point is no decision and gives no reasons
StateDecision(p) == [flags |-> p.flags, reasons |-> <<>>]

\* what a builder reads off a point of an analysis
Analysed(kind, p, references) ==
    [references |-> references,
     reasons |-> p.reasons,
     disposition |-> IF kind = "hysteresis" THEN HysteresisDisposition(p)
                     ELSE p.disposition,
     decisions |-> CASE kind = "hysteresis" -> <<p.input, StateDecision(p)>>
                     [] kind = "frequency" -> <<p.frequency, p.input, p.output>>
                     [] OTHER -> <<p.input, p.output>>]

\* a point has derived values if it counts; but for a response, only in a fit
HasDerivations(kind, p, complete) ==
    p.disposition = "INCLUDED" /\ (complete \/ kind = "frequency")

ExportPoint(kind, p, index, complete) ==
    LET sides == DOMAIN p.decisions
        tagged(side, S) == {<<Roles[kind][side], x>> : x \in S}
    IN  [index |-> index,
         disposition |-> p.disposition,
         references |-> p.references,
         values |-> Roles[kind] \o IF HasDerivations(kind, p, complete)
                                   THEN Derivations[kind] ELSE <<>>,
         flags |-> UNION {tagged(s, p.decisions[s].flags) : s \in sides},
         reasons |-> {<<"point", r>> : r \in p.reasons}
                     \cup UNION {tagged(s, ToSet(p.decisions[s].reasons)) : s \in sides}]

Count(points, disposition) ==
    Len(SelectSeq(points, LAMBDA p : p.disposition = disposition))

Metrics(kind, points, complete, criteria) ==
    LET value(name) == [name |-> name, value |-> <<>>]
        count(name, d) == [name |-> name, value |-> <<Count(points, d)>>]
        some(names) == [i \in DOMAIN names |-> value(names[i])]
    IN  <<count("included_points", "INCLUDED"), count("excluded_points", "EXCLUDED"),
          count("invalid_points", "INVALID")>>
        \o (IF kind = "frequency" THEN some(<<"cutoff_drop">>) ELSE <<>>)
        \o (IF complete THEN some(Summary[kind]) ELSE <<>>)
        \o (IF kind = "frequency" /\ complete /\ criteria # {}
            THEN some(<<"target_cutoff_frequency", "cutoff_relative_error">>) ELSE <<>>)

\* the criteria are checked only if nothing is missing for them
Criteria(kind, result, actual, size, criteria) ==
    LET c == CHOOSE x \in criteria : TRUE
        sizeName == IF kind = "hysteresis" THEN "COMPLETE_CYCLES" ELSE "INCLUDED_POINTS"
        criterion(name, value, limit) ==
            [name |-> name, value |-> value, limit |-> limit, passed |-> Passed(value, limit)]
        names == SetToSeq(DOMAIN c.limits)
    IN  IF result.missing # {} THEN <<>>
        ELSE Append([i \in DOMAIN names |->
                        criterion(names[i], actual[names[i]], c.limits[names[i]])],
                    criterion(sizeName, size, AtLeast(c.minimum)))

\* without repetition, in the order of the first occurrences
Once(s) ==
    FoldLeft(LAMBDA before, x : IF Contains(before, x) THEN before ELSE Append(before, x),
             <<>>, s)

RecordIds(points) ==
    FlattenSeq([k \in DOMAIN points |->
        [s \in DOMAIN points[k].references |-> points[k].references[s].record]])

RawIds(points) ==
    Once(FlattenSeq([k \in DOMAIN points |->
        [s \in DOMAIN points[k].references |-> points[k].references[s].raw]]))

(***************************************************************************)
(* The evaluation e = [kind, source, points, missing, size, actual,        *)
(* criteria] of analysed points, with the metadata of its test run, as a   *)
(* bundle.  The metadata names the raw records of the points, or the       *)
(* evaluation would have been refused.                                     *)
(***************************************************************************)
Build(e, limitations) ==
    LET complete == e.missing = {}
        result == Derive([unit |-> "V", missing |-> e.missing, size |-> e.size,
                          actual |-> e.actual], e.criteria)
    IN  [source |-> e.source,
         outcome |-> result.outcome,
         missing |-> result.missing,
         evidence |-> RecordIds(e.points),
         inputs |-> RawIds(e.points),
         identity |-> {e.kind : c \in e.criteria},
         criteria |-> Criteria(e.kind, result, e.actual, e.size, e.criteria),
         schemas |-> Schemas(e.kind, e.criteria),
         metrics |-> Metrics(e.kind, e.points, complete, e.criteria),
         points |-> [k \in DOMAIN e.points |->
                        ExportPoint(e.kind, e.points[k], k - 1, complete)],
         limitations |-> limitations]

--------------------------------------------------------------------------------
(* What a bundle and its parts accept *)

Named(s) == [i \in DOMAIN s |-> s[i].name]

CriterionAccepted(c) ==
    /\ c.limit.lower # {} \/ c.limit.upper # {}
    /\ \A low \in c.limit.lower, high \in c.limit.upper : low <= high
    /\ c.passed = Passed(c.value, c.limit)

ExportPointAccepted(p) ==
    /\ p.references # <<>> /\ p.values # <<>>
    /\ IsInjective([s \in DOMAIN p.references |-> p.references[s].record])
    /\ \A s \in DOMAIN p.references : p.references[s].source = p.references[1].source
    /\ IsInjective(p.values)
    /\ p.disposition = "INCLUDED" <=> p.reasons = {}

(* ResultExportBundle, of a test run that is accepted itself *)
BundleAccepted(b) ==
    /\ b.schemas # <<>> /\ b.limitations # <<>>
    /\ IsInjective(b.schemas) /\ IsInjective(b.limitations)
    /\ IsInjective(Named(b.metrics)) /\ IsInjective(Named(b.criteria))
    /\ \A i \in DOMAIN b.criteria : CriterionAccepted(b.criteria[i])
    /\ \A k \in DOMAIN b.points :
          /\ ExportPointAccepted(b.points[k])
          /\ b.points[k].index = k - 1
          /\ b.points[k].references[1].source = b.source
    /\ b.criteria # <<>> => b.identity # {}
    /\ IsInjective(RecordIds(b.points))
    /\ b.evidence = RecordIds(b.points)
    /\ b.points # <<>> => b.inputs = RawIds(b.points)
    /\ b.outcome \in {"PASS", "FAIL"} =>
          /\ b.identity # {} /\ b.criteria # <<>> /\ b.points # <<>>
          /\ (b.outcome = "PASS") = \A i \in DOMAIN b.criteria : b.criteria[i].passed
    /\ TestRunAccepted([outcome |-> b.outcome, missing |-> b.missing], Len(b.evidence))

--------------------------------------------------------------------------------
(* CSV: typed and numbered rows in sections *)

SectionOrder == <<"RUN", "SCHEMA", "CRITERION", "METRIC", "POINT", "LIMITATION">>

Section(type) == CHOOSE i \in DOMAIN SectionOrder : SectionOrder[i] = type

MAX_RESULT_EXPORT_ROWS == 100000

RunFields(b) ==
    [source |-> b.source, outcome |-> b.outcome, missing |-> b.missing,
     evidence |-> b.evidence, inputs |-> b.inputs, identity |-> b.identity]

Numbered(rows) ==
    [i \in DOMAIN rows |-> [type |-> rows[i][1], index |-> i - 1, payload |-> rows[i][2]]]

\* dump_result_export_csv
CsvRows(b) ==
    LET section(type, payloads) == [i \in DOMAIN payloads |-> <<type, payloads[i]>>]
    IN  Numbered(<<<<"RUN", RunFields(b)>>>>
                 \o section("SCHEMA", b.schemas) \o section("CRITERION", b.criteria)
                 \o section("METRIC", b.metrics) \o section("POINT", b.points)
                 \o section("LIMITATION", b.limitations))

RowsAccepted(rows) ==
    /\ Len(rows) \in 1..MAX_RESULT_EXPORT_ROWS
    /\ \A i \in DOMAIN rows :
          /\ rows[i].type \in ToSet(SectionOrder)
          /\ rows[i].index = i - 1
          /\ rows[i].type = "RUN" <=> i = 1
    /\ \A i \in 1..(Len(rows) - 1) : Section(rows[i].type) <= Section(rows[i + 1].type)
    /\ rows[1].payload.identity = {} => \A i \in DOMAIN rows : rows[i].type # "CRITERION"

FromRows(rows) ==
    LET of(type) == LET chosen == SelectSeq(rows, LAMBDA r : r.type = type)
                    IN  [i \in DOMAIN chosen |-> chosen[i].payload]
        run == rows[1].payload
    IN  [source |-> run.source, outcome |-> run.outcome, missing |-> run.missing,
         evidence |-> run.evidence, inputs |-> run.inputs, identity |-> run.identity,
         schemas |-> of("SCHEMA"), criteria |-> of("CRITERION"), metrics |-> of("METRIC"),
         points |-> of("POINT"), limitations |-> of("LIMITATION")]

\* parse_result_export_csv
ParseCsv(rows) ==
    IF RowsAccepted(rows) /\ BundleAccepted(FromRows(rows)) THEN <<FromRows(rows)>> ELSE <<>>

--------------------------------------------------------------------------------
(* JSON: the named fields of one object, in any order *)

RESULT_EXPORT_SCHEMA_VERSION == "result-export.v1"

\* the criteria travel with their identity
JsonFields(b) ==
    <<[name |-> "schema_version", value |-> RESULT_EXPORT_SCHEMA_VERSION],
      [name |-> "test_run",
       value |-> [source |-> b.source, outcome |-> b.outcome, missing |-> b.missing,
                  evidence |-> b.evidence, inputs |-> b.inputs]],
      [name |-> "criteria", value |-> [identity |-> b.identity, results |-> b.criteria]],
      [name |-> "source_schemas", value |-> b.schemas],
      [name |-> "metrics", value |-> b.metrics],
      [name |-> "points", value |-> b.points],
      [name |-> "limitations", value |-> b.limitations]>>

RootFields ==
    {"schema_version", "test_run", "criteria", "source_schemas", "metrics", "points",
     "limitations"}

\* parse_result_export_json: no field twice, none missing, none unknown
ParseJson(fields) ==
    LET field(name) == fields[CHOOSE i \in DOMAIN fields : fields[i].name = name].value
        run == field("test_run")
        b == [source |-> run.source, outcome |-> run.outcome, missing |-> run.missing,
              evidence |-> run.evidence, inputs |-> run.inputs,
              identity |-> field("criteria").identity,
              criteria |-> field("criteria").results,
              schemas |-> field("source_schemas"), metrics |-> field("metrics"),
              points |-> field("points"), limitations |-> field("limitations")]
    IN  IF /\ IsInjective(Named(fields))
           /\ ToSet(Named(fields)) = RootFields
           /\ field("schema_version") = RESULT_EXPORT_SCHEMA_VERSION
           /\ BundleAccepted(b)
        THEN <<b>> ELSE <<>>

--------------------------------------------------------------------------------
(* Files: the bytes of a document are bounded when it is read *)

MAX_RESULT_EXPORT_BYTES == 2000000
MAX_CALIBRATION_COEFFICIENT_BYTES == 262144

\* a point that counts, with names of one letter, takes this many bytes at least
SmallestPoint ==
    [json |-> [dc |-> 977, calibration |-> 1090, hysteresis |-> 994, frequency |-> 1293],
     csv |-> [dc |-> 524, calibration |-> 583, hysteresis |-> 541, frequency |-> 708]]

\* ... and a record in one of the four lists of a coefficient document
SmallestRecordId == 10

\* read_bounded_utf8; write_utf8_atomic has no limit
ReadableAtMost(bytes, limit) == bytes <= limit

--------------------------------------------------------------------------------
(* The coefficients of a complete calibration, with their lineage *)

CoefficientDocument(points) ==
    LET included == SelectSeq(points, LAMBDA p : p.disposition = "INCLUDED")
        ids(side, field) ==
            [k \in DOMAIN included |-> included[k].references[side][field]]
    IN  [observed |-> ids(1, "record"), reference |-> ids(2, "record"),
         observedRaw |-> ids(1, "raw"), referenceRaw |-> ids(2, "raw")]

\* LinearCalibrationCoefficients
CoefficientsAccepted(d) ==
    LET lists == {d.observed, d.reference, d.observedRaw, d.referenceRaw}
    IN  /\ \A s \in lists : s # <<>> /\ IsInjective(s)
        /\ \A s, t \in lists : Len(s) = Len(t)

================================================================================
