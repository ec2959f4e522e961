----------------------------- MODULE DocumentClaims -----------------------------
(***************************************************************************)
(* What the documents of the platform promise: result exports, over the    *)
(* evaluations of short runs with records of every quality, and the files  *)
(* of projects, over runs of two presets.                                  *)
(* MC_CreateNewOutput assumes the claims.                                  *)
(***************************************************************************)
EXTENDS ResultExports, ProjectFiles

--------------------------------------------------------------------------------
(* Short runs *)

\* qualities that differ in what becomes of a record
Good == [value |-> "finite", status |-> "VALID", flags |-> {}]
Doubtful == [value |-> "finite", status |-> "SUSPECT", flags |-> {"TIME_ANOMALY"}]
Lost == [value |-> "missing", status |-> "INVALID", flags |-> {"MISSING"}]

Policy == [allowed |-> {}, unit |-> "V", low |-> 0, high |-> 9000, minimum |-> 2]

Unit(role) == CASE role = "state" -> "bool" [] role = "frequency" -> "Hz" [] OTHER -> "V"

\* the record of a role in point k; a state is 0, another number grows with k
Measurement(q, k, role) ==
    [channel |-> role, unit |-> Unit(role), number |-> IF role = "state" THEN 0 ELSE k,
     value |-> q.value, status |-> q.status, flags |-> q.flags]

AnalysedPoint(kind, qs, k) ==
    LET m == [s \in DOMAIN Roles[kind] |-> Measurement(qs[s], k, Roles[kind][s])]
    IN  CASE kind = "dc" -> ClassifyPoint([input |-> m[1], output |-> m[2]], Policy)
          [] kind = "calibration" -> CalibrationPoint([raw |-> 0] @@ m[1], [raw |-> 0] @@ m[2], Policy)
          [] kind = "frequency" -> ResponsePoint(m[1], m[2], m[3], Policy)
          [] OTHER -> LegPoints(m, Policy)[1]

\* the records of a point are of one raw record, or each of its own
References(kind, k, shared) ==
    [s \in DOMAIN Roles[kind] |->
        [record |-> <<k, s>>, raw |-> IF shared THEN <<k, 0>> ELSE <<k, s>>,
         source |-> "SYNTHETIC"]]

\* what is missing for a fit, a response or a summary
MissingFor(kind, points) ==
    CASE kind \in {"dc", "calibration"} -> MissingForFit(points, Policy)
      [] kind = "frequency" -> MissingForResponse(points, Policy.minimum)
      [] OTHER -> {"usable-points" : k \in {i \in DOMAIN points : ~points[i].included}}

Size(kind, points) ==
    IF kind = "hysteresis" THEN 1 ELSE Count(points, "INCLUDED")

\* no criteria, or some that a run may pass, fail or be too short for
SomeCriteria ==
    {{}} \cup {{[unit |-> "V", minimum |-> n, limits |-> [A |-> AtMost(0), B |-> AtLeast(1)]]} :
                  n \in {1, 3}}

EvaluationOf(kind, qs, shared, actual, criteria) ==
    LET points == [k \in DOMAIN qs |-> AnalysedPoint(kind, qs[k], k)]
    IN  [kind |-> kind, source |-> "SYNTHETIC",
         points |-> [k \in DOMAIN qs |->
                        Analysed(kind, points[k], References(kind, k, shared))],
         missing |-> MissingFor(kind, points), size |-> Size(kind, points),
         actual |-> actual, criteria |-> criteria]

\* one point with records of any quality, alone or before a good one
Evaluations(kind) ==
    LET records == [DOMAIN Roles[kind] -> {Good, Doubtful, Lost}]
        allGood == [s \in DOMAIN Roles[kind] |-> Good]
    IN  {EvaluationOf(kind, qs, shared, [A |-> 0, B |-> b], criteria) :
            qs \in {<<r>> : r \in records} \cup {<<r, allGood>> : r \in records},
            shared \in BOOLEAN, b \in {0, 1}, criteria \in SomeCriteria}

\* complete runs of every kind and verdict, with two limitations
CompleteBundles ==
    {Build(EvaluationOf(kind, [k \in 1..2 |-> [s \in DOMAIN Roles[kind] |-> Good]],
                        TRUE, [A |-> a, B |-> b], criteria), <<"one", "two">>) :
        kind \in Kind, a \in {0, 1}, b \in {0, 1}, criteria \in SomeCriteria}

--------------------------------------------------------------------------------
(* Building and reading *)

(* Every evaluation of a run, complete or not, can be exported: its bundle *)
(* is accepted, its dispositions are counted in full, and PASS stays PASS. *)
EvaluationsCanBeExported ==
    \A kind \in Kind : \A e \in Evaluations(kind) :
        LET b == Build(e, <<"software only">>)
        IN  /\ BundleAccepted(b)
            /\ b.metrics[1].value[1] + b.metrics[2].value[1] + b.metrics[3].value[1]
                  = Len(b.points)
            /\ b.outcome = "PASS" => \E k \in DOMAIN b.points :
                                        b.points[k].disposition = "INCLUDED"

(* What was written is read back as it was, from both formats; JSON in any *)
(* order of its fields.                                                    *)
WrittenDocumentsAreRead ==
    /\ \A kind \in Kind : \A e \in Evaluations(kind) :
          LET b == Build(e, <<"software only">>)
          IN  ParseCsv(CsvRows(b)) = <<b>> /\ ParseJson(JsonFields(b)) = <<b>>
    /\ \A b \in CompleteBundles :
          LET f == JsonFields(b)
          IN  \A i, j \in DOMAIN f :
                 ParseJson([f EXCEPT ![i] = f[j], ![j] = f[i]]) = <<b>>

(* A row lost, doubled or moved is noticed, and one moved to another       *)
(* section even if the rows are numbered anew; but a CSV document that is  *)
(* cut off after its first limitation is read without the others.          *)
DamagedRowsAreRefused ==
    \A b \in CompleteBundles :
        LET rows == CsvRows(b)
            n == Len(rows)
        IN  /\ \A k \in 1..(n - 1) : ParseCsv(RemoveAt(rows, k)) = <<>>
            /\ \A k \in 1..n : ParseCsv(InsertAt(rows, k, rows[k])) = <<>>
            /\ \A i, j \in 1..n :
                  i # j => ParseCsv([rows EXCEPT ![i] = rows[j], ![j] = rows[i]]) = <<>>
            /\ \A i, j \in 1..n :
                  rows[i].type # rows[j].type =>
                      LET moved == [rows EXCEPT ![i] = rows[j], ![j] = rows[i]]
                      IN  ParseCsv(Numbered([k \in 1..n |->
                                      <<moved[k].type, moved[k].payload>>])) = <<>>
            /\ {k \in 0..n : ParseCsv(SubSeq(rows, 1, k)) # <<>>} = {n - 1, n}

(* Of a document whose rows are numbered anew no evidence can be missing:  *)
(* neither the run, a point, nor the criterion a FAIL rests on.  A schema, *)
(* a metric, a spare limitation or another criterion can.                  *)
EvidenceCannotBeRemoved ==
    \A b \in CompleteBundles :
        LET rows == CsvRows(b)
            anew(k) == LET s == RemoveAt(rows, k)
                       IN  Numbered([i \in DOMAIN s |-> <<s[i].type, s[i].payload>>])
            only(c) == b.outcome = "FAIL" /\ ~c.passed
                       /\ Cardinality({i \in DOMAIN b.criteria : ~b.criteria[i].passed}) = 1
        IN  \A k \in DOMAIN rows :
                ParseCsv(anew(k)) = <<>>
                    <=> \/ rows[k].type \in {"RUN", "POINT"}
                        \/ rows[k].type = "CRITERION" /\ only(rows[k].payload)

(* A JSON document with a field lost, doubled or of another version is     *)
(* refused.                                                                *)
DamagedFieldsAreRefused ==
    \A b \in CompleteBundles :
        LET f == JsonFields(b)
        IN  /\ \A k \in DOMAIN f : ParseJson(RemoveAt(f, k)) = <<>>
            /\ \A k \in DOMAIN f : ParseJson(Append(f, f[k])) = <<>>
            /\ ParseJson([f EXCEPT ![1].value = "result-export.v2"]) = <<>>

(* The longest run of each kind is written without complaint, as JSON and  *)
(* as CSV, to a file that cannot be read again; so are its coefficients.   *)
(* The limit of rows is never the one that is met.                         *)
LongRunsCannotBeReadBack ==
    LET samples == 10000
        smallestRow == 26
    IN  /\ \A format \in {"json", "csv"} : \A kind \in Kind :
              ~ReadableAtMost(samples * SmallestPoint[format][kind], MAX_RESULT_EXPORT_BYTES)
        /\ ~ReadableAtMost(samples * 4 * SmallestRecordId, MAX_CALIBRATION_COEFFICIENT_BYTES)
        /\ ~ReadableAtMost(MAX_RESULT_EXPORT_ROWS * smallestRow, MAX_RESULT_EXPORT_BYTES)

(* The coefficients of a calibration that was fitted are those of its      *)
(* included points, each record once: a point that was left out leaves no  *)
(* trace in the lineage, and only lineages that repeat a raw record fail.  *)
CoefficientsHaveOneLineage ==
    \A qs \in [1..3 -> [1..2 -> {Good, Lost}]], raws \in [1..3 -> 1..3] :
        LET analysed == [k \in 1..3 |-> [AnalysedPoint("calibration", qs[k], k)
                                            EXCEPT !.raw = <<<<raws[k], 1>>, <<raws[k], 2>>>>]]
            references(k) == <<[record |-> <<k, 1>>, raw |-> <<raws[k], 1>>],
                               [record |-> <<k, 2>>, raw |-> <<raws[k], 2>>]>>
            points == [k \in 1..3 |-> Analysed("calibration", analysed[k], references(k))]
            document == CoefficientDocument(points)
        IN  MissingForCalibration(analysed, Policy) = {} =>
                /\ CoefficientsAccepted(document) = ~LineageRefused(analysed)
                /\ ToSet(document.observed)
                      = {<<k, 1>> : k \in {i \in 1..3 : analysed[i].disposition = "INCLUDED"}}

--------------------------------------------------------------------------------
(* Projects *)

Directories == {<<"p">>, <<"p", "q">>, <<"r">>}

Paths == {[absolute |-> a, names |-> n] :
             a \in BOOLEAN, n \in UNION {[1..k -> {"p", "q", ".."}] : k \in 1..3}}

Preset(id, replay) ==
    [id |-> id, settings |-> id, replay |-> replay,
     source |-> IF replay = <<>> THEN "SIMULATOR" ELSE "CSV_REPLAY"]

Project(path) == [id |-> "project", presets |-> <<Preset("a", <<>>), Preset("b", <<path>>)>>]

(* A project that can be written is read with the same replay file; read   *)
(* from another directory, as the snapshot of a run is, it still has the   *)
(* configurations that the digests of the run are of.  No document names a *)
(* file outside the directory.                                             *)
ProjectsKeepTheirConfigurations ==
    \A d, other \in Directories, path \in Paths :
        LET p == Project(path)
            document == ProjectDocument(p, d)
            moved == ReadProject(document, other)
            named == ReadProject([document EXCEPT !.presets[2].configuration.replay_path
                                      = <<path>>], d)
        IN  /\ Writable(p, d) =>
                  /\ ReadProject(document, d)[1].presets[2].replay
                        = <<Absolute(Resolve(d, path))>>
                  /\ moved # <<>> /\ Writable(moved[1], other)
                  /\ ProjectDocument(moved[1], other) = document
            /\ named # <<>> <=> Writable(p, d) /\ ~path.absolute
            /\ named # <<>> => ProjectDocument(named[1], d) = document

--------------------------------------------------------------------------------
(* Runs of a project *)

\* how a preset ends
Verdicts ==
    {[worker |-> "SUCCEEDED", product |-> "COMPLETED", outcome |-> "PASS"],
     [worker |-> "SUCCEEDED", product |-> "COMPLETED", outcome |-> "FAIL"],
     [worker |-> "SUCCEEDED", product |-> "INCOMPLETE", outcome |-> "INCOMPLETE"],
     [worker |-> "CANCELLED", product |-> "none", outcome |-> "none"],
     [worker |-> "FAILED", product |-> "none", outcome |-> "none"]}

Snapshot == ProjectDocument(Project(Relative(<<"b">>)), <<"p">>)

RunRecord(id, verdict) ==
    [preset |-> id, job |-> id, source |-> IF id = "a" THEN "SIMULATOR" ELSE "CSV_REPLAY",
     configuration |-> Snapshot.presets[IF id = "a" THEN 1 ELSE 2].configuration,
     artifacts |-> IF verdict.product # "COMPLETED" THEN {}
                   ELSE {[label |-> "result", name |-> id, digest |-> [result |-> id]]},
     count |-> 1, metrics |-> <<[name |-> "gain", unit |-> "ratio", value |-> 1]>>]
    @@ verdict

\* some of the presets in any order
Orders == {s \in UNION {[1..k -> {"a", "b"}] : k \in 0..2} : IsInjective(s)}

RunRecords ==
    UNION {{[i \in DOMAIN s |-> RunRecord(s[i], v[i])] : v \in [DOMAIN s -> Verdicts]} :
              s \in Orders}

Input(id) == [preset |-> id, source |-> "CSV_REPLAY", name |-> id, size |-> 10485760,
              digest |-> [replay |-> id]]

\* manifests that their class accepts
Manifests(version) ==
    {Completed(m) : m \in {n \in
        {[version |-> version, project |-> "project", snapshot |-> Snapshot, started |-> 0,
          completed |-> 1, records |-> r, planned |-> <<>>, notStarted |-> s, inputs |-> a,
          failure |-> f, status |-> status] :
            r \in RunRecords, s \in Orders \cup {<<"c">>}, a \in {<<>>, <<Input("b")>>},
            f \in {<<>>} \cup {<<[preset |-> id]>> : id \in {"a", "b"}},
            status \in {"none", "COMPLETE", "PARTIAL", "CANCELLED", "ERROR"}} :
        ManifestAccepted(n)}}

(* Every manifest of every version is read as it was written, and only as  *)
(* a manifest of its version; with a field lost it is refused.             *)
ManifestsAreReadAsWritten ==
    \A version \in 1..4 : \A m \in Manifests(version) :
        LET d == ManifestDocument(m)
        IN  /\ ReadManifest(d) = <<m>>
            /\ \A v \in 1..5 \ {version} : ReadManifest([d EXCEPT !.schema_version = v]) = <<>>
            /\ \A field \in DOMAIN d :
                  ReadManifest([f \in DOMAIN d \ {field} |-> d[f]]) = <<>>

(* A manifest whose records were edited and not its summary is refused     *)
(* when a record is lost or doubled, and shows no fewer and no more        *)
(* failures when it is not.  Two records that changed places are noticed   *)
(* in every version but the first.                                         *)
EditedManifestsShowTheFailures ==
    \A version \in 1..4 : \A m \in Manifests(version) :
        LET d == ManifestDocument(m)
            with(records) == ReadManifest([d EXCEPT !.records = records])
            n == Len(m.records)
        IN  /\ \A i \in 1..n : with(RemoveAt(m.records, i)) = <<>>
            /\ \A i \in 1..n : with(Append(m.records, m.records[i])) = <<>>
            /\ n = 2 => (with(Reverse(m.records)) # <<>> <=> version = 1)
            /\ \A i \in 1..n, v \in Verdicts :
                  LET read == with([m.records EXCEPT ![i] = v @@ @])
                  IN  read # <<>> => /\ Refuted(v) = Refuted(m.records[i])
                                     /\ Unfinished(v) = Unfinished(m.records[i])

(* The status of a run follows from what ran: no two manifests that differ *)
(* in it alone belong to one snapshot, and COMPLETE means that every       *)
(* preset of the project ended and none failed or was cancelled.  A plan   *)
(* has no preset that the project had not.                                 *)
StatusIsDetermined ==
    \A version \in 2..4 : \A m \in Manifests(version) :
        LineageAccepted(m, <<"run">>) =>
            /\ \A s \in {"COMPLETE", "PARTIAL", "CANCELLED", "ERROR"} \ {m.status} :
                  LET other == [m EXCEPT !.status = s]
                  IN  ~(ManifestAccepted(other) /\ LineageAccepted(other, <<"run">>))
            /\ ToSet(m.planned) \subseteq {"a", "b"}
            /\ m.status = "COMPLETE"
                  <=> /\ ToSet(Ids(m.records)) = {"a", "b"}
                      /\ \A i \in DOMAIN m.records : m.records[i].worker = "SUCCEEDED"

\* the files as they were archived, each as large as it may be
Archived(m) ==
    [names \in {a.names : a \in Artifacts(m)} |->
        LET a == CHOOSE x \in Artifacts(m) : x.names = names
        IN  [path |-> <<"run">> \o names, bytes |-> ArtifactLimit[a.label],
             content |-> a.digest]]

(* A run is opened while every file that its manifest names is there, as   *)
(* it was and within its limit, whatever else is in the directory; not     *)
(* once one is lost, exchanged for another, too large or elsewhere.        *)
OpenedRunsAreWhole ==
    \A version \in 2..4 : \A m \in Manifests(version) :
        LineageAccepted(m, <<"run">>) =>
            LET files == Archived(m)
                opened(changed) == RunVerified(m, <<"run">>, changed)
                spare == [path |-> <<"run", "spare">>, bytes |-> 1, content |-> [spare |-> 1]]
            IN  /\ opened(files)
                /\ opened((<<"spare">> :> spare) @@ files)
                /\ \A n \in DOMAIN files :
                      /\ ~opened([k \in DOMAIN files \ {n} |-> files[k]])
                      /\ ~opened([files EXCEPT ![n].content = [spare |-> 1]])
                      /\ ~opened([files EXCEPT ![n].bytes = @ + 1])
                      /\ ~opened([files EXCEPT ![n].path = <<"p">> \o n])
                      /\ opened([files EXCEPT ![n].bytes = 1]) <=> Len(n) = 1

(* A selection runs each of its presets once and in its order, and a run   *)
(* in which all succeed is COMPLETE or PARTIAL by what was selected; its   *)
(* manifest is not that of another project.                                *)
SelectionsArePlans ==
    \A requested \in UNION {[1..k -> {"a", "b", "c"}] : k \in 0..2} :
        LET p == Project(Relative(<<"b">>))
            selected == Selected(p, requested)
            ids == [i \in DOMAIN selected |-> selected[i].id]
            good == CHOOSE v \in Verdicts : v.outcome = "PASS"
            m == [version |-> 4, project |-> "project", snapshot |-> Snapshot, started |-> 0,
                  completed |-> 1, records |-> [i \in DOMAIN ids |-> RunRecord(ids[i], good)],
                  planned |-> ids, notStarted |-> <<>>, failure |-> <<>>,
                  inputs |-> IF "b" \in ToSet(ids) THEN <<Input("b")>> ELSE <<>>,
                  status |-> IF ToSet(ids) = {"a", "b"} THEN "COMPLETE" ELSE "PARTIAL"]
        IN  SelectionAccepted(p, requested) =>
                /\ IsInjective(ids)
                /\ requested # <<>> => ids = requested
                /\ ManifestAccepted(m) /\ LineageAccepted(m, <<"run">>)
                /\ ~LineageAccepted([m EXCEPT !.snapshot.project_id = "other"], <<"run">>)
                /\ ~LineageAccepted([m EXCEPT !.snapshot.presets[1].preset_id = "c",
                                              !.snapshot.presets[2].preset_id = "d"], <<"run">>)

--------------------------------------------------------------------------------
(* Comparison and progress *)

\* records of one preset or two, with a metric, another or none
ComparedRuns ==
    LET metric(name, value) == [name |-> name, unit |-> "V", value |-> value]
        metrics == {<<>>, <<metric("x", 1)>>, <<metric("x", 3), metric("y", 1)>>,
                    <<metric("y", 1), metric("x", 3)>>}
        record(id, v, ms) == [RunRecord(id, v) EXCEPT !.metrics = ms]
        some == {v \in Verdicts : v.outcome \in {"PASS", "FAIL"}}
    IN  {[project |-> "project", records |-> r] : r \in
            {<<>>} \cup {<<record(id, v, ms)>> : id \in {"a", "b"}, v \in some, ms \in metrics}
            \cup {<<record("a", v, ms), record("b", v, ms)>> : v \in some, ms \in metrics}}

(* Comparing a run with itself finds no change; in the other direction     *)
(* comparison finds the same changes and the opposite differences.  What   *)
(* did not change had the same verdict and the same metrics in any order.  *)
(* Two runs without a record cannot be compared at all.                    *)
ComparisonsAreFair ==
    \A l, r \in ComparedRuns :
        LET there == Compare(l, r)
            back == Compare(r, l)
            same(records, others) ==
                /\ [i \in DOMAIN records |-> records[i].outcome]
                      = [i \in DOMAIN others |-> others[i].outcome]
                /\ [i \in DOMAIN records |-> ToSet(records[i].metrics)]
                      = [i \in DOMAIN others |-> ToSet(others[i].metrics)]
        IN  /\ there = <<>> <=> l.records = <<>> /\ r.records = <<>>
            /\ l = r => \A i \in DOMAIN there : ~Changed(there[i])
            /\ Len(there) = Len(back)
            /\ \A i \in DOMAIN there :
                  /\ Changed(there[i]) <=> ~same(there[i].left, there[i].right)
                  /\ \E j \in DOMAIN back :
                        /\ back[j].preset = there[i].preset
                        /\ Changed(back[j]) = Changed(there[i])
                        /\ {<<x.key, Difference(x)>> : x \in ToSet(back[j].deltas)}
                              = {<<x.key, {-y : y \in Difference(x)}>> :
                                    x \in ToSet(there[i].deltas)}

\* the states that a worker reports of a job that is cancelled or fails
WorkerStates ==
    {<<"STARTING", "RUNNING", "SUCCEEDED">>, <<"STARTING", "FAILED">>,
     <<"STARTING", "RUNNING", "CANCELLING", "CANCELLED">>,
     <<"STARTING", "RUNNING", "CANCELLING", "FAILED">>}

(* Everything a batch reports is accepted; the count of completed presets  *)
(* never goes back, and FINISHED is the last word and the only one that    *)
(* has a status.  A preset that was being cancelled is reported as running *)
(* again if its worker fails, and only then.                               *)
ProgressIsAccepted ==
    \A total \in 1..3 : \A k \in 1..total :
        \A ending \in {"ran", "cancelled", "cancelled before", "unprepared"},
           last \in WorkerStates :
            LET e == Events(total, k, ending, last, "ERROR")
                again == \E n \in 1..(Len(e) - 1) :
                            e[n].phase = "CANCELLING" /\ e[n + 1].phase = "RUNNING"
            IN  /\ \A n \in DOMAIN e : ProgressAccepted(e[n])
                /\ \A n \in 1..(Len(e) - 1) : e[n].completed <= e[n + 1].completed
                /\ \A n \in DOMAIN e : e[n].phase = "FINISHED" <=> n = Len(e)
                /\ again => Last(last) = "FAILED"
                /\ k = total /\ ending = "ran" /\ Len(last) = 4 =>
                      (again <=> Last(last) = "FAILED")

================================================================================
