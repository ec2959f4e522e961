------------------------------ MODULE ProjectFiles ------------------------------
(***************************************************************************)
(* The files of validation projects (projects.py): a project and its       *)
(* presets, the manifest of a run in its four versions, the lineage that   *)
(* ties it to the snapshot beside it, the comparison of two runs and the   *)
(* progress of a batch.                                                    *)
(*                                                                         *)
(* A JSON object is a record, so that its fields are its domain.  A digest *)
(* is what it was computed from.  A path is a sequence of names; what is   *)
(* absent is the empty sequence.                                           *)
(***************************************************************************)
EXTENDS Integers, SequencesExt, FiniteSetsExt

--------------------------------------------------------------------------------
(* Paths *)

\* Path.resolve: names in order, ".." takes back one
Resolve(directory, path) ==
    FoldLeft(LAMBDA before, name :
                 IF name # ".." THEN Append(before, name)
                 ELSE IF before = <<>> THEN <<>> ELSE Front(before),
             IF path.absolute THEN <<>> ELSE directory, path.names)

Inside(directory, names) == IsPrefix(directory, names)

Absolute(names) == [absolute |-> TRUE, names |-> names]
Relative(names) == [absolute |-> FALSE, names |-> names]

--------------------------------------------------------------------------------
(* Projects *)

MAX_VALIDATION_PRESETS == 32

\* ValidationProject and its presets
ProjectAccepted(p) ==
    /\ Len(p.presets) \in 1..MAX_VALIDATION_PRESETS
    /\ \A k \in DOMAIN p.presets :
          p.presets[k].source \in {"SIMULATOR", "CSV_REPLAY"}
    /\ IsInjective([k \in DOMAIN p.presets |-> p.presets[k].id])

\* _workflow_to_dict: a replay file is named from the project's directory
Configuration(preset, directory) ==
    [source |-> preset.source, settings |-> preset.settings, serial_config |-> <<>>,
     replay_path |-> IF preset.replay = <<>> THEN <<>>
                     ELSE <<Relative(SubSeq(Resolve(directory, preset.replay[1]),
                                            Len(directory) + 1,
                                            Len(Resolve(directory, preset.replay[1]))))>>]

\* a file outside the directory cannot be named
Writable(p, directory) ==
    \A k \in DOMAIN p.presets : p.presets[k].replay # <<>> =>
        Inside(directory, Resolve(directory, p.presets[k].replay[1]))

ProjectDocument(p, directory) ==
    [schema_version |-> "validation-project.v1", project_id |-> p.id,
     presets |-> [k \in DOMAIN p.presets |->
                     [preset_id |-> p.presets[k].id,
                      configuration |-> Configuration(p.presets[k], directory)]]]

\* validation_project_from_dict; a relative name is looked up in the directory
ReadProject(d, directory) ==
    LET path(c) == c.replay_path
        preset(item) ==
            [id |-> item.preset_id, source |-> item.configuration.source,
             settings |-> item.configuration.settings,
             replay |-> IF path(item.configuration) = <<>> THEN <<>>
                        ELSE <<Absolute(Resolve(directory, path(item.configuration)[1]))>>]
        p == [id |-> d.project_id,
              presets |-> [k \in DOMAIN d.presets |-> preset(d.presets[k])]]
        safe(c) == path(c) # <<>> => /\ ~path(c)[1].absolute
                                     /\ Inside(directory, Resolve(directory, path(c)[1]))
    IN  IF /\ d.schema_version = "validation-project.v1"
           /\ \A k \in DOMAIN d.presets :
                 /\ d.presets[k].configuration.serial_config = <<>>
                 /\ safe(d.presets[k].configuration)
           /\ ProjectAccepted(p)
        THEN <<p>> ELSE <<>>

\* _selected_presets: all of them, or the requested ones in the order requested
SelectionAccepted(p, requested) ==
    /\ Len(requested) <= MAX_VALIDATION_PRESETS
    /\ IsInjective(requested)
    /\ ToSet(requested) \subseteq {p.presets[k].id : k \in DOMAIN p.presets}

Selected(p, requested) ==
    LET of(id) == p.presets[CHOOSE k \in DOMAIN p.presets : p.presets[k].id = id]
    IN  IF requested = <<>> THEN p.presets
        ELSE [i \in DOMAIN requested |-> of(requested[i])]

--------------------------------------------------------------------------------
(* Manifests *)

MAX_VALIDATION_RUN_RECORDS == 32

Ids(s) == [i \in DOMAIN s |-> s[i].preset]

\* ProjectRunRecord
RecordAccepted(r) ==
    /\ r.source # "SERIAL_READ_ONLY"
    /\ r.worker \in {"SUCCEEDED", "CANCELLED", "FAILED"}
    /\ r.count \in 0..100000
    /\ IsInjective([i \in DOMAIN r.metrics |-> <<r.metrics[i].name, r.metrics[i].unit>>])

\* ValidationRunInputArtifact
InputAccepted(a) == a.source = "CSV_REPLAY"

Failed(r) == r.worker = "FAILED" \/ r.product = "ERROR"
Cancelled(r) == r.worker = "CANCELLED" \/ r.product = "CANCELLED"

HasAny(m, Test(_)) == \E i \in DOMAIN m.records : Test(m.records[i])

Planned(m) == IF m.planned = <<>> THEN Ids(m.records) \o m.notStarted ELSE m.planned

\* the status a manifest takes that has none
BatchStatus(m) ==
    IF m.version = 1 \/ m.status # "none" THEN m.status
    ELSE IF HasAny(m, Failed) THEN "ERROR"
    ELSE IF HasAny(m, Cancelled) THEN "CANCELLED"
    ELSE "COMPLETE"

FailureAccepted(m) ==
    m.failure # <<>> =>
        /\ m.version = 4
        /\ m.records # <<>> /\ m.notStarted # <<>>
        /\ m.failure[1].preset = Head(m.notStarted)
        /\ m.status = "ERROR"

\* inputs of the presets that ran, and of the one that could not be prepared
InputsAccepted(m) ==
    LET replays == Ids(SelectSeq(m.records, LAMBDA r : r.source = "CSV_REPLAY"))
    IN  \/ Ids(m.inputs) = replays
        \/ m.failure # <<>> /\ Ids(m.inputs) = Append(replays, m.failure[1].preset)

StatusAccepted(m) ==
    LET status == BatchStatus(m) IN
    /\ HasAny(m, Failed) => status = "ERROR"
    /\ HasAny(m, Cancelled) => status \in {"CANCELLED", "ERROR"}
    /\ status = "ERROR" => HasAny(m, Failed) \/ m.failure # <<>>
    /\ status = "CANCELLED" => HasAny(m, Cancelled) \/ m.notStarted # <<>>
    /\ status \in {"COMPLETE", "PARTIAL"} => m.notStarted = <<>>

\* ValidationRunManifest; the first version knows no plan and no status
ManifestAccepted(m) ==
    /\ m.completed >= m.started
    /\ Len(m.records) <= MAX_VALIDATION_RUN_RECORDS
    /\ IsInjective(Ids(m.records))
    /\ IsInjective([i \in DOMAIN m.records |-> m.records[i].job])
    /\ Len(Planned(m)) \in 1..MAX_VALIDATION_PRESETS
    /\ IsInjective(Planned(m)) /\ IsInjective(m.notStarted)
    /\ IsInjective(Ids(m.inputs))
    /\ FailureAccepted(m)
    /\ m.version = 1 => /\ m.records # <<>>
                        /\ m.status = "none" /\ m.notStarted = <<>> /\ m.inputs = <<>>
    /\ m.version = 2 => m.inputs = <<>>
    /\ m.version \in {3, 4} => InputsAccepted(m)
    /\ m.version # 1 => /\ Ids(m.records) \o m.notStarted = Planned(m)
                        /\ StatusAccepted(m)

\* what is stored
Completed(m) == [m EXCEPT !.planned = Planned(m), !.status = BatchStatus(m)]

CountOf(m, Test(_)) == Cardinality({i \in DOMAIN m.records : Test(m.records[i])})

\* engineering_failures, operational_failures
Refuted(r) == r.outcome = "FAIL"
Unfinished(r) ==
    r.worker # "SUCCEEDED" \/ r.product \in {"ERROR", "CANCELLED", "INCOMPLETE", "UNSUPPORTED"}

RunSummary(m) ==
    [record_count |-> Len(m.records),
     engineering_failures |-> CountOf(m, Refuted),
     operational_failures |-> Len(m.failure) + CountOf(m, Unfinished),
     hardware_validation |-> FALSE]
    @@ (IF m.version = 1 THEN << >>
        ELSE [planned_preset_count |-> Len(Planned(m)),
              completed_preset_count |-> Len(m.records),
              not_started_preset_count |-> Len(m.notStarted)])
    @@ (IF m.version < 3 THEN << >> ELSE [input_artifact_count |-> Len(m.inputs)])

\* validation_run_manifest_to_dict
ManifestDocument(m) ==
    [schema_version |-> m.version, project_id |-> m.project,
     project_sha256 |-> m.snapshot, started_at |-> m.started,
     completed_at |-> m.completed, summary |-> RunSummary(m), records |-> m.records]
    @@ (IF m.version = 1 THEN << >>
        ELSE [batch_status |-> m.status, planned_preset_ids |-> m.planned,
              not_started_preset_ids |-> m.notStarted])
    @@ (IF m.version < 3 THEN << >> ELSE [input_artifacts |-> m.inputs])
    @@ (IF m.version < 4 THEN << >> ELSE [preparation_failure |-> m.failure])

RootKeys(version) ==
    {"schema_version", "project_id", "project_sha256", "started_at", "completed_at",
     "summary", "records"}
    \cup (IF version > 1 THEN {"batch_status", "planned_preset_ids",
                               "not_started_preset_ids"} ELSE {})
    \cup (IF version > 2 THEN {"input_artifacts"} ELSE {})
    \cup (IF version > 3 THEN {"preparation_failure"} ELSE {})

\* validation_run_manifest_from_dict
ReadManifest(d) ==
    LET batch == d.schema_version > 1
        m == [version |-> d.schema_version, project |-> d.project_id,
              snapshot |-> d.project_sha256, started |-> d.started_at,
              completed |-> d.completed_at, records |-> d.records,
              status |-> IF batch THEN d.batch_status ELSE "none",
              planned |-> IF batch THEN d.planned_preset_ids ELSE Ids(d.records),
              notStarted |-> IF batch THEN d.not_started_preset_ids ELSE <<>>,
              inputs |-> IF d.schema_version > 2 THEN d.input_artifacts ELSE <<>>,
              failure |-> IF d.schema_version > 3 THEN d.preparation_failure ELSE <<>>]
    IN  IF /\ "schema_version" \in DOMAIN d /\ d.schema_version \in 1..4
           /\ DOMAIN d = RootKeys(d.schema_version)
           /\ batch => d.batch_status # "none"
           /\ \A i \in DOMAIN m.records : RecordAccepted(m.records[i])
           /\ \A i \in DOMAIN m.inputs : InputAccepted(m.inputs[i])
           /\ ManifestAccepted(m)
           /\ d.summary = RunSummary(m)
        THEN <<Completed(m)>> ELSE <<>>

\* _verify_project_snapshot_lineage, of the snapshot in the directory of the run
LineageAccepted(m, directory) ==
    LET d == m.snapshot
        items == d.presets
        ids == {items[k].preset_id : k \in DOMAIN items}
        configuration(id) ==
            items[CHOOSE k \in DOMAIN items : items[k].preset_id = id].configuration
        planned == ToSet(m.planned)
    IN  /\ ReadProject(d, directory) # <<>>
        /\ d.project_id = m.project
        /\ m.version > 1 => planned \subseteq ids
        /\ m.version = 4 => \A i \in DOMAIN m.inputs :
              /\ m.inputs[i].preset \in ids
              /\ configuration(m.inputs[i].preset).source = "CSV_REPLAY"
        /\ m.status = "COMPLETE" => planned = ids
        /\ m.status = "PARTIAL" => planned # ids
        /\ \A i \in DOMAIN m.records :
              /\ m.records[i].preset \in ids
              /\ m.records[i].configuration = configuration(m.records[i].preset)

\* the bytes that a file of the archive may have
ArtifactLimit == [project |-> 1048576, result |-> 2000000, coefficient |-> 2000000,
                  input |-> 10485760]

\* the files that a manifest names; it gives the size of an input only
Artifacts(m) ==
    {[label |-> "project", names |-> <<"project.snapshot.json">>, digest |-> m.snapshot,
      size |-> {}]}
    \cup UNION {{[label |-> a.label, names |-> <<a.name>>, digest |-> a.digest, size |-> {}] :
                    a \in m.records[i].artifacts} : i \in DOMAIN m.records}
    \cup {[label |-> "input", names |-> <<"inputs", m.inputs[i].name>>,
           digest |-> m.inputs[i].digest, size |-> {m.inputs[i].size}] : i \in DOMAIN m.inputs}

\* _verify_run_artifacts, of the files that the names in the directory lead to
RunVerified(m, directory, files) ==
    /\ \A a \in Artifacts(m) :
          /\ a.names \in DOMAIN files
          /\ LET f == files[a.names]
             IN  /\ Inside(directory, f.path)
                 /\ f.bytes <= ArtifactLimit[a.label]
                 /\ a.size \in {{}, {f.bytes}}
                 /\ f.content = a.digest
    /\ LineageAccepted(m, directory)

--------------------------------------------------------------------------------
(* Comparison of two runs *)

\* dict.fromkeys of both, and get
Keys(left, right) ==
    left \o SelectSeq(right, LAMBDA x : x \notin ToSet(left))

Metric(records, key) ==
    {records[1].metrics[i].value : i \in
        {j \in DOMAIN records[1].metrics :
            <<records[1].metrics[j].name, records[1].metrics[j].unit>> = key}}

MetricKeys(records) ==
    IF records = <<>> THEN <<>>
    ELSE [i \in DOMAIN records[1].metrics |->
             <<records[1].metrics[i].name, records[1].metrics[i].unit>>]

\* a value or none on each side
Delta(left, right, key) ==
    [key |-> key,
     left |-> IF left = <<>> THEN {} ELSE Metric(left, key),
     right |-> IF right = <<>> THEN {} ELSE Metric(right, key)]

\* delta and changed of a metric; no difference if one side has no value
Difference(delta) == {r - l : r \in delta.right, l \in delta.left}
MetricChanged(delta) == delta.left # delta.right

Entry(id, left, right) ==
    LET of(m) == SelectSeq(m.records, LAMBDA r : r.preset = id)
        keys == Keys(MetricKeys(of(left)), MetricKeys(of(right)))
    IN  [preset |-> id, left |-> of(left), right |-> of(right),
         deltas |-> [i \in DOMAIN keys |-> Delta(of(left), of(right), keys[i])]]

\* _record_identity: neither the job nor the artifacts
Identity(records) ==
    [i \in DOMAIN records |->
        LET r == records[i]
        IN  <<r.source, r.configuration, r.worker, r.product, r.outcome, r.count>>]

Changed(entry) ==
    \/ Identity(entry.left) # Identity(entry.right)
    \/ \E i \in DOMAIN entry.deltas : MetricChanged(entry.deltas[i])

\* compare_validation_runs
Compare(left, right) ==
    LET ids == Keys(Ids(left.records), Ids(right.records))
    IN  IF left.project = right.project /\ ids # <<>>
        THEN [i \in DOMAIN ids |-> Entry(ids[i], left, right)]
        ELSE <<>>

ProjectChanged(left, right) == left.snapshot # right.snapshot

--------------------------------------------------------------------------------
(* Progress of a batch *)

\* ValidationBatchProgress
ProgressAccepted(e) ==
    /\ e.index > 0
    /\ e.total \in 1..MAX_VALIDATION_PRESETS
    /\ e.completed \in 0..e.total
    /\ e.current # <<>> => e.current[1] \in 1..e.total
    /\ IF e.phase = "FINISHED" THEN e.current = <<>> /\ e.status # "none"
                               ELSE e.status = "none"

\* report_worker_event: the phase of a state of the worker
WorkerPhase(state) == IF state \in {"CANCELLING", "CANCELLED"} THEN "CANCELLING" ELSE "RUNNING"

(***************************************************************************)
(* What a batch of total presets reports whose last iteration is the k-th: *)
(* it is cancelled before its job, its job cannot be prepared, or the job  *)
(* ends.  last is the sequence of its worker's states, earlier workers     *)
(* just succeed.                                                           *)
(***************************************************************************)
Events(total, k, ending, last, status) ==
    LET event(phase, i, done) == [phase |-> phase, current |-> <<i>>, completed |-> done]
        between(phase, done) == [phase |-> phase, current |-> <<>>, completed |-> done]
        states(i) == IF i < k THEN <<"STARTING", "RUNNING", "SUCCEEDED">> ELSE last
        job(i) == <<event("RUNNING", i, i - 1)>>
                  \o [s \in DOMAIN states(i) |-> event(WorkerPhase(states(i)[s]), i, i - 1)]
        iteration(i) ==
            <<event("PREPARING", i, i - 1)>>
            \o CASE i < k \/ ending = "ran" -> job(i)
                 [] i = k /\ ending = "cancelled before" -> <<event("CANCELLING", i, i - 1)>>
                 [] i = k /\ ending = "cancelled" -> Append(job(i), event("CANCELLING", i, i))
                 [] OTHER -> <<>>
        done == IF ending \in {"ran", "cancelled"} THEN k ELSE k - 1
        all == FlattenSeq([i \in 1..k |-> iteration(i)])
                   \o <<between("FINALIZING", done), between("FINISHED", done)>>
    IN  [n \in DOMAIN all |->
            all[n] @@ [index |-> n, total |-> total,
                       status |-> IF n = Len(all) THEN status ELSE "none"]]

================================================================================
