------------------------------ MODULE ProjectBatch ------------------------------
(***************************************************************************)
(* publish_validation_project_run (projects.py): the presets of a          *)
(* validation project run one after another, each as one job of a worker   *)
(* (execute_product_job, services.py), and the run is published as one     *)
(* directory whose manifest says what became of every planned preset.      *)
(*                                                                         *)
(* A batch is one publisher of CreateNewOutput.  It runs on the main       *)
(* thread of the command line, where Ctrl+C may interrupt it, or on a      *)
(* background thread of the Dashboard, whose GUI holds its cancellation    *)
(* token.  The job runs on a thread of its own, which ProductJobWorker     *)
(* models; here it is the verdict it ends with.                            *)
(***************************************************************************)
EXTENDS CreateNewOutput, Integers, Sequences

CONSTANTS
    Preset,         \* the presets of the project
    Replay,         \* those that read a CSV file
    Plan            \* the selections that are run, in the order they run

ASSUME PresetAssumption == Replay \subseteq Preset /\ Nobody \notin Preset

\* _selected_presets: at least one preset, none of them twice
ASSUME PlanAssumption ==
    \A p \in Plan :
        /\ p \in Seq(Preset)
        /\ p # <<>>
        /\ \A i, j \in DOMAIN p : p[i] = p[j] => i = j

VARIABLES
    batch,          \* the batch that is running, or Nobody
    surface,        \* what started it: "cli" or "dashboard"
    plan,           \* the selected presets in the order they run
    step,           \* where its loop is while stage[batch] = "writing"
    cancel,         \* its token: cancellation requested
    interrupted,    \* the active or last job was told to stop
    job,            \* that job
    records,        \* what the batch noted of each preset that ran
    inputs,         \* the presets whose input is archived
    failure,        \* the preset that could not be prepared, or Nobody
    status,         \* the batch status, or "none"
    posted,         \* the batch whose progress waits in the mailbox, or Nobody
    ended           \* history: each job with the verdict of its worker

loopVars == <<surface, plan, step, cancel, interrupted, job, records, inputs,
              failure, status, ended>>

batchVars == <<batch, posted, loopVars>>

Verdict == {"SUCCEEDED", "CANCELLED", "FAILED"}

Job == {"none", "active"} \cup Verdict

Step == {"checking", "preparing", "starting", "waiting", "finalizing"}

Status == {"none", "COMPLETE", "PARTIAL", "CANCELLED", "ERROR"}

Elements(s) == {s[i] : i \in DOMAIN s}

Rest == SubSeq(plan, Len(records) + 1, Len(plan))

\* the number and the preset of the iteration
Current == Len(records) + 1

CurrentPreset == plan[Current]

\* what the manifest says; written once, in the last file
Manifest == [status |-> status, plan |-> plan, records |-> records,
             notStarted |-> Rest, inputs |-> inputs, failure |-> failure]

ReplaysOf(r) == SelectSeq([i \in DOMAIN r |-> r[i].preset], LAMBDA q : q \in Replay)

Has(r, verdict) == \E i \in DOMAIN r : r[i].worker = verdict

\* ValidationRunManifest.__post_init__, schema v4
Valid(m) ==
    /\ [i \in DOMAIN m.records |-> m.records[i].preset] \o m.notStarted = m.plan
    /\ \/ m.inputs = ReplaysOf(m.records)
       \/ m.failure # Nobody /\ m.inputs = Append(ReplaysOf(m.records), m.failure)
    /\ m.failure # Nobody =>
          /\ m.records # <<>> /\ m.notStarted # <<>>
          /\ m.failure = Head(m.notStarted)
          /\ m.status = "ERROR"
    /\ Has(m.records, "FAILED") => m.status = "ERROR"
    /\ Has(m.records, "CANCELLED") => m.status \in {"CANCELLED", "ERROR"}
    /\ m.status = "ERROR" => Has(m.records, "FAILED") \/ m.failure # Nobody
    /\ m.status = "CANCELLED" => Has(m.records, "CANCELLED") \/ m.notStarted # <<>>
    /\ m.status \in {"COMPLETE", "PARTIAL"} => m.notStarted = <<>>

BatchInit ==
    /\ OutputInit
    /\ kind = [p \in Publisher |-> "run"]
    /\ batch = Nobody /\ posted = Nobody
    /\ surface = "cli" /\ plan = <<>> /\ step = "checking"
    /\ cancel = FALSE /\ interrupted = FALSE /\ job = "none"
    /\ records = <<>> /\ inputs = <<>> /\ failure = Nobody /\ status = "none"
    /\ ended = <<>>

Running == batch # Nobody

\* the loop has work to do at step s
At(s) == Running /\ stage[batch] = "writing" /\ step = s

\* emit_progress: only the Dashboard reads a mailbox; the CLI's stream is text
Post == posted' = IF surface = "dashboard" THEN batch ELSE posted

(***************************************************************************)
(* Mutated forms: plausible bugs in the operators that follow them.        *)
(***************************************************************************)

\* Mutant of MoveIntoPlace: the directory gets its name first and its
\* manifest is written in place.
MoveBeforeManifest ==
    /\ At("finalizing")
    /\ MoveTakes(batch)
    /\ target' = staged[batch] /\ owner' = batch
    /\ staged' = [staged EXCEPT ![batch] = "nothing"]
    /\ Goto(batch, "moved")
    /\ UNCHANGED <<kind, batchVars>>

\* Mutant of JobRecord: a batch that told its job to stop notes that it was
\* cancelled, whatever the worker says.
JobRecordAssumed ==
    [preset |-> CurrentPreset,
     worker |-> IF interrupted THEN "CANCELLED" ELSE job,
     output |-> job = "SUCCEEDED" /\ ~interrupted]

\* Mutant of ArchivedInput: a simulator's preset is archived like a replay.
ArchivedInputAlways == Append(inputs, CurrentPreset)

--------------------------------------------------------------------------------
(* The batch *)

\* another use of the operation, in the process of surface s; the arguments
\* are checked before Look
Start(b, s, p) ==
    /\ batch = Nobody
    /\ stage[b] = "idle"
    /\ batch' = b /\ surface' = s /\ plan' = p /\ step' = "checking"
    /\ cancel' = FALSE /\ interrupted' = FALSE /\ job' = "none"
    /\ records' = <<>> /\ inputs' = <<>> /\ failure' = Nobody /\ status' = "none"
    /\ ended' = <<>>
    /\ UNCHANGED outputVars

\* the locals of a batch that is over, or whose process died
Forgotten ==
    /\ batch' = Nobody /\ surface' = "cli" /\ plan' = <<>> /\ step' = "checking"
    /\ cancel' = FALSE /\ interrupted' = FALSE /\ job' = "none"
    /\ records' = <<>> /\ inputs' = <<>> /\ failure' = Nobody /\ status' = "none"
    /\ ended' = <<>>

\* target.exists and mkdtemp
Prepared ==
    /\ Running
    /\ Look(batch) \/ MakeStaging(batch)
    /\ UNCHANGED batchVars

\* the snapshot or the previous preset is done: PREPARING, then the token
CheckCancel ==
    /\ At("checking")
    /\ Post
    /\ IF cancel THEN step' = "finalizing" /\ status' = "CANCELLED"
                 ELSE step' = "preparing" /\ UNCHANGED status
    /\ UNCHANGED <<outputVars, batch, surface, plan, cancel, interrupted, job,
                   records, inputs, failure, ended>>

ArchivedInput == IF CurrentPreset \in Replay THEN Append(inputs, CurrentPreset) ELSE inputs

\* _archive_replay_input and prepare_product_job
PrepareJob ==
    /\ At("preparing")
    /\ inputs' = ArchivedInput
    /\ step' = "starting"
    /\ UNCHANGED <<outputVars, batch, posted, surface, plan, cancel, interrupted,
                   job, records, failure, status, ended>>

\* Either of them fails, the input already archived or not.  With no record
\* yet the error is raised instead (Fail).
PreparationFails ==
    /\ At("preparing")
    /\ records # <<>>
    /\ failure' = CurrentPreset
    /\ status' = "ERROR"
    /\ inputs' \in {inputs, ArchivedInput}
    /\ step' = "finalizing"
    /\ UNCHANGED <<outputVars, batch, posted, surface, plan, cancel, interrupted,
                   job, records, ended>>

\* RUNNING, and the worker of execute_product_job starts the job
StartJob ==
    /\ At("starting")
    /\ Post
    /\ job' = "active"
    /\ interrupted' = FALSE
    /\ step' = "waiting"
    /\ UNCHANGED <<outputVars, batch, surface, plan, cancel, records, inputs,
                   failure, status, ended>>

\* The job's thread ends.  Only a job that was told to stop is CANCELLED, and
\* such a job never succeeds.
JobEnds ==
    /\ job = "active"
    /\ job' \in IF interrupted THEN {"CANCELLED", "FAILED"} ELSE {"SUCCEEDED", "FAILED"}
    /\ ended' = Append(ended, [preset |-> CurrentPreset, worker |-> job'])
    /\ UNCHANGED <<outputVars, batch, posted, surface, plan, step, cancel,
                   interrupted, records, inputs, failure, status>>

\* a turn of the waiting loop hands the request on while the job is active
CancelJob ==
    /\ At("waiting")
    /\ cancel /\ ~interrupted /\ job = "active"
    /\ interrupted' = TRUE
    /\ Post
    /\ UNCHANGED <<outputVars, batch, surface, plan, step, cancel, job, records,
                   inputs, failure, status, ended>>

\* Ctrl+C in the waiting loop: cancel_and_join, whether the job still runs or not
InterruptWait ==
    /\ At("waiting")
    /\ surface = "cli"
    /\ interrupted' = TRUE
    /\ UNCHANGED <<outputVars, batch, posted, surface, plan, step, cancel, job,
                   records, inputs, failure, status, ended>>

\* The deadline passes before the join sees the end of the job, or
\* cancel_and_join runs out of time: ProductWorkerTimeoutError.  A job that
\* still runs belongs to nobody.
JoinTimeout ==
    /\ At("waiting")
    /\ GiveUp(batch)
    /\ job' = "none"
    /\ UNCHANGED <<batch, posted, surface, plan, step, cancel, interrupted, records,
                   inputs, failure, status, ended>>

\* _record_from_execution; an output is kept only of a job that succeeded
\* and was not told to stop
JobRecord ==
    [preset |-> CurrentPreset, worker |-> job,
     output |-> job = "SUCCEEDED" /\ ~interrupted]

\* how the loop goes on after the record r
AfterRecord(r) ==
    LET last == Current = Len(plan) IN
    \/ /\ r.worker = "FAILED"
       /\ status' = "ERROR" /\ step' = "finalizing"
    \/ /\ r.worker # "FAILED"
       /\ interrupted \/ r.worker = "CANCELLED" \/ (cancel /\ ~last)
       /\ status' = "CANCELLED" /\ step' = "finalizing"
    \/ /\ r.worker = "SUCCEEDED" /\ ~interrupted
       /\ last
       /\ status' = IF Elements(plan) = Preset THEN "COMPLETE" ELSE "PARTIAL"
       /\ step' = "finalizing"
    \/ /\ r.worker = "SUCCEEDED" /\ ~interrupted
       /\ ~last /\ ~cancel
       /\ step' = "checking"
       /\ UNCHANGED status

\* the join returned; the artifacts are written and the record is made
RecordJob ==
    /\ At("waiting")
    /\ job \in Verdict
    /\ records' = Append(records, JobRecord)
    /\ AfterRecord(JobRecord)
    /\ Post
    /\ job' = "none"
    /\ UNCHANGED <<outputVars, batch, surface, plan, cancel, interrupted, inputs,
                   failure, ended>>

\* FINALIZING; a manifest that contradicts itself is refused
WriteManifest ==
    /\ At("finalizing")
    /\ Post
    /\ IF Valid(Manifest) THEN WriteLast(batch) ELSE GiveUp(batch)
    /\ UNCHANGED <<batch, loopVars>>

MoveIntoPlace ==
    /\ Running
    /\ Rename(batch)
    /\ UNCHANGED batchVars

\* FINISHED; the stream of the command line may fail
Finish ==
    /\ Running
    /\ Answer(batch)
    /\ surface = "dashboard" => stage'[batch] = "returned"
    /\ Post
    /\ UNCHANGED <<batch, loopVars>>

DiscardStaging ==
    /\ Running
    /\ Discard(batch)
    /\ UNCHANGED batchVars

BatchThread ==
    \/ Prepared
    \/ CheckCancel
    \/ PrepareJob
    \/ PreparationFails
    \/ StartJob
    \/ CancelJob
    \/ JoinTimeout
    \/ RecordJob
    \/ WriteManifest
    \/ MoveIntoPlace
    \/ Finish
    \/ DiscardStaging

\* any other exception: a full disk, an artifact that cannot be written, a
\* worker that does not start, a first preset that cannot be prepared, a
\* KeyboardInterrupt outside the waiting loop
Fail ==
    /\ Running
    /\ GiveUp(batch)
    /\ job' = "none"
    /\ UNCHANGED <<batch, posted, surface, plan, step, cancel, interrupted, records,
                   inputs, failure, status, ended>>

BatchOver == Running /\ stage[batch] \in {"returned", "raised"}

(* The command line: avs project run *)

RunFromCli(b) == \E p \in Plan : Start(b, "cli", p) /\ UNCHANGED posted

CliExits ==
    /\ BatchOver
    /\ surface = "cli"
    /\ Forgotten
    /\ UNCHANGED <<outputVars, posted>>

--------------------------------------------------------------------------------
(* Properties *)

BatchTypeOK ==
    /\ OutputTypeOK
    /\ kind = [p \in Publisher |-> "run"]
    /\ batch \in Publisher \cup {Nobody}
    /\ posted \in Publisher \cup {Nobody}
    /\ surface \in {"cli", "dashboard"}
    /\ plan \in Plan \cup {<<>>}
    /\ step \in Step
    /\ cancel \in BOOLEAN /\ interrupted \in BOOLEAN
    /\ job \in Job
    /\ records \in Seq([preset : Preset, worker : Verdict, output : BOOLEAN])
    /\ inputs \in Seq(Replay)
    /\ failure \in Preset \cup {Nobody}
    /\ status \in Status
    /\ ended \in Seq([preset : Preset, worker : Verdict])

(***************************************************************************)
(* The manifest of a run says what happened: its records are the jobs that *)
(* ran, in the order they ran, each with the verdict its own worker gave;  *)
(* an output stands only beside a success; COMPLETE and PARTIAL mean that  *)
(* every planned preset succeeded, CANCELLED that somebody asked for it,   *)
(* ERROR that a job failed or a preset could not be prepared               *)
(* (publish_validation_project_run, ValidationRunManifest.__post_init__).  *)
(***************************************************************************)
ManifestIsTrue ==
    Running /\ stage[batch] \in {"moving", "moved", "returned"} =>
        /\ Len(records) = Len(ended)
        /\ \A i \in 1..Len(records) :
              /\ records[i].preset = ended[i].preset
              /\ records[i].worker = ended[i].worker
              /\ records[i].output => ended[i].worker = "SUCCEEDED"
        /\ \A i \in 1..Len(ended) : ended[i].preset = plan[i]
        /\ status \in {"COMPLETE", "PARTIAL"} <=>
              /\ Len(ended) = Len(plan)
              /\ \A i \in 1..Len(ended) : ended[i].worker = "SUCCEEDED"
        /\ status = "COMPLETE" => Elements(plan) = Preset
        /\ status = "CANCELLED" => cancel \/ interrupted
        /\ status = "ERROR" => Has(ended, "FAILED") \/ failure = plan[Len(ended) + 1]

================================================================================
