------------------------- MODULE ProjectWorkspaceProofs -------------------------
(***************************************************************************)
(* The Dashboard's project page and the command line, for any project, any *)
(* number of batches and any deaths of either process: they publish as     *)
(* CreateNewOutput says, the manifest of every run is true, and the result *)
(* of a batch reaches the page that started it.                            *)
(*                                                                         *)
(* The argument goes up in three layers.  The one batch that runs is a     *)
(* publisher of kind "run", so its steps are steps of CreateNewOutput,     *)
(* whose invariant then holds here; with it, every step keeps the books of *)
(* the batch; and with both, the workspace knows where the result of its   *)
(* thread is.                                                              *)
(***************************************************************************)
EXTENDS ProjectWorkspace, CreateNewOutputProofs, SequenceTheorems

(***************************************************************************)
(* The loop of a batch                                                     *)
(*                                                                         *)
(* The invariant follows the loop: nothing is noted before the staging     *)
(* directory exists; while presets run, all the earlier ones succeeded and *)
(* the books hold one record for each job that ended; once the loop is     *)
(* over its status is explained by the books; and only a manifest that     *)
(* does not contradict itself reaches the move.                            *)
(***************************************************************************)

RecordOf == [preset : Preset, worker : Verdict, output : BOOLEAN]

EndedOf == [preset : Preset, worker : Verdict]

\* nothing noted yet
Blank ==
    /\ step = "checking" /\ job = "none" /\ failure = Nobody
    /\ records = <<>> /\ ended = <<>>

\* the loop goes on only after a success
Underway ==
    /\ failure = Nobody
    /\ Len(records) < Len(plan)
    /\ \A i \in 1..Len(records) : records[i].worker = "SUCCEEDED"

\* the records are the jobs that ended, but for the one that just did
Books ==
    /\ Len(records) <= Len(plan)
    /\ Len(ended) = IF job \in Verdict THEN Len(records) + 1 ELSE Len(records)
    /\ job \in Verdict => ended[Len(ended)].worker = job
    /\ job = "CANCELLED" => interrupted
    /\ \A i \in 1..Len(ended) : ended[i].preset = plan[i]
    /\ \A i \in 1..Len(records) :
          /\ records[i].preset = plan[i]
          /\ records[i].worker = ended[i].worker
          /\ records[i].output => ended[i].worker = "SUCCEEDED"

\* why the loop is over
Concluded ==
    /\ status # "none"
    /\ status \in {"COMPLETE", "PARTIAL"} =>
          /\ Len(records) = Len(plan)
          /\ \A i \in 1..Len(records) : records[i].worker = "SUCCEEDED"
    /\ status = "COMPLETE" => Elements(plan) = Preset
    /\ status = "CANCELLED" => cancel \/ interrupted
    /\ status = "ERROR" =>
          \/ \E i \in 1..Len(ended) : ended[i].worker = "FAILED"
          \/ failure = plan[Len(ended) + 1]

\* what a manifest that does not contradict itself adds
Coherent ==
    /\ Len(records) = Len(plan)
    /\ \A i \in 1..Len(records) : records[i].worker = "SUCCEEDED"
    => status \in {"COMPLETE", "PARTIAL"}

\* the batch is between its staging directory and its end, and not failing
Good == Running /\ stage[batch] \in {"writing", "moving", "moved", "returned"}

BatchInv ==
    /\ BatchTypeOK
    /\ Running => plan \in Plan
    /\ job # "none" <=> At("waiting")
    /\ Running /\ stage[batch] \in {"idle", "staging"} => Blank
    /\ Good =>
          /\ Books
          /\ IF step = "finalizing" THEN Concluded ELSE Underway
          /\ stage[batch] # "writing" => step = "finalizing" /\ Coherent

(***************************************************************************)
(* Sequences                                                               *)
(***************************************************************************)

\* What Append does to a sequence.
LEMMA AppendFacts ==
  ASSUME NEW S, NEW s \in Seq(S), NEW e \in S
  PROVE  /\ Append(s, e) \in Seq(S)
         /\ Len(Append(s, e)) = Len(s) + 1
         /\ Len(s) \in Nat
         /\ \A i \in 1..Len(s) : Append(s, e)[i] = s[i]
         /\ Append(s, e)[Len(s) + 1] = e
BY AppendProperties, LenProperties

\* A selection is a sequence of presets that is not empty.
LEMMA PlanFacts ==
  ASSUME NEW p \in Plan
  PROVE  /\ p \in Seq(Preset)
         /\ Len(p) \in Nat \ {0}
         /\ \A i \in 1..Len(p) : p[i] \in Preset
BY PlanAssumption, EmptySeq, LenProperties, ElementOfSeq

(***************************************************************************)
(* The steps of the loop                                                   *)
(***************************************************************************)

\* Look and MakeStaging: the loop has not begun.
LEMMA PreparedKeeps ==
  ASSUME BatchInv, OutputTypeOK', Prepared
  PROVE  BatchInv'
<1>1. batch \in Publisher /\ UNCHANGED batchVars /\ kind' = kind
  BY DEF BatchInv, BatchTypeOK, Prepared, Running, Look, MakeStaging
<1>2. BatchTypeOK'
  BY <1>1 DEF BatchInv, BatchTypeOK, batchVars, loopVars
<1>3. stage[batch] \in {"idle", "staging"} /\ stage'[batch] \in {"staging", "writing", "raised"}
  BY <1>1 DEF Prepared, Look, MakeStaging, Goto, BatchInv, BatchTypeOK, OutputTypeOK
<1>4. Blank /\ plan \in Plan
  BY <1>3 DEF BatchInv, Prepared
<1>5. Len(plan) \in Nat \ {0} /\ Len(<<>>) = 0
  BY <1>4, PlanFacts, EmptySeq
<1>6. Books' /\ Underway'
  BY <1>1, <1>4, <1>5 DEF Books, Underway, Blank, batchVars, loopVars, Verdict
<1> QED
  BY <1>1, <1>2, <1>3, <1>4, <1>6
     DEF BatchInv, batchVars, loopVars, Running, Good, At, Blank

\* A step that leaves the books and the place of the loop alone.
LEMMA SameBooks ==
  ASSUME UNCHANGED <<plan, records, ended, job, interrupted, failure, status>>,
         cancel => cancel'
  PROVE  /\ Books => Books'
         /\ Underway => Underway'
         /\ Concluded => Concluded'
         /\ Coherent => Coherent'
         /\ Blank /\ step' = step => Blank'
BY DEF Books, Underway, Concluded, Coherent, Blank

\* CheckCancel, PrepareJob and CancelJob: no job ends and none is noted.
LEMMA CheckCancelKeeps ==
  ASSUME BatchInv, CheckCancel
  PROVE  BatchInv'
<1>1. Running /\ stage[batch] = "writing" /\ step = "checking" /\ job = "none" /\ Books /\ Underway
  BY DEF CheckCancel, At, Good, BatchInv
<1>2. BatchTypeOK'
  BY <1>1 DEF CheckCancel, BatchInv, BatchTypeOK, OutputTypeOK, outputVars, Post, Running, Step, Status
<1>3. Books'
  BY <1>1 DEF CheckCancel, Books
<1>4. IF step' = "finalizing" THEN Concluded' ELSE Underway'
  BY <1>1 DEF CheckCancel, Concluded, Underway
<1>5. step' \in {"finalizing", "preparing"}
  BY DEF CheckCancel
<1> QED
  BY <1>1, <1>2, <1>3, <1>4, <1>5 DEF CheckCancel, BatchInv, outputVars, Running, Good, At

\* Only the input of a replay is archived.
LEMMA ArchivedInputs ==
  ASSUME BatchInv
  PROVE  ArchivedInput \in Seq(Replay) /\ inputs \in Seq(Replay)
BY AppendProperties DEF ArchivedInput, BatchInv, BatchTypeOK

LEMMA PrepareJobKeeps ==
  ASSUME BatchInv, PrepareJob
  PROVE  BatchInv'
<1>1. Running /\ stage[batch] = "writing" /\ step = "preparing" /\ job = "none" /\ Books /\ Underway
  BY DEF PrepareJob, At, Good, BatchInv
<1>2. inputs' \in Seq(Replay)
  BY ArchivedInputs DEF PrepareJob
<1>3. BatchTypeOK'
  BY <1>1, <1>2 DEF PrepareJob, BatchInv, BatchTypeOK, OutputTypeOK, outputVars, Step
<1>4. Books' /\ Underway'
  BY <1>1, SameBooks DEF PrepareJob
<1> QED
  BY <1>1, <1>3, <1>4 DEF PrepareJob, BatchInv, outputVars, Running, Good, At

LEMMA PreparationFailsKeeps ==
  ASSUME BatchInv, PreparationFails
  PROVE  BatchInv'
<1>1. Running /\ stage[batch] = "writing" /\ step = "preparing" /\ job = "none" /\ Books /\ Underway
  BY DEF PreparationFails, At, Good, BatchInv
<1>2. inputs' \in Seq(Replay)
  BY ArchivedInputs DEF PreparationFails
<1>3. Len(ended) = Len(records) /\ failure' = plan[Len(records) + 1] /\ failure' \in Preset
  <2>1. plan \in Plan /\ Len(records) \in Nat /\ Len(records) + 1 \in 1..Len(plan)
    BY <1>1, PlanFacts, LenProperties DEF Underway, BatchInv, BatchTypeOK
  <2> QED
    BY <1>1, <2>1, PlanFacts DEF PreparationFails, Books, Verdict, CurrentPreset, Current
<1>4. BatchTypeOK'
  BY <1>1, <1>2, <1>3 DEF PreparationFails, BatchInv, BatchTypeOK, OutputTypeOK, outputVars, Step, Status
<1>5. Books' /\ Concluded'
  BY <1>1, <1>3 DEF PreparationFails, Books, Concluded
<1> QED
  BY <1>1, <1>4, <1>5 DEF PreparationFails, BatchInv, outputVars, Running, Good, At

LEMMA StartJobKeeps ==
  ASSUME BatchInv, StartJob
  PROVE  BatchInv'
<1>1. Running /\ stage[batch] = "writing" /\ step = "starting" /\ job = "none" /\ Books /\ Underway
  BY DEF StartJob, At, Good, BatchInv
<1>2. BatchTypeOK'
  BY <1>1 DEF StartJob, BatchInv, BatchTypeOK, OutputTypeOK, outputVars, Post, Running, Step, Job
<1>3. Books' /\ Underway'
  BY <1>1 DEF StartJob, Books, Underway, Verdict
<1> QED
  BY <1>1, <1>2, <1>3 DEF StartJob, BatchInv, outputVars, Running, Good, At

\* Only JobEnds lets ended run ahead of the records.
LEMMA JobEndsKeeps ==
  ASSUME BatchInv, JobEnds
  PROVE  BatchInv'
<1>1. Running /\ stage[batch] = "writing" /\ step = "waiting" /\ job = "active" /\ Books /\ Underway
  BY DEF JobEnds, At, Good, BatchInv
<1>2. job' \in Verdict /\ (job' = "CANCELLED" => interrupted)
  BY DEF JobEnds, Verdict
<1>3. Len(ended) = Len(records) /\ CurrentPreset = plan[Len(records) + 1] /\ CurrentPreset \in Preset
  <2>1. plan \in Plan /\ Len(records) \in Nat /\ Len(records) + 1 \in 1..Len(plan)
    BY <1>1, PlanFacts, LenProperties DEF Underway, BatchInv, BatchTypeOK
  <2> QED
    BY <1>1, <2>1, PlanFacts DEF Books, Verdict, CurrentPreset, Current
<1>4. [preset |-> CurrentPreset, worker |-> job'] \in EndedOf /\ ended \in Seq(EndedOf)
  BY <1>2, <1>3 DEF EndedOf, BatchInv, BatchTypeOK
<1>5. /\ ended' \in Seq(EndedOf)
      /\ Len(ended') = Len(ended) + 1
      /\ Len(ended) \in Nat
      /\ \A i \in 1..Len(ended) : ended'[i] = ended[i]
      /\ ended'[Len(ended) + 1] = [preset |-> CurrentPreset, worker |-> job']
  BY <1>4, AppendFacts DEF JobEnds
<1>6. BatchTypeOK'
  BY <1>1, <1>2, <1>5 DEF JobEnds, BatchInv, BatchTypeOK, OutputTypeOK, outputVars, Job, EndedOf
<1>7. Books' /\ Underway'
  <2>1. Underway'
    BY <1>1 DEF JobEnds, Underway
  <2>2. /\ Len(records') <= Len(plan')
        /\ Len(ended') = Len(records') + 1
        /\ ended'[Len(ended')].worker = job'
    BY <1>1, <1>3, <1>5 DEF JobEnds, Books
  <2>3. \A i \in 1..Len(ended') : ended'[i].preset = plan'[i]
    <3> SUFFICES ASSUME NEW i \in 1..Len(ended') PROVE ended'[i].preset = plan'[i]
      OBVIOUS
    <3>1. CASE i \in 1..Len(ended)
      BY <3>1, <1>1, <1>5 DEF JobEnds, Books
    <3>2. CASE i = Len(ended) + 1
      BY <3>2, <1>3, <1>5 DEF JobEnds
    <3> QED BY <3>1, <3>2, <1>5
  <2>4. \A i \in 1..Len(records') :
          /\ records'[i].preset = plan'[i]
          /\ records'[i].worker = ended'[i].worker
          /\ records'[i].output => ended'[i].worker = "SUCCEEDED"
    BY <1>1, <1>3, <1>5 DEF JobEnds, Books
  <2> QED BY <1>2, <2>1, <2>2, <2>3, <2>4 DEF JobEnds, Books
<1> QED
  BY <1>1, <1>2, <1>6, <1>7 DEF JobEnds, BatchInv, outputVars, Running, Good, At, Verdict

\* A request reaches the job, or Ctrl+C the waiting loop.
LEMMA CancelJobKeeps ==
  ASSUME BatchInv, CancelJob \/ InterruptWait
  PROVE  BatchInv'
<1>1. /\ Running /\ stage[batch] = "writing" /\ step = "waiting" /\ Books /\ Underway
      /\ UNCHANGED <<outputVars, batch, surface, plan, step, cancel, job, records, inputs,
                     failure, status, ended>>
      /\ interrupted' = TRUE
      /\ posted' \in {batch, posted}
  BY DEF CancelJob, InterruptWait, At, Good, BatchInv, Post
<1>2. BatchTypeOK'
  BY <1>1 DEF BatchInv, BatchTypeOK, OutputTypeOK, outputVars, Running
<1>3. Books' /\ Underway'
  BY <1>1 DEF Books, Underway
<1> QED
  BY <1>1, <1>2, <1>3 DEF BatchInv, outputVars, Running, Good, At

\* The record repeats the verdict of the job that ended, and the loop's
\* conclusion follows from it.
LEMMA RecordJobKeeps ==
  ASSUME BatchInv, RecordJob
  PROVE  BatchInv'
<1>1. /\ Running /\ stage[batch] = "writing" /\ step = "waiting" /\ job \in Verdict
      /\ Books /\ Underway
  BY DEF RecordJob, At, Good, BatchInv
<1>2. job # "active" /\ job # "none"
  BY <1>1 DEF Verdict
<1>3. Len(ended) = Len(records) + 1 /\ CurrentPreset = plan[Len(records) + 1] /\ CurrentPreset \in Preset
  <2>1. plan \in Plan /\ Len(records) \in Nat /\ Len(records) + 1 \in 1..Len(plan)
    BY <1>1, PlanFacts, LenProperties DEF Underway, BatchInv, BatchTypeOK
  <2> QED
    BY <1>1, <2>1, PlanFacts DEF Books, CurrentPreset, Current
<1>4. JobRecord \in RecordOf /\ records \in Seq(RecordOf)
  BY <1>1, <1>3 DEF JobRecord, RecordOf, BatchInv, BatchTypeOK
<1>5. /\ records' \in Seq(RecordOf)
      /\ Len(records') = Len(records) + 1
      /\ Len(records) \in Nat
      /\ \A i \in 1..Len(records) : records'[i] = records[i]
      /\ records'[Len(records) + 1] = JobRecord
  BY <1>4, AppendFacts DEF RecordJob
<1>6. JobRecord.worker = job /\ JobRecord.preset = plan[Len(records) + 1]
      /\ (JobRecord.output => job = "SUCCEEDED")
  BY <1>3 DEF JobRecord
<1>7. UNCHANGED <<outputVars, batch, surface, plan, cancel, interrupted, inputs, failure, ended>>
      /\ job' = "none" /\ posted' \in {batch, posted}
  BY DEF RecordJob, Post
<1>8. ended[Len(records) + 1].worker = job /\ ended[Len(records) + 1].preset = plan[Len(records) + 1]
  <2>1. Len(records) + 1 \in 1..Len(ended)
    BY <1>3, <1>5
  <2> QED BY <1>1, <1>3, <2>1 DEF Books
<1>9. Books'
  <2>1. Len(records') <= Len(plan')
    <3>1. Len(plan) \in Nat
      BY <1>1, PlanFacts DEF BatchInv
    <3> QED BY <1>1, <1>5, <1>7, <3>1 DEF Underway
  <2>2. Len(ended') = Len(records')
    BY <1>3, <1>5, <1>7
  <2>3. \A i \in 1..Len(ended') : ended'[i].preset = plan'[i]
    BY <1>1, <1>7 DEF Books
  <2>4. \A i \in 1..Len(records') :
          /\ records'[i].preset = plan'[i]
          /\ records'[i].worker = ended'[i].worker
          /\ records'[i].output => ended'[i].worker = "SUCCEEDED"
    <3> SUFFICES ASSUME NEW i \in 1..Len(records')
                 PROVE  /\ records'[i].preset = plan'[i]
                        /\ records'[i].worker = ended'[i].worker
                        /\ records'[i].output => ended'[i].worker = "SUCCEEDED"
      OBVIOUS
    <3>1. CASE i \in 1..Len(records)
      BY <3>1, <1>1, <1>5, <1>7 DEF Books
    <3>2. CASE i = Len(records) + 1
      BY <3>2, <1>5, <1>6, <1>7, <1>8
    <3> QED BY <3>1, <3>2, <1>5
  <2> QED BY <1>7, <2>1, <2>2, <2>3, <2>4 DEF Books, Verdict
<1>10. AfterRecord(JobRecord)
  BY DEF RecordJob
<1>11. step' \in {"checking", "finalizing"} /\ status' \in Status
  BY <1>10 DEF AfterRecord, Status, BatchInv, BatchTypeOK
<1>12. IF step' = "finalizing" THEN Concluded' ELSE Underway'
  <2>1. CASE JobRecord.worker = "FAILED"
    <3>1. step' = "finalizing" /\ status' = "ERROR"
      BY <2>1, <1>10 DEF AfterRecord
    <3>2. Len(ended') \in 1..Len(ended') /\ ended'[Len(ended')].worker = "FAILED"
      BY <2>1, <1>3, <1>5, <1>6, <1>7, <1>8
    <3> QED BY <3>1, <3>2 DEF Concluded
  <2>2. CASE /\ JobRecord.worker # "FAILED"
             /\ step' = "finalizing" /\ status' = "CANCELLED"
             /\ \/ interrupted \/ JobRecord.worker = "CANCELLED" \/ cancel
    <3>1. cancel' \/ interrupted'
      BY <2>2, <1>1, <1>6, <1>7 DEF Books
    <3> QED BY <2>2, <3>1 DEF Concluded
  <2>3. \A i \in 1..Len(records') :
          JobRecord.worker = "SUCCEEDED" => records'[i].worker = "SUCCEEDED"
    <3> SUFFICES ASSUME NEW i \in 1..Len(records'), JobRecord.worker = "SUCCEEDED"
                 PROVE  records'[i].worker = "SUCCEEDED"
      OBVIOUS
    <3>1. CASE i \in 1..Len(records)
      BY <3>1, <1>1, <1>5 DEF Underway
    <3>2. CASE i = Len(records) + 1
      BY <3>2, <1>5
    <3> QED BY <3>1, <3>2, <1>5
  <2>4. CASE /\ JobRecord.worker = "SUCCEEDED" /\ Current = Len(plan)
             /\ status' = IF Elements(plan) = Preset THEN "COMPLETE" ELSE "PARTIAL"
             /\ step' = "finalizing"
    <3>1. Len(records') = Len(plan')
      BY <2>4, <1>5, <1>7 DEF Current
    <3>2. status' = "COMPLETE" => Elements(plan)' = Preset
      BY <2>4, <1>7 DEF Elements
    <3>3. status' \in {"COMPLETE", "PARTIAL"}
      BY <2>4
    <3> QED BY <2>3, <2>4, <3>1, <3>2, <3>3 DEF Concluded
  <2>5. CASE JobRecord.worker = "SUCCEEDED" /\ Current # Len(plan) /\ step' = "checking"
    <3>1. Len(plan) \in Nat
      BY <1>1, PlanFacts DEF BatchInv
    <3>2. Len(records') < Len(plan')
      BY <2>5, <3>1, <1>1, <1>5, <1>7 DEF Current, Underway
    <3> QED BY <2>3, <2>5, <3>2, <1>1, <1>7 DEF Underway
  <2> QED
    BY <1>10, <2>1, <2>2, <2>4, <2>5 DEF AfterRecord
<1>13. BatchTypeOK'
  BY <1>1, <1>5, <1>7, <1>11 DEF BatchInv, BatchTypeOK, OutputTypeOK, outputVars, Job, Step, RecordOf, Running
<1> QED
  BY <1>1, <1>7, <1>9, <1>11, <1>12, <1>13 DEF BatchInv, outputVars, Running, Good, At

\* A manifest that contradicts itself never reaches the move.
LEMMA ValidManifestIsCoherent ==
  ASSUME BatchInv, Running, Concluded, plan \in Plan, Valid(Manifest)
  PROVE  Coherent
<1> SUFFICES ASSUME Len(records) = Len(plan),
                    \A i \in 1..Len(records) : records[i].worker = "SUCCEEDED"
             PROVE  status \in {"COMPLETE", "PARTIAL"}
  BY DEF Coherent
<1>1. records \in Seq(RecordOf) /\ Len(records) \in Nat /\ DOMAIN records = 1..Len(records)
  BY LenProperties DEF BatchInv, BatchTypeOK, RecordOf
<1>2. Rest = <<>>
  BY <1>1, PlanFacts DEF Rest
<1>3. ~Has(records, "FAILED") /\ ~Has(records, "CANCELLED")
  BY <1>1 DEF Has
<1>4. status \in Status /\ status # "none"
  BY DEF BatchInv, BatchTypeOK, Concluded
<1>5. failure = Nobody
  BY <1>2 DEF Valid, Manifest
<1> QED
  BY <1>2, <1>3, <1>4, <1>5 DEF Valid, Manifest, Status

LEMMA WriteManifestKeeps ==
  ASSUME BatchInv, WriteManifest
  PROVE  BatchInv'
<1>1. /\ Running /\ batch \in Publisher /\ stage[batch] = "writing" /\ step = "finalizing"
      /\ job = "none" /\ Books /\ Concluded /\ plan \in Plan
  BY DEF WriteManifest, At, Good, BatchInv, BatchTypeOK, Running
<1>2. UNCHANGED <<batch, loopVars, kind, target, owner>> /\ posted' \in {batch, posted}
  BY DEF WriteManifest, Post, WriteLast, GiveUp
<1>3. \/ stage' = [stage EXCEPT ![batch] = "moving"] /\ Valid(Manifest)
         /\ staged' = [staged EXCEPT ![batch] = "whole"]
      \/ stage' = [stage EXCEPT ![batch] = "discarding"] /\ staged' = staged
  BY DEF WriteManifest, WriteLast, GiveUp, Goto
<1>4. BatchTypeOK'
  <2>1. OutputTypeOK'
    BY <1>1, <1>2, <1>3 DEF BatchInv, BatchTypeOK, OutputTypeOK, Stage, Staged
  <2> QED BY <1>1, <1>2, <2>1 DEF BatchInv, BatchTypeOK, loopVars
<1>5. Books' /\ Concluded' /\ (Coherent => Coherent')
  BY <1>1, <1>2, SameBooks DEF loopVars
<1>6. stage'[batch] = "moving" \/ stage'[batch] = "discarding"
  BY <1>1, <1>3 DEF BatchInv, BatchTypeOK, OutputTypeOK
<1>7. stage'[batch] = "moving" => Coherent
  BY <1>1, <1>3, <1>6, ValidManifestIsCoherent DEF BatchInv, BatchTypeOK, OutputTypeOK
<1> QED
  BY <1>1, <1>2, <1>4, <1>5, <1>6, <1>7 DEF BatchInv, loopVars, Running, Good, At

\* The move and the answer touch the path and the publisher's place only.
LEMMA MoveKeeps ==
  ASSUME BatchInv, OutputTypeOK', MoveIntoPlace \/ Finish
  PROVE  BatchInv'
<1>1. /\ Running /\ batch \in Publisher /\ stage[batch] \in {"moving", "moved"}
      /\ UNCHANGED <<batch, loopVars, kind>> /\ posted' \in {batch, posted}
  BY DEF MoveIntoPlace, Finish, Rename, Answer, Post, BatchInv, BatchTypeOK, Running, batchVars
<1>2. stage'[batch] \in {"moved", "returned", "raised"}
  BY <1>1 DEF MoveIntoPlace, Finish, Rename, Answer, Goto, BatchInv, BatchTypeOK, OutputTypeOK
<1>3. step = "finalizing" /\ job = "none" /\ Books /\ Concluded /\ Coherent /\ plan \in Plan
  BY <1>1 DEF BatchInv, Good, At
<1>4. BatchTypeOK'
  BY <1>1 DEF BatchInv, BatchTypeOK, loopVars, Running
<1>5. Books' /\ Concluded' /\ Coherent'
  BY <1>1, <1>3, SameBooks DEF loopVars
<1> QED
  BY <1>1, <1>2, <1>3, <1>4, <1>5 DEF BatchInv, loopVars, Running, Good, At

\* An operation that fails or is over leaves the books to nobody.
LEMMA FailureKeeps ==
  ASSUME BatchInv, JoinTimeout \/ Fail \/ DiscardStaging
  PROVE  BatchInv'
<1>1. /\ Running /\ batch \in Publisher /\ plan \in Plan
      /\ UNCHANGED <<batch, posted, surface, plan, step, cancel, interrupted, records,
                     inputs, failure, status, ended, kind, target, owner>>
  BY DEF JoinTimeout, Fail, DiscardStaging, GiveUp, Discard, At, BatchInv, BatchTypeOK,
         Running, batchVars, loopVars
<1>2. stage[batch] \in {"writing", "moving", "unlinking", "discarding"}
  BY <1>1 DEF JoinTimeout, Fail, DiscardStaging, GiveUp, Discard
<1>3. stage' = [stage EXCEPT ![batch] = "discarding"] \/ stage' = [stage EXCEPT ![batch] = "raised"]
  BY DEF JoinTimeout, Fail, DiscardStaging, GiveUp, Discard, Goto
<1>4. staged' \in [Publisher -> Staged]
  BY <1>1 DEF JoinTimeout, Fail, DiscardStaging, GiveUp, Discard, BatchInv, BatchTypeOK,
              OutputTypeOK, Staged
<1>5. job' = "none"
  <2>1. CASE DiscardStaging
    BY <2>1 DEF DiscardStaging, Discard, batchVars, loopVars, BatchInv, At
  <2> QED BY <2>1 DEF JoinTimeout, Fail
<1>6. BatchTypeOK'
  BY <1>1, <1>3, <1>4, <1>5 DEF BatchInv, BatchTypeOK, OutputTypeOK, Stage, Job
<1>7. stage'[batch] \in {"discarding", "raised"}
  BY <1>1, <1>3 DEF BatchInv, BatchTypeOK, OutputTypeOK
<1> QED
  BY <1>1, <1>5, <1>6, <1>7 DEF BatchInv, Running, Good, At

\* The loop of one batch, step by step.
LEMMA BatchThreadKeeps ==
  ASSUME BatchInv, OutputTypeOK', BatchThread
  PROVE  BatchInv'
BY PreparedKeeps, CheckCancelKeeps, PrepareJobKeeps, PreparationFailsKeeps, StartJobKeeps,
   CancelJobKeeps, RecordJobKeeps, WriteManifestKeeps, MoveKeeps, FailureKeeps
   DEF BatchThread

(***************************************************************************)
(* The steps around the loop                                               *)
(***************************************************************************)

\* A batch begins with nothing noted.
LEMMA StartKeeps ==
  ASSUME BatchInv, NEW b \in Publisher, NEW s \in {"cli", "dashboard"}, NEW p \in Plan,
         Start(b, s, p), posted' \in Publisher \cup {Nobody}
  PROVE  BatchInv'
<1>1. BatchTypeOK'
  BY EmptySeq DEF Start, BatchInv, BatchTypeOK, OutputTypeOK, outputVars, Step, Job, Status
<1>2. stage'[b] = "idle" /\ batch' = b /\ job' = "none" /\ plan' = p /\ Blank'
  BY DEF Start, outputVars, Blank
<1> QED
  BY <1>1, <1>2 DEF BatchInv, Running, Good, At

\* A batch that is over, or whose process dies, leaves nothing behind.
LEMMA ForgottenKeeps ==
  ASSUME BatchInv, Forgotten, OutputTypeOK', kind' = kind,
         posted' \in Publisher \cup {Nobody}
  PROVE  BatchInv'
<1>1. BatchTypeOK'
  BY EmptySeq DEF Forgotten, BatchInv, BatchTypeOK, Step, Job, Status
<1> QED
  BY <1>1 DEF Forgotten, BatchInv, Running, Good, At

\* The GUI and the command line may set the token of a batch and empty its
\* progress mailbox; they touch nothing else of it.
LEMMA UntouchedKeeps ==
  ASSUME BatchInv, cancel' \in BOOLEAN, cancel => cancel',
         posted' \in Publisher \cup {Nobody},
         UNCHANGED <<outputVars, batch, surface, plan, step, interrupted, job, records,
                     inputs, failure, status, ended>>
  PROVE  BatchInv'
<1>1. BatchTypeOK'
  BY DEF BatchInv, BatchTypeOK, OutputTypeOK, outputVars
<1> QED
  BY <1>1, SameBooks DEF BatchInv, outputVars, Running, Good, At

\* What the invariant says of the manifest.
LEMMA ManifestFollows == BatchInv => ManifestIsTrue
<1> SUFFICES ASSUME BatchInv, Running, stage[batch] \in {"moving", "moved", "returned"}
             PROVE  ManifestIsTrue
  BY DEF ManifestIsTrue
<1>1. Books /\ Concluded /\ Coherent /\ job = "none" /\ Len(ended) = Len(records)
  BY DEF BatchInv, Good, At, Books, Verdict
<1>2. DOMAIN ended = 1..Len(ended) /\ Len(records) \in Nat
  BY LenProperties DEF BatchInv, BatchTypeOK
<1>3. \A i \in 1..Len(records) :
         /\ records[i].preset = ended[i].preset
         /\ records[i].worker = ended[i].worker
         /\ records[i].output => ended[i].worker = "SUCCEEDED"
  BY <1>1 DEF Books
<1>4. \A i \in 1..Len(ended) : ended[i].preset = plan[i]
  BY <1>1 DEF Books
<1>5. status \in {"COMPLETE", "PARTIAL"} <=>
         /\ Len(ended) = Len(plan)
         /\ \A i \in 1..Len(ended) : ended[i].worker = "SUCCEEDED"
  BY <1>1, <1>3 DEF Concluded, Coherent
<1>6. status = "ERROR" => Has(ended, "FAILED") \/ failure = plan[Len(ended) + 1]
  BY <1>1, <1>2 DEF Concluded, Has
<1> QED
  BY <1>1, <1>3, <1>4, <1>5, <1>6 DEF ManifestIsTrue, Concluded

(***************************************************************************)
(* Publishing                                                              *)
(***************************************************************************)

\* The batch is a publisher of runs.
RunsOnly ==
    /\ batch \in Publisher \cup {Nobody}
    /\ kind = [p \in Publisher |-> "run"]

\* Every step of the batch's loop is a step of its publisher, or none.
LEMMA BatchThreadPublishes ==
  ASSUME BatchThread
  PROVE  \/ Running /\ PublishDirectory(batch)
         \/ UNCHANGED outputVars
BY DEF BatchThread, Prepared, CheckCancel, PrepareJob, PreparationFails, StartJob, CancelJob,
       JoinTimeout, RecordJob, WriteManifest, MoveIntoPlace, Finish, DiscardStaging, At,
       PublishDirectory

\* What a step of the system does to the path.
LEMMA StepsPublish ==
  ASSUME Next
  PROVE  \/ Running /\ (PublishDirectory(batch) \/ Die(batch))
         \/ UNCHANGED outputVars
<1>1. CASE BatchStep
  BY <1>1, BatchThreadPublishes DEF BatchStep
<1>2. CASE JobEnds \/ InterruptWait \/ Fail \/ CliExits
  BY <1>2 DEF JobEnds, InterruptWait, Fail, CliExits, PublishDirectory
<1>3. CASE \E b \in Publisher : RunFromCli(b) \/ run(b)
  BY <1>3 DEF RunFromCli, run, Start
<1>4. CASE cli_dies \/ dashboard_dies
  BY <1>4 DEF cli_dies, dashboard_dies, Killed
<1>5. CASE \/ deliver \/ open_dashboard \/ adopt \/ add_preset \/ request_cancel
           \/ drain_progress \/ poll_result \/ load_history \/ clear_history \/ close_window
           \/ \E p \in Plan : review(p)
  BY <1>5 DEF deliver, open_dashboard, adopt, add_preset, request_cancel, drain_progress,
              poll_result, load_history, clear_history, close_window, review
<1> QED BY <1>1, <1>2, <1>3, <1>4, <1>5 DEF Next

\* What a step of the system does to the batch.
LEMMA BatchAfterStep ==
  ASSUME Next
  PROVE  batch' \in Publisher \cup {batch, Nobody}
<1>1. CASE BatchStep
  BY <1>1 DEF BatchStep, BatchThread, Prepared, CheckCancel, PrepareJob, PreparationFails,
              StartJob, CancelJob, JoinTimeout, RecordJob, WriteManifest, MoveIntoPlace,
              Finish, DiscardStaging, batchVars
<1>2. CASE JobEnds \/ InterruptWait \/ Fail \/ CliExits
  BY <1>2 DEF JobEnds, InterruptWait, Fail, CliExits, Forgotten
<1>3. CASE \E b \in Publisher : RunFromCli(b) \/ run(b)
  BY <1>3 DEF RunFromCli, run, Start
<1>4. CASE cli_dies \/ dashboard_dies
  BY <1>4 DEF cli_dies, dashboard_dies, Forgotten
<1>5. CASE \/ deliver \/ open_dashboard \/ adopt \/ add_preset \/ request_cancel
           \/ drain_progress \/ poll_result \/ load_history \/ clear_history \/ close_window
           \/ \E p \in Plan : review(p)
  BY <1>5 DEF deliver, open_dashboard, adopt, add_preset, request_cancel, drain_progress,
              poll_result, load_history, clear_history, close_window, review, Forgotten,
              batchVars
<1> QED BY <1>1, <1>2, <1>3, <1>4, <1>5 DEF Next

\* Each of these steps is one that CreateNewOutput allows.
LEMMA PublisherIsRun ==
  ASSUME RunsOnly, Running, PublishDirectory(batch) \/ Die(batch)
  PROVE  OutputNext
BY DEF RunsOnly, Running, OutputNext, publish_validation_project_run

LEMMA RunsInvariant == Spec => []RunsOnly
<1>1. Init => RunsOnly
  BY DEF Init, BatchInit, RunsOnly
<1>2. RunsOnly /\ [Next]_vars => RunsOnly'
  <2> SUFFICES ASSUME RunsOnly, [Next]_vars
               PROVE  RunsOnly'
    OBVIOUS
  <2>1. CASE UNCHANGED vars
    BY <2>1 DEF vars, batchVars, outputVars, RunsOnly
  <2>2. CASE Next
    <3>1. kind' = kind
      BY <2>2, StepsPublish
         DEF PublishDirectory, Look, MakeStaging, WriteLast, GiveUp, Rename, Answer, Discard,
             Die, outputVars
    <3> QED BY <2>2, <3>1, BatchAfterStep DEF RunsOnly
  <2> QED BY <2>1, <2>2
<1> QED BY <1>1, <1>2, PTL DEF Spec

(***************************************************************************)
(* The batches of the Dashboard and of the command line publish only by    *)
(* the steps of CreateNewOutput.                                           *)
(***************************************************************************)
THEOREM BatchesPublishAsSpecified == Spec => PublishesAsSpecified
<1>1. Init => OutputInit
  BY DEF Init, BatchInit
<1>2. RunsOnly /\ [Next]_vars => [OutputNext]_outputVars
  BY StepsPublish, PublisherIsRun DEF vars
<1> QED BY <1>1, <1>2, RunsInvariant, PTL DEF Spec, OutputSpec, PublishesAsSpecified

(***************************************************************************)
(* Hence a run directory keeps the promise of RunStore, whoever runs the   *)
(* batch and whichever process dies.                                       *)
(***************************************************************************)
THEOREM RunDirectoriesAreStored == Spec => ImplementsRunStore
BY BatchesPublishAsSpecified, RunStoreImplemented, PTL DEF PublishesAsSpecified

\* The path's invariant holds here.
LEMMA PathInvariant == Spec => []OutputInv
BY BatchesPublishAsSpecified, OutputInvariant, PTL DEF PublishesAsSpecified

(***************************************************************************)
(* The books of the batch                                                  *)
(***************************************************************************)

\* A selection in the page is one of the plans.
Selection == reviewed \in Plan \cup {<<>>}

\* No step of either process spoils the books of the batch that runs: the
\* loop keeps them, its environment only sets its token, and a process that
\* dies takes them with it.
LEMMA BatchKeeps ==
  ASSUME BatchInv, Selection, OutputInv', Next
  PROVE  BatchInv'
<1>1. OutputTypeOK'
  BY DEF OutputInv
<1>2. CASE BatchStep
  BY <1>1, <1>2, BatchThreadKeeps DEF BatchStep
<1>3. CASE JobEnds \/ InterruptWait \/ Fail
  BY <1>3, JobEndsKeeps, CancelJobKeeps, FailureKeeps
<1>4. CASE CliExits \/ deliver
  <2>1. Forgotten /\ UNCHANGED <<outputVars, posted>>
    BY <1>4 DEF CliExits, deliver
  <2> QED BY <1>1, <2>1, ForgottenKeeps DEF outputVars, BatchInv, BatchTypeOK
<1>5. CASE \E b \in Publisher : RunFromCli(b)
  BY <1>5, StartKeeps DEF RunFromCli, BatchInv, BatchTypeOK
<1>6. CASE \E b \in Publisher : run(b)
  <2>1. PICK b \in Publisher : run(b)
    BY <1>6
  <2>2. posted' \in Publisher \cup {Nobody} /\ reviewed \in Plan
    BY <2>1 DEF run, Selection
  <2>3. CASE Start(b, "dashboard", reviewed)
    BY <2>2, <2>3, StartKeeps
  <2>4. CASE UNCHANGED <<outputVars, batch, loopVars>>
    BY <2>2, <2>4, UntouchedKeeps DEF loopVars, BatchInv, BatchTypeOK
  <2>5. Start(b, "dashboard", reviewed) \/ UNCHANGED <<outputVars, batch, loopVars>>
    <3>1. CASE ~Start(b, "dashboard", reviewed)
      BY <2>1, <3>1 DEF run
    <3> QED BY <3>1
  <2> QED BY <2>3, <2>4, <2>5
<1>7. CASE cli_dies \/ (dashboard_dies /\ Running /\ surface = "dashboard")
  <2>1. Running /\ Killed /\ Forgotten /\ posted' \in {posted, Nobody}
    BY <1>7 DEF cli_dies, dashboard_dies
  <2>2. kind' = kind
    BY <2>1 DEF Killed, Die, outputVars
  <2> QED BY <1>1, <2>1, <2>2, ForgottenKeeps DEF BatchInv, BatchTypeOK
<1>8. CASE \/ dashboard_dies /\ ~(Running /\ surface = "dashboard")
           \/ open_dashboard \/ drain_progress
  <2>1. UNCHANGED <<outputVars, batch, loopVars>> /\ posted' = Nobody
    BY <1>8 DEF dashboard_dies, open_dashboard, drain_progress
  <2> QED BY <2>1, UntouchedKeeps DEF loopVars, BatchInv, BatchTypeOK
<1>9. CASE request_cancel \/ close_window
  <2>1. /\ cancel' \in {cancel, cancel \/ batch = thread}
        /\ UNCHANGED <<outputVars, batch, posted, surface, plan, step, interrupted, job,
                       records, inputs, failure, status, ended>>
    BY <1>9 DEF request_cancel, close_window
  <2>2. cancel' \in BOOLEAN /\ (cancel => cancel')
    BY <2>1 DEF BatchInv, BatchTypeOK
  <2> QED BY <2>1, <2>2, UntouchedKeeps DEF BatchInv, BatchTypeOK
<1>10. CASE \/ adopt \/ add_preset \/ poll_result \/ load_history \/ clear_history
            \/ \E p \in Plan : review(p)
  <2>1. UNCHANGED <<outputVars, batchVars>>
    BY <1>10 DEF adopt, add_preset, poll_result, load_history, clear_history, review
  <2> QED BY <2>1, UntouchedKeeps DEF batchVars, loopVars, BatchInv, BatchTypeOK
<1> QED
  BY <1>2, <1>3, <1>4, <1>5, <1>6, <1>7, <1>8, <1>9, <1>10 DEF Next

(***************************************************************************)
(* The page                                                                *)
(***************************************************************************)

PageTypeOK ==
    /\ gui \in {"ready", "drained"}
    /\ thread \in Publisher \cup {Nobody}
    /\ mailbox \in Publisher \cup {Nobody}
    /\ shown \in Publisher \cup {Nobody}
    /\ project \in {"none", "saved", "dirty"}
    /\ Selection
    /\ history \subseteq Publisher
    /\ closing \in BOOLEAN /\ closed \in BOOLEAN
    /\ reported \in [Publisher -> Report]

\* where the page's batch is while the page holds its thread
Held ==
    /\ Running => (surface = "dashboard" <=> batch = thread)
    /\ busy /\ batch # thread => stage[thread] \in {"returned", "raised"}
    /\ busy => posted \in {Nobody, thread}

PageInv == PageTypeOK /\ ResultReachesItsBatch /\ Held

\* An operation that is over stays as it ended, and an output its owner's.
LEMMA OverStays ==
  ASSUME OutputInv, Next
  PROVE  /\ \A b \in Publisher : stage[b] \in Over => stage'[b] = stage[b]
         /\ owner' = owner \/ owner = Nobody
<1>1. CASE UNCHANGED outputVars
  BY <1>1 DEF outputVars
<1>2. CASE Running /\ (PublishDirectory(batch) \/ Die(batch))
  BY <1>2 DEF PublishDirectory, Die, Look, MakeStaging, WriteLast, GiveUp, Rename, Answer,
              Discard, Goto, MoveTakes, Over, OutputInv, OutputTypeOK
<1> QED BY <1>1, <1>2, StepsPublish

\* What the page shows of the runs on disk is there.
LEMMA HistoryStays ==
  ASSUME PageInv, owner' = owner \/ owner = Nobody
  PROVE  history \subseteq {owner'}
BY NobodyAssumption DEF PageInv, PageTypeOK, ResultReachesItsBatch

\* The steps of the batch and of the command line leave the page alone; only
\* the progress they post may be new.
LEMMA BackgroundKeepsPage ==
  ASSUME BatchInv, PageInv, OutputInv, OutputTypeOK', Next,
         UNCHANGED workspaceVars,
         \/ batch' = batch /\ surface' = surface
         \/ batch' = Nobody /\ surface = "cli" /\ Running
         \/ batch = Nobody /\ surface' = "cli" /\ batch' \in Publisher /\ stage[batch'] = "idle",
         posted' = posted \/ (Running /\ surface = "dashboard" /\ posted' = batch)
  PROVE  PageInv'
<1>1. /\ \A b \in Publisher : stage[b] \in Over => stage'[b] = stage[b]
      /\ history' \subseteq {owner'}
  BY OverStays, HistoryStays DEF workspaceVars
<1>2. PageTypeOK'
  BY DEF PageInv, PageTypeOK, Selection, workspaceVars
<1>3. Held'
  BY <1>1 DEF PageInv, PageTypeOK, Held, busy, Running, workspaceVars, Over
<1>4. ResultReachesItsBatch'
  BY <1>1 DEF PageInv, PageTypeOK, Held, ResultReachesItsBatch, busy, Running, workspaceVars, Over
<1> QED BY <1>2, <1>3, <1>4 DEF PageInv

\* deliver: the result of the thread is in the mailbox when it ends.
LEMMA DeliverKeepsPage ==
  ASSUME BatchInv, PageInv, deliver
  PROVE  PageInv'
<1> USE NobodyAssumption DEF PageInv, PageTypeOK, Selection, Held, ResultReachesItsBatch, busy
<1>1. /\ Running /\ surface = "dashboard" /\ stage[batch] \in {"returned", "raised"}
      /\ mailbox' = batch /\ batch' = Nobody
      /\ UNCHANGED <<outputVars, posted, gui, thread, shown, project, reviewed, history,
                     closing, closed, reported>>
  BY DEF deliver, BatchOver, Forgotten
<1>2. batch \in Publisher
  BY <1>1 DEF BatchInv, BatchTypeOK, Running
<1> QED BY <1>1, <1>2 DEF outputVars, Running

\* run: a thread for a new batch, with empty mailboxes.
LEMMA RunKeepsPage ==
  ASSUME BatchInv, PageInv, NEW b \in Publisher, run(b)
  PROVE  PageInv'
<1> USE NobodyAssumption DEF PageInv, PageTypeOK, Selection, Held, ResultReachesItsBatch, busy, Report
<1>1. /\ thread = Nobody /\ mailbox = Nobody /\ ~closed
      /\ reviewed' = <<>> /\ shown' = Nobody /\ posted' = Nobody
      /\ UNCHANGED <<gui, mailbox, project, history, closing, closed>>
  BY DEF run, Idle, Handler
<1>2. CASE /\ Start(b, "dashboard", reviewed)
           /\ thread' = b
           /\ reported' = [reported EXCEPT ![b] = "started"]
  <2>1. batch' = b /\ surface' = "dashboard" /\ UNCHANGED outputVars
    BY <1>2 DEF Start
  <2> QED BY <1>1, <1>2, <2>1 DEF outputVars, Running
<1>3. CASE UNCHANGED <<outputVars, batch, loopVars, thread, reported>>
  BY <1>1, <1>3 DEF outputVars, loopVars, Running
<1> QED BY <1>2, <1>3 DEF run

\* poll: the thread that ended left its result, and it is reported as the
\* operation ended.
LEMMA PollKeepsPage ==
  ASSUME BatchInv, PageInv, OutputInv, poll_result
  PROVE  PageInv'
<1> USE NobodyAssumption DEF PageInv, PageTypeOK, Selection, Held, ResultReachesItsBatch, busy, Report
<1>1. /\ gui' = "ready"
      /\ UNCHANGED <<outputVars, batchVars, shown, project, reviewed>>
  BY DEF poll_result
<1>2. CASE ~busy \/ batch = thread
  BY <1>1, <1>2 DEF poll_result, outputVars, batchVars, loopVars, Running
<1>3. CASE busy /\ batch # thread
  <2>1. /\ thread \in Publisher /\ mailbox = thread
        /\ stage[thread] \in {"returned", "raised"}
    BY <1>3
  <2>2. /\ thread' = Nobody /\ mailbox' = Nobody
        /\ reported' = [reported EXCEPT ![thread] = stage[thread]]
        /\ history' = history \cup {b \in {thread} : stage[b] = "returned"}
        /\ closing' = FALSE
        /\ closed' \in BOOLEAN
    BY <1>3, <2>1 DEF poll_result
  <2>3. stage[thread] = "returned" => owner = thread
    BY <2>1 DEF OutputInv
  <2>4. history' \subseteq {owner} /\ history' \subseteq Publisher
    BY <2>1, <2>2, <2>3
  <2>5. PageTypeOK'
    BY <1>1, <2>2, <2>4, <2>1
  <2>6. Held'
    BY <1>1, <1>3, <2>2 DEF outputVars, batchVars, loopVars, Running
  <2>7. \A b \in Publisher : reported'[b] # "started"
    BY <2>1, <2>2
  <2>8. \A b \in Publisher :
           reported'[b] \in {"returned", "raised"} => reported'[b] = stage[b]
    BY <2>1, <2>2
  <2>9. ResultReachesItsBatch'
    BY <1>1, <2>2, <2>4, <2>7, <2>8 DEF outputVars
  <2> QED BY <2>5, <2>6, <2>9
<1> QED BY <1>2, <1>3

\* The process of the Dashboard begins and ends with an empty page.
LEMMA FreshKeepsPage ==
  ASSUME BatchInv, PageInv, open_dashboard \/ dashboard_dies
  PROVE  PageInv'
<1> USE NobodyAssumption DEF PageInv, PageTypeOK, Selection, Held, ResultReachesItsBatch, busy, Report, Fresh
<1>1. Fresh /\ closed' \in BOOLEAN
  BY DEF open_dashboard, dashboard_dies
<1>2. \/ batch' = batch /\ surface' = surface /\ ~(Running /\ surface = "dashboard")
      \/ batch' = Nobody
  BY DEF open_dashboard, dashboard_dies, Forgotten, loopVars, Running
<1>3. Running /\ surface # "dashboard" => batch # Nobody
  BY DEF Running
<1> QED BY <1>1, <1>2, <1>3 DEF Running

\* The other handlers: none of them touches the thread, its mailbox or the path.
LEMMA HandlersKeepPage ==
  ASSUME BatchInv, PageInv, OutputInv,
         \/ adopt \/ add_preset \/ request_cancel \/ drain_progress \/ load_history
         \/ clear_history \/ close_window \/ \E p \in Plan : review(p)
  PROVE  PageInv'
<1> USE NobodyAssumption DEF PageInv, PageTypeOK, Selection, Held, ResultReachesItsBatch, busy, Idle, Handler
<1>1. CASE adopt \/ add_preset \/ request_cancel \/ \E p \in Plan : review(p)
  BY <1>1 DEF adopt, add_preset, request_cancel, review, outputVars, batchVars, loopVars,
              workspaceVars, Running
<1>2. CASE drain_progress
  BY <1>2 DEF drain_progress, outputVars, loopVars, Running, BatchInv, BatchTypeOK
<1>3. CASE load_history \/ clear_history
  <2>1. target = "whole" => owner \in Publisher
    BY DEF OutputInv, OutputTypeOK, Alien
  <2> QED BY <1>3, <2>1 DEF load_history, clear_history, outputVars, batchVars, loopVars, Running
<1>4. CASE close_window
  <2>1. /\ closed' \in BOOLEAN /\ closing' \in BOOLEAN /\ (closed' => ~busy)
        /\ UNCHANGED <<outputVars, batch, posted, surface, gui, thread, mailbox, shown,
                       project, reviewed, history, reported>>
    BY <1>4 DEF close_window
  <2>2. PageTypeOK'
    BY <2>1
  <2>3. Held' /\ ResultReachesItsBatch'
    BY <2>1 DEF outputVars, Running
  <2> QED BY <2>2, <2>3
<1> HIDE DEF PageInv, PageTypeOK, Selection, Held, ResultReachesItsBatch, busy, Idle, Handler
<1> QED BY <1>1, <1>2, <1>3, <1>4

Background ==
    \/ BatchStep \/ cli_dies
    \/ (JobEnds \/ InterruptWait \/ Fail \/ CliExits) /\ UNCHANGED workspaceVars
    \/ \E b \in Publisher : RunFromCli(b) /\ UNCHANGED workspaceVars

\* A step of the batch or of the command line, as the page sees it.
LEMMA BackgroundSteps ==
  ASSUME Background
  PROVE  /\ UNCHANGED workspaceVars
         /\ \/ batch' = batch /\ surface' = surface
            \/ batch' = Nobody /\ surface = "cli" /\ Running
            \/ /\ batch = Nobody /\ surface' = "cli" /\ batch' \in Publisher
               /\ stage[batch'] = "idle"
         /\ posted' = posted \/ (Running /\ surface = "dashboard" /\ posted' = batch)
<1>1. CASE BatchStep
  BY <1>1 DEF BatchStep, BatchThread, Prepared, CheckCancel, PrepareJob, PreparationFails,
              StartJob, CancelJob, JoinTimeout, RecordJob, WriteManifest, MoveIntoPlace,
              Finish, DiscardStaging, At, Post, batchVars, loopVars
<1>2. CASE (JobEnds \/ InterruptWait \/ Fail) /\ UNCHANGED workspaceVars
  BY <1>2 DEF JobEnds, InterruptWait, Fail
<1>3. CASE cli_dies \/ (CliExits /\ UNCHANGED workspaceVars)
  BY <1>3 DEF cli_dies, CliExits, BatchOver, Forgotten, Running
<1>4. CASE \E b \in Publisher : RunFromCli(b) /\ UNCHANGED workspaceVars
  BY <1>4 DEF RunFromCli, Start
<1> QED BY <1>1, <1>2, <1>3, <1>4 DEF Background

LEMMA PageKeeps ==
  ASSUME BatchInv, PageInv, OutputInv, OutputInv', Next
  PROVE  PageInv'
<1>1. CASE Background
  BY <1>1, BackgroundSteps, BackgroundKeepsPage DEF OutputInv
<1> QED
  BY <1>1, DeliverKeepsPage, RunKeepsPage, PollKeepsPage, FreshKeepsPage, HandlersKeepPage
     DEF Next, Background

(***************************************************************************)
(* The books of the batch and the page's knowledge of it, together, are an *)
(* invariant of the system for every project and any number of batches.    *)
(***************************************************************************)
THEOREM WorkspaceInvariant == Spec => [](BatchInv /\ PageInv)
<1>1. Init => BatchInv /\ PageInv
  <2> SUFFICES ASSUME Init
               PROVE  BatchInv /\ PageInv
    OBVIOUS
  <2>1. BatchInv
    BY EmptySeq DEF Init, BatchInit, OutputInit, BatchInv, BatchTypeOK, OutputTypeOK, Kind,
         Alien, Staged, Stage, Step, Job, Status, Running, Good, At
  <2>2. PageInv
    BY DEF Init, BatchInit, PageInv, PageTypeOK, Selection, Held, ResultReachesItsBatch,
         Report, busy, Running
  <2> QED BY <2>1, <2>2
<1>2. (BatchInv /\ PageInv) /\ OutputInv /\ OutputInv' /\ [Next]_vars => (BatchInv /\ PageInv)'
  <2> SUFFICES ASSUME BatchInv, PageInv, OutputInv, OutputInv', [Next]_vars
               PROVE  BatchInv' /\ PageInv'
    OBVIOUS
  <2>1. CASE Next
    BY <2>1, BatchKeeps, PageKeeps DEF PageInv, PageTypeOK
  <2>2. CASE UNCHANGED vars
    <3>1. UNCHANGED <<outputVars, batchVars, workspaceVars>>
      BY <2>2 DEF vars
    <3>2. BatchInv'
      BY <3>1, UntouchedKeeps DEF batchVars, loopVars, BatchInv, BatchTypeOK
    <3>3. PageInv'
      BY <3>1 DEF PageInv, PageTypeOK, Selection, Held, ResultReachesItsBatch, busy, Running,
           outputVars, batchVars, loopVars, workspaceVars
    <3> QED BY <3>2, <3>3
  <2> QED BY <2>1, <2>2
<1> QED BY <1>1, <1>2, PathInvariant, PTL DEF Spec

(***************************************************************************)
(* Types, of the publishers, the loop and the page.                        *)
(***************************************************************************)
THEOREM WorkspaceTypeCorrect == Spec => []WorkspaceTypeOK
<1>1. BatchInv /\ PageInv => WorkspaceTypeOK
  BY DEF BatchInv, PageInv, PageTypeOK, Selection, WorkspaceTypeOK
<1> QED BY <1>1, WorkspaceInvariant, PTL

(***************************************************************************)
(* The manifest of every run says what happened to each planned preset,    *)
(* for every project, selection and interleaving of requests and Ctrl+C.   *)
(***************************************************************************)
THEOREM ManifestsAreTrue == Spec => []ManifestIsTrue
<1>1. BatchInv => ManifestIsTrue
  BY ManifestFollows
<1> QED BY <1>1, WorkspaceInvariant, PTL

(***************************************************************************)
(* The result of a batch reaches the page that started it, and no other,   *)
(* for any number of batches and deaths.                                   *)
(***************************************************************************)
THEOREM ResultsReachTheirBatch == Spec => []ResultReachesItsBatch
<1>1. BatchInv /\ PageInv => ResultReachesItsBatch
  BY DEF PageInv
<1> QED BY <1>1, WorkspaceInvariant, PTL

================================================================================
