----------------------------- MODULE DashboardProofs -----------------------------
(***************************************************************************)
(* The Dashboard implements the contract of the worker it drives, so what  *)
(* is proved of every caller of the worker holds of the Dashboard.         *)
(***************************************************************************)
EXTENDS Dashboard, ProductJobWorkerProofs

\* A page action never touches the worker.
LEMMA PagesLeaveWorkerAlone == PageStep => UNCHANGED vars
  BY DEF PageStep, PageOnly, SelectSource, SelectProfileOrJob, NextPage, Back, BackFromReview,
     LoadPreset, PrepareReview, PrepareReviewFails, ModifySetup, ReviewSameSetup, StartNewTest,
     ExportResult, ExportFails

\* A caller step of the GUI thread is a step of the worker's specification.
LEMMA GuiStepIsWorkerStep == CallerStep(Gui) => Next
  BY GuiAssumption DEF Next

\* The polls drain the queue or leave the worker alone.
LEMMA PollUsesWorker == Tick \/ PollStep => [Next]_vars
<1>1. PollEvents => [Next]_vars
  BY GuiStepIsWorkerStep DEF PollEvents, CallerStep
<1>2. Tick \/ PollState \/ PollResult \/ PollIssue => UNCHANGED vars
  BY DEF Tick, PollState, PollResult, PollIssue
<1> QED BY <1>1, <1>2 DEF PollStep

\* Run, Cancel and Close use start, request_cancel and close.
LEMMA RunUsesWorker == RunStep => [Next]_vars
<1>1. RunPressed \/ CancelPressed => UNCHANGED vars
  BY DEF RunPressed, CancelPressed
<1>2. StartJob \/ StartJobFails => [Next]_vars
  BY GuiStepIsWorkerStep DEF StartJob, StartJobFails, CallerStep
<1>3. CancelJob \/ ClosePressed => [Next]_vars
  BY GuiStepIsWorkerStep DEF CancelJob, ClosePressed, CallerStep
<1>4. CloseGoesOn \/ CloseTimesOut => [Next]_vars
  BY GuiStepIsWorkerStep DEF CloseGoesOn, CloseTimesOut, CallerStep
<1> QED BY <1>1, <1>2, <1>3, <1>4 DEF RunStep

\* The services take the steps of the worker's job threads.
LEMMA ServiceUsesWorker ==
  ASSUME NEW j \in Job, PublishOutput(j) \/ ServiceStep(j)
  PROVE  [Next]_vars
<1>1. PublishOutput(j) => UNCHANGED vars
  BY DEF PublishOutput
<1>2. ServiceStep(j) => Next
  BY DEF ServiceStep, Next
<1> QED BY <1>1, <1>2

\* Every behaviour of the Dashboard is a behaviour of the worker as its
\* specification allows: the GUI thread changes the worker through its
\* operations only, each from a state in which it may be called.
THEOREM DashboardUsesWorkerAsSpecified == DashSpec => UsesWorkerAsSpecified
<1>1. DashInit => Init
  BY DEF DashInit
<1>2. [DashNext]_dashVars => [Next]_vars
  <2>1. CASE UNCHANGED dashVars
    BY <2>1 DEF dashVars
  <2>2. CASE PageStep
    BY <2>2, PagesLeaveWorkerAlone
  <2>3. CASE Tick \/ PollStep
    BY <2>3, PollUsesWorker
  <2>4. CASE RunStep
    BY <2>4, RunUsesWorker
  <2>5. CASE \E j \in Job : PublishOutput(j) \/ ServiceStep(j)
    BY <2>5, ServiceUsesWorker
  <2> QED BY <2>1, <2>2, <2>3, <2>4, <2>5 DEF DashNext
<1> QED BY <1>1, <1>2, PTL DEF DashSpec, UsesWorkerAsSpecified, Spec

(***************************************************************************)
(* The export.  The strengthening follows the reviewed job through Run: it *)
(* is the next job until it is started, and the worker's last one from     *)
(* then on, and only the Run page's own poll may end the run.              *)
(***************************************************************************)

Polling == gpc \in {"poll", "state", "result", "issue"}

\* The worker is about to be started with the reviewed job.
BeforeStart == gpc = "start" \/ (Polling /\ caller = "first")

\* The worker was started and the Run page is about to be shown.
AfterStart == Polling /\ caller = "second"

\* The reviewed job, page by page.
ReviewedJob ==
    /\ step = "REVIEW" /\ ~wizardIssue /\ ~AfterStart /\ gpc # "raised" => prepared \in {0, owner + 1}
    /\ BeforeStart \/ AfterStart => step = "REVIEW" /\ ~wizardIssue
    /\ BeforeStart => prepared # 0
    /\ AfterStart => prepared = owner
    /\ step \in {"RUN", "RESULT"} => prepared = owner
    /\ Polling /\ caller = "tick" => step = "RUN"

ExportInv == ReviewedJob /\ ExportIsOfThisRun

\* No job thread changes which job the worker owns.
LEMMA JobKeepsOwner ==
  ASSUME NEW j \in Job, JobStep(j)
  PROVE  owner' = owner
  BY DEF JobStep, FactoryReturns, FactoryFails, BeginRun, Progress, RunReturns, RunRaises,
         Cleanup, FinishJob, SetCompletion, ownerVars

\* Of the operations the Dashboard calls, only start changes it.
LEMMA CallsKeepOwner ==
  ASSUME \/ RequestCancel(Gui) \/ DrainEvents(Gui) \/ CallClose(Gui) \/ CallerCancels(Gui)
         \/ JoinSnapshot(Gui) \/ JoinDeadline(Gui) \/ JoinCompleted(Gui)
  PROVE  owner' = owner
  BY DEF RequestCancel, DrainEvents, CallClose, CallerCancels, JoinSnapshot, JoinDeadline,
         JoinCompleted, ownerVars

\* start gives the worker the next job.
LEMMA StartTakesNextJob ==
  ASSUME Start(Gui) \/ StartFails(Gui)
  PROVE  owner' = owner + 1
  BY DEF Start, StartFails, Accept

\* Nothing is exportable and nothing runs when the window opens.
LEMMA ExportInit ==
  ASSUME DashInit
  PROVE  ExportInv
  BY DEF DashInit, Init, ExportInv, ReviewedJob, ExportIsOfThisRun, BeforeStart, AfterStart, Polling

\* A service publishes into its own slot, once: an analysis stays one.
LEMMA ServiceKeepsExport ==
  ASSUME ExportInv, NEW j \in Job, PublishOutput(j) \/ ServiceStep(j),
         slot \in [Job -> Output]
  PROVE  ExportInv'
<1>1. owner' = owner /\ UNCHANGED guiVars
  BY JobKeepsOwner DEF PublishOutput, ServiceStep, vars, ownerVars
<1>2. bundle # 0 => slot'[bundle] = "analysis"
  <2>1. CASE ServiceStep(j)
    BY <2>1 DEF ExportInv, ExportIsOfThisRun, ServiceStep
  <2>2. CASE PublishOutput(j) /\ bundle # 0
    <3>1. slot[bundle] = "analysis" /\ slot[j] = "empty"
      BY <2>2 DEF ExportInv, ExportIsOfThisRun, PublishOutput
    <3>2. PICK output \in Output : slot' = [slot EXCEPT ![j] = output]
      BY <2>2 DEF PublishOutput
    <3> QED BY <3>1, <3>2
  <2> QED BY <2>1, <2>2
<1> QED
  BY <1>1, <1>2 DEF ExportInv, ReviewedJob, ExportIsOfThisRun, BeforeStart, AfterStart, Polling,
     guiVars, wizardVars, appVars, loopVars

\* A page action runs at rest and leaves the reviewed job next in line.
LEMMA PagesKeepExport ==
  ASSUME ExportInv, PageStep
  PROVE  ExportInv'
<1>1. gpc = "idle" /\ gpc' = "idle" /\ owner' = owner /\ slot' = slot
  BY DEF PageStep, PageOnly, Idle, loopVars, vars, ownerVars, SelectSource, SelectProfileOrJob,
     NextPage, Back, BackFromReview, LoadPreset, PrepareReview, PrepareReviewFails, ModifySetup,
     ReviewSameSetup, StartNewTest, ExportResult, ExportFails
<1>2. CASE SelectSource \/ Back \/ BackFromReview \/ LoadPreset \/ ModifySetup \/ StartNewTest
  BY <1>1, <1>2 DEF ExportInv, ReviewedJob, ExportIsOfThisRun, BeforeStart, AfterStart, Polling,
     SelectSource, Back, BackFromReview, LoadPreset, ModifySetup, StartNewTest, Visit,
     ResetPrepared, appVars
<1>3. CASE SelectProfileOrJob \/ NextPage \/ PrepareReviewFails
  BY <1>1, <1>3 DEF ExportInv, ReviewedJob, ExportIsOfThisRun, BeforeStart, AfterStart, Polling,
     SelectProfileOrJob, NextPage, PrepareReviewFails, ResetPrepared, appVars
<1>4. CASE PrepareReview \/ ReviewSameSetup
  BY <1>1, <1>4 DEF ExportInv, ReviewedJob, ExportIsOfThisRun, BeforeStart, AfterStart, Polling,
     PrepareReview, ReviewSameSetup, Reviewed
<1>5. CASE ExportResult \/ ExportFails
  BY <1>1, <1>5 DEF ExportInv, ReviewedJob, ExportIsOfThisRun, BeforeStart, AfterStart, Polling,
     ExportResult, ExportFails, appVars
<1> QED BY <1>2, <1>3, <1>4, <1>5 DEF PageStep

\* A poll that a tick called ends the run with the reviewed job's own output.
LEMMA PollKeepsExport ==
  ASSUME ExportInv, Tick \/ PollStep
  PROVE  ExportInv'
<1>1. owner' = owner /\ slot' = slot
  BY CallsKeepOwner DEF Tick, PollStep, PollEvents, PollState, PollResult, PollIssue, vars, ownerVars
<1>2. CASE Tick
  BY <1>1, <1>2 DEF ExportInv, ReviewedJob, ExportIsOfThisRun, BeforeStart, AfterStart, Polling,
     Tick, Poll, Idle, wizardVars, appVars
<1>3. CASE PollEvents \/ PollState \/ PollResult
  <2>1. Polling /\ caller' = caller /\ (Polling' \/ gpc' = "raised")
    BY <1>3 DEF Polling, PollEvents, PollState, PollResult
  <2>2. /\ step' = step /\ wizardIssue' = wizardIssue /\ exportable' = exportable
        /\ prepared' = prepared /\ bundle' = bundle
    BY <1>3 DEF PollEvents, PollState, PollResult, wizardVars, appVars
  <2> QED
    BY <1>1, <2>1, <2>2 DEF ExportInv, ReviewedJob, ExportIsOfThisRun, BeforeStart, AfterStart,
       Polling
<1>4. CASE PollIssue /\ RunEnded
  BY <1>1, <1>4 DEF ExportInv, ReviewedJob, ExportIsOfThisRun, BeforeStart, AfterStart, Polling,
     PollIssue, RunEnded, FinishRun, HasAnalysis
<1>5. CASE PollIssue /\ ~RunEnded /\ caller = "second"
  BY <1>1, <1>5 DEF ExportInv, ReviewedJob, ExportIsOfThisRun, BeforeStart, AfterStart, Polling,
     PollIssue, BeginRunPage, appVars
<1>6. CASE PollIssue /\ ~RunEnded /\ caller # "second"
  BY <1>1, <1>6 DEF ExportInv, ReviewedJob, ExportIsOfThisRun, BeforeStart, AfterStart, Polling,
     PollIssue, wizardVars, appVars
<1> QED BY <1>2, <1>3, <1>4, <1>5, <1>6 DEF PollStep

\* Run starts the reviewed job from the Review page, where nothing is held.
LEMMA RunKeepsExport ==
  ASSUME ExportInv, RunStep, owner \in Nat
  PROVE  ExportInv'
<1>1. CASE StartJob
  <2>1. owner' = owner + 1
    BY <1>1, StartTakesNextJob DEF StartJob
  <2>2. step = "REVIEW" /\ ~wizardIssue /\ bundle = 0 /\ ~exportable
    BY <1>1 DEF StartJob, ExportInv, ReviewedJob, ExportIsOfThisRun, BeforeStart
  <2> QED
    BY <1>1, <2>1, <2>2 DEF StartJob, Poll, ExportInv, ReviewedJob, ExportIsOfThisRun,
       BeforeStart, AfterStart, Polling, wizardVars, appVars
<1>2. CASE StartJobFails
  <2>1. step = "REVIEW" /\ bundle = 0 /\ ~exportable
    BY <1>2 DEF StartJobFails, ExportInv, ReviewedJob, ExportIsOfThisRun, BeforeStart
  <2> QED
    BY <1>2, <2>1 DEF StartJobFails, Done, ExportInv, ReviewedJob, ExportIsOfThisRun,
       BeforeStart, AfterStart, Polling, appVars
<1>3. CASE RunPressed \/ CancelPressed \/ CancelJob \/ ClosePressed \/ CloseGoesOn \/ CloseTimesOut
  <2>1. owner' = owner
    BY <1>3, CallsKeepOwner DEF RunPressed, CancelPressed, CancelJob, ClosePressed, CloseGoesOn,
       CloseTimesOut, vars, ownerVars
  <2>2. UNCHANGED <<slot, wizardVars, appVars>>
    BY <1>3 DEF RunPressed, CancelPressed, CancelJob, ClosePressed, CloseGoesOn, CloseTimesOut
  <2> QED
    BY <1>3, <2>1, <2>2 DEF ExportInv, ReviewedJob, ExportIsOfThisRun, BeforeStart, AfterStart,
       Polling, RunPressed, CancelPressed, CancelJob, ClosePressed, CloseGoesOn, CloseTimesOut,
       Poll, Idle, wizardVars, appVars, loopVars
<1> QED BY <1>1, <1>2, <1>3 DEF RunStep

\* What is published stays in its slot.
LEMMA SlotType ==
  ASSUME slot \in [Job -> Output], DashNext
  PROVE  slot' \in [Job -> Output]
<1>1. CASE \E j \in Job : PublishOutput(j)
  BY <1>1 DEF PublishOutput
<1>2. CASE UNCHANGED slot
  BY <1>2
<1>3. ASSUME ~(\E j \in Job : PublishOutput(j))
      PROVE  UNCHANGED slot
  <2>1. PageStep => UNCHANGED slot
    BY DEF PageStep, PageOnly, SelectSource, SelectProfileOrJob, NextPage, Back, BackFromReview,
       LoadPreset, PrepareReview, PrepareReviewFails, ModifySetup, ReviewSameSetup, StartNewTest,
       ExportResult, ExportFails
  <2>2. Tick \/ PollStep \/ RunStep => UNCHANGED slot
    BY DEF Tick, PollStep, PollEvents, PollState, PollResult, PollIssue, RunStep, RunPressed,
       StartJob, StartJobFails, CancelPressed, CancelJob, ClosePressed, CloseGoesOn, CloseTimesOut
  <2> QED BY <1>3, <2>1, <2>2 DEF DashNext, ServiceStep
<1> QED BY <1>1, <1>2, <1>3

\* The strengthening holds in every reachable state, interrupted starts or not.
THEOREM ExportInvariant == DashSpec => []ExportInv
<1> DEFINE Inv == ExportInv /\ slot \in [Job -> Output]
<1>1. DashInit => Inv
  BY ExportInit DEF DashInit, Output
<1>2. ASSUME Inv, TypeInv, [DashNext]_dashVars
      PROVE  Inv'
  <2>1. owner \in Nat
    BY <1>2, WorkerAssumption DEF TypeInv, TypeOK, OwnerType
  <2>2. CASE UNCHANGED dashVars
    BY <1>2, <2>2 DEF dashVars, guiVars, wizardVars, appVars, loopVars, vars, ownerVars,
       ExportInv, ReviewedJob, ExportIsOfThisRun, BeforeStart, AfterStart, Polling
  <2>3. CASE DashNext
    BY <1>2, <2>1, <2>3, SlotType, ServiceKeepsExport, PagesKeepExport, PollKeepsExport,
       RunKeepsExport DEF DashNext
  <2> QED BY <1>2, <2>2, <2>3
<1>3. Inv => ExportInv
  OBVIOUS
<1>4. Spec => []TypeInv
  BY TypeInvariant
<1>5. DashSpec => Spec
  BY DashboardUsesWorkerAsSpecified DEF UsesWorkerAsSpecified
<1> QED BY <1>1, <1>2, <1>3, <1>4, <1>5, PTL DEF DashSpec

\* An export is only ever offered on the Result page and for an analysis of
\* the job the worker ran last, which is the job the user reviewed.
THEOREM ExportBelongsToReviewedRun == DashSpec => []ExportIsOfThisRun
<1>1. ExportInv => ExportIsOfThisRun
  BY DEF ExportInv
<1> QED BY <1>1, ExportInvariant, PTL

(***************************************************************************)
(* Types.                                                                  *)
(***************************************************************************)

\* What the presenter takes over from a drained queue is an event.
LEMMA DrainedIsEvent ==
  ASSUME TypeInv, DashTypeOK
  PROVE  (IF events = <<>> THEN Attached ELSE events[Len(events)]) \in Event
<1>1. events \in Seq(Event) /\ owner \in 0..MaxJobs
  BY DEF TypeInv, TypeOK, EventType, OwnerType
<1>2. Attached \in Event
  BY <1>1 DEF Attached, DashTypeOK, Event, State, Active
<1>3. events # <<>> => events[Len(events)] \in Event
  <2>1. events # <<>> => Len(events) \in 1..Len(events)
    BY <1>1, LenProperties, EmptySeq
  <2> QED BY <1>1, <2>1, ElementOfSeq
<1> QED BY <1>2, <1>3

\* The panel of a poll is a panel.
LEMMA PanelTypes ==
  ASSUME TypeInv, DashTypeOK
  PROVE  /\ SnapshotPanel \in [job : 0..MaxJobs, status : Status \cup {"none"}, issue : BOOLEAN]
         /\ \A j \in 0..MaxJobs : ReportPanel(j)
              \in [job : 0..MaxJobs, status : Status \cup {"none"}, issue : BOOLEAN]
         /\ EmptyPanel \in [job : 0..MaxJobs, status : Status \cup {"none"}, issue : BOOLEAN]
         /\ NothingShown \in Event
         /\ NothingSeen \in [state : State, result : Status \cup {"none"}]
<1>1. owner \in 0..MaxJobs /\ issue \in BOOLEAN /\ MaxJobs \in Nat
  BY WorkerAssumption DEF TypeInv, TypeOK, OwnerType
<1>2. SnapshotPanel \in [job : 0..MaxJobs, status : Status \cup {"none"}, issue : BOOLEAN]
  BY <1>1 DEF SnapshotPanel, DashTypeOK
<1> QED
  BY <1>1, <1>2 DEF ReportPanel, ReturnedStatus, EmptyPanel, NothingShown, NothingSeen,
     Status, Event, State

\* The window opens with the types.
LEMMA DashTypeInit ==
  ASSUME DashInit
  PROVE  DashTypeOK
<1>1. 0 \in 0..MaxJobs /\ slot \in [Job -> Output]
  BY WorkerAssumption DEF DashInit, Output
<1>2. shown \in Event
  BY <1>1 DEF DashInit, NothingShown, Event, State
<1>3. panel \in [job : 0..MaxJobs, status : Status \cup {"none"}, issue : BOOLEAN]
  BY <1>1 DEF DashInit, EmptyPanel
<1>4. seen \in [state : State, result : Status \cup {"none"}]
  BY DEF DashInit, NothingSeen, State
<1> QED
  BY <1>1, <1>2, <1>3, <1>4 DEF DashInit, DashTypeOK, Step, Purpose

\* Pages move between steps and name the next job.
LEMMA PagesKeepTypes ==
  ASSUME TypeInv, DashTypeOK, PageStep
  PROVE  DashTypeOK'
<1>1. UNCHANGED <<slot, windowClosed, loopVars>> /\ owner \in 0..MaxJobs /\ MaxJobs \in Nat
  BY WorkerAssumption DEF TypeInv, TypeOK, OwnerType, PageStep, PageOnly, SelectSource,
     SelectProfileOrJob, NextPage, Back, BackFromReview, LoadPreset, PrepareReview,
     PrepareReviewFails, ModifySetup, ReviewSameSetup, StartNewTest, ExportResult, ExportFails
<1>2. CASE SelectSource \/ Back \/ LoadPreset \/ ModifySetup \/ StartNewTest \/ BackFromReview
  <2>1. step' \in Step /\ wizardIssue' \in BOOLEAN /\ exportable' \in BOOLEAN
    BY <1>2 DEF SelectSource, Back, LoadPreset, ModifySetup, StartNewTest, BackFromReview, Visit, Step
  <2>2. prepared' \in {0, prepared} /\ bundle' \in {0, bundle} /\ presented' \in {FALSE, presented}
    BY <1>2 DEF SelectSource, Back, LoadPreset, ModifySetup, StartNewTest, BackFromReview,
       ResetPrepared, appVars
  <2>3. prepared' \in 0..MaxJobs /\ bundle' \in 0..MaxJobs /\ presented' \in BOOLEAN
    <3>1. /\ prepared \in 0..MaxJobs /\ bundle \in 0..MaxJobs /\ presented \in BOOLEAN
          /\ 0 \in 0..MaxJobs
      BY <1>1 DEF DashTypeOK
    <3> QED BY <2>2, <3>1
  <2>4. shown' \in {shown, NothingShown, [shown EXCEPT !.job = 0]}
        /\ panel' \in {panel, EmptyPanel, [panel EXCEPT !.issue = TRUE]}
    BY <1>2 DEF SelectSource, Back, LoadPreset, ModifySetup, StartNewTest, BackFromReview,
       ClearView, ClearResult, viewVars
  <2>5. [shown EXCEPT !.job = 0] \in Event
    BY <1>1 DEF DashTypeOK, Event
  <2>6. /\ shown' \in Event
        /\ panel' \in [job : 0..MaxJobs, status : Status \cup {"none"}, issue : BOOLEAN]
    BY <2>4, <2>5, PanelTypes DEF DashTypeOK
  <2> QED BY <1>1, <2>1, <2>3, <2>6 DEF DashTypeOK, loopVars
<1>3. CASE PrepareReview \/ ReviewSameSetup
  <2>1. step' \in Step /\ wizardIssue' \in BOOLEAN /\ exportable' \in BOOLEAN
    BY <1>3 DEF PrepareReview, ReviewSameSetup, Reviewed, Step, DashTypeOK
  <2>2. prepared' = owner + 1 /\ owner < MaxJobs /\ bundle' = 0 /\ presented' = FALSE
    BY <1>3 DEF PrepareReview, ReviewSameSetup, Reviewed
  <2>3. /\ shown' \in Event
        /\ panel' \in [job : 0..MaxJobs, status : Status \cup {"none"}, issue : BOOLEAN]
    BY <1>3, PanelTypes DEF PrepareReview, ReviewSameSetup, Reviewed, ClearView
  <2>4. prepared' \in 0..MaxJobs /\ bundle' \in 0..MaxJobs
    BY <1>1, <2>2
  <2> QED BY <1>1, <2>1, <2>2, <2>3, <2>4 DEF DashTypeOK, loopVars
<1>4. CASE SelectProfileOrJob \/ NextPage \/ PrepareReviewFails
  <2>1. step' \in Step /\ wizardIssue' \in BOOLEAN /\ exportable' = exportable /\ shown' = shown
    BY <1>4 DEF SelectProfileOrJob, NextPage, PrepareReviewFails, Step, viewVars, DashTypeOK
  <2>2. panel' \in {panel, [panel EXCEPT !.issue = TRUE]}
    BY <1>4 DEF SelectProfileOrJob, NextPage, PrepareReviewFails, viewVars
  <2>3. prepared' \in {0, prepared} /\ bundle' \in {0, bundle} /\ presented' \in {FALSE, presented}
    BY <1>4 DEF SelectProfileOrJob, NextPage, PrepareReviewFails, ResetPrepared, appVars
  <2>4. prepared' \in 0..MaxJobs /\ bundle' \in 0..MaxJobs /\ presented' \in BOOLEAN
    <3>1. /\ prepared \in 0..MaxJobs /\ bundle \in 0..MaxJobs /\ presented \in BOOLEAN
          /\ 0 \in 0..MaxJobs
      BY <1>1 DEF DashTypeOK
    <3> QED BY <2>3, <3>1
  <2>5. panel' \in [job : 0..MaxJobs, status : Status \cup {"none"}, issue : BOOLEAN]
    BY <2>2 DEF DashTypeOK
  <2> QED BY <1>1, <2>1, <2>4, <2>5 DEF DashTypeOK, loopVars
<1>5. CASE ExportResult \/ ExportFails
  <2>1. panel' \in {ReportPanel(bundle), [panel EXCEPT !.issue = TRUE]} /\ bundle \in 0..MaxJobs
    BY <1>5 DEF ExportResult, ExportFails, DashTypeOK
  <2>2. wizardIssue' \in BOOLEAN /\ UNCHANGED <<step, exportable, appVars, shown>>
    BY <1>5 DEF ExportResult, ExportFails
  <2>3. panel' \in [job : 0..MaxJobs, status : Status \cup {"none"}, issue : BOOLEAN]
    <3>1. CASE panel' = ReportPanel(bundle)
      BY <2>1, <3>1, PanelTypes
    <3>2. CASE panel' = [panel EXCEPT !.issue = TRUE]
      BY <3>2 DEF DashTypeOK
    <3> QED BY <2>1, <3>1, <3>2
  <2> QED BY <1>1, <2>2, <2>3 DEF DashTypeOK, appVars, loopVars
<1> QED BY <1>2, <1>3, <1>4, <1>5 DEF PageStep

\* A poll copies typed state.
LEMMA PollKeepsTypes ==
  ASSUME TypeInv, DashTypeOK, Tick \/ PollStep
  PROVE  DashTypeOK'
<1>1. /\ state \in State /\ result \in Status \cup {"none"}
  BY DEF TypeInv, TypeOK, OwnerType
<1>2. CASE Tick
  BY <1>2 DEF Tick, Poll, DashTypeOK, Purpose, wizardVars, appVars, viewVars
<1>3. CASE PollEvents
  <2>1. shown' \in Event /\ gpc' \in {"state", "raised"}
    BY <1>3, DrainedIsEvent DEF PollEvents
  <2>2. panel' \in [job : 0..MaxJobs, status : Status \cup {"none"}, issue : BOOLEAN]
    BY <1>3, PanelTypes DEF PollEvents, DashTypeOK
  <2>3. UNCHANGED <<slot, wizardVars, appVars, windowClosed, caller, seen>>
    BY <1>3 DEF PollEvents
  <2> QED BY <2>1, <2>2, <2>3 DEF DashTypeOK, wizardVars, appVars
<1>4. CASE PollState \/ PollResult
  BY <1>1, <1>4 DEF PollState, PollResult, DashTypeOK, wizardVars, appVars, viewVars
<1>5. CASE PollIssue
  <2>1. shown' \in Event
    BY <1>5 DEF PollIssue, DashTypeOK, Event
  <2>2. gpc' \in {"start", "idle"} /\ windowClosed' \in BOOLEAN /\ seen' = NothingSeen
        /\ UNCHANGED <<slot, caller>>
    BY <1>5 DEF PollIssue
  <2>3. CASE RunEnded
    <3>1. FinishRun
      BY <1>5, <2>3 DEF PollIssue, RunEnded, FinishRun
    <3>2. prepared' = prepared /\ bundle' \in {0, prepared} /\ wizardIssue' = wizardIssue
          /\ presented' = TRUE /\ exportable' \in BOOLEAN /\ step' \in Step
      BY <3>1 DEF FinishRun, HasAnalysis, Step
    <3>3. panel' \in [job : 0..MaxJobs, status : Status \cup {"none"}, issue : BOOLEAN]
      BY <3>1, PanelTypes DEF FinishRun, DashTypeOK
    <3>4. prepared' \in 0..MaxJobs /\ bundle' \in 0..MaxJobs
      BY <3>2, WorkerAssumption DEF DashTypeOK
    <3> QED BY <2>1, <2>2, <3>2, <3>3, <3>4, PanelTypes DEF DashTypeOK
  <2>4. CASE ~RunEnded /\ caller = "second"
    <3>1. BeginRunPage
      BY <1>5, <2>4 DEF PollIssue, RunEnded, BeginRunPage
    <3>2. /\ panel' = SnapshotPanel /\ UNCHANGED appVars
          /\ step' \in {step, "RUN"} /\ wizardIssue' \in BOOLEAN /\ exportable' \in BOOLEAN
      BY <3>1 DEF BeginRunPage, DashTypeOK
    <3> QED BY <2>1, <2>2, <3>2, PanelTypes DEF DashTypeOK, Step, appVars
  <2>5. CASE ~RunEnded /\ caller # "second"
    <3>1. panel' = [SnapshotPanel EXCEPT !.issue = @ \/ caller = "timeout"]
          /\ UNCHANGED <<wizardVars, appVars>>
      BY <1>5, <2>5 DEF PollIssue
    <3>2. panel' \in [job : 0..MaxJobs, status : Status \cup {"none"}, issue : BOOLEAN]
      BY <3>1, PanelTypes
    <3> QED BY <2>1, <2>2, <3>1, <3>2, PanelTypes DEF DashTypeOK, wizardVars, appVars
  <2> QED BY <2>3, <2>4, <2>5
<1> QED BY <1>2, <1>3, <1>4, <1>5 DEF PollStep

\* Run, Cancel and Close move the GUI thread, the services their slots.
LEMMA OthersKeepTypes ==
  ASSUME DashTypeOK, DashNext, RunStep \/ \E j \in Job : PublishOutput(j) \/ ServiceStep(j)
  PROVE  DashTypeOK'
<1>1. slot' \in [Job -> Output]
  BY SlotType DEF DashTypeOK
<1>2. CASE RunPressed \/ CancelPressed \/ CancelJob \/ ClosePressed \/ CloseGoesOn
             \/ CloseTimesOut \/ StartJob
  <2>1. UNCHANGED <<wizardVars, appVars, viewVars, windowClosed>>
    BY <1>2 DEF RunPressed, CancelPressed, CancelJob, ClosePressed, CloseGoesOn, CloseTimesOut,
       StartJob
  <2>2. /\ gpc' \in {gpc, "start", "poll", "cancel", "closing"}
        /\ caller' \in {caller, "first", "second", "cancel", "closed", "timeout"}
        /\ seen' = seen
    BY <1>2 DEF RunPressed, CancelPressed, CancelJob, ClosePressed, CloseGoesOn, CloseTimesOut,
       StartJob, Poll, loopVars
  <2> QED BY <1>1, <2>1, <2>2 DEF DashTypeOK, Purpose, wizardVars, appVars, viewVars
<1>3. CASE StartJobFails
  BY <1>1, <1>3 DEF StartJobFails, Done, DashTypeOK, appVars
<1>4. CASE \E j \in Job : PublishOutput(j) \/ ServiceStep(j)
  <2>1. UNCHANGED guiVars
    BY <1>4 DEF PublishOutput, ServiceStep
  <2> QED BY <1>1, <2>1 DEF DashTypeOK, guiVars, wizardVars, appVars, viewVars, loopVars
<1> QED BY <1>2, <1>3, <1>4 DEF RunStep

\* Type correctness of the Dashboard, for any number of jobs and any queue.
THEOREM DashboardTypeCorrect == DashSpec => []DashTypeOK
<1>1. DashInit => DashTypeOK
  BY DashTypeInit
<1>2. ASSUME DashTypeOK, TypeInv, [DashNext]_dashVars
      PROVE  DashTypeOK'
  <2>1. CASE UNCHANGED dashVars
    BY <1>2, <2>1 DEF DashTypeOK, dashVars, guiVars, wizardVars, appVars, viewVars, loopVars
  <2>2. CASE DashNext
    BY <1>2, <2>2, PagesKeepTypes, PollKeepsTypes, OthersKeepTypes DEF DashNext
  <2> QED BY <1>2, <2>1, <2>2
<1>3. DashSpec => Spec
  BY DashboardUsesWorkerAsSpecified DEF UsesWorkerAsSpecified
<1> QED BY <1>1, <1>2, <1>3, TypeInvariant, PTL DEF DashSpec

(***************************************************************************)
(* Attribution of events, the watched run and the final page.  The         *)
(* strengthening says whose events the queue holds, whom the presenter     *)
(* shows, and that the worker is active only while the Run page is shown   *)
(* or about to be.                                                         *)
(***************************************************************************)

\* The queue holds events of the last job only; the poll before a start empties it.
QueueOfOwner ==
    /\ \A k \in 1..Len(events) : events[k].job = owner
    /\ owner = 0 => events = <<>> /\ shown.job = 0
    /\ BeforeStart /\ gpc # "poll" => events = <<>>
    /\ shown.index <= drained + dropped

\* An active worker is watched by the Run page, or by the poll that shows it.
ActiveIsWatched == state \in Active => step = "RUN" \/ AfterStart

\* Past its first step a poll shows the last job, and so do the pages of a run.
ShownIsOwner ==
    /\ gpc \in {"state", "result", "issue"} => shown.job = owner
    /\ step \in {"RUN", "RESULT"} => shown.job = owner
    /\ AfterStart => owner # 0

\* What the poll has read of the worker stays true once it is terminal.
SeenIsCurrent ==
    /\ gpc \in {"result", "issue"} /\ seen.state \notin Active => seen.state = state
    /\ step = "RESULT" =>
         /\ state \in Terminal
         /\ gpc \in {"result", "issue"} => seen.state = state
         /\ gpc = "idle" => shown.state = state

WatchInv == EventsAttributed /\ QueueOfOwner /\ ActiveIsWatched /\ ShownIsOwner /\ SeenIsCurrent

\* Everything the steps below may use of the state they start from.
Before == IInv /\ EventAccounting /\ DashTypeOK /\ ExportInv /\ WatchInv

\* The worker goes on with its last job: it publishes only while it is active.
OwnerGoesOn ==
    /\ owner' = owner /\ UNCHANGED readerVars
    /\ \/ UNCHANGED <<state, eventVars>>
       \/ state \in Active /\ \E s \in State : Publish(owner, s)

\* An append keeps whose events a queue holds.
LEMMA PushedJobs ==
  ASSUME NEW queue \in Seq(Event), Len(queue) <= MaxEvents, NEW event \in Event, NEW j,
         \A k \in 1..Len(queue) : queue[k].job = j, event.job = j
  PROVE  \A k \in 1..Len(Pushed(queue, event)) : Pushed(queue, event)[k].job = j
<1> DEFINE kept == IF Len(queue) = MaxEvents THEN Tail(queue) ELSE queue
<1>1. Len(queue) \in Nat /\ MaxEvents \in Nat /\ MaxEvents > 0
  BY LenProperties, WorkerAssumption
<1>2. kept \in Seq(Event) /\ \A k \in 1..Len(kept) : kept[k].job = j
  <2>1. CASE Len(queue) = MaxEvents
    <3>1. queue # <<>>
      BY <1>1, <2>1, EmptySeq
    <3>2. /\ Tail(queue) \in Seq(Event) /\ Len(Tail(queue)) = Len(queue) - 1
          /\ \A k \in 1..Len(Tail(queue)) : Tail(queue)[k] = queue[k + 1]
      BY <3>1, HeadTailProperties
    <3>3. \A k \in 1..Len(Tail(queue)) : k + 1 \in 1..Len(queue)
      BY <1>1, <3>2
    <3> QED BY <2>1, <3>2, <3>3
  <2>2. CASE Len(queue) # MaxEvents
    BY <2>2
  <2> QED BY <2>1, <2>2
<1>3. /\ Len(Append(kept, event)) = Len(kept) + 1
      /\ \A k \in 1..Len(kept) : Append(kept, event)[k] = kept[k]
      /\ Append(kept, event)[Len(kept) + 1] = event
  BY <1>2, AppendProperties
<1>4. Pushed(queue, event) = Append(kept, event) /\ Len(kept) \in Nat
  BY <1>2, LenProperties DEF Pushed
<1> HIDE DEF kept
<1>5. \A k \in 1..(Len(kept) + 1) : k \in 1..Len(kept) \/ k = Len(kept) + 1
  BY <1>4
<1> QED BY <1>2, <1>3, <1>4, <1>5

\* One publication of an event of job j.
LEMMA PublishJobs ==
  ASSUME TypeInv, NEW j \in 0..MaxJobs, NEW s \in State, Publish(j, s),
         \A k \in 1..Len(events) : events[k].job = j
  PROVE  (\A k \in 1..Len(events') : events'[k].job = j) /\ dropped' \in Nat /\ dropped <= dropped'
<1> DEFINE entry == Entry(nextIndex, j, s)
<1>1. events \in Seq(Event) /\ Len(events) <= MaxEvents /\ dropped \in Nat
  BY DEF TypeInv, TypeOK, EventType
<1>2. entry \in Event /\ entry.job = j
  BY DEF TypeInv, TypeOK, EventType, Entry, Event
<1>3. events' = Pushed(events, entry) /\ dropped' = dropped + Lost(events)
  BY DEF Publish
<1>4. Lost(events) \in {0, 1}
  BY DEF Lost
<1> HIDE DEF entry
<1>5. \A k \in 1..Len(Pushed(events, entry)) : Pushed(events, entry)[k].job = j
  BY <1>1, <1>2, PushedJobs
<1> QED BY <1>1, <1>3, <1>4, <1>5

\* A thread at work is the owner's: its step publishes for the owner or leaves
\* state and queue alone.
LEMMA JobGoesOn ==
  ASSUME IInv, NEW j \in Job, JobStep(j)
  PROVE  OwnerGoesOn
<1>1. owner' = owner /\ UNCHANGED readerVars
  BY JobKeepsOwner DEF JobStep, FactoryReturns, FactoryFails, BeginRun, Progress, RunReturns,
     RunRaises, Cleanup, FinishJob, SetCompletion
<1>2. Live(j) => owner = j /\ state \in Active
  BY DEF IInv, LiveIsOwner
<1>3. state \in State
  BY DEF IInv, TypeInv, TypeOK, OwnerType
<1>4. CASE FactoryReturns(j) \/ FactoryFails(j) \/ (\E status \in Status : RunReturns(j, status))
             \/ (\E kind \in {"cancelled", "failure"} : RunRaises(j, kind))
             \/ Cleanup(j) \/ SetCompletion(j)
  BY <1>1, <1>4 DEF OwnerGoesOn, FactoryReturns, FactoryFails, RunReturns, RunRaises, Cleanup,
     SetCompletion, ownerVars
<1>5. CASE BeginRun(j)
  <2>1. state \in Active /\ "RUNNING" \in State
    BY <1>2, <1>5 DEF BeginRun, Live, State, Active
  <2> QED BY <1>1, <1>5, <2>1 DEF OwnerGoesOn, BeginRun
<1>6. CASE Progress(j)
  <2>1. owner = j /\ state \in Active /\ Publish(j, state)
    BY <1>2, <1>6 DEF Progress, Live
  <2> QED BY <1>1, <1>3, <2>1 DEF OwnerGoesOn
<1>7. CASE FinishJob(j)
  <2>1. owner = j /\ state \in Active /\ FinalState(j) \in State
    BY <1>2, <1>7, FinalTypes DEF FinishJob, Live, State, Terminal, IInv, TypeInv, TypeOK
  <2> QED BY <1>1, <1>7, <2>1 DEF OwnerGoesOn, FinishJob
<1> QED BY <1>4, <1>5, <1>6, <1>7 DEF JobStep

\* An accepted cancellation publishes for an active owner.
LEMMA CancelGoesOn ==
  ASSUME CancelEffect, UNCHANGED <<owner, readerVars>>
  PROVE  OwnerGoesOn
BY DEF CancelEffect, OwnerGoesOn, Active, State

\* What holds of queue and state after the owner went on.
LEMMA QueueAfter ==
  ASSUME Before, OwnerGoesOn
  PROVE  /\ \A k \in 1..Len(events') : events'[k].job = owner'
         /\ owner' = 0 => events' = <<>>
         /\ shown.index <= drained' + dropped'
         /\ state' \in Active => state \in Active
         /\ state \notin Active => state' = state /\ events' = events
<1>1. /\ TypeInv /\ owner \in 0..MaxJobs /\ drained \in Nat /\ dropped \in Nat /\ shown.index \in Nat
      /\ \A k \in 1..Len(events) : events[k].job = owner
      /\ owner = 0 => events = <<>>
      /\ shown.index <= drained + dropped
  BY DEF Before, IInv, TypeInv, TypeOK, OwnerType, EventType, DashTypeOK, Event, WatchInv, QueueOfOwner
<1>2. CASE UNCHANGED <<state, eventVars>>
  BY <1>1, <1>2 DEF OwnerGoesOn, eventVars, readerVars
<1>3. CASE state \in Active /\ \E s \in State : Publish(owner, s)
  <2>1. PICK s \in State : Publish(owner, s)
    BY <1>3
  <2>2. (\A k \in 1..Len(events') : events'[k].job = owner) /\ dropped' \in Nat /\ dropped <= dropped'
    BY <1>1, <2>1, PublishJobs
  <2>3. owner # 0
    BY <1>1, <1>3 DEF TypeInv, Active
  <2>4. owner' = owner /\ drained' = drained
    BY DEF OwnerGoesOn, readerVars
  <2> QED BY <1>1, <1>3, <2>2, <2>3, <2>4
<1> QED BY <1>2, <1>3 DEF OwnerGoesOn

\* The job threads leave the GUI alone.
LEMMA ServiceKeepsWatch ==
  ASSUME Before, NEW j \in Job, PublishOutput(j) \/ ServiceStep(j)
  PROVE  WatchInv'
<1>1. OwnerGoesOn /\ UNCHANGED guiVars
  BY JobGoesOn DEF Before, PublishOutput, ServiceStep, OwnerGoesOn, vars, ownerVars
<1>2. /\ \A k \in 1..Len(events') : events'[k].job = owner'
      /\ owner' = 0 => events' = <<>>
      /\ shown.index <= drained' + dropped'
      /\ state' \in Active => state \in Active
      /\ state \notin Active => state' = state /\ events' = events
      /\ owner' = owner
  BY <1>1, QueueAfter DEF OwnerGoesOn
<1>3. BeforeStart => state \notin Active
  BY DEF Before, WatchInv, ActiveIsWatched, ExportInv, ReviewedJob, BeforeStart, AfterStart, Polling
<1>4. UNCHANGED <<gpc, caller, seen, step, shown>>
  BY <1>1 DEF guiVars, wizardVars, viewVars, loopVars
<1>5. QueueOfOwner' /\ ActiveIsWatched' /\ EventsAttributed' /\ ShownIsOwner'
  BY <1>2, <1>3, <1>4 DEF Before, WatchInv, QueueOfOwner, ActiveIsWatched, EventsAttributed,
     ShownIsOwner, BeforeStart, AfterStart, Polling
<1>6. SeenIsCurrent'
  BY <1>2, <1>4 DEF Before, WatchInv, SeenIsCurrent, Terminal, Active
<1> QED BY <1>5, <1>6 DEF WatchInv

\* Pages are turned at rest, when no run is active.
LEMMA PagesKeepWatch ==
  ASSUME Before, PageStep
  PROVE  WatchInv'
<1>1. gpc = "idle" /\ UNCHANGED <<gpc, caller, seen>> /\ UNCHANGED vars
  BY DEF PageStep, PageOnly, Idle, loopVars, SelectSource, SelectProfileOrJob, NextPage, Back,
     BackFromReview, LoadPreset, PrepareReview, PrepareReviewFails, ModifySetup, ReviewSameSetup,
     StartNewTest, ExportResult, ExportFails
<1>2. step # "RUN"
  BY DEF PageStep, SelectSource, SelectProfileOrJob, NextPage, Back, BackFromReview, LoadPreset,
     PrepareReview, PrepareReviewFails, ModifySetup, ReviewSameSetup, StartNewTest, ExportResult,
     ExportFails
<1>3. /\ step' # "RUN" /\ (step' = "RESULT" => step = "RESULT" /\ shown' = shown)
      /\ shown' \in {shown, NothingShown, [shown EXCEPT !.job = 0]}
  BY <1>2 DEF PageStep, SelectSource, SelectProfileOrJob, NextPage, Back, BackFromReview, LoadPreset,
     PrepareReview, PrepareReviewFails, ModifySetup, ReviewSameSetup, StartNewTest, ExportResult,
     ExportFails, Visit, Reviewed, ClearView, ClearResult, viewVars
<1>4. state \notin Active
  BY <1>1, <1>2 DEF Before, WatchInv, ActiveIsWatched, AfterStart, Polling
<1>5. UNCHANGED <<owner, state, events, drained, dropped>> /\ drained \in Nat /\ dropped \in Nat
  BY <1>1 DEF vars, ownerVars, eventVars, readerVars, Before, IInv, TypeInv, TypeOK, EventType
<1>6. QueueOfOwner'
  BY <1>1, <1>3, <1>5 DEF Before, WatchInv, QueueOfOwner, NothingShown, DashTypeOK, Event,
     BeforeStart, Polling
<1> QED
  BY <1>1, <1>3, <1>4, <1>5, <1>6 DEF Before, WatchInv, EventsAttributed, ActiveIsWatched,
     ShownIsOwner, SeenIsCurrent, AfterStart, Polling

\* The presenter accepts every queued event: all are the owner's, and each has
\* an index above the one shown.
LEMMA QueueIsPresentable ==
  ASSUME Before, gpc = "poll"
  PROVE  /\ Presentable(events)
         /\ events # <<>> => /\ events[Len(events)].job = owner
                             /\ events[Len(events)].index = drained + dropped + Len(events)
         /\ Attached.job = owner /\ Attached.index <= drained + dropped
<1>1. /\ events \in Seq(Event) /\ drained \in Nat /\ dropped \in Nat /\ shown.index \in Nat
      /\ shown.index <= drained + dropped
      /\ \A k \in 1..Len(events) : events[k].job = owner
      /\ owner = 0 => events = <<>> /\ shown.job = 0
  BY DEF Before, IInv, TypeInv, TypeOK, EventType, DashTypeOK, Event, WatchInv, QueueOfOwner
<1>2. Len(events) \in Nat /\ nextIndex = 1 + drained + dropped + Len(events)
  BY <1>1, LenProperties DEF Before, EventAccounting
<1>3. \A k \in 1..Len(events) : events[k].index = drained + dropped + k
  <2>1. ASSUME NEW k \in 1..Len(events)
        PROVE  events[k].index = drained + dropped + k
    <3>1. events[k].index = nextIndex - 1 - Len(events) + k
      BY DEF Before, EventAccounting, Contiguous
    <3> QED BY <1>1, <1>2, <3>1
  <2> QED BY <2>1
<1>4. Attached.job = owner /\ Attached.index \in Nat /\ Attached.index <= drained + dropped
  BY <1>1 DEF Attached
<1>5. events # <<>> => Len(events) \in 1..Len(events)
  BY <1>1, <1>2, EmptySeq
<1>6. ASSUME NEW k \in 1..Len(events)
      PROVE  events[k].index > IF k = 1 THEN Attached.index ELSE events[k - 1].index
  <2>1. CASE k = 1
    BY <1>1, <1>3, <1>4, <2>1
  <2>2. CASE k # 1
    <3>1. k - 1 \in 1..Len(events)
      BY <1>2, <2>2
    <3>2. events[k - 1].index = drained + dropped + (k - 1) /\ events[k].index = drained + dropped + k
      BY <1>3, <3>1
    <3> QED BY <1>1, <1>2, <2>2, <3>2
  <2> QED BY <2>1, <2>2
<1> QED BY <1>1, <1>3, <1>4, <1>5, <1>6 DEF Presentable

\* A poll attributes what it drains and ends the run only in a final state.
LEMMA PollKeepsWatch ==
  ASSUME Before, Tick \/ PollStep
  PROVE  WatchInv'
<1>1. owner' = owner /\ state' = state
  BY DEF Tick, PollStep, PollEvents, DrainEvents, PollState, PollResult, PollIssue, vars, ownerVars
<1>2. /\ drained \in Nat /\ dropped \in Nat /\ events \in Seq(Event) /\ Len(events) \in Nat
  BY LenProperties DEF Before, IInv, TypeInv, TypeOK, EventType
<1>3. CASE PollEvents
  <2>1. /\ gpc' = "state" /\ UNCHANGED <<step, caller, seen>>
        /\ gpc = "poll"
    BY <1>3, QueueIsPresentable DEF PollEvents, wizardVars
  <2>2. /\ events' = <<>> /\ dropped' = dropped
        /\ drained' = drained + Len(events)
    <3>1. CASE events = <<>>
      BY <1>2, <1>3, <3>1, EmptySeq DEF PollEvents, vars, eventVars, readerVars
    <3>2. CASE events # <<>>
      BY <1>3, <3>2 DEF PollEvents, DrainEvents
    <3> QED BY <3>1, <3>2
  <2>3. shown'.job = owner /\ shown'.index <= drained' + dropped'
    <3>1. CASE events = <<>>
      <4>1. shown' = Attached /\ Len(events) = 0
        BY <1>3, <3>1, EmptySeq DEF PollEvents
      <4> QED BY <1>2, <2>1, <2>2, <4>1, QueueIsPresentable
    <3>2. CASE events # <<>>
      <4>1. shown' = events[Len(events)]
        BY <1>3, <3>2 DEF PollEvents
      <4> QED BY <1>2, <2>1, <2>2, <3>2, <4>1, QueueIsPresentable
    <3> QED BY <3>1, <3>2
  <2>4. QueueOfOwner'
    <3>1. Len(events') = 0
      BY <2>2, EmptySeq
    <3> QED BY <1>1, <2>2, <2>3, <3>1 DEF QueueOfOwner
  <2> QED
    BY <1>1, <2>1, <2>3, <2>4 DEF Before, WatchInv, EventsAttributed, ActiveIsWatched,
       ShownIsOwner, SeenIsCurrent, AfterStart, Polling
<1>4. ASSUME Tick \/ PollState \/ PollResult \/ PollIssue
      PROVE  UNCHANGED <<events, drained, dropped>>
  BY <1>4 DEF Tick, PollState, PollResult, PollIssue, vars, eventVars, readerVars
<1>5. CASE Tick
  <2>1. gpc = "idle" /\ step = "RUN" /\ gpc' = "poll" /\ caller' = "tick" /\ UNCHANGED <<seen, step, shown>>
    BY <1>5 DEF Tick, Idle, Poll, wizardVars, viewVars
  <2> QED
    BY <1>1, <1>4, <1>5, <2>1 DEF Before, WatchInv, EventsAttributed, QueueOfOwner, ActiveIsWatched,
       ShownIsOwner, SeenIsCurrent, BeforeStart, AfterStart, Polling
<1>6. CASE PollState \/ PollResult
  <2>1. \/ gpc = "state" /\ gpc' = "result" /\ seen'.state = state
        \/ gpc = "result" /\ gpc' = "issue" /\ seen'.state = seen.state
    BY <1>6 DEF PollState, PollResult, Before, DashTypeOK
  <2>2. UNCHANGED <<step, shown, caller>>
    BY <1>6 DEF PollState, PollResult, wizardVars, viewVars
  <2> QED
    BY <1>1, <1>4, <1>6, <2>1, <2>2 DEF Before, WatchInv, EventsAttributed, QueueOfOwner,
       ActiveIsWatched, ShownIsOwner, SeenIsCurrent, BeforeStart, AfterStart, Polling
<1>7. CASE PollIssue
  <2>1. /\ gpc = "issue" /\ gpc' = (IF caller = "first" THEN "start" ELSE "idle") /\ caller' = caller
        /\ shown'.job = shown.job /\ shown'.index = shown.index /\ shown'.state = seen.state
    BY <1>7 DEF PollIssue, Before, DashTypeOK, Event
  <2>2. shown.job = owner
    BY <2>1 DEF Before, WatchInv, ShownIsOwner
  <2>3. QueueOfOwner' /\ EventsAttributed'
    BY <1>1, <1>4, <1>7, <2>1 DEF Before, WatchInv, QueueOfOwner, EventsAttributed, BeforeStart, Polling
  <2>4. CASE RunEnded
    <3>1. step' = "RESULT" /\ gpc' = "idle"
      BY <1>7, <2>1, <2>4 DEF PollIssue, RunEnded, FinishRun
    <3>2. state \in Terminal /\ seen.state = state /\ state \notin Active
      BY <2>1, <2>4 DEF RunEnded, Before, WatchInv, SeenIsCurrent, Terminal, Active
    <3> QED
      BY <1>1, <2>1, <2>2, <2>3, <3>1, <3>2 DEF WatchInv, ActiveIsWatched, ShownIsOwner, SeenIsCurrent,
         AfterStart, Polling
  <2>5. CASE ~RunEnded /\ caller = "second"
    <3>1. step = "REVIEW" /\ ~wizardIssue
      BY <2>1, <2>5 DEF Before, ExportInv, ReviewedJob, AfterStart, Polling
    <3>2. step' = "RUN" /\ gpc' = "idle"
      BY <1>7, <2>1, <2>5, <3>1 DEF PollIssue, BeginRunPage
    <3> QED
      BY <1>1, <2>1, <2>2, <2>3, <3>2 DEF WatchInv, ActiveIsWatched, ShownIsOwner, SeenIsCurrent,
         AfterStart, Polling
  <2>6. CASE ~RunEnded /\ caller # "second"
    <3>1. step' = step
      BY <1>7, <2>6 DEF PollIssue, wizardVars
    <3>2. state \in Active => step = "RUN"
      BY <2>6 DEF Before, WatchInv, ActiveIsWatched, AfterStart
    <3> QED
      BY <1>1, <2>1, <2>2, <2>3, <3>1, <3>2 DEF Before, WatchInv, ActiveIsWatched, ShownIsOwner,
         SeenIsCurrent, AfterStart, Polling
  <2> QED BY <2>4, <2>5, <2>6
<1> QED BY <1>3, <1>5, <1>6, <1>7 DEF PollStep

\* Run starts the next job from an emptied queue.
LEMMA StartKeepsWatch ==
  ASSUME Before, TypeInv', StartJob \/ StartJobFails
  PROVE  WatchInv'
<1>1. gpc = "start" /\ step = "REVIEW" /\ events = <<>> /\ state \notin Active
  <2>1. gpc = "start"
    BY DEF StartJob, StartJobFails
  <2> QED
    BY <2>1 DEF Before, ExportInv, ReviewedJob, WatchInv, QueueOfOwner, ActiveIsWatched,
       BeforeStart, AfterStart, Polling
<1>2. /\ TypeInv /\ owner \in 0..MaxJobs /\ MaxJobs \in Nat /\ drained \in Nat /\ dropped \in Nat
      /\ shown.index \in Nat /\ shown.index <= drained + dropped
      /\ events \in Seq(Event) /\ nextIndex \in Nat
  BY WorkerAssumption DEF Before, IInv, TypeInv, TypeOK, OwnerType, EventType, DashTypeOK, Event,
     WatchInv, QueueOfOwner
<1>3. Len(events) = 0
  BY <1>1, EmptySeq
<1>4. CASE StartJob
  <2>1. /\ Publish(owner + 1, "STARTING") /\ owner' = owner + 1 /\ drained' = drained
        /\ owner < MaxJobs
    BY <1>4 DEF StartJob, Start, MayStart, Accept, readerVars
  <2>2. owner + 1 \in 0..MaxJobs /\ "STARTING" \in State
    BY <1>2, <2>1 DEF State, Active
  <2>3. /\ \A k \in 1..Len(events') : events'[k].job = owner'
        /\ dropped' \in Nat /\ dropped <= dropped'
    BY <1>2, <1>3, <2>1, <2>2, PublishJobs
  <2>4. gpc' = "poll" /\ caller' = "second" /\ UNCHANGED <<step, shown, seen>>
    BY <1>4 DEF StartJob, Poll, wizardVars, viewVars
  <2>5. owner' # 0 /\ shown.index <= drained' + dropped'
    BY <1>2, <2>1, <2>3
  <2> QED
    BY <1>1, <2>3, <2>4, <2>5 DEF WatchInv, EventsAttributed, QueueOfOwner, ActiveIsWatched,
       ShownIsOwner, SeenIsCurrent, BeforeStart, AfterStart, Polling
<1>5. CASE StartJobFails
  <2>1. gpc' = "idle" /\ UNCHANGED <<step, shown, seen>>
    BY <1>5 DEF StartJobFails, Done
  <2>2. CASE UNCHANGED vars
    <3>1. UNCHANGED <<events, drained, dropped, owner, state>>
      BY <2>2 DEF vars, ownerVars, eventVars, readerVars
    <3> QED
      BY <1>1, <2>1, <3>1 DEF Before, WatchInv, EventsAttributed, QueueOfOwner, ActiveIsWatched,
         ShownIsOwner, SeenIsCurrent, BeforeStart, AfterStart, Polling
  <2>3. CASE StartFails(Gui)
    <3> DEFINE e1 == Entry(nextIndex, owner + 1, "STARTING")
               e2 == Entry(nextIndex + 1, owner + 1, "FAILED")
               first == Pushed(events, e1)
    <3>1. /\ owner' = owner + 1 /\ owner < MaxJobs /\ state' = "FAILED" /\ drained' = drained
          /\ events' = Pushed(first, e2) /\ dropped' = dropped + Lost(events) + Lost(first)
      BY <2>3 DEF StartFails, MayStart, Accept, readerVars
    <3>2. e1 \in Event /\ e2 \in Event /\ e1.job = owner + 1 /\ e2.job = owner + 1
      BY <1>2, <3>1 DEF Entry, Event, State, Active, Terminal
    <3>3. Lost(events) \in {0, 1} /\ Lost(first) \in {0, 1}
      BY DEF Lost
    <3> HIDE DEF e1, e2
    <3>4. /\ first \in Seq(Event) /\ Len(first) <= MaxEvents
          /\ \A k \in 1..Len(first) : first[k].job = owner + 1
      <4>1. Len(events) <= MaxEvents /\ \A k \in 1..Len(events) : events[k].job = owner + 1
        BY <1>2, <1>3 DEF TypeInv
      <4>2. first \in Seq(Event) /\ Len(first) <= MaxEvents
        BY <1>2, <3>2, <4>1, PushedIsQueue
      <4>3. \A k \in 1..Len(first) : first[k].job = owner + 1
        BY <1>2, <3>2, <4>1, PushedJobs
      <4> QED BY <4>2, <4>3
    <3> HIDE DEF first
    <3>5. \A k \in 1..Len(events') : events'[k].job = owner'
      BY <3>1, <3>2, <3>4, PushedJobs
    <3>6. owner' # 0 /\ shown.index <= drained' + dropped' /\ state' \notin Active
      BY <1>2, <3>1, <3>3 DEF Active
    <3> QED
      BY <1>1, <2>1, <3>5, <3>6 DEF WatchInv, EventsAttributed, QueueOfOwner, ActiveIsWatched,
         ShownIsOwner, SeenIsCurrent, BeforeStart, AfterStart, Polling
  <2> QED BY <1>5, <2>2, <2>3 DEF StartJobFails
<1> QED BY <1>4, <1>5

\* Cancel and Close let the owner go on, and never leave the Run page.
LEMMA CallsKeepWatch ==
  ASSUME Before, RunPressed \/ CancelPressed \/ CancelJob \/ ClosePressed \/ CloseGoesOn \/ CloseTimesOut
  PROVE  WatchInv'
<1>1. OwnerGoesOn
  <2>1. CASE CancelJob
    <3>1. CancelEffect /\ UNCHANGED <<owner, readerVars>>
      BY <2>1 DEF CancelJob, RequestCancel
    <3> QED BY <3>1, CancelGoesOn
  <2>2. CASE CloseGoesOn /\ CallerCancels(Gui)
    <3>1. CancelEffect /\ UNCHANGED <<owner, readerVars>>
      BY <2>2 DEF CallerCancels
    <3> QED BY <3>1, CancelGoesOn
  <2>3. CASE RunPressed \/ CancelPressed
    BY <2>3 DEF RunPressed, CancelPressed, OwnerGoesOn, vars, ownerVars
  <2>4. CASE \/ ClosePressed \/ CloseTimesOut
             \/ CloseGoesOn /\ ~CallerCancels(Gui)
    BY <2>4 DEF ClosePressed, CallClose, CloseGoesOn, CloseTimesOut, JoinSnapshot, JoinCompleted,
       JoinDeadline, OwnerGoesOn, ownerVars
  <2> QED BY <2>1, <2>2, <2>3, <2>4
<1>2. /\ \A k \in 1..Len(events') : events'[k].job = owner'
      /\ owner' = 0 => events' = <<>>
      /\ shown.index <= drained' + dropped'
      /\ state' \in Active => state \in Active
      /\ state \notin Active => state' = state /\ events' = events
      /\ owner' = owner
  BY <1>1, QueueAfter DEF OwnerGoesOn
<1>3. UNCHANGED <<step, shown>>
  BY DEF RunPressed, CancelPressed, CancelJob, ClosePressed, CloseGoesOn, CloseTimesOut,
     wizardVars, viewVars
<1>4. /\ gpc \in {"idle", "cancel", "closing"}
      /\ seen' = seen
  BY DEF RunPressed, CancelPressed, CancelJob, ClosePressed, CloseGoesOn, CloseTimesOut, Idle, Poll,
     loopVars
<1>5. CASE RunPressed
  <2>1. \/ gpc' = "start" /\ owner = 0 /\ caller' = caller
        \/ gpc' = "poll" /\ caller' = "first"
    BY <1>5 DEF RunPressed, Poll
  <2> QED
    BY <1>2, <1>3, <1>4, <2>1 DEF Before, WatchInv, EventsAttributed, QueueOfOwner, ActiveIsWatched,
       ShownIsOwner, SeenIsCurrent, BeforeStart, AfterStart, Polling, Terminal, Active
<1>6. CASE CancelPressed \/ CancelJob \/ ClosePressed \/ CloseGoesOn \/ CloseTimesOut
  <2>1. \/ gpc' \in {"cancel", "closing"}
        \/ gpc' = "poll" /\ caller' \in {"cancel", "closed", "timeout"}
    BY <1>6 DEF CancelPressed, CancelJob, ClosePressed, CloseGoesOn, CloseTimesOut, Poll, loopVars
  <2> QED
    BY <1>2, <1>3, <1>4, <2>1 DEF Before, WatchInv, EventsAttributed, QueueOfOwner, ActiveIsWatched,
       ShownIsOwner, SeenIsCurrent, BeforeStart, AfterStart, Polling, Terminal, Active
<1> QED BY <1>5, <1>6

\* The strengthening is an invariant of the Dashboard for any number of jobs
\* and any queue, when no interrupt hits a start.
THEOREM WatchInvariant ==
  ASSUME ~InterruptibleStart
  PROVE  DashSpec => []WatchInv
<1> DEFINE Held == ExportInv /\ slot \in [Job -> Output] /\ DashTypeOK /\ WatchInv
<1>1. DashInit => Held
  <2>1. ASSUME DashInit
        PROVE  WatchInv
    BY <2>1, EmptySeq, WorkerAssumption DEF DashInit, Init, WatchInv, EventsAttributed, QueueOfOwner,
       ActiveIsWatched, ShownIsOwner, SeenIsCurrent, BeforeStart, AfterStart, Polling, NothingShown,
       Active
  <2> QED BY <2>1, ExportInit, DashTypeInit DEF DashInit, Output
<1>2. ASSUME Held, IInv, IInv', EventAccounting, [DashNext]_dashVars
      PROVE  Held'
  <2>1. Before /\ TypeInv /\ TypeInv' /\ owner \in Nat
    BY <1>2, WorkerAssumption DEF Before, IInv, TypeInv, TypeOK, OwnerType
  <2>2. CASE UNCHANGED dashVars
    BY <1>2, <2>2 DEF dashVars, guiVars, wizardVars, appVars, viewVars, loopVars, vars, ownerVars,
       eventVars, readerVars, ExportInv, ReviewedJob, ExportIsOfThisRun, BeforeStart, AfterStart,
       Polling, DashTypeOK, WatchInv, EventsAttributed, QueueOfOwner, ActiveIsWatched, ShownIsOwner,
       SeenIsCurrent
  <2>3. CASE DashNext
    <3>1. ExportInv' /\ slot' \in [Job -> Output]
      BY <1>2, <2>1, <2>3, SlotType, ServiceKeepsExport, PagesKeepExport, PollKeepsExport,
         RunKeepsExport DEF DashNext
    <3>2. DashTypeOK'
      BY <1>2, <2>1, <2>3, PagesKeepTypes, PollKeepsTypes, OthersKeepTypes DEF DashNext
    <3>3. RunStep => WatchInv'
      BY <2>1, StartKeepsWatch, CallsKeepWatch DEF RunStep
    <3>4. WatchInv'
      BY <2>1, <2>3, <3>3, ServiceKeepsWatch, PagesKeepWatch, PollKeepsWatch DEF DashNext
    <3> QED BY <3>1, <3>2, <3>4
  <2> QED BY <1>2, <2>2, <2>3
<1>3. Held => WatchInv
  OBVIOUS
<1>4. DashSpec => Spec
  BY DashboardUsesWorkerAsSpecified DEF UsesWorkerAsSpecified
<1> HIDE DEF Held
<1> QED BY <1>1, <1>2, <1>3, <1>4, InductiveInvariant, EventQueueCorrect, PTL DEF DashSpec

\* The presenter never refuses an event of the worker.
THEOREM EventsAreAttributed ==
  ASSUME ~InterruptibleStart
  PROVE  DashSpec => []EventsAttributed
<1>1. WatchInv => EventsAttributed
  BY DEF WatchInv
<1> QED BY <1>1, WatchInvariant, PTL

\* No active run is without the page that watches it.
THEOREM ActiveRunsAreWatched ==
  ASSUME ~InterruptibleStart
  PROVE  DashSpec => []ActiveRunIsWatched
<1>1. WatchInv /\ ExportInv => ActiveRunIsWatched
  BY DEF WatchInv, ActiveIsWatched, ShownIsOwner, ExportInv, ReviewedJob, ActiveRunIsWatched,
     AfterStart, Polling
<1> QED BY <1>1, WatchInvariant, ExportInvariant, PTL

(***************************************************************************)
(* The panel.  A poll reads the state before the result, and the worker    *)
(* sets both at once: a result that a poll reads is the one the job ends   *)
(* with, and a poll that has seen the end reads it.                        *)
(***************************************************************************)

\* A result is there only once its job has ended.
ResultIsLast == state \notin Terminal => result = "none"

\* What a poll has read of the result is the result of the last job.
ReadIsResult ==
    gpc = "issue" => /\ seen.result \in {"none", result}
                     /\ seen.state \in Terminal => seen.result = result

\* A job that was just started is not shown yet.
ShownIsPast == shown.job <= owner /\ (gpc = "poll" /\ caller = "second" => shown.job < owner)

\* The poll of a start, once it shows the new job.
ShowsStarted == AfterStart /\ gpc # "poll"

\* While a run is watched, the panel is empty of a status, or has its result.
PanelOfRun ==
    step = "RUN" \/ ShowsStarted
        => panel.status = "none" \/ (panel.job = owner /\ panel.status = result)

PanelOfResult ==
    step = "RESULT" =>
        /\ panel.status # "none" => panel.job = owner
        /\ panel.status = result \/ (bundle # 0 /\ panel.status = "COMPLETED")
        /\ issue /\ bundle = 0 => panel.issue

PanelInv == ResultIsLast /\ ReadIsResult /\ ShownIsPast /\ PanelOfRun /\ PanelOfResult

\* The last job goes on, or ends once and for all.
VerdictGoesOn ==
    /\ owner' = owner
    /\ state \in Terminal => UNCHANGED <<state, result, issue>>
    /\ state' \in Terminal \/ result' = result

\* The poll does not go past a step that shows or reads something.
NothingRead ==
    /\ UNCHANGED <<step, shown, panel, bundle>>
    /\ gpc' = "issue" => gpc = "issue" /\ seen' = seen
    /\ gpc' = "poll" /\ caller' = "second" => gpc = "poll" /\ caller = "second"
    /\ ShowsStarted' => ShowsStarted

\* A thread at work ends the last job; one that has ended sets nothing.
LEMMA JobKeepsVerdict ==
  ASSUME IInv, NEW j \in Job, JobStep(j)
  PROVE  VerdictGoesOn
<1>1. owner' = owner
  BY JobKeepsOwner
<1>2. state \in Terminal => UNCHANGED <<state, result, issue>>
  <2> SUFFICES ASSUME state \in Terminal PROVE UNCHANGED <<state, result, issue>>
    OBVIOUS
  <2>1. ~Live(j)
    BY DEF IInv, LiveIsOwner, Terminal, Active
  <2>2. SetCompletion(j)
    BY <2>1 DEF JobStep, Live, FactoryReturns, FactoryFails, BeginRun, Progress, RunReturns,
       RunRaises, Cleanup, FinishJob
  <2> QED BY <2>2 DEF SetCompletion, ownerVars
<1>3. state' \in Terminal \/ result' = result
  <2>1. CASE FinishJob(j)
    <3>1. FinalState(j) \in Terminal
      BY <2>1, FinalTypes DEF IInv, TypeInv, TypeOK
    <3> QED BY <2>1, <3>1 DEF FinishJob
  <2>2. CASE ~FinishJob(j)
    BY <2>2 DEF JobStep, FactoryReturns, FactoryFails, BeginRun, Progress, RunReturns, RunRaises,
       Cleanup, SetCompletion, ownerVars
  <2> QED BY <2>1, <2>2
<1> QED BY <1>1, <1>2, <1>3 DEF VerdictGoesOn

\* So the panel keeps its word while nothing is shown or read.
LEMMA VerdictKeepsPanel ==
  ASSUME Before, PanelInv, VerdictGoesOn, NothingRead
  PROVE  PanelInv'
<1>1. ResultIsLast'
  BY DEF PanelInv, ResultIsLast, VerdictGoesOn
<1>2. ReadIsResult'
  <2> SUFFICES ASSUME gpc' = "issue"
               PROVE  /\ seen'.result \in {"none", result'}
                      /\ seen'.state \in Terminal => seen'.result = result'
    BY DEF ReadIsResult
  <2>1. gpc = "issue" /\ seen' = seen
    BY DEF NothingRead
  <2>2. seen.state \in Terminal => state \in Terminal
    BY <2>1 DEF Before, WatchInv, SeenIsCurrent, Terminal, Active
  <2>3. result' = result \/ seen.result = "none"
    BY <2>1 DEF PanelInv, ResultIsLast, ReadIsResult, VerdictGoesOn
  <2> QED BY <2>1, <2>2, <2>3 DEF PanelInv, ReadIsResult, VerdictGoesOn
<1>3. ShownIsPast'
  BY DEF PanelInv, ShownIsPast, VerdictGoesOn, NothingRead
<1>4. PanelOfRun'
  BY DEF PanelInv, PanelOfRun, ResultIsLast, VerdictGoesOn, NothingRead
<1>5. PanelOfResult'
  <2>1. step = "RESULT" => state \in Terminal
    BY DEF Before, WatchInv, SeenIsCurrent
  <2> QED BY <2>1 DEF PanelInv, PanelOfResult, VerdictGoesOn, NothingRead
<1> QED BY <1>1, <1>2, <1>3, <1>4, <1>5 DEF PanelInv

\* The job threads and the calls of Run, Cancel and Close show nothing.
LEMMA QuietStepsKeepPanel ==
  ASSUME Before, PanelInv,
         \/ \E j \in Job : PublishOutput(j) \/ ServiceStep(j)
         \/ Tick \/ PollState
         \/ RunPressed \/ CancelPressed \/ CancelJob
         \/ ClosePressed \/ CloseGoesOn \/ CloseTimesOut
  PROVE  PanelInv'
<1>1. CASE \E j \in Job : PublishOutput(j) \/ ServiceStep(j)
  <2>1. PICK j \in Job : PublishOutput(j) \/ ServiceStep(j)
    BY <1>1
  <2>2. VerdictGoesOn
    <3>1. CASE PublishOutput(j)
      BY <3>1 DEF PublishOutput, VerdictGoesOn, vars, ownerVars
    <3>2. CASE ServiceStep(j)
      BY <3>2, JobKeepsVerdict DEF ServiceStep, Before
    <3> QED BY <2>1, <3>1, <3>2
  <2>3. NothingRead
    BY <2>1 DEF PublishOutput, ServiceStep, NothingRead, ShowsStarted, AfterStart, Polling, guiVars,
       wizardVars, appVars, viewVars, loopVars
  <2> QED BY <2>2, <2>3, VerdictKeepsPanel
<1>2. CASE Tick \/ PollState \/ RunPressed \/ CancelPressed \/ CancelJob
             \/ ClosePressed \/ CloseGoesOn \/ CloseTimesOut
  <2>1. VerdictGoesOn
    <3>1. CASE CancelJob \/ (CloseGoesOn /\ CallerCancels(Gui))
      BY <3>1 DEF CancelJob, CloseGoesOn, RequestCancel, CallerCancels, CancelEffect, VerdictGoesOn,
         Terminal
    <3>2. CASE \/ Tick \/ PollState \/ RunPressed \/ CancelPressed \/ ClosePressed \/ CloseTimesOut
               \/ (CloseGoesOn /\ ~CallerCancels(Gui))
      BY <3>2 DEF Tick, PollState, RunPressed, CancelPressed, ClosePressed, CallClose, CloseGoesOn,
         CloseTimesOut, JoinSnapshot, JoinCompleted, JoinDeadline, VerdictGoesOn, vars, ownerVars
    <3> QED BY <1>2, <3>1, <3>2
  <2>2. NothingRead
    BY <1>2 DEF Tick, PollState, RunPressed, CancelPressed, CancelJob, ClosePressed, CloseGoesOn,
       CloseTimesOut, Idle, Poll, NothingRead, ShowsStarted, AfterStart, Polling, wizardVars, appVars,
       viewVars, loopVars
  <2> QED BY <2>1, <2>2, VerdictKeepsPanel
<1> QED BY <1>1, <1>2

\* What a poll copies into the panel is of the last job, and complete once the
\* poll has seen its end.
LEMMA SnapshotIsOfOwner ==
  ASSUME Before, PanelInv, gpc = "issue"
  PROVE  /\ \/ SnapshotPanel.status = panel.status /\ SnapshotPanel.job = panel.job
               /\ seen.result = "none"
            \/ SnapshotPanel.status = result /\ SnapshotPanel.job = owner
         /\ issue => SnapshotPanel.issue
         /\ seen.state \in Terminal => seen.result = result
<1>1. DOMAIN panel = {"job", "status", "issue"} /\ issue \in BOOLEAN
  BY DEF Before, DashTypeOK, IInv, TypeInv, TypeOK, OwnerType
<1>2. /\ SnapshotPanel.issue = TRUE \/ ~issue
      /\ IF seen.result = "none"
         THEN SnapshotPanel.status = panel.status /\ SnapshotPanel.job = panel.job
         ELSE SnapshotPanel.status = seen.result /\ SnapshotPanel.job = owner
  BY <1>1 DEF SnapshotPanel
<1> QED BY <1>2 DEF PanelInv, ReadIsResult

\* A poll copies the result of the job it shows.
LEMMA PollKeepsPanel ==
  ASSUME Before, PanelInv, PollStep, EventsAttributed'
  PROVE  PanelInv'
<1>1. UNCHANGED <<owner, state, result, issue>>
  BY DEF PollStep, PollEvents, DrainEvents, PollState, PollResult, PollIssue, vars, ownerVars
<1>2. ResultIsLast'
  BY <1>1 DEF PanelInv, ResultIsLast
<1>3. CASE PollEvents
  <2>1. /\ gpc = "poll" /\ gpc' = "state"
        /\ UNCHANGED <<step, bundle, caller, seen>>
    BY <1>3 DEF PollEvents, EventsAttributed, wizardVars, appVars
  <2>2. shown'.job = owner
    BY <1>3, QueueIsPresentable DEF PollEvents
  <2>3. owner \in 0..MaxJobs /\ DOMAIN panel = {"job", "status", "issue"}
    BY DEF Before, DashTypeOK, IInv, TypeInv, TypeOK, OwnerType
  <2>4. Attached = shown \/ (panel'.status = "none" /\ panel'.job = 0)
    BY <1>3 DEF PollEvents, EmptyPanel
  <2>5. Attached = shown => /\ panel'.status = panel.status /\ panel'.job = panel.job
                            /\ panel.issue = TRUE => panel'.issue = TRUE
    BY <1>3, <2>3 DEF PollEvents
  <2>6. ReadIsResult' /\ ShownIsPast'
    BY <1>1, <2>1, <2>2, <2>3 DEF ReadIsResult, ShownIsPast
  <2>7. PanelOfRun'
    <3>1. CASE step = "RUN"
      BY <1>1, <2>1, <2>4, <2>5, <3>1 DEF PanelInv, PanelOfRun
    <3>2. CASE caller = "second"
      <4>1. shown.job < owner /\ shown.job \in Nat
        BY <2>1, <3>2 DEF PanelInv, ShownIsPast, Before, DashTypeOK, Event
      <4>2. owner # 0 /\ shown.job # owner
        BY <2>3, <4>1
      <4>3. Attached # shown
        BY <4>2 DEF Attached
      <4> QED BY <2>4, <4>3 DEF PanelOfRun
    <3> QED BY <2>1, <3>1, <3>2 DEF PanelOfRun, ShowsStarted, AfterStart
  <2>8. PanelOfResult'
    <3> SUFFICES ASSUME step = "RESULT" PROVE PanelOfResult'
      BY <2>1 DEF PanelOfResult
    <3>1. Attached = shown
      BY DEF Attached, Before, WatchInv, ShownIsOwner
    <3>2. panel.issue \in BOOLEAN
      BY DEF Before, DashTypeOK
    <3> QED BY <1>1, <2>1, <2>5, <3>1, <3>2 DEF PanelInv, PanelOfResult
  <2> QED BY <1>2, <2>6, <2>7, <2>8 DEF PanelInv
<1>4. CASE PollState
  BY <1>4, QuietStepsKeepPanel
<1>5. CASE PollResult
  <2>1. /\ gpc = "result" /\ gpc' = "issue" /\ seen'.result = result
        /\ UNCHANGED <<step, bundle, shown, panel, caller>>
    BY <1>5 DEF PollResult, Before, DashTypeOK, wizardVars, appVars, viewVars
  <2>2. ReadIsResult' /\ ShownIsPast' /\ PanelOfRun' /\ PanelOfResult'
    BY <1>1, <2>1 DEF PanelInv, ReadIsResult, ShownIsPast, PanelOfRun, PanelOfResult, ShowsStarted,
       AfterStart, Polling
  <2> QED BY <1>2, <2>2 DEF PanelInv
<1>6. CASE PollIssue
  <2>1. /\ gpc = "issue" /\ gpc' \in {"start", "idle"} /\ shown'.job = shown.job
    BY <1>6 DEF PollIssue, Before, DashTypeOK, Event
  <2>2. ReadIsResult' /\ ShownIsPast'
    BY <1>1, <2>1 DEF PanelInv, ReadIsResult, ShownIsPast
  <2>3. ~ShowsStarted'
    BY <2>1 DEF ShowsStarted, AfterStart, Polling
  <2>4. CASE RunEnded
    <3>1. FinishRun /\ step' = "RESULT" /\ seen.state \in Terminal /\ caller = "tick"
      BY <1>6, <2>4 DEF PollIssue, RunEnded, FinishRun
    <3>2. step = "RUN" /\ prepared = owner
      BY <2>1, <3>1 DEF Before, ExportInv, ReviewedJob, Polling
    <3>3. CASE HasAnalysis
      <4>1. panel' = ReportPanel(prepared) /\ bundle' = prepared /\ prepared # 0
        BY <3>1, <3>3 DEF FinishRun, HasAnalysis
      <4>2. panel'.status = "COMPLETED" /\ panel'.job = owner
        BY <3>2, <3>3, <4>1 DEF ReportPanel, ReturnedStatus, HasAnalysis
      <4>3. PanelOfResult' /\ PanelOfRun'
        BY <1>1, <2>3, <3>1, <3>2, <4>1, <4>2 DEF PanelOfResult, PanelOfRun
      <4> QED BY <1>2, <2>2, <4>3 DEF PanelInv
    <3>4. CASE ~HasAnalysis
      <4>1. panel' = SnapshotPanel
        BY <3>1, <3>4 DEF FinishRun
      <4>2. panel.status = "none" \/ (panel.job = owner /\ panel.status = result)
        BY <3>2 DEF PanelInv, PanelOfRun
      <4>3. seen.result = result
        BY <2>1, <3>1, SnapshotIsOfOwner
      <4>4. panel'.status = result /\ (panel'.status # "none" => panel'.job = owner)
            /\ (issue => panel'.issue)
        BY <2>1, <4>1, <4>2, <4>3, SnapshotIsOfOwner
      <4>5. PanelOfResult' /\ PanelOfRun'
        BY <1>1, <2>3, <3>1, <4>4 DEF PanelOfResult, PanelOfRun
      <4> QED BY <1>2, <2>2, <4>5 DEF PanelInv
    <3> QED BY <3>3, <3>4
  <2>5. CASE ~RunEnded
    <3>1. CASE caller = "second"
      <4>1. panel' = SnapshotPanel /\ step' \in {"RUN", step} /\ step = "REVIEW"
        BY <1>6, <2>1, <2>5, <3>1 DEF PollIssue, BeginRunPage, Before, ExportInv, ReviewedJob,
           AfterStart, Polling
      <4>2. panel.status = "none" \/ (panel.job = owner /\ panel.status = result)
        BY <2>1, <3>1 DEF PanelInv, PanelOfRun, ShowsStarted, AfterStart, Polling
      <4>3. panel'.status = "none" \/ (panel'.job = owner /\ panel'.status = result)
        BY <2>1, <4>1, <4>2, SnapshotIsOfOwner
      <4>4. PanelOfRun' /\ PanelOfResult'
        BY <1>1, <2>3, <4>1, <4>3 DEF PanelOfRun, PanelOfResult
      <4> QED BY <1>2, <2>2, <4>4 DEF PanelInv
    <3>2. CASE caller # "second"
      <4>1. panel' = [SnapshotPanel EXCEPT !.issue = @ \/ caller = "timeout"]
            /\ UNCHANGED <<step, bundle>>
        BY <1>6, <2>5, <3>2 DEF PollIssue, wizardVars, appVars
      <4>2. DOMAIN SnapshotPanel = {"job", "status", "issue"}
        <5>1. TypeInv /\ DashTypeOK
          BY DEF Before, IInv
        <5> QED BY <5>1, PanelTypes
      <4>3. /\ panel'.status = SnapshotPanel.status /\ panel'.job = SnapshotPanel.job
            /\ issue => panel'.issue
        BY <2>1, <4>1, <4>2, SnapshotIsOfOwner
      <4>4. PanelOfRun'
        BY <1>1, <2>1, <2>3, <4>1, <4>3, SnapshotIsOfOwner DEF PanelInv, PanelOfRun
      <4>5. PanelOfResult'
        BY <1>1, <2>1, <4>1, <4>3, SnapshotIsOfOwner DEF PanelInv, PanelOfResult
      <4> QED BY <1>2, <2>2, <4>4, <4>5 DEF PanelInv
    <3> QED BY <3>1, <3>2
  <2> QED BY <2>4, <2>5
<1> QED BY <1>3, <1>4, <1>5, <1>6 DEF PollStep

\* Pages empty the panel or leave the Result page; an export shows its report.
LEMMA PagesKeepPanel ==
  ASSUME Before, PanelInv, PageStep
  PROVE  PanelInv'
<1>1. /\ gpc = "idle" /\ UNCHANGED <<gpc, caller, seen>>
      /\ UNCHANGED <<owner, state, result, issue>>
  BY DEF PageStep, PageOnly, Idle, loopVars, vars, ownerVars, SelectSource, SelectProfileOrJob,
     NextPage, Back, BackFromReview, LoadPreset, PrepareReview, PrepareReviewFails, ModifySetup,
     ReviewSameSetup, StartNewTest, ExportResult, ExportFails
<1>2. /\ step' # "RUN" /\ shown' \in {shown, NothingShown, [shown EXCEPT !.job = 0]}
      /\ step' = "RESULT" => ExportResult \/ ExportFails
  BY DEF PageStep, SelectSource, SelectProfileOrJob, NextPage, Back, BackFromReview, LoadPreset,
     PrepareReview, PrepareReviewFails, ModifySetup, ReviewSameSetup, StartNewTest, ExportResult,
     ExportFails, Visit, Reviewed, ClearView, ClearResult, viewVars
<1>3. shown.job <= owner /\ owner \in Nat
  BY WorkerAssumption DEF PanelInv, ShownIsPast, Before, IInv, TypeInv, TypeOK, OwnerType
<1>4. ResultIsLast' /\ ReadIsResult' /\ ShownIsPast' /\ PanelOfRun'
  BY <1>1, <1>2, <1>3 DEF PanelInv, ResultIsLast, ReadIsResult, ShownIsPast, PanelOfRun, ShowsStarted,
     AfterStart, Polling, NothingShown, Before, DashTypeOK, Event
<1>5. PanelOfResult'
  <2> SUFFICES ASSUME step' = "RESULT" PROVE PanelOfResult'
    BY DEF PanelOfResult
  <2>1. step = "RESULT" /\ bundle' = bundle
    BY <1>2 DEF ExportResult, ExportFails, appVars
  <2>2. CASE ExportResult
    <3>1. panel' = ReportPanel(bundle) /\ bundle = owner /\ slot[bundle] = "analysis" /\ bundle # 0
      BY <2>2 DEF ExportResult, Before, ExportInv, ExportIsOfThisRun
    <3>2. panel'.status = "COMPLETED" /\ panel'.job = owner
      BY <3>1 DEF ReportPanel, ReturnedStatus
    <3> QED BY <1>1, <2>1, <3>1, <3>2 DEF PanelOfResult
  <2>3. CASE ExportFails
    <3>1. panel'.status = panel.status /\ panel'.job = panel.job /\ panel'.issue = TRUE
      BY <2>3 DEF ExportFails, Before, DashTypeOK
    <3> QED BY <1>1, <2>1, <3>1 DEF PanelInv, PanelOfResult
  <2> QED BY <1>2, <2>2, <2>3
<1> QED BY <1>4, <1>5 DEF PanelInv

\* A start has no result yet, and is not shown yet.
LEMMA StartKeepsPanel ==
  ASSUME Before, PanelInv, StartJob \/ StartJobFails
  PROVE  PanelInv'
<1>1. gpc = "start" /\ step = "REVIEW" /\ step' = step /\ shown' = shown /\ seen' = seen
  BY DEF StartJob, StartJobFails, Poll, Done, wizardVars, viewVars, Before, ExportInv, ReviewedJob,
     BeforeStart
<1>2. shown.job <= owner /\ owner \in Nat /\ shown.job \in Nat
  BY WorkerAssumption DEF PanelInv, ShownIsPast, Before, IInv, TypeInv, TypeOK, OwnerType, DashTypeOK,
     Event
<1>3. \/ gpc' = "poll"
      \/ gpc' = "idle"
  BY DEF StartJob, StartJobFails, Poll, Done
<1>4. \/ owner' = owner + 1 /\ result' = "none"
      \/ UNCHANGED <<owner, state, result>> /\ gpc' = "idle"
  BY DEF StartJob, StartJobFails, Start, StartFails, Accept, Done, vars, ownerVars
<1>5. ResultIsLast'
  BY <1>4 DEF PanelInv, ResultIsLast
<1>6. ReadIsResult' /\ PanelOfRun' /\ PanelOfResult'
  BY <1>1, <1>3 DEF ReadIsResult, PanelOfRun, PanelOfResult, ShowsStarted, AfterStart, Polling
<1>7. ShownIsPast'
  BY <1>1, <1>2, <1>3, <1>4 DEF ShownIsPast
<1> QED BY <1>5, <1>6, <1>7 DEF PanelInv

\* The panel's strengthening is an invariant of the Dashboard.
THEOREM PanelInvariant ==
  ASSUME ~InterruptibleStart
  PROVE  DashSpec => []PanelInv
<1>1. DashInit => PanelInv
  BY WorkerAssumption DEF DashInit, Init, PanelInv, ResultIsLast, ReadIsResult, ShownIsPast,
     PanelOfRun, PanelOfResult, ShowsStarted, AfterStart, Polling, NothingShown
<1>2. ASSUME PanelInv, Before, WatchInv', [DashNext]_dashVars
      PROVE  PanelInv'
  <2>1. CASE UNCHANGED dashVars
    BY <1>2, <2>1 DEF dashVars, guiVars, wizardVars, appVars, viewVars, loopVars, vars, ownerVars,
       PanelInv, ResultIsLast, ReadIsResult, ShownIsPast, PanelOfRun, PanelOfResult, ShowsStarted,
       AfterStart, Polling
  <2>2. CASE DashNext
    <3>1. EventsAttributed'
      BY <1>2 DEF WatchInv
    <3> QED
      BY <1>2, <2>2, <3>1, QuietStepsKeepPanel, PollKeepsPanel, PagesKeepPanel, StartKeepsPanel
      DEF DashNext, RunStep
  <2> QED BY <1>2, <2>1, <2>2
<1>3. IInv /\ EventAccounting /\ DashTypeOK /\ ExportInv /\ WatchInv => Before
  BY DEF Before
<1>4. DashSpec => Spec
  BY DashboardUsesWorkerAsSpecified DEF UsesWorkerAsSpecified
<1> QED
  BY <1>1, <1>2, <1>3, <1>4, InductiveInvariant, EventQueueCorrect, WatchInvariant, ExportInvariant,
     DashboardTypeCorrect, PTL DEF DashSpec

\* The Result page shows the reviewed job in the state the worker ended it in.
\* The status beside it is of that job: the worker's result, or that of a report
\* the run published; without a report the worker's issue is shown as well.
THEOREM ResultPagesAreFinal ==
  ASSUME ~InterruptibleStart
  PROVE  DashSpec => []ResultPageIsFinal
<1>1. WatchInv /\ ExportInv /\ PanelInv => ResultPageIsFinal
  BY DEF WatchInv, ShownIsOwner, SeenIsCurrent, ExportInv, ReviewedJob, PanelInv, PanelOfResult,
     ResultPageIsFinal
<1> QED BY <1>1, WatchInvariant, ExportInvariant, PanelInvariant, PTL

\* Whatever the user does with the Dashboard, two services never hold their
\* resources at once, and the window closes only over a stopped worker.
THEOREM DashboardOwnsOneService ==
  ASSUME ~InterruptibleStart
  PROVE  DashSpec => [](SingleService /\ ClosedMeansStopped)
<1>1. DashSpec => Spec
  BY DashboardUsesWorkerAsSpecified DEF UsesWorkerAsSpecified
<1> QED BY <1>1, ExclusiveOwnership, CloseIsFinal, PTL

=============================================================================
