-------------------------------- MODULE Dashboard --------------------------------
(***************************************************************************)
(* The guided single-test Dashboard                                        *)
(* (src/src/analog_validation_app/dashboard/{wizard,application,presenter, *)
(* controller,app}.py) composed with the background worker.                *)
(*                                                                         *)
(* One GUI thread runs the Tk callbacks and the periodic poll to           *)
(* completion, one at a time; the job threads of ProductJobWorker          *)
(* interleave with it.  A callback is one action up to the next read of    *)
(* the worker: a poll drains the events, then reads the worker's state,    *)
(* its result and its issue one after the other, and the job thread may    *)
(* move between any two of them.                                           *)
(*                                                                         *)
(* A prepared job is named by the ordinal its start call would get.        *)
(* Widgets are enabled by the can_* conditions of the wizard, so a user    *)
(* action is guarded by them.  Live plots, calibration coefficients and    *)
(* the text of panels are left out.                                        *)
(***************************************************************************)
EXTENDS ProductJobWorker

CONSTANT Gui    \* the GUI thread, the only caller of the worker

ASSUME GuiAssumption == Gui \in Caller

VARIABLES
    slot,           \* what each job's service published in its output slot
    step,           \* wizard: step
    wizardIssue,    \* wizard: issue is not None
    exportable,     \* wizard: export_available
    prepared,       \* application: _prepared, and the router's; 0 for None
    bundle,         \* application: the job whose _bundle is held, 0 for None
    presented,      \* application: _terminal_presented
    shown,          \* presenter: active_job_id and progress panel
    panel,          \* presenter: result panel, and the job it is about
    windowClosed,   \* controller: _closed; the window is destroyed
    gpc,            \* GUI thread: where in a callback it is
    caller,         \* GUI thread: what the running poll was called for
    seen            \* GUI thread: worker state and result read by the poll

wizardVars == <<step, wizardIssue, exportable>>
appVars    == <<prepared, bundle, presented>>
viewVars   == <<shown, panel>>
loopVars   == <<gpc, caller, seen>>
guiVars    == <<wizardVars, appVars, viewVars, windowClosed, loopVars>>
dashVars   == <<vars, slot, guiVars>>

Step    == {"SOURCE", "TEST", "CONFIGURATION", "REVIEW", "RUN", "RESULT"}
Purpose == {"tick", "first", "second", "cancel", "closed", "timeout"}

\* A slot holds nothing, a read without analysis, or a read and its analysis.
Output  == {"empty", "observations", "analysis"}

NothingShown == [job |-> 0, state |-> "IDLE", index |-> 0]
EmptyPanel   == [job |-> 0, status |-> "none", issue |-> FALSE]
NothingSeen  == [state |-> "IDLE", result |-> "none"]

DashInit ==
    /\ Init
    /\ slot = [j \in Job |-> "empty"]
    /\ step = "SOURCE"
    /\ wizardIssue = FALSE
    /\ exportable = FALSE
    /\ prepared = 0
    /\ bundle = 0
    /\ presented = FALSE
    /\ shown = NothingShown
    /\ panel = EmptyPanel
    /\ windowClosed = FALSE
    /\ gpc = "idle"
    /\ caller = "tick"
    /\ seen = NothingSeen

-----------------------------------------------------------------------------
(* The services: a run publishes its output once, before it returns a      *)
(* result; it may still raise in between.  No read and no evaluation of    *)
(* theirs has a cancelled or an erroneous status.                          *)

PublishOutput(j) ==
    /\ pc[j] = "run"
    /\ slot[j] = "empty"
    /\ \E output \in Output \ {"empty"} : slot' = [slot EXCEPT ![j] = output]
    /\ UNCHANGED <<vars, guiVars>>

ReturnedStatus(output) == IF output = "empty" THEN "none" ELSE "COMPLETED"

ServiceStep(j) ==
    /\ JobStep(j)
    /\ pc[j] = "run" => out'[j] \in {"none", ReturnedStatus(slot[j])}
    /\ UNCHANGED <<slot, guiVars>>

-----------------------------------------------------------------------------
(* DashboardController.poll and what follows it in each of its callers.    *)

\* Ready for the next callback.
Idle == gpc = "idle" /\ ~windowClosed

\* A callback calls controller.poll.
Poll(purpose) == gpc' = "poll" /\ caller' = purpose /\ UNCHANGED seen

Done == gpc' = "idle" /\ UNCHANGED <<caller, seen>>

\* The periodic poll_worker callback; application.poll does nothing outside
\* the Run step.
Tick ==
    /\ Idle
    /\ step = "RUN"
    /\ Poll("tick")
    /\ UNCHANGED <<vars, slot, wizardVars, appVars, viewVars, windowClosed>>

\* What the presenter shows once the poll has seen the worker's request.
Attached == IF owner # 0 /\ shown.job # owner
            THEN [job |-> owner, state |-> "STARTING", index |-> 0] ELSE shown

\* present_event refuses a job it does not show and an index it has passed.
Presentable(queue) ==
    \A k \in 1..Len(queue) :
        /\ queue[k].job = Attached.job
        /\ queue[k].index > IF k = 1 THEN Attached.index ELSE queue[k - 1].index

\* Mutant of PollEvents: one event is popped per poll.
PollOneEvent ==
    /\ gpc = "poll"
    /\ IF events = <<>> THEN UNCHANGED vars
       ELSE /\ events' = Tail(events)
            /\ drained' = drained + 1
            /\ lastDrained' = events[1]
            /\ UNCHANGED <<ownerVars, nextIndex, dropped, jobVars, callVars>>
    /\ shown' = IF events = <<>> THEN Attached ELSE events[1]
    /\ gpc' = IF Presentable(events) THEN "state" ELSE "raised"
    /\ UNCHANGED <<slot, wizardVars, appVars, panel, windowClosed, caller, seen>>

\* poll reads the request, drains the queue and presents every event; an event
\* the presenter refuses raises out of poll.  Only this thread changes the
\* request, so reading it and draining are one step.
PollEvents ==
    /\ gpc = "poll"
    /\ IF events = <<>> THEN UNCHANGED vars ELSE DrainEvents(Gui)
    /\ shown' = IF events = <<>> THEN Attached ELSE events[Len(events)]
    /\ panel' = [(IF Attached = shown THEN panel ELSE EmptyPanel)
                   EXCEPT !.issue = @ \/ \E k \in 1..Len(events) : events[k].state = "FAILED"]
    /\ gpc' = IF Presentable(events) THEN "state" ELSE "raised"
    /\ UNCHANGED <<slot, wizardVars, appVars, windowClosed, caller, seen>>

PollState ==
    /\ gpc = "state"
    /\ seen' = [seen EXCEPT !.state = state]
    /\ gpc' = "result"
    /\ UNCHANGED <<vars, slot, wizardVars, appVars, viewVars, windowClosed, caller>>

PollResult ==
    /\ gpc = "result"
    /\ seen' = [seen EXCEPT !.result = result]
    /\ gpc' = "issue"
    /\ UNCHANGED <<vars, slot, wizardVars, appVars, viewVars, windowClosed, caller>>

\* Mutant of SnapshotPanel: the worker's state is stored as the status.
SnapshotPanelOfState ==
    LET copied == IF seen.result = "none" THEN panel
                  ELSE [job |-> owner, status |-> seen.state, issue |-> FALSE]
    IN  [copied EXCEPT !.issue = @ \/ issue]

\* present_worker_snapshot: the result replaces the panel, the issue adds to it.
SnapshotPanel ==
    LET copied == IF seen.result = "none" THEN panel
                  ELSE [job |-> owner, status |-> seen.result, issue |-> FALSE]
    IN  [copied EXCEPT !.issue = @ \/ issue]

\* application.poll after controller.poll: the first terminal state it sees
\* takes the output of the prepared job and shows the Result page.
HasAnalysis == prepared # 0 /\ slot[prepared] = "analysis"

ReportPanel(j) == [job |-> j, status |-> ReturnedStatus(slot[j]), issue |-> FALSE]

FinishRun ==
    /\ presented' = TRUE
    /\ bundle' = IF HasAnalysis THEN prepared ELSE 0
    /\ panel' = IF HasAnalysis THEN ReportPanel(prepared) ELSE SnapshotPanel
    /\ step' = "RESULT"
    /\ exportable' = HasAnalysis
    /\ UNCHANGED <<wizardIssue, prepared>>

\* Mutant of BeginRunPage: the wizard stays on the Review page.
BeginRunPageStays ==
    /\ panel' = SnapshotPanel
    /\ UNCHANGED <<wizardVars, appVars>>

\* wizard.begin_run after start_job returned True.
BeginRunPage ==
    /\ panel' = SnapshotPanel
    /\ IF step = "REVIEW" /\ ~wizardIssue
       THEN step' = "RUN" /\ exportable' = FALSE /\ UNCHANGED wizardIssue
       ELSE wizardIssue' = TRUE /\ UNCHANGED <<step, exportable>>
    /\ UNCHANGED appVars

\* Mutant of RunEnded: a result is taken for the end of the run.
RunEndedByResult == caller = "tick" /\ seen.result # "none" /\ ~presented

RunEnded == caller = "tick" /\ seen.state \in Terminal /\ ~presented

PollIssue ==
    /\ gpc = "issue"
    /\ shown' = [shown EXCEPT !.state = seen.state]
    /\ gpc' = IF caller = "first" THEN "start" ELSE "idle"
    /\ windowClosed' = (caller = "closed")
    /\ seen' = NothingSeen
    /\ CASE RunEnded -> FinishRun
         [] caller = "second" -> BeginRunPage
         [] OTHER -> /\ panel' = [SnapshotPanel EXCEPT !.issue = @ \/ caller = "timeout"]
                     /\ UNCHANGED <<wizardVars, appVars>>
    /\ UNCHANGED <<vars, slot, caller>>

-----------------------------------------------------------------------------
(* The wizard pages before a run.                                          *)

\* Mutant of ResetPrepared: the bundle is kept.
ResetPreparedKeepsBundle ==
    prepared' = 0 /\ presented' = FALSE /\ UNCHANGED bundle

\* _reset_prepared, the router's clear included.
ResetPrepared == prepared' = 0 /\ bundle' = 0 /\ presented' = FALSE

ClearView == shown' = NothingShown /\ panel' = EmptyPanel

\* CLEAR_RESULT empties the panels and detaches the job, but leaves the progress
\* panel as it is.
ClearResult == shown' = [shown EXCEPT !.job = 0] /\ panel' = EmptyPanel

Visit(page) ==
    /\ step' = page
    /\ wizardIssue' = FALSE
    /\ exportable' = FALSE

\* The worker is left alone and the GUI stays at rest.
PageOnly == UNCHANGED <<vars, slot, windowClosed, loopVars>>

SelectSource ==
    /\ Idle /\ step = "SOURCE"
    /\ Visit("SOURCE") /\ ResetPrepared /\ ClearView
    /\ PageOnly

SelectProfileOrJob ==
    /\ Idle /\ step \in {"SOURCE", "TEST"}
    /\ wizardIssue' = FALSE
    /\ ResetPrepared
    /\ UNCHANGED <<step, exportable, viewVars>>
    /\ PageOnly

NextPage ==
    /\ Idle /\ step \in {"SOURCE", "TEST"}
    /\ step' = IF step = "SOURCE" THEN "TEST" ELSE "CONFIGURATION"
    /\ wizardIssue' = FALSE
    /\ UNCHANGED <<exportable, appVars, viewVars>>
    /\ PageOnly

Back ==
    /\ Idle /\ step \in {"TEST", "CONFIGURATION"}
    /\ Visit(IF step = "TEST" THEN "SOURCE" ELSE "TEST")
    /\ UNCHANGED <<appVars, viewVars>>
    /\ PageOnly

\* CLEAR_RESULT is refused while the presenter shows an active job; the page
\* has been left by then.
BackFromReview ==
    /\ Idle /\ step = "REVIEW"
    /\ step' = "CONFIGURATION"
    /\ exportable' = FALSE
    /\ ResetPrepared
    /\ IF shown.state \in Active
       THEN wizardIssue' = TRUE /\ panel' = [panel EXCEPT !.issue = TRUE] /\ UNCHANGED shown
       ELSE wizardIssue' = FALSE /\ ClearResult
    /\ PageOnly

LoadPreset ==
    /\ Idle /\ step # "RUN" /\ shown.state \notin Active
    /\ Visit("CONFIGURATION") /\ ResetPrepared /\ ClearView
    /\ PageOnly

\* prepare_review compiles a fresh job; no resource is opened.
Reviewed ==
    /\ prepared' = owner + 1
    /\ bundle' = 0
    /\ presented' = FALSE
    /\ step' = "REVIEW"
    /\ wizardIssue' = FALSE
    /\ ClearView

PrepareReview ==
    /\ Idle /\ step = "CONFIGURATION" /\ owner < MaxJobs
    /\ Reviewed
    /\ UNCHANGED exportable
    /\ PageOnly

PrepareReviewFails ==
    /\ Idle /\ step = "CONFIGURATION"
    /\ ResetPrepared
    /\ wizardIssue' = TRUE
    /\ panel' = [panel EXCEPT !.issue = TRUE]
    /\ UNCHANGED <<step, exportable, shown>>
    /\ PageOnly

-----------------------------------------------------------------------------
(* Run, Cancel and Close.                                                  *)

\* Mutant of RunPressed: the previous job is not reconciled first.
RunPressedUnreconciled ==
    /\ Idle /\ step = "REVIEW" /\ ~wizardIssue /\ prepared # 0
    /\ gpc' = "start" /\ UNCHANGED <<caller, seen>>
    /\ UNCHANGED <<vars, slot, wizardVars, appVars, viewVars, windowClosed>>

\* start_job first reconciles the worker's previous job, if there is one.
RunPressed ==
    /\ Idle /\ step = "REVIEW" /\ ~wizardIssue /\ prepared # 0
    /\ IF owner = 0 THEN gpc' = "start" /\ UNCHANGED <<caller, seen>> ELSE Poll("first")
    /\ UNCHANGED <<vars, slot, wizardVars, appVars, viewVars, windowClosed>>

StartJob ==
    /\ gpc = "start"
    /\ Start(Gui)
    /\ Poll("second")
    /\ UNCHANGED <<slot, wizardVars, appVars, viewVars, windowClosed>>

\* worker.start raises: it is closed, busy, or its thread does not start.
StartJobFails ==
    /\ gpc = "start"
    /\ \/ StartFails(Gui)
       \/ (closed \/ state \in Active) /\ UNCHANGED vars
    /\ wizardIssue' = TRUE
    /\ panel' = [panel EXCEPT !.issue = TRUE]
    /\ Done
    /\ UNCHANGED <<slot, step, exportable, appVars, shown, windowClosed>>

\* request_cancel looks at is_active, then cancels; the job may end between.
CancelPressed ==
    /\ Idle /\ step = "RUN" /\ state \in Active
    /\ gpc' = "cancel"
    /\ UNCHANGED <<vars, slot, wizardVars, appVars, viewVars, windowClosed, caller, seen>>

CancelJob ==
    /\ gpc = "cancel"
    /\ RequestCancel(Gui)
    /\ Poll("cancel")
    /\ UNCHANGED <<slot, wizardVars, appVars, viewVars, windowClosed>>

\* Closing the window: worker.close blocks the GUI thread, then a last poll.
ClosePressed ==
    /\ Idle
    /\ CallClose(Gui)
    /\ gpc' = "closing"
    /\ UNCHANGED <<slot, wizardVars, appVars, viewVars, windowClosed, caller, seen>>

CloseGoesOn ==
    /\ gpc = "closing"
    /\ \/ CallerCancels(Gui) \/ JoinSnapshot(Gui)
       \/ JoinCompleted(Gui)
    /\ IF cpc'[Gui] = "idle" THEN Poll("closed") ELSE UNCHANGED loopVars
    /\ UNCHANGED <<slot, wizardVars, appVars, viewVars, windowClosed>>

CloseTimesOut ==
    /\ gpc = "closing"
    /\ JoinDeadline(Gui)
    /\ Poll("timeout")
    /\ UNCHANGED <<slot, wizardVars, appVars, viewVars, windowClosed>>

-----------------------------------------------------------------------------
(* The Result page.                                                        *)

\* Modify setup keeps the copied result panel and detaches the finished job.
ModifySetup ==
    /\ Idle /\ step = "RESULT" /\ shown.state \notin Active
    /\ Visit("CONFIGURATION")
    /\ ResetPrepared
    /\ shown' = NothingShown
    /\ UNCHANGED panel
    /\ PageOnly

ReviewSameSetup ==
    /\ Idle /\ step = "RESULT" /\ shown.state \notin Active /\ owner < MaxJobs
    /\ Reviewed
    /\ exportable' = FALSE
    /\ PageOnly

StartNewTest ==
    /\ Idle /\ step = "RESULT"
    /\ Visit("SOURCE") /\ ResetPrepared /\ ClearView
    /\ PageOnly

\* export_result and save_report_bundle re-present the report they wrote.
ExportResult ==
    /\ Idle /\ step = "RESULT" /\ exportable /\ bundle # 0
    /\ panel' = ReportPanel(bundle)
    /\ wizardIssue' = FALSE
    /\ UNCHANGED <<step, exportable, appVars, shown>>
    /\ PageOnly

ExportFails ==
    /\ Idle /\ step = "RESULT" /\ exportable
    /\ panel' = [panel EXCEPT !.issue = TRUE]
    /\ wizardIssue' = TRUE
    /\ UNCHANGED <<step, exportable, appVars, shown>>
    /\ PageOnly

-----------------------------------------------------------------------------
PollStep == PollEvents \/ PollState \/ PollResult \/ PollIssue

PageStep ==
    \/ SelectSource
    \/ SelectProfileOrJob
    \/ NextPage
    \/ Back
    \/ BackFromReview
    \/ LoadPreset
    \/ PrepareReview
    \/ PrepareReviewFails
    \/ ModifySetup
    \/ ReviewSameSetup
    \/ StartNewTest
    \/ ExportResult
    \/ ExportFails

RunStep ==
    \/ RunPressed
    \/ StartJob
    \/ StartJobFails
    \/ CancelPressed
    \/ CancelJob
    \/ ClosePressed
    \/ CloseGoesOn
    \/ CloseTimesOut

DashNext ==
    \/ \E j \in Job : PublishOutput(j) \/ ServiceStep(j)
    \/ Tick
    \/ PollStep
    \/ PageStep
    \/ RunStep

DashSpec == DashInit /\ [][DashNext]_dashVars

(***************************************************************************)
(* Fairness.  Tk serves its timer queue between user events, so a tick     *)
(* that is due again and again is served (strong: user callbacks may keep  *)
(* the GUI busy in between); a callback that has begun goes on; the job    *)
(* threads are scheduled and the services return.                          *)
(***************************************************************************)
DashFairness ==
    /\ SF_dashVars(Tick)
    /\ WF_dashVars(PollStep \/ StartJob \/ StartJobFails \/ CancelJob
                     \/ CloseGoesOn \/ CloseTimesOut)
    /\ \A j \in Job : WF_dashVars(PublishOutput(j) \/ ServiceStep(j))

DashFairSpec == DashSpec /\ DashFairness

-----------------------------------------------------------------------------
(* Properties.                                                             *)

\* Every variable of the Dashboard has its type.
DashTypeOK ==
    /\ slot \in [Job -> Output]
    /\ step \in Step
    /\ wizardIssue \in BOOLEAN
    /\ exportable \in BOOLEAN
    /\ prepared \in 0..MaxJobs
    /\ bundle \in 0..MaxJobs
    /\ presented \in BOOLEAN
    /\ shown \in Event
    /\ panel \in [job : 0..MaxJobs, status : Status \cup {"none"}, issue : BOOLEAN]
    /\ windowClosed \in BOOLEAN
    /\ gpc \in {"idle", "poll", "state", "result", "issue", "start", "cancel",
                "closing", "raised"}
    /\ caller \in Purpose
    /\ seen \in [state : State, result : Status \cup {"none"}]

\* Every event the GUI drains belongs to the job it shows and has a new index,
\* so presenting it never raises and never stops the polling: a rerun cannot
\* attribute a stale event to the newly reviewed request.
EventsAttributed == gpc # "raised"

\* A job that is active while the GUI is at rest is the reviewed job, on the
\* Run page, where polling goes on and Cancel is offered: no run is orphaned.
ActiveRunIsWatched ==
    (gpc = "idle" /\ state \in Active)
        => step = "RUN" /\ shown.job = owner /\ prepared = owner

\* The Result page is shown only for the reviewed job, after the worker ended
\* it, in the state the worker ended it in.  The status on it is that job's: the
\* worker's result, or that of a report the run published, which replaces it
\* and may hide the issue; without a report both stand as the worker ended them.
ResultPageIsFinal ==
    step = "RESULT" =>
        /\ state \in Terminal
        /\ shown.job = owner /\ prepared = owner
        /\ gpc = "idle" => shown.state = state
        /\ panel.status # "none" => panel.job = owner
        /\ panel.status = result \/ (bundle # 0 /\ panel.status = "COMPLETED")
        /\ issue /\ bundle = 0 => panel.issue

\* Export is offered on the Result page only, for an analysis of the very job
\* that page is about: no bundle of an earlier run survives navigation.
ExportIsOfThisRun ==
    /\ exportable => step = "RESULT" /\ bundle # 0
    /\ bundle # 0 => step = "RESULT" /\ bundle = owner /\ slot[bundle] = "analysis"

\* The Dashboard uses the worker through its operations only, so whatever the
\* worker promises of every caller holds of the Dashboard.
UsesWorkerAsSpecified == Spec

\* The Run page is left: with services that return, every started run is
\* eventually shown as a result (or the window is closed on it).
RunIsReported == (step = "RUN") ~> (step # "RUN" \/ windowClosed)

\* docs/dashboard.md: Cancel preserves CANCELLED and cannot create a PASS or an
\* export, whatever the service had published before it saw the cancellation.
CancelCreatesNoExport ==
    (step = "RESULT" /\ shown.state = "CANCELLED" /\ owner \in cancelled)
        => ~exportable /\ panel.status # "COMPLETED"

=============================================================================
