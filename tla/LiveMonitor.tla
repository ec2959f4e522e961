------------------------------ MODULE LiveMonitor ------------------------------
(***************************************************************************)
(* One READ or LIVE_MONITOR job of the Dashboard: ReadJobService and       *)
(* LiveMonitorJobService (services.py) with the read workflows             *)
(* (workflows/read.py) on the worker's thread, over a DeviceAdapter; the   *)
(* LiveMonitorSession (live.py) that this thread and the GUI share; and    *)
(* the GUI that polls, pauses, resumes and cancels (application.py).       *)
(*                                                                         *)
(* The worker around the service is ProductJobWorker's subject: here it is *)
(* the cancellation token and the verdict.  Worker threads see no          *)
(* KeyboardInterrupt.                                                      *)
(***************************************************************************)
EXTENDS DeviceAdapter, Sequences

CONSTANTS
    Offered,        \* capabilities that a device may report
    Channels,       \* requirements of the request
    Cycles,         \* sample count of each
    Interval,       \* whether the job waits between cycles
    MaxPoints,      \* bound of the retained trace
    MaxPauses       \* bound of the model: pauses by the user

ASSUME MonitorAssumption ==
    /\ Offered \subseteq Capability
    /\ Channels \in Nat \ {0} /\ Cycles \in Nat \ {0} /\ MaxPoints \in Nat \ {0}
    /\ Interval \in BOOLEAN
    /\ MaxPauses \in Nat

VARIABLES
    jobType,        \* "READ" or "LIVE_MONITOR"
    pc,             \* where the worker's thread is
    measured,       \* the measurements of the workflow, counted
    outcome,        \* its result or why it unwinds
    slot,           \* {} or the published measurements, counted
    cancel,         \* the job's cancellation token
    worker,         \* "active" or its verdict
    points,         \* the session: the numbers of the retained points,
    total,          \*   all points,
    evicted,        \*   the points that the bound pushed out,
    paused,         \*   and whether the user paused the acquisition
    pauses,
    gui,            \* what the GUI still has to present, or "ready"
    page,           \* "RUN" or "RESULT"
    seen,           \* the worker state of its last poll
    view,           \* the live panel
    late            \* history: readings that ended since the last pause

jobVars == <<jobType, pc, measured, outcome, slot, worker>>

sessionVars == <<points, total, evicted, paused, pauses>>

guiVars == <<gui, page, seen, view>>

vars == <<adapterVars, jobVars, sessionVars, guiVars, cancel, late>>

Requested == Cycles * Channels

Live == jobType = "LIVE_MONITOR"

Step == {"start", "first", "connect", "capabilities", "sample", "read", "publish",
         "between", "interval", "slice", "disconnect", "finish", "report",
         "cleanup", "verdict", "ended"}

Outcome == {"none", "COMPLETED", "INCOMPLETE", "UNSUPPORTED", "error", "cancelled"}

\* the snapshot that the GUI or the service takes under the session's lock
Panel(active) == [points |-> points, total |-> total, evicted |-> evicted,
                  paused |-> active /\ paused, active |-> active]

Init ==
    /\ AdapterInit
    /\ jobType \in {"READ", "LIVE_MONITOR"}
    /\ pc = "start" /\ measured = 0 /\ outcome = "none" /\ slot = {}
    /\ cancel = FALSE /\ worker = "active"
    /\ points = <<>> /\ total = 0 /\ evicted = 0 /\ paused = FALSE /\ pauses = 0
    /\ gui = "ready" /\ page = "RUN" /\ seen = "active"
    /\ view = Panel(FALSE)
    /\ late = 0

(***************************************************************************)
(* Mutated forms: plausible bugs in the operators that follow them.        *)
(***************************************************************************)

\* Mutant of checkpoint: the token is looked at before the wait only.
checkpoint_deaf == ~Live \/ ~paused

\* Mutant of SampleGate: the pause is honoured between cycles only.
SampleGateOpen == TRUE

\* Mutant of present_live_monitor: the panel keeps what the last poll copied
\* once the worker's state is terminal.
PanelOnceEnded(active) == IF active THEN Panel(active) ELSE [view EXCEPT !.active = FALSE]

--------------------------------------------------------------------------------
(* The worker's thread *)

(***************************************************************************)
(* LiveMonitorSession.checkpoint: a paused job waits in slices of 50 ms    *)
(* and looks at the token in each; raise_if_cancelled for a READ job.      *)
(***************************************************************************)
checkpoint == ~Live \/ ~paused \/ cancel

\* ProductJobCancelled, from a place where the adapter is connected or not
Unwind(next) ==
    /\ outcome' = "cancelled"
    /\ pc' = next
    /\ UNCHANGED <<adapterVars, jobType, measured, slot, worker, sessionVars, guiVars,
                   cancel, late>>

Go(next) ==
    /\ pc' = next
    /\ UNCHANGED <<adapterVars, jobType, measured, outcome, slot, worker, sessionVars,
                   guiVars, cancel, late>>

start ==
    /\ pc = "start"
    /\ IF cancel THEN Unwind("cleanup") ELSE Go("first")

\* before the adapter is connected
first_checkpoint ==
    /\ pc = "first"
    /\ checkpoint
    /\ IF cancel THEN Unwind("cleanup") ELSE Go("connect")

connect ==
    /\ pc = "connect"
    /\ \/ ConnectReturns /\ pc' = "capabilities" /\ UNCHANGED outcome
       \/ ConnectRaises /\ pc' = "cleanup" /\ outcome' = "error"
    /\ UNCHANGED <<jobType, measured, slot, worker, sessionVars, guiVars, cancel, late>>

\* what an adapter's hook that raises may have done to the connection
Trouble == UNCHANGED adapterVars \/ LinkLost \/ LinkRenewed

\* What a result may say: n measurements, and whether the device lacks one of
\* the requirements.
ResultAccepted(status, n, gap) ==
    /\ n <= Requested
    /\ status = "COMPLETED" => ~gap /\ n = Requested
    /\ status = "UNSUPPORTED" => gap /\ n = 0
    /\ status = "INCOMPLETE" => ~gap /\ n < Requested

\* the workflow builds its result, which may refuse itself
Returned(status, n, gap) == IF ResultAccepted(status, n, gap) THEN status ELSE "error"

\* one requirement that the device does not offer, and nothing is read
get_capabilities ==
    /\ pc = "capabilities"
    /\ \/ \E c \in Offered :
            /\ GetCapabilities(c)
            /\ IF c.plan THEN pc' = "sample" /\ UNCHANGED outcome
                         ELSE pc' = "disconnect" /\ outcome' = Returned("UNSUPPORTED", measured, TRUE)
       \/ pc' = "disconnect" /\ outcome' = "error" /\ Trouble
    /\ UNCHANGED <<jobType, measured, slot, worker, sessionVars, guiVars, cancel, late>>

SampleGate == checkpoint

\* before each sample
sample ==
    /\ pc = "sample"
    /\ SampleGate
    /\ IF cancel THEN Unwind("disconnect") ELSE Go("read")

\* Where the workflow goes after its n-th measurement.  Only a live job waits,
\* after every cycle but the last.
After(n) ==
    IF n = Requested THEN "disconnect"
    ELSE IF Live /\ Interval /\ n % Channels = 0 THEN "between"
    ELSE "sample"

OutcomeAfter(n) == IF n = Requested THEN Returned("COMPLETED", n, FALSE) ELSE outcome

\* read_measurement or read_digital_state: a measurement, the end of the
\* replay, or an error
read ==
    /\ pc = "read"
    /\ \/ /\ measured' = measured + 1
          /\ late' = IF paused THEN late + 1 ELSE late
          /\ IF Live
             THEN pc' = "publish" /\ UNCHANGED outcome
             ELSE pc' = After(measured') /\ outcome' = OutcomeAfter(measured')
          /\ UNCHANGED adapterVars
       \/ /\ \/ outcome' = Returned("INCOMPLETE", measured, FALSE) /\ UNCHANGED adapterVars
             \/ outcome' = "error" /\ Trouble
          /\ pc' = "disconnect"
          /\ UNCHANGED <<measured, late>>
    /\ UNCHANGED <<jobType, slot, worker, sessionVars, guiVars, cancel>>

\* LiveMonitorSession.publish: the oldest point makes room
Retained == Append(points, total + 1)

Publish ==
    /\ total' = total + 1
    /\ IF Len(Retained) > MaxPoints
       THEN points' = Tail(Retained) /\ evicted' = evicted + 1
       ELSE points' = Retained /\ UNCHANGED evicted
    /\ UNCHANGED <<paused, pauses>>

\* The observer of LiveMonitorJobService: the point, and after a whole cycle
\* the progress, which raises once the job is cancelled.  The clock may refuse.
publish ==
    /\ pc = "publish"
    /\ \/ /\ Publish
          /\ IF measured % Channels = 0 /\ cancel
             THEN pc' = "disconnect" /\ outcome' = "cancelled"
             ELSE pc' = After(measured) /\ outcome' = OutcomeAfter(measured)
       \/ /\ pc' = "disconnect" /\ outcome' = "error"
          /\ UNCHANGED sessionVars
    /\ UNCHANGED <<adapterVars, jobType, measured, slot, worker, guiVars, cancel, late>>

\* the checkpoint before wait_interval, and the one in each of its slices
between ==
    /\ pc \in {"between", "interval"}
    /\ checkpoint
    /\ IF cancel THEN Unwind("disconnect")
                 ELSE Go(IF pc = "between" THEN "interval" ELSE "slice")

\* a slice of the interval; how many there are is a matter of time
wait_interval ==
    /\ pc = "slice"
    /\ IF cancel THEN Unwind("disconnect")
                 ELSE \E next \in {"interval", "sample"} : Go(next)

\* The finally block of the workflow; its error replaces what it interrupts.
\* An adapter whose link was lost has nothing left to disconnect.
disconnect ==
    /\ pc = "disconnect"
    /\ \/ state = "DISCONNECTED" /\ UNCHANGED <<adapterVars, outcome>>
       \/ \E answer \in {"returned", "raised"} :
            /\ Disconnect(answer)
            /\ outcome' = IF answer = "raised" THEN "error" ELSE outcome
    /\ pc' = IF outcome' \in {"error", "cancelled"} THEN "cleanup" ELSE "finish"
    /\ UNCHANGED <<jobType, measured, slot, worker, sessionVars, guiVars, cancel, late>>

\* the output is published once the workflow returned and nobody cancelled
finish ==
    /\ pc = "finish"
    /\ IF cancel
       THEN Unwind("cleanup")
       ELSE /\ slot' = {measured}
            /\ pc' = "report"
            /\ UNCHANGED <<adapterVars, jobType, measured, outcome, worker, sessionVars,
                           guiVars, cancel, late>>

\* the last progress, which raises once the job is cancelled
report ==
    /\ pc = "report"
    /\ IF cancel THEN Unwind("cleanup") ELSE Go("cleanup")

\* cleanup resumes the session; by now no adapter is left to disconnect
cleanup ==
    /\ pc = "cleanup"
    /\ state = "DISCONNECTED"
    /\ pc' = "verdict"
    /\ paused' = FALSE
    /\ UNCHANGED <<adapterVars, jobType, measured, outcome, slot, worker, points, total,
                   evicted, pauses, guiVars, cancel, late>>

\* _finish_job
verdict ==
    /\ pc = "verdict"
    /\ worker' = IF outcome = "error" THEN "FAILED"
                 ELSE IF cancel THEN "CANCELLED"
                 ELSE "SUCCEEDED"
    /\ pc' = "ended"
    /\ UNCHANGED <<adapterVars, jobType, measured, outcome, slot, sessionVars, guiVars,
                   cancel, late>>

WorkerThread ==
    \/ start
    \/ first_checkpoint
    \/ connect
    \/ get_capabilities
    \/ sample
    \/ read
    \/ publish
    \/ between
    \/ wait_interval
    \/ disconnect
    \/ finish
    \/ report
    \/ cleanup
    \/ verdict

--------------------------------------------------------------------------------
(* The GUI thread.  A handler works in two steps: it acts, and then copies    *)
(* a snapshot into the panel.                                                 *)

GuiOnly == UNCHANGED <<adapterVars, jobVars, points, total, evicted>>

\* the first half of poll: the worker's state
poll ==
    /\ gui = "ready" /\ page = "RUN"
    /\ seen' = worker
    /\ gui' = "polled"
    /\ GuiOnly
    /\ UNCHANGED <<paused, pauses, page, view, cancel, late>>

\* _require_live_session(active=True)
Controls == gui = "ready" /\ Live /\ page = "RUN" /\ seen = "active"

pause_live_monitor ==
    /\ Controls
    /\ ~paused => pauses < MaxPauses
    /\ paused' = TRUE
    /\ IF paused THEN UNCHANGED <<pauses, late>> ELSE pauses' = pauses + 1 /\ late' = 0
    /\ gui' = "controlled"
    /\ GuiOnly
    /\ UNCHANGED <<page, seen, view, cancel>>

resume_live_monitor ==
    /\ Controls
    /\ paused' = FALSE
    /\ gui' = "controlled"
    /\ GuiOnly
    /\ UNCHANGED <<pauses, page, seen, view, cancel, late>>

\* its window is presentation only; so is what it does later on the result page
set_live_time_window ==
    /\ gui = "ready" /\ Live
    /\ gui' = "windowed"
    /\ GuiOnly
    /\ UNCHANGED <<paused, pauses, page, seen, view, cancel, late>>

\* the snapshot is taken after the state was read
present_live_monitor(active) == Panel(active)

\* The second half of every handler.  A terminal poll ends the run's page.
present ==
    /\ gui # "ready"
    /\ gui' = "ready"
    /\ view' = IF Live
               THEN present_live_monitor(gui = "controlled" \/ seen = "active")
               ELSE view
    /\ page' = IF gui = "polled" /\ seen # "active" THEN "RESULT" ELSE page
    /\ GuiOnly
    /\ UNCHANGED <<paused, pauses, seen, cancel, late>>

request_cancel ==
    /\ gui = "ready" /\ page = "RUN"
    /\ worker = "active"
    /\ cancel' = TRUE
    /\ GuiOnly
    /\ UNCHANGED <<paused, pauses, guiVars, late>>

GuiThread ==
    \/ poll
    \/ pause_live_monitor
    \/ resume_live_monitor
    \/ set_live_time_window
    \/ present
    \/ request_cancel

Next == WorkerThread \/ GuiThread

Spec == Init /\ [][Next]_vars

\* the worker's thread runs while it is not blocked; every adapter call returns
FairSpec == Spec /\ WF_vars(WorkerThread)

--------------------------------------------------------------------------------
(* Properties *)

LiveTypeOK ==
    /\ AdapterTypeOK
    /\ jobType \in {"READ", "LIVE_MONITOR"}
    /\ pc \in Step
    /\ measured \in 0..Requested
    /\ outcome \in Outcome
    /\ slot \in SUBSET (0..Requested)
    /\ cancel \in BOOLEAN
    /\ worker \in {"active", "SUCCEEDED", "CANCELLED", "FAILED"}
    /\ points \in Seq(1..Requested) /\ Len(points) <= MaxPoints
    /\ total \in 0..Requested /\ evicted \in 0..Requested
    /\ paused \in BOOLEAN /\ pauses \in 0..MaxPauses
    /\ gui \in {"ready", "polled", "controlled", "windowed"}
    /\ page \in {"RUN", "RESULT"}
    /\ seen \in {"active", "SUCCEEDED", "CANCELLED", "FAILED"}
    /\ late \in Nat

(***************************************************************************)
(* Once the user paused, at most the reading that was under way is taken   *)
(* before the job is resumed or ends (checkpoint, wait_interval and the    *)
(* places where the workflow calls them).                                  *)
(***************************************************************************)
PauseStopsReading == paused => late <= 1

(***************************************************************************)
(* A job that succeeded released its source and published every            *)
(* measurement it took, each of them a point of the trace; and the result  *)
(* page shows the whole final trace: nothing read after the last copied    *)
(* snapshot is missing and a pause that raced with the end is not shown    *)
(* (LiveMonitorJobService.run, _finish_job, DashboardApplication.poll).    *)
(***************************************************************************)
TerminalViewIsComplete ==
    /\ worker = "SUCCEEDED" =>
          /\ ~held
          /\ slot = {measured}
          /\ Live => total = measured
          /\ outcome = "COMPLETED" => measured = Requested
    /\ page = "RESULT" /\ Live =>
          /\ view.total = total /\ view.points = points /\ view.evicted = evicted
          /\ Len(view.points) + view.evicted = view.total
          /\ gui = "ready" => ~view.active /\ ~view.paused

(***************************************************************************)
(* A cancelled job ends, whatever it was doing and however often the user  *)
(* paused it (checkpoint waits with a timeout and looks at the token).     *)
(***************************************************************************)
CancelEndsPause == cancel ~> worker # "active"

================================================================================
