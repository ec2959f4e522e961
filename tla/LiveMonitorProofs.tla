--------------------------- MODULE LiveMonitorProofs ---------------------------
(***************************************************************************)
(* One READ or LIVE_MONITOR job and the GUI that watches it, for every     *)
(* number of channels and cycles, every bound of the trace and any number  *)
(* of pauses.                                                              *)
(*                                                                         *)
(* The invariant has a part for each thing that the two threads share: the *)
(* adapter follows the place of the workflow; the evidence counted by the  *)
(* workflow, the trace and the output slot agree at every place; a paused  *)
(* job is not past the gate of a reading, unless it was before the pause;  *)
(* and what the GUI has seen is what the worker was.                       *)
(***************************************************************************)
EXTENDS LiveMonitor, SequenceTheorems, TLAPS

Result == {"COMPLETED", "INCOMPLETE", "UNSUPPORTED"}

\* the places where the workflow holds the adapter
Connected == {"capabilities", "sample", "read", "publish", "between", "interval",
              "slice", "disconnect"}

\* the places before the end of the acquisition
Acquiring == {"start", "first", "connect", "capabilities", "sample", "read",
              "between", "interval", "slice"}

Source ==
    /\ level = 0 /\ alarm = FALSE /\ configuration = FALSE
    /\ state \in {"DISCONNECTED", "CONNECTED_READ_ONLY", "CAPABILITIES_CONFIRMED"}
    /\ pc \notin Connected => state = "DISCONNECTED"
    /\ pc \in Connected /\ state = "DISCONNECTED" => pc = "disconnect" /\ ~held
    /\ held /\ pc \notin Connected => outcome = "error"

Evidence ==
    /\ pc \in Acquiring => outcome = "none" /\ measured < Requested
    /\ pc \in {"start", "first", "connect", "capabilities"} => measured = 0
    /\ pc = "publish" => outcome = "none" /\ Live
    /\ pc \in {"disconnect", "cleanup", "verdict", "ended"} => outcome # "none"
    /\ pc \in {"finish", "report"} => outcome \in Result
    /\ outcome = "COMPLETED" => measured = Requested
    /\ outcome = "cancelled" => cancel
    /\ pc \in {"report", "cleanup", "verdict", "ended"} /\ outcome \in Result => slot = {measured}
    /\ worker = "active" <=> pc # "ended"
    /\ worker = "SUCCEEDED" => outcome \in Result

Trace ==
    /\ Len(points) + evicted = total
    /\ total <= measured
    /\ Live /\ outcome # "error" => total = IF pc = "publish" THEN measured - 1 ELSE measured

Pausing ==
    /\ paused => Live /\ late <= 1
    /\ paused /\ pc = "read" => late = 0

Watching ==
    /\ seen # "active" => worker = seen
    /\ page = "RESULT" => seen # "active"
    /\ gui \in {"polled", "controlled"} => page = "RUN"
    /\ page = "RESULT" /\ Live =>
          /\ view.total = total /\ view.points = points /\ view.evicted = evicted
          /\ ~view.active /\ ~view.paused

LiveInv ==
    /\ LiveTypeOK
    /\ Source
    /\ Evidence
    /\ Trace
    /\ Pausing
    /\ Watching

\* There is something to measure.
LEMMA RequestedPositive == Requested \in Nat \ {0}
BY MonitorAssumption DEF Requested

\* No result that the workflows build is one that the class refuses.
LEMMA ResultsAreAccepted ==
  /\ Returned("COMPLETED", Requested, FALSE) = "COMPLETED"
  /\ Returned("UNSUPPORTED", 0, TRUE) = "UNSUPPORTED"
  /\ \A n \in Nat : n < Requested => Returned("INCOMPLETE", n, FALSE) = "INCOMPLETE"
BY RequestedPositive DEF Returned, ResultAccepted

LEMMA LastReadingCompletes ==
  ASSUME NEW n
  PROVE  OutcomeAfter(n) = IF n = Requested THEN "COMPLETED" ELSE outcome
BY ResultsAreAccepted DEF OutcomeAfter

(***************************************************************************)
(* The worker's thread.  The adapter moves only in connect, in             *)
(* get_capabilities and in disconnect.                                     *)
(***************************************************************************)

\* Every step of the worker keeps the adapter with its place.
LEMMA WorkerKeepsSource ==
  ASSUME LiveInv, WorkerThread
  PROVE  Source' /\ AdapterTypeOK'
<1> USE DEF LiveInv, Source, LiveTypeOK, AdapterTypeOK, AdapterState, Connected
<1>9. ASSUME Trouble, pc \in Connected, state # "DISCONNECTED", pc' = "disconnect"
      PROVE  Source' /\ AdapterTypeOK'
  <2>1. CASE UNCHANGED adapterVars
    BY <1>9, <2>1 DEF adapterVars
  <2>2. CASE LinkLost
    BY <1>9, <2>2 DEF LinkLost, ResetState
  <2>3. CASE LinkRenewed
    BY <1>9, <2>3 DEF LinkRenewed
  <2> QED BY <1>9, <2>1, <2>2, <2>3 DEF Trouble
<1>1. CASE start \/ first_checkpoint \/ finish \/ report
  BY <1>1 DEF start, first_checkpoint, finish, report, Unwind, Go, adapterVars, Evidence, Acquiring,
              Result
<1>2. CASE sample \/ between \/ wait_interval
  BY <1>2 DEF sample, between, wait_interval, Unwind, Go, adapterVars
<1>3. CASE connect
  BY <1>3 DEF connect, ConnectReturns, ConnectRaises, ResetState
<1>4. CASE get_capabilities
  <2>1. CASE \E c \in Offered : GetCapabilities(c)
    <3>1. pc = "capabilities" /\ pc' \in {"sample", "disconnect"}
      BY <1>4 DEF get_capabilities
    <3>2. PICK c \in Capability : GetCapabilities(c)
      BY <2>1, MonitorAssumption
    <3> QED BY <3>1, <3>2 DEF GetCapabilities
  <2>2. CASE Trouble /\ pc' = "disconnect"
    BY <1>4, <1>9, <2>2 DEF get_capabilities
  <2> QED BY <1>4, <2>1, <2>2 DEF get_capabilities
<1>5. CASE read
  <2>1. CASE UNCHANGED adapterVars
    BY <1>5, <2>1 DEF read, After, adapterVars
  <2>2. CASE Trouble /\ pc' = "disconnect"
    BY <1>5, <1>9, <2>2 DEF read
  <2> QED BY <1>5, <2>1, <2>2 DEF read
<1>6. CASE publish
  BY <1>6 DEF publish, After, adapterVars
<1>7. CASE disconnect
  <2>1. pc' \in {"cleanup", "finish"}
    BY <1>7 DEF disconnect
  <2>2. CASE state = "DISCONNECTED" /\ UNCHANGED <<adapterVars, outcome>>
    BY <1>7, <2>1, <2>2 DEF disconnect, adapterVars
  <2>3. ASSUME NEW answer \in {"returned", "raised"}, Disconnect(answer),
               outcome' = IF answer = "raised" THEN "error" ELSE outcome
        PROVE  Source' /\ AdapterTypeOK'
    BY <2>1, <2>3 DEF Disconnect, StopAnswers, MustStop, OutputState, Raised, ResetState
  <2> QED BY <1>7, <2>2, <2>3 DEF disconnect
<1>8. CASE cleanup \/ verdict
  BY <1>8 DEF cleanup, verdict, adapterVars
<1> QED BY <1>1, <1>2, <1>3, <1>4, <1>5, <1>6, <1>7, <1>8 DEF WorkerThread

\* What a place of the workflow does to the counts, the trace and the verdict:
\* the steps that only move on or unwind.
LEMMA MovesKeepEvidence ==
  ASSUME LiveInv,
         start \/ first_checkpoint \/ sample \/ between \/ wait_interval \/ finish \/ report
  PROVE  Evidence' /\ Trace' /\ Pausing'
<1> USE DEF LiveInv, Evidence, Acquiring, Result
<1>1. CASE start \/ first_checkpoint
  BY <1>1 DEF start, first_checkpoint, Unwind, Go, Trace, Pausing, sessionVars, Live
<1>2. CASE sample
  BY <1>2 DEF sample, SampleGate, checkpoint, Unwind, Go, Trace, Pausing, sessionVars, Live
<1>3. CASE between \/ wait_interval
  BY <1>3 DEF between, wait_interval, Unwind, Go, Trace, Pausing, sessionVars, Live
<1>4. CASE finish \/ report
  BY <1>4 DEF finish, report, Unwind, Go, Trace, Pausing, sessionVars, Live
<1> QED BY <1>1, <1>2, <1>3, <1>4

\* A reading counts once, and was let through before the pause.
LEMMA ReadKeepsEvidence ==
  ASSUME LiveInv, read
  PROVE  Evidence' /\ Trace' /\ Pausing' /\ measured' \in 0..Requested /\ late' \in Nat
<1>1. pc = "read" /\ outcome = "none" /\ measured < Requested /\ measured \in Nat
      /\ Requested \in Nat /\ late \in Nat
  BY RequestedPositive DEF read, LiveInv, Evidence, Acquiring, LiveTypeOK
<1>2. UNCHANGED <<jobType, slot, worker, points, total, evicted, paused, cancel>>
  BY DEF read, sessionVars
<1>3. CASE /\ measured' = measured + 1
           /\ late' = IF paused THEN late + 1 ELSE late
           /\ IF Live
              THEN pc' = "publish" /\ UNCHANGED outcome
              ELSE pc' = After(measured') /\ outcome' = OutcomeAfter(measured')
  <2>1. Evidence'
    <3>1. Live \/ outcome' = IF measured' = Requested THEN "COMPLETED" ELSE outcome
      BY <1>3, LastReadingCompletes
    <3> QED
      BY <1>1, <1>2, <1>3, <3>1 DEF LiveInv, Evidence, Acquiring, Result, After, Live
  <2>2. Trace'
    BY <1>1, <1>2, <1>3 DEF LiveInv, LiveTypeOK, Trace, Live
  <2>3. Pausing'
    BY <1>1, <1>2, <1>3 DEF LiveInv, Pausing, Live
  <2> QED BY <1>1, <1>3, <2>1, <2>2, <2>3
<1>4. CASE outcome' \in {"INCOMPLETE", "error"} /\ pc' = "disconnect" /\ UNCHANGED <<measured, late>>
  BY <1>1, <1>2, <1>4 DEF LiveInv, Evidence, Acquiring, Result, Trace, Pausing, Live
<1> QED BY <1>1, <1>3, <1>4, ResultsAreAccepted DEF read

\* The trace keeps its newest points and counts the others.
LEMMA RetainedFacts ==
  ASSUME LiveInv, total < Requested
  PROVE  /\ Retained \in Seq(1..Requested)
         /\ Len(Retained) = Len(points) + 1
         /\ Tail(Retained) \in Seq(1..Requested)
         /\ Len(Tail(Retained)) = Len(points)
<1>1. points \in Seq(1..Requested) /\ total \in Nat /\ Requested \in Nat /\ total + 1 \in 1..Requested
  BY RequestedPositive DEF LiveInv, LiveTypeOK
<1>2. /\ Retained \in Seq(1..Requested)
      /\ Len(Retained) = Len(points) + 1
      /\ Len(points) \in Nat
  BY <1>1, AppendProperties, LenProperties DEF Retained
<1>3. Retained # <<>>
  BY <1>2, EmptySeq
<1> QED BY <1>2, <1>3, HeadTailProperties

\* Publishing a point keeps the trace with the measurements.
LEMMA PublishKeepsEvidence ==
  ASSUME LiveInv, publish
  PROVE  /\ Evidence' /\ Trace' /\ Pausing'
         /\ points' \in Seq(1..Requested) /\ Len(points') <= MaxPoints
         /\ total' \in 0..Requested /\ evicted' \in 0..Requested
<1>1. /\ pc = "publish" /\ outcome = "none" /\ Live /\ total = measured - 1
      /\ measured \in 0..Requested /\ total \in 0..Requested /\ evicted \in 0..Requested
      /\ Requested \in Nat /\ MaxPoints \in Nat
  BY RequestedPositive, MonitorAssumption DEF publish, LiveInv, Evidence, Trace, LiveTypeOK
<1>2. UNCHANGED <<jobType, measured, slot, worker, cancel, late, paused>>
  BY DEF publish, Publish, sessionVars
<1>3. points \in Seq(1..Requested) /\ Len(points) \in Nat /\ Len(points) <= MaxPoints
      /\ Len(points) + evicted = total
  BY LenProperties DEF LiveInv, LiveTypeOK, Trace
<1>4. CASE pc' = "disconnect" /\ outcome' = "error" /\ UNCHANGED sessionVars
  <2>1. Evidence'
    BY <1>1, <1>2, <1>4 DEF LiveInv, Evidence, Acquiring, Result
  <2>2. Trace' /\ Pausing'
    BY <1>1, <1>2, <1>4 DEF LiveInv, Trace, Pausing, Live, sessionVars
  <2> QED BY <1>1, <1>3, <1>4, <2>1, <2>2 DEF sessionVars
<1>5. CASE /\ Publish
           /\ \/ pc' = "disconnect" /\ outcome' = "cancelled" /\ cancel
              \/ pc' = After(measured) /\ outcome' = OutcomeAfter(measured)
  <2>1. /\ pc' \in {"disconnect", "between", "sample"}
        /\ outcome' \in {"none", "cancelled", "COMPLETED"}
        /\ outcome' = "COMPLETED" => measured = Requested
        /\ outcome' = "cancelled" => cancel
        /\ pc' = "disconnect" <=> outcome' # "none"
        /\ outcome' = "none" => measured # Requested
    BY <1>1, <1>5, ResultsAreAccepted DEF After, OutcomeAfter
  <2>2. Evidence'
    BY <1>1, <1>2, <2>1 DEF LiveInv, Evidence, Acquiring, Result, Live
  <2>3. /\ points' \in Seq(1..Requested) /\ Len(points') <= MaxPoints
        /\ total' = measured
        /\ evicted' \in {evicted, evicted + 1}
        /\ Len(points') + evicted' = total'
    <3>1. /\ Retained \in Seq(1..Requested) /\ Len(Retained) = Len(points) + 1
          /\ Tail(Retained) \in Seq(1..Requested) /\ Len(Tail(Retained)) = Len(points)
      BY <1>1, RetainedFacts
    <3>2. CASE Len(Retained) > MaxPoints
      <4>1. points' = Tail(Retained) /\ evicted' = evicted + 1 /\ total' = total + 1
        BY <1>5, <3>2 DEF Publish
      <4>2. points' \in Seq(1..Requested) /\ Len(points') = Len(points)
        BY <3>1, <4>1
      <4>3. Len(points') + evicted' = total' /\ total' = measured
        BY <1>1, <1>3, <4>1, <4>2
      <4> QED BY <1>3, <4>1, <4>2, <4>3
    <3>3. CASE ~(Len(Retained) > MaxPoints)
      <4>1. points' = Retained /\ evicted' = evicted /\ total' = total + 1
        BY <1>5, <3>3 DEF Publish
      <4>2. points' \in Seq(1..Requested) /\ Len(points') = Len(points) + 1
        BY <3>1, <4>1
      <4>3. Len(points') + evicted' = total' /\ total' = measured
        BY <1>1, <1>3, <4>1, <4>2
      <4>4. Len(points') <= MaxPoints
        BY <1>1, <1>3, <3>1, <3>3, <4>2
      <4> QED BY <4>1, <4>2, <4>3, <4>4
    <3> QED BY <3>2, <3>3
  <2>4. Len(points') \in Nat
    BY <2>3, LenProperties
  <2>5. evicted' \in 0..Requested
    BY <1>1, <2>3, <2>4
  <2>6. Trace'
    BY <1>1, <1>2, <2>1, <2>3 DEF Trace, Live
  <2>7. Pausing'
    BY <1>1, <1>2, <2>1 DEF LiveInv, Pausing, Live
  <2> QED BY <1>1, <2>2, <2>3, <2>5, <2>6, <2>7
<1> QED BY <1>4, <1>5 DEF publish

\* The adapter's calls, the clean-up and the verdict.
LEMMA CallsKeepEvidence ==
  ASSUME LiveInv, connect \/ get_capabilities \/ disconnect \/ cleanup \/ verdict
  PROVE  Evidence' /\ Trace' /\ Pausing'
<1> USE DEF LiveInv, Evidence, Acquiring, Result
<1>1. CASE connect
  BY <1>1 DEF connect, Trace, Pausing, sessionVars, Live
<1>2. CASE get_capabilities
  BY <1>2, ResultsAreAccepted DEF get_capabilities, Trace, Pausing, sessionVars, Live
<1>3. CASE disconnect
  <2>1. outcome' \in {outcome, "error"}
    BY <1>3 DEF disconnect
  <2>2. /\ pc = "disconnect"
        /\ pc' = IF outcome' \in {"error", "cancelled"} THEN "cleanup" ELSE "finish"
        /\ UNCHANGED <<jobType, measured, slot, worker, sessionVars, cancel, late>>
    BY <1>3 DEF disconnect
  <2>3. outcome \in {"COMPLETED", "INCOMPLETE", "UNSUPPORTED", "error", "cancelled"}
    BY <2>2 DEF LiveTypeOK, Outcome
  <2> QED BY <2>1, <2>2, <2>3 DEF Trace, Pausing, sessionVars, Live
<1>4. CASE cleanup
  BY <1>4 DEF cleanup, Trace, Pausing, Live
<1>5. CASE verdict
  <2>1. outcome \in {"COMPLETED", "INCOMPLETE", "UNSUPPORTED", "error", "cancelled"}
    BY <1>5 DEF verdict, LiveTypeOK, Outcome
  <2> QED BY <1>5, <2>1 DEF verdict, Trace, Pausing, sessionVars, Live
<1> QED BY <1>1, <1>2, <1>3, <1>4, <1>5

\* The worker leaves the GUI alone, and after its verdict it takes no step.
LEMMA WorkerKeepsWatching ==
  ASSUME LiveInv, WorkerThread
  PROVE  Watching' /\ UNCHANGED <<jobType, guiVars>>
<1>1. pc # "ended" /\ UNCHANGED <<jobType, guiVars>>
  BY DEF WorkerThread, start, first_checkpoint, connect, get_capabilities, sample, read, publish,
         between, wait_interval, disconnect, finish, report, cleanup, verdict, Unwind, Go
<1>2. worker = "active" /\ seen = "active" /\ page = "RUN"
  BY <1>1 DEF LiveInv, Evidence, Watching, LiveTypeOK
<1> QED BY <1>1, <1>2 DEF LiveInv, Watching, guiVars

\* Types, of what the worker's steps change.
LEMMA WorkerKeepsTypes ==
  ASSUME LiveInv, WorkerThread
  PROVE  LiveTypeOK'
<1>1. AdapterTypeOK' /\ UNCHANGED <<jobType, guiVars>>
  BY WorkerKeepsSource, WorkerKeepsWatching
<1>2. CASE start \/ first_checkpoint \/ sample \/ between \/ wait_interval \/ report
  <2>1. /\ pc' \in Step /\ outcome' \in {outcome, "cancelled"}
        /\ UNCHANGED <<measured, slot, worker, sessionVars, cancel, late>>
    BY <1>2 DEF start, first_checkpoint, sample, between, wait_interval, report, Unwind, Go, Step
  <2> QED
    BY <1>1, <2>1 DEF LiveInv, LiveTypeOK, Outcome, sessionVars, guiVars
<1>3. CASE connect \/ get_capabilities
  <2>1. /\ pc' \in Step /\ outcome' \in {outcome, "error", "UNSUPPORTED"}
        /\ UNCHANGED <<measured, slot, worker, sessionVars, cancel, late>>
    BY <1>3, ResultsAreAccepted DEF connect, get_capabilities, Step, LiveInv, Evidence
  <2> QED
    BY <1>1, <2>1 DEF LiveInv, LiveTypeOK, Outcome, sessionVars, guiVars
<1>8. CASE cleanup
  BY <1>1, <1>8 DEF cleanup, LiveInv, LiveTypeOK, Step, guiVars
<1>9. CASE verdict
  <2>1. pc' \in Step /\ worker' \in {"FAILED", "CANCELLED", "SUCCEEDED"}
    BY <1>9 DEF verdict, Step
  <2>2. UNCHANGED <<measured, outcome, slot, sessionVars, cancel, late>>
    BY <1>9 DEF verdict
  <2> QED
    BY <1>1, <2>1, <2>2 DEF LiveInv, LiveTypeOK, sessionVars, guiVars
<1>4. CASE finish
  <2>1. /\ pc' \in Step /\ outcome' \in {outcome, "cancelled"} /\ slot' \in {slot, {measured}}
        /\ UNCHANGED <<measured, worker, sessionVars, cancel, late>>
    BY <1>4 DEF finish, Unwind, Step
  <2> QED
    BY <1>1, <2>1 DEF LiveInv, LiveTypeOK, Outcome, sessionVars, guiVars
<1>5. CASE disconnect
  BY <1>1, <1>5 DEF disconnect, LiveInv, LiveTypeOK, Step, Outcome, sessionVars, guiVars
<1>6. CASE read
  <2>1. pc' \in Step /\ outcome' \in Outcome
    BY <1>6 DEF read, After, OutcomeAfter, Returned, LiveInv, LiveTypeOK, Step, Outcome
  <2> QED
    BY <1>1, <1>6, <2>1, ReadKeepsEvidence DEF read, LiveInv, LiveTypeOK, sessionVars, guiVars
<1>7. CASE publish
  <2>1. pc' \in Step /\ outcome' \in Outcome
    BY <1>7 DEF publish, After, OutcomeAfter, Returned, LiveInv, LiveTypeOK, Step, Outcome
  <2>2. paused' = paused /\ pauses' = pauses
    BY <1>7 DEF publish, Publish, sessionVars
  <2> QED
    BY <1>1, <1>7, <2>1, <2>2, PublishKeepsEvidence DEF publish, LiveInv, LiveTypeOK, guiVars
<1> QED BY <1>2, <1>3, <1>4, <1>5, <1>6, <1>7, <1>8, <1>9 DEF WorkerThread

LEMMA WorkerKeepsInv ==
  ASSUME LiveInv, WorkerThread
  PROVE  LiveInv'
BY WorkerKeepsSource, WorkerKeepsWatching, WorkerKeepsTypes, MovesKeepEvidence, ReadKeepsEvidence,
   PublishKeepsEvidence, CallsKeepEvidence
   DEF WorkerThread, LiveInv

(***************************************************************************)
(* The GUI thread.                                                         *)
(***************************************************************************)

\* The GUI sets the pause and the token and copies what the session holds;
\* what it copies after a terminal poll is final, for the worker has stopped.
LEMMA GuiKeepsInv ==
  ASSUME LiveInv, GuiThread
  PROVE  LiveInv'
<1>1. /\ UNCHANGED <<adapterVars, jobVars, points, total, evicted>>
      /\ cancel' \in BOOLEAN /\ (cancel => cancel')
  BY DEF GuiThread, poll, pause_live_monitor, resume_live_monitor, set_live_time_window, present,
         request_cancel, GuiOnly, LiveInv, LiveTypeOK
<1>2. Source' /\ Evidence' /\ Trace'
  <2>1. Source'
    BY <1>1 DEF LiveInv, Source, adapterVars, jobVars
  <2>2. Evidence'
    BY <1>1 DEF LiveInv, Evidence, Live, jobVars
  <2>3. Trace'
    BY <1>1 DEF LiveInv, Trace, Live, jobVars
  <2> QED BY <2>1, <2>2, <2>3
<1>3. Pausing'
  BY <1>1 DEF GuiThread, poll, pause_live_monitor, resume_live_monitor, set_live_time_window,
              present, request_cancel, LiveInv, LiveTypeOK, Pausing, Live, Controls, jobVars
<1>4. Watching'
  <2>1. CASE poll
    BY <1>1, <2>1 DEF poll, LiveInv, LiveTypeOK, Watching, Live, jobVars
  <2>2. CASE pause_live_monitor \/ resume_live_monitor
    BY <1>1, <2>2 DEF pause_live_monitor, resume_live_monitor, Controls, LiveInv, Watching, Live,
                      jobVars
  <2>3. CASE set_live_time_window \/ request_cancel
    BY <1>1, <2>3 DEF set_live_time_window, request_cancel, LiveInv, Watching, Live, jobVars, guiVars
  <2>4. CASE present
    <3>1. /\ gui' = "ready" /\ seen' = seen
          /\ page' = IF gui = "polled" /\ seen # "active" THEN "RESULT" ELSE page
          /\ Live => view' = Panel(gui = "controlled" \/ seen = "active")
      BY <2>4 DEF present, present_live_monitor
    <3>2. page' = "RESULT" => seen # "active" /\ gui # "controlled"
      BY <3>1 DEF LiveInv, Watching
    <3>3. page' = "RESULT" /\ Live => view' = Panel(FALSE)
      BY <3>1, <3>2
    <3> QED BY <1>1, <3>1, <3>2, <3>3 DEF LiveInv, Watching, Panel, Live, jobVars
  <2> QED BY <2>1, <2>2, <2>3, <2>4 DEF GuiThread
<1>5. LiveTypeOK'
  <2>1. AdapterTypeOK'
    BY <1>1 DEF LiveInv, LiveTypeOK, AdapterTypeOK, adapterVars
  <2>2. /\ paused' \in BOOLEAN /\ pauses' \in 0..MaxPauses /\ late' \in Nat
        /\ gui' \in {"ready", "polled", "controlled", "windowed"}
        /\ page' \in {"RUN", "RESULT"}
        /\ seen' \in {"active", "SUCCEEDED", "CANCELLED", "FAILED"}
    <3> USE DEF LiveInv, LiveTypeOK
    <3>1. CASE poll \/ resume_live_monitor \/ set_live_time_window \/ request_cancel
      BY <3>1 DEF poll, resume_live_monitor, set_live_time_window, request_cancel, guiVars
    <3>2. CASE pause_live_monitor
      <4>1. pauses' \in 0..MaxPauses
        BY <3>2, MonitorAssumption DEF pause_live_monitor
      <4> QED BY <3>2, <4>1 DEF pause_live_monitor
    <3>3. CASE present
      BY <3>3 DEF present
    <3> QED BY <3>1, <3>2, <3>3 DEF GuiThread
  <2> QED BY <1>1, <2>1, <2>2 DEF LiveInv, LiveTypeOK, jobVars
<1> QED BY <1>2, <1>3, <1>4, <1>5 DEF LiveInv

(***************************************************************************)
(* The strengthening is an invariant of the job and its GUI.               *)
(***************************************************************************)
THEOREM MonitorInvariant == Spec => []LiveInv
<1>1. Init => LiveInv
  <2> SUFFICES ASSUME Init
               PROVE  LiveInv
    OBVIOUS
  <2>1. LiveTypeOK
    <3>1. AdapterTypeOK
      BY DEF Init, AdapterInit, AdapterTypeOK, AdapterState
    <3>2. points \in Seq(1..Requested) /\ Len(points) <= MaxPoints
      BY EmptySeq, MonitorAssumption DEF Init
    <3>3. 0 \in 0..Requested /\ 0 \in 0..MaxPauses
      BY RequestedPositive, MonitorAssumption
    <3> QED BY <3>1, <3>2, <3>3 DEF Init, LiveTypeOK, Step, Outcome
  <2>2. Source /\ Evidence
    BY RequestedPositive
       DEF Init, AdapterInit, Source, Evidence, Acquiring, Connected, Result
  <2>3. Trace /\ Pausing /\ Watching
    BY EmptySeq DEF Init, Trace, Pausing, Watching, Live
  <2> QED BY <2>1, <2>2, <2>3 DEF LiveInv
<1>2. LiveInv /\ [Next]_vars => LiveInv'
  <2> SUFFICES ASSUME LiveInv, [Next]_vars
               PROVE  LiveInv'
    OBVIOUS
  <2>1. CASE UNCHANGED vars
    BY <2>1 DEF vars, adapterVars, jobVars, sessionVars, guiVars, LiveInv, LiveTypeOK,
                AdapterTypeOK, Source, Evidence, Trace, Pausing, Watching, Live
  <2> QED BY <2>1, WorkerKeepsInv, GuiKeepsInv DEF Next
<1> QED BY <1>1, <1>2, PTL DEF Spec

(***************************************************************************)
(* The job uses its adapter as the lifecycle allows: what its two threads  *)
(* do in any order are the public calls of a device adapter, each in a     *)
(* state that allows it, and the changes of its link.                      *)
(***************************************************************************)
THEOREM MonitorFollowsLifecycle == Spec => LifecycleSpec
<1>1. Init => AdapterInit
  BY DEF Init
<1>2. [Next]_vars => [LifecycleNext]_adapterVars
  <2> SUFFICES ASSUME Next
               PROVE  [LifecycleNext]_adapterVars
    BY DEF vars
  <2> USE DEF LifecycleNext, AdapterCall
  <2>1. CASE connect
    BY <2>1 DEF connect
  <2>2. CASE get_capabilities
    BY <2>2, MonitorAssumption DEF get_capabilities, Trouble
  <2>3. CASE read
    BY <2>3 DEF read, Trouble
  <2>4. CASE disconnect
    BY <2>4 DEF disconnect, Answer
  <2>5. CASE start \/ first_checkpoint \/ sample \/ publish \/ between \/ wait_interval
             \/ finish \/ report \/ cleanup \/ verdict
    BY <2>5 DEF start, first_checkpoint, sample, publish, between, wait_interval, finish, report,
                cleanup, verdict, Unwind, Go
  <2>6. CASE GuiThread
    BY <2>6 DEF GuiThread, poll, pause_live_monitor, resume_live_monitor, set_live_time_window,
                present, request_cancel, GuiOnly
  <2> QED BY <2>1, <2>2, <2>3, <2>4, <2>5, <2>6 DEF Next, WorkerThread
<1> QED BY <1>1, <1>2, PTL DEF Spec, LifecycleSpec

(***************************************************************************)
(* Types, and never more points retained than the bound of the trace.      *)
(***************************************************************************)
THEOREM MonitorTypeCorrect == Spec => []LiveTypeOK
<1>1. LiveInv => LiveTypeOK
  BY DEF LiveInv
<1> QED BY <1>1, MonitorInvariant, PTL

(***************************************************************************)
(* At most one reading ends between a pause and the next resume, wherever  *)
(* the pause found the worker.                                             *)
(***************************************************************************)
THEOREM PauseIsPrompt == Spec => []PauseStopsReading
<1>1. LiveInv => PauseStopsReading
  BY DEF LiveInv, Pausing, PauseStopsReading
<1> QED BY <1>1, MonitorInvariant, PTL

(***************************************************************************)
(* A success published every measurement it took and released its source,  *)
(* and the result page shows the whole final trace, for any bound of it.   *)
(***************************************************************************)
THEOREM ResultPageIsComplete == Spec => []TerminalViewIsComplete
<1>1. LiveInv => TerminalViewIsComplete
  <2> SUFFICES ASSUME LiveInv
               PROVE  TerminalViewIsComplete
    OBVIOUS
  <2>1. worker = "SUCCEEDED" => pc = "ended" /\ outcome \in Result
    BY DEF LiveInv, Evidence
  <2>2. worker = "SUCCEEDED" =>
           /\ ~held
           /\ slot = {measured}
           /\ Live => total = measured
           /\ outcome = "COMPLETED" => measured = Requested
    BY <2>1 DEF LiveInv, Evidence, Source, Trace, Result, Connected
  <2>3. page = "RESULT" /\ Live =>
           /\ view.total = total /\ view.points = points /\ view.evicted = evicted
           /\ Len(view.points) + view.evicted = view.total
           /\ ~view.active /\ ~view.paused
    BY DEF LiveInv, Watching, Trace
  <2> QED BY <2>2, <2>3 DEF TerminalViewIsComplete
<1> QED BY <1>1, MonitorInvariant, PTL

================================================================================
