---------------------------- MODULE ProjectWorkspace ----------------------------
(***************************************************************************)
(* The project page of the Dashboard (dashboard/project_workspace.py,      *)
(* app.py): its GUI thread reviews a batch, runs it on a background        *)
(* thread, polls two mailboxes for progress and for the result, hands on a *)
(* cancellation, and closes the window only once the batch is over.        *)
(*                                                                         *)
(* The process may die at any moment and be started again; the command     *)
(* line may publish to the same path when the Dashboard does not.          *)
(* Publishers that run at the same time are CreateNewOutput's subject.     *)
(***************************************************************************)
EXTENDS ProjectBatch

VARIABLES
    gui,            \* "drained" inside poll, between its two halves
    thread,         \* the batch whose thread the workspace holds, or Nobody
    mailbox,        \* the batch whose result waits there, or Nobody
    shown,          \* the batch of the progress it shows, or Nobody
    project,        \* "none", "saved" or "dirty"
    reviewed,       \* the reviewed plan, or <<>>
    history,        \* the runs in its history view
    closing,        \* the window closes when the batch is over
    closed,         \* no process
    reported        \* what this process started and was told of it

workspaceVars == <<gui, thread, mailbox, shown, project, reviewed, history,
                   closing, closed, reported>>

vars == <<outputVars, batchVars, workspaceVars>>

Report == {"nothing", "started", "returned", "raised"}

Fresh ==
    /\ gui' = "ready" /\ thread' = Nobody /\ mailbox' = Nobody /\ shown' = Nobody
    /\ project' = "none" /\ reviewed' = <<>> /\ history' = {}
    /\ closing' = FALSE
    /\ reported' = [b \in Publisher |-> "nothing"]

Init ==
    /\ BatchInit
    /\ gui = "ready" /\ thread = Nobody /\ mailbox = Nobody /\ shown = Nobody
    /\ project = "none" /\ reviewed = <<>> /\ history = {}
    /\ closing = FALSE /\ closed = TRUE
    /\ reported = [b \in Publisher |-> "nothing"]

busy == thread # Nobody

\* the handlers of the GUI thread run one at a time
Handler == ~closed /\ gui = "ready"

\* _idle; a refusal because another test is active changes nothing
Idle == Handler /\ ~busy

(***************************************************************************)
(* Mutated forms: plausible bugs in the operators that follow them.        *)
(***************************************************************************)

\* Mutant of poll_result: the thread is let go as soon as its result waits,
\* for the next poll to show.
poll_result_late ==
    /\ gui = "drained"
    /\ gui' = "ready"
    /\ IF ~busy \/ batch = thread
       THEN UNCHANGED <<thread, mailbox, history, reported, closing, closed>>
       ELSE /\ thread' = Nobody
            /\ UNCHANGED <<mailbox, history, reported, closing, closed>>
    /\ UNCHANGED <<outputVars, batchVars, shown, project, reviewed>>

\* Mutant of deliver: a failed batch leaves nothing in the mailbox, and its
\* thread waits to be asked.
deliver_success_only ==
    /\ BatchOver
    /\ surface = "dashboard"
    /\ stage[batch] = "returned"
    /\ mailbox' = batch
    /\ Forgotten
    /\ UNCHANGED <<outputVars, posted, gui, thread, shown, project, reviewed,
                   history, closing, closed, reported>>

--------------------------------------------------------------------------------
(* The handlers of the page *)

open_dashboard ==
    /\ closed
    /\ closed' = FALSE
    /\ Fresh
    /\ posted' = Nobody
    /\ UNCHANGED <<outputVars, batch, loopVars>>

\* create, open and save_copy: the project is the one in its file
adopt ==
    /\ Idle
    /\ project' = "saved"
    /\ reviewed' = <<>>
    /\ UNCHANGED <<outputVars, batchVars, gui, thread, mailbox, shown, history,
                   closing, closed, reported>>

add_preset ==
    /\ Idle
    /\ project # "none"
    /\ project' = "dirty"
    /\ reviewed' = <<>>
    /\ UNCHANGED <<outputVars, batchVars, gui, thread, mailbox, shown, history,
                   closing, closed, reported>>

\* an earlier review is gone even when this one is refused
review(p) ==
    /\ Idle
    /\ \/ reviewed' = <<>>
       \/ project = "saved" /\ target = "absent" /\ reviewed' = p
    /\ UNCHANGED <<outputVars, batchVars, gui, thread, mailbox, shown, project,
                   history, closing, closed, reported>>

\* The reviewed plan, a new token and empty mailboxes.  The thread may not
\* start: then there is no batch.
run(b) ==
    /\ Idle
    /\ reviewed # <<>>
    /\ reviewed' = <<>>
    /\ shown' = Nobody
    /\ posted' = Nobody
    /\ \/ /\ Start(b, "dashboard", reviewed)
          /\ thread' = b
          /\ reported' = [reported EXCEPT ![b] = "started"]
       \/ UNCHANGED <<outputVars, batch, loopVars, thread, reported>>
    /\ UNCHANGED <<gui, mailbox, project, history, closing, closed>>

\* the token of the batch, which its thread may already have stopped reading
request_cancel ==
    /\ Handler
    /\ busy
    /\ cancel' = (cancel \/ batch = thread)
    /\ UNCHANGED <<outputVars, batch, posted, surface, plan, step, interrupted, job,
                   records, inputs, failure, status, ended, workspaceVars>>

\* the first half of poll: the latest progress, whoever posted it
drain_progress ==
    /\ Handler
    /\ gui' = "drained"
    /\ shown' = IF posted = Nobody THEN shown ELSE posted
    /\ posted' = Nobody
    /\ UNCHANGED <<outputVars, batch, loopVars, thread, mailbox, project, reviewed,
                   history, closing, closed, reported>>

\* the second half: a thread that ended is joined and its result taken, and a
\* pending close goes on, which the user may still stop
poll_result ==
    /\ gui = "drained"
    /\ gui' = "ready"
    /\ IF ~busy \/ batch = thread
       THEN UNCHANGED <<thread, mailbox, history, reported, closing, closed>>
       ELSE /\ thread' = Nobody
            /\ mailbox' = Nobody
            /\ reported' = IF mailbox = Nobody THEN reported
                           ELSE [reported EXCEPT ![mailbox] = stage[mailbox]]
            /\ history' = history \cup {b \in {mailbox} \ {Nobody} : stage[b] = "returned"}
            /\ closing' = FALSE
            /\ closed' \in {FALSE, closing}
    /\ UNCHANGED <<outputVars, batchVars, shown, project, reviewed>>

\* a run is loaded only with its whole, verified directory
load_history ==
    /\ Idle
    /\ target = "whole"
    /\ history' = history \cup {owner}
    /\ UNCHANGED <<outputVars, batchVars, gui, thread, mailbox, shown, project,
                   reviewed, closing, closed, reported>>

clear_history ==
    /\ Idle
    /\ history' = {}
    /\ UNCHANGED <<outputVars, batchVars, gui, thread, mailbox, shown, project,
                   reviewed, closing, closed, reported>>

\* an active batch is cancelled and waited for
close_window ==
    /\ Handler
    /\ IF busy
       THEN /\ closing' = TRUE
            /\ cancel' = (cancel \/ batch = thread)
            /\ UNCHANGED closed
       ELSE /\ closed' = TRUE
            /\ UNCHANGED <<closing, cancel>>
    /\ UNCHANGED <<outputVars, batch, posted, surface, plan, step, interrupted, job,
                   records, inputs, failure, status, ended, gui, thread, mailbox,
                   shown, project, reviewed, history, reported>>

\* the last line of execute: manifest or exception, and the thread ends
deliver ==
    /\ BatchOver
    /\ surface = "dashboard"
    /\ mailbox' = batch
    /\ Forgotten
    /\ UNCHANGED <<outputVars, posted, gui, thread, shown, project, reviewed,
                   history, closing, closed, reported>>

\* a process with a batch dies: that of the command line, or the Dashboard's
Killed ==
    \/ Die(batch)
    \/ stage[batch] \in Over \cup {"idle"} /\ UNCHANGED outputVars

cli_dies ==
    /\ Running /\ surface = "cli"
    /\ Killed
    /\ Forgotten
    /\ UNCHANGED <<posted, workspaceVars>>

dashboard_dies ==
    /\ ~closed
    /\ closed' = TRUE
    /\ Fresh
    /\ posted' = Nobody
    /\ IF Running /\ surface = "dashboard"
       THEN Killed /\ Forgotten
       ELSE UNCHANGED <<outputVars, batch, loopVars>>

BatchStep == BatchThread /\ UNCHANGED workspaceVars

Next ==
    \/ BatchStep
    \/ (JobEnds \/ InterruptWait \/ Fail \/ CliExits) /\ UNCHANGED workspaceVars
    \/ \E b \in Publisher : RunFromCli(b) /\ UNCHANGED workspaceVars
    \/ deliver
    \/ open_dashboard
    \/ adopt
    \/ add_preset
    \/ \E p \in Plan : review(p)
    \/ \E b \in Publisher : run(b)
    \/ request_cancel
    \/ drain_progress
    \/ poll_result
    \/ load_history
    \/ clear_history
    \/ close_window
    \/ cli_dies
    \/ dashboard_dies

Spec == Init /\ [][Next]_vars

(***************************************************************************)
(* A thread that can run runs: the batch's, whose waits are bounded by the *)
(* join timeout, and the GUI's, which polls again and again (poll_worker). *)
(***************************************************************************)
Fairness ==
    /\ WF_vars(BatchStep)
    /\ WF_vars(deliver)
    /\ WF_vars(drain_progress)
    /\ WF_vars(poll_result)

FairSpec == Spec /\ Fairness

--------------------------------------------------------------------------------
(* Properties *)

WorkspaceTypeOK ==
    /\ BatchTypeOK
    /\ gui \in {"ready", "drained"}
    /\ thread \in Publisher \cup {Nobody}
    /\ mailbox \in Publisher \cup {Nobody}
    /\ shown \in Publisher \cup {Nobody}
    /\ project \in {"none", "saved", "dirty"}
    /\ reviewed \in Plan \cup {<<>>}
    /\ history \subseteq Publisher
    /\ closing \in BOOLEAN /\ closed \in BOOLEAN
    /\ reported \in [Publisher -> Report]

(***************************************************************************)
(* A batch that runs inside the Dashboard or the command line publishes    *)
(* exactly as CreateNewOutput says, and so keeps the promise of RunStore.  *)
(***************************************************************************)
PublishesAsSpecified == OutputSpec

(***************************************************************************)
(* The result of a batch reaches the page that started it, and no other:   *)
(* every batch whose thread is gone was reported as it ended; nothing      *)
(* stays in the mailbox for a later batch; the progress on the page is of  *)
(* the batch that runs; and the window does not close on a running batch   *)
(* (run, poll and close_window).                                           *)
(***************************************************************************)
ResultReachesItsBatch ==
    /\ \A b \in Publisher : b # thread => reported[b] # "started"
    /\ \A b \in Publisher : reported[b] \in {"returned", "raised"} => reported[b] = stage[b]
    /\ mailbox \in {Nobody, thread}
    /\ busy /\ batch # thread => mailbox = thread
    /\ busy => shown \in {Nobody, thread}
    /\ closed => ~busy
    /\ history \subseteq {owner}

(***************************************************************************)
(* A batch never keeps the page waiting for ever, even when its job does   *)
(* not end: either its result is shown or the process is gone.             *)
(***************************************************************************)
BatchIsReported == busy ~> ~busy

================================================================================
