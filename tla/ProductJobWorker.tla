---------------------------- MODULE ProductJobWorker ----------------------------
(***************************************************************************)
(* The background worker of the product layer                              *)
(* (src/src/analog_validation_app/worker.py).  One worker object owns at   *)
(* most one job at a time.  Several caller threads use it: start,          *)
(* request_cancel, drain_events, join, cancel_and_join and close.  Each    *)
(* accepted job has a thread of its own that builds a service, runs it,    *)
(* cleans it up, publishes the terminal state and sets a completion event. *)
(*                                                                         *)
(* Every method body under the worker's lock is one action.  The parts the *)
(* lock does not cover (factory, service.run, service.cleanup, the         *)
(* completion event, the slices of join) are actions of their own.         *)
(*                                                                         *)
(* A job is named by the ordinal of the start call that accepted it, which *)
(* stands for its request, its cancellation token, its thread and its      *)
(* completion event: the code makes the four together.                     *)
(***************************************************************************)
EXTENDS Integers, Sequences

CONSTANTS
    Caller,             \* threads that use the worker object
    MaxEvents,          \* max_events: capacity of the event queue
    MaxJobs,            \* bound: start calls the worker accepts
    MaxProgress,        \* bound: progress reports of one job
    InterruptibleStart  \* may an interrupt reach start after the thread runs?

ASSUME WorkerAssumption ==
    /\ MaxEvents \in Nat \ {0}
    /\ MaxJobs \in Nat
    /\ MaxProgress \in Nat
    /\ InterruptibleStart \in BOOLEAN

VARIABLES
    state,          \* _state
    owner,          \* _request, _cancellation, _completion: the last accepted job
    thread,         \* _thread: the job whose thread is recorded, 0 for None
    result,         \* _result: its status, or "none"
    issue,          \* _issue is not None
    lastError,      \* _last_error is not None
    cleanupError,   \* _cleanup_error is not None
    closed,         \* _closed
    events,         \* _events
    nextIndex,      \* _next_event_index
    dropped,        \* _dropped_event_count
    drained,        \* history: number of events drain_events has returned
    lastDrained,    \* history: the last event drain_events has returned
    cancelled,      \* jobs whose token is set
    pc,             \* program counter of each job thread
    service,        \* the service each job thread holds
    out,            \* local result of each job thread
    error,          \* local error of each job thread
    reported,       \* progress reports of each job
    cpc,            \* program counter of each caller
    closing,        \* callers whose call is close
    watched,        \* the job whose completion a joining caller waits for
    closeReturned   \* history: a close call has returned normally

ownerVars  == <<state, owner, thread, result, issue, lastError, cleanupError, closed>>
eventVars  == <<events, nextIndex, dropped>>
readerVars == <<drained, lastDrained>>
jobVars    == <<cancelled, pc, service, out, error, reported>>
callVars   == <<cpc, closing, watched, closeReturned>>
vars == <<ownerVars, eventVars, readerVars, jobVars, callVars>>

Job       == 1..MaxJobs
Active    == {"STARTING", "RUNNING", "CANCELLING"}
Terminal  == {"SUCCEEDED", "FAILED", "CANCELLED"}
State     == {"IDLE"} \cup Active \cup Terminal

\* COMPLETED stands for COMPLETED, INCOMPLETE and UNSUPPORTED, which the
\* worker does not tell apart.
Status    == {"COMPLETED", "CANCELLED", "ERROR"}
Event     == [index : Nat, job : 0..MaxJobs, state : State]
NoEvent   == [index |-> 0, job |-> 0, state |-> "IDLE"]

(***************************************************************************)
(* Mutated forms.  A definition named in a "Mutant" comment is a plausible *)
(* bug in the operator that follows it; no specification uses it.  Each    *)
(* one makes some property of the runs fail.                               *)
(***************************************************************************)

\* Mutant of Lost: evictions are not counted.
LostUncounted(queue) == 0

\* Mutant of Pushed: a full queue refuses the newest event.
PushedUnlessFull(queue, event) ==
    IF Len(queue) = MaxEvents THEN queue ELSE Append(queue, event)

(***************************************************************************)
(* _publish_locked: append an event with the next index; a full queue      *)
(* (deque with maxlen) loses its oldest event, which is counted.           *)
(***************************************************************************)
Entry(index, j, s) == [index |-> index, job |-> j, state |-> s]

Pushed(queue, event) ==
    Append(IF Len(queue) = MaxEvents THEN Tail(queue) ELSE queue, event)

Lost(queue) == IF Len(queue) = MaxEvents THEN 1 ELSE 0

Publish(j, s) ==
    /\ events' = Pushed(events, Entry(nextIndex, j, s))
    /\ dropped' = dropped + Lost(events)
    /\ nextIndex' = nextIndex + 1

Init ==
    /\ state = "IDLE"
    /\ owner = 0
    /\ thread = 0
    /\ result = "none"
    /\ issue = FALSE
    /\ lastError = FALSE
    /\ cleanupError = FALSE
    /\ closed = FALSE
    /\ events = <<>>
    /\ nextIndex = 1
    /\ dropped = 0
    /\ drained = 0
    /\ lastDrained = NoEvent
    /\ cancelled = {}
    /\ pc = [j \in Job |-> "unborn"]
    /\ service = [j \in Job |-> "absent"]
    /\ out = [j \in Job |-> "none"]
    /\ error = [j \in Job |-> "none"]
    /\ reported = [j \in Job |-> 0]
    /\ cpc = [c \in Caller |-> "idle"]
    /\ closing = {}
    /\ watched = [c \in Caller |-> 0]
    /\ closeReturned = FALSE

-----------------------------------------------------------------------------
(* The owner's side: methods of the worker called by any caller thread.    *)

\* Mutants of MayStart: the busy check, or the closed check, is missing.
MayStartWhileBusy == ~closed /\ owner < MaxJobs
MayStartWhileClosed == state \notin Active /\ owner < MaxJobs

\* start: refused when closed or while a job is active.
MayStart == ~closed /\ state \notin Active /\ owner < MaxJobs

\* The assignments start makes before it spawns the thread.
Accept(j) ==
    /\ owner' = j
    /\ result' = "none"
    /\ cleanupError' = FALSE
    /\ UNCHANGED closed

\* start whose thread.start() returns.
Start(c) ==
    /\ cpc[c] = "idle"
    /\ MayStart
    /\ Accept(owner + 1)
    /\ thread' = owner + 1
    /\ state' = "STARTING"
    /\ issue' = FALSE
    /\ lastError' = FALSE
    /\ Publish(owner + 1, "STARTING")
    /\ pc' = [pc EXCEPT ![owner + 1] = "factory"]
    /\ UNCHANGED <<readerVars, cancelled, service, out, error, reported, callVars>>

\* start whose thread.start() raises: the STARTING event and the FAILED event
\* are both published before the lock is released.  When the exception is an
\* interrupt that arrives after the native thread began, the thread runs on.
StartFails(c) ==
    /\ cpc[c] = "idle"
    /\ MayStart
    /\ Accept(owner + 1)
    /\ thread' = 0
    /\ state' = "FAILED"
    /\ issue' = TRUE
    /\ lastError' = TRUE
    /\ LET first == Pushed(events, Entry(nextIndex, owner + 1, "STARTING"))
       IN  /\ events' = Pushed(first, Entry(nextIndex + 1, owner + 1, "FAILED"))
           /\ dropped' = dropped + Lost(events) + Lost(first)
    /\ nextIndex' = nextIndex + 2
    /\ \E began \in {FALSE, InterruptibleStart} :
          pc' = [pc EXCEPT ![owner + 1] = IF began THEN "factory" ELSE "done"]
    /\ UNCHANGED <<readerVars, cancelled, service, out, error, reported, callVars>>

\* Mutant of CancelEffect: a finished job accepts a cancellation.
CancelEffectAnyTime ==
    IF owner # 0 /\ state # "CANCELLING"
    THEN /\ cancelled' = cancelled \cup {owner}
         /\ state' = "CANCELLING"
         /\ Publish(owner, "CANCELLING")
    ELSE UNCHANGED <<cancelled, state, eventVars>>

\* The effect of request_cancel: only STARTING and RUNNING accept it.
CancelEffect ==
    IF state \in {"STARTING", "RUNNING"}
    THEN /\ cancelled' = cancelled \cup {owner}
         /\ state' = "CANCELLING"
         /\ Publish(owner, "CANCELLING")
    ELSE UNCHANGED <<cancelled, state, eventVars>>

RequestCancel(c) ==
    /\ cpc[c] = "idle"
    /\ CancelEffect
    /\ UNCHANGED <<owner, thread, result, issue, lastError, cleanupError, closed,
                   readerVars, pc, service, out, error, reported, callVars>>

\* drain_events returns and removes every retained event.
DrainEvents(c) ==
    /\ cpc[c] = "idle"
    /\ events # <<>>
    /\ drained' = drained + Len(events)
    /\ lastDrained' = events[Len(events)]
    /\ events' = <<>>
    /\ UNCHANGED <<ownerVars, nextIndex, dropped, jobVars, callVars>>

\* join begins; cancel_and_join first requests cancellation.
CallJoin(c) ==
    /\ cpc[c] = "idle"
    /\ \E first \in {"snapshot", "cancel"} : cpc' = [cpc EXCEPT ![c] = first]
    /\ UNCHANGED <<ownerVars, eventVars, readerVars, jobVars, closing, watched, closeReturned>>

\* close marks the worker closed, releases the lock and goes on to
\* cancel_and_join.
CallClose(c) ==
    /\ cpc[c] = "idle"
    /\ closed' = TRUE
    /\ cpc' = [cpc EXCEPT ![c] = "cancel"]
    /\ closing' = closing \cup {c}
    /\ UNCHANGED <<state, owner, thread, result, issue, lastError, cleanupError,
                   eventVars, readerVars, jobVars, watched, closeReturned>>

CallerCancels(c) ==
    /\ cpc[c] = "cancel"
    /\ CancelEffect
    /\ cpc' = [cpc EXCEPT ![c] = "snapshot"]
    /\ UNCHANGED <<owner, thread, result, issue, lastError, cleanupError, closed,
                   readerVars, pc, service, out, error, reported, closing, watched,
                   closeReturned>>

\* The end of a blocking call; joined tells whether its join returned True.
Return(c, joined) ==
    /\ cpc' = [cpc EXCEPT ![c] = "idle"]
    /\ closing' = closing \ {c}
    /\ watched' = [watched EXCEPT ![c] = 0]
    /\ closeReturned' = (closeReturned \/ (joined /\ c \in closing))

\* join reads _thread and _completion under the lock, once per slice.  With no
\* thread recorded it returns True at once.
JoinSnapshot(c) ==
    /\ cpc[c] \in {"snapshot", "waiting"}
    /\ IF thread = 0
       THEN Return(c, TRUE)
       ELSE /\ cpc' = [cpc EXCEPT ![c] = "waiting"]
            /\ watched' = [watched EXCEPT ![c] = owner]
            /\ UNCHANGED <<closing, closeReturned>>
    /\ UNCHANGED <<ownerVars, eventVars, readerVars, jobVars>>

\* Mutant of JoinDeadline: the deadline is computed anew in every slice.
JoinDeadlineRestarts(c) ==
    /\ cpc[c] = "waiting"
    /\ thread # 0
    /\ UNCHANGED vars

\* The deadline has passed when a slice ends: join returns False, the other
\* two raise ProductWorkerTimeoutError.
JoinDeadline(c) ==
    /\ cpc[c] = "waiting"
    /\ thread # 0
    /\ Return(c, FALSE)
    /\ UNCHANGED <<ownerVars, eventVars, readerVars, jobVars>>

\* completion.wait returns True.
JoinCompleted(c) ==
    /\ cpc[c] = "waiting"
    /\ pc[watched[c]] = "done"
    /\ Return(c, TRUE)
    /\ UNCHANGED <<ownerVars, eventVars, readerVars, jobVars>>

-----------------------------------------------------------------------------
(* The job thread: _run_job, _report_progress, _finish_job.                *)

\* The factory returns a service, or raises (or returns something that is not
\* a service): then there is nothing to clean up.
FactoryReturns(j) ==
    /\ pc[j] = "factory"
    /\ pc' = [pc EXCEPT ![j] = "begin"]
    /\ service' = [service EXCEPT ![j] = "held"]
    /\ UNCHANGED <<ownerVars, eventVars, readerVars, cancelled, out, error, reported, callVars>>

\* Mutant of FactoryFails: the factory is called outside the try block.
FactoryFailsUnreported(j) ==
    /\ pc[j] = "factory"
    /\ pc' = [pc EXCEPT ![j] = "done"]
    /\ error' = [error EXCEPT ![j] = "failure"]
    /\ UNCHANGED <<ownerVars, eventVars, readerVars, cancelled, service, out, reported, callVars>>

FactoryFails(j) ==
    /\ pc[j] = "factory"
    /\ pc' = [pc EXCEPT ![j] = "finish"]
    /\ error' = [error EXCEPT ![j] = "failure"]
    /\ UNCHANGED <<ownerVars, eventVars, readerVars, cancelled, service, out, reported, callVars>>

\* The locked block between the factory and run: raise_if_cancelled, RUNNING.
BeginRun(j) ==
    /\ pc[j] = "begin"
    /\ IF j \in cancelled
       THEN /\ pc' = [pc EXCEPT ![j] = "cleanup"]
            /\ error' = [error EXCEPT ![j] = "cancelled"]
            /\ UNCHANGED <<state, eventVars>>
       ELSE /\ pc' = [pc EXCEPT ![j] = "run"]
            /\ state' = "RUNNING"
            /\ Publish(owner, "RUNNING")
            /\ UNCHANGED error
    /\ UNCHANGED <<owner, thread, result, issue, lastError, cleanupError, closed,
                   readerVars, cancelled, service, out, reported, callVars>>

\* The checks of _report_progress, in its order.
ProgressAllowed(j) == thread = j /\ owner = j /\ j \notin cancelled /\ state = "RUNNING"

Progress(j) ==
    /\ pc[j] = "run"
    /\ reported[j] < MaxProgress
    /\ ProgressAllowed(j)
    /\ Publish(j, state)
    /\ reported' = [reported EXCEPT ![j] = @ + 1]
    /\ UNCHANGED <<ownerVars, readerVars, cancelled, pc, service, out, error, callVars>>

\* Mutant of RunReturns: a returned result skips the cleanup.
RunReturnsUncleaned(j, status) ==
    /\ pc[j] = "run"
    /\ pc' = [pc EXCEPT ![j] = "finish"]
    /\ out' = [out EXCEPT ![j] = status]
    /\ UNCHANGED <<ownerVars, eventVars, readerVars, cancelled, service, error, reported, callVars>>

\* service.run returns a result, or raises: ProductJobCancelled at a
\* checkpoint that sees the token set, or any other error (a refused progress
\* report, an invalid result and a result for another request included).
RunReturns(j, status) ==
    /\ pc[j] = "run"
    /\ pc' = [pc EXCEPT ![j] = "cleanup"]
    /\ out' = [out EXCEPT ![j] = status]
    /\ UNCHANGED <<ownerVars, eventVars, readerVars, cancelled, service, error, reported, callVars>>

RunRaises(j, kind) ==
    /\ pc[j] = "run"
    /\ kind = "cancelled" => j \in cancelled
    /\ pc' = [pc EXCEPT ![j] = "cleanup"]
    /\ error' = [error EXCEPT ![j] = kind]
    /\ UNCHANGED <<ownerVars, eventVars, readerVars, cancelled, service, out, reported, callVars>>

\* service.cleanup returns or raises; both lead to _finish_job.
Cleanup(j) ==
    /\ pc[j] = "cleanup"
    /\ pc' = [pc EXCEPT ![j] = "finish"]
    /\ \E outcome \in {"released", "leaked"} :
          service' = [service EXCEPT ![j] = outcome]
    /\ UNCHANGED <<ownerVars, eventVars, readerVars, cancelled, out, error, reported, callVars>>

\* Mutant of EndsCancelled: the cancellation is looked at before the cleanup.
EndsCancelledFirst(j) ==
    \/ error[j] = "cancelled" /\ j \in cancelled
    \/ error[j] = "none" /\ out[j] = "CANCELLED"
    \/ error[j] = "none" /\ out[j] = "COMPLETED" /\ j \in cancelled

\* Mutant of EndsSucceeded: a cancellation after the last checkpoint is lost.
EndsSucceededLate(j) ==
    /\ service[j] # "leaked"
    /\ error[j] = "none"
    /\ out[j] = "COMPLETED"

\* The precedence of _finish_job: a failed cleanup, then an error, then the
\* status of the returned result, then a cancellation that came too late to
\* stop the service.
EndsCancelled(j) ==
    /\ service[j] # "leaked"
    /\ \/ error[j] = "cancelled" /\ j \in cancelled
       \/ error[j] = "none" /\ out[j] = "CANCELLED"
       \/ error[j] = "none" /\ out[j] = "COMPLETED" /\ j \in cancelled

EndsSucceeded(j) ==
    /\ service[j] # "leaked"
    /\ error[j] = "none"
    /\ out[j] = "COMPLETED"
    /\ j \notin cancelled

FinalState(j) ==
    IF EndsSucceeded(j) THEN "SUCCEEDED"
    ELSE IF EndsCancelled(j) THEN "CANCELLED" ELSE "FAILED"

\* Mutant of FinalResult: a worker state is stored where a result status goes.
FinalResultIsState(j) == IF out[j] = "none" THEN "none" ELSE FinalState(j)

\* _as_cancelled_result and _as_error_result keep None and downgrade the rest.
FinalResult(j) ==
    IF out[j] = "none" THEN "none"
    ELSE [SUCCEEDED |-> out[j], CANCELLED |-> "CANCELLED", FAILED |-> "ERROR"][FinalState(j)]

FinishJob(j) ==
    /\ pc[j] = "finish"
    /\ pc' = [pc EXCEPT ![j] = "complete"]
    /\ IF owner # j
       THEN UNCHANGED <<state, result, issue, lastError, cleanupError, eventVars>>
       ELSE /\ state' = FinalState(j)
            /\ result' = FinalResult(j)
            /\ issue' = (FinalState(j) = "FAILED")
            /\ lastError' = (error[j] # "none" \/ out[j] \in {"none", "ERROR"})
            /\ cleanupError' = (service[j] = "leaked")
            /\ Publish(j, FinalState(j))
    /\ UNCHANGED <<owner, thread, closed, readerVars, cancelled, service, out, error,
                   reported, callVars>>

\* _run_job_with_completion: completion.set() after the lock is released; the
\* locals of _run_job are gone.
SetCompletion(j) ==
    /\ pc[j] = "complete"
    /\ pc' = [pc EXCEPT ![j] = "done"]
    /\ out' = [out EXCEPT ![j] = "none"]
    /\ error' = [error EXCEPT ![j] = "none"]
    /\ reported' = [reported EXCEPT ![j] = 0]
    /\ UNCHANGED <<ownerVars, eventVars, readerVars, cancelled, service, callVars>>

-----------------------------------------------------------------------------
JobStep(j) ==
    \/ FactoryReturns(j)
    \/ FactoryFails(j)
    \/ BeginRun(j)
    \/ Progress(j)
    \/ \E status \in Status : RunReturns(j, status)
    \/ \E kind \in {"cancelled", "failure"} : RunRaises(j, kind)
    \/ Cleanup(j)
    \/ FinishJob(j)
    \/ SetCompletion(j)

CallerStep(c) ==
    \/ Start(c)
    \/ StartFails(c)
    \/ RequestCancel(c)
    \/ DrainEvents(c)
    \/ CallJoin(c)
    \/ CallClose(c)
    \/ CallerCancels(c)
    \/ JoinSnapshot(c)
    \/ JoinDeadline(c)
    \/ JoinCompleted(c)

Next == (\E j \in Job : JobStep(j)) \/ (\E c \in Caller : CallerStep(c))

Spec == Init /\ [][Next]_vars

(***************************************************************************)
(* Fairness.  The scheduler runs every thread that can run: a job thread   *)
(* between the calls into its service, and a caller inside a call, whose   *)
(* deadline passes.  No caller is ever obliged to make a call, and no      *)
(* service is obliged to return: that obligation is ServiceCooperates, the *)
(* contract docs/product-worker.md states for services.                    *)
(***************************************************************************)
CallerAdvances(c) ==
    \/ CallerCancels(c)
    \/ JoinDeadline(c)
    \/ JoinCompleted(c)
    \/ (cpc[c] = "snapshot" \/ thread = 0) /\ JoinSnapshot(c)

SchedulerFairness ==
    /\ \A j \in Job : WF_vars(BeginRun(j) \/ FinishJob(j) \/ SetCompletion(j))
    /\ \A c \in Caller : WF_vars(CallerAdvances(c))

ServiceReturns(j) ==
    \/ FactoryReturns(j)
    \/ FactoryFails(j)
    \/ \E status \in Status : RunReturns(j, status)
    \/ \E kind \in {"cancelled", "failure"} : RunRaises(j, kind)
    \/ Cleanup(j)

ServiceCooperates == \A j \in Job : WF_vars(ServiceReturns(j))

FairSpec == Spec /\ SchedulerFairness

-----------------------------------------------------------------------------
(* Properties.                                                             *)

OwnerType ==
    /\ state \in State
    /\ owner \in 0..MaxJobs
    /\ thread \in 0..MaxJobs
    /\ result \in Status \cup {"none"}
    /\ issue \in BOOLEAN
    /\ lastError \in BOOLEAN
    /\ cleanupError \in BOOLEAN
    /\ closed \in BOOLEAN

EventType ==
    /\ events \in Seq(Event)
    /\ nextIndex \in Nat
    /\ dropped \in Nat
    /\ drained \in Nat
    /\ lastDrained \in Event

JobType ==
    /\ cancelled \subseteq Job
    /\ pc \in [Job -> {"unborn", "factory", "begin", "run", "cleanup", "finish",
                       "complete", "done"}]
    /\ service \in [Job -> {"absent", "held", "released", "leaked"}]
    /\ out \in [Job -> Status \cup {"none"}]
    /\ error \in [Job -> {"none", "cancelled", "failure"}]
    /\ reported \in [Job -> 0..MaxProgress]

CallType ==
    /\ cpc \in [Caller -> {"idle", "cancel", "snapshot", "waiting"}]
    /\ closing \subseteq Caller
    /\ watched \in [Caller -> 0..MaxJobs]
    /\ closeReturned \in BOOLEAN

\* Every variable has its type; the shapes of the state as the code keeps it.
TypeOK == OwnerType /\ EventType /\ JobType /\ CallType

\* A job thread between the factory and the end of cleanup holds resources.
Holding(j) == service[j] = "held"

\* Resource ownership is exclusive: two services never hold their resources at
\* the same time, however starts, cancellations, failed starts and time-outs
\* interleave (class docstring of ProductJobWorker).
SingleService == \A i, j \in Job : Holding(i) /\ Holding(j) => i = j

\* A terminal or idle worker holds nothing: the terminal state is published
\* only after the service was cleaned, and no later thread step takes it back.
QuietMeansReleased == state \notin Active => \A j \in Job : ~Holding(j)

\* A cancellation the worker accepted is never reported as success, whatever
\* the service returned (the race of a cancel with a returning service).
CancelNeverSucceeds == state = "SUCCEEDED" => owner \notin cancelled /\ result = "COMPLETED"

\* A failed cleanup is never hidden behind a passing or a cancelled job: it
\* ends FAILED with an issue and with no result other than an error.
LeakNeverHidden ==
    (state \in Terminal /\ owner # 0 /\ service[owner] = "leaked")
        => state = "FAILED" /\ issue /\ cleanupError /\ result \in {"none", "ERROR"}

\* The queue holds the latest indexes below next, in order and without a gap.
Contiguous(queue, next) ==
    \A k \in 1..Len(queue) : queue[k].index = next - 1 - Len(queue) + k

\* Every index the worker gave out is drained, dropped or still queued, and
\* the queue holds the latest ones, contiguous and in order.
EventAccounting ==
    /\ Len(events) <= MaxEvents
    /\ nextIndex = 1 + drained + dropped + Len(events)
    /\ Contiguous(events, nextIndex)

\* A poller that has drained everything knows the current state: the latest
\* event, queued or drained, carries the worker's job and state, so overflow
\* never costs the terminal event.
LatestEventTellsState ==
    owner # 0 =>
        LET latest == IF events = <<>> THEN lastDrained ELSE events[Len(events)]
        IN  latest.job = owner /\ latest.state = state

\* A close that returned leaves the worker stopped for good: no service holds
\* a resource and no job is active, now or later.
ClosedMeansStopped ==
    closeReturned => state \notin Active /\ \A j \in Job : ~Holding(j)

\* A terminal state is left only by accepting another job; late steps of the
\* finished thread, cancellations and time-outs never rewrite a verdict.
VerdictStable ==
    [][(state \in Terminal /\ owner' = owner)
         => (UNCHANGED <<state, result, issue, lastError, cleanupError>>)]_vars

\* With cooperative services every accepted job reaches a terminal state (or a
\* later job was accepted, which a terminal state must have preceded).
JobEnds ==
    ServiceCooperates
        => \A j \in Job : (owner = j) ~> (owner # j \/ state \in Terminal)

\* A joining, cancelling or closing caller gets an answer, even from a worker
\* whose service never returns.
CallReturns == \A c \in Caller : (cpc[c] # "idle") ~> (cpc[c] = "idle")

=============================================================================
