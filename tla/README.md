# Formal model of the analog validation platform

This directory holds TLA+ modules that model the parts of the platform whose
correctness depends on order: threads, callbacks, interrupts, lost devices and
failed cleanups. TLC checks the modules on small instances; TLAPS proves the
main safety properties for every value of the constants.

    tlc -workers 2 -config MC_SweepRunner.cfg MC_SweepRunner.tla
    tlapm SweepRunnerProofs.tla

Paths below are relative to the repository's root; `app/` stands for
`src/analog_validation_app/`, `core/` for `src/analog_validation/`.
`PROJECT.json` maps every definition to the lines of code it models.

## 1. The system

The platform acquires measurements from an analog front end (a serial device, a
simulator or a recorded CSV file), analyses them and reports a verdict. A command
line and a Tk Dashboard drive it.

    Dashboard (GUI thread)            command line
        |  start, cancel, poll           |
        v                                v
    ProductJobWorker ---- job thread --> product service
        ^   bounded event queue            |  cancellation token, progress
        '----------------------------------|
                                           v
             read workflow / DC sweep runner / hysteresis runner
                                           |  connect, get_capabilities, arm,
                                           |  set_stimulus, read, disconnect
                                           v
                    DeviceAdapter (lifecycle) -- SerialAdapter -- SerialSession
                                  |                  profile        line framer
                                  '-- simulators, CSV replay        pySerial backend

| Component | State | Operations | What is hard | What makes it correct |
|---|---|---|---|---|
| Job worker (`app/worker.py`) | worker state, current request, thread, completion event, token, result, issue, bounded event queue | start, request_cancel, drain_events, join, cancel_and_join, close; the job thread | caller threads against the job thread; a lock that is released between steps of close and join; interrupts in start; eviction from a full queue | one service at a time; resources released before a terminal state; cancellation and failed cleanup are never a success; every event is accounted for; calls answer |
| Dashboard (`app/dashboard/`) | wizard page, prepared job, held report, presenter panels | page navigation, Review, Run, Cancel, Close, export, a periodic poll | a poll reads worker state in four separate reads; callbacks between polls; close blocks the GUI | events go to the run that is shown; an active run is always watched; a result page and an export are of the reviewed run |
| Serial session and framer (`core/transport/`, pySerial backend) | open/closed, port, incomplete record, overlong flag | open, close, poll, reconnect, abort | a device that vanishes between or inside calls; records cut anywhere into chunks | framing does not depend on the chunks; the port is held exactly while open |
| Serial adapter and profiles (`core/serial_adapters/`, `core/profiles/`) | capabilities, profile progress, measurement buffer | connect, get_capabilities, read, disconnect | unsolicited or repeated records; a chunk whose processing fails half way; poll budgets | nothing crosses a reconnect; reads need confirmed capabilities; readings are fresh, ordered and returned once |
| Adapter lifecycle (`core/adapters/base.py`) | lifecycle state, confirmed capabilities, armed configuration | connect, get_capabilities, arm, set_stimulus, safe_shutdown, disconnect | each hook may return, raise or be interrupted, after or before its effect | no live output is forgotten silently; no output without authority |
| DC sweep runner (`core/runners/dc_sweep.py`) | measurements, steps, pending outcome, cleanup error | one attempt from connect to its outcome | end of data, abort, error and interrupt between any two steps; a cleanup that fails after a verdict | a verdict needs all evidence and a clean release |
| Hysteresis runner (`core/runners/hysteresis.py`) | the same with two legs | one attempt | the same | the same |
| Read workflow (`core/workflows/read.py`) | collected readings | one read run | end of data, cancellation, an error of disconnect that replaces the result | no partial result reported as complete |
| Product services, one-shot execution (`app/services.py`, `product_workflows.py`) | output slot | run, cleanup, `execute_product_job` | output published before the end; a deadline against the end of the job | output and status agree; a result or a timeout, never both |
| Live monitor (`app/live.py`) | bounded trace, pause flag | publish, pause, resume, snapshot | a pause holds the job thread under a condition variable; the GUI copies the trace after it read the state | a pause lets one reading through at most; a cancelled job leaves the pause; the last panel lacks no point |
| Project batch and run store (`app/projects.py`) | project files, run directories, records of the presets | batch run, publish, reopen | Ctrl+C, timeouts and failures between any two presets; a crash between staging and rename; a concurrent target | the manifest says what happened; a run directory is whole or absent and never replaced |
| Project workspace (`app/dashboard/project_workspace.py`) | batch thread, two mailboxes, review, history | review, start, poll, cancel, close | batch thread against the two halves of a poll; a close while a batch runs; the death of the process | the result reaches the page that started its batch; a batch is reported |
| Reports, import packages, publication (`app/reporting.py`, `import_packages.py`, `atomic_directory.py`, `core/exports/`) | files | write to a temporary name, link or rename | a crash between the steps; publishers that race for one path | whole or absent, one success at most, never replaced |
| CSV replay and simulators (`core/adapters/`) | replay cursor | next, read | end of data inside a step | a replay is whole or refused; rows in order, each once; channels independent |
| Record protocol (`core/protocol/`, `core/transport/sequence.py`, `events.py`) | last sequence number, raw log | parse, observe, append | wrap of sequence numbers; a log bounded twice | gaps, duplicates and late records told apart |
| Analysis (`core/analysis/`) | none | fit, criteria | limits at their boundary | outcome follows from the limits |
| Command line, widgets, tools | none of their own | - | - | - |

`PROJECT.json` lists these components with their status and, under `hazards`,
the places in the code where an order of events could go wrong that a unit test
would hardly reach, each with the properties that watch it.

## 2. Modules

| Module | Contents |
|---|---|
| `ProductJobWorker` | the worker: caller threads, job threads, event queue |
| `Dashboard` | EXTENDS ProductJobWorker: the GUI thread and the services' output slots, composed with the real worker |
| `SerialSession` | session, framer and backend: the steps of open, poll, feed, reconnect and abort |
| `SerialAdapter` | EXTENDS SerialSession: the adapter's public calls around those steps, with the profile; implements `LifecycleSpec` |
| `DeviceAdapter` | the lifecycle every adapter inherits, as actions with the answers of their hooks; abstract: all its public calls in any order, and what the link below does (`LifecycleSpec`) |
| `TestAttempt` | abstract: what a runner promises of an attempt |
| `SweepRunner` | EXTENDS DeviceAdapter: one DC sweep attempt and the caller's own adapter calls between attempts; implements `TestAttempt` |
| `RunStore` | abstract: what the application promises of one output path |
| `CreateNewOutput` | the seven ways of creating an output, with failing calls, crashes and other programs; implements `RunStore` |
| `ProjectBatch` | EXTENDS CreateNewOutput: the loop over the presets of a project, its job, its records and its manifest |
| `ProjectWorkspace` | EXTENDS ProjectBatch: the project page of the Dashboard, the batch thread, the command line, the death of either process |
| `MeasurementQuality` | which measurements may be used: flags, policy, decision |
| `DCSweepAnalysis`, `CalibrationAnalysis` | EXTEND MeasurementQuality: pairing, points, the least-squares line, calibration and its lineage |
| `HysteresisAnalysis` | EXTENDS MeasurementQuality: the plan and its batches, legs, transitions, cycles, the mean in floating point |
| `FrequencyResponseAnalysis` | EXTENDS MeasurementQuality: triples, gaps, cutoff crossings |
| `AcceptanceCriteria` | from an analysis and limits to PASS, FAIL or INCOMPLETE |
| `RecordProtocol` | CRC envelope, sequence tracking, raw event log; AFE v1 capability responses, the commands they allow, the read-only projections of the serial adapters |
| `MeasurementSources` | replay documents, the replay adapter and the simulators, between connect and disconnect; the import of a voltage table, its package and the page that makes it |
| `ProductSetup` | catalog, form, reading of its fields, rules of a configuration, presets, prepared jobs, aliases of serial channels |
| `SetupPages` | EXTENDS ProductSetup: the wizard's pages, buttons, controls and the panel beside them |
| `CommandLine` | EXTENDS ProductSetup: options of the commands, steps of a service, the execution of a job, files written after it, user issues, exit codes |
| `ResultExports` | EXTENDS the analyses and the criteria: the document of a result, its CSV and JSON, its limits, calibration coefficients |
| `ProjectFiles` | projects and presets, the manifest of a run in its four versions, its lineage, the comparison of two runs, the progress of a batch |
| `AnalysisClaims`, `ProtocolClaims`, `SourceClaims`, `SetupClaims`, `CommandClaims`, `DocumentClaims` | what those operators promise, over all the inputs of a bounded set |
| `LiveMonitor` | EXTENDS DeviceAdapter: one READ or LIVE_MONITOR job, its workflow, the session it shares with the GUI |
| `*Proofs` | the theorems of a component |
| `MC_*` | the instances for TLC: values of constants, views, symmetry |

Refinements connect the levels. The Dashboard uses the worker only as the
worker's own specification allows (`UsesWorkerAsSpecified`), which makes the
worker's specification the abstract one of the Dashboard's environment. The sweep
runner implements the abstract attempt (`ImplementsAttempt`). Every way of creating
an output implements the abstract store (`ImplementsRunStore`), and a batch inside the
Dashboard or the command line publishes as one of those ways allows
(`PublishesAsSpecified`). The adapter lifecycle stands in the middle: the serial adapter
implements it (`FollowsLifecycle`), and the sweep runner and the live monitor use it as it
allows. These three are proved for every instance (section 4), and no run repeats them.

Definitions whose comment begins with "Mutant of" are plausible bugs. No
specification uses them. Substituted for the definition they name, each one makes
a property fail, which shows that the property depends on that piece of code.

### ProductJobWorker

A job is named by the ordinal of the `start` that accepted it; the name stands for
its request, token, thread and completion event, which the code makes together.
Every body under the worker's lock is one action. What the lock does not cover is
split: factory, `service.run`, `service.cleanup`, the completion event, each slice
of `join`, and the gap in `close` between setting `_closed` and cancelling.
`FinishJob` has the precedence of `_finish_job`: failed cleanup, error, status of
the result, late cancellation. `StartFails` has both outcomes of a
`thread.start()` that raises; the one where the thread runs all the same is
enabled by `InterruptibleStart`, because `threading.Thread.start` waits for the
started event after the native thread has begun.

`drained`, `lastDrained` and `closeReturned` are history variables that only the
properties read. COMPLETED stands for the three statuses the worker treats
alike.

### Dashboard

One GUI thread. A Tk callback is one action up to the next read of the worker, so
the job thread may move between any two of the four reads of a poll
(`PollEvents`, `PollState`, `PollResult`, `PollIssue`). A user action is guarded by
the wizard's `can_*` conditions, which enable the widgets. `slot[j]` is what
job j's service published: services publish once, before their last progress
report and before cleanup, and may still raise or be cancelled afterwards.

Going back from the Result page clears everything the presenter keeps but the progress
panel (`ClearResult`, the presenter's CLEAR_RESULT). The status and issue on the page are the
worker's, or those of a report that the run published, which replaces them
(`ResultPageIsFinal` says both; finding 2 is a consequence of the second).

What the pages hold and which of their buttons are enabled is in `SetupPages`; there a discovery
of ports that fails leaves the ports and the choice as they were. Left out: the live plot, calibration coefficients, the confirmation before discarding, `auto_close`, and
the text of panels.

### SerialSession and SerialAdapter

A byte is the line feed or one payload byte that stands for all that a record
says. The model stamps bytes with the connection they were read on and telemetry
with its place in the order of reception; the program sees neither. A poll reads
up to `MaxChunk` bytes and feeds them one by one, then the complete records are
processed one by one; an error in the middle drops the rest of the chunk, as in
`_poll_once`. Reconnects happen inside a poll up to `MaxReconnects` times.

The lifecycle states ARMED and RUNNING are left out here: arming requires a
command that `_validate_projection` forbids for this adapter (`ProjectionAccepted`). For the lifecycle
(`INSTANCE DeviceAdapter` with no levels) a poll is nothing, until it loses the port
(`LinkLost`) or has it back with nothing confirmed (`LinkRenewed`). Capabilities are
announced by one record here. Sequence tracking and the several records of a real response
are in `RecordProtocol`; decoding of fields, quality flags, port discovery and statistics are left
out.

### DeviceAdapter, TestAttempt, SweepRunner

Each public call of the lifecycle is one action per answer of its hook: it
returns, raises, or is cut by a KeyboardInterrupt, which `_invoke` does not catch.
A hook that raises has had its effect or not. `level` is the output that was last
applied and `held` says whether the source is open; neither is known to the
code, which has to act on `_state` alone. The serial adapter changes the state from
inside a read or a negotiation; its users see that as `LinkLost` or `LinkRenewed`.

A negotiated capability set is five Booleans, one per question the code asks of
it: same device, same profile, what the plan needs, what the configuration needs,
safe shutdown. An output is set only if the capabilities allow that very output
(`OutputSupported`, which `RecordProtocol` spells out as `OutputAllowed`). Record IDs are named by rank: an ID is one seen before in the
attempt or the next new one. The analysis may give any of its outcomes.
Interrupts arrive in hooks and callbacks and, once per step, between two
statements (`recording`: measurement stored, step not yet).

`TestAttempt` allows evidence only while the adapter is taken, one release, and a
conclusion after it; a verdict needs all planned evidence and a clean release, and
an unclean release allows only ERROR or an exception.

### RunStore and CreateNewOutput

`RunStore` has one variable for what the output path names and one for what each
publisher told its caller. `CreateNewOutput` has the system calls: the look at the
path, `mkdtemp` or `NamedTemporaryFile`, the last file written, `os.rename`,
`renameat2` with `RENAME_NOREPLACE` or `os.link`, and the removal of what is left. A
publisher's kind says which of them it makes. Any call may fail, a KeyboardInterrupt may
arrive between two calls, and a process may die there (`Die`). Other programs may
use the path as long as no publisher owns it. The files inside an output are counted
as nothing, some or all of them.

Crash means the death of a process. A loss of power, which can lose what was not
flushed, is not modelled; the code calls `fsync` for files and not for directories.

### ProjectBatch and ProjectWorkspace

A batch is one publisher of `CreateNewOutput`. While its stage there is "writing", `step` says
where the loop of `publish_validation_project_run` is. The job of a preset is the
verdict its worker ends with, `ended` is the history of those verdicts, and the
manifest is a record computed once, in the last file. `Valid` is the validation in
`ValidationRunManifest.__post_init__`: a manifest that contradicts itself is refused
and the run is discarded.

The page has one GUI thread. `poll` is two actions, the progress (`drain_progress`)
and the result (`poll_result`), with the batch thread free to move between them.
`dashboard_dies` and `cli_dies` may happen in any state; the next start finds the
output path as it was left and nothing else. One batch runs at a time here; publishers that
run at the same time are the subject of `CreateNewOutput`.

Left out: editing of project files beyond "saved or not", contents of artifacts. What the files say, in
every version of their schema, when the files of an archived run match its manifest (`RunVerified`),
and the comparison of two runs are operators of `ProjectFiles`;
`MC_ProjectWorkspace` assumes `ValidAsWritten`: `Valid` accepts just the manifests that the
full validation accepts.

### LiveMonitor

The worker thread runs `run_read_workflow` or `run_streaming_read_workflow` step
by step: capabilities, a sample gate, a reading, the observer that publishes a
point, the interval in slices, the disconnect whose error replaces the result. The
session's lock makes `publish`, `pause`, `resume` and each look of `checkpoint` one
action. A point is its ordinal. A handler of the GUI acts first and copies the
snapshot in a second action, so the job may end in between. The worker around the
job, which `ProductJobWorker` models, is its token and its verdict here. A hook that
raises may have lost or renewed the link (`Trouble`). A workflow builds its result through
`Returned`, since the result's own validation (`ResultAccepted`) may refuse it; it never does
(`ResultsAreAccepted`). The disconnect at the end skips an adapter that is DISCONNECTED by then.

### Analyses, criteria, record protocol, sources and setup

These parts of the code compute and keep little (a tracker, a log, a cursor or a random stream,
whose value is an argument and a result here). Their modules have operators and no
variables. A claim compares an operator with a reference definition, or what it builds
with the validation of the class in which the code stores it, over all the inputs of a
bounded set. `MC_SweepRunner` assumes the claims of `AnalysisClaims` and
`SourceClaims`, `MC_SerialAdapter` those of `ProtocolClaims`, and `MC_LiveMonitor` those of
`SetupClaims` and `CommandClaims`, and `MC_CreateNewOutput` those of `DocumentClaims`: TLC evaluates each
one before it explores the states. Arithmetic is exact: voltages are integers, a fit is an integer over a named
denominator, a threshold is doubled. Only the mean of the cycle widths is also computed
with rounding (`FMean`), because its validation compares it exactly.

- Quality: every decision passes its own validation for every measurement that can exist and every
  policy; a measurement counts just when it has a number and all doubts are allowed.
- DC sweep and calibration: records are paired once and in order; the check for two distinct
  inputs is what the division needs; the line is that of least squares; r squared leaves
  [0, 1] by rounding only; a calibration does not worsen the squared errors it was fitted to.
- Hysteresis: each leg gets the setpoints planned for it; a leg has a threshold just when its
  inputs are in order and its states are first all the one and then all the other.
- Frequency response: crossings are those of the reference definition, each once; a gain that
  reaches the target is never missed.
- Criteria: PASS is earned, and kept under looser criteria (also proved, section 4).
- Protocol: the catalogue's check value; one or two errors and short bursts are detected;
  wrapped sequence numbers tell what true ones would; the log loses nothing silently. What a
  device announces is what it can do, for every set of commands over up to two inputs and one channel
  of each other kind; a damaged response announces nothing; outputs stay within their declared
  ranges; a projection can set none. Numbers of a response are whole; their rendering with twelve
  digits is left out.
- Sources: a replay document that lost or doubled a row is refused; each channel of a replay gives
  its rows in order and once through any pauses and reconnects, and sleeps the time between them;
  a simulated channel does not depend on reads of the others; an output that the simulator
  limited is never fitted. Each read of the sources is one that the adapter models allow
  (a reading or an error), so the sources refine nothing and are checked on their own.
- Imports: the bytes of a table are what each separator makes of them, and a cell is the number it
  reads as. An import is a replay document, its rows stay in order, a mapping survives its file and
  the page's fields. A package verifies wherever it is moved; one that was edited, digests included,
  verifies only if no record, project or manifest entry depends on the edit (the same edits were tried on
  the code). Any order of the page's operations over two files that change publishes what is on
  display (`PublishedIsOnDisplay`; twelve operations reach every page of the instance).
- Setup: a number of the form is read or unreadable, and a channel is a member of a small set. The
  forms are every selection with one field edited, or two; the wizard's setups are those that any
  sequence of its operations reaches (`EverySetupIsReached` shows that twenty reach them all). A
  selection with its defaults can always be run; a refusal names a control the user can reach, but
  for three exceptions (section 5); presets lose nothing; the panel shows what is selected; a job
  is prepared only while it is the one on display; serial runs are confirmed. The promises about
  presets and pages are also proved, for every form (section 4).
- Command line: a call is the form with the same entries, so that command and form can be
  compared: both run the same jobs but for two limits (`CommandsAgreeWithTheForm`). A service is a
  sequence of steps, any of which may be the first to see a cancellation or to fail; the end of a
  job, the wishes for files and the state of their paths give an exit code. Exit code 0 is earned; nothing is
  replaced; a report exits with the code of its run, and a project with the gravest code of its
  tests. The issue of an error is the first rule one of its bases matches, for every class of error
  that the code raises.
- Result documents: a bundle is built from the points that the analysis modules compute, of one
  point of any quality, alone or before a good one. Every evaluation, complete or not, can be exported;
  both formats read back what they wrote; a row or a field that is lost, doubled or moved is
  refused, with the exceptions of section 5; the lineage of calibration coefficients is that of the included
  points. The smallest size of a point in bytes is a number measured from the format.
- Project files: a path is a sequence of names, and a digest is what it was computed from. A
  project is read with the files it named, in its own directory and in that of a run; manifests of
  every version are read as written; the status of a run follows from what ran, but for the tie
  of a manifest to its snapshot; a comparison finds the same changes in either direction; every progress
  report of a batch is accepted. An archived run opens just when every file its manifest names is there,
  inside the run, unchanged and within its limit (`OpenedRunsAreWhole`).

## 3. Runs

| Run | Constants | What it shows |
|---|---|---|
| `worker_safety` | 2 callers, 2 jobs, queue of 2, no progress reports | exclusive ownership, released before terminal, cancellation and leak precedence, event accounting, close is final, verdicts stable |
| `worker_liveness` | 2 callers, 1 job, queue of 1, 1 progress report | accepted jobs end; join, cancel_and_join and close answer |
| `worker_interrupted_start` | 1 caller, 2 jobs, interrupt allowed | finding 1 |
| `dashboard_safety` | 2 jobs, queue of 2 | event attribution, no orphaned run, result page and export of the reviewed run, the worker used as specified |
| `dashboard_liveness` | 1 job, queue of 1 | a started run is shown as a result |
| `dashboard_cancel_export` | 1 job, 1 progress report | finding 2 |
| `serial_adapter` | records of 2 bytes, chunks of 3, 1 reconnect, 2 connections, 3 telemetry records, 2 channels, 2 polls, buffer of 3, raw log of 2 | framing, port ownership, separation of connections, confirmed and fresh reads, calls return |
| `sweep_runner` | 2 levels, 2 setpoints read twice (8 measurements) | verdicts earned, outputs authorised and never silently live, refinement of the attempt |
| `sweep_absent_capability` | 2 levels, 1 repetition | finding 3 |
| `create_new_output` | 3 publishers of every combination of kinds, symmetric | an output path keeps the promise of `RunStore` |
| `project_batch` | 2 batches, 2 presets of which one replays a file, selections of one and of both | the manifest tells what happened, results reach their page, a batch publishes as specified and is reported |
| `live_monitor` | 2 channels, 3 cycles with interval, trace of 4 points, 2 pauses | a pause is prompt, cancellation ends it, the last panel is complete |

Why the bounds are enough to meet the hard cases:

- Two jobs are needed for a start that overlaps the end of the thread before it;
  two callers for a cancel or close that overlaps a join. A job publishes
  STARTING, RUNNING and a terminal event, so a queue of two overflows. Progress reports
  only add events in RUNNING; the liveness run has one.
- A record of two bytes and a chunk of three let a record end in, before and after
  a chunk, and make both an overlong record and one that is exactly at the
  limit. Two connections are the least in which something can cross. A record
  gives two readings, so a buffer of three refuses the second record with one
  place free. A raw log of two is smaller than a full chunk of records.
- Two setpoints distinguish reading at the right one from reading at any; two
  repetitions let one setpoint follow itself and then change. Every ending of an
  attempt is possible at every step of this plan. An earlier attempt and the
  caller's own calls between attempts give a second attempt its starting states.
- Three publishers: one that looked before, one that owns the path, and one that
  takes over between them; every combination of directory and file kinds.
- Two batches give one that is over (or whose process died) while the next
  one runs. Two presets are the least with a first, a following and a last one, and
  with a replay whose input is archived before a failure. The selection of one preset
  makes PARTIAL possible.
- Six readings against a trace of four points make the bound evict; with two channels a
  cycle has an inside and an end. Two pauses allow one during the other's resume.

Views and symmetry. In the worker's safety run, callers are interchangeable and no
temporal liveness is checked. Its view and the Dashboard's replace event indexes and
counters by their differences: guards and properties read only those. The
Dashboard's view also drops the locals of earlier jobs: a thread that is no longer
the owner changes nothing but its own completion.

Deadlock is checked except where the system may stop for good: the Dashboard's
window is closed, every publisher is over (`create_new_output`, `project_batch`) or the job
has ended and its page is shown (`live_monitor`).

### Fairness

- `SchedulerFairness`: a job thread between the calls into its service, and a
  caller inside a call, are scheduled, and deadlines pass. No caller is obliged to
  call anything.
- `ServiceCooperates`: factory, run and cleanup return. This is the contract that
  `docs/product-worker.md` asks of services; `JobEnds` assumes it,
  `CallReturns` does not.
- Dashboard: strong fairness for `Tick`, as Tk serves due timers between user
  events; weak fairness for the rest of a callback that has begun and for the
  services.
- Serial: weak fairness for a call in progress; every backend read ends, with bytes
  or at the read timeout.
- `ProjectWorkspace`: weak fairness for the steps of the batch thread, whose waits are
  bounded by the join timeout, for its last line (`deliver`), and for the two halves
  of `poll`, which `poll_worker` reschedules for ever. A job is not assumed to end: a
  batch is reported even if it hangs.
- `LiveMonitor`: weak fairness for the worker thread; every adapter call returns. The
  GUI is not obliged to resume: `CancelEndsPause` follows from the slices of
  `checkpoint`.
- The runner has no fairness and no liveness property: nothing bounds its callbacks.

## 4. Proofs

| Module | Theorems |
|---|---|
| `ProductJobWorkerProofs` | `InductiveInvariant`, `TypeCorrect`, `ExclusiveOwnership`, `VerdictPrecedence`, `CloseIsFinal`, `VerdictsAreStable`, `EventQueueCorrect`, `QuietWorkersHoldNothing`, `LeaksAreReported`, `LatestEventIsCurrent` |
| `DashboardProofs` | `DashboardUsesWorkerAsSpecified`, `DashboardOwnsOneService`, `ExportBelongsToReviewedRun`, `DashboardTypeCorrect`, `WatchInvariant`, `EventsAreAttributed`, `ActiveRunsAreWatched`, `ResultPagesAreFinal` |
| `SerialAdapterProofs` | `AdapterInvariant`, `AdapterTypeCorrect`, `FramingCorrect`, `PortFollowsAdapter`, `ConnectionsAreSeparate`, `OnlyConfirmedReads`, `ReadingsComeInOrder`, `SerialAdapterFollowsLifecycle`, `CallsAreBounded` |
| `SweepRunnerProofs` | `LifecycleInvariant`, `LifecycleForgetsNoOutput`, `LifecycleAuthorisesOutput`, `SweepFollowsLifecycle`; `AttemptInvariant`, `RunnerTypeCorrect`, `OutputNeverSilent`, `VerdictsAreEarned`, `OutputsAreAuthorised`, `LiveOutputsAreErrors`, `RunnerImplementsAttempt`; `DerivedResultAccepted`, `PassIsEarned`, `SizeCriterionNeverFails`, `LooserCriteriaKeepPass` |
| `CreateNewOutputProofs` | `OutputInvariant`, `OutputTypeCorrect`, `RunStoreImplemented` |
| `ProjectWorkspaceProofs` | `BatchesPublishAsSpecified`, `RunDirectoriesAreStored`, `WorkspaceInvariant`, `WorkspaceTypeCorrect`, `ManifestsAreTrue`, `ResultsReachTheirBatch` |
| `LiveMonitorProofs` | `MonitorInvariant`, `MonitorTypeCorrect`, `PauseIsPrompt`, `ResultPageIsComplete`, `MonitorFollowsLifecycle` |
| `SetupPagesProofs` | `PresetsKeepTheTest`, `SetupInvariant`, `SerialRunsConfirmed`, `RunsAreBounded`, `RunsAreOfTheirReview`, `EnabledButtonsWork` |

The proofs rest only on the named assumptions on constants (`WorkerAssumption`,
`GuiAssumption`, `SessionAssumption`, `AdapterAssumption`, `LevelAssumption`,
`OrderAssumption`, `NobodyAssumption`, `PresetAssumption`, `PlanAssumption`,
`MonitorAssumption`, `NoneAssumption`), which TLC evaluates for each instance.

**Worker.** None of the safety properties is inductive, and they rest on two invariants. What
decides a verdict is the job that the worker records, so verdicts need nothing about how threads
start: `VerdictInv` says that jobs not yet accepted have no thread and no token
(`FutureIsUnborn`, `CancelledWereAccepted`), that a leak comes from a cleanup
(`LeaksAreCleanups`), and that the thread of a job with a verdict is not between its run and
its verdict (`EndedIsNotAtWork`). `VerdictPrecedence` and `LeaksAreReported` follow for every
worker, the interrupted start of finding 1 included: a thread that was lost may still run, but it
cannot make a success of a job that was cancelled or leaked. For that they need the owner check of
`_finish_job` (`worker.py:473`), which no run that excludes the interrupt can tell from its absence.
TLC confirms it on a smaller instance (1 caller, 2 jobs, queue of 1, interrupt allowed): both
invariants hold in its four million states, and both fail without the check. That a terminal worker holds no
service depends on which thread may still run. `IInv` says that a thread at work is that of the
recorded job and the worker is then active (`LiveIsOwner`), that an active worker has such a
thread (`ActiveIsLive`), that a service is held only between factory and cleanup
(`HeldWhileAtWork`), and that a closing caller waits for the last job of a closed worker
(`ClosersWaitForLast`). It is an invariant under `~InterruptibleStart`, so the theorems on
ownership, closing, quiet workers and the stability of verdicts have that assumption; with the
interrupt, `SingleService` is false (finding 1). `TypeCorrect`, `EventQueueCorrect` and
`LatestEventIsCurrent` hold with the interrupt too; the event queue has an invariant of its
own, for any capacity.

**Dashboard.** Every action is a worker action or leaves the worker's variables
unchanged, so the worker's theorems carry over (`DashboardOwnsOneService`, under
`~InterruptibleStart`). The export theorem needs an invariant over the three phases of the
reviewed job: in a poll, before its start, after its start (`ReviewedJob`). That the panel tells the
reviewed job's own ending needs to know, after each of the reads of a poll, what has been read and
what the worker has published since (`PanelInv`). What else the GUI
shows needs `WatchInv`: whose events the queue holds (those of the worker's last job;
the poll before a start has emptied it), that an active worker has the Run page or a
start in progress, and that the state read by a poll is that of the job on the
page. It uses the worker's `IInv` and so assumes `~InterruptibleStart` as well.

**Serial adapter.** The strengthening has one part per matter: flags and names of
session and adapter, where a call is (`CallPhase`), framing of the incomplete and of
the complete records, provenance of bytes and readings, and the order of
reception along the path buffer, records, measurements, delivered (`Ordering`): what is
further along was received earlier, and nothing is beyond what was sent. The refinement of
`LifecycleSpec` needs one more fact, that a negotiation goes on only while nothing is confirmed
(`NegotiationIsNeeded`); otherwise a call could return capabilities that differ from those
the adapter has confirmed. `CallsAreBounded` is the safety half of `CallsReturn`: each step of a call ends
it or decreases, in lexicographic order, its polls, the stage of the poll, the room left in the chunk
and the records left. That such a step is always possible is ENABLED, and stays with TLC.

**Lifecycle and sweep runner.** `AdapterInv` speaks of the adapter alone: a state in which output
may be live has a configuration and capabilities that allow a shutdown, so a call that
leaves it stops the output or does not return normally. It is an invariant of `LifecycleSpec`
itself, so what follows from it (`LifecycleForgetsNoOutput`, `LifecycleAuthorisesOutput`) holds of
whoever uses an adapter, in whatever order; that the sweep runner, the live monitor and the serial
adapter implement `LifecycleSpec` carries it to them. `Progress` counts steps and
measurements at each place of the attempt, `Books` says when outcome, pending outcome
and cleanup error are still unset, `Link` what is known of the adapter there (above
all, that an attempt without a pending outcome reaches the release in an output
state), and `Readings` that the measurements are the planned ones. The refinement is
proved step by step against `TestAttempt`.

**Setup.** `SetupSpec` has every operation of the wizard as an action, the third page submits any form
of `Draft` (any numbers, names and aliases, not only what the selections lead to), and a preset is any that
a file can hold. Its invariant is what it promises: the entries have their types (`SetupShape`), panel
and form agree and the catalog allows them (`Selection`), and a job is held exactly on the pages that
show or run it, that of the accepted form on display (`Held`). The work is in the form: a refusal
is the first failing check of a sequence, so a form is accepted just when every group of its checks
passes (`AcceptedForm`, from `NothingRefused` and `ChecksInTurn`, which need that no field is called
`None`, the assumption `NoneAssumption`), and the bounds of a run follow from the checks by
name. `PresetsKeepTheTest` needs in addition that the form made of a configuration reads as that
configuration (`PresetReadsBack`). A form may say "confirmed" for a source that is not serial; its configuration
never does, and that is what `SerialConfirmed` states. `SetupClaims` evaluates the same promises, and the ones
that depend on which controls are enabled, over chosen edits.

**Criteria.** The theorems on `AcceptanceCriteria` need no invariant: they follow from the order of
the checks in `_derive_evaluation`, for any limits and any set of criterion names.

**Publication.** `OutputInv` says that a path with an owner holds a whole output, and
that only the owner is past its move or has returned. The look at the path
protects nothing; the argument rests on the one call that moves the staged output and
on each publisher's staging name being its own.

**Batch and project page.** `BatchInv` follows the loop: nothing is noted before the
staging directory exists (`Blank`); while presets run all earlier ones succeeded and the
records are the jobs that ended (`Underway`, `Books`); once the loop is over its status is
explained by the books (`Concluded`); and only a manifest that does not contradict itself
reaches the move (`Coherent`). The page's own invariant (`PageInv`) adds that a thread whose batch is gone
has left its result in the mailbox and that posted progress is of the batch that
runs. Publication carries over from `CreateNewOutput` by step simulation.

**Live monitor.** `LiveInv` has a part for each thing the two threads share: the adapter
follows the place of the workflow (`Source`); measurements, trace and output slot agree
(`Evidence`, `Trace`); a paused job is not past the gate of a reading, unless it was
before the pause (`Pausing`); and what the GUI has seen is what the worker was
(`Watching`), so a snapshot taken after a terminal poll is the last one.

**Model-checked only.** Liveness (`JobEnds`, `CallReturns`, `RunIsReported`,
`CallsReturn`, `BatchIsReported`, `CancelEndsPause`), since fairness and ENABLED are
outside the prover, the violations of section 5, and the claims on analyses, protocol,
sources, setup, command line and documents except those on the criteria and on the wizard's pages. Every safety property of a passing
run is also a theorem. What a recursive definition computes for every input cannot be
proved with the installed provers; no module declares a RECURSIVE operator.

## 5. Where code and documentation disagree

1. **An interrupted start loses a running thread** (`worker_interrupted_start`).
   `worker.py:260` treats every exception out of `thread.start()` as "could not
   start". A KeyboardInterrupt that arrives after the native thread began leaves it
    running under a FAILED, restartable worker; the next start owns a second service.
   The lost thread has no owner check before its run (`worker.py:380-381`), so it may set RUNNING over
   the verdict of a later job, which its own `_finish_job` then leaves alone: with a second job that
   ended meanwhile, the worker stays RUNNING for good and refuses every start. `VerdictStable` and
   `JobEnds` fail in this way when the interrupt is allowed.
   The class promises "Run at most one injected service at a time".
2. **A cancelled run can offer an export** (`dashboard_cancel_export`).
   `application.py:448` presents the output slot whatever state the worker ended in.
   A cancellation (or a failed cleanup) after the service published its output leaves a
   completed report and its export. `docs/dashboard.md:275`: "it cannot create a PASS or
   export."
3. **An absent capability can raise** (`sweep_absent_capability`). With another
   profile and a missing capability, the validation at `dc_sweep.py:306` refuses the
   UNSUPPORTED that `docs/dc-sweep-runner.md:93` promises.

Smaller observations that the models contain as behaviour:

- A hysteresis analysis of three or more complete cycles can raise instead of giving a summary:
  `fmean` rounds the sum, the mean width may then lie outside the bounds of the widths, and
  `analysis/hysteresis.py:349` refuses it. Three cycles of equal width are enough when the width
  is not a short binary fraction (`RoundedMeanMayLeaveItsBounds`).
  `docs/hysteresis-analysis-and-runner.md:48` says that complete cycles publish a summary.
- A calibration raises, where other gaps give INCOMPLETE, on a scale of zero and on a raw record that
  occurs twice among the included points (`ScaleRefused`, `LineageRefused`); a frequency response
  raises on an output amplitude of zero (`RatioRefused`).
- A plateau at the cutoff target counts as one crossing per point, except for the last point of a
  plateau that ends the sweep; two crossings are refused as ambiguous (`CrossingsFoundOnce`).
- The criteria INCLUDED_POINTS and COMPLETE_CYCLES cannot fail: too small an analysis is INCOMPLETE
  before they are looked at (`SizeCriterionNeverFails`).
- A simulated sample whose read fails is gone: the next read gives the next sample (`Simulated`). Past
  its last point the frequency simulator raises a state error, where a replay ends its data
  (`FrequencyRead`).
- A field that no enabled control shows can block the Review: what was left unreadable there for
  another test is still refused (`HiddenFieldsThatRefuse`). The CSV replay of a frequency response is
  refused for a cutoff and an amplitude that only the simulator uses, and a serial READ of more than
  1250 samples for a setting that the form does not have (`RefusalsNameAnEditableField`). Limits
  that contradict each other pass the form and fail later with no field to point at
  (`OnlyLimitsRefusedLate`).
- Choosing the simulator after the profile `msp430.health/1` leaves that profile's channel in the
  form; the review accepts it and the run is unsupported (`StaleChannelIsReviewed`).
- A command that is interrupted while its job succeeds, and that was asked for a file, exits with 5 and
  an internal message instead of 130: `_execute_cli_job` does not read the output after an interrupt
  (`InterruptsExit130`).
- With the defaults of `observe`, 32 polls of 250 ms for the first operation alone outlast the five seconds for
  which the command waits, so a silent device ends as a timeout of the job (`ObserveMayBeCutOff`).
- A result file whose path cannot be used is reported as bad input data, where every other output path is
  an OUTPUT_PATH issue (`ResultPathIsReportedAsInput`). When the second of two files cannot be
  written the first stays, and the command exits with 5 (`HalfTheFilesAreLeft`).
- Only the form lets an analysis of one point through to the job, and only the command caps the buffer of a
  serial monitor whose records would not fit (`CommandsAgreeWithTheForm`, `BuffersHoldTheRecords`). The
  command that replays a frequency sweep offers, and enforces, the simulator's two options
  (`CommandsOfferTheForm`).
- Results are written without a limit and read with one (`exports/json_v1.py:459`, `_files.py:29`): a run of some
  3000 points, where 10000 are allowed, ends with exit code 0 and a file that no report can be made
  of; such a run of a project leaves a COMPLETE manifest whose history is always refused. The same holds of
  calibration coefficients, and the limit on rows can never be the one that is met
  (`LongRunsCannotBeReadBack`).
- The verification of an import package does not tie the name of the source, which may be edited in the manifest
  (`SourceNamesAreNotVerified`), nor the unit of a column of zeros (`EditedPackagesAreRefused`). Elapsed times that run
  backwards within a microsecond are imported as equal (`TimesKeepTheirOrder`).
- Two runs that were cancelled before their first preset are published both, and cannot be compared
  ("comparison must contain entries", `ComparisonsAreFair`).
- The oldest manifests have no plan, so records that changed places in one are not noticed
  (`EditedManifestsShowTheFailures`).
- A preset that is being cancelled is reported as RUNNING again when its worker fails
  (`ProgressIsAccepted`).
- A CSV result that is cut off after its first limitation is read without the others
  (`DamagedRowsAreRefused`); if its rows are numbered anew, a schema, a metric or a criterion on which
  no FAIL rests may be missing too (`EvidenceCannotBeRemoved`).
- The loss of half the range of sequence numbers or more is told as a late record
  (`LongLossLooksLate`).
- A capability response that lost its END costs the next one too, whose DEVICE clears it
  (`LostEndCostsTheNextResponse`); and a device that announces its channels in another order is
  taken for changed (`OrderOfChannelsCounts`).
- Telemetry that arrives during negotiation, or for channels nobody reads, fills a buffer that only
  reads drain (`serial_adapters/core.py:426`); from then on every call fails.
- An interrupt in the connect hook leaves the source open and the adapter DISCONNECTED,
  so the runner's cleanup skips it and INCOMPLETE is reported (`base.py:94`).
- An interrupt in the shutdown hook of `disconnect` skips the release hook
  (`base.py:228-239`).
- An interrupt between the two appends of a step (`dc_sweep.py:573`) can make the
  result's validation raise where INCOMPLETE is documented.
- `get_capabilities` after a safe shutdown re-enters CAPABILITIES_CONFIRMED.
- `PySerialBackend.close` forgets the port before the concrete close may raise.
- A Ctrl+C that arrives outside `execute_product_job` (between two presets, while
  artifacts are written) and a join that times out discard the whole run directory with
  the results of the earlier presets. `docs/test-projects-and-history.md:82-85` and
  `:134-136` read as if every interrupted batch kept them.
- On POSIX `os.rename` replaces an empty directory, so a run, a report or a demo takes over an
  empty directory that another program made after the look.
  `docs/test-projects-and-history.md:77-78` and `docs/human-reports.md:129-131` say that existing
  directories are never replaced; `RunStore` keeps the weaker promise.
- `publish_validation_project_run` can raise although its output is published, when the
  last progress callback raises.
- A progress report that is drained after the result overwrites the summary of the
  batch on the project page (`project_workspace.py:460`).

## 6. Order of the work

The modules were written in this order: worker, Dashboard over it, serial session and
adapter, adapter lifecycle with the DC sweep runner and the abstract attempt, output
publication with the abstract store, project batch and project page over it, live
monitor over the adapter lifecycle; each with its theorems. The operators of the analyses, the
criteria, the record protocol, the sources, the setup, the command line and the documents came last.

What would come next: a run of the hysteresis runner's result validation; the one-shot
execution as a client of the whole `ProductJobWorker` instead of its verdict; two
Dashboards and a command line at once above `CreateNewOutput`.

## 7. Not modelled

The components that section 1 lists and section 2 does not, with the reasons in
`PROJECT.json`: rendering of reports and figures, Tk layout and build scripts. Of the command line, the
printed documents and the commands that run no job (inspection of projects and tables, version) are
left out. Of the analyses, rounding
(except in the mean width) and logarithms are left out, and the runner model takes their results as any
outcome.
