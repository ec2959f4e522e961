------------------------------ MODULE CommandLine ------------------------------
(***************************************************************************)
(* The command line: the options of the commands that run a job and what   *)
(* they accept, the run of a service with its checkpoints, the execution   *)
(* of the job until it has ended, the files written afterwards, the user   *)
(* issue an error becomes and the exit code (cli.py, services.py,          *)
(* issues.py, errors.py).                                                  *)
(*                                                                         *)
(* A call is written as the Draft of ProductSetup with the same entries:   *)
(* an option that is not given, or not offered, holds its default.         *)
(***************************************************************************)
EXTENDS ProductSetup

--------------------------------------------------------------------------------
(* Options *)

Serial(i) == i.source = "SERIAL_READ_ONLY"

\* the options that take a number
JobOptions(job) ==
    CASE job = "READ" -> {"sample_count"}
      [] job = "DC_ANALYSIS" ->
            {"sample_count", "low_output_limit", "high_output_limit", "target_gain",
             "gain_tolerance", "max_abs_offset", "min_r_squared", "max_rmse"}
      [] job = "HYSTERESIS_ANALYSIS" ->
            {"rising_count", "falling_count", "minimum_high_threshold",
             "maximum_high_threshold", "minimum_low_threshold",
             "maximum_low_threshold", "minimum_width", "maximum_width",
             "maximum_width_span"}
      [] job = "CALIBRATION_ANALYSIS" ->
            {"sample_count", "max_calibration_rmse",
             "max_calibration_mean_absolute_error",
             "max_calibration_absolute_error", "minimum_calibration_rmse_reduction"}
      [] job = "FREQUENCY_RESPONSE_ANALYSIS" ->
            {"frequency_point_count", "frequency_minimum_hz", "frequency_maximum_hz",
             "frequency_input_amplitude", "simulated_cutoff_frequency_hz",
             "target_cutoff_frequency_hz", "cutoff_relative_tolerance", "cutoff_drop_db"}
      [] OTHER ->
            {"sample_count", "monitor_sample_interval_seconds",
             "monitor_time_window_seconds", "monitor_max_buffer_points"}

Options(i) ==
    JobOptions(i.job)
    \cup (IF i.source = "CSV_REPLAY" THEN {"replay_minimum", "replay_maximum"} ELSE {})
    \cup (IF Serial(i) THEN SerialNumber ELSE {})

\* the channels a command lets its user name
ChannelOptions(job) ==
    CASE job = "READ" -> {"primary"}
      [] job \in {"DC_ANALYSIS", "CALIBRATION_ANALYSIS"} -> {"primary", "secondary"}
      [] job = "FREQUENCY_RESPONSE_ANALYSIS" -> {"frequency", "primary", "secondary"}
      [] job = "HYSTERESIS_ANALYSIS" -> {"primary", "state"}
      [] OTHER -> {"primary", "secondary", "state"}

\* where a command's defaults are not those of the form
CommandDefault(i) ==
    CASE i.job = "DC_ANALYSIS" -> [Default EXCEPT !.sample_count = 24]
      [] i.job = "CALIBRATION_ANALYSIS" -> [Default EXCEPT !.sample_count = 8]
      [] i.job = "READ" /\ Serial(i) -> [Default EXCEPT !.sample_count = 10]
      [] i.job = "LIVE_MONITOR" /\ Serial(i) ->
            [Default EXCEPT !.sample_count = 20, !.monitor_sample_interval_seconds = 20,
                            !.serial_read_timeout = 50, !.serial_max_polls = 4]
      [] i.job = "LIVE_MONITOR" /\ ~Serial(i) ->
            [Default EXCEPT !.sample_count = 50, !.monitor_sample_interval_seconds = 20]
      [] OTHER -> Default

\* a call that names its source, and its port or file, and nothing else
PlainCall(i) ==
    [NewDraft EXCEPT
        !.source = i.source, !.job = i.job, !.profile = i.profile,
        !.text = [f \in Field |-> <<CommandDefault(i)[f]>>],
        !.path = i.source = "CSV_REPLAY", !.port = Serial(i), !.confirmed = Serial(i),
        !.include = IF i.job = "LIVE_MONITOR" /\ Serial(i)
                    THEN [secondary |-> FALSE, state |-> FALSE] ELSE NewDraft.include]

\* what the parser of the options bounds itself
Bounded(call, f) ==
    LET least == CASE f \in {"rising_count", "falling_count"} -> 2
                   [] f = "sample_count" /\ call.job \in Analyses -> 2
                   [] f = "frequency_point_count" -> 10
                   [] OTHER -> 1
        most == IF f = "serial_baud_rate" THEN MAX_BAUD_RATE ELSE MaxSamples
    IN  f \in {"sample_count", "rising_count", "falling_count", "frequency_point_count",
               "monitor_max_buffer_points", "serial_baud_rate", "serial_max_polls"} =>
            call.text[f][1] \in least..most

Parsed(call) ==
    /\ \A f \in Options(call) : call.text[f] # <<>> /\ Bounded(call, f)
    /\ call.job # "READ" => call.unit \in {"V", "mV"}
    /\ call.source = "CSV_REPLAY" => call.path
    /\ Serial(call) => call.port /\ call.aliases # None

\* the configuration of a call that was parsed
Settings(call) ==
    [Configuration(call) EXCEPT !.n = [f \in Field |-> call.text[f][1]]]

ObservedRecordsBuffer(call) == BufferedMeasurements(call.text.sample_count[1])

MonitoredRecordsBuffer(call) ==
    LET wanted == BufferedMeasurements(
                    call.text.sample_count[1] * EnabledChannels(Settings(call)))
    IN  IF wanted < MaxSamples THEN wanted ELSE MaxSamples

\* confirmed first, then the settings of the source; the buffer is the command's own
SerialSettingsUsable(call) ==
    LET buffer == IF call.job = "READ" THEN ObservedRecordsBuffer(call)
                  ELSE MonitoredRecordsBuffer(call)
        others == SelectSeq(SerialSourceChecks(call),
                            LAMBDA check : check[2] # "max_buffered_measurements")
    IN  /\ call.confirmed
        /\ Refused(others) = None
        /\ buffer <= MaxSamples

\* a call that gets as far as a job
Configured(call) ==
    /\ Serial(call) => SerialSettingsUsable(call)
    /\ Refused(ConfigurationChecks(Settings(call))) = None
    /\ Constructible(Settings(call))

\* how long the command waits for the job, in ms
JoinTimeout(call) ==
    LET c == Settings(call)
        bound == Cadence(c) + SerialWaitBudget(c) + 5000
    IN  IF call.job # "LIVE_MONITOR" THEN 5000
        ELSE IF bound > 60000 THEN 60000 ELSE bound

--------------------------------------------------------------------------------
(* A service runs its job *)

Acquire == <<"checkpoint", "progress", "read", "checkpoint">>

Evaluate == <<"progress", "analyse", "checkpoint", "evaluate", "export", "checkpoint">>

PublishResult == <<"publish", "progress", "return">>

ServiceSteps(job, read) ==
    Acquire \o (IF job \in Analyses /\ read = "COMPLETED" THEN Evaluate ELSE <<>>)
            \o PublishResult

StatusFromOutcome(outcome) ==
    CASE outcome \in {"PASS", "FAIL"} -> "COMPLETED"
      [] outcome = "ABORTED" -> "CANCELLED"
      [] OTHER -> outcome

(* What a run yields: the status of its read, or of its evaluation, and    *)
(* what its slot holds then.  A fit that is incomplete may be without      *)
(* coefficients.                                                           *)
ServiceResults(job) ==
    LET bare(status) == [status |-> status, outcome |-> None, made |-> {}]
        formal(outcome, made) ==
            [status |-> StatusFromOutcome(outcome), outcome |-> outcome, made |-> made]
        report == {"output"}
        fit == {"output", "coefficients"}
    IN  {bare("INCOMPLETE"), bare("UNSUPPORTED")}
        \cup CASE job = "CALIBRATION_ANALYSIS" ->
                    {formal(outcome, fit) : outcome \in {"PASS", "FAIL", "INCOMPLETE"}}
                    \cup {formal("INCOMPLETE", report)}
               [] job \in Analyses \ {"CALIBRATION_ANALYSIS"} ->
                    {formal(outcome, report) : outcome \in {"PASS", "FAIL", "INCOMPLETE"}}
               [] OTHER -> {bare("COMPLETED")}

(* A run to which the cancellation shows from step "from" on, in which the *)
(* step "fails" raises (0: none): how it ends and whether it published.    *)
ServiceRun(steps, from, fails) ==
    LET Stops(k) == k = fails \/ (k >= from /\ steps[k] \in {"checkpoint", "progress", "read"})
        stop == {k \in DOMAIN steps : Stops(k)}
        last == IF stop = {} THEN Len(steps) ELSE CHOOSE k \in stop : \A m \in stop : k <= m
    IN  [published |-> \E k \in 1..last : steps[k] = "publish" /\ k # fails,
         ended |-> IF stop = {} THEN "returned" ELSE IF last = fails THEN "raised"
                   ELSE "cancelled"]

(* The records of a hysteresis run are paired in the order they were read  *)
(* and cut once, after the rising pairs.                                   *)
HysteresisBatches(inputs, states, rising) ==
    LET pairs == [k \in 1..(IF Len(inputs) < Len(states) THEN Len(inputs) ELSE Len(states))
                    |-> <<inputs[k], states[k]>>]
    IN  <<SubSeq(pairs, 1, rising), SubSeq(pairs, rising + 1, Len(pairs))>>

--------------------------------------------------------------------------------
(* Errors and the issues shown for them *)

Subclasses ==
    [Exception |-> {"ProductAppError", "AnalogValidationError", "OtherError"},
     ProductAppError |->
        {"ProductRequestError", "ProductCatalogError", "ProductCliError",
         "ProductDependencyError", "ProductServiceError", "ProductDemoError",
         "ProductReportError", "ProductProjectError", "ProductWorkerError"},
     ProductRequestError |-> {"ProductFieldError", "VoltageImportError"},
     ProductCliError |-> {"CliUsageError", "ProductFeatureUnavailableError"},
     ProductDependencyError |-> {"ProductDashboardUnavailableError"},
     ProductDemoError |-> {"ProductDemoFormatError", "ProductDemoPathError"},
     ProductDemoPathError |-> {"ProductDemoExistsError"},
     ProductReportError |->
        {"ProductReportFormatError", "ProductReportLimitError", "ProductReportPathError"},
     ProductReportPathError |-> {"ProductReportExistsError"},
     ProductProjectError |->
        {"ProductProjectFormatError", "ProductProjectLimitError", "ProductProjectPathError"},
     ProductProjectPathError |-> {"ProductProjectExistsError"},
     ProductWorkerError |->
        {"ProductWorkerBusyError", "ProductWorkerClosedError",
         "ProductWorkerContractError", "ProductWorkerTimeoutError", "ProductJobCancelled"},
     AnalogValidationError |->
        {"ValidationError", "ProtocolError", "CapabilityError", "ConfigurationError",
         "AdapterError", "ReplayError", "ResultExportError", "SerialProfileError",
         "SerialTransportError", "RawEventError", "PySerialBackendError"},
     ProtocolError |->
        {"FramingError", "FrameTooLong", "CrcMismatch", "UnsupportedProtocolVersion"},
     AdapterError |-> {"AdapterConnectionError", "AdapterStateError", "AdapterDataError"},
     ReplayError |-> {"ReplayFormatError", "ReplayLimitError", "ReplayEndOfData"},
     ReplayFormatError |-> {"UnsupportedReplayVersion"},
     ResultExportError |->
        {"ResultExportFormatError", "ResultExportLimitError", "ResultExportPathError"},
     ResultExportFormatError |-> {"UnsupportedResultExportVersion"},
     ResultExportPathError |-> {"ResultExportExistsError"},
     SerialTransportError |->
        {"SerialStateError", "SerialDiscoveryError", "SerialOpenError", "SerialReadError",
         "SerialCloseError", "SerialReconnectError", "SerialBackendTimeout",
         "SerialBackendDisconnected"},
     SerialProfileError |-> {"SerialProfileStateError"},
     RawEventError |-> {"RawEventLimitError", "RawEventNotFound"},
     PySerialBackendError |-> {"PySerialUnavailableError", "PySerialBackendStateError"}]

ErrorClass == UNION {Subclasses[class] : class \in DOMAIN Subclasses} \cup {"Exception"}

Base(class) ==
    IF class = "Exception" THEN class
    ELSE CHOOSE base \in DOMAIN Subclasses : class \in Subclasses[base]

\* each class and its bases, the nearest first
Bases ==
    [class \in ErrorClass |->
        LET at[k \in 1..5] == IF k = 1 THEN class ELSE Base(at[k - 1])
        IN  [k \in 1..5 |-> at[k]]]

IsA(class, bases) == \E k \in 1..5 : Bases[class][k] \in bases

\* asked in this order
IssueRules ==
    <<<<{"ProductCatalogError"}, "CATALOG_NOT_FOUND">>,
      <<{"ProductFeatureUnavailableError"}, "CAPABILITY_UNAVAILABLE">>,
      <<{"ProductDashboardUnavailableError"}, "OPTIONAL_DEPENDENCY">>,
      <<{"ProductDependencyError"}, "OPTIONAL_DEPENDENCY">>,
      <<{"CliUsageError", "ProductRequestError", "ValidationError"}, "INVALID_REQUEST">>,
      <<{"ConfigurationError"}, "UNSAFE_CONFIGURATION">>,
      <<{"CapabilityError"}, "CAPABILITY_UNAVAILABLE">>,
      <<{"ResultExportExistsError", "ProductReportExistsError",
         "ProductDemoExistsError", "ProductProjectExistsError"}, "OUTPUT_EXISTS">>,
      <<{"ProductReportPathError", "ProductDemoPathError",
         "ProductProjectPathError"}, "OUTPUT_PATH">>,
      <<{"ProductReportFormatError", "ProductReportLimitError", "ProductDemoFormatError",
         "ProductProjectFormatError", "ProductProjectLimitError",
         "ResultExportFormatError", "ResultExportLimitError",
         "ResultExportPathError"}, "INPUT_DATA">>,
      <<{"AdapterConnectionError"}, "DEVICE_CONNECTION">>,
      <<{"ProtocolError", "ReplayError", "AdapterDataError"}, "INPUT_DATA">>,
      <<{"ProductAppError", "AnalogValidationError"}, "OPERATION_FAILED">>,
      <<{"Exception"}, "INTERNAL_ERROR">>>>

IssueRule ==
    [class \in ErrorClass |-> Head(SelectSeq(IssueRules, LAMBDA rule : IsA(class, rule[1])))]

issue_from_exception(class) == IssueRule[class][2]

IssueExit(code) ==
    CASE code = "INVALID_REQUEST" -> 2
      [] code \in {"CAPABILITY_UNAVAILABLE", "OPTIONAL_DEPENDENCY"} -> 4
      [] OTHER -> 5

\* at the boundary of the process; whatever is no error of the product is a defect
ErrorExit(class) ==
    IF IsA(class, {"ProductAppError", "AnalogValidationError"})
    THEN IssueExit(issue_from_exception(class)) ELSE 70

--------------------------------------------------------------------------------
(* Executions, exit codes and files *)

(* How execute_product_job ends: with an execution, or raising.  Ctrl+C    *)
(* while it waits cancels and waits for the end of the job, which may have *)
(* succeeded meanwhile; its output is not read then.                       *)
Execution(state, interrupted, result) ==
    [raised |-> None, state |-> state, interrupted |-> interrupted, result |-> result,
     made |-> IF state = "SUCCEEDED" /\ ~interrupted THEN result.made ELSE {}]

NoResult == [status |-> "ERROR", outcome |-> None, made |-> {}]

RaisedBy(class) ==
    [raised |-> class, state |-> "FAILED", interrupted |-> FALSE, result |-> NoResult,
     made |-> {}]

Executions(job) ==
    {Execution("SUCCEEDED", interrupted, result) :
        interrupted \in BOOLEAN, result \in ServiceResults(job)}
    \cup {Execution("FAILED", interrupted, NoResult) : interrupted \in BOOLEAN}
    \cup {Execution("CANCELLED", TRUE, [NoResult EXCEPT !.status = "CANCELLED"])}
    \cup {RaisedBy("ProductWorkerTimeoutError"), RaisedBy("OtherError")}

StatusExit(status, outcome) ==
    CASE status = "COMPLETED" -> IF outcome = "FAIL" THEN 1 ELSE 0
      [] status = "INCOMPLETE" -> 3
      [] status = "UNSUPPORTED" -> 4
      [] status = "CANCELLED" -> 130
      [] OTHER -> 5

ExecutionExit(e) ==
    IF e.interrupted \/ e.state = "CANCELLED" THEN 130
    ELSE IF e.state = "FAILED" THEN 5
    ELSE StatusExit(e.result.status, e.result.outcome)

(* files[a] is "free", "taken" or "nowhere" (no directory to put it in);   *)
(* files.same: both names mean one path; late: paths taken during the job. *)
FirstOf(errors) ==
    LET some == SelectSeq(errors, LAMBDA error : error # None)
    IN  IF some = <<>> THEN None ELSE Head(some)

Preflight(wanted, files) ==
    LET unusable(a) == CASE a \in wanted /\ files[a] = "taken" -> "ResultExportExistsError"
                         [] a \in wanted /\ files[a] = "nowhere" -> "ResultExportPathError"
                         [] OTHER -> None
    IN  FirstOf(<<IF wanted = {"output", "coefficients"} /\ files.same
                  THEN "CliUsageError" ELSE None,
                  unusable("output"), unusable("coefficients")>>)

Writes(a, wanted, e) == a \in wanted /\ e.state = "SUCCEEDED" /\ a \in e.made

ArtifactError(a, wanted, files, e) ==
    CASE Writes(a, wanted, e) /\ a \in files.late -> "ResultExportExistsError"
      [] /\ a \in wanted /\ e.state = "SUCCEEDED" /\ a \notin e.made
         /\ e.result.status = "COMPLETED" -> "ProductServiceError"
      [] OTHER -> None

(* A command whose call was accepted by its parser, and by the settings of *)
(* its test: its exit code, the files it wrote, whether a job was started. *)
CommandEnding(parsed, configured, wanted, files, e) ==
    LET ending(exit, written, started) ==
            [exit |-> exit, written |-> written, started |-> started]
        blocked == Preflight(wanted, files)
        made == {a \in wanted : Writes(a, wanted, e)}
        error(a) == ArtifactError(a, wanted, files, e)
    IN  IF ~parsed THEN ending(ErrorExit("CliUsageError"), {}, FALSE)
        ELSE IF blocked # None THEN ending(ErrorExit(blocked), {}, FALSE)
        ELSE IF ~configured THEN ending(ErrorExit("ProductRequestError"), {}, FALSE)
        ELSE IF e.raised # None THEN ending(ErrorExit(e.raised), {}, TRUE)
        ELSE IF error("output") # None THEN ending(ErrorExit(error("output")), {}, TRUE)
        ELSE IF error("coefficients") # None
             THEN ending(ErrorExit(error("coefficients")), made \ {"coefficients"}, TRUE)
        ELSE ending(ExecutionExit(e), made, TRUE)

--------------------------------------------------------------------------------
(* The other commands *)

\* report and demo: the outcome of what they show
OutcomeExit(outcome) ==
    [PASS |-> 0, FAIL |-> 1, INCOMPLETE |-> 3, UNSUPPORTED |-> 4, ABORTED |-> 130,
     ERROR |-> 5][outcome]

\* a record of a project run: worker_state, product_status, outcome
ProjectRunExit(batch, records) ==
    LET some(states, status) ==
            \E k \in DOMAIN records :
                records[k].state \in states \/ records[k].status = status
    IN  IF batch = "CANCELLED" THEN 130
        ELSE IF batch = "ERROR" THEN 5
        ELSE IF some({"CANCELLED"}, "CANCELLED") THEN 130
        ELSE IF some({"FAILED"}, "ERROR") THEN 5
        ELSE IF some({}, "UNSUPPORTED") THEN 4
        ELSE IF some({}, "INCOMPLETE") THEN 3
        ELSE IF \E k \in DOMAIN records : records[k].outcome = "FAIL" THEN 1
        ELSE 0

MaxHistoryInputs == 64

\* runs: the paths given, project: the project of the manifest at each path
HistoryUsable(runs, project) ==
    /\ Len(runs) <= MaxHistoryInputs
    /\ Distinct(runs)
    /\ \A j, k \in DOMAIN runs : project[runs[j]] = project[runs[k]]
================================================================================
