----------------------------- MODULE CommandClaims -----------------------------
(***************************************************************************)
(* What the command line promises, over the calls with one edited option,  *)
(* every way a job can end and every state of the files it was asked to    *)
(* write.  MC_LiveMonitor assumes the claims.                              *)
(***************************************************************************)
EXTENDS CommandLine, SetupClaims

\* what a call can change: its options, channels, unit, operation and source
Calls(i) ==
    LET plain == PlainCall(i)
        \* a monitor of many cycles, which its source gets through in time
        long(cycles) == [plain EXCEPT !.text.sample_count = <<cycles>>,
                                      !.text.monitor_sample_interval_seconds = <<1>>,
                                      !.text.serial_read_timeout = <<1>>,
                                      !.text.serial_max_polls = <<1>>]
        edited == IF i.job = "LIVE_MONITOR" /\ Serial(i)
                  THEN Edits(plain) \cup {long(1250), long(1251), long(10000)}
                  ELSE Edits(plain)
    IN  {call \in edited :
            /\ \A f \in Field : call.text[f] # plain.text[f] => f \in Options(i)
            /\ \A side \in DOMAIN plain.channel :
                  call.channel[side] # plain.channel[side] => side \in ChannelOptions(i.job)
            /\ call.operation # plain.operation => i.job = "READ"
            /\ call.aliases # plain.aliases \/ call.device # plain.device => Serial(i)
            /\ call.include # plain.include => i.job = "LIVE_MONITOR"}

\* the form with the same entries, taken to a job
FormRuns(d) == Accepts(d) /\ Constructible(Configuration(d))

(* The command of every test runs as it is, once its source is named, and  *)
(* offers the fields of the form, no more and no fewer.  A replayed sweep  *)
(* still has the two options of the simulator, and is held to them.        *)
CommandsOfferTheForm ==
    \A i \in Identities :
        /\ Parsed(PlainCall(i)) /\ Configured(PlainCall(i))
        /\ Options(i) =
             Changeable(i)
             \cup IF i.source = "CSV_REPLAY" /\ i.job = "FREQUENCY_RESPONSE_ANALYSIS"
                  THEN {"frequency_input_amplitude", "simulated_cutoff_frequency_hz"}
                  ELSE {}

(* A call runs if and only if the form with its entries runs, but for two  *)
(* limits: an analysis of one point, which only the form lets through, and *)
(* a monitor whose records would not fit into its buffer, where only the   *)
(* command makes do with a smaller one.  Both do occur.                    *)
CommandsAgreeWithTheForm ==
    \A i \in Identities :
        LET runs == {call \in Calls(i) : Parsed(call) /\ Configured(call)}
            onlyForm == {call \in Calls(i) : FormRuns(call)} \ runs
            onlyCommand == {call \in runs : ~FormRuns(call)}
            count(calls) == {call.text.sample_count : call \in calls}
        IN  /\ count(onlyForm) = IF i.job \in {"DC_ANALYSIS", "CALIBRATION_ANALYSIS"}
                                 THEN {<<1>>} ELSE {}
            /\ count(onlyCommand) = IF i.job = "LIVE_MONITOR" /\ Serial(i)
                                    THEN {<<1251>>, <<10000>>} ELSE {}

(* The records of a serial read fit into the buffer it asks for; those of  *)
(* a monitor only while its cap leaves room for one record of each channel *)
(* in each cycle.                                                          *)
BuffersHoldTheRecords ==
    \A i \in {j \in Identities : Serial(j)} : \A call \in Calls(i) :
        Parsed(call) /\ Configured(call) =>
            (IF i.job = "READ" THEN ObservedRecordsBuffer(call)
             ELSE MonitoredRecordsBuffer(call))
                >= call.text.sample_count[1]
                     * (IF i.job = "READ" THEN 1 ELSE EnabledChannels(Settings(call)))

(* A live monitor is waited for at least five seconds longer than it may   *)
(* take by its own bound.                                                  *)
MonitorsAreAwaited ==
    \A i \in {j \in Identities : j.job = "LIVE_MONITOR"} : \A call \in Calls(i) :
        Parsed(call) /\ Configured(call) =>
            JoinTimeout(call) >=
                Cadence(Settings(call)) + SerialWaitBudget(Settings(call)) + 5000

(* Other serial reads are not: with the defaults of the command, the polls *)
(* of the first operation alone may outlast the wait, and the command ends *)
(* with a timeout before a silent device was found silent.                 *)
ObserveMayBeCutOff ==
    \A i \in Identities :
        Serial(i) /\ i.job = "READ" =>
            LET c == Settings(PlainCall(i))
            IN  c.n.serial_max_polls * c.n.serial_read_timeout > JoinTimeout(PlainCall(i))

--------------------------------------------------------------------------------
(* Services *)

ServiceCases == {<<job, read>> : job \in JobType, read \in {"COMPLETED", "INCOMPLETE"}}

(* A run that returns has published, once and before; a cancellation seen  *)
(* before the publication leaves nothing published.  One that shows only   *)
(* in the progress after it cancels a run whose output is in the slot:     *)
(* execute_product_job must look at the state and not at the slot.         *)
OutputIsPublishedOnce ==
    \A pair \in ServiceCases :
        LET steps == ServiceSteps(pair[1], pair[2])
            at == CHOOSE k \in DOMAIN steps : steps[k] = "publish"
        IN  /\ Cardinality({k \in DOMAIN steps : steps[k] = "publish"}) = 1
            /\ \A from \in 1..(Len(steps) + 1), fails \in 0..Len(steps) :
                  LET run == ServiceRun(steps, from, fails)
                  IN  /\ run.ended = "returned" => run.published
                      /\ run.published =>
                            (run.ended # "returned" <=> from \in 1..(at + 1) \/ fails > at)
                      /\ run.ended = "cancelled" /\ run.published => from \in {at, at + 1}
            /\ ServiceRun(steps, at, 0) = [published |-> TRUE, ended |-> "cancelled"]

(* Between two checkpoints a run does one thing that takes long: the read, *)
(* which has checkpoints of its own, or the analysis.                      *)
CancellationIsSeenSoon ==
    \A pair \in ServiceCases :
        LET steps == ServiceSteps(pair[1], pair[2])
            long == {k \in DOMAIN steps : steps[k] \in {"analyse", "evaluate", "export"}}
        IN  \A j, k \in long : j < k /\ steps[j] = "analyse" =>
                \E m \in (j + 1)..(k - 1) : steps[m] = "checkpoint"

(* No reading is lost or paired twice when a hysteresis run is cut into    *)
(* its two legs.                                                           *)
LegsKeepTheReadings ==
    \A rising, falling \in 2..3 :
        LET count == rising + falling
            inputs == [k \in 1..count |-> k]
            states == [k \in 1..count |-> k + 10]
            legs == HysteresisBatches(inputs, states, rising)
        IN  /\ Len(legs[1]) = rising /\ Len(legs[2]) = falling
            /\ \A k \in 1..count :
                  (legs[1] \o legs[2])[k] = <<inputs[k], states[k]>>

--------------------------------------------------------------------------------
(* Issues *)

(* The order of the rules hides none of them: an error gets the issue of   *)
(* its nearest base that a rule names, and every rule is the one of some   *)
(* error.                                                                  *)
NearestRuleDecides ==
    LET ruled == UNION {IssueRules[k][1] : k \in DOMAIN IssueRules}
    IN  /\ \A class \in ErrorClass :
              LET bases == Bases[class]
                  nearest == CHOOSE k \in DOMAIN bases :
                                /\ bases[k] \in ruled
                                /\ \A j \in 1..(k - 1) : bases[j] \notin ruled
              IN  bases[nearest] \in IssueRule[class][1]
        /\ {IssueRule[class] : class \in ErrorClass} = {IssueRules[k] : k \in DOMAIN IssueRules}

(* An error that only says that an output cannot be created is shown as    *)
(* one of the output, except for a result file: its path is reported as    *)
(* bad input data.                                                         *)
ResultPathIsReportedAsInput ==
    /\ \A class \in {"ProductReportPathError", "ProductDemoPathError",
                     "ProductProjectPathError"} : issue_from_exception(class) = "OUTPUT_PATH"
    /\ issue_from_exception("ResultExportPathError") = "INPUT_DATA"
    /\ issue_from_exception("ResultExportExistsError") = "OUTPUT_EXISTS"

(* The serial and the profile layer raise errors of their own only inside  *)
(* an adapter: where one gets out, its issue cannot say more than that an  *)
(* operation failed.                                                       *)
TransportErrorsAreVague ==
    \A class \in ErrorClass :
        IsA(class, {"SerialTransportError", "SerialProfileError", "RawEventError",
                    "PySerialBackendError"}) => issue_from_exception(class) = "OPERATION_FAILED"

--------------------------------------------------------------------------------
(* Exit codes and files *)

FilesOffered(job) ==
    CASE job = "CALIBRATION_ANALYSIS" -> {"output", "coefficients"}
      [] job \in Analyses \ {"CALIBRATION_ANALYSIS"} -> {"output"}
      [] OTHER -> {}

Artifact == {"output", "coefficients"}

Files ==
    [output : {"free", "taken", "nowhere"}, coefficients : {"free", "taken", "nowhere"},
     same : BOOLEAN, late : SUBSET Artifact]

\* every command, with every wish, every file system and every end of its job
Commands ==
    UNION {[job : {job}, parsed : BOOLEAN, configured : BOOLEAN,
            wanted : SUBSET FilesOffered(job), files : Files, e : Executions(job)] :
           job \in JobType}

Ended(c) == CommandEnding(c.parsed, c.configured, c.wanted, c.files, c.e)

(* Exit code 0 is earned: a job ran, was not interrupted, succeeded with a *)
(* complete result that is no engineering FAIL, and every file asked for   *)
(* was written.                                                            *)
ZeroIsEarned ==
    \A c \in Commands :
        LET end == Ended(c)
        IN  end.exit = 0 =>
              /\ end.started /\ c.e.raised = None
              /\ c.e.state = "SUCCEEDED" /\ ~c.e.interrupted
              /\ c.e.result.status = "COMPLETED" /\ c.e.result.outcome # "FAIL"
              /\ end.written = c.wanted

(* A file is written only where the path was free when the command began   *)
(* and still was at the end, and only from a job that succeeded; a path    *)
(* that is seen to be unusable stops the command before any job.           *)
NothingIsReplaced ==
    \A c \in Commands :
        LET end == Ended(c)
        IN  /\ \A a \in end.written :
                  /\ a \in c.wanted /\ c.files[a] = "free" /\ a \notin c.files.late
                  /\ c.e.state = "SUCCEEDED"
            /\ end.started =>
                  /\ \A a \in c.wanted : c.files[a] = "free"
                  /\ c.wanted = Artifact => ~c.files.same

(* An error of the second file leaves the first: the command says that it  *)
(* failed, and its output is there.                                        *)
HalfTheFilesAreLeft ==
    LET half == {c \in Commands : Ended(c).written # {} /\ Ended(c).exit = 5}
    IN  half # {} /\ \A c \in half :
            /\ c.job = "CALIBRATION_ANALYSIS" /\ c.wanted = Artifact
            /\ Ended(c).written = {"output"}

(* Ctrl+C during a job gives 130.  If the job succeeded at that moment and *)
(* had a file to write, it gives 5: the output is not read after an        *)
(* interrupt, and the command takes the missing export for a defect.       *)
InterruptsExit130 ==
    \A c \in Commands :
        LET end == Ended(c)
            missed == /\ c.e.state = "SUCCEEDED" /\ c.e.result.status = "COMPLETED"
                      /\ c.wanted # {}
        IN  end.started /\ c.e.interrupted => end.exit = IF missed THEN 5 ELSE 130

(* A report of the file that a run wrote exits with the code of the run.   *)
ReportsAgreeWithRuns ==
    \A c \in Commands :
        "output" \in Ended(c).written /\ Ended(c).exit # 5 =>
            OutcomeExit(c.e.result.outcome) = Ended(c).exit

\* what a project run records of a job that ended
Record(e) ==
    [state |-> e.state, status |-> e.result.status, outcome |-> e.result.outcome]

Records ==
    {Record(e) : e \in {x \in UNION {Executions(job) : job \in Analyses \cup {"READ"}} :
                            x.raised = None /\ ~x.interrupted}}

AlonesExit(r) ==
    IF r.state = "FAILED" THEN 5 ELSE StatusExit(r.status, r.outcome)

(* A project of one test exits as the test alone; one of several tests     *)
(* with the gravest of their codes, and 0 only if each of them would.      *)
ProjectsExitWithTheGravest ==
    LET gravest(codes) ==
            LET known == <<130, 5, 4, 3, 1, 0>>
            IN  Head(SelectSeq(known, LAMBDA code : code \in codes))
    IN  /\ \A a, b \in Records :
              ProjectRunExit("COMPLETED", <<a, b>>) = gravest({AlonesExit(a), AlonesExit(b)})
        /\ \A a \in Records : ProjectRunExit("COMPLETED", <<a>>) = AlonesExit(a)

(* The codes keep apart what a script must tell apart: a wrong call (2), a *)
(* defect (70), and a job that succeeded with a FAIL (1), incomplete (3)   *)
(* or unsupported (4) evidence; every other trouble is 5 or 130.           *)
CodesAreApart ==
    \A c \in Commands :
        LET end == Ended(c)
            path == Preflight(c.wanted, c.files) \notin {None, "CliUsageError"}
            verdict == [x \in {1, 3, 4} |->
                          CASE x = 1 -> <<"COMPLETED", "FAIL">>
                            [] x = 3 -> <<"INCOMPLETE", "INCOMPLETE">>
                            [] OTHER -> <<"UNSUPPORTED", "UNSUPPORTED">>]
        IN  /\ end.exit = 2 <=> ~end.started /\ ~(c.parsed /\ path)
            /\ end.exit = 70 <=> end.started /\ c.e.raised = "OtherError"
            /\ end.exit \in {1, 3, 4} =>
                  /\ end.started /\ c.e.state = "SUCCEEDED" /\ ~c.e.interrupted
                  /\ c.e.result.status = verdict[end.exit][1]
                  /\ c.e.result.outcome \in {verdict[end.exit][2], None}
================================================================================
