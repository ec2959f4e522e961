------------------------------ MODULE SweepRunner ------------------------------
(***************************************************************************)
(* run_dc_sweep (runners/dc_sweep.py): one attempt at a planned sweep on a *)
(* device adapter, from connect to the outcome that the caller receives.   *)
(*                                                                         *)
(* The adapter's hooks, the injected settle and abort_requested callbacks  *)
(* and the operator's Ctrl-C answer as they like at every step.  A         *)
(* KeyboardInterrupt is delivered where the attempt spends its time: in a  *)
(* hook, in a callback or, once, between two statements ("recording").     *)
(* Between attempts the caller uses the adapter's public calls itself.     *)
(***************************************************************************)
EXTENDS DeviceAdapter, Sequences

CONSTANT Order      \* setpoint of every planned step, repetition by repetition

ASSUME OrderAssumption == Order \in Seq(Level) /\ Len(Order) > 0

VARIABLES
    pc,             \* where the attempt is, "idle" between attempts
    seen,           \* the local capabilities: {} for None, or {c}
    measurements,   \* the local measurements
    steps,          \* number of completed acquisition steps
    pending,        \* pending_outcome, "none" for None
    cleanup,        \* cleanup_error is not None
    outcome,        \* what the last attempt gave its caller
    drove           \* history: the attempt asked for an output

runnerVars == <<pc, seen, measurements, steps, pending, cleanup, outcome, drove>>
vars == <<adapterVars, runnerVars>>

Points == Len(Order)

Outcome == {"PASS", "FAIL", "INCOMPLETE", "UNSUPPORTED", "ERROR"}

\* an attempt may also end with a ValidationError or a KeyboardInterrupt
Ending == Outcome \cup {"raised", "interrupted"}

Acquiring == {"connecting", "negotiating", "checking", "starting", "settling",
              "input", "output", "recording"}

Place == Acquiring \cup {"idle", "releasing", "concluding"}

\* A measurement remembers, for the properties, the output that was live when
\* it was read.  A record ID that was not seen before is named by its rank.
Measurement == [channel : {"input", "output"}, id : 1..2 * Points,
                live : Level \cup {0}]

RunnerInit ==
    /\ pc = "idle"
    /\ seen = {}
    /\ measurements = <<>>
    /\ steps = 0
    /\ pending = "none"
    /\ cleanup = FALSE
    /\ outcome = "none"
    /\ drove = FALSE

Init == AdapterInit /\ RunnerInit

\* the try block is left with an outcome
Leave(o) ==
    /\ pc' = "releasing"
    /\ pending' = o

(***************************************************************************)
(* Mutated forms: plausible bugs in the operators that follow them.        *)
(***************************************************************************)

\* Mutant of Begin: the measurements outlive the attempt.
BeginKeepsMeasurements ==
    /\ pc = "idle"
    /\ state = "DISCONNECTED"
    /\ pc' = "connecting"
    /\ seen' = {}
    /\ steps' = 0
    /\ pending' = "none"
    /\ cleanup' = FALSE
    /\ outcome' = "none"
    /\ drove' = FALSE
    /\ UNCHANGED <<adapterVars, measurements>>

\* Mutant of EndOfData: the end of the data ends the acquisition normally.
EndOfDataIsNormalEnd ==
    /\ pc \in {"input", "output"}
    /\ pc' = "releasing"
    /\ UNCHANGED <<adapterVars, seen, measurements, steps, pending, cleanup, outcome, drove>>

\* Mutant of Release: an error of the disconnect is dropped.
ReleaseDropsError ==
    /\ pc = "releasing"
    /\ IF state = "DISCONNECTED"
       THEN /\ pc' = "concluding"
            /\ UNCHANGED <<adapterVars, outcome>>
       ELSE \E answer \in Answer :
            /\ Disconnect(answer)
            /\ IF answer = "interrupted"
               THEN pc' = "idle" /\ outcome' = "interrupted"
               ELSE pc' = "concluding" /\ UNCHANGED outcome
    /\ UNCHANGED <<seen, measurements, steps, pending, cleanup, drove>>

\* Mutant of Verdicts: the outcome of the acquisition wins over the cleanup.
VerdictsPendingFirst ==
    IF pending # "none" THEN {pending}
    ELSE IF cleanup THEN {"ERROR"}
    ELSE {"PASS", "FAIL", "INCOMPLETE", "ERROR"}

--------------------------------------------------------------------------------
(* One attempt *)

\* _static_preflight refuses any other adapter state
Begin ==
    /\ pc = "idle"
    /\ state = "DISCONNECTED"
    /\ pc' = "connecting"
    /\ seen' = {}
    /\ measurements' = <<>>
    /\ steps' = 0
    /\ pending' = "none"
    /\ cleanup' = FALSE
    /\ outcome' = "none"
    /\ drove' = FALSE
    /\ UNCHANGED adapterVars

Connect ==
    /\ pc = "connecting"
    /\ \/ ConnectReturns /\ pc' = "negotiating" /\ UNCHANGED pending
       \/ ConnectRaises /\ Leave("ERROR")
       \/ ConnectInterrupted /\ Leave("INCOMPLETE")
    /\ UNCHANGED <<seen, measurements, steps, cleanup, outcome, drove>>

Negotiate(c) ==
    /\ pc = "negotiating"
    /\ GetCapabilities(c)
    /\ seen' = {c}
    /\ pc' = "checking"
    /\ UNCHANGED <<measurements, steps, pending, cleanup, outcome, drove>>

\* _missing_capabilities finds something
Missing(c) == ~c.plan \/ ~c.shutdown

\* The device, then what the plan needs, then the configuration (arm).
CheckCapabilities(c) ==
    /\ pc = "checking"
    /\ c \in seen
    /\ \/ ~c.device /\ Leave("ERROR") /\ UNCHANGED adapterVars
       \/ c.device /\ Missing(c) /\ Leave("UNSUPPORTED") /\ UNCHANGED adapterVars
       \/ /\ c.device /\ ~Missing(c) /\ ~ArmingAllowed(c)
          /\ Leave("ERROR")
          /\ UNCHANGED adapterVars
       \/ /\ c.device /\ ~Missing(c)
          /\ Arm
          /\ pc' = "starting"
          /\ UNCHANGED pending
    /\ UNCHANGED <<seen, measurements, steps, cleanup, outcome, drove>>

\* abort_requested answers True, before the output or after it has settled
Abort ==
    /\ pc \in {"starting", "settling"}
    /\ Leave("INCOMPLETE")
    /\ UNCHANGED <<adapterVars, seen, measurements, steps, cleanup, outcome, drove>>

Drive ==
    /\ pc = "starting"
    /\ drove' = TRUE
    /\ \/ SetStimulus(Order[steps + 1]) /\ pc' = "settling" /\ UNCHANGED pending
       \/ /\ SetStimulusFails(Order[steps + 1])
          /\ \E o \in {"ERROR", "INCOMPLETE"} : Leave(o)
    /\ UNCHANGED <<seen, measurements, steps, cleanup, outcome>>

Settle ==
    /\ pc = "settling"
    /\ pc' = "input"
    /\ UNCHANGED <<adapterVars, seen, measurements, steps, pending, cleanup, outcome, drove>>

\* A measurement arrives.  One whose record ID is in the batch is an error.
Read(here, next, id) ==
    /\ pc = here
    /\ IF id \in {measurements[i].id : i \in DOMAIN measurements}
       THEN Leave("ERROR") /\ UNCHANGED measurements
       ELSE /\ measurements' = Append(measurements,
                                      [channel |-> here, id |-> id, live |-> level])
            /\ pc' = next
            /\ UNCHANGED pending
    /\ UNCHANGED <<adapterVars, seen, steps, cleanup, outcome, drove>>

ReadInput(id) == Read("input", "output", id)
ReadOutput(id) == Read("output", "recording", id)

\* the step is appended; after the last one the try block ends by itself
RecordStep ==
    /\ pc = "recording"
    /\ steps' = steps + 1
    /\ pc' = IF steps + 1 = Points THEN "releasing" ELSE "starting"
    /\ UNCHANGED <<adapterVars, seen, measurements, pending, cleanup, outcome, drove>>

\* ReplayEndOfData
EndOfData ==
    /\ pc \in {"input", "output"}
    /\ Leave("INCOMPLETE")
    /\ UNCHANGED <<adapterVars, seen, measurements, steps, cleanup, outcome, drove>>

\* a hook or a callback raises
Fail ==
    /\ pc \in {"negotiating", "starting", "settling", "input", "output"}
    /\ Leave("ERROR")
    /\ UNCHANGED <<adapterVars, seen, measurements, steps, cleanup, outcome, drove>>

Interrupt ==
    /\ pc \in Acquiring \ {"connecting"}
    /\ Leave("INCOMPLETE")
    /\ UNCHANGED <<adapterVars, seen, measurements, steps, cleanup, outcome, drove>>

\* the finally block
Release ==
    /\ pc = "releasing"
    /\ IF state = "DISCONNECTED"
       THEN /\ pc' = "concluding"
            /\ UNCHANGED <<adapterVars, cleanup, outcome>>
       ELSE \E answer \in Answer :
            /\ Disconnect(answer)
            /\ cleanup' = (answer = "raised")
            /\ IF answer = "interrupted"
               THEN pc' = "idle" /\ outcome' = "interrupted"
               ELSE pc' = "concluding" /\ UNCHANGED outcome
    /\ UNCHANGED <<seen, measurements, steps, pending, drove>>

\* A failed cleanup first, then what ended the acquisition, then the analysis.
Verdicts ==
    IF cleanup THEN {"ERROR"}
    ELSE IF pending # "none" THEN {pending}
    ELSE {"PASS", "FAIL", "INCOMPLETE", "ERROR"}

\* the validation of DCSweepRunnerResult accepts the result
Accepted(o) ==
    /\ Len(measurements) \in {2 * steps, 2 * steps + 1}
    /\ o # "ERROR" => \A c \in seen : c.device /\ c.profile

Conclude ==
    /\ pc = "concluding"
    /\ \E o \in Verdicts : outcome' = IF Accepted(o) THEN o ELSE "raised"
    /\ pc' = "idle"
    /\ UNCHANGED <<adapterVars, seen, measurements, steps, pending, cleanup, drove>>

Attempt ==
    \/ Begin
    \/ Connect
    \/ \E c \in Capability : Negotiate(c)
    \/ \E c \in Capability : CheckCapabilities(c)
    \/ Abort
    \/ Drive
    \/ Settle
    \/ \E id \in 1..Len(measurements) + 1 : ReadInput(id)
    \/ \E id \in 1..Len(measurements) + 1 : ReadOutput(id)
    \/ RecordStep
    \/ EndOfData
    \/ Fail
    \/ Interrupt
    \/ Release
    \/ Conclude

\* the caller's own calls between attempts
Caller ==
    /\ pc = "idle"
    /\ AdapterCall
    /\ UNCHANGED runnerVars

Next == Attempt \/ Caller

Spec == Init /\ [][Next]_vars

--------------------------------------------------------------------------------
(* Properties *)

(***************************************************************************)
(* The variables keep their types; in particular an attempt never holds    *)
(* more evidence than its plan asks for.                                   *)
(***************************************************************************)
RunnerTypeOK ==
    /\ AdapterTypeOK
    /\ pc \in Place
    /\ seen \in SUBSET Capability
    /\ measurements \in Seq(Measurement)
    /\ Len(measurements) <= 2 * Points
    /\ steps \in 0..Points
    /\ pending \in {"none", "INCOMPLETE", "UNSUPPORTED", "ERROR"}
    /\ cleanup \in BOOLEAN
    /\ outcome \in Ending \cup {"none"}
    /\ drove \in BOOLEAN

\* The measurements are the planned ones: inputs and outputs in turn, each read
\* while the setpoint of its own step was live, no record counted twice.
AsPlanned(ms) ==
    \A i \in DOMAIN ms :
        /\ ms[i].channel = (IF i % 2 = 1 THEN "input" ELSE "output")
        /\ ms[i].live = Order[(i + 1) \div 2]
        /\ \A j \in DOMAIN ms : ms[i].id = ms[j].id => i = j

(***************************************************************************)
(* PASS or FAIL is earned: the attempt read both channels at every planned *)
(* setpoint, on the device and with the capabilities it was planned for,   *)
(* and then left the adapter disconnected, its source released and its     *)
(* output in the safe state (run_dc_sweep as a whole).                     *)
(***************************************************************************)
VerdictIsEarned ==
    [][outcome' # outcome /\ outcome' \in {"PASS", "FAIL"} =>
          /\ Len(measurements) = 2 * Points
          /\ AsPlanned(measurements)
          /\ seen # {} /\ \A c \in seen : c.device /\ c.plan /\ ArmingAllowed(c)
          /\ state = "DISCONNECTED"
          /\ ~held
          /\ level = 0]_vars

(***************************************************************************)
(* No output without authority: whoever calls, a stimulus is applied only  *)
(* under an armed configuration that the confirmed capabilities satisfy, a *)
(* safe shutdown included; in an attempt only on the device and with the   *)
(* channels of its plan (arm, set_stimulus, the checks of run_dc_sweep).   *)
(***************************************************************************)
OutputIsAuthorised ==
    [][level' # level /\ level' # 0 =>
          /\ configuration
          /\ capabilities # {}
          /\ \A c \in capabilities :
                /\ c.profile /\ c.config /\ c.shutdown
                /\ pc # "idle" => c.device /\ c.plan]_vars

(***************************************************************************)
(* An attempt that leaves its own output live never says less than ERROR,  *)
(* whatever else went wrong before: an abort, an interrupt or the end of   *)
(* the data cannot hide a failed cleanup (the order of the results after   *)
(* the finally block).                                                     *)
(***************************************************************************)
LiveOutputIsError ==
    [][pc = "concluding" /\ pc' = "idle" /\ drove /\ level # 0 =>
          outcome' \in {"ERROR", "raised"}]_vars

(***************************************************************************)
(* The runner implements the abstract attempt: evidence only while the     *)
(* adapter is taken, one release, a conclusion after it that respects it.  *)
(***************************************************************************)
Abstract == INSTANCE TestAttempt WITH
    Planned <- 2 * Points,
    stage <- IF pc = "idle" THEN "idle"
             ELSE IF pc = "concluding" THEN "released"
             ELSE "acquiring",
    evidence <- Len(measurements),
    clean <- ~cleanup /\ outcome # "interrupted",
    conclusion <- IF outcome = "interrupted" THEN "raised" ELSE outcome

ImplementsAttempt == Abstract!Spec

(***************************************************************************)
(* What docs/dc-sweep-runner.md:93 says: a required capability that is     *)
(* absent gives UNSUPPORTED, so such an attempt never ends by raising.     *)
(***************************************************************************)
AbsentCapabilityIsUnsupported ==
    pending = "UNSUPPORTED" => outcome # "raised"

================================================================================
