----------------------------- MODULE DeviceAdapter -----------------------------
(***************************************************************************)
(* The lifecycle that every device adapter inherits (adapters/base.py):    *)
(* its state, the confirmed capabilities, the configuration that arming    *)
(* stores, and what the protected hooks do to the source below.            *)
(*                                                                         *)
(* One thread uses an adapter.  A public call is one action for each way   *)
(* its hook may answer: it returns, raises, or is cut by a                 *)
(* KeyboardInterrupt, which _invoke does not catch.  A call that a guard   *)
(* refuses raises and changes nothing, so it has no action.  Hooks that    *)
(* raise leave what they were changing changed or not.                     *)
(***************************************************************************)
EXTENDS Integers

CONSTANT Level      \* stimulus values that a configuration allows

ASSUME LevelAssumption == Level \subseteq Nat \ {0}

VARIABLES
    state,          \* _state
    capabilities,   \* _capabilities: {} for None, or {c}
    configuration,  \* _configuration is not None
    held,           \* the source is open (serial port, file, generator)
    level,          \* the output that was last applied, 0 for the safe state
    alarm           \* history: the call that gave up a live output did not return

adapterVars == <<state, capabilities, configuration, held, level, alarm>>

AdapterState == {"DISCONNECTED", "CONNECTED_READ_ONLY", "CAPABILITIES_CONFIRMED",
                 "ARMED", "RUNNING", "SAFE_SHUTDOWN"}

\* What negotiated capabilities say: whether the device is the one of the run's
\* metadata, has the configured profile, offers what the plan of a run needs,
\* fits the configured channels and ranges, and supports a safe shutdown.
Capability == [device : BOOLEAN, profile : BOOLEAN, plan : BOOLEAN,
               config : BOOLEAN, shutdown : BOOLEAN]

Answer == {"returned", "raised", "interrupted"}

OutputState == {"ARMED", "RUNNING"}

AdapterInit ==
    /\ state = "DISCONNECTED"
    /\ capabilities = {}
    /\ configuration = FALSE
    /\ held = FALSE
    /\ level = 0
    /\ alarm = FALSE

(***************************************************************************)
(* Mutated forms: plausible bugs in the operators that follow them.        *)
(***************************************************************************)

\* Mutant of MustStop: output is thought to begin with the first success of
\* set_stimulus.
MustStopRunning == state = "RUNNING"

\* Mutant of ArmingAllowed: a configuration for another profile is taken.
ArmingAllowedOtherProfile(c) == c.config /\ c.shutdown

--------------------------------------------------------------------------------
(* connect *)

ResetState ==
    /\ state' = "DISCONNECTED"
    /\ capabilities' = {}
    /\ configuration' = FALSE

ConnectReturns ==
    /\ state = "DISCONNECTED"
    /\ state' = "CONNECTED_READ_ONLY"
    /\ held' = TRUE
    /\ UNCHANGED <<capabilities, configuration, level, alarm>>

\* the hook has released what it opened
ConnectRaises ==
    /\ state = "DISCONNECTED"
    /\ ResetState
    /\ UNCHANGED <<held, level, alarm>>

\* the source may be open by then, the adapter stays disconnected
ConnectInterrupted ==
    /\ state = "DISCONNECTED"
    /\ held' \in {held, TRUE}
    /\ UNCHANGED <<state, capabilities, configuration, level, alarm>>

(***************************************************************************)
(* get_capabilities.  Confirmed capabilities are returned as they are; new *)
(* ones are confirmed in any connected state, SAFE_SHUTDOWN included.      *)
(***************************************************************************)
GetCapabilities(c) ==
    /\ state # "DISCONNECTED"
    /\ IF capabilities = {}
       THEN capabilities' = {c} /\ state' = "CAPABILITIES_CONFIRMED"
       ELSE c \in capabilities /\ UNCHANGED <<capabilities, state>>
    /\ UNCHANGED <<configuration, held, level, alarm>>

(***************************************************************************)
(* arm, for a configuration of the adapter's source that allows output.    *)
(***************************************************************************)

\* validate_config_capabilities
ArmingAllowed(c) == c.profile /\ c.config /\ c.shutdown

Arm ==
    /\ state = "CAPABILITIES_CONFIRMED"
    /\ \A c \in capabilities : ArmingAllowed(c)
    /\ state' = "ARMED"
    /\ configuration' = TRUE
    /\ alarm' = FALSE
    /\ UNCHANGED <<capabilities, held, level>>

(***************************************************************************)
(* set_stimulus, of a value that the configuration allows (Level).  A hook *)
(* that does not return may have applied the value; the state stays what   *)
(* it was.                                                                 *)
(***************************************************************************)

\* require_automated_output: declared, within its range, and to be stopped
OutputSupported == \A c \in capabilities : c.config /\ c.shutdown

SetStimulus(v) ==
    /\ state \in OutputState
    /\ configuration
    /\ OutputSupported
    /\ level' = v
    /\ state' = "RUNNING"
    /\ UNCHANGED <<capabilities, configuration, held, alarm>>

SetStimulusFails(v) ==
    /\ state \in OutputState
    /\ configuration
    /\ OutputSupported
    /\ level' \in {level, v}
    /\ UNCHANGED <<state, capabilities, configuration, held, alarm>>

(***************************************************************************)
(* safe_shutdown.  The hook runs only when the capabilities support it.    *)
(***************************************************************************)
StopHook == \E c \in capabilities : c.shutdown

\* the levels that the hook may leave
Stopped(answer) ==
    IF ~StopHook THEN {level}
    ELSE IF answer = "returned" THEN {0}
    ELSE {level, 0}

SafeShutdown ==
    /\ state \notin {"DISCONNECTED", "SAFE_SHUTDOWN"}
    /\ level' \in Stopped("returned")
    /\ configuration' = FALSE
    /\ state' = "SAFE_SHUTDOWN"
    /\ alarm' = (alarm /\ level' # 0)
    /\ UNCHANGED <<capabilities, held>>

SafeShutdownFails ==
    /\ state \notin {"DISCONNECTED", "SAFE_SHUTDOWN"}
    /\ StopHook
    /\ level' \in Stopped("raised")
    /\ alarm' = (alarm /\ level' # 0)
    /\ UNCHANGED <<state, capabilities, configuration, held>>

(***************************************************************************)
(* disconnect: a safe shutdown first where output may be live, then the    *)
(* release hook, then the reset.  A shutdown that raises does not keep the *)
(* source from being released; one that is interrupted does.  The error of *)
(* the release is raised before that of the shutdown.                      *)
(***************************************************************************)
MustStop == state \in OutputState

StopAnswers == IF MustStop /\ StopHook THEN Answer ELSE {"returned"}

Raised(stop, release) ==
    IF stop = "interrupted" THEN stop
    ELSE IF release # "returned" THEN release
    ELSE stop

Disconnect(answer) ==
    /\ state # "DISCONNECTED"
    /\ \E stop \in StopAnswers, release \in Answer :
        /\ answer = Raised(stop, release)
        /\ level' \in IF MustStop THEN Stopped(stop) ELSE {level}
        /\ held' \in IF stop = "interrupted" THEN {held}
                     ELSE IF release = "returned" THEN {FALSE}
                     ELSE {held, FALSE}
    /\ alarm' = (level' # 0 /\ (alarm \/ answer # "returned"))
    /\ ResetState

(***************************************************************************)
(* The serial adapter changes the state from below, in a read or while it  *)
(* negotiates (serial_adapters/core.py): its port is gone, or has come     *)
(* back by itself and nothing is confirmed any more.  Only an adapter      *)
(* without an output does so.                                              *)
(***************************************************************************)
ReadOnly == state \notin OutputState \cup {"DISCONNECTED"}

LinkLost ==
    /\ ReadOnly
    /\ ResetState
    /\ held' = FALSE
    /\ UNCHANGED <<level, alarm>>

LinkRenewed ==
    /\ ReadOnly
    /\ state' = "CONNECTED_READ_ONLY"
    /\ capabilities' = {}
    /\ configuration' = FALSE
    /\ UNCHANGED <<held, level, alarm>>

--------------------------------------------------------------------------------
(* The lifecycle: the public calls in any order, and what the link does *)

AdapterCall ==
    \/ ConnectReturns
    \/ ConnectRaises
    \/ ConnectInterrupted
    \/ \E c \in Capability : GetCapabilities(c)
    \/ Arm
    \/ \E v \in Level : SetStimulus(v)
    \/ \E v \in Level : SetStimulusFails(v)
    \/ SafeShutdown
    \/ SafeShutdownFails
    \/ \E answer \in Answer : Disconnect(answer)

LifecycleNext == AdapterCall \/ LinkLost \/ LinkRenewed

LifecycleSpec == AdapterInit /\ [][LifecycleNext]_adapterVars

--------------------------------------------------------------------------------

AdapterTypeOK ==
    /\ state \in AdapterState
    /\ capabilities \in SUBSET Capability
    /\ configuration \in BOOLEAN
    /\ held \in BOOLEAN
    /\ level \in Level \cup {0}
    /\ alarm \in BOOLEAN

(***************************************************************************)
(* A live output is in the hands of an adapter that will stop it, or the   *)
(* call that gave it up did not return to its caller: no connect,          *)
(* shutdown, failed stimulus or disconnect forgets an output silently      *)
(* (disconnect, safe_shutdown, set_stimulus).                              *)
(***************************************************************************)
NoSilentOutput == level # 0 => state \in OutputState \/ alarm

================================================================================
