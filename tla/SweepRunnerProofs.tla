--------------------------- MODULE SweepRunnerProofs ---------------------------
(***************************************************************************)
(* What the sweep runner and the adapter lifecycle below it promise, for   *)
(* every plan and every set of levels.                                     *)
(*                                                                         *)
(* The inductive invariant has two halves.  AdapterInv speaks of the       *)
(* adapter alone: output states are armed ones, with capabilities that     *)
(* allow a shutdown, so a call that leaves them stops the output or does   *)
(* not return.  The other conjuncts tie the attempt to it: how much        *)
(* evidence each place of the try block has, which output is live there,   *)
(* and what is known of the adapter once the finally block is reached.     *)
(***************************************************************************)
EXTENDS SweepRunner, SequenceTheorems, TLAPS

(***************************************************************************)
(* The adapter alone                                                       *)
(***************************************************************************)

Unique == \A a, b \in capabilities : a = b

Authority ==
    state \in OutputState =>
        /\ configuration
        /\ capabilities # {}
        /\ \A c \in capabilities : ArmingAllowed(c)

AdapterInv ==
    /\ Unique
    /\ state = "DISCONNECTED" => capabilities = {}
    /\ state = "CAPABILITIES_CONFIRMED" => capabilities # {}
    /\ Authority
    /\ NoSilentOutput

AdapterStep == [LifecycleNext]_adapterVars

\* Every call leaves the adapter well typed.
LEMMA AdapterTypeStep ==
  ASSUME AdapterTypeOK, AdapterStep
  PROVE  AdapterTypeOK'
<1> USE DEF AdapterTypeOK, AdapterState
<1>1. CASE ConnectReturns
  BY <1>1 DEF ConnectReturns
<1>2. CASE ConnectRaises
  BY <1>2 DEF ConnectRaises, ResetState
<1>3. CASE ConnectInterrupted
  BY <1>3 DEF ConnectInterrupted
<1>4. CASE \E c \in Capability : GetCapabilities(c)
  BY <1>4 DEF GetCapabilities
<1>5. CASE Arm
  BY <1>5 DEF Arm
<1>6. CASE \E v \in Level : SetStimulus(v)
  BY <1>6 DEF SetStimulus
<1>7. CASE \E v \in Level : SetStimulusFails(v)
  BY <1>7 DEF SetStimulusFails
<1>8. CASE SafeShutdown
  BY <1>8 DEF SafeShutdown, Stopped
<1>9. CASE SafeShutdownFails
  BY <1>9 DEF SafeShutdownFails, Stopped, StopHook
<1>10. CASE \E answer \in Answer : Disconnect(answer)
  BY <1>10 DEF Disconnect, ResetState, Stopped, StopAnswers, Raised, Answer
<1>11. CASE LinkLost \/ LinkRenewed
  BY <1>11 DEF LinkLost, LinkRenewed, ResetState
<1>12. CASE UNCHANGED adapterVars
  BY <1>12 DEF adapterVars
<1> QED BY <1>1, <1>2, <1>3, <1>4, <1>5, <1>6, <1>7, <1>8, <1>9, <1>10, <1>11, <1>12
           DEF AdapterStep, LifecycleNext, AdapterCall

\* Every call keeps what the adapter's invariant says.
LEMMA AdapterInvStep ==
  ASSUME AdapterTypeOK, AdapterInv, AdapterStep
  PROVE  AdapterInv'
<1> USE DEF AdapterTypeOK, AdapterState, AdapterInv, Unique, Authority, NoSilentOutput, OutputState
<1>1. CASE ConnectReturns
  BY <1>1 DEF ConnectReturns
<1>2. CASE ConnectRaises
  BY <1>2 DEF ConnectRaises, ResetState
<1>3. CASE ConnectInterrupted
  BY <1>3 DEF ConnectInterrupted
<1>4. CASE \E c \in Capability : GetCapabilities(c)
  BY <1>4 DEF GetCapabilities
<1>5. CASE Arm
  BY <1>5 DEF Arm, ArmingAllowed
<1>6. CASE \E v \in Level : SetStimulus(v)
  BY <1>6 DEF SetStimulus
<1>7. CASE \E v \in Level : SetStimulusFails(v)
  BY <1>7 DEF SetStimulusFails
<1>8. CASE SafeShutdown
  BY <1>8 DEF SafeShutdown, Stopped, StopHook, ArmingAllowed
<1>9. CASE SafeShutdownFails
  BY <1>9 DEF SafeShutdownFails, Stopped, StopHook, ArmingAllowed
<1>10. CASE \E answer \in Answer : Disconnect(answer)
  BY <1>10 DEF Disconnect, ResetState, Stopped, StopHook, StopAnswers, MustStop, Raised, Answer, ArmingAllowed
<1>11. CASE LinkLost \/ LinkRenewed
  BY <1>11 DEF LinkLost, LinkRenewed, ReadOnly, ResetState
<1>12. CASE UNCHANGED adapterVars
  BY <1>12 DEF adapterVars, ArmingAllowed
<1> QED BY <1>1, <1>2, <1>3, <1>4, <1>5, <1>6, <1>7, <1>8, <1>9, <1>10, <1>11, <1>12
           DEF AdapterStep, LifecycleNext, AdapterCall

\* The lifecycle starts with nothing held and nothing live.
LEMMA AdapterInvInit == AdapterInit => AdapterTypeOK /\ AdapterInv
  BY DEF AdapterInit, AdapterTypeOK, AdapterState, AdapterInv, Unique, Authority, NoSilentOutput,
         OutputState

(***************************************************************************)
(* The public calls of a device adapter keep its invariant in any order,   *)
(* with any answer of its hooks: no user of the lifecycle can break it.    *)
(***************************************************************************)
THEOREM LifecycleInvariant == LifecycleSpec => [](AdapterTypeOK /\ AdapterInv)
<1>1. AdapterTypeOK /\ AdapterInv /\ [LifecycleNext]_adapterVars => (AdapterTypeOK /\ AdapterInv)'
  BY AdapterTypeStep, AdapterInvStep DEF AdapterStep
<1> QED BY <1>1, AdapterInvInit, PTL DEF LifecycleSpec

\* Whoever calls, and in whatever order: no call of a device adapter forgets a
\* live output while it returns normally (disconnect, safe_shutdown).
THEOREM LifecycleForgetsNoOutput == LifecycleSpec => []NoSilentOutput
<1>1. AdapterInv => NoSilentOutput
  BY DEF AdapterInv
<1> QED BY <1>1, LifecycleInvariant, PTL

LifecycleAuthorises ==
    [][level' # level /\ level' # 0 =>
          configuration /\ capabilities # {} /\ \A c \in capabilities : ArmingAllowed(c)]_adapterVars

\* Whoever calls, and in whatever order: an output is applied only under an
\* armed configuration that the capabilities of the device satisfy, a safe
\* shutdown among them (arm, set_stimulus).
THEOREM LifecycleAuthorisesOutput == LifecycleSpec => LifecycleAuthorises
<1> DEFINE Authorised ==
      level' # level /\ level' # 0 =>
          configuration /\ capabilities # {} /\ \A c \in capabilities : ArmingAllowed(c)
<1>1. AdapterInv /\ [LifecycleNext]_adapterVars => [Authorised]_adapterVars
  <2> SUFFICES ASSUME AdapterInv, LifecycleNext, level' # level, level' # 0
               PROVE  configuration /\ capabilities # {} /\ \A c \in capabilities : ArmingAllowed(c)
    OBVIOUS
  <2>1. state \in OutputState
    BY DEF LifecycleNext, AdapterCall, ConnectReturns, ConnectRaises, ConnectInterrupted,
           GetCapabilities, Arm, SetStimulus, SetStimulusFails, SafeShutdown,
           SafeShutdownFails, Disconnect, Stopped, LinkLost, LinkRenewed
  <2> QED BY <2>1 DEF AdapterInv, Authority
<1>2. LifecycleSpec => [][Authorised]_adapterVars
  <2>1. AdapterTypeOK /\ AdapterInv => AdapterInv
    OBVIOUS
  <2> HIDE DEF Authorised
  <2> QED BY <1>1, <2>1, LifecycleInvariant, PTL DEF LifecycleSpec
<1> QED BY <1>2 DEF LifecycleAuthorises

(***************************************************************************)
(* The attempt and the adapter                                             *)
(***************************************************************************)

Armed == {"starting", "settling", "input", "output", "recording"}

\* The device, the plan and the configuration fit together.
Fit ==
    /\ seen # {}
    /\ \A c \in seen : c.device /\ c.plan /\ ArmingAllowed(c)

\* How much evidence the attempt has at each place.
Progress ==
    /\ pc \in {"connecting", "negotiating", "checking"} =>
          measurements = <<>> /\ steps = 0 /\ ~drove
    /\ pc \in Armed => steps < Points
    /\ pc \in {"starting", "settling", "input"} => Len(measurements) = 2 * steps
    /\ pc = "output" => Len(measurements) = 2 * steps + 1
    /\ pc = "recording" => Len(measurements) = 2 * steps + 2
    /\ pc \in {"releasing", "concluding"} /\ pending = "none" =>
          Len(measurements) = 2 * Points

\* What the attempt's locals say before the end.
Books ==
    /\ pc # "idle" => outcome = "none"
    /\ pc \in Acquiring \cup {"releasing"} => ~cleanup
    /\ pc \in Acquiring => pending = "none"

\* What the attempt knows of the adapter at each place.
Link ==
    /\ pc \in Armed \cup {"checking"} => capabilities = seen
    /\ pc \in Armed => state \in OutputState /\ Fit
    /\ pc \in {"settling", "input", "output"} => level = Order[steps + 1]
    /\ pc = "releasing" /\ (drove \/ pending = "none") => state \in OutputState
    /\ pc \in {"releasing", "concluding"} /\ pending = "none" => Fit
    /\ pc = "concluding" => state = "DISCONNECTED"
    /\ pc = "concluding" /\ drove /\ level # 0 => cleanup
    /\ pc = "concluding" /\ pending = "none" /\ ~cleanup => level = 0 /\ ~held

Readings == AsPlanned(measurements)

RunnerInv == RunnerTypeOK /\ AdapterInv /\ Progress /\ Books /\ Link /\ Readings

\* Every planned step has a setpoint among the levels.
LEMMA SetpointIsLevel ==
  ASSUME NEW k \in 1..Points
  PROVE  Order[k] \in Level
  BY OrderAssumption DEF Points

\* A plan has at least one step.
LEMMA PointsType == Points \in Nat /\ Points > 0
  BY OrderAssumption DEF Points

\* An attempt that has read nothing is well typed.
LEMMA NoReadings ==
    <<>> \in Seq(Measurement) /\ Len(<<>>) = 0 /\ Len(<<>>) <= 2 * Points
<1>1. <<>> \in Seq(Measurement) /\ Len(<<>>) = 0
  BY EmptySeq
<1> QED BY <1>1, PointsType

\* One more reading fits and leaves the earlier ones where they are.
LEMMA NewReading ==
  ASSUME RunnerTypeOK, Progress,
         NEW here \in {"input", "output"}, pc = here,
         NEW id \in 1..Len(measurements) + 1,
         NEW new, new = [channel |-> here, id |-> id, live |-> level]
  PROVE  /\ Len(measurements) < 2 * Points
         /\ new \in Measurement
         /\ Append(measurements, new) \in Seq(Measurement)
         /\ Len(Append(measurements, new)) = Len(measurements) + 1
         /\ \A i \in 1..Len(measurements) : Append(measurements, new)[i] = measurements[i]
         /\ Append(measurements, new)[Len(measurements) + 1] = new
<1>1. measurements \in Seq(Measurement) /\ Len(measurements) \in Nat /\ steps \in Nat
  BY PointsType DEF RunnerTypeOK
<1>2. Len(measurements) < 2 * Points
  BY <1>1, PointsType DEF Progress, Armed
<1>3. id \in 1..2 * Points
  BY <1>1, <1>2, PointsType
<1>4. new \in Measurement
  BY <1>3 DEF Measurement, RunnerTypeOK, AdapterTypeOK
<1> QED BY <1>1, <1>2, <1>4, AppendProperties

\* The attempt and its caller use the adapter through its calls only.
LEMMA AttemptUsesAdapter ==
  ASSUME RunnerTypeOK, Progress, [Next]_vars
  PROVE  AdapterStep
<1> USE DEF AdapterStep, LifecycleNext, AdapterCall, Answer
<1>1. CASE Begin
  BY <1>1 DEF Begin
<1>2. CASE Connect
  BY <1>2 DEF Connect, Leave
<1>3. CASE \E c \in Capability : Negotiate(c)
  BY <1>3 DEF Negotiate
<1>4. CASE \E c \in Capability : CheckCapabilities(c)
  BY <1>4 DEF CheckCapabilities, Leave
<1>5. CASE Abort
  BY <1>5 DEF Abort, Leave
<1>6. CASE Drive
  BY <1>6, SetpointIsLevel DEF Drive, Leave, Progress, Armed, RunnerTypeOK, Points
<1>7. CASE Settle
  BY <1>7 DEF Settle
<1>8. CASE \E id \in 1..Len(measurements) + 1 : ReadInput(id)
  BY <1>8 DEF ReadInput, Read, Leave
<1>9. CASE \E id \in 1..Len(measurements) + 1 : ReadOutput(id)
  BY <1>9 DEF ReadOutput, Read, Leave
<1>10. CASE RecordStep
  BY <1>10 DEF RecordStep
<1>11. CASE EndOfData
  BY <1>11 DEF EndOfData, Leave
<1>12. CASE Fail
  BY <1>12 DEF Fail, Leave
<1>13. CASE Interrupt
  BY <1>13 DEF Interrupt, Leave
<1>14. CASE Release
  BY <1>14 DEF Release
<1>15. CASE Conclude
  BY <1>15 DEF Conclude
<1>16. CASE Caller
  BY <1>16 DEF Caller, runnerVars
<1>17. CASE UNCHANGED vars
  BY <1>17 DEF vars, runnerVars
<1> QED BY <1>1, <1>2, <1>3, <1>4, <1>5, <1>6, <1>7, <1>8, <1>9,
            <1>10, <1>11, <1>12, <1>13, <1>14, <1>15, <1>16, <1>17 DEF Next, Attempt

\* The attempt's own variables stay well typed.
LEMMA AttemptTypeStep ==
  ASSUME RunnerTypeOK, AdapterTypeOK', Progress, Books, [Next]_vars
  PROVE  RunnerTypeOK'
<1> USE DEF RunnerTypeOK, Place, Acquiring, Ending, Outcome, Armed, Progress
<1>1. CASE Begin
  <2>1. (measurements \in Seq(Measurement) /\ Len(measurements) <= 2 * Points)'
    BY <1>1, NoReadings DEF Begin
  <2>2. (steps \in 0..Points)'
    BY <1>1, PointsType DEF Begin
  <2> QED BY <1>1, <2>1, <2>2 DEF Begin
<1>2. CASE Connect
  BY <1>2 DEF Connect, Leave
<1>3. CASE \E c \in Capability : Negotiate(c)
  BY <1>3 DEF Negotiate
<1>4. CASE \E c \in Capability : CheckCapabilities(c)
  BY <1>4 DEF CheckCapabilities, Leave
<1>5. CASE Abort
  BY <1>5 DEF Abort, Leave
<1>6. CASE Drive
  BY <1>6 DEF Drive, Leave
<1>7. CASE Settle
  BY <1>7 DEF Settle
<1>8. CASE \E id \in 1..Len(measurements) + 1 : ReadInput(id)
  <2>1. PICK id \in 1..Len(measurements) + 1 : ReadInput(id)
    BY <1>8
  <2> DEFINE new == [channel |-> "input", id |-> id, live |-> level]
  <2>2. CASE measurements' = measurements
    BY <2>1, <2>2 DEF ReadInput, Read, Leave
  <2>3. CASE measurements' = Append(measurements, new)
    <3>1. (measurements \in Seq(Measurement))'
      BY <2>1, <2>3, NewReading DEF ReadInput, Read
    <3>2. Len(measurements') = Len(measurements) + 1 /\ Len(measurements) < 2 * Points
      BY <2>1, <2>3, NewReading DEF ReadInput, Read
    <3>3. (Len(measurements) <= 2 * Points)'
      BY <3>2, PointsType, LenProperties
    <3> QED BY <2>1, <3>1, <3>3 DEF ReadInput, Read, Leave
  <2> QED BY <2>1, <2>2, <2>3 DEF ReadInput, Read
<1>9. CASE \E id \in 1..Len(measurements) + 1 : ReadOutput(id)
  <2>1. PICK id \in 1..Len(measurements) + 1 : ReadOutput(id)
    BY <1>9
  <2> DEFINE new == [channel |-> "output", id |-> id, live |-> level]
  <2>2. CASE measurements' = measurements
    BY <2>1, <2>2 DEF ReadOutput, Read, Leave
  <2>3. CASE measurements' = Append(measurements, new)
    <3>1. (measurements \in Seq(Measurement))'
      BY <2>1, <2>3, NewReading DEF ReadOutput, Read
    <3>2. Len(measurements') = Len(measurements) + 1 /\ Len(measurements) < 2 * Points
      BY <2>1, <2>3, NewReading DEF ReadOutput, Read
    <3>3. (Len(measurements) <= 2 * Points)'
      BY <3>2, PointsType, LenProperties
    <3> QED BY <2>1, <3>1, <3>3 DEF ReadOutput, Read, Leave
  <2> QED BY <2>1, <2>2, <2>3 DEF ReadOutput, Read
<1>10. CASE RecordStep
  <2>1. (steps \in 0..Points)'
    BY <1>10, PointsType DEF RecordStep
  <2> QED BY <1>10, <2>1 DEF RecordStep
<1>11. CASE EndOfData
  BY <1>11 DEF EndOfData, Leave
<1>12. CASE Fail
  BY <1>12 DEF Fail, Leave
<1>13. CASE Interrupt
  BY <1>13 DEF Interrupt, Leave
<1>14. CASE Release
  BY <1>14 DEF Release
<1>15. CASE Conclude
  BY <1>15 DEF Conclude, Verdicts
<1>16. CASE Caller
  BY <1>16 DEF Caller, runnerVars
<1>17. CASE UNCHANGED vars
  BY <1>17 DEF vars, runnerVars
<1> QED BY <1>1, <1>2, <1>3, <1>4, <1>5, <1>6, <1>7, <1>8, <1>9,
            <1>10, <1>11, <1>12, <1>13, <1>14, <1>15, <1>16, <1>17 DEF Next, Attempt

\* Evidence grows with the places of the try block.
LEMMA ProgressStep ==
  ASSUME RunnerTypeOK, Progress, Books, [Next]_vars
  PROVE  Progress'
<1> USE DEF RunnerTypeOK, Progress, Books, Armed, Acquiring
<1>1. CASE Begin
  BY <1>1 DEF Begin
<1>2. CASE Connect
  BY <1>2 DEF Connect, Leave
<1>3. CASE \E c \in Capability : Negotiate(c)
  BY <1>3 DEF Negotiate
<1>4. CASE \E c \in Capability : CheckCapabilities(c)
  BY <1>4, PointsType, NoReadings DEF CheckCapabilities, Leave
<1>5. CASE Abort
  BY <1>5 DEF Abort, Leave
<1>6. CASE Drive
  BY <1>6 DEF Drive, Leave
<1>7. CASE Settle
  BY <1>7 DEF Settle
<1>8. CASE \E id \in 1..Len(measurements) + 1 : ReadInput(id)
  BY <1>8 DEF ReadInput, Read, Leave
<1>9. CASE \E id \in 1..Len(measurements) + 1 : ReadOutput(id)
  BY <1>9 DEF ReadOutput, Read, Leave
<1>10. CASE RecordStep
  BY <1>10, PointsType DEF RecordStep
<1>11. CASE EndOfData
  BY <1>11 DEF EndOfData, Leave
<1>12. CASE Fail
  BY <1>12 DEF Fail, Leave
<1>13. CASE Interrupt
  BY <1>13 DEF Interrupt, Leave
<1>14. CASE Release
  BY <1>14 DEF Release
<1>15. CASE Conclude
  BY <1>15 DEF Conclude
<1>16. CASE Caller
  BY <1>16 DEF Caller, runnerVars
<1>17. CASE UNCHANGED vars
  BY <1>17 DEF vars, runnerVars
<1> QED BY <1>1, <1>2, <1>3, <1>4, <1>5, <1>6, <1>7, <1>8, <1>9,
            <1>10, <1>11, <1>12, <1>13, <1>14, <1>15, <1>16, <1>17 DEF Next, Attempt

\* The locals keep what they say.
LEMMA BooksStep ==
  ASSUME RunnerTypeOK, Books, [Next]_vars
  PROVE  Books'
<1> USE DEF RunnerTypeOK, Books, Place, Acquiring, Answer
<1>1. CASE Begin
  BY <1>1 DEF Begin
<1>2. CASE Connect
  BY <1>2 DEF Connect, Leave
<1>3. CASE \E c \in Capability : Negotiate(c)
  BY <1>3 DEF Negotiate
<1>4. CASE \E c \in Capability : CheckCapabilities(c)
  BY <1>4 DEF CheckCapabilities, Leave
<1>5. CASE Abort
  BY <1>5 DEF Abort, Leave
<1>6. CASE Drive
  BY <1>6 DEF Drive, Leave
<1>7. CASE Settle
  BY <1>7 DEF Settle
<1>8. CASE \E id \in 1..Len(measurements) + 1 : ReadInput(id)
  BY <1>8 DEF ReadInput, Read, Leave
<1>9. CASE \E id \in 1..Len(measurements) + 1 : ReadOutput(id)
  BY <1>9 DEF ReadOutput, Read, Leave
<1>10. CASE RecordStep
  BY <1>10 DEF RecordStep
<1>11. CASE EndOfData
  BY <1>11 DEF EndOfData, Leave
<1>12. CASE Fail
  BY <1>12 DEF Fail, Leave
<1>13. CASE Interrupt
  BY <1>13 DEF Interrupt, Leave
<1>14. CASE Release
  BY <1>14 DEF Release
<1>15. CASE Conclude
  BY <1>15 DEF Conclude
<1>16. CASE Caller
  BY <1>16 DEF Caller, runnerVars
<1>17. CASE UNCHANGED vars
  BY <1>17 DEF vars, runnerVars
<1> QED BY <1>1, <1>2, <1>3, <1>4, <1>5, <1>6, <1>7, <1>8, <1>9,
            <1>10, <1>11, <1>12, <1>13, <1>14, <1>15, <1>16, <1>17 DEF Next, Attempt

\* The attempt keeps what it knows of the adapter.
LEMMA LinkStep ==
  ASSUME RunnerTypeOK, RunnerTypeOK', AdapterInv, AdapterInv', Progress, Books, Link, [Next]_vars
  PROVE  Link'
<1> USE DEF Link, Fit, Armed, Acquiring, Place, adapterVars, ArmingAllowed
<1>1. CASE Begin
  BY <1>1 DEF Begin
<1>2. CASE Connect
  BY <1>2 DEF Connect, Leave, ConnectReturns, ConnectRaises, ConnectInterrupted, Progress
<1>3. CASE \E c \in Capability : Negotiate(c)
  BY <1>3 DEF Negotiate, GetCapabilities, AdapterInv, Unique, RunnerTypeOK, AdapterTypeOK
<1>4. CASE \E c \in Capability : CheckCapabilities(c)
  BY <1>4 DEF CheckCapabilities, Leave, Arm, AdapterInv, Unique, OutputState, Progress, Missing, Books
<1>5. CASE Abort
  BY <1>5 DEF Abort, Leave, Books
<1>6. CASE Drive
  BY <1>6 DEF Drive, Leave, SetStimulus, SetStimulusFails, OutputState, Books
<1>7. CASE Settle
  BY <1>7 DEF Settle
<1>8. CASE \E id \in 1..Len(measurements) + 1 : ReadInput(id)
  BY <1>8 DEF ReadInput, Read, Leave
<1>9. CASE \E id \in 1..Len(measurements) + 1 : ReadOutput(id)
  BY <1>9 DEF ReadOutput, Read, Leave
<1>10. CASE RecordStep
  BY <1>10 DEF RecordStep, Books, Progress
<1>11. CASE EndOfData
  BY <1>11 DEF EndOfData, Leave
<1>12. CASE Fail
  BY <1>12 DEF Fail, Leave, OutputState, Progress, Books
<1>13. CASE Interrupt
  BY <1>13 DEF Interrupt, Leave, Progress, Books
<1>14. CASE Release
  <2>1. CASE state = "DISCONNECTED"
    BY <1>14, <2>1 DEF Release, Books, AdapterInv, OutputState
  <2>2. CASE state # "DISCONNECTED"
    <3>1. PICK answer \in Answer :
            /\ Disconnect(answer)
            /\ cleanup' = (answer = "raised")
            /\ pc' = IF answer = "interrupted" THEN "idle" ELSE "concluding"
      BY <1>14, <2>2 DEF Release
    <3>2. PICK stop \in StopAnswers, release \in Answer :
            /\ answer = Raised(stop, release)
            /\ level' \in IF MustStop THEN Stopped(stop) ELSE {level}
            /\ held' \in IF stop = "interrupted" THEN {held}
                         ELSE IF release = "returned" THEN {FALSE} ELSE {held, FALSE}
      BY <3>1 DEF Disconnect
    <3>3. state' = "DISCONNECTED" /\ UNCHANGED <<seen, pending, drove>> /\ pc = "releasing"
      BY <1>14, <3>1 DEF Release, Disconnect, ResetState
    <3>4. CASE answer = "interrupted"
      BY <3>1, <3>3, <3>4
    <3>5. CASE answer = "raised"
      BY <1>14, <3>1, <3>3, <3>5 DEF Release
    <3>6. CASE answer = "returned"
      <4>1. stop = "returned" /\ release = "returned"
        BY <3>2, <3>6 DEF Raised, StopAnswers, Answer
      <4>2. drove \/ pending = "none" => level' = 0
        BY <3>2, <3>3, <4>1 DEF MustStop, Stopped, StopHook, AdapterInv, Authority
      <4>3. held' = FALSE
        BY <3>2, <4>1
      <4> QED
        BY <3>1, <3>3, <3>6, <4>2, <4>3
    <3> QED
      BY <3>4, <3>5, <3>6 DEF Answer
  <2> QED
    BY <2>1, <2>2
<1>15. CASE Conclude
  BY <1>15 DEF Conclude
<1>16. CASE Caller
  BY <1>16 DEF Caller, runnerVars, Progress
<1>17. CASE UNCHANGED vars
  BY <1>17 DEF vars, runnerVars
<1> QED BY <1>1, <1>2, <1>3, <1>4, <1>5, <1>6, <1>7, <1>8, <1>9,
            <1>10, <1>11, <1>12, <1>13, <1>14, <1>15, <1>16, <1>17 DEF Next, Attempt

\* The readings stay the planned ones.
LEMMA ReadingsStep ==
  ASSUME RunnerTypeOK, Progress, Link, Readings, [Next]_vars
  PROVE  Readings'
<1> USE DEF RunnerTypeOK, Readings, AsPlanned
<1>1. CASE Begin
  BY <1>1 DEF Begin
<1>2. CASE Connect
  BY <1>2 DEF Connect, Leave
<1>3. CASE \E c \in Capability : Negotiate(c)
  BY <1>3 DEF Negotiate
<1>4. CASE \E c \in Capability : CheckCapabilities(c)
  BY <1>4 DEF CheckCapabilities, Leave
<1>5. CASE Abort
  BY <1>5 DEF Abort, Leave
<1>6. CASE Drive
  BY <1>6 DEF Drive, Leave
<1>7. CASE Settle
  BY <1>7 DEF Settle
<1>8. CASE \E id \in 1..Len(measurements) + 1 : ReadInput(id)
  <2>1. PICK id \in 1..Len(measurements) + 1 : ReadInput(id)
    BY <1>8
  <2> DEFINE new == [channel |-> "input", id |-> id, live |-> level]
             n == Len(measurements)
  <2>2. CASE measurements' = measurements
    BY <2>2
  <2>3. CASE /\ measurements' = Append(measurements, new)
             /\ id \notin {measurements[i].id : i \in DOMAIN measurements}
    <3>1. /\ Len(measurements') = n + 1
          /\ \A i \in 1..n : measurements'[i] = measurements[i]
          /\ measurements'[n + 1] = new
      BY <2>1, <2>3, NewReading DEF ReadInput, Read
    <3>2. n = 2 * steps /\ steps \in Nat /\ level = Order[steps + 1]
      BY <2>1, PointsType DEF ReadInput, Read, Progress, Link
    <3>3. (n + 1) % 2 = IF n = 2 * steps THEN 1 ELSE 0
      BY <3>2
    <3>4. (n + 2) \div 2 = steps + 1
      BY <3>2
    <3>5. n \in Nat /\ DOMAIN measurements = 1..n /\ DOMAIN measurements' = 1..n + 1
      BY <3>1, <2>3, <3>2, LenProperties, AppendProperties
    <3> HIDE DEF n
    <3>6. ASSUME NEW i \in 1..n + 1
          PROVE  /\ measurements'[i].channel = (IF i % 2 = 1 THEN "input" ELSE "output")
                 /\ measurements'[i].live = Order[(i + 1) \div 2]
      <4>1. CASE i \in 1..n
        BY <4>1, <3>1, <3>5
      <4>2. CASE i = n + 1
        BY <4>2, <3>1, <3>2, <3>3, <3>4, <3>5
      <4> QED BY <4>1, <4>2, <3>5
    <3>7. new.id = id
      OBVIOUS
    <3>8. \A k \in 1..n : measurements[k].id # id
      BY <2>3, <3>5
    <3> HIDE DEF new
    <3>9. ASSUME NEW i \in 1..n + 1, NEW j \in 1..n + 1,
                 measurements'[i].id = measurements'[j].id
          PROVE  i = j
      <4>1. CASE i \in 1..n /\ j \in 1..n
        BY <4>1, <3>1, <3>5, <3>9
      <4>2. CASE i = n + 1 /\ j \in 1..n
        BY <4>2, <3>1, <3>9, <3>7, <3>8
      <4>3. CASE i \in 1..n /\ j = n + 1
        BY <4>3, <3>1, <3>9, <3>7, <3>8
      <4> QED BY <4>1, <4>2, <4>3, <3>5
    <3> QED BY <3>5, <3>6, <3>9
  <2> QED BY <2>1, <2>2, <2>3 DEF ReadInput, Read
<1>9. CASE \E id \in 1..Len(measurements) + 1 : ReadOutput(id)
  <2>1. PICK id \in 1..Len(measurements) + 1 : ReadOutput(id)
    BY <1>9
  <2> DEFINE new == [channel |-> "output", id |-> id, live |-> level]
             n == Len(measurements)
  <2>2. CASE measurements' = measurements
    BY <2>2
  <2>3. CASE /\ measurements' = Append(measurements, new)
             /\ id \notin {measurements[i].id : i \in DOMAIN measurements}
    <3>1. /\ Len(measurements') = n + 1
          /\ \A i \in 1..n : measurements'[i] = measurements[i]
          /\ measurements'[n + 1] = new
      BY <2>1, <2>3, NewReading DEF ReadOutput, Read
    <3>2. n = 2 * steps + 1 /\ steps \in Nat /\ level = Order[steps + 1]
      BY <2>1, PointsType DEF ReadOutput, Read, Progress, Link
    <3>3. (n + 1) % 2 = IF n = 2 * steps THEN 1 ELSE 0
      BY <3>2
    <3>4. (n + 2) \div 2 = steps + 1
      BY <3>2
    <3>5. n \in Nat /\ DOMAIN measurements = 1..n /\ DOMAIN measurements' = 1..n + 1
      BY <3>1, <2>3, <3>2, LenProperties, AppendProperties
    <3> HIDE DEF n
    <3>6. ASSUME NEW i \in 1..n + 1
          PROVE  /\ measurements'[i].channel = (IF i % 2 = 1 THEN "input" ELSE "output")
                 /\ measurements'[i].live = Order[(i + 1) \div 2]
      <4>1. CASE i \in 1..n
        BY <4>1, <3>1, <3>5
      <4>2. CASE i = n + 1
        BY <4>2, <3>1, <3>2, <3>3, <3>4, <3>5
      <4> QED BY <4>1, <4>2, <3>5
    <3>7. new.id = id
      OBVIOUS
    <3>8. \A k \in 1..n : measurements[k].id # id
      BY <2>3, <3>5
    <3> HIDE DEF new
    <3>9. ASSUME NEW i \in 1..n + 1, NEW j \in 1..n + 1,
                 measurements'[i].id = measurements'[j].id
          PROVE  i = j
      <4>1. CASE i \in 1..n /\ j \in 1..n
        BY <4>1, <3>1, <3>5, <3>9
      <4>2. CASE i = n + 1 /\ j \in 1..n
        BY <4>2, <3>1, <3>9, <3>7, <3>8
      <4>3. CASE i \in 1..n /\ j = n + 1
        BY <4>3, <3>1, <3>9, <3>7, <3>8
      <4> QED BY <4>1, <4>2, <4>3, <3>5
    <3> QED BY <3>5, <3>6, <3>9
  <2> QED BY <2>1, <2>2, <2>3 DEF ReadOutput, Read
<1>10. CASE RecordStep
  BY <1>10 DEF RecordStep
<1>11. CASE EndOfData
  BY <1>11 DEF EndOfData, Leave
<1>12. CASE Fail
  BY <1>12 DEF Fail, Leave
<1>13. CASE Interrupt
  BY <1>13 DEF Interrupt, Leave
<1>14. CASE Release
  BY <1>14 DEF Release
<1>15. CASE Conclude
  BY <1>15 DEF Conclude
<1>16. CASE Caller
  BY <1>16 DEF Caller, runnerVars
<1>17. CASE UNCHANGED vars
  BY <1>17 DEF vars, runnerVars
<1> QED BY <1>1, <1>2, <1>3, <1>4, <1>5, <1>6, <1>7, <1>8, <1>9,
            <1>10, <1>11, <1>12, <1>13, <1>14, <1>15, <1>16, <1>17 DEF Next, Attempt

\* The strengthening is an invariant: it holds at first and every step keeps it.
THEOREM AttemptInvariant == Spec => []RunnerInv
<1>1. Init => RunnerInv
  <2> SUFFICES ASSUME Init PROVE RunnerInv
    OBVIOUS
  <2>1. RunnerTypeOK
    <3>1. measurements \in Seq(Measurement) /\ Len(measurements) <= 2 * Points
      BY NoReadings DEF Init, RunnerInit
    <3>2. steps \in 0..Points
      BY PointsType DEF Init, RunnerInit
    <3>3. AdapterTypeOK
      BY DEF Init, AdapterInit, AdapterTypeOK, AdapterState
    <3> QED BY <3>1, <3>2, <3>3 DEF Init, RunnerInit, RunnerTypeOK, Place
  <2>2. AdapterInv
    BY DEF Init, AdapterInit, AdapterInv, Unique, Authority, NoSilentOutput, OutputState
  <2>3. Progress /\ Books /\ Link
    BY DEF Init, RunnerInit, Progress, Books, Link, Armed, Acquiring
  <2>4. Readings
    BY EmptySeq DEF Init, RunnerInit, Readings, AsPlanned
  <2> QED BY <2>1, <2>2, <2>3, <2>4 DEF RunnerInv
<1>2. RunnerInv /\ [Next]_vars => RunnerInv'
  <2> SUFFICES ASSUME RunnerInv, [Next]_vars PROVE RunnerInv'
    OBVIOUS
  <2> USE DEF RunnerInv
  <2>1. AdapterStep
    BY AttemptUsesAdapter
  <2>2. AdapterTypeOK' /\ AdapterInv'
    BY <2>1, AdapterTypeStep, AdapterInvStep DEF RunnerTypeOK
  <2>3. RunnerTypeOK'
    BY <2>2, AttemptTypeStep
  <2>4. Progress' /\ Books'
    BY ProgressStep, BooksStep
  <2>5. Link'
    BY <2>2, <2>3, LinkStep
  <2>6. Readings'
    BY ReadingsStep
  <2> QED BY <2>2, <2>3, <2>4, <2>5, <2>6
<1> QED BY <1>1, <1>2, PTL DEF Spec

\* The runner and its caller use the adapter as the lifecycle allows: each step
\* that touches it is one public call in a state that allows the call.
THEOREM SweepFollowsLifecycle == Spec => LifecycleSpec
<1>1. Init => AdapterInit
  BY DEF Init
<1>2. RunnerInv /\ [Next]_vars => [LifecycleNext]_adapterVars
  BY AttemptUsesAdapter DEF RunnerInv, AdapterStep
<1> QED BY <1>1, <1>2, AttemptInvariant, PTL DEF Spec, LifecycleSpec

\* Types, for every plan (the variables of the adapter and of run_dc_sweep).
THEOREM RunnerTypeCorrect == Spec => []RunnerTypeOK
<1>1. RunnerInv => RunnerTypeOK
  BY DEF RunnerInv
<1> QED BY <1>1, AttemptInvariant, PTL

\* No call of the adapter, in an attempt or between attempts, forgets a live
\* output while it returns normally (DeviceAdapter).
THEOREM OutputNeverSilent == Spec => []NoSilentOutput
<1>1. RunnerInv => NoSilentOutput
  BY DEF RunnerInv, AdapterInv
<1> QED BY <1>1, AttemptInvariant, PTL

\* A verdict is given by the last step of an attempt whose acquisition ended by
\* itself and whose release did not raise, so the invariant gives the rest.
THEOREM VerdictsAreEarned == Spec => VerdictIsEarned
<1> DEFINE Earned ==
      outcome' # outcome /\ outcome' \in {"PASS", "FAIL"} =>
          /\ Len(measurements) = 2 * Points
          /\ AsPlanned(measurements)
          /\ seen # {} /\ \A c \in seen : c.device /\ c.plan /\ ArmingAllowed(c)
          /\ state = "DISCONNECTED"
          /\ ~held
          /\ level = 0
<1>1. RunnerInv /\ [Next]_vars => Earned
  <2> SUFFICES ASSUME RunnerInv, [Next]_vars,
                      outcome' # outcome, outcome' \in {"PASS", "FAIL"}
               PROVE  Earned
    OBVIOUS
  <2>1. Conclude
    BY DEF vars, runnerVars, Next, Attempt, Caller, Begin, Connect, Negotiate,
           CheckCapabilities, Abort, Drive, Settle, ReadInput, ReadOutput, Read,
           RecordStep, EndOfData, Fail, Interrupt, Release, RunnerInv
  <2>2. pc = "concluding" /\ ~cleanup /\ pending = "none"
    BY <2>1 DEF Conclude, Verdicts, RunnerInv, RunnerTypeOK
  <2> QED BY <2>2 DEF RunnerInv, Progress, Link, Fit, Readings
<1>2. RunnerInv /\ [Next]_vars => [Earned]_vars
  BY <1>1
<1> QED BY <1>2, AttemptInvariant, PTL DEF Spec, VerdictIsEarned

\* An output is applied by set_stimulus alone, which the armed configuration
\* guards; the attempt reaches it after its own checks only.
THEOREM OutputsAreAuthorised == Spec => OutputIsAuthorised
<1> DEFINE Authorised ==
      level' # level /\ level' # 0 =>
          /\ configuration
          /\ capabilities # {}
          /\ \A c \in capabilities :
                /\ c.profile /\ c.config /\ c.shutdown
                /\ pc # "idle" => c.device /\ c.plan
<1>1. RunnerInv /\ [Next]_vars => Authorised
  <2> SUFFICES ASSUME RunnerInv, [Next]_vars, level' # level, level' # 0
               PROVE  Authorised
    OBVIOUS
  <2>1. Drive \/ Caller
    BY DEF vars, adapterVars, Next, Attempt, Begin, Connect, ConnectReturns, ConnectRaises,
           ConnectInterrupted, Negotiate, GetCapabilities, CheckCapabilities, Arm, Abort,
           Settle, ReadInput, ReadOutput, Read, RecordStep, EndOfData, Fail, Interrupt,
           Release, Disconnect, Stopped, Conclude
  <2>2. state \in OutputState
    <3>1. CASE Drive
      BY <3>1 DEF Drive, SetStimulus, SetStimulusFails
    <3>2. CASE Caller
      BY <3>2 DEF Caller, AdapterCall, ConnectReturns, ConnectRaises, ConnectInterrupted,
                  GetCapabilities, Arm, SetStimulus, SetStimulusFails, SafeShutdown,
                  SafeShutdownFails, Disconnect, Stopped
    <3> QED BY <2>1, <3>1, <3>2
  <2>3. configuration /\ capabilities # {} /\ \A c \in capabilities : ArmingAllowed(c)
    BY <2>2 DEF RunnerInv, AdapterInv, Authority
  <2>4. pc # "idle" => \A c \in capabilities : c.device /\ c.plan
    BY <2>1 DEF Drive, Caller, RunnerInv, Link, Fit, Armed
  <2> QED BY <2>3, <2>4 DEF ArmingAllowed
<1>2. RunnerInv /\ [Next]_vars => [Authorised]_vars
  BY <1>1
<1> QED BY <1>2, AttemptInvariant, PTL DEF Spec, OutputIsAuthorised

\* When the attempt's own output is live at the conclusion, the release raised.
THEOREM LiveOutputsAreErrors == Spec => LiveOutputIsError
<1> DEFINE Honest ==
      pc = "concluding" /\ pc' = "idle" /\ drove /\ level # 0 =>
          outcome' \in {"ERROR", "raised"}
<1>1. RunnerInv /\ [Next]_vars => Honest
  <2> SUFFICES ASSUME RunnerInv, [Next]_vars,
                      pc = "concluding", pc' = "idle", drove, level # 0
               PROVE  outcome' \in {"ERROR", "raised"}
    OBVIOUS
  <2>1. Conclude
    BY DEF vars, runnerVars, Next, Attempt, Caller, Begin, Connect, Negotiate,
           CheckCapabilities, Abort, Drive, Settle, ReadInput, ReadOutput, Read,
           RecordStep, EndOfData, Fail, Interrupt, Release, Acquiring
  <2>2. cleanup
    BY DEF RunnerInv, Link
  <2> QED BY <2>1, <2>2 DEF Conclude, Verdicts
<1>2. RunnerInv /\ [Next]_vars => [Honest]_vars
  BY <1>1
<1> QED BY <1>2, AttemptInvariant, PTL DEF Spec, LiveOutputIsError

(***************************************************************************)
(* Refinement: every step of the runner is a step of the abstract attempt  *)
(* or leaves what it sees unchanged.                                       *)
(***************************************************************************)
THEOREM RunnerImplementsAttempt == Spec => ImplementsAttempt
<1>1. Init => Abstract!Init
  BY EmptySeq DEF Init, RunnerInit, Abstract!Init
<1>2. RunnerInv /\ [Next]_vars => [Abstract!Next]_(Abstract!attemptVars)
  <2> SUFFICES ASSUME RunnerInv, [Next]_vars
               PROVE  Abstract!Next \/ UNCHANGED Abstract!attemptVars
    OBVIOUS
  <2> USE DEF RunnerInv, Abstract!Next, Abstract!attemptVars
  <2>1. CASE Begin
    BY <2>1, NoReadings DEF Begin, Abstract!Take
  <2>2. CASE Connect \/ Abort \/ Drive \/ Settle \/ EndOfData \/ Fail \/ Interrupt
    BY <2>2 DEF Connect, Abort, Drive, Settle, EndOfData, Fail, Interrupt, Leave, Acquiring
  <2>3. CASE \E c \in Capability : Negotiate(c) \/ CheckCapabilities(c)
    BY <2>3 DEF Negotiate, CheckCapabilities, Leave
  <2>4. CASE \E id \in 1..Len(measurements) + 1 : ReadInput(id) \/ ReadOutput(id)
    <3>1. PICK id \in 1..Len(measurements) + 1 : ReadInput(id) \/ ReadOutput(id)
      BY <2>4
    <3>2. PICK here \in {"input", "output"} :
             /\ pc = here
             /\ pc' \in {"output", "recording", "releasing"}
             /\ \/ measurements' = measurements
                \/ measurements' = Append(measurements,
                                          [channel |-> here, id |-> id, live |-> level])
             /\ UNCHANGED <<cleanup, outcome>>
      BY <3>1 DEF ReadInput, ReadOutput, Read, Leave
    <3>3. CASE measurements' = measurements
      BY <3>2, <3>3
    <3>4. CASE measurements' = Append(measurements,
                                      [channel |-> here, id |-> id, live |-> level])
      <4>1. Len(measurements') = Len(measurements) + 1 /\ Len(measurements) < 2 * Points
        BY <3>2, <3>4, NewReading
      <4> QED BY <3>2, <4>1 DEF Abstract!Collect
    <3> QED BY <3>2, <3>3, <3>4
  <2>5. CASE RecordStep
    BY <2>5 DEF RecordStep
  <2>6. CASE Release
    BY <2>6 DEF Release, Books, Acquiring, Abstract!Release, Abstract!Abandon
  <2>7. CASE Conclude
    <3>1. PICK o \in Verdicts : outcome' = IF Accepted(o) THEN o ELSE "raised"
      BY <2>7 DEF Conclude
    <3>2. outcome = "none" /\ (cleanup => o = "ERROR")
      BY <2>7, <3>1 DEF Conclude, Books, Verdicts
    <3>3. o \in {"PASS", "FAIL"} => ~cleanup /\ Len(measurements) = 2 * Points
      BY <2>7, <3>1 DEF Conclude, Verdicts, RunnerTypeOK, Progress
    <3>4. outcome' \in Abstract!Conclusion
      BY <3>1 DEF Verdicts, RunnerTypeOK, Abstract!Conclusion, Abstract!Verdict
    <3>5. Abstract!Conclude(outcome')
      BY <2>7, <3>1, <3>2, <3>3, <3>4
         DEF Conclude, Abstract!Conclude, Abstract!Conclusion, Abstract!Verdict
    <3> QED BY <3>4, <3>5
  <2>8. CASE Caller
    BY <2>8 DEF Caller, runnerVars
  <2>9. CASE UNCHANGED vars
    BY <2>9 DEF vars, runnerVars
  <2> QED BY <2>1, <2>2, <2>3, <2>4, <2>5, <2>6, <2>7, <2>8, <2>9 DEF Next, Attempt
<1> QED BY <1>1, <1>2, AttemptInvariant, PTL DEF Spec, ImplementsAttempt, Abstract!Spec

--------------------------------------------------------------------------------
(***************************************************************************)
(* From the analysis of a sweep to its outcome                             *)
(***************************************************************************)

Criteria == INSTANCE AcceptanceCriteria

\* numbers for every limit that the criteria name
Evaluable(a, c) ==
    /\ a.size \in Nat /\ c.minimum \in Nat
    /\ \A name \in DOMAIN c.limits :
          /\ a.actual[name] \in Int
          /\ c.limits[name].lower \subseteq Int
          /\ c.limits[name].upper \subseteq Int

(* An evaluation never ends in an error of its own result: whatever the    *)
(* analysis and the criteria, the TestRunResult accepts what is derived.   *)
THEOREM DerivedResultAccepted ==
    ASSUME NEW a, NEW criteria, NEW evidence \in Nat \ {0}
    PROVE  Criteria!TestRunAccepted(Criteria!Derive(a, criteria), evidence)
<1>1. evidence > 0
  OBVIOUS
<1>2. CASE Criteria!Gaps(a, criteria) # {}
  BY <1>2 DEF Criteria!Derive, Criteria!TestRunAccepted
<1>3. CASE Criteria!Gaps(a, criteria) = {}
  BY <1>1, <1>3 DEF Criteria!Derive, Criteria!TestRunAccepted
<1> QED BY <1>2, <1>3

(* PASS is earned: the result is PASS just when there are criteria, the    *)
(* analysis has no gap and every criterion is kept.  So a sweep with a gap *)
(* never passes, and one that keeps them all is never failed.              *)
THEOREM PassIsEarned ==
    ASSUME NEW a, NEW criteria, \A c \in criteria : Evaluable(a, c)
    PROVE  Criteria!Derive(a, criteria).outcome = "PASS"
              <=> /\ criteria # {} /\ a.missing = {}
                  /\ \A c \in criteria : Criteria!AllPassed(a, c)
<1>1. Criteria!Gaps(a, criteria) = {} <=> criteria # {} /\ a.missing = {}
  BY DEF Criteria!Gaps
<1>2. ASSUME NEW c \in criteria, Criteria!AllPassed(a, c)
      PROVE  ~(a.size < c.minimum)
  <2>1. a.size >= c.minimum
    BY <1>2 DEF Criteria!AllPassed, Criteria!SizePassed, Criteria!Passed,
                Criteria!AtLeast, Criteria!Limits
  <2> QED BY <2>1 DEF Evaluable
<1> QED BY <1>1, <1>2 DEF Criteria!Derive

(* The criterion on the number of points cannot fail: where it is looked   *)
(* at, too small an analysis has already been called INCOMPLETE.           *)
THEOREM SizeCriterionNeverFails ==
    ASSUME NEW a, NEW criteria, \A c \in criteria : Evaluable(a, c),
           Criteria!Derive(a, criteria).outcome # "INCOMPLETE"
    PROVE  \A c \in criteria : Criteria!SizePassed(a, c)
<1>1. ~ \E c \in criteria : a.size < c.minimum
  BY DEF Criteria!Derive
<1>2. ASSUME NEW c \in criteria
      PROVE  a.size >= c.minimum
  BY <1>1 DEF Evaluable
<1> QED
  BY <1>2 DEF Criteria!SizePassed, Criteria!Passed, Criteria!AtLeast, Criteria!Limits

(* A test that passes its criteria passes every looser ones.               *)
THEOREM LooserCriteriaKeepPass ==
    ASSUME NEW a, NEW c, NEW d, Evaluable(a, c), Evaluable(a, d),
           Criteria!Looser(d, c),
           Criteria!Derive(a, {c}).outcome = "PASS"
    PROVE  Criteria!Derive(a, {d}).outcome = "PASS"
<1>1. a.missing = {} /\ Criteria!AllPassed(a, c)
  BY PassIsEarned
<1>2. Criteria!SizePassed(a, d)
  <2>1. a.size >= c.minimum
    BY <1>1 DEF Criteria!AllPassed, Criteria!SizePassed, Criteria!Passed,
                Criteria!AtLeast, Criteria!Limits
  <2>2. a.size >= d.minimum
    BY <2>1 DEF Criteria!Looser, Evaluable
  <2> QED
    BY <2>2 DEF Criteria!SizePassed, Criteria!Passed, Criteria!AtLeast, Criteria!Limits
<1>3. ASSUME NEW name \in DOMAIN d.limits
      PROVE  Criteria!Passed(a.actual[name], d.limits[name])
  <2>1. name \in DOMAIN c.limits
    BY <1>3 DEF Criteria!Looser
  <2>2. Criteria!Passed(a.actual[name], c.limits[name])
    BY <1>1, <2>1 DEF Criteria!AllPassed
  <2>3. ASSUME NEW low \in d.limits[name].lower
        PROVE  a.actual[name] >= low
    <3>1. PICK other \in c.limits[name].lower : low <= other
      BY <2>1, <2>3 DEF Criteria!Looser
    <3>2. a.actual[name] >= other
      BY <2>2, <3>1 DEF Criteria!Passed
    <3> QED BY <1>3, <2>1, <2>3, <3>1, <3>2 DEF Evaluable
  <2>4. ASSUME NEW high \in d.limits[name].upper
        PROVE  a.actual[name] <= high
    <3>1. PICK other \in c.limits[name].upper : other <= high
      BY <2>1, <2>4 DEF Criteria!Looser
    <3>2. a.actual[name] <= other
      BY <2>2, <3>1 DEF Criteria!Passed
    <3> QED BY <1>3, <2>1, <2>4, <3>1, <3>2 DEF Evaluable
  <2> QED BY <2>3, <2>4 DEF Criteria!Passed
<1>4. Criteria!AllPassed(a, d)
  BY <1>2, <1>3 DEF Criteria!AllPassed
<1> QED BY <1>1, <1>4, PassIsEarned

================================================================================
