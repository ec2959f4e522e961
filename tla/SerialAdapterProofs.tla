--------------------------- MODULE SerialAdapterProofs ---------------------------
(***************************************************************************)
(* Proofs about the serial adapter: the type invariant, and the safety     *)
(* invariants that the run serial_adapter checks on a small instance, for  *)
(* every record size, chunk size, poll budget and buffer limit.            *)
(***************************************************************************)
EXTENDS SerialAdapter, SequenceTheorems, TLAPS

(***************************************************************************)
(* The variables that are not sequences, and their types.                  *)
(***************************************************************************)
FlagsOK ==
    /\ port \in BOOLEAN
    /\ discarding \in BOOLEAN
    /\ pending \in BOOLEAN

NamesOK ==
    /\ session \in {"OPEN", "CLOSED"}
    /\ profile \in {"afe", "msp430"}
    /\ astate \in AdapterState
    /\ caps \in Caps \cup {"none"}
    /\ native \in Caps \cup {"none"}
    /\ call \in Channel \cup {"none", "negotiate"}
    /\ phase \in {"between", "feeding", "processing"}

CountsOK ==
    /\ room \in 0..MaxChunk
    /\ epoch \in 0..MaxEpochs
    /\ sent \in 0..MaxTelemetry
    /\ polls \in 0..MaxPolls

(***************************************************************************)
(* Where a call is: a returned call has left nothing of its last poll, and *)
(* only a feeding poll may receive bytes.                                  *)
(***************************************************************************)
CallPhase ==
    /\ call = "none" => phase = "between"
    /\ phase # "feeding" => room = 0
    /\ phase = "between" => records = <<>>
    /\ call # "none" => astate # "DISCONNECTED"

\* The variables that are not sequences start within their types.
LEMMA ScalarsInit == AdapterInit => FlagsOK /\ NamesOK /\ CountsOK
  <1>1. AdapterInit => FlagsOK
    BY DEF AdapterInit, SessionInit, FlagsOK
  <1>2. AdapterInit => NamesOK
    BY DEF AdapterInit, SessionInit, NamesOK, AdapterState
  <1>3. AdapterInit => CountsOK
    BY SessionAssumption, AdapterAssumption DEF AdapterInit, SessionInit, CountsOK
  <1> QED
    BY <1>1, <1>2, <1>3

\* Every step keeps the flags Boolean.
LEMMA FlagsStep == FlagsOK /\ [AdapterNext]_vars => FlagsOK'
  <1> SUFFICES ASSUME FlagsOK, [AdapterNext]_vars PROVE FlagsOK'
    OBVIOUS
  <1> USE DEF FlagsOK
  <1>1. CASE Connect
    BY <1>1 DEF Connect, SessionOpen, FramerReset, Forget, callVars
  <1>2. CASE ConnectFails
    BY <1>2 DEF ConnectFails, SessionOpenFails, FramerReset, Forget, callVars
  <1>3. CASE Disconnect
    BY <1>3 DEF Disconnect, SessionClose, FramerReset, Forget, callVars
  <1>4. CASE SafeShutdown
    BY <1>4 DEF SafeShutdown, sessionVars, framerVars, callVars
  <1>5. CASE ConfirmStatic
    BY <1>5 DEF ConfirmStatic, Confirm, sessionVars, framerVars, callVars
  <1>6. CASE Negotiate
    BY <1>6 DEF Negotiate, Begin, sessionVars, framerVars, adapterVars
  <1>7. ASSUME NEW ch \in Channel, Read(ch) PROVE FlagsOK'
    BY <1>7 DEF Read, Begin, sessionVars, framerVars, adapterVars
  <1>8. ASSUME NEW ch \in Channel, ReadBuffered(ch) PROVE FlagsOK'
    BY <1>8 DEF ReadBuffered, sessionVars, framerVars, callVars
  <1>9. CASE Poll
    BY <1>9 DEF Poll, Polling, Budget, ChunkRead, framerVars, adapterVars
  <1>10. ASSUME NEW v \in Payload \cup {LF}, Feed(v) PROVE FlagsOK'
    BY <1>10 DEF Feed, FeedByte, Framed, adapterVars, callVars
  <1>11. CASE Fed
    BY <1>11 DEF Fed, ChunkEnd, framerVars, adapterVars
  <1>12. CASE PollReconnects
    BY <1>12 DEF PollReconnects, Reconnect, FramerReset, Forget, Return
  <1>13. CASE PollLosesSession
    BY <1>13 DEF PollLosesSession, ReconnectExhausted, Abort, FramerReset, Forget, Return
  <1>14. CASE ProcessRecord
    BY <1>14 DEF ProcessRecord, RecordEvicted, Reject, DeviceHeader, Register, CapabilitiesChanged,
                 BufferMeasurements, BufferLimitExceeded, Skip, Fail, Consume, Return,
                 RestUnchanged, framerVars, callVars
  <1>15. CASE CapabilitiesArrive
    BY <1>15 DEF CapabilitiesArrive, Satisfied, Confirm, Return, sessionVars, framerVars
  <1>16. CASE ReadingArrives
    BY <1>16 DEF ReadingArrives, Return, sessionVars, framerVars
  <1>17. CASE PollAgain
    BY <1>17 DEF PollAgain, sessionVars, framerVars, adapterVars
  <1>18. CASE GiveUp
    BY <1>18 DEF GiveUp, Return, sessionVars, framerVars, adapterVars
  <1>19. CASE UNCHANGED vars
    BY <1>19 DEF vars, sessionVars, framerVars, adapterVars, callVars
  <1> QED
    BY <1>1, <1>2, <1>3, <1>4, <1>5, <1>6, <1>7, <1>8, <1>9, <1>10,
       <1>11, <1>12, <1>13, <1>14, <1>15, <1>16, <1>17, <1>18, <1>19
       DEF AdapterNext, CallStep

\* Every step keeps the states and names in their sets.
LEMMA NamesStep == NamesOK /\ [AdapterNext]_vars => NamesOK'
  <1> SUFFICES ASSUME NamesOK, [AdapterNext]_vars PROVE NamesOK'
    OBVIOUS
  <1> USE DEF NamesOK
  <1>1. CASE Connect
    BY <1>1 DEF Connect, SessionOpen, FramerReset, Forget, callVars, AdapterState, Caps
  <1>2. CASE ConnectFails
    BY <1>2 DEF ConnectFails, SessionOpenFails, FramerReset, Forget, callVars, AdapterState, Caps
  <1>3. CASE Disconnect
    BY <1>3 DEF Disconnect, SessionClose, FramerReset, Forget, callVars, AdapterState, Caps
  <1>4. CASE SafeShutdown
    BY <1>4 DEF SafeShutdown, sessionVars, framerVars, callVars, AdapterState, Caps
  <1>5. CASE ConfirmStatic
    BY <1>5 DEF ConfirmStatic, Confirm, sessionVars, framerVars, callVars, AdapterState, Caps
  <1>6. CASE Negotiate
    BY <1>6 DEF Negotiate, Begin, sessionVars, framerVars, adapterVars, AdapterState, Caps
  <1>7. ASSUME NEW ch \in Channel, Read(ch) PROVE NamesOK'
    BY <1>7 DEF Read, Begin, sessionVars, framerVars, adapterVars, AdapterState, Caps
  <1>8. ASSUME NEW ch \in Channel, ReadBuffered(ch) PROVE NamesOK'
    BY <1>8 DEF ReadBuffered, sessionVars, framerVars, callVars, AdapterState, Caps
  <1>9. CASE Poll
    BY <1>9 DEF Poll, Polling, Budget, ChunkRead, framerVars, adapterVars, AdapterState, Caps
  <1>10. ASSUME NEW v \in Payload \cup {LF}, Feed(v) PROVE NamesOK'
    BY <1>10 DEF Feed, FeedByte, Framed, adapterVars, callVars, AdapterState, Caps
  <1>11. CASE Fed
    BY <1>11 DEF Fed, ChunkEnd, framerVars, adapterVars, AdapterState, Caps
  <1>12. CASE PollReconnects
    BY <1>12 DEF PollReconnects, Reconnect, FramerReset, Forget, Return, AdapterState, Caps
  <1>13. CASE PollLosesSession
    BY <1>13 DEF PollLosesSession, ReconnectExhausted, Abort, FramerReset, Forget, Return, AdapterState, Caps
  <1>14. CASE ProcessRecord
    BY <1>14 DEF ProcessRecord, RecordEvicted, Reject, DeviceHeader, Register, CapabilitiesChanged,
                 BufferMeasurements, BufferLimitExceeded, Skip, Fail, Consume, Return,
                 RestUnchanged, framerVars, callVars, AdapterState, Caps
  <1>15. CASE CapabilitiesArrive
    BY <1>15 DEF CapabilitiesArrive, Satisfied, Confirm, Return, sessionVars, framerVars, AdapterState, Caps
  <1>16. CASE ReadingArrives
    BY <1>16 DEF ReadingArrives, Return, sessionVars, framerVars, AdapterState, Caps
  <1>17. CASE PollAgain
    BY <1>17 DEF PollAgain, sessionVars, framerVars, adapterVars, AdapterState, Caps
  <1>18. CASE GiveUp
    BY <1>18 DEF GiveUp, Return, sessionVars, framerVars, adapterVars, AdapterState, Caps
  <1>19. CASE UNCHANGED vars
    BY <1>19 DEF vars, sessionVars, framerVars, adapterVars, callVars
  <1> QED
    BY <1>1, <1>2, <1>3, <1>4, <1>5, <1>6, <1>7, <1>8, <1>9, <1>10,
       <1>11, <1>12, <1>13, <1>14, <1>15, <1>16, <1>17, <1>18, <1>19
       DEF AdapterNext, CallStep

\* Every step keeps the counters within their bounds.
LEMMA CountsStep == CountsOK /\ [AdapterNext]_vars => CountsOK'
  <1> SUFFICES ASSUME CountsOK, [AdapterNext]_vars PROVE CountsOK'
    OBVIOUS
  <1> USE SessionAssumption, AdapterAssumption DEF CountsOK
  <1>1. CASE Connect
    BY <1>1 DEF Connect, SessionOpen, FramerReset, Forget, callVars
  <1>2. CASE ConnectFails
    BY <1>2 DEF ConnectFails, SessionOpenFails, FramerReset, Forget, callVars
  <1>3. CASE Disconnect
    BY <1>3 DEF Disconnect, SessionClose, FramerReset, Forget, callVars
  <1>4. CASE SafeShutdown
    BY <1>4 DEF SafeShutdown, sessionVars, framerVars, callVars
  <1>5. CASE ConfirmStatic
    BY <1>5 DEF ConfirmStatic, Confirm, sessionVars, framerVars, callVars
  <1>6. CASE Negotiate
    BY <1>6 DEF Negotiate, Begin, sessionVars, framerVars, adapterVars
  <1>7. ASSUME NEW ch \in Channel, Read(ch) PROVE CountsOK'
    BY <1>7 DEF Read, Begin, sessionVars, framerVars, adapterVars
  <1>8. ASSUME NEW ch \in Channel, ReadBuffered(ch) PROVE CountsOK'
    BY <1>8 DEF ReadBuffered, sessionVars, framerVars, callVars
  <1>9. CASE Poll
    BY <1>9 DEF Poll, Polling, Budget, ChunkRead, framerVars, adapterVars
  <1>10. ASSUME NEW v \in Payload \cup {LF}, Feed(v) PROVE CountsOK'
    BY <1>10 DEF Feed, FeedByte, Framed, adapterVars, callVars
  <1>11. CASE Fed
    BY <1>11 DEF Fed, ChunkEnd, framerVars, adapterVars
  <1>12. CASE PollReconnects
    BY <1>12 DEF PollReconnects, Reconnect, FramerReset, Forget, Return
  <1>13. CASE PollLosesSession
    BY <1>13 DEF PollLosesSession, ReconnectExhausted, Abort, FramerReset, Forget, Return
  <1>14. CASE ProcessRecord
    BY <1>14 DEF ProcessRecord, RecordEvicted, Reject, DeviceHeader, Register, CapabilitiesChanged,
                 BufferMeasurements, BufferLimitExceeded, Skip, Fail, Consume, Return,
                 RestUnchanged, framerVars, callVars
  <1>15. CASE CapabilitiesArrive
    BY <1>15 DEF CapabilitiesArrive, Satisfied, Confirm, Return, sessionVars, framerVars
  <1>16. CASE ReadingArrives
    BY <1>16 DEF ReadingArrives, Return, sessionVars, framerVars
  <1>17. CASE PollAgain
    BY <1>17 DEF PollAgain, sessionVars, framerVars, adapterVars
  <1>18. CASE GiveUp
    BY <1>18 DEF GiveUp, Return, sessionVars, framerVars, adapterVars
  <1>19. CASE UNCHANGED vars
    BY <1>19 DEF vars, sessionVars, framerVars, adapterVars, callVars
  <1> QED
    BY <1>1, <1>2, <1>3, <1>4, <1>5, <1>6, <1>7, <1>8, <1>9, <1>10,
       <1>11, <1>12, <1>13, <1>14, <1>15, <1>16, <1>17, <1>18, <1>19
       DEF AdapterNext, CallStep

(***************************************************************************)
(* What a call leaves behind, and which steps find it in which phase.      *)
(***************************************************************************)
LEMMA CallPhaseInit == AdapterInit => CallPhase
  BY DEF AdapterInit, SessionInit, CallPhase

\* Every step keeps the relation between a call, its phase and its poll.
LEMMA CallPhaseStep == CallPhase /\ NamesOK /\ [AdapterNext]_vars => CallPhase'
  <1> SUFFICES ASSUME CallPhase, NamesOK, [AdapterNext]_vars PROVE CallPhase'
    OBVIOUS
  <1> USE DEF CallPhase, NamesOK
  <1>1. CASE Connect
    BY <1>1 DEF Connect, SessionOpen, FramerReset, Forget, callVars, Idle
  <1>2. CASE ConnectFails
    BY <1>2 DEF ConnectFails, SessionOpenFails, FramerReset, Forget, callVars, Idle
  <1>3. CASE Disconnect
    BY <1>3 DEF Disconnect, SessionClose, FramerReset, Forget, callVars, Idle
  <1>4. CASE SafeShutdown
    BY <1>4 DEF SafeShutdown, sessionVars, framerVars, callVars, Idle
  <1>5. CASE ConfirmStatic
    BY <1>5 DEF ConfirmStatic, Confirm, sessionVars, framerVars, callVars, Idle
  <1>6. CASE Negotiate
    BY <1>6 DEF Negotiate, Begin, sessionVars, framerVars, adapterVars, Idle
  <1>7. ASSUME NEW ch \in Channel, Read(ch) PROVE CallPhase'
    BY <1>7 DEF Read, Begin, sessionVars, framerVars, adapterVars, Idle
  <1>8. ASSUME NEW ch \in Channel, ReadBuffered(ch) PROVE CallPhase'
    BY <1>8 DEF ReadBuffered, sessionVars, framerVars, callVars, Idle
  <1>9. CASE Poll
    BY <1>9 DEF Poll, Polling, Budget, ChunkRead, framerVars, adapterVars, Idle
  <1>10. ASSUME NEW v \in Payload \cup {LF}, Feed(v) PROVE CallPhase'
    BY <1>10 DEF Feed, FeedByte, adapterVars, callVars
  <1>11. CASE Fed
    BY <1>11 DEF Fed, ChunkEnd, framerVars, adapterVars
  <1>12. CASE PollReconnects
    BY <1>12 DEF PollReconnects, Reconnect, FramerReset, Forget, Return, Polling, Idle
  <1>13. CASE PollLosesSession
    BY <1>13 DEF PollLosesSession, ReconnectExhausted, Abort, FramerReset, Forget, Return, Polling, Idle
  <1>14. CASE ProcessRecord
    BY <1>14 DEF ProcessRecord, RecordEvicted, Reject, DeviceHeader, Register, CapabilitiesChanged,
                 BufferMeasurements, BufferLimitExceeded, Skip, Fail, Consume, Return,
                 RestUnchanged, framerVars, callVars, Processing, Telemetry
  <1>15. CASE CapabilitiesArrive
    BY <1>15 DEF CapabilitiesArrive, Satisfied, Confirm, Return, sessionVars, framerVars, PollDone
  <1>16. CASE ReadingArrives
    BY <1>16 DEF ReadingArrives, Return, sessionVars, framerVars, PollDone
  <1>17. CASE PollAgain
    BY <1>17 DEF PollAgain, sessionVars, framerVars, adapterVars, PollDone
  <1>18. CASE GiveUp
    BY <1>18 DEF GiveUp, Return, sessionVars, framerVars, adapterVars, PollDone
  <1>19. CASE UNCHANGED vars
    BY <1>19 DEF vars, sessionVars, framerVars, adapterVars, callVars
  <1> QED
    BY <1>1, <1>2, <1>3, <1>4, <1>5, <1>6, <1>7, <1>8, <1>9, <1>10,
       <1>11, <1>12, <1>13, <1>14, <1>15, <1>16, <1>17, <1>18, <1>19
       DEF AdapterNext, CallStep

(***************************************************************************)
(* The adapter, the session and the port agree.                            *)
(***************************************************************************)
LEMMA ConnectionInit == AdapterInit => ConnectionOwnsPort
  BY DEF AdapterInit, SessionInit, ConnectionOwnsPort

\* Every step opens or closes the three together.
LEMMA ConnectionStep == ConnectionOwnsPort /\ NamesOK /\ CallPhase /\ [AdapterNext]_vars => ConnectionOwnsPort'
  <1> SUFFICES ASSUME ConnectionOwnsPort, NamesOK, CallPhase, [AdapterNext]_vars PROVE ConnectionOwnsPort'
    OBVIOUS
  <1> USE DEF ConnectionOwnsPort, CallPhase
  <1>1. CASE Connect
    BY <1>1 DEF Connect, SessionOpen, FramerReset, Forget, callVars, Idle
  <1>2. CASE ConnectFails
    BY <1>2 DEF ConnectFails, SessionOpenFails, FramerReset, Forget, callVars, Idle
  <1>3. CASE Disconnect
    BY <1>3 DEF Disconnect, SessionClose, FramerReset, Forget, callVars, Idle
  <1>4. CASE SafeShutdown
    BY <1>4 DEF SafeShutdown, sessionVars, framerVars, callVars, Idle
  <1>5. CASE ConfirmStatic
    BY <1>5 DEF ConfirmStatic, Confirm, sessionVars, framerVars, callVars, Idle
  <1>6. CASE Negotiate
    BY <1>6 DEF Negotiate, Begin, sessionVars, framerVars, adapterVars, Idle
  <1>7. ASSUME NEW ch \in Channel, Read(ch) PROVE ConnectionOwnsPort'
    BY <1>7 DEF Read, Begin, sessionVars, framerVars, adapterVars, Idle
  <1>8. ASSUME NEW ch \in Channel, ReadBuffered(ch) PROVE ConnectionOwnsPort'
    BY <1>8 DEF ReadBuffered, sessionVars, framerVars, callVars, Idle
  <1>9. CASE Poll
    BY <1>9 DEF Poll, Polling, Budget, ChunkRead, framerVars, adapterVars, Idle
  <1>10. ASSUME NEW v \in Payload \cup {LF}, Feed(v) PROVE ConnectionOwnsPort'
    BY <1>10 DEF Feed, FeedByte, adapterVars, callVars
  <1>11. CASE Fed
    BY <1>11 DEF Fed, ChunkEnd, framerVars, adapterVars
  <1>12. CASE PollReconnects
    BY <1>12 DEF PollReconnects, Reconnect, FramerReset, Forget, Return, Polling, Idle
  <1>13. CASE PollLosesSession
    BY <1>13 DEF PollLosesSession, ReconnectExhausted, Abort, FramerReset, Forget, Return, Polling, Idle
  <1>14. CASE ProcessRecord
    BY <1>14 DEF ProcessRecord, RecordEvicted, Reject, DeviceHeader, Register, CapabilitiesChanged,
                 BufferMeasurements, BufferLimitExceeded, Skip, Fail, Consume, Return,
                 RestUnchanged, framerVars, callVars, Processing, Telemetry
  <1>15. CASE CapabilitiesArrive
    BY <1>15 DEF CapabilitiesArrive, Satisfied, Confirm, Return, sessionVars, framerVars, PollDone
  <1>16. CASE ReadingArrives
    BY <1>16 DEF ReadingArrives, Return, sessionVars, framerVars, PollDone
  <1>17. CASE PollAgain
    BY <1>17 DEF PollAgain, sessionVars, framerVars, adapterVars, PollDone
  <1>18. CASE GiveUp
    BY <1>18 DEF GiveUp, Return, sessionVars, framerVars, adapterVars, PollDone
  <1>19. CASE UNCHANGED vars
    BY <1>19 DEF vars, sessionVars, framerVars, adapterVars, callVars
  <1> QED
    BY <1>1, <1>2, <1>3, <1>4, <1>5, <1>6, <1>7, <1>8, <1>9, <1>10,
       <1>11, <1>12, <1>13, <1>14, <1>15, <1>16, <1>17, <1>18, <1>19
       DEF AdapterNext, CallStep

(***************************************************************************)
(* Reads run under capabilities of this connection.                        *)
(***************************************************************************)
LEMMA ConfirmedInit == AdapterInit => ReadsAreConfirmed
  BY AdapterAssumption DEF AdapterInit, SessionInit, ReadsAreConfirmed

\* Every step keeps the confirmed capabilities those that were registered.
LEMMA ConfirmedStep == ReadsAreConfirmed /\ NamesOK /\ CallPhase /\ [AdapterNext]_vars => ReadsAreConfirmed'
  <1> SUFFICES ASSUME ReadsAreConfirmed, NamesOK, CallPhase, [AdapterNext]_vars PROVE ReadsAreConfirmed'
    OBVIOUS
  <1> USE AdapterAssumption DEF ReadsAreConfirmed, CallPhase, NamesOK
  <1>1. CASE Connect
    BY <1>1 DEF Connect, SessionOpen, FramerReset, Forget, callVars, Idle
  <1>2. CASE ConnectFails
    BY <1>2 DEF ConnectFails, SessionOpenFails, FramerReset, Forget, callVars, Idle
  <1>3. CASE Disconnect
    BY <1>3 DEF Disconnect, SessionClose, FramerReset, Forget, callVars, Idle
  <1>4. CASE SafeShutdown
    BY <1>4 DEF SafeShutdown, sessionVars, framerVars, callVars, Idle
  <1>5. CASE ConfirmStatic
    BY <1>5 DEF ConfirmStatic, Confirm, sessionVars, framerVars, callVars, Idle
  <1>6. CASE Negotiate
    BY <1>6 DEF Negotiate, Begin, sessionVars, framerVars, adapterVars, Idle
  <1>7. ASSUME NEW ch \in Channel, Read(ch) PROVE ReadsAreConfirmed'
    BY <1>7 DEF Read, Begin, sessionVars, framerVars, adapterVars, Idle
  <1>8. ASSUME NEW ch \in Channel, ReadBuffered(ch) PROVE ReadsAreConfirmed'
    BY <1>8 DEF ReadBuffered, sessionVars, framerVars, callVars, Idle
  <1>9. CASE Poll
    BY <1>9 DEF Poll, Polling, Budget, ChunkRead, framerVars, adapterVars, Idle
  <1>10. ASSUME NEW v \in Payload \cup {LF}, Feed(v) PROVE ReadsAreConfirmed'
    BY <1>10 DEF Feed, FeedByte, adapterVars, callVars
  <1>11. CASE Fed
    BY <1>11 DEF Fed, ChunkEnd, framerVars, adapterVars
  <1>12. CASE PollReconnects
    BY <1>12 DEF PollReconnects, Reconnect, FramerReset, Forget, Return, Polling, Idle
  <1>13. CASE PollLosesSession
    BY <1>13 DEF PollLosesSession, ReconnectExhausted, Abort, FramerReset, Forget, Return, Polling, Idle
  <1>14. CASE ProcessRecord
    BY <1>14 DEF ProcessRecord, RecordEvicted, Reject, DeviceHeader, Register, CapabilitiesChanged,
                 BufferMeasurements, BufferLimitExceeded, Skip, Fail, Consume, Return,
                 RestUnchanged, framerVars, callVars, Processing, Telemetry, Conflicts, Caps
  <1>15. CASE CapabilitiesArrive
    BY <1>15 DEF CapabilitiesArrive, Satisfied, Confirm, Return, sessionVars, framerVars, PollDone
  <1>16. CASE ReadingArrives
    BY <1>16 DEF ReadingArrives, Return, sessionVars, framerVars, PollDone
  <1>17. CASE PollAgain
    BY <1>17 DEF PollAgain, sessionVars, framerVars, adapterVars, PollDone
  <1>18. CASE GiveUp
    BY <1>18 DEF GiveUp, Return, sessionVars, framerVars, adapterVars, PollDone
  <1>19. CASE UNCHANGED vars
    BY <1>19 DEF vars, sessionVars, framerVars, adapterVars, callVars
  <1> QED
    BY <1>1, <1>2, <1>3, <1>4, <1>5, <1>6, <1>7, <1>8, <1>9, <1>10,
       <1>11, <1>12, <1>13, <1>14, <1>15, <1>16, <1>17, <1>18, <1>19
       DEF AdapterNext, CallStep

(***************************************************************************)
(* Sequences.  Every element of Tail(s), of a part of s and of the joined  *)
(* parts around one element is an element of s.                            *)
(***************************************************************************)
LEMMA WithoutType ==
    ASSUME NEW S, NEW q \in Seq(S), NEW i \in DOMAIN q
    PROVE  /\ Without(q, i) \in Seq(S)
           /\ Len(Without(q, i)) = Len(q) - 1
  <1> DEFINE before == SubSeq(q, 1, i - 1)
             after  == SubSeq(q, i + 1, Len(q))
  <1>1. i \in 1..Len(q) /\ Len(q) \in Nat
    OBVIOUS
  <1>2. before \in Seq(S) /\ Len(before) = i - 1
    BY <1>1, SubSeqProperties
  <1>3. after \in Seq(S) /\ Len(after) = Len(q) - i
    BY <1>1, SubSeqProperties
  <1>4. Without(q, i) = before \o after
    BY DEF Without
  <1> HIDE DEF before, after
  <1> QED
    BY <1>1, <1>2, <1>3, <1>4, ConcatProperties

\* The bytes and the measurements that were received on connection e.
ByteOf(e)        == {b \in Byte : b.epoch = e}
MeasurementOf(e) == {m \in Measurement : m.epoch = e}

\* The records that the framer lets through.
WellFramed == {r \in Seq(Byte) : Len(r) \in 1..MaxRecord /\ EndsInItsOnlyLineFeed(r)}

\* A byte that is read now is a byte of the open connection.
LEMMA StampedType ==
    ASSUME CountsOK, NEW v \in Payload \cup {LF}, v = "telemetry" => sent < MaxTelemetry
    PROVE  Stamped(v) \in ByteOf(epoch) /\ Stamped(v).value = v
  BY SessionAssumption DEF CountsOK, Stamped, Byte, ByteOf

(***************************************************************************)
(* The framing invariant: the incomplete record has no line feed and is    *)
(* not longer than a record may be, and complete records are well framed.  *)
(***************************************************************************)
Framing ==
    /\ buffer \in Seq(Byte)
    /\ Len(buffer) <= MaxRecord
    /\ \A i \in DOMAIN buffer : buffer[i].value # LF
    /\ discarding => buffer = <<>>
    /\ records \in Seq(WellFramed)

\* No records at all are well framed.
LEMMA EmptyRecords == <<>> \in Seq(WellFramed)
  OBVIOUS

\* Initially nothing has been received.
LEMMA FramingInit == AdapterInit => Framing
  BY SessionAssumption DEF AdapterInit, SessionInit, Framing

\* A line feed that completes a record of legal length makes it well framed.
LEMMA CompletedRecord ==
    ASSUME NEW q \in Seq(Byte), NEW b \in Byte, b.value = LF, Len(q) < MaxRecord,
           \A i \in DOMAIN q : q[i].value # LF
    PROVE  Append(q, b) \in WellFramed
  <1>1. Append(q, b) \in Seq(Byte) /\ Len(Append(q, b)) = Len(q) + 1
    OBVIOUS
  <1>2. EndsInItsOnlyLineFeed(Append(q, b))
    BY <1>1 DEF EndsInItsOnlyLineFeed
  <1> QED
    BY <1>1, <1>2, SessionAssumption DEF WellFramed

\* Every step keeps the framing.
LEMMA FramingStep == Framing /\ CountsOK /\ CallPhase /\ [AdapterNext]_vars => Framing'
  <1> SUFFICES ASSUME Framing, CountsOK, CallPhase, [AdapterNext]_vars PROVE Framing'
    OBVIOUS
  <1> USE SessionAssumption DEF Framing
  <1>1. CASE Connect
    BY <1>1 DEF Connect, SessionOpen, FramerReset, Forget, callVars, Idle
  <1>2. CASE ConnectFails
    BY <1>2 DEF ConnectFails, SessionOpenFails, FramerReset, Forget, callVars, Idle
  <1>3. CASE Disconnect
    BY <1>3 DEF Disconnect, SessionClose, FramerReset, Forget, callVars, Idle
  <1>4. CASE SafeShutdown
    BY <1>4 DEF SafeShutdown, sessionVars, framerVars, callVars, Idle
  <1>5. CASE ConfirmStatic
    BY <1>5 DEF ConfirmStatic, Confirm, sessionVars, framerVars, callVars, Idle
  <1>6. CASE Negotiate
    BY <1>6 DEF Negotiate, Begin, sessionVars, framerVars, adapterVars, Idle
  <1>7. ASSUME NEW ch \in Channel, Read(ch) PROVE Framing'
    BY <1>7 DEF Read, Begin, sessionVars, framerVars, adapterVars, Idle
  <1>8. ASSUME NEW ch \in Channel, ReadBuffered(ch) PROVE Framing'
    BY <1>8 DEF ReadBuffered, sessionVars, framerVars, callVars, Idle
  <1>9. CASE Poll
    BY <1>9 DEF Poll, Polling, Budget, ChunkRead, framerVars, adapterVars, Idle
  <1>10. ASSUME NEW v \in Payload \cup {LF}, Feed(v) PROVE Framing'
    <2> DEFINE b == Stamped(v)
    <2>1. b \in Byte /\ b.value = v
      BY <1>10, StampedType DEF Feed, FeedByte, ByteOf
    <2>2. Framed(b)
      BY <1>10 DEF Feed, FeedByte
    <2> HIDE DEF b
    <2>3. CASE discarding
      BY <2>1, <2>2, <2>3 DEF Framed
    <2>4. CASE ~discarding /\ Len(buffer) >= MaxRecord
      BY <2>1, <2>2, <2>4, SessionAssumption DEF Framed
    <2>5. CASE ~discarding /\ Len(buffer) < MaxRecord /\ b.value = LF
      <3>1. Append(buffer, b) \in WellFramed
        BY <2>1, <2>5, CompletedRecord
      <3>2. records' = Append(records, Append(buffer, b)) /\ buffer' = <<>>
            /\ discarding' = discarding
        BY <2>2, <2>5, SessionAssumption DEF Framed
      <3> QED
        BY <3>1, <3>2, SessionAssumption
    <2>6. CASE ~discarding /\ Len(buffer) < MaxRecord /\ b.value # LF
      <3>1. /\ buffer' = Append(buffer, b)
            /\ discarding' = discarding
            /\ records' = records
        BY <2>2, <2>6, SessionAssumption DEF Framed
      <3>2. \A i \in DOMAIN buffer' : buffer'[i].value # LF
        BY <2>1, <2>6, <3>1
      <3>3. buffer' \in Seq(Byte) /\ Len(buffer') <= MaxRecord
        BY <2>1, <2>6, <3>1, SessionAssumption
      <3> QED
        BY <2>6, <3>1, <3>2, <3>3
    <2> QED
      BY <2>3, <2>4, <2>5, <2>6, SessionAssumption
  <1>11. CASE Fed
    BY <1>11 DEF Fed, ChunkEnd, framerVars, adapterVars
  <1>12. CASE PollReconnects
    BY <1>12 DEF PollReconnects, Reconnect, FramerReset, Forget, Return
  <1>13. CASE PollLosesSession
    <2>1. buffer' = <<>> /\ records' \in {<<>>, records}
      BY <1>13 DEF PollLosesSession, ReconnectExhausted, Abort, FramerReset
    <2>2. records' \in Seq(WellFramed)
      BY <2>1, EmptyRecords
    <2> QED
      BY <2>1, <2>2
  <1>14. CASE ProcessRecord
    <2>1. records' = <<>> \/ (records # <<>> /\ records' = Tail(records))
      BY <1>14 DEF ProcessRecord, RecordEvicted, Reject, DeviceHeader, Register,
                  CapabilitiesChanged, BufferMeasurements, BufferLimitExceeded, Processing,
                  Telemetry, Skip, Fail, Consume
    <2>2. buffer' = buffer /\ discarding' = discarding
      BY <1>14 DEF ProcessRecord, RecordEvicted, Reject, DeviceHeader, Register,
                  CapabilitiesChanged, BufferMeasurements, BufferLimitExceeded,
                  RestUnchanged, framerVars
    <2>3. records # <<>> => Tail(records) \in Seq(WellFramed)
      OBVIOUS
    <2>4. records' \in Seq(WellFramed)
      BY <2>1, <2>3, EmptyRecords
    <2> QED
      BY <2>2, <2>4
  <1>15. CASE CapabilitiesArrive
    BY <1>15 DEF CapabilitiesArrive, Satisfied, Confirm, Return, sessionVars, framerVars, PollDone
  <1>16. CASE ReadingArrives
    BY <1>16 DEF ReadingArrives, Return, sessionVars, framerVars, PollDone
  <1>17. CASE PollAgain
    BY <1>17 DEF PollAgain, sessionVars, framerVars, adapterVars, PollDone
  <1>18. CASE GiveUp
    BY <1>18 DEF GiveUp, Return, sessionVars, framerVars, adapterVars, PollDone
  <1>19. CASE UNCHANGED vars
    BY <1>19 DEF vars, sessionVars, framerVars, adapterVars, callVars
  <1> QED
    BY <1>1, <1>2, <1>3, <1>4, <1>5, <1>6, <1>7, <1>8, <1>9, <1>10,
       <1>11, <1>12, <1>13, <1>14, <1>15, <1>16, <1>17, <1>18, <1>19
       DEF AdapterNext, CallStep

\* The framing invariant is what the run checks of complete records.
LEMMA FramingGives == Framing => RecordsAreWellFramed
  <1> SUFFICES ASSUME Framing, NEW k \in DOMAIN records
               PROVE  Len(records[k]) \in 1..MaxRecord /\ EndsInItsOnlyLineFeed(records[k])
    BY DEF Framing, RecordsAreWellFramed
  <1>1. records[k] \in WellFramed
    BY DEF Framing
  <1> QED
    BY <1>1 DEF WellFramed

(***************************************************************************)
(* The provenance invariant: what is held of the device's output comes     *)
(* from the open connection, and the measurement buffer keeps its limit.   *)
(***************************************************************************)
Provenance ==
    /\ buffer \in Seq(ByteOf(epoch))
    /\ records \in Seq(Seq(ByteOf(epoch)))
    /\ measurements \in Seq(MeasurementOf(epoch))
    /\ Len(measurements) <= MaxBuffered
    /\ delivered \in [Channel -> Measurement]

\* A connection that has delivered nothing yet.
LEMMA EmptyConnection ==
    ASSUME buffer' = <<>>, records' = <<>>, measurements' = <<>>, delivered' = delivered,
           Provenance
    PROVE  Provenance'
  BY AdapterAssumption DEF Provenance

\* A step that receives nothing and keeps the connection.
LEMMA NothingReceived ==
    ASSUME buffer' \in {<<>>, buffer}, records' \in {<<>>, records},
           measurements' \in {<<>>, measurements}, delivered' = delivered, epoch' = epoch,
           Provenance
    PROVE  Provenance'
  <1>1. buffer \in Seq(ByteOf(epoch)) /\ <<>> \in Seq(ByteOf(epoch))
    BY EmptySeq DEF Provenance
  <1>2. records \in Seq(Seq(ByteOf(epoch))) /\ <<>> \in Seq(Seq(ByteOf(epoch)))
    BY EmptySeq DEF Provenance
  <1>3. /\ measurements \in Seq(MeasurementOf(epoch)) /\ Len(measurements) <= MaxBuffered
        /\ <<>> \in Seq(MeasurementOf(epoch)) /\ Len(<<>>) <= MaxBuffered
    BY EmptySeq, AdapterAssumption DEF Provenance
  <1> QED
    BY <1>1, <1>2, <1>3 DEF Provenance

\* Initially nothing is held.
LEMMA ProvenanceInit == AdapterInit => Provenance
  <1> SUFFICES ASSUME AdapterInit PROVE Provenance
    OBVIOUS
  <1>1. delivered \in [Channel -> Measurement]
    BY SessionAssumption DEF AdapterInit, NoReading, Measurement
  <1> QED
    BY <1>1, AdapterAssumption DEF AdapterInit, SessionInit, Provenance

\* Taking a channel's first measurement out of the buffer keeps the others.
LEMMA DeliverKeeps ==
    ASSUME Provenance, NEW ch \in Channel, Deliver(ch)
    PROVE  /\ measurements' \in Seq(MeasurementOf(epoch))
           /\ Len(measurements') <= MaxBuffered
           /\ delivered' \in [Channel -> Measurement]
  <1>1. PICK i \in DOMAIN measurements :
            /\ delivered' = [delivered EXCEPT ![ch] = measurements[i]]
            /\ measurements' = Without(measurements, i)
    BY DEF Deliver
  <1>2. measurements \in Seq(MeasurementOf(epoch)) /\ Len(measurements) <= MaxBuffered
    BY DEF Provenance
  <1>3. measurements' \in Seq(MeasurementOf(epoch)) /\ Len(measurements') = Len(measurements) - 1
    BY <1>1, <1>2, WithoutType
  <1>4. measurements[i] \in Measurement
    BY <1>2 DEF MeasurementOf
  <1>5. delivered' \in [Channel -> Measurement]
    BY <1>1, <1>4 DEF Provenance
  <1>6. Len(measurements') <= MaxBuffered
    BY <1>2, <1>3, AdapterAssumption
  <1> QED
    BY <1>3, <1>5, <1>6

\* The readings of a telemetry record belong to the connection of its payload.
LEMMA ReadingsType ==
    ASSUME NEW b \in ByteOf(epoch)
    PROVE  Readings(b) \in Seq(MeasurementOf(epoch)) /\ Len(Readings(b)) = Len(Channels)
  <1>1. Channels \in Seq(Channel) /\ DOMAIN Channels = 1..Len(Channels) /\ Len(Channels) \in Nat
    BY AdapterAssumption
  <1>2. ASSUME NEW i \in DOMAIN Channels
        PROVE  [channel |-> Channels[i], epoch |-> b.epoch, number |-> b.number]
                    \in MeasurementOf(epoch)
    BY <1>1, <1>2 DEF ByteOf, Byte, MeasurementOf, Measurement
  <1>3. Readings(b) \in [1..Len(Channels) -> MeasurementOf(epoch)]
    BY <1>1, <1>2 DEF Readings
  <1> QED
    BY <1>1, <1>3

\* Every step keeps the provenance of what is held.
LEMMA ProvenanceStep == Provenance /\ CountsOK /\ CallPhase /\ [AdapterNext]_vars => Provenance'
  <1> SUFFICES ASSUME Provenance, CountsOK, CallPhase, [AdapterNext]_vars PROVE Provenance'
    OBVIOUS
  <1>1. CASE Connect
    <2>1. /\ buffer' = <<>> /\ records' = <<>> /\ measurements' = <<>>
          /\ delivered' = delivered
      BY <1>1 DEF Connect, SessionOpen, FramerReset, Forget, callVars, Idle, CallPhase
    <2> QED
      BY <2>1, EmptyConnection
  <1>2. CASE ConnectFails
    <2>1. /\ buffer' \in {<<>>, buffer} /\ records' \in {<<>>, records}
          /\ measurements' \in {<<>>, measurements} /\ delivered' = delivered
          /\ epoch' = epoch
      BY <1>2 DEF ConnectFails, SessionOpenFails, FramerReset, Forget, callVars, Idle, adapterVars
    <2> QED
      BY <2>1, NothingReceived
  <1>3. CASE Disconnect
    <2>1. /\ buffer' \in {<<>>, buffer} /\ records' \in {<<>>, records}
          /\ measurements' \in {<<>>, measurements} /\ delivered' = delivered
          /\ epoch' = epoch
      BY <1>3 DEF Disconnect, SessionClose, FramerReset, Forget, callVars, Idle, adapterVars
    <2> QED
      BY <2>1, NothingReceived
  <1>4. CASE SafeShutdown
    <2>1. /\ buffer' \in {<<>>, buffer} /\ records' \in {<<>>, records}
          /\ measurements' \in {<<>>, measurements} /\ delivered' = delivered
          /\ epoch' = epoch
      BY <1>4 DEF SafeShutdown, sessionVars, framerVars, callVars, Idle, adapterVars
    <2> QED
      BY <2>1, NothingReceived
  <1>5. CASE ConfirmStatic
    <2>1. /\ buffer' \in {<<>>, buffer} /\ records' \in {<<>>, records}
          /\ measurements' \in {<<>>, measurements} /\ delivered' = delivered
          /\ epoch' = epoch
      BY <1>5 DEF ConfirmStatic, Confirm, sessionVars, framerVars, callVars, Idle, adapterVars
    <2> QED
      BY <2>1, NothingReceived
  <1>6. CASE Negotiate
    <2>1. /\ buffer' \in {<<>>, buffer} /\ records' \in {<<>>, records}
          /\ measurements' \in {<<>>, measurements} /\ delivered' = delivered
          /\ epoch' = epoch
      BY <1>6 DEF Negotiate, Begin, sessionVars, framerVars, adapterVars, Idle
    <2> QED
      BY <2>1, NothingReceived
  <1>7. ASSUME NEW ch \in Channel, Read(ch) PROVE Provenance'
    <2>1. /\ buffer' \in {<<>>, buffer} /\ records' \in {<<>>, records}
          /\ measurements' \in {<<>>, measurements} /\ delivered' = delivered
          /\ epoch' = epoch
      BY <1>7 DEF Read, Begin, sessionVars, framerVars, adapterVars, Idle
    <2> QED
      BY <2>1, NothingReceived
  <1>8. ASSUME NEW ch \in Channel, ReadBuffered(ch) PROVE Provenance'
    <2>1. /\ measurements' \in Seq(MeasurementOf(epoch)) /\ Len(measurements') <= MaxBuffered
          /\ delivered' \in [Channel -> Measurement]
      BY <1>8, DeliverKeeps DEF ReadBuffered
    <2>2. buffer' = buffer /\ records' = records /\ epoch' = epoch
      BY <1>8 DEF ReadBuffered, sessionVars, framerVars
    <2> QED
      BY <2>1, <2>2 DEF Provenance
  <1>9. CASE Poll
    <2>1. /\ buffer' \in {<<>>, buffer} /\ records' \in {<<>>, records}
          /\ measurements' \in {<<>>, measurements} /\ delivered' = delivered
          /\ epoch' = epoch
      BY <1>9 DEF Poll, Polling, Budget, ChunkRead, framerVars, adapterVars, Idle
    <2> QED
      BY <2>1, NothingReceived
  <1>10. ASSUME NEW v \in Payload \cup {LF}, Feed(v) PROVE Provenance'
    <2> DEFINE b == Stamped(v)
    <2>1. b \in ByteOf(epoch)
      BY <1>10, StampedType DEF Feed, FeedByte
    <2>2. Framed(b) /\ epoch' = epoch
      BY <1>10 DEF Feed, FeedByte
    <2>3. measurements' = measurements /\ delivered' = delivered
      BY <1>10 DEF Feed, adapterVars
    <2> HIDE DEF b
    <2>4. /\ buffer' \in {buffer, <<>>, Append(buffer, b)}
          /\ records' \in {records, Append(records, Append(buffer, b))}
      BY <2>2 DEF Framed
    <2>5. /\ buffer \in Seq(ByteOf(epoch)) /\ <<>> \in Seq(ByteOf(epoch))
          /\ Append(buffer, b) \in Seq(ByteOf(epoch))
      BY <2>1, EmptySeq, AppendProperties DEF Provenance
    <2>6. /\ records \in Seq(Seq(ByteOf(epoch)))
          /\ Append(records, Append(buffer, b)) \in Seq(Seq(ByteOf(epoch)))
      BY <2>5, AppendProperties DEF Provenance
    <2> QED
      BY <2>2, <2>3, <2>4, <2>5, <2>6 DEF Provenance
  <1>11. CASE Fed
    <2>1. /\ buffer' \in {<<>>, buffer} /\ records' \in {<<>>, records}
          /\ measurements' \in {<<>>, measurements} /\ delivered' = delivered
          /\ epoch' = epoch
      BY <1>11 DEF Fed, ChunkEnd, framerVars, adapterVars
    <2> QED
      BY <2>1, NothingReceived
  <1>12. CASE PollReconnects
    <2>1. /\ buffer' = <<>> /\ records' = <<>> /\ measurements' = <<>>
          /\ delivered' = delivered
      BY <1>12 DEF PollReconnects, Reconnect, FramerReset, Forget, Return, Polling, Idle, CallPhase
    <2> QED
      BY <2>1, EmptyConnection
  <1>13. CASE PollLosesSession
    <2>1. /\ buffer' \in {<<>>, buffer} /\ records' \in {<<>>, records}
          /\ measurements' \in {<<>>, measurements} /\ delivered' = delivered
          /\ epoch' = epoch
      BY <1>13 DEF PollLosesSession, ReconnectExhausted, Abort, FramerReset, Forget, Return, Polling, Idle, adapterVars
    <2> QED
      BY <2>1, NothingReceived
  <1>14. CASE ProcessRecord
    <2>1. buffer' = buffer /\ epoch' = epoch /\ delivered' = delivered
      BY <1>14 DEF ProcessRecord, RecordEvicted, Reject, DeviceHeader, Register,
                  CapabilitiesChanged, BufferMeasurements, BufferLimitExceeded,
                  RestUnchanged, framerVars
    <2>2. records' = <<>> \/ (records # <<>> /\ records' = Tail(records))
      BY <1>14 DEF ProcessRecord, RecordEvicted, Reject, DeviceHeader, Register,
                  CapabilitiesChanged, BufferMeasurements, BufferLimitExceeded, Processing,
                  Telemetry, Skip, Fail, Consume
    <2>3. records # <<>> => Tail(records) \in Seq(Seq(ByteOf(epoch)))
      BY HeadTailProperties DEF Provenance
    <2>4. records' \in Seq(Seq(ByteOf(epoch)))
      BY <2>2, <2>3, EmptySeq
    <2>5. CASE BufferMeasurements
      <3>1. Head(records) \in Seq(ByteOf(epoch)) /\ Len(Head(records)) = 2
        BY <2>5 DEF BufferMeasurements, Telemetry, Processing, Meaning, Current, Provenance
      <3>2. Head(records)[1] \in ByteOf(epoch)
        BY <3>1
      <3> DEFINE added == Readings(Head(records)[1])
      <3>3. added \in Seq(MeasurementOf(epoch)) /\ Len(added) = Len(Channels)
        BY <3>2, ReadingsType
      <3>4. measurements' = measurements \o added /\ Len(measurements) + Len(Channels) <= MaxBuffered
        BY <2>5 DEF BufferMeasurements, Current, Fits
      <3> HIDE DEF added
      <3>5. measurements \in Seq(MeasurementOf(epoch))
        BY DEF Provenance
      <3>6. /\ measurements' \in Seq(MeasurementOf(epoch))
            /\ Len(measurements') = Len(measurements) + Len(added)
        BY <3>3, <3>4, <3>5, ConcatProperties
      <3>7. Len(measurements') <= MaxBuffered
        BY <3>3, <3>4, <3>6
      <3> QED
        BY <2>1, <2>4, <3>6, <3>7 DEF Provenance
    <2>6. CASE ~BufferMeasurements
      <3>1. measurements' = measurements
        BY <1>14, <2>6 DEF ProcessRecord, RecordEvicted, Reject, DeviceHeader, Register,
                  CapabilitiesChanged, BufferLimitExceeded, Skip, Fail
      <3> QED
        BY <2>1, <2>4, <3>1 DEF Provenance
    <2> QED
      BY <2>5, <2>6
  <1>15. CASE CapabilitiesArrive
    <2>1. /\ buffer' \in {<<>>, buffer} /\ records' \in {<<>>, records}
          /\ measurements' \in {<<>>, measurements} /\ delivered' = delivered
          /\ epoch' = epoch
      BY <1>15 DEF CapabilitiesArrive, Satisfied, Confirm, Return, sessionVars, framerVars, PollDone, adapterVars
    <2> QED
      BY <2>1, NothingReceived
  <1>16. CASE ReadingArrives
    <2>1. /\ measurements' \in Seq(MeasurementOf(epoch)) /\ Len(measurements') <= MaxBuffered
          /\ delivered' \in [Channel -> Measurement]
      BY <1>16, DeliverKeeps DEF ReadingArrives
    <2>2. buffer' = buffer /\ records' = records /\ epoch' = epoch
      BY <1>16 DEF ReadingArrives, sessionVars, framerVars
    <2> QED
      BY <2>1, <2>2 DEF Provenance
  <1>17. CASE PollAgain
    <2>1. /\ buffer' \in {<<>>, buffer} /\ records' \in {<<>>, records}
          /\ measurements' \in {<<>>, measurements} /\ delivered' = delivered
          /\ epoch' = epoch
      BY <1>17 DEF PollAgain, sessionVars, framerVars, adapterVars, PollDone
    <2> QED
      BY <2>1, NothingReceived
  <1>18. CASE GiveUp
    <2>1. /\ buffer' \in {<<>>, buffer} /\ records' \in {<<>>, records}
          /\ measurements' \in {<<>>, measurements} /\ delivered' = delivered
          /\ epoch' = epoch
      BY <1>18 DEF GiveUp, Return, sessionVars, framerVars, adapterVars, PollDone
    <2> QED
      BY <2>1, NothingReceived
  <1>19. CASE UNCHANGED vars
    <2>1. /\ buffer' \in {<<>>, buffer} /\ records' \in {<<>>, records}
          /\ measurements' \in {<<>>, measurements} /\ delivered' = delivered
          /\ epoch' = epoch
      BY <1>19 DEF vars, sessionVars, framerVars, adapterVars, callVars
    <2> QED
      BY <2>1, NothingReceived
  <1> QED
    BY <1>1, <1>2, <1>3, <1>4, <1>5, <1>6, <1>7, <1>8, <1>9, <1>10,
       <1>11, <1>12, <1>13, <1>14, <1>15, <1>16, <1>17, <1>18, <1>19
       DEF AdapterNext, CallStep

(***************************************************************************)
(* The inductive invariant: the types, the phase of the call and the       *)
(* safety invariants themselves.                                           *)
(***************************************************************************)
AdapterInv ==
    /\ FlagsOK
    /\ NamesOK
    /\ CountsOK
    /\ CallPhase
    /\ ConnectionOwnsPort
    /\ ReadsAreConfirmed
    /\ Framing
    /\ Provenance

(***************************************************************************)
(* The inductive invariant of the serial adapter holds in every reachable  *)
(* state, whatever bytes the device sends and however they are cut.        *)
(***************************************************************************)
THEOREM AdapterInvariant == AdapterSpec => []AdapterInv
  <1>1. AdapterInit => AdapterInv
    BY ScalarsInit, CallPhaseInit, ConnectionInit, ConfirmedInit, FramingInit, ProvenanceInit
       DEF AdapterInv
  <1>2. AdapterInv /\ [AdapterNext]_vars => AdapterInv'
    BY FlagsStep, NamesStep, CountsStep, CallPhaseStep, ConnectionStep, ConfirmedStep,
       FramingStep, ProvenanceStep
       DEF AdapterInv
  <1> QED
    BY <1>1, <1>2, PTL DEF AdapterSpec

(***************************************************************************)
(* Type correctness: the adapter, its session and its framer stay within   *)
(* their types, and the two buffers within their configured limits.        *)
(***************************************************************************)
THEOREM AdapterTypeCorrect == AdapterSpec => []AdapterTypeOK
  <1>1. AdapterInv => AdapterTypeOK
    <2> SUFFICES ASSUME AdapterInv PROVE AdapterTypeOK
      OBVIOUS
    <2>1. FlagsOK /\ NamesOK /\ CountsOK
      BY DEF AdapterInv
    <2>2. buffer \in Seq(Byte) /\ Len(buffer) <= MaxRecord
      BY DEF AdapterInv, Framing
    <2>3. records \in Seq(Seq(Byte))
      <3>1. records \in Seq(WellFramed)
        BY DEF AdapterInv, Framing
      <3>2. WellFramed \subseteq Seq(Byte)
        BY DEF WellFramed
      <3> QED
        BY <3>1, <3>2
    <2>4. measurements \in Seq(Measurement)
      <3>1. measurements \in Seq(MeasurementOf(epoch))
        BY DEF AdapterInv, Provenance
      <3>2. MeasurementOf(epoch) \subseteq Measurement
        BY DEF MeasurementOf
      <3> QED
        BY <3>1, <3>2
    <2>5. Len(measurements) <= MaxBuffered /\ delivered \in [Channel -> Measurement]
      BY DEF AdapterInv, Provenance
    <2> QED
      BY <2>1, <2>2, <2>3, <2>4, <2>5 DEF AdapterTypeOK, FlagsOK, NamesOK, CountsOK
  <1> QED
    BY <1>1, AdapterInvariant, PTL

(***************************************************************************)
(* BoundedLineFramer never lets an overlong or unterminated record         *)
(* through, for every record limit and every way to cut the stream.        *)
(***************************************************************************)
THEOREM FramingCorrect == AdapterSpec => []RecordsAreWellFramed
  <1>1. AdapterInv => RecordsAreWellFramed
    BY FramingGives DEF AdapterInv
  <1> QED
    BY <1>1, AdapterInvariant, PTL

(***************************************************************************)
(* A disconnected adapter has released its session and the port, and a     *)
(* connected one holds both.                                               *)
(***************************************************************************)
THEOREM PortFollowsAdapter == AdapterSpec => []ConnectionOwnsPort
  <1>1. AdapterInv => ConnectionOwnsPort
    BY DEF AdapterInv
  <1> QED
    BY <1>1, AdapterInvariant, PTL

(***************************************************************************)
(* No byte, record or measurement of one connection survives into another. *)
(***************************************************************************)
THEOREM ConnectionsAreSeparate == AdapterSpec => []NothingCrossesConnections
  <1>1. AdapterInv => NothingCrossesConnections
    <2> SUFFICES ASSUME AdapterInv PROVE NothingCrossesConnections
      OBVIOUS
    <2>1. /\ buffer \in Seq(ByteOf(epoch))
          /\ records \in Seq(Seq(ByteOf(epoch)))
          /\ measurements \in Seq(MeasurementOf(epoch))
      BY DEF AdapterInv, Provenance
    <2>2. \A i \in DOMAIN buffer : buffer[i].epoch = epoch
      BY <2>1 DEF ByteOf
    <2>3. ASSUME NEW k \in DOMAIN records, NEW i \in DOMAIN records[k]
          PROVE  records[k][i].epoch = epoch
      <3>1. records[k] \in Seq(ByteOf(epoch))
        BY <2>1
      <3> QED
        BY <3>1 DEF ByteOf
    <2>4. \A i \in DOMAIN measurements : measurements[i].epoch = epoch
      BY <2>1 DEF MeasurementOf
    <2> QED
      BY <2>2, <2>3, <2>4 DEF NothingCrossesConnections
  <1> QED
    BY <1>1, AdapterInvariant, PTL

(***************************************************************************)
(* Reads happen only under capabilities that the open connection announced *)
(* and the caller confirmed.                                               *)
(***************************************************************************)
THEOREM OnlyConfirmedReads == AdapterSpec => []ReadsAreConfirmed
  <1>1. AdapterInv => ReadsAreConfirmed
    BY DEF AdapterInv
  <1> QED
    BY <1>1, AdapterInvariant, PTL

--------------------------------------------------------------------------------
(***************************************************************************)
(* The order of readings.  Telemetry carries the number under which it was *)
(* received.  A number is above all that was delivered or is buffered, and *)
(* numbers grow along the pipeline: delivered, buffered, in the records of *)
(* the poll, in the incomplete record, yet to be sent.  Of a record, only  *)
(* the first byte counts.                                                  *)
(***************************************************************************)
IsTelemetry(q) == q # <<>> /\ q[1].value = "telemetry"

Above(n) ==
    /\ \A i \in DOMAIN measurements : measurements[i].number < n
    /\ \A ch \in Channel : delivered[ch].number < n

OrderedBuffer ==
    /\ \A i, j \in DOMAIN measurements :
        i < j /\ measurements[i].channel = measurements[j].channel
            => measurements[i].number < measurements[j].number
    /\ \A i \in DOMAIN measurements :
        delivered[measurements[i].channel].number < measurements[i].number

OrderedRecords ==
    /\ \A k \in DOMAIN records : IsTelemetry(records[k]) => Above(records[k][1].number)
    /\ \A k, l \in DOMAIN records :
        k < l /\ IsTelemetry(records[k]) /\ IsTelemetry(records[l])
            => records[k][1].number < records[l][1].number

OrderedInput ==
    /\ IsTelemetry(buffer) => Above(buffer[1].number)
    /\ \A k \in DOMAIN records :
        IsTelemetry(records[k]) /\ IsTelemetry(buffer)
            => records[k][1].number < buffer[1].number

NothingBeyondSent ==
    /\ Above(sent + 1)
    /\ IsTelemetry(buffer) => buffer[1].number < sent + 1
    /\ \A k \in DOMAIN records : IsTelemetry(records[k]) => records[k][1].number < sent + 1

Ordering == OrderedBuffer /\ OrderedRecords /\ OrderedInput /\ NothingBeyondSent

\* The elements of Without(q, i), by position.
LEMMA WithoutElements ==
    ASSUME NEW S, NEW q \in Seq(S), NEW i \in DOMAIN q
    PROVE  /\ DOMAIN Without(q, i) = 1..(Len(q) - 1)
           /\ \A j \in DOMAIN Without(q, i) :
                Without(q, i)[j] = IF j < i THEN q[j] ELSE q[j + 1]
  <1> DEFINE before == SubSeq(q, 1, i - 1)
             after  == SubSeq(q, i + 1, Len(q))
  <1>1. i \in 1..Len(q) /\ Len(q) \in Nat
    OBVIOUS
  <1>2. /\ before \in Seq(S) /\ Len(before) = i - 1
        /\ \A j \in 1..(i - 1) : before[j] = q[j]
    <2>1. \A j \in 1..(i - 1) : q[j] \in S
      BY <1>1
    <2> QED
      BY <1>1, <2>1, SubSeqProperties
  <1>3. /\ after \in Seq(S) /\ Len(after) = Len(q) - i
        /\ \A j \in 1..(Len(q) - i) : after[j] = q[i + j]
    <2>1. \A j \in (i + 1)..Len(q) : q[j] \in S
      BY <1>1
    <2> QED
      BY <1>1, <2>1, SubSeqProperties
  <1>4. Without(q, i) = before \o after
    BY DEF Without
  <1> HIDE DEF before, after
  <1> DEFINE joined == before \o after
  <1>5. /\ joined \in Seq(S)
        /\ Len(joined) = Len(q) - 1
        /\ \A j \in 1..(Len(q) - 1) :
            joined[j] = IF j <= i - 1 THEN before[j] ELSE after[j - (i - 1)]
    <2>1. /\ joined \in Seq(S)
          /\ Len(joined) = Len(before) + Len(after)
          /\ \A j \in 1..(Len(before) + Len(after)) :
                joined[j] = IF j <= Len(before) THEN before[j] ELSE after[j - Len(before)]
      BY <1>2, <1>3, ConcatProperties
    <2>2. Len(before) + Len(after) = Len(q) - 1
      BY <1>1, <1>2, <1>3
    <2> HIDE DEF joined
    <2> QED
      BY <1>2, <2>1, <2>2
  <1>6. Without(q, i) = joined
    BY <1>4
  <1> HIDE DEF joined
  <1>7. ASSUME NEW j \in 1..(Len(q) - 1), j < i
        PROVE  joined[j] = q[j]
    <2>1. j <= i - 1 /\ j \in 1..(i - 1)
      BY <1>1, <1>7
    <2>2. joined[j] = before[j]
      BY <1>5, <2>1
    <2> QED
      BY <1>2, <2>1, <2>2
  <1>8. ASSUME NEW j \in 1..(Len(q) - 1), ~(j < i)
        PROVE  joined[j] = q[j + 1]
    <2>1. ~(j <= i - 1) /\ j - (i - 1) \in 1..(Len(q) - i) /\ i + (j - (i - 1)) = j + 1
      BY <1>1, <1>8
    <2>2. joined[j] = after[j - (i - 1)]
      BY <1>5, <2>1
    <2>3. after[j - (i - 1)] = q[i + (j - (i - 1))]
      BY <1>3, <2>1
    <2> QED
      BY <2>1, <2>2, <2>3
  <1>9. DOMAIN joined = 1..(Len(q) - 1)
    BY <1>5
  <1> QED
    BY <1>6, <1>7, <1>8, <1>9

\* The numbers that are compared are integers.
LEMMA NumbersAreIntegers ==
    ASSUME Provenance, CountsOK
    PROVE  /\ \A i \in DOMAIN measurements :
                measurements[i].number \in Int /\ measurements[i].channel \in Channel
           /\ \A ch \in Channel : delivered[ch].number \in Int
           /\ \A k \in DOMAIN records :
                records[k] # <<>> => records[k][1].number \in Int
           /\ buffer # <<>> => buffer[1].number \in Int
           /\ sent \in Int
  <1>1. ASSUME NEW i \in DOMAIN measurements
        PROVE  measurements[i].number \in Int /\ measurements[i].channel \in Channel
    <2>1. measurements[i] \in MeasurementOf(epoch)
      BY DEF Provenance
    <2> QED
      BY <2>1, SessionAssumption DEF MeasurementOf, Measurement
  <1>2. ASSUME NEW ch \in Channel PROVE delivered[ch].number \in Int
    BY SessionAssumption DEF Provenance, Measurement
  <1>3. ASSUME NEW k \in DOMAIN records, records[k] # <<>>
        PROVE  records[k][1].number \in Int
    <2>1. records[k] \in Seq(ByteOf(epoch))
      BY DEF Provenance
    <2>2. records[k][1] \in ByteOf(epoch)
      BY <1>3, <2>1
    <2> QED
      BY <2>2, SessionAssumption DEF ByteOf, Byte
  <1>4. ASSUME buffer # <<>> PROVE buffer[1].number \in Int
    <2>1. buffer[1] \in ByteOf(epoch)
      BY <1>4 DEF Provenance
    <2> QED
      BY <2>1, SessionAssumption DEF ByteOf, Byte
  <1>5. sent \in Int
    BY SessionAssumption DEF CountsOK
  <1> QED
    BY <1>1, <1>2, <1>3, <1>4, <1>5

\* Initially nothing was delivered.
LEMMA OrderingInit == AdapterInit => Ordering
  <1> SUFFICES ASSUME AdapterInit PROVE Ordering
    OBVIOUS
  <1>1. /\ measurements = <<>> /\ buffer = <<>> /\ records = <<>> /\ sent = 0
        /\ \A ch \in Channel : delivered[ch].number = 0
    BY DEF AdapterInit, SessionInit, NoReading
  <1> QED
    BY <1>1 DEF Ordering, OrderedBuffer, OrderedRecords, OrderedInput, NothingBeyondSent,
                Above, IsTelemetry

\* A step that only discards keeps the order.
LEMMA OrderingDiscard ==
    ASSUME Ordering, buffer' = <<>> \/ buffer' = buffer, records' = <<>> \/ records' = records,
           measurements' = <<>> \/ measurements' = measurements,
           delivered' = delivered, sent' = sent
    PROVE  Ordering'
  BY DEF Ordering, OrderedBuffer, OrderedRecords, OrderedInput, NothingBeyondSent,
         Above, IsTelemetry

\* Returning a channel's first measurement keeps the order.
LEMMA OrderingDeliver ==
    ASSUME Ordering, Provenance, CountsOK, NEW ch \in Channel, Deliver(ch),
           buffer' = buffer, records' = records, sent' = sent
    PROVE  /\ Ordering'
           /\ \A c \in Channel : delivered'[c] # delivered[c] =>
                /\ delivered'[c].channel = c
                /\ delivered'[c].epoch = epoch
                /\ delivered'[c].number > delivered[c].number
  <1>1. PICK i \in DOMAIN measurements :
            /\ First(ch, i)
            /\ delivered' = [delivered EXCEPT ![ch] = measurements[i]]
            /\ measurements' = Without(measurements, i)
    BY DEF Deliver
  <1>2. measurements \in Seq(MeasurementOf(epoch)) /\ delivered \in [Channel -> Measurement]
    BY DEF Provenance
  <1>3. /\ measurements[i].channel = ch
        /\ \A j \in DOMAIN measurements : measurements[j].channel = ch => i <= j
    BY <1>1 DEF First, Buffered
  <1>4. /\ delivered'[ch] = measurements[i]
        /\ \A c \in Channel : c # ch => delivered'[c] = delivered[c]
    BY <1>1, <1>2
  <1>5. i \in 1..Len(measurements) /\ DOMAIN measurements = 1..Len(measurements)
        /\ Len(measurements) \in Nat
    BY <1>2
  <1>6. /\ DOMAIN measurements' = 1..(Len(measurements) - 1)
        /\ \A j \in DOMAIN measurements' :
            measurements'[j] = IF j < i THEN measurements[j] ELSE measurements[j + 1]
    BY <1>1, <1>2, WithoutElements
  <1>7. ASSUME NEW j \in DOMAIN measurements'
        PROVE  \E k \in DOMAIN measurements : k # i /\ measurements'[j] = measurements[k]
    BY <1>5, <1>6
  <1>8. OrderedBuffer'
    <2>1. ASSUME NEW j \in DOMAIN measurements', NEW l \in DOMAIN measurements', j < l,
                 measurements'[j].channel = measurements'[l].channel
          PROVE  measurements'[j].number < measurements'[l].number
      <3>1. PICK jj \in DOMAIN measurements, ll \in DOMAIN measurements :
                /\ jj < ll
                /\ measurements'[j] = measurements[jj]
                /\ measurements'[l] = measurements[ll]
        BY <1>5, <1>6, <2>1
      <3> QED
        BY <2>1, <3>1 DEF Ordering, OrderedBuffer
    <2>2. ASSUME NEW j \in DOMAIN measurements'
          PROVE  delivered'[measurements'[j].channel].number < measurements'[j].number
      <3>1. PICK k \in DOMAIN measurements : k # i /\ measurements'[j] = measurements[k]
        BY <1>7
      <3>2. CASE measurements[k].channel = ch
        <4>1. i < k
          BY <1>3, <1>5, <3>1, <3>2
        <4> QED
          BY <1>3, <1>4, <3>1, <3>2, <4>1 DEF Ordering, OrderedBuffer
      <3>3. CASE measurements[k].channel # ch
        BY <1>4, <3>1, <3>3, NumbersAreIntegers DEF Ordering, OrderedBuffer
      <3> QED
        BY <3>2, <3>3
    <2> QED
      BY <2>1, <2>2 DEF OrderedBuffer
  <1>9. ASSUME NEW n, Above(n) PROVE Above(n)'
    <2>1. \A j \in DOMAIN measurements' : measurements'[j].number < n
      BY <1>7, <1>9 DEF Above
    <2>2. \A c \in Channel : delivered'[c].number < n
      BY <1>4, <1>9 DEF Above
    <2> QED
      BY <2>1, <2>2 DEF Above
  <1>10. OrderedRecords' /\ OrderedInput' /\ NothingBeyondSent'
    <2>1. OrderedRecords'
      BY <1>9 DEF Ordering, OrderedRecords, IsTelemetry
    <2>2. OrderedInput'
      BY <1>9 DEF Ordering, OrderedInput, IsTelemetry
    <2>3. NothingBeyondSent'
      BY <1>9 DEF Ordering, NothingBeyondSent, IsTelemetry
    <2> QED
      BY <2>1, <2>2, <2>3
  <1>11. ASSUME NEW c \in Channel, delivered'[c] # delivered[c]
         PROVE  /\ delivered'[c].channel = c
                /\ delivered'[c].epoch = epoch
                /\ delivered'[c].number > delivered[c].number
    <2>1. c = ch
      BY <1>4, <1>11
    <2>2. measurements[i] \in MeasurementOf(epoch)
      BY <1>2
    <2>3. delivered[ch].number < measurements[i].number
      BY <1>3 DEF Ordering, OrderedBuffer
    <2>4. measurements[i].epoch = epoch
      BY <2>2 DEF MeasurementOf
    <2>5. delivered[ch].number \in Int /\ measurements[i].number \in Int
      BY NumbersAreIntegers
    <2> QED
      BY <1>3, <1>4, <2>1, <2>3, <2>4, <2>5
  <1> QED
    BY <1>8, <1>10, <1>11 DEF Ordering

\* The first byte of a sequence that a byte was appended to.
LEMMA AppendFirst ==
    ASSUME NEW S, NEW q \in Seq(S), NEW b \in S
    PROVE  /\ q # <<>> => Append(q, b)[1] = q[1]
           /\ q = <<>> => Append(q, b)[1] = b
           /\ Append(q, b) # <<>>
  BY AppendProperties, EmptySeq

\* A received byte keeps the order: its number is above all earlier ones.
LEMMA OrderingFeed ==
    ASSUME Ordering, Provenance, CountsOK, NEW v \in Payload \cup {LF}, Feed(v)
    PROVE  Ordering'
  <1> DEFINE b == Stamped(v)
  <1>1. /\ Framed(b)
        /\ measurements' = measurements /\ delivered' = delivered
        /\ b.value # "telemetry" => sent' = sent
        /\ b.value = "telemetry" => b.number = sent + 1 /\ sent' = sent + 1
    BY DEF Feed, FeedByte, adapterVars, Stamped, LF
  <1>2. b \in ByteOf(epoch)
    BY StampedType DEF Feed, FeedByte
  <1> HIDE DEF b
  <1>3. sent \in Int /\ sent' \in Int /\ sent <= sent'
    BY <1>1, NumbersAreIntegers
  <1>4. ASSUME NEW n PROVE Above(n)' <=> Above(n)
    BY <1>1 DEF Above
  <1>5. OrderedBuffer'
    BY <1>1 DEF Ordering, OrderedBuffer
  <1>6. Above(sent' + 1)
    BY <1>3, NumbersAreIntegers DEF Ordering, NothingBeyondSent, Above
  <1>7. buffer \in Seq(ByteOf(epoch)) /\ records \in Seq(Seq(ByteOf(epoch)))
    BY DEF Provenance
  <1> DEFINE r == Append(buffer, b)
  <1>8. \/ buffer' \in {buffer, <<>>} /\ records' = records
        \/ buffer' = r /\ records' = records
        \/ b.value = LF /\ buffer' = <<>> /\ records' = Append(records, r)
    BY <1>1 DEF Framed
  <1>9. /\ buffer # <<>> => r[1] = buffer[1]
        /\ buffer = <<>> => r[1] = b
        /\ r # <<>>
    BY <1>2, <1>7, AppendFirst
  <1>10. \A k \in DOMAIN records :
            IsTelemetry(records[k]) => records[k][1].number < sent' + 1
    BY <1>3, NumbersAreIntegers DEF Ordering, NothingBeyondSent, IsTelemetry
  <1>11. IsTelemetry(buffer) => buffer[1].number < sent' + 1
    BY <1>3, NumbersAreIntegers DEF Ordering, NothingBeyondSent, IsTelemetry
  <1> HIDE DEF r
  <1>12. CASE buffer' \in {buffer, <<>>} /\ records' = records
    <2>1. IsTelemetry(buffer') => buffer' = buffer
      BY <1>12 DEF IsTelemetry
    <2>2. OrderedRecords'
      BY <1>4, <1>12 DEF Ordering, OrderedRecords, IsTelemetry
    <2>3. OrderedInput'
      BY <1>4, <1>12, <2>1 DEF Ordering, OrderedInput, IsTelemetry
    <2>4. NothingBeyondSent'
      BY <1>4, <1>6, <1>10, <1>11, <1>12, <2>1 DEF NothingBeyondSent, IsTelemetry
    <2> QED
      BY <1>5, <2>2, <2>3, <2>4 DEF Ordering
  <1>13. CASE buffer' = r /\ records' = records
    <2>1. IsTelemetry(r) =>
            \/ IsTelemetry(buffer) /\ r[1] = buffer[1]
            \/ r[1].number = sent + 1 /\ sent' = sent + 1
      BY <1>1, <1>9 DEF IsTelemetry
    <2>2. IsTelemetry(r) => Above(r[1].number)
      BY <2>1 DEF Ordering, OrderedInput, NothingBeyondSent
    <2>3. \A k \in DOMAIN records :
            IsTelemetry(records[k]) /\ IsTelemetry(r) => records[k][1].number < r[1].number
      BY <2>1 DEF Ordering, OrderedInput, NothingBeyondSent
    <2>4. IsTelemetry(r) => r[1].number < sent' + 1
      BY <1>3, <1>11, <2>1
    <2>5. OrderedRecords'
      BY <1>4, <1>13 DEF Ordering, OrderedRecords, IsTelemetry
    <2>6. OrderedInput'
      BY <1>4, <1>13, <2>2, <2>3 DEF OrderedInput, IsTelemetry
    <2>7. NothingBeyondSent'
      BY <1>4, <1>6, <1>10, <1>13, <2>4 DEF NothingBeyondSent, IsTelemetry
    <2> QED
      BY <1>5, <2>5, <2>6, <2>7 DEF Ordering
  <1>14. CASE b.value = LF /\ buffer' = <<>> /\ records' = Append(records, r)
    <2>1. IsTelemetry(r) => IsTelemetry(buffer) /\ r[1] = buffer[1]
      BY <1>9, <1>14 DEF IsTelemetry, LF
    <2>2. r \in Seq(ByteOf(epoch))
      BY <1>2, <1>7, AppendProperties DEF r
    <2>3. /\ DOMAIN records' = 1..(Len(records) + 1) /\ DOMAIN records = 1..Len(records)
          /\ Len(records) \in Nat
          /\ \A k \in 1..Len(records) : records'[k] = records[k]
          /\ records'[Len(records) + 1] = r
      BY <1>7, <1>14, <2>2, AppendProperties
    <2>4. ASSUME NEW k \in DOMAIN records', IsTelemetry(records'[k])
          PROVE  Above(records'[k][1].number) /\ records'[k][1].number < sent' + 1
      <3>1. CASE k \in DOMAIN records
        BY <1>10, <2>3, <2>4, <3>1 DEF Ordering, OrderedRecords
      <3>2. CASE k = Len(records) + 1
        BY <1>11, <2>1, <2>3, <2>4, <3>2 DEF Ordering, OrderedInput
      <3> QED
        BY <2>3, <3>1, <3>2
    <2>5. ASSUME NEW k \in DOMAIN records', NEW l \in DOMAIN records', k < l,
                 IsTelemetry(records'[k]), IsTelemetry(records'[l])
          PROVE  records'[k][1].number < records'[l][1].number
      <3>1. k \in DOMAIN records /\ records'[k] = records[k]
        BY <2>3, <2>5
      <3>2. CASE l \in DOMAIN records
        BY <2>3, <2>5, <3>1, <3>2 DEF Ordering, OrderedRecords
      <3>3. CASE l = Len(records) + 1
        BY <2>1, <2>3, <2>5, <3>1, <3>3 DEF Ordering, OrderedInput
      <3> QED
        BY <2>3, <3>2, <3>3
    <2>6. OrderedRecords'
      BY <1>4, <2>4, <2>5 DEF OrderedRecords, IsTelemetry
    <2>7. OrderedInput'
      BY <1>14 DEF OrderedInput, IsTelemetry
    <2>8. NothingBeyondSent'
      BY <1>4, <1>6, <1>14, <2>4 DEF NothingBeyondSent, IsTelemetry
    <2> QED
      BY <1>5, <2>6, <2>7, <2>8 DEF Ordering
  <1> QED
    BY <1>8, <1>12, <1>13, <1>14

\* Consuming the first record of the poll keeps the order of the others.
LEMMA OrderingConsume ==
    ASSUME Ordering, Provenance, records # <<>>, records' = Tail(records)
    PROVE  \A k \in DOMAIN records' :
                /\ k + 1 \in DOMAIN records
                /\ records'[k] = records[k + 1]
                /\ 1 \in DOMAIN records /\ 1 < k + 1
  <1>1. records \in Seq(Seq(ByteOf(epoch)))
    BY DEF Provenance
  <1>2. /\ Tail(records) \in Seq(Seq(ByteOf(epoch)))
        /\ Len(Tail(records)) = Len(records) - 1
        /\ \A k \in 1..Len(Tail(records)) : Tail(records)[k] = records[k + 1]
    BY <1>1, HeadTailProperties
  <1> QED
    BY <1>1, <1>2

\* A record that adds no reading keeps the order.
LEMMA OrderingSkip ==
    ASSUME Ordering, Provenance, records' = <<>> \/ (records # <<>> /\ records' = Tail(records)),
           buffer' = buffer, measurements' = measurements, delivered' = delivered, sent' = sent
    PROVE  Ordering'
  <1>1. CASE records' = <<>>
    BY <1>1, OrderingDiscard
  <1>2. CASE records # <<>> /\ records' = Tail(records)
    <2>1. \A k \in DOMAIN records' :
            k + 1 \in DOMAIN records /\ records'[k] = records[k + 1] /\ k \in Int
      <3>1. records \in Seq(Seq(ByteOf(epoch)))
        BY DEF Provenance
      <3>2. Tail(records) \in Seq(Seq(ByteOf(epoch)))
        BY <1>2, <3>1, HeadTailProperties
      <3> QED
        BY <1>2, <3>2, OrderingConsume
    <2>2. ASSUME NEW n PROVE Above(n)' <=> Above(n)
      BY DEF Above
    <2>3. OrderedBuffer'
      BY DEF Ordering, OrderedBuffer
    <2>4. OrderedRecords'
      BY <2>1, <2>2 DEF Ordering, OrderedRecords, IsTelemetry
    <2>5. OrderedInput'
      BY <2>1, <2>2 DEF Ordering, OrderedInput, IsTelemetry
    <2>6. NothingBeyondSent'
      BY <2>1, <2>2 DEF Ordering, NothingBeyondSent, IsTelemetry
    <2> QED
      BY <2>3, <2>4, <2>5, <2>6 DEF Ordering
  <1> QED
    BY <1>1, <1>2

\* A telemetry record joins the buffer: its number is above all that is
\* buffered or delivered, and below the other records' numbers.
LEMMA OrderingBuffer ==
    ASSUME Ordering, Provenance, CountsOK, BufferMeasurements
    PROVE  Ordering'
  <1> DEFINE h == records[1]
             n == h[1].number
             added == Readings(h[1])
  <1>1. /\ buffer' = buffer /\ delivered' = delivered /\ sent' = sent /\ epoch' = epoch
        /\ records # <<>> /\ records' = Tail(records)
        /\ measurements' = measurements \o Readings(Head(records)[1])
        /\ Len(Head(records)) = 2 /\ Head(records)[1].value = "telemetry"
    BY DEF BufferMeasurements, Telemetry, Processing, Meaning, Current, Consume,
           RestUnchanged, framerVars
  <1>2. /\ records \in Seq(Seq(ByteOf(epoch))) /\ Head(records) = h
        /\ 1 \in DOMAIN records
    BY <1>1, HeadTailProperties DEF Provenance
  <1>3. /\ measurements \in Seq(MeasurementOf(epoch)) /\ DOMAIN measurements = 1..Len(measurements)
        /\ Len(measurements) \in Nat
    BY DEF Provenance
  <1>4. h \in Seq(ByteOf(epoch)) /\ h[1] \in ByteOf(epoch) /\ IsTelemetry(h)
    BY <1>1, <1>2 DEF IsTelemetry
  <1>5. n \in Int
    BY <1>2, <1>4, NumbersAreIntegers DEF IsTelemetry
  <1>6. Above(n)
    BY <1>2, <1>4 DEF Ordering, OrderedRecords
  <1>7. /\ added \in Seq(MeasurementOf(epoch)) /\ Len(added) = Len(Channels)
        /\ Len(Channels) \in Nat /\ DOMAIN Channels = 1..Len(Channels)
    BY <1>4, ReadingsType, AdapterAssumption
  <1>8. \A i \in 1..Len(Channels) :
            /\ added[i].number = n
            /\ added[i].channel = Channels[i]
            /\ added[i].channel \in Channel
    BY <1>7 DEF Readings, Channel
  <1>9. measurements' = measurements \o added
    BY <1>1, <1>2
  <1> HIDE DEF added
  <1>10. /\ DOMAIN measurements' = 1..(Len(measurements) + Len(Channels))
         /\ \A i \in 1..(Len(measurements) + Len(Channels)) :
              measurements'[i] = IF i <= Len(measurements) THEN measurements[i]
                                 ELSE added[i - Len(measurements)]
    <2> DEFINE joined == measurements \o added
    <2>1. /\ joined \in Seq(MeasurementOf(epoch))
          /\ Len(joined) = Len(measurements) + Len(added)
          /\ \A i \in 1..(Len(measurements) + Len(added)) :
                joined[i] = IF i <= Len(measurements) THEN measurements[i]
                            ELSE added[i - Len(measurements)]
      BY <1>3, <1>7, ConcatProperties
    <2>2. measurements' = joined
      BY <1>9
    <2> HIDE DEF joined
    <2>3. Len(joined) = Len(measurements) + Len(Channels)
          /\ DOMAIN joined = 1..(Len(measurements) + Len(Channels))
      BY <1>7, <2>1
    <2>4. \A i \in 1..(Len(measurements) + Len(Channels)) :
                joined[i] = IF i <= Len(measurements) THEN measurements[i]
                            ELSE added[i - Len(measurements)]
      BY <1>7, <2>1
    <2> QED
      BY <2>2, <2>3, <2>4
  <1>11. \A k \in DOMAIN records' :
            k + 1 \in DOMAIN records /\ records'[k] = records[k + 1] /\ k \in Int /\ 1 < k + 1
    <2>1. Tail(records) \in Seq(Seq(ByteOf(epoch)))
      BY <1>1, <1>2, HeadTailProperties
    <2> QED
      BY <1>1, <2>1, OrderingConsume
  <1>12. \A k \in DOMAIN records' : IsTelemetry(records'[k]) => n < records'[k][1].number
    BY <1>2, <1>4, <1>11 DEF Ordering, OrderedRecords
  <1> HIDE DEF n
  \* an element of the new buffer is an old one, below n, or a new one, which is n
  <1>13. ASSUME NEW i \in DOMAIN measurements'
         PROVE  \/ /\ i \in DOMAIN measurements
                   /\ measurements'[i] = measurements[i]
                   /\ measurements'[i].number < n
                \/ /\ i - Len(measurements) \in 1..Len(Channels)
                   /\ i > Len(measurements)
                   /\ measurements'[i].number = n
                   /\ measurements'[i].channel = Channels[i - Len(measurements)]
                   /\ measurements'[i].channel \in Channel
    <2>1. i \in Int
      BY <1>3, <1>7, <1>10
    <2>2. CASE i <= Len(measurements)
      <3>1. i \in DOMAIN measurements /\ measurements'[i] = measurements[i]
        BY <1>3, <1>7, <1>10, <2>1, <2>2
      <3> QED
        BY <1>6, <3>1 DEF Above
    <2>3. CASE i > Len(measurements)
      <3>1. i - Len(measurements) \in 1..Len(Channels)
        BY <1>3, <1>7, <1>10, <2>1, <2>3
      <3>2. measurements'[i] = added[i - Len(measurements)]
        BY <1>3, <1>7, <1>10, <2>1, <2>3
      <3> QED
        BY <1>8, <2>3, <3>1, <3>2
    <2> QED
      BY <1>3, <2>1, <2>2, <2>3
  <1>14. \A c \in Channel : delivered'[c].number < n
    BY <1>1, <1>6 DEF Above
  <1>15. OrderedBuffer'
    <2>1. ASSUME NEW i \in DOMAIN measurements', NEW j \in DOMAIN measurements', i < j,
                 measurements'[i].channel = measurements'[j].channel
          PROVE  measurements'[i].number < measurements'[j].number
      <3>1. i \in Int /\ j \in Int
        BY <1>3, <1>7, <1>10
      <3>2. CASE j \in DOMAIN measurements /\ measurements'[j] = measurements[j]
        <4>1. i \in DOMAIN measurements /\ measurements'[i] = measurements[i]
          BY <1>3, <1>13, <2>1, <3>1, <3>2
        <4> QED
          BY <2>1, <3>2, <4>1 DEF Ordering, OrderedBuffer
      <3>3. CASE /\ j - Len(measurements) \in 1..Len(Channels)
                 /\ measurements'[j].number = n
                 /\ measurements'[j].channel = Channels[j - Len(measurements)]
        <4>1. ~ (/\ i - Len(measurements) \in 1..Len(Channels)
                 /\ measurements'[i].channel = Channels[i - Len(measurements)])
          <5>1. i - Len(measurements) # j - Len(measurements)
            BY <1>3, <2>1, <3>1
          <5> QED
            BY <1>7, <2>1, <3>3, <5>1, AdapterAssumption
        <4> QED
          BY <1>13, <3>3, <4>1
      <3> QED
        BY <1>13, <3>2, <3>3
    <2>2. ASSUME NEW i \in DOMAIN measurements'
          PROVE  delivered'[measurements'[i].channel].number < measurements'[i].number
      <3>1. CASE i \in DOMAIN measurements /\ measurements'[i] = measurements[i]
        BY <1>1, <3>1 DEF Ordering, OrderedBuffer
      <3>2. CASE measurements'[i].number = n /\ measurements'[i].channel \in Channel
        BY <1>14, <3>2
      <3> QED
        BY <1>13, <3>1, <3>2
    <2> QED
      BY <2>1, <2>2 DEF OrderedBuffer
  <1>16. ASSUME NEW m \in Int, Above(m), n < m
         PROVE  /\ \A i \in DOMAIN measurements' : measurements'[i].number < m
                /\ \A c \in Channel : delivered'[c].number < m
    <2>1. ASSUME NEW i \in DOMAIN measurements' PROVE measurements'[i].number < m
      <3>1. CASE i \in DOMAIN measurements /\ measurements'[i] = measurements[i]
        BY <1>16, <3>1 DEF Above
      <3>2. CASE measurements'[i].number = n
        BY <1>16, <3>2
      <3> QED
        BY <1>13, <3>1, <3>2
    <2> QED
      BY <1>1, <1>16, <2>1 DEF Above
  \* the records that remain are above what is buffered now
  <1>17. ASSUME NEW k \in DOMAIN records, k > 1, IsTelemetry(records[k])
         PROVE  /\ \A i \in DOMAIN measurements' : measurements'[i].number < records[k][1].number
                /\ \A c \in Channel : delivered'[c].number < records[k][1].number
    <2>1. records[k][1].number \in Int
      BY <1>17, NumbersAreIntegers DEF IsTelemetry
    <2>2. Above(records[k][1].number)
      BY <1>17 DEF Ordering, OrderedRecords
    <2>3. n < records[k][1].number
      <3>1. 1 < k
        BY <1>2, <1>17
      <3> QED
        BY <1>2, <1>4, <1>17, <3>1 DEF Ordering, OrderedRecords, n
    <2> QED
      BY <1>16, <2>1, <2>2, <2>3
  <1>18. OrderedRecords'
    <2>1. ASSUME NEW k \in DOMAIN records', IsTelemetry(records'[k])
          PROVE  Above(records[k][1].number)'
      <3>1. /\ k + 1 \in DOMAIN records /\ records'[k] = records[k + 1] /\ k + 1 > 1
        BY <1>11
      <3> QED
        BY <1>17, <2>1, <3>1 DEF Above
    <2>2. ASSUME NEW k \in DOMAIN records', NEW l \in DOMAIN records', k < l,
                 IsTelemetry(records'[k]), IsTelemetry(records'[l])
          PROVE  records'[k][1].number < records'[l][1].number
      <3>1. /\ k + 1 \in DOMAIN records /\ l + 1 \in DOMAIN records /\ k + 1 < l + 1
            /\ records'[k] = records[k + 1] /\ records'[l] = records[l + 1]
        BY <1>11, <2>2
      <3> QED
        BY <2>2, <3>1 DEF Ordering, OrderedRecords
    <2> QED
      BY <2>1, <2>2 DEF OrderedRecords, IsTelemetry
  <1>19. ASSUME IsTelemetry(buffer)
         PROVE  /\ Above(buffer[1].number)'
                /\ \A k \in DOMAIN records' :
                     IsTelemetry(records'[k]) => records'[k][1].number < buffer[1].number
    <2>1. buffer[1].number \in Int /\ Above(buffer[1].number) /\ n < buffer[1].number
      BY <1>2, <1>4, <1>19, NumbersAreIntegers DEF Ordering, OrderedInput, IsTelemetry, n
    <2>2. Above(buffer[1].number)'
      BY <1>1, <1>16, <2>1 DEF Above
    <2> QED
      BY <1>11, <1>19, <2>2 DEF Ordering, OrderedInput
  <1>20. OrderedInput'
    BY <1>1, <1>19 DEF OrderedInput, IsTelemetry
  <1>21. NothingBeyondSent'
    <2>1. sent + 1 \in Int /\ Above(sent + 1) /\ n < sent + 1
      BY <1>2, <1>4, NumbersAreIntegers DEF Ordering, NothingBeyondSent, n
    <2>2. Above(sent + 1)'
      BY <1>1, <1>16, <2>1 DEF Above
    <2>3. \A k \in DOMAIN records' :
            IsTelemetry(records'[k]) => records'[k][1].number < sent + 1
      BY <1>11 DEF Ordering, NothingBeyondSent
    <2>4. IsTelemetry(buffer) => buffer[1].number < sent + 1
      BY DEF Ordering, NothingBeyondSent
    <2> QED
      BY <1>1, <2>2, <2>3, <2>4 DEF NothingBeyondSent, IsTelemetry
  <1> QED
    BY <1>15, <1>18, <1>20, <1>21 DEF Ordering

\* Every step keeps the order.
LEMMA OrderingStep ==
    Ordering /\ Provenance /\ CountsOK /\ CallPhase /\ [AdapterNext]_vars => Ordering'
  <1> SUFFICES ASSUME Ordering, Provenance, CountsOK, CallPhase, [AdapterNext]_vars
               PROVE  Ordering'
    OBVIOUS
  <1>1. CASE Connect
    BY <1>1, OrderingDiscard DEF Connect, SessionOpen, FramerReset, Forget, callVars
  <1>2. CASE ConnectFails
    BY <1>2, OrderingDiscard DEF ConnectFails, SessionOpenFails, FramerReset, Forget, callVars
  <1>3. CASE Disconnect
    BY <1>3, OrderingDiscard DEF Disconnect, SessionClose, FramerReset, Forget, callVars
  <1>4. CASE SafeShutdown
    BY <1>4, OrderingDiscard DEF SafeShutdown, sessionVars, framerVars, callVars
  <1>5. CASE ConfirmStatic
    BY <1>5, OrderingDiscard DEF ConfirmStatic, Confirm, sessionVars, framerVars, callVars
  <1>6. CASE Negotiate
    BY <1>6, OrderingDiscard DEF Negotiate, Begin, sessionVars, framerVars, adapterVars
  <1>7. ASSUME NEW ch \in Channel, Read(ch) PROVE Ordering'
    BY <1>7, OrderingDiscard DEF Read, sessionVars, framerVars, adapterVars
  <1>8. ASSUME NEW ch \in Channel, ReadBuffered(ch) PROVE Ordering'
    BY <1>8, OrderingDeliver DEF ReadBuffered, sessionVars, framerVars
  <1>9. CASE Poll
    BY <1>9, OrderingDiscard DEF Poll, Polling, Budget, ChunkRead, framerVars, adapterVars
  <1>10. ASSUME NEW v \in Payload \cup {LF}, Feed(v) PROVE Ordering'
    BY <1>10, OrderingFeed
  <1>11. CASE Fed
    BY <1>11, OrderingDiscard DEF Fed, ChunkEnd, framerVars, adapterVars
  <1>12. CASE PollReconnects
    BY <1>12, OrderingDiscard DEF PollReconnects, Reconnect, FramerReset, Forget, Return
  <1>13. CASE PollLosesSession
    BY <1>13, OrderingDiscard DEF PollLosesSession, ReconnectExhausted, Abort, FramerReset, Forget, Return
  <1>14. CASE ProcessRecord
    <2>1. CASE BufferMeasurements
      BY <2>1, OrderingBuffer
    <2>2. CASE ~BufferMeasurements
      <3>1. /\ buffer' = buffer /\ measurements' = measurements /\ delivered' = delivered
            /\ sent' = sent
            /\ records' = <<>> \/ (records # <<>> /\ records' = Tail(records))
        BY <1>14, <2>2
           DEF ProcessRecord, RecordEvicted, Reject, DeviceHeader, Register,
               CapabilitiesChanged, BufferLimitExceeded, Processing, Telemetry,
               Skip, Fail, Consume, RestUnchanged, framerVars
      <3> QED
        BY <3>1, OrderingSkip
    <2> QED
      BY <2>1, <2>2
  <1>15. CASE CapabilitiesArrive
    BY <1>15, OrderingDiscard DEF CapabilitiesArrive, Satisfied, Confirm, Return, sessionVars, framerVars
  <1>16. CASE ReadingArrives
    BY <1>16, OrderingDeliver DEF ReadingArrives, sessionVars, framerVars
  <1>17. CASE PollAgain
    BY <1>17, OrderingDiscard DEF PollAgain, sessionVars, framerVars, adapterVars
  <1>18. CASE GiveUp
    BY <1>18, OrderingDiscard DEF GiveUp, Return, sessionVars, framerVars, adapterVars
  <1>19. CASE UNCHANGED vars
    BY <1>19, OrderingDiscard DEF vars, sessionVars, framerVars, adapterVars, callVars
  <1> QED
    BY <1>1, <1>2, <1>3, <1>4, <1>5, <1>6, <1>7, <1>8, <1>9, <1>10,
       <1>11, <1>12, <1>13, <1>14, <1>15, <1>16, <1>17, <1>18, <1>19
       DEF AdapterNext, CallStep

(***************************************************************************)
(* A channel returns its readings in the order of their reception, each    *)
(* once and only from the open connection, however reads of different      *)
(* channels alternate and however deep the buffer is: the rotation in      *)
(* _take_buffered disturbs no other channel.                               *)
(***************************************************************************)
THEOREM ReadingsComeInOrder == AdapterSpec => ReadingsAreFresh
  <1>1. AdapterInit => Ordering
    BY OrderingInit
  <1>2. AdapterInv => Provenance /\ CountsOK /\ CallPhase
    BY DEF AdapterInv
  <1>3. Ordering /\ AdapterInv /\ [AdapterNext]_vars => Ordering'
    BY <1>2, OrderingStep
  <1> DEFINE Fresh == \A ch \in Channel : delivered'[ch] # delivered[ch] =>
                        /\ delivered'[ch].channel = ch
                        /\ delivered'[ch].epoch = epoch
                        /\ delivered'[ch].number > delivered[ch].number
  <1>4. Ordering /\ AdapterInv /\ [AdapterNext]_vars => [Fresh]_vars
    <2> SUFFICES ASSUME Ordering, AdapterInv, AdapterNext PROVE Fresh
      OBVIOUS
    <2>1. ASSUME NEW ch \in Channel, Deliver(ch), buffer' = buffer, records' = records,
                 sent' = sent
          PROVE  Fresh
      BY <1>2, <2>1, OrderingDeliver
    <2>2. ASSUME NEW ch \in Channel, ReadBuffered(ch) PROVE Fresh
      BY <2>1, <2>2 DEF ReadBuffered, sessionVars, framerVars
    <2>3. CASE ReadingArrives
      BY <2>1, <2>3 DEF ReadingArrives, sessionVars, framerVars
    <2>4. ASSUME delivered' = delivered PROVE Fresh
      BY <2>4
    <2>5. \/ delivered' = delivered
          \/ \E ch \in Channel : ReadBuffered(ch)
          \/ ReadingArrives
      BY DEF AdapterNext, CallStep, Connect, ConnectFails, Disconnect, SafeShutdown,
             ConfirmStatic, Negotiate, Read, Poll, Feed, Fed, PollReconnects,
             PollLosesSession, ProcessRecord, RecordEvicted, Reject, DeviceHeader, Register,
             CapabilitiesChanged, BufferMeasurements, BufferLimitExceeded, RestUnchanged,
             CapabilitiesArrive, PollAgain, GiveUp
    <2> QED
      BY <2>2, <2>3, <2>4, <2>5
  <1>5. AdapterSpec => [][Fresh]_vars
    <2> HIDE DEF Fresh
    <2> QED
      BY <1>1, <1>3, <1>4, AdapterInvariant, PTL DEF AdapterSpec
  <1> QED
    BY <1>5 DEF ReadingsAreFresh

(***************************************************************************)
(* The lifecycle                                                           *)
(***************************************************************************)

\* A negotiation is made for capabilities that are not confirmed yet.
NegotiationIsNeeded == call = "negotiate" => caps = "none"

\* Every step keeps that: only the end of the negotiation confirms any.
LEMMA NegotiationStep ==
    NegotiationIsNeeded /\ NamesOK /\ [AdapterNext]_vars => NegotiationIsNeeded'
  <1> SUFFICES ASSUME NegotiationIsNeeded, NamesOK, [AdapterNext]_vars
               PROVE  NegotiationIsNeeded'
    OBVIOUS
  <1> USE DEF NegotiationIsNeeded
  <1>1. CASE Connect \/ ConnectFails \/ Disconnect
    BY <1>1 DEF Connect, ConnectFails, Disconnect, Forget
  <1>2. CASE SafeShutdown
    BY <1>2 DEF SafeShutdown, callVars
  <1>3. CASE ConfirmStatic
    BY <1>3 DEF ConfirmStatic, Idle, callVars
  <1>4. CASE Negotiate
    BY <1>4 DEF Negotiate, adapterVars
  <1>5. ASSUME NEW ch \in Channel, Read(ch) \/ ReadBuffered(ch) PROVE NegotiationIsNeeded'
    BY <1>5, AdapterAssumption DEF Read, ReadBuffered, Begin, callVars, adapterVars
  <1>6. ASSUME NEW v \in Payload \cup {LF}, Feed(v) PROVE NegotiationIsNeeded'
    BY <1>6 DEF Feed, adapterVars, callVars
  <1>7. CASE Poll \/ Fed \/ PollAgain
    BY <1>7 DEF Poll, Fed, PollAgain, adapterVars
  <1>8. CASE PollReconnects \/ PollLosesSession
    BY <1>8 DEF PollReconnects, PollLosesSession, Forget
  <1>9. CASE ProcessRecord
    BY <1>9 DEF ProcessRecord, RecordEvicted, Reject, DeviceHeader, Register, CapabilitiesChanged,
                BufferMeasurements, BufferLimitExceeded, Skip, Fail, Return, callVars
  <1>10. CASE CapabilitiesArrive \/ ReadingArrives \/ GiveUp
    BY <1>10 DEF CapabilitiesArrive, ReadingArrives, GiveUp, Return
  <1>11. CASE UNCHANGED vars
    BY <1>11 DEF vars, adapterVars, callVars
  <1> QED
    BY <1>1, <1>2, <1>3, <1>4, <1>5, <1>6, <1>7, <1>8, <1>9, <1>10, <1>11
       DEF AdapterNext, CallStep

\* The variables of the lifecycle are functions of these three: a step that
\* leaves them alone is none of the lifecycle.
LEMMA LifecycleStutters ==
  ASSUME astate' = astate, caps' = caps, port' = port
  PROVE  UNCHANGED Lifecycle!adapterVars
BY DEF Lifecycle!adapterVars

\* Every step is a call of the lifecycle that returned or raised, a change of
\* the link, or nothing that the lifecycle sees.
LEMMA LifecycleStep ==
  ASSUME FlagsOK, NamesOK, ConnectionOwnsPort, CallPhase, ReadsAreConfirmed, NegotiationIsNeeded,
         [AdapterNext]_vars
  PROVE  [Lifecycle!LifecycleNext]_(Lifecycle!adapterVars)
  <1> DEFINE snapshot(c) == [device |-> c = "caps1", profile |-> TRUE, plan |-> TRUE,
                             config |-> TRUE, shutdown |-> FALSE]
  <1> USE DEF ConnectionOwnsPort
  <1>a. ASSUME astate # "DISCONNECTED", caps = "none", caps' \in Caps, astate' = "CAPABILITIES_CONFIRMED",
               port' = port
        PROVE  Lifecycle!LifecycleNext
    <2>1. snapshot(caps') \in Lifecycle!Capability
      BY DEF Lifecycle!Capability
    <2>2. caps' # "none"
      BY <1>a DEF Caps
    <2>3. Lifecycle!GetCapabilities(snapshot(caps'))
      BY <1>a, <2>2 DEF Lifecycle!GetCapabilities
    <2> QED
      BY <2>1, <2>3 DEF Lifecycle!LifecycleNext, Lifecycle!AdapterCall
  <1>b. ASSUME astate # "DISCONNECTED", astate \in AdapterState PROVE Lifecycle!ReadOnly
    BY <1>b DEF Lifecycle!ReadOnly, Lifecycle!OutputState, AdapterState
  <1>1. CASE Connect
    <2>1. Lifecycle!ConnectReturns
      BY <1>1 DEF Connect, SessionOpen, Forget, ReadsAreConfirmed, NamesOK, Caps,
                  Lifecycle!ConnectReturns
    <2> QED
      BY <2>1 DEF Lifecycle!LifecycleNext, Lifecycle!AdapterCall
  <1>2. CASE ConnectFails
    <2>1. Lifecycle!ConnectRaises
      BY <1>2 DEF ConnectFails, SessionOpenFails, Forget, FlagsOK,
                  Lifecycle!ConnectRaises, Lifecycle!ResetState
    <2> QED
      BY <2>1 DEF Lifecycle!LifecycleNext, Lifecycle!AdapterCall
  <1>3. CASE Disconnect
    <2>1. Lifecycle!Disconnect("returned")
      <3>1. ~Lifecycle!MustStop
        BY DEF Lifecycle!MustStop, Lifecycle!OutputState, NamesOK, AdapterState
      <3> QED
        BY <1>3, <3>1 DEF Disconnect, SessionClose, Forget,
             Lifecycle!Disconnect, Lifecycle!ResetState, Lifecycle!StopAnswers,
             Lifecycle!Answer, Lifecycle!Raised
    <2>2. "returned" \in Lifecycle!Answer
      BY DEF Lifecycle!Answer
    <2> QED
      BY <2>1, <2>2 DEF Lifecycle!LifecycleNext, Lifecycle!AdapterCall
  <1>4. CASE SafeShutdown
    <2>1. Lifecycle!SafeShutdown
      BY <1>4 DEF SafeShutdown, sessionVars, Lifecycle!SafeShutdown, Lifecycle!Stopped,
                  Lifecycle!StopHook
    <2> QED
      BY <2>1 DEF Lifecycle!LifecycleNext, Lifecycle!AdapterCall
  <1>5. CASE ConfirmStatic
    BY <1>5, <1>a DEF ConfirmStatic, Confirm, Caps, sessionVars
  <1>6. CASE Negotiate
    BY <1>6, LifecycleStutters DEF Negotiate, sessionVars, adapterVars
  <1>7. ASSUME NEW ch \in Channel, Read(ch) \/ ReadBuffered(ch)
        PROVE  UNCHANGED Lifecycle!adapterVars
    BY <1>7, LifecycleStutters DEF Read, ReadBuffered, sessionVars, adapterVars
  <1>8. CASE Poll \/ Fed \/ PollAgain
    BY <1>8, LifecycleStutters DEF Poll, Fed, PollAgain, ChunkRead, ChunkEnd, sessionVars,
                                   adapterVars
  <1>9. ASSUME NEW v \in Payload \cup {LF}, Feed(v) PROVE UNCHANGED Lifecycle!adapterVars
    BY <1>9, LifecycleStutters DEF Feed, FeedByte, adapterVars
  <1>10. CASE PollReconnects
    <2>1. astate # "DISCONNECTED" /\ port
      BY <1>10 DEF PollReconnects
    <2>2. Lifecycle!LinkRenewed
      BY <1>10, <1>b, <2>1 DEF PollReconnects, Reconnect, Forget, NamesOK, Lifecycle!LinkRenewed
    <2> QED
      BY <2>2 DEF Lifecycle!LifecycleNext
  <1>11. CASE PollLosesSession
    <2>1. astate # "DISCONNECTED" /\ port' = FALSE
      BY <1>11 DEF PollLosesSession, ReconnectExhausted, Abort
    <2>2. Lifecycle!LinkLost
      BY <1>11, <1>b, <2>1 DEF PollLosesSession, Forget, NamesOK, Lifecycle!LinkLost,
                               Lifecycle!ResetState
    <2> QED
      BY <2>2 DEF Lifecycle!LifecycleNext
  <1>12. CASE ProcessRecord
    BY <1>12, LifecycleStutters
       DEF ProcessRecord, RecordEvicted, Reject, DeviceHeader, Register, CapabilitiesChanged,
           BufferMeasurements, BufferLimitExceeded, Skip, Fail, RestUnchanged
  <1>13. CASE CapabilitiesArrive
    <2>1. caps = "none" /\ native \in Caps /\ astate # "DISCONNECTED"
      BY <1>13, AdapterAssumption
         DEF CapabilitiesArrive, Satisfied, NegotiationIsNeeded, NamesOK, CallPhase
    <2> QED
      BY <1>13, <1>a, <2>1 DEF CapabilitiesArrive, Confirm, sessionVars
  <1>14. CASE ReadingArrives \/ GiveUp
    BY <1>14, LifecycleStutters DEF ReadingArrives, GiveUp, sessionVars, adapterVars
  <1>15. CASE UNCHANGED vars
    BY <1>15, LifecycleStutters DEF vars, sessionVars, adapterVars
  <1> QED
    BY <1>1, <1>2, <1>3, <1>4, <1>5, <1>6, <1>7, <1>8, <1>9, <1>10, <1>11, <1>12,
       <1>13, <1>14, <1>15
       DEF AdapterNext, CallStep

(***************************************************************************)
(* The serial adapter implements the lifecycle that it inherits: whatever  *)
(* the port and the device do, its users see the calls of a device adapter *)
(* and, in between, a link that is lost or renewed and nothing else.       *)
(***************************************************************************)
THEOREM SerialAdapterFollowsLifecycle == AdapterSpec => FollowsLifecycle
  <1>1. AdapterInit => Lifecycle!AdapterInit /\ NegotiationIsNeeded
    BY DEF AdapterInit, SessionInit, Lifecycle!AdapterInit, NegotiationIsNeeded
  <1>2. AdapterInv => FlagsOK /\ NamesOK /\ ConnectionOwnsPort /\ CallPhase /\ ReadsAreConfirmed
    BY DEF AdapterInv
  <1>3. AdapterInv /\ NegotiationIsNeeded /\ [AdapterNext]_vars => NegotiationIsNeeded'
    BY <1>2, NegotiationStep
  <1>4. AdapterInv /\ NegotiationIsNeeded /\ [AdapterNext]_vars
          => [Lifecycle!LifecycleNext]_(Lifecycle!adapterVars)
    BY <1>2, LifecycleStep
  <1> QED
    BY <1>1, <1>3, <1>4, AdapterInvariant, PTL
       DEF AdapterSpec, FollowsLifecycle, Lifecycle!LifecycleSpec

(***************************************************************************)
(* A call uses up its polls                                                *)
(***************************************************************************)

\* how far a poll is from its end
Rest == CASE phase = "feeding"    -> 2
          [] phase = "processing" -> 1
          [] phase = "between"    -> 0

\* The order in which a call uses up what it was given: polls, then the stages
\* of a poll, then the bytes of its chunk, then its records.
UsesUp ==
    \/ polls' < polls
    \/ polls' = polls /\ Rest' < Rest
    \/ polls' = polls /\ Rest' = Rest /\ room' < room
    \/ polls' = polls /\ Rest' = Rest /\ room' = room /\ Len(records') < Len(records)

CallsUseUp == [][call # "none" => call' = "none" \/ UsesUp]_vars

(***************************************************************************)
(* A call never waits longer than its poll budget: each of its steps ends  *)
(* it or uses up something of the budget, the chunk or its records, which  *)
(* nothing gives back, so it takes a finite number of steps whatever the   *)
(* device sends (max_polls_per_operation, max_bytes of a read).            *)
(***************************************************************************)
THEOREM CallsAreBounded == AdapterSpec => CallsUseUp
  <1> DEFINE Progress == call # "none" => call' = "none" \/ UsesUp
  <1>1. ASSUME AdapterInv, AdapterNext PROVE Progress
    <2> SUFFICES ASSUME call # "none" PROVE call' = "none" \/ UsesUp
      OBVIOUS
    <2>1. polls \in Nat /\ room \in Nat
      BY <1>1, AdapterAssumption, SessionAssumption DEF AdapterInv, CountsOK
    <2>2. CASE Poll
      BY <2>1, <2>2 DEF Poll, Budget, UsesUp
    <2>3. ASSUME NEW v \in Payload \cup {LF}, Feed(v) PROVE UsesUp
      BY <2>1, <2>3 DEF Feed, FeedByte, callVars, UsesUp, Rest
    <2>4. CASE Fed
      BY <2>4 DEF Fed, UsesUp, Rest
    <2>5. CASE PollReconnects \/ PollLosesSession
      BY <2>5 DEF PollReconnects, PollLosesSession, Return
    <2>6. CASE ProcessRecord
      <3>1. CASE call' = "none"
        BY <3>1
      <3>2. CASE call' # "none"
        <4>1. records # <<>> /\ records' = Tail(records) /\ UNCHANGED <<room, polls, phase>>
          BY <2>6, <3>2
             DEF ProcessRecord, RecordEvicted, Reject, DeviceHeader, Register,
                 CapabilitiesChanged, BufferMeasurements, BufferLimitExceeded, Telemetry,
                 Processing, Skip, Fail, Return, Consume, RestUnchanged, callVars
        <4>2. records \in Seq(WellFramed)
          BY <1>1 DEF AdapterInv, Framing
        <4>3. Len(records') = Len(records) - 1 /\ Len(records) \in Nat
          BY <4>1, <4>2
        <4> QED
          BY <4>1, <4>3 DEF UsesUp, Rest
      <3> QED
        BY <3>1, <3>2
    <2>7. CASE CapabilitiesArrive \/ ReadingArrives \/ GiveUp
      BY <2>7 DEF CapabilitiesArrive, ReadingArrives, GiveUp, Return
    <2>8. CASE PollAgain
      BY <2>8 DEF PollAgain, PollDone, UsesUp, Rest
    <2>9. CallStep
      BY <1>1 DEF AdapterNext, Connect, ConnectFails, Disconnect, SafeShutdown, ConfirmStatic,
                  Negotiate, Read, ReadBuffered, Idle
    <2> QED
      BY <2>2, <2>3, <2>4, <2>5, <2>6, <2>7, <2>8, <2>9 DEF CallStep
  <1>2. AdapterInv /\ [AdapterNext]_vars => [Progress]_vars
    BY <1>1
  <1>3. AdapterSpec => [][Progress]_vars
    <2> HIDE DEF Progress
    <2> QED
      BY <1>2, AdapterInvariant, PTL DEF AdapterSpec
  <1> QED
    BY <1>3 DEF CallsUseUp

================================================================================
