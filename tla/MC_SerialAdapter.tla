---------------------------- MODULE MC_SerialAdapter ----------------------------
(***************************************************************************)
(* Small instance of SerialAdapter for TLC.                                *)
(***************************************************************************)
EXTENDS SerialAdapter

\* a telemetry record carries one reading of each
MCChannels == <<"input", "output">>

(* What the CRC, the sequence tracker, the raw event log and the capability *)
(* response promise                                                         *)
Protocol == INSTANCE ProtocolClaims

ASSUME CheckValue == Protocol!CheckValue
ASSUME OneOrTwoErrorsDetected == Protocol!OneOrTwoErrorsDetected
ASSUME BurstsDetected == Protocol!BurstsDetected
ASSUME WrappedNumbersTellTheTruth == Protocol!WrappedNumbersTellTheTruth
ASSUME LongLossLooksLate == Protocol!LongLossLooksLate
ASSUME NothingLostSilently == Protocol!NothingLostSilently
ASSUME MarkedOnce == Protocol!MarkedOnce
ASSUME ResponsesAreRead == Protocol!ResponsesAreRead
ASSUME DamagedResponsesAreRefused == Protocol!DamagedResponsesAreRefused
ASSUME LostEndCostsTheNextResponse == Protocol!LostEndCostsTheNextResponse
ASSUME OrderOfChannelsCounts == Protocol!OrderOfChannelsCounts
ASSUME OutputsAreBounded == Protocol!OutputsAreBounded
ASSUME ProjectionsAreReadOnly == Protocol!ProjectionsAreReadOnly

================================================================================
