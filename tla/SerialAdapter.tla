----------------------------- MODULE SerialAdapter -----------------------------
(***************************************************************************)
(* The receive-only serial adapter (serial_adapters/core.py) with the      *)
(* lifecycle that it inherits (adapters/base.py), the profile that         *)
(* interprets records (profiles/afe_v1.py, profiles/msp430_health_v1.py)   *)
(* and the session below it (SerialSession).                               *)
(*                                                                         *)
(* The lifecycle states ARMED and RUNNING are left out: arming requires a  *)
(* command that _validate_projection forbids, so no configuration can arm  *)
(* this adapter.  The projection of capabilities is a function of the      *)
(* native ones, so native stands for both snapshots.                       *)
(***************************************************************************)
EXTENDS SerialSession

CONSTANTS
    Channels,       \* the channels of one telemetry record, in order
    MaxPolls,       \* max_polls_per_operation
    MaxBuffered,    \* max_buffered_measurements
    MaxRawEvents    \* max_events of the raw event log

Channel == {Channels[i] : i \in DOMAIN Channels}

ASSUME AdapterAssumption ==
    /\ Channels \in Seq(Channel)
    /\ \A i, j \in DOMAIN Channels : Channels[i] = Channels[j] => i = j
    /\ "none" \notin Channel
    /\ "negotiate" \notin Channel
    /\ MaxPolls \in Nat \ {0}
    /\ MaxBuffered \in Nat \ {0}
    /\ MaxRawEvents \in Nat \ {0}

VARIABLES
    profile,        \* the profile chosen when the adapter was built
    astate,         \* DeviceAdapter._state
    caps,           \* DeviceAdapter._capabilities
    native,         \* SerialAdapter._native_capabilities and the projected ones
    pending,        \* AFE profile: a capability response has begun
    measurements,   \* SerialAdapter._measurements
    call,           \* public call in progress: "none", "negotiate" or a channel
    polls,          \* polls the call may still make
    phase,          \* where the call is: between polls, feeding or processing
    delivered       \* history: the last measurement each channel returned

adapterVars == <<astate, caps, native, pending, measurements>>
callVars    == <<call, polls, phase>>
vars == <<sessionVars, profile, adapterVars, callVars, delivered>>

AdapterState == {"DISCONNECTED", "CONNECTED_READ_ONLY", "CAPABILITIES_CONFIRMED",
                 "SAFE_SHUTDOWN"}
Caps         == {"caps1", "caps2"}
Measurement  == [channel : Channel, epoch : 0..MaxEpochs, number : 0..MaxTelemetry]
NoReading(ch) == [channel |-> ch, epoch |-> 0, number |-> 0]

(***************************************************************************)
(* Mutated forms: plausible bugs in the operators that follow them.        *)
(***************************************************************************)

\* Mutant of Without: the rotation stops at the selected measurement, so
\* what was rotated before it stays behind the rest.
WithoutRotated(q, i) == SubSeq(q, i + 1, Len(q)) \o SubSeq(q, 1, i - 1)

\* Mutant of Conflicts: a change of capabilities is accepted silently.
ConflictsNever(c) == FALSE

\* Mutant of Fits: the limit is compared before the record's readings are added.
FitsBefore(q) == Len(q) <= MaxBuffered

\* Mutant of Budget: a poll without a result does not count.
BudgetRefunded == polls

AdapterInit ==
    /\ SessionInit
    /\ profile \in {"afe", "msp430"}
    /\ astate = "DISCONNECTED"
    /\ caps = "none"
    /\ native = "none"
    /\ pending = FALSE
    /\ measurements = <<>>
    /\ call = "none"
    /\ polls = 0
    /\ phase = "between"
    /\ delivered = [ch \in Channel |-> NoReading(ch)]

Idle == call = "none"

\* the profile reset and the cleared snapshots and buffers of _connect,
\* _disconnect, _mark_session_lost and the reconnect branch of _poll_once
Forget ==
    /\ pending' = FALSE
    /\ native' = "none"
    /\ caps' = "none"
    /\ measurements' = <<>>

\* the call returns to its caller, with a value or an error
Return ==
    /\ call' = "none"
    /\ polls' = 0
    /\ phase' = "between"

Begin(c) ==
    /\ call' = c
    /\ polls' = MaxPolls
    /\ phase' = "between"

(***************************************************************************)
(* connect and disconnect.  A disconnect whose session.close raises has    *)
(* changed the state all the same.  disconnect asks for a safe shutdown    *)
(* only in the two states that are left out.                               *)
(***************************************************************************)
Connect ==
    /\ Idle
    /\ astate = "DISCONNECTED"
    /\ SessionOpen
    /\ Forget
    /\ astate' = "CONNECTED_READ_ONLY"
    /\ UNCHANGED <<profile, callVars, delivered>>

ConnectFails ==
    /\ Idle
    /\ astate = "DISCONNECTED"
    /\ SessionOpenFails
    /\ Forget
    /\ astate' = "DISCONNECTED"
    /\ UNCHANGED <<profile, callVars, delivered>>

Disconnect ==
    /\ Idle
    /\ astate # "DISCONNECTED"
    /\ SessionClose
    /\ Forget
    /\ astate' = "DISCONNECTED"
    /\ UNCHANGED <<profile, callVars, delivered>>

\* safe_shutdown: these capabilities never support the device command
SafeShutdown ==
    /\ Idle
    /\ astate \notin {"DISCONNECTED", "SAFE_SHUTDOWN"}
    /\ astate' = "SAFE_SHUTDOWN"
    /\ UNCHANGED <<sessionVars, profile, caps, native, pending, measurements,
                   callVars, delivered>>

(***************************************************************************)
(* get_capabilities.  Confirmed capabilities are returned unchanged, which *)
(* is no step.  The MSP430 profile has static capabilities; the AFE        *)
(* profile has none and polls for them.                                    *)
(***************************************************************************)
Confirm(c) ==
    /\ caps' = c
    /\ astate' = "CAPABILITIES_CONFIRMED"

ConfirmStatic ==
    /\ Idle
    /\ astate # "DISCONNECTED"
    /\ caps = "none"
    /\ profile = "msp430"
    /\ native' = "caps1"
    /\ Confirm("caps1")
    /\ UNCHANGED <<sessionVars, profile, pending, measurements, callVars, delivered>>

Negotiate ==
    /\ Idle
    /\ astate # "DISCONNECTED"
    /\ caps = "none"
    /\ profile = "afe"
    /\ Begin("negotiate")
    /\ UNCHANGED <<sessionVars, profile, adapterVars, delivered>>

(***************************************************************************)
(* read_measurement, read_digital_state: take the first buffered           *)
(* measurement of the channel, or poll until one arrives.  _take_buffered  *)
(* rotates the whole deque once, which takes the selected one out and      *)
(* leaves the others in their order.                                       *)
(***************************************************************************)
Buffered(ch) == {i \in DOMAIN measurements : measurements[i].channel = ch}
First(ch, i) == i \in Buffered(ch) /\ \A j \in Buffered(ch) : i <= j
Without(q, i) == SubSeq(q, 1, i - 1) \o SubSeq(q, i + 1, Len(q))

Deliver(ch) ==
    \E i \in DOMAIN measurements :
        /\ First(ch, i)
        /\ delivered' = [delivered EXCEPT ![ch] = measurements[i]]
        /\ measurements' = Without(measurements, i)

ReadBuffered(ch) ==
    /\ Idle
    /\ astate = "CAPABILITIES_CONFIRMED"
    /\ Deliver(ch)
    /\ UNCHANGED <<sessionVars, profile, astate, caps, native, pending, callVars>>

Read(ch) ==
    /\ Idle
    /\ astate = "CAPABILITIES_CONFIRMED"
    /\ Buffered(ch) = {}
    /\ Begin(ch)
    /\ UNCHANGED <<sessionVars, profile, adapterVars, delivered>>

(***************************************************************************)
(* _poll_once and the loops around it.  A poll reads nothing, or a chunk,  *)
(* or finds the device gone, or fails.                                     *)
(***************************************************************************)
Polling == ~Idle /\ phase = "between" /\ polls > 0

Budget == polls - 1

Poll ==
    /\ Polling
    /\ session = "OPEN"
    /\ ChunkRead
    /\ polls' = Budget
    /\ phase' = "feeding"
    /\ UNCHANGED <<profile, adapterVars, call, delivered>>

Feed(v) ==
    /\ phase = "feeding"
    /\ FeedByte(v)
    /\ UNCHANGED <<profile, adapterVars, callVars, delivered>>

\* with no byte at all, this is the timeout of the poll
Fed ==
    /\ phase = "feeding"
    /\ ChunkEnd
    /\ phase' = "processing"
    /\ UNCHANGED <<profile, adapterVars, call, polls, delivered>>

PollReconnects ==
    /\ Polling
    /\ session = "OPEN"
    /\ Reconnect
    /\ Forget
    /\ astate' = "CONNECTED_READ_ONLY"
    /\ Return
    /\ UNCHANGED <<profile, delivered>>

\* _mark_session_lost
PollLosesSession ==
    /\ Polling
    /\ session = "OPEN"
    /\ ReconnectExhausted \/ Abort
    /\ Forget
    /\ astate' = "DISCONNECTED"
    /\ Return
    /\ UNCHANGED <<profile, delivered>>

(***************************************************************************)
(* The records of the poll, one step each.  An error leaves the call, and  *)
(* with it the records that follow.                                        *)
(***************************************************************************)
Processing == phase = "processing" /\ records # <<>>
Current    == Head(records)

\* what the record says, as far as the chosen profile understands it
Meaning(r) ==
    IF /\ Len(r) = 2
       /\ r[1].value # LF
       /\ profile = "msp430" => r[1].value = "telemetry"
    THEN r[1].value
    ELSE "damaged"

Retained   == Len(records) <= MaxRawEvents

Consume == records' = Tail(records)

Skip(p) ==
    /\ Consume
    /\ pending' = p
    /\ UNCHANGED <<astate, caps, native, measurements, callVars>>

Fail(p) ==
    /\ records' = <<>>
    /\ pending' = p
    /\ Return
    /\ UNCHANGED <<astate, caps, native, measurements>>

RestUnchanged ==
    UNCHANGED <<session, port, framerVars, room, epoch, sent, profile, delivered>>

\* the raw log evicted the record while the rest of its chunk came in
RecordEvicted ==
    /\ Processing
    /\ ~Retained
    /\ Fail(pending)
    /\ RestUnchanged

\* a record that is damaged or out of place ends the capability response
Reject ==
    /\ Processing
    /\ Retained
    /\ \/ Meaning(Current) = "damaged"
       \/ Meaning(Current) = "device" /\ pending
       \/ Meaning(Current) \in Caps /\ ~pending
    /\ Skip(FALSE)
    /\ RestUnchanged

DeviceHeader ==
    /\ Processing
    /\ Retained
    /\ Meaning(Current) = "device"
    /\ ~pending
    /\ Skip(TRUE)
    /\ RestUnchanged

\* _register_capabilities: a second response must repeat the first
Conflicts(c) == native \notin {"none", c}

Register ==
    /\ Processing
    /\ Retained
    /\ Meaning(Current) \in Caps
    /\ pending
    /\ ~Conflicts(Meaning(Current))
    /\ native' = Meaning(Current)
    /\ pending' = FALSE
    /\ Consume
    /\ UNCHANGED <<astate, caps, measurements, callVars>>
    /\ RestUnchanged

CapabilitiesChanged ==
    /\ Processing
    /\ Retained
    /\ Meaning(Current) \in Caps
    /\ pending
    /\ Conflicts(Meaning(Current))
    /\ Fail(FALSE)
    /\ RestUnchanged

\* the measurements of a telemetry record, stamped as its payload is
Readings(b) ==
    [i \in DOMAIN Channels |->
        [channel |-> Channels[i], epoch |-> b.epoch, number |-> b.number]]

Telemetry == Processing /\ Retained /\ Meaning(Current) = "telemetry"

Fits(q) == Len(q) + Len(Channels) <= MaxBuffered

BufferMeasurements ==
    /\ Telemetry
    /\ Fits(measurements)
    /\ measurements' = measurements \o Readings(Current[1])
    /\ Consume
    /\ UNCHANGED <<astate, caps, native, pending, callVars>>
    /\ RestUnchanged

BufferLimitExceeded ==
    /\ Telemetry
    /\ ~Fits(measurements)
    /\ Fail(pending)
    /\ RestUnchanged

(***************************************************************************)
(* After the last record of a poll, the loop of the call looks for what it *)
(* waits for, and gives up when the budget is spent.                       *)
(***************************************************************************)
PollDone == phase = "processing" /\ records = <<>>

Satisfied == IF call = "negotiate" THEN native # "none" ELSE Buffered(call) # {}

CapabilitiesArrive ==
    /\ PollDone
    /\ call = "negotiate"
    /\ Satisfied
    /\ Confirm(native)
    /\ Return
    /\ UNCHANGED <<sessionVars, profile, native, pending, measurements, delivered>>

ReadingArrives ==
    /\ PollDone
    /\ call \in Channel
    /\ Satisfied
    /\ Deliver(call)
    /\ Return
    /\ UNCHANGED <<sessionVars, profile, astate, caps, native, pending>>

PollAgain ==
    /\ PollDone
    /\ ~Satisfied
    /\ polls > 0
    /\ phase' = "between"
    /\ UNCHANGED <<sessionVars, profile, adapterVars, call, polls, delivered>>

GiveUp ==
    /\ PollDone
    /\ ~Satisfied
    /\ polls = 0
    /\ Return
    /\ UNCHANGED <<sessionVars, profile, adapterVars, delivered>>

ProcessRecord ==
    \/ RecordEvicted
    \/ Reject
    \/ DeviceHeader
    \/ Register
    \/ CapabilitiesChanged
    \/ BufferMeasurements
    \/ BufferLimitExceeded

\* what a call does until it returns
CallStep ==
    \/ Poll
    \/ \E v \in Payload \cup {LF} : Feed(v)
    \/ Fed
    \/ PollReconnects
    \/ PollLosesSession
    \/ ProcessRecord
    \/ CapabilitiesArrive
    \/ ReadingArrives
    \/ PollAgain
    \/ GiveUp

AdapterNext ==
    \/ Connect
    \/ ConnectFails
    \/ Disconnect
    \/ SafeShutdown
    \/ ConfirmStatic
    \/ Negotiate
    \/ \E ch \in Channel : Read(ch) \/ ReadBuffered(ch)
    \/ CallStep

AdapterSpec == AdapterInit /\ [][AdapterNext]_vars

(***************************************************************************)
(* Fairness: the thread that made a call keeps running it, and every       *)
(* backend read ends, with bytes or at read_timeout_seconds.               *)
(***************************************************************************)
AdapterFairSpec == AdapterSpec /\ WF_vars(CallStep)

--------------------------------------------------------------------------------
(***************************************************************************)
(* Type invariant: the state stays within the code's types; the buffers    *)
(* keep the configured limits.                                             *)
(***************************************************************************)
AdapterTypeOK ==
    /\ session \in {"OPEN", "CLOSED"}
    /\ port \in BOOLEAN
    /\ buffer \in Seq(Byte)
    /\ Len(buffer) <= MaxRecord
    /\ discarding \in BOOLEAN
    /\ room \in 0..MaxChunk
    /\ records \in Seq(Seq(Byte))
    /\ epoch \in 0..MaxEpochs
    /\ sent \in 0..MaxTelemetry
    /\ profile \in {"afe", "msp430"}
    /\ astate \in AdapterState
    /\ caps \in Caps \cup {"none"}
    /\ native \in Caps \cup {"none"}
    /\ pending \in BOOLEAN
    /\ measurements \in Seq(Measurement)
    /\ Len(measurements) <= MaxBuffered
    /\ call \in Channel \cup {"none", "negotiate"}
    /\ polls \in 0..MaxPolls
    /\ phase \in {"between", "feeding", "processing"}
    /\ delivered \in [Channel -> Measurement]

(***************************************************************************)
(* A complete record fits max_record_bytes, however the device's bytes     *)
(* were cut into chunks: it ends in its only line feed, and nothing of an  *)
(* overlong record is left in it or in the incomplete one                  *)
(* (BoundedLineFramer.feed).                                               *)
(***************************************************************************)
EndsInItsOnlyLineFeed(r) ==
    \A i \in DOMAIN r : (r[i].value = LF) <=> (i = Len(r))

RecordsAreWellFramed ==
    /\ \A k \in DOMAIN records :
        /\ Len(records[k]) \in 1..MaxRecord
        /\ EndsInItsOnlyLineFeed(records[k])
    /\ \A i \in DOMAIN buffer : buffer[i].value # LF
    /\ discarding => buffer = <<>>

(***************************************************************************)
(* The adapter is connected exactly while its session is open and the      *)
(* backend holds the port, through failed opens, failed polls, reconnects  *)
(* and lost sessions: no poll meets a closed session, no connect an open   *)
(* one, and no port is left open behind a disconnected adapter.            *)
(***************************************************************************)
ConnectionOwnsPort ==
    /\ astate # "DISCONNECTED" <=> session = "OPEN"
    /\ session = "OPEN" <=> port

(***************************************************************************)
(* Nothing received on one connection is used on another: the incomplete   *)
(* record, the records in processing and the buffered measurements all     *)
(* come from the connection that is open now                               *)
(* (serial-profiles.md: "bytes from different connection epochs are not    *)
(* silently joined").                                                      *)
(***************************************************************************)
NothingCrossesConnections ==
    /\ \A i \in DOMAIN buffer : buffer[i].epoch = epoch
    /\ \A k \in DOMAIN records :
        \A i \in DOMAIN records[k] : records[k][i].epoch = epoch
    /\ \A i \in DOMAIN measurements : measurements[i].epoch = epoch

(***************************************************************************)
(* Reads run only under capabilities that this connection announced: the   *)
(* confirmed ones are the last ones registered, a read in progress has     *)
(* confirmed ones, and a lost or renewed connection has none               *)
(* (_poll_once, _register_capabilities).                                   *)
(***************************************************************************)
ReadsAreConfirmed ==
    /\ caps # "none" => caps = native
    /\ astate = "CAPABILITIES_CONFIRMED" => caps # "none"
    /\ call \in Channel => astate = "CAPABILITIES_CONFIRMED"
    /\ astate = "DISCONNECTED" => native = "none"

(***************************************************************************)
(* A channel's readings come from the connection that is open when they    *)
(* are returned, in the order in which the device sent them, and none      *)
(* twice (_take_buffered, _buffer_measurements).                           *)
(***************************************************************************)
ReadingsAreFresh ==
    [][\A ch \in Channel : delivered'[ch] # delivered[ch] =>
            /\ delivered'[ch].channel = ch
            /\ delivered'[ch].epoch = epoch
            /\ delivered'[ch].number > delivered[ch].number]_vars

(***************************************************************************)
(* Seen from outside, this adapter does what every device adapter does: it *)
(* connects, confirms, stops and disconnects as the lifecycle says, holds  *)
(* its source exactly while the lifecycle does, never has an output, and   *)
(* polls, records and buffers change nothing else (SerialAdapter as a      *)
(* subclass of DeviceAdapter).                                             *)
(***************************************************************************)
Lifecycle == INSTANCE DeviceAdapter WITH
    Level <- {},
    state <- astate,
    capabilities <- IF caps = "none" THEN {}
                    ELSE {[device |-> caps = "caps1", profile |-> TRUE, plan |-> TRUE,
                           config |-> TRUE, shutdown |-> FALSE]},
    configuration <- FALSE,
    held <- port,
    level <- 0,
    alarm <- FALSE

FollowsLifecycle == Lifecycle!LifecycleSpec

(***************************************************************************)
(* Every call returns: negotiation and reads make a finite number of polls *)
(* whatever the device sends or does not send (max_polls_per_operation).   *)
(***************************************************************************)
CallsReturn == (call # "none") ~> (call = "none")

================================================================================
