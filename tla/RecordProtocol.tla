----------------------------- MODULE RecordProtocol -----------------------------
(***************************************************************************)
(* What decides whether a received record counts: the CRC of its envelope  *)
(* (protocol/crc.py, protocol/envelope.py), the continuity of its sequence *)
(* number (transport/sequence.py), and the bounded log that keeps the raw  *)
(* records (transport/events.py); and what an AFE device says it can do:   *)
(* the records of a capability response, the capabilities that they make,  *)
(* and which commands those allow (protocol/afe_v1.py,                     *)
(* domain/capabilities.py, serial_adapters).                               *)
(***************************************************************************)
EXTENDS Integers, Sequences, SequencesExt, FiniteSetsExt, Bitwise

(* CRC-16/CCITT-FALSE over bytes *)

Polynomial == 4129      \* 0x1021
Initial == 65535        \* 0xFFFF

\* one of the eight shifts
ShiftBit(crc) ==
    IF crc >= 32768 THEN ((2 * crc) % 65536) ^^ Polynomial ELSE 2 * crc

ShiftByte(crc, byte) ==
    LET shifted[k \in 0..8] ==
            IF k = 0 THEN crc ^^ (256 * byte) ELSE ShiftBit(shifted[k - 1])
    IN  shifted[8]

CRC16(bytes) == FoldLeft(ShiftByte, Initial, bytes)

\* the payload with its CRC, high byte first (its four digits, two by two)
Encoded(bytes) == bytes \o <<CRC16(bytes) \div 256, CRC16(bytes) % 256>>

\* _decode_crc_envelope on a record whose fields and digits are well formed
DecodeAccepts(record) ==
    LET size == Len(record) - 2
    IN  /\ size > 0
        /\ 256 * record[size + 1] + record[size + 2] = CRC16(SubSeq(record, 1, size))

--------------------------------------------------------------------------------
(* SequenceTracker: last is {} before the first record, else {number} *)

Observe(last, sequence, bits) ==
    LET modulus == 2 ^ bits
        delta == CHOOSE d \in 0..modulus - 1 :
                    \A p \in last : d = (sequence - p) % modulus
        answer(disposition, missing, high) ==
            [disposition |-> disposition, missing |-> missing, last |-> high]
    IN  IF last = {} THEN answer("FIRST", 0, {sequence})
        ELSE IF delta = 0 THEN answer("DUPLICATE", 0, last)
        ELSE IF delta = 1 THEN answer("IN_ORDER", 0, {sequence})
        ELSE IF delta < modulus \div 2 THEN answer("GAP", delta - 1, {sequence})
        ELSE answer("OUT_OF_ORDER", 0, last)

\* the observations of a stream of numbers, one after the other
Track(numbers, bits) ==
    LET after[k \in 0..Len(numbers)] ==
            IF k = 0 THEN [disposition |-> "none", missing |-> 0, last |-> {}]
            ELSE Observe(after[k - 1].last, numbers[k], bits)
    IN  [k \in DOMAIN numbers |-> after[k]]

--------------------------------------------------------------------------------
(* BoundedRawEventLog with bounds = [events, bytes] *)

EmptyLog == [events |-> <<>>, dropped |-> 0, droppedBytes |-> 0, next |-> 1]

RetainedBytes(log) ==
    FoldSeq(LAMBDA event, sum : sum + event.size, 0, log.events)

OverBounds(log, bounds) ==
    Len(log.events) > bounds.events \/ RetainedBytes(log) > bounds.bytes

\* _evict_to_bounds: the oldest go until the rest is within the bounds
EvictToBounds(log, bounds) ==
    LET without[k \in 0..Len(log.events)] ==
            IF k = 0 THEN log
            ELSE LET l == without[k - 1]
                 IN  IF ~OverBounds(l, bounds) THEN l
                     ELSE [l EXCEPT !.events = Tail(@), !.dropped = @ + 1,
                                    !.droppedBytes = @ + l.events[1].size]
    IN  without[Len(log.events)]

\* append_received refuses a record that could never be kept
AppendReceived(log, size, bounds) ==
    IF size > bounds.bytes THEN log
    ELSE EvictToBounds(
            [log EXCEPT !.next = @ + 1,
                !.events = Append(@, [id |-> log.next, size |-> size,
                                      status |-> "PENDING"])], bounds)

\* _replace_event refuses an event that is gone or has its outcome
MarkRefused(log, id) ==
    \A i \in DOMAIN log.events :
        log.events[i].id = id => log.events[i].status # "PENDING"

Mark(log, id, status) ==
    IF MarkRefused(log, id) THEN log
    ELSE [log EXCEPT !.events =
            [i \in DOMAIN @ |-> IF @[i].id = id
                                THEN [@[i] EXCEPT !.status = status] ELSE @[i]]]

\* clear keeps the next identifier
Clear(log) == [EmptyLog EXCEPT !.next = log.next]

--------------------------------------------------------------------------------
(* DeviceCapabilities.  A channel is <<prefix, index>>; a range has a low and *)
(* a high end, which are whole numbers here, and a unit.                      *)

ChannelsOf(ranges) == [k \in DOMAIN ranges |-> ranges[k].channel]

\* __post_init__
CapabilitiesAccepted(c) ==
    /\ \A s \in {c.adc, c.dac, c.pwm, c.din, ChannelsOf(c.inputs), ChannelsOf(c.outputs)} :
          IsInjective(s)
    /\ \A r \in ToSet(c.inputs) \cup ToSet(c.outputs) : r.low < r.high
    /\ ToSet(ChannelsOf(c.inputs)) = ToSet(c.adc)
    /\ ToSet(ChannelsOf(c.outputs)) = ToSet(c.dac) \cup ToSet(c.pwm)
    /\ "READ_MEASUREMENT" \in c.commands => c.adc # <<>>
    /\ "READ_DIGITAL_STATE" \in c.commands => c.din # <<>>
    /\ "SET_ANALOG_STIMULUS" \in c.commands => c.dac # <<>>
    /\ "SET_PWM_STIMULUS" \in c.commands => c.pwm # <<>>
    /\ c.shutdown <=> "SAFE_SHUTDOWN" \in c.commands

IsReadOnly(c) == c.commands \cap {"SET_ANALOG_STIMULUS", "SET_PWM_STIMULUS"} = {}

\* require_automated_output, of one of the two stimulus commands
OutputAllowed(c, command, channel, value, unit) ==
    /\ command \in c.commands
    /\ channel \in ToSet(IF command = "SET_ANALOG_STIMULUS" THEN c.dac ELSE c.pwm)
    /\ c.shutdown
    /\ \E r \in ToSet(c.outputs) : r.channel = channel /\ r.unit = unit
                                  /\ value \in r.low..r.high

--------------------------------------------------------------------------------
(* The capability response of AFE v1 *)

CommandBits == <<"READ_MEASUREMENT", "READ_DIGITAL_STATE", "SET_ANALOG_STIMULUS",
                 "SET_PWM_STIMULUS", "RUN_DEVICE_COMMAND", "SAFE_SHUTDOWN">>

commands_to_mask(commands) ==
    MapThenSumSet(LAMBDA k : 2 ^ (k - 1), {k \in DOMAIN CommandBits : CommandBits[k] \in commands})

\* unknown bits are refused
commands_from_mask(mask) ==
    IF mask >= 2 ^ Len(CommandBits) THEN <<>>
    ELSE <<{CommandBits[k] : k \in {i \in DOMAIN CommandBits : (mask \div 2 ^ (i - 1)) % 2 = 1}}>>

\* a record of the response by itself: AfeCapabilityDevice, -Channel and -End
MessageAccepted(m) ==
    /\ m.seq \in 0..65535
    /\ CASE m.type = "DEVICE" -> m.mask \in 0..65535 /\ commands_from_mask(m.mask) # <<>>
         [] m.type = "CHANNEL" -> /\ m.channel[2] \in 0..255
                                  /\ m.channel[1] = "din" <=> m.range = <<>>
                                  /\ m.range # <<>> => m.range[1].low < m.range[1].high
         [] OTHER -> m.count \in 0..255

\* capabilities_to_messages: all channels of a kind after the other
MessagesOf(c, seq) ==
    LET range(channel) ==
            LET of == SelectSeq(c.inputs \o c.outputs, LAMBDA r : r.channel = channel)
            IN  [k \in DOMAIN of |-> [low |-> of[k].low, high |-> of[k].high, unit |-> of[k].unit]]
        channels == c.adc \o c.dac \o c.pwm \o c.din
    IN  <<[type |-> "DEVICE", seq |-> seq, device |-> c.device,
           mask |-> commands_to_mask(c.commands)]>>
        \o [k \in DOMAIN channels |-> [type |-> "CHANNEL", seq |-> seq, channel |-> channels[k],
                                       range |-> range(channels[k])]]
        \o <<[type |-> "END", seq |-> seq, count |-> Len(channels)]>>

\* capability_messages_to_domain: ranges in the order of the records
DomainOf(messages) ==
    LET header == Head(messages)
        end == Last(messages)
        middle == SubSeq(messages, 2, Len(messages) - 1)
        records(kinds) == SelectSeq(middle, LAMBDA m : m.channel[1] \in kinds)
        names(kind) == [k \in DOMAIN records({kind}) |-> records({kind})[k].channel]
        ranges(kinds) == [k \in DOMAIN records(kinds) |->
                             [channel |-> records(kinds)[k].channel] @@ records(kinds)[k].range[1]]
        commands == commands_from_mask(header.mask)[1]
        c == [device |-> header.device, adc |-> names("adc"), dac |-> names("dac"),
              pwm |-> names("pwm"), din |-> names("din"), inputs |-> ranges({"adc"}),
              outputs |-> ranges({"dac", "pwm"}), commands |-> commands,
              shutdown |-> "SAFE_SHUTDOWN" \in commands]
    IN  IF /\ Len(messages) >= 2 /\ header.type = "DEVICE" /\ end.type = "END"
           /\ \A k \in DOMAIN middle : middle[k].type = "CHANNEL"
           /\ \A k \in DOMAIN messages : messages[k].seq = header.seq
           /\ end.count = Len(middle)
           /\ CapabilitiesAccepted(c)
        THEN <<c>> ELSE <<>>

(***************************************************************************)
(* AfeV1SerialProfile keeps the records of a response until its END.  What *)
(* is refused clears them; a record that could not be decoded does too.    *)
(***************************************************************************)
ConsumeCapability(pending, m) ==
    LET clear(answer) == [pending |-> <<>>, answer |-> answer]
        keep == [pending |-> Append(pending, m), answer |-> <<>>]
    IN  IF ~MessageAccepted(m) THEN clear(<<>>)
        ELSE IF m.type = "DEVICE" THEN (IF pending = <<>> THEN keep ELSE clear(<<>>))
        ELSE IF pending = <<>> \/ pending[1].seq # m.seq THEN clear(<<>>)
        ELSE IF m.type = "CHANNEL" THEN keep
        ELSE clear(DomainOf(Append(pending, m)))

\* the capabilities that a stream of records announces, in order
Announced(messages) ==
    FoldLeft(LAMBDA s, m : LET next == ConsumeCapability(s.pending, m)
                           IN  [pending |-> next.pending, answers |-> s.answers \o next.answer],
             [pending |-> <<>>, answers |-> <<>>], messages).answers

--------------------------------------------------------------------------------
(* Commands of AFE v1, and what the serial adapters make of capabilities *)

RequiredCapability ==
    [GET_STATUS |-> "READ_MEASUREMENT", READ_DIGITAL |-> "READ_DIGITAL_STATE",
     SET_STIMULUS_MV |-> "SET_ANALOG_STIMULUS", SET_PWM_PERMILLE |-> "SET_PWM_STIMULUS",
     SAFE_SHUTDOWN |-> "SAFE_SHUTDOWN"]
    @@ [k \in {"SET_GAIN", "SET_FILTER", "RUN_DC_SWEEP", "RUN_HYSTERESIS",
               "RUN_FREQUENCY_SWEEP", "SAVE_CALIBRATION"} |-> "RUN_DEVICE_COMMAND"]

\* validate_command_capability; no command is for a value outside its range
CommandAllowed(c, command) ==
    /\ RequiredCapability[command.kind] \in c.commands
    /\ CASE command.kind = "SET_STIMULUS_MV" ->
               OutputAllowed(c, "SET_ANALOG_STIMULUS", <<"dac", command.channel>>,
                             command.value, "mV")
         [] command.kind = "SET_PWM_PERMILLE" ->
               OutputAllowed(c, "SET_PWM_STIMULUS", <<"pwm", command.channel>>,
                             command.value, "ratio")
         [] command.kind = "READ_DIGITAL" -> <<"din", command.channel>> \in ToSet(c.din)
         [] command.kind \in {"SAVE_CALIBRATION", "SAFE_SHUTDOWN"} -> TRUE
         [] OTHER -> <<"adc", command.channel>> \in ToSet(c.adc)

ReadOnlyCommands == {"READ_MEASUREMENT", "READ_DIGITAL_STATE"}

\* project_identity_read_only_capabilities
IdentityProjection(c) ==
    [c EXCEPT !.commands = @ \cap ReadOnlyCommands, !.shutdown = FALSE]

\* project_afe_v1_read_only_capabilities: the names that telemetry uses
AfeProjection(c) ==
    LET role == [adc |-> "input", dac |-> "dac", pwm |-> "pwm", din |-> "threshold"]
        alias(channel) == <<role[channel[1]], channel[2]>>
        names(s) == [k \in DOMAIN s |-> alias(s[k])]
        ranges(s) == [k \in DOMAIN s |-> [s[k] EXCEPT !.channel = alias(@)]]
    IN  IdentityProjection([c EXCEPT !.adc = names(@), !.dac = names(@), !.pwm = names(@),
                                     !.din = names(@), !.inputs = ranges(@),
                                     !.outputs = ranges(@)])

\* _validate_projection
ProjectionAccepted(native, projected) ==
    LET bare(ranges) == [k \in DOMAIN ranges |-> <<ranges[k].low, ranges[k].high, ranges[k].unit>>]
        sameRanges(left, right) ==
            /\ Len(left) = Len(right)
            /\ \A x \in ToSet(bare(left)) \cup ToSet(bare(right)) :
                  Cardinality({k \in DOMAIN left : bare(left)[k] = x})
                  = Cardinality({k \in DOMAIN right : bare(right)[k] = x})
    IN  /\ projected.device = native.device
        /\ Len(projected.adc) = Len(native.adc) /\ Len(projected.dac) = Len(native.dac)
        /\ Len(projected.pwm) = Len(native.pwm) /\ Len(projected.din) = Len(native.din)
        /\ sameRanges(native.inputs, projected.inputs)
        /\ sameRanges(native.outputs, projected.outputs)
        /\ projected.commands \subseteq native.commands
        /\ projected.commands \subseteq ReadOnlyCommands

================================================================================
