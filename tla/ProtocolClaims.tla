----------------------------- MODULE ProtocolClaims -----------------------------
(***************************************************************************)
(* What the CRC, the sequence tracker, the raw event log and the           *)
(* capability response promise, each over all the inputs of a bounded set. *)
(* MC_SerialAdapter assumes them, so that TLC evaluates every one before   *)
(* it explores the adapter.                                                *)
(***************************************************************************)
EXTENDS RecordProtocol, FiniteSets

(* The CRC is CRC-16/CCITT-FALSE: the check value that its catalogue gives *)
(* for the digits from 1 to 9 is 0x29B1.                                   *)
CheckValue == CRC16([i \in 1..9 |-> 48 + i]) = 10673

\* a record of three bytes in its envelope
Sample == Encoded(<<83, 7, 254>>)

\* the record with the bits of a set inverted, counted from its first bit
Flipped(record, bits) ==
    [i \in DOMAIN record |->
        FoldLeft(LAMBDA byte, b : IF 8 * (i - 1) + b \in bits
                                  THEN byte ^^ (2 ^ (7 - b)) ELSE byte,
                 record[i], <<0, 1, 2, 3, 4, 5, 6, 7>>)]

Positions == 0..8 * Len(Sample) - 1

(* A record is accepted as it was encoded.  With one or two inverted bits  *)
(* anywhere, in the payload or in the CRC, it is refused.                  *)
OneOrTwoErrorsDetected ==
    /\ DecodeAccepts(Sample)
    /\ \A a, b \in Positions : ~DecodeAccepts(Flipped(Sample, {a, b}))

(* A burst of errors no longer than four bits is refused wherever it is.   *)
BurstsDetected ==
    \A first \in Positions : \A rest \in SUBSET (first + 1..first + 3) :
        ~DecodeAccepts(Flipped(Sample, {first} \cup (rest \cap Positions)))

--------------------------------------------------------------------------------
(* The tracker is told 3-bit numbers of records counted without a bound.   *)

Bits == 3
Modulus == 2 ^ Bits

\* what arrived: the true numbers of the records, in the order of arrival
Arrivals == UNION {[1..n -> 0..11] : n \in 1..4}

Newest(arrived, k) ==
    CHOOSE m \in {arrived[i] : i \in 1..k} : \A i \in 1..k : arrived[i] <= m

\* no arrival is half a range or more away from the newest before it
NearTheNewest(arrived) ==
    \A k \in 2..Len(arrived) :
        /\ arrived[k] - Newest(arrived, k - 1) < Modulus \div 2
        /\ Newest(arrived, k - 1) - arrived[k] <= Modulus \div 2

(* While the records stay within half a range of each other, wrapped       *)
(* numbers are as good as true ones: a gap counts the records between, a   *)
(* late or repeated record is told as such, and neither moves the mark.    *)
WrappedNumbersTellTheTruth ==
    \A arrived \in {a \in Arrivals : NearTheNewest(a)} :
        LET seen == Track([k \in DOMAIN arrived |-> arrived[k] % Modulus], Bits)
        IN  \A k \in 2..Len(arrived) :
                LET ahead == arrived[k] - Newest(arrived, k - 1)
                IN  /\ seen[k].last = {Newest(arrived, k) % Modulus}
                    /\ seen[k].missing = (IF ahead > 0 THEN ahead - 1 ELSE 0)
                    /\ seen[k].disposition =
                          (IF ahead < 0 THEN "OUT_OF_ORDER"
                           ELSE IF ahead = 0 THEN "DUPLICATE"
                           ELSE IF ahead = 1 THEN "IN_ORDER" ELSE "GAP")

(* A loss of half a range or more is not told as a gap: the next record    *)
(* passes for a late one and the mark stays where it was.                  *)
LongLossLooksLate ==
    \A first \in 0..Modulus - 1 : \A ahead \in Modulus \div 2..Modulus - 1 :
        LET seen == Track(<<first, (first + ahead) % Modulus>>, Bits)[2]
        IN  seen.disposition = "OUT_OF_ORDER" /\ seen.missing = 0 /\ seen.last = {first}

--------------------------------------------------------------------------------
(* The log keeps at most two events and three bytes. *)

Bounds == [events |-> 2, bytes |-> 3]

\* the logs after at most so many calls, with the events before the last clear
Logs ==
    LET after[k \in 0..5] ==
            IF k = 0 THEN {[log |-> EmptyLog, cleared |-> 0, bytes |-> 0]}
            ELSE after[k - 1] \cup UNION {
                    {[s EXCEPT !.log = AppendReceived(@, size, Bounds),
                               !.bytes = IF size > Bounds.bytes THEN @ ELSE @ + size] :
                        size \in 1..4}
                    \cup {[s EXCEPT !.log = Mark(@, id, "PARSED")] : id \in 1..5}
                    \cup {[log |-> Clear(s.log), cleared |-> s.log.next - 1, bytes |-> 0]}
                    : s \in after[k - 1]}
    IN  after[5]

(* The log is within its bounds and loses nothing silently: the events it  *)
(* keeps are the newest ones, and the counts of the dropped ones and of    *)
(* their bytes make up for the rest since the last clear.                  *)
NothingLostSilently ==
    \A s \in Logs :
        LET kept == Len(s.log.events)
        IN  /\ ~OverBounds(s.log, Bounds)
            /\ \A i \in 1..kept : s.log.events[i].id = s.log.next - kept - 1 + i
            /\ s.log.dropped + kept = s.log.next - 1 - s.cleared
            /\ s.log.droppedBytes + RetainedBytes(s.log) = s.bytes

(* An outcome is given once, and only to an event that is still kept.      *)
MarkedOnce ==
    \A s \in Logs : \A id \in 1..5 :
        LET marked == Mark(s.log, id, "PARSED")
        IN  /\ MarkRefused(marked, id)
            /\ id \in s.log.next - Len(s.log.events)..s.log.next - 1 \/ marked = s.log

--------------------------------------------------------------------------------
(* Devices with up to two analog inputs and one channel of each other kind,   *)
(* and any commands for them                                                  *)

Of(channels, unit, high) ==
    [k \in DOMAIN channels |-> [channel |-> channels[k], low |-> 0, high |-> high, unit |-> unit]]

Optional(channel) == {<<>>, <<channel>>}

Devices ==
    {c \in {[device |-> "afe", adc |-> adc, dac |-> dac, pwm |-> pwm, din |-> din,
             inputs |-> Of(adc, "mV", 9), outputs |-> Of(dac, "mV", 2) \o Of(pwm, "ratio", 1),
             commands |-> commands, shutdown |-> "SAFE_SHUTDOWN" \in commands] :
               adc \in Optional(<<"adc", 0>>) \cup {<<<<"adc", 1>>, <<"adc", 0>>>>},
               dac \in Optional(<<"dac", 0>>), pwm \in Optional(<<"pwm", 0>>),
               din \in Optional(<<"din", 1>>), commands \in SUBSET ToSet(CommandBits)} :
        CapabilitiesAccepted(c)}

(* What a device announces is what it can do, whatever it can do; a mask   *)
(* of commands has one meaning or none.                                    *)
ResponsesAreRead ==
    /\ \A c \in Devices : Announced(MessagesOf(c, 7)) = <<c>>
    /\ \A mask \in 0..127 : commands_from_mask(mask) # <<>> =>
          commands_to_mask(commands_from_mask(mask)[1]) = mask

(* A response with a record lost, repeated, counted wrongly or of another  *)
(* response announces nothing, unless it is its END that is repeated.      *)
DamagedResponsesAreRefused ==
    \A c \in {d \in Devices : d.commands \subseteq ReadOnlyCommands} :
        LET ms == MessagesOf(c, 7)
        IN  /\ \A k \in DOMAIN ms : Announced(RemoveAt(ms, k)) = <<>>
            /\ \A k \in DOMAIN ms : Announced([ms EXCEPT ![k].seq = 8]) = <<>>
            /\ \A k \in DOMAIN ms : Announced(InsertAt(ms, k, ms[k]))
                                       = IF k = Len(ms) THEN <<c>> ELSE <<>>
            /\ Announced([ms EXCEPT ![Len(ms)].count = @ + 1]) = <<>>

(* A response that lost its END costs the next one as well, whose DEVICE   *)
(* ends it; after any other loss the next response is read.                *)
LostEndCostsTheNextResponse ==
    \A c \in {d \in Devices : d.commands = {}} :
        LET ms == MessagesOf(c, 7)
        IN  /\ Announced(Front(ms) \o ms) = <<>>
            /\ Announced(Front(ms) \o ms \o ms) = <<c>>
            /\ \A k \in 1..Len(ms) - 1 : Announced(RemoveAt(ms, k) \o ms) = <<c>>

(* The order of the channels counts: a device that announces two channels  *)
(* of a kind, or an output before another, the other way round is taken    *)
(* for changed.                                                            *)
OrderOfChannelsCounts ==
    \A c \in {d \in Devices : d.commands = {}} :
        LET ms == MessagesOf(c, 7)
            kind(k) == IF ms[k].channel[1] = "pwm" THEN "dac" ELSE ms[k].channel[1]
        IN  \A k \in 2..Len(ms) - 2 :
                LET swapped == Announced([ms EXCEPT ![k] = ms[k + 1], ![k + 1] = ms[k]])
                IN  Len(swapped) = 1 /\ (swapped = <<c>> <=> kind(k) # kind(k + 1))

Commands == [kind : DOMAIN RequiredCapability, channel : {0, 1}, value : -1..3]

(* A command that changes an output is allowed only to a declared channel, *)
(* within its range with both ends, on a device that can shut down; and on *)
(* such a device every value of the range is.                              *)
OutputsAreBounded ==
    \A c \in Devices, command \in Commands :
        /\ command.kind = "SET_STIMULUS_MV" =>
              (CommandAllowed(c, command) <=>
                  /\ {"SET_ANALOG_STIMULUS", "SAFE_SHUTDOWN"} \subseteq c.commands
                  /\ command.channel = 0 /\ command.value \in 0..2)
        /\ command.kind = "SET_PWM_PERMILLE" =>
              (CommandAllowed(c, command) <=>
                  /\ {"SET_PWM_STIMULUS", "SAFE_SHUTDOWN"} \subseteq c.commands
                  /\ command.channel = 0 /\ command.value \in 0..1)

(* What a serial adapter shows of any device is accepted, and through it   *)
(* no output can be set, no device command run and no two channels are     *)
(* confused.  A projection that keeps another command is refused.          *)
ProjectionsAreReadOnly ==
    \A c \in Devices :
        /\ \A p \in {AfeProjection(c), IdentityProjection(c)} :
              /\ CapabilitiesAccepted(p) /\ ProjectionAccepted(c, p)
              /\ IsReadOnly(p)
              /\ \A command \in Commands : CommandAllowed(p, command) =>
                    command.kind \in {"GET_STATUS", "READ_DIGITAL"}
              /\ IsInjective(p.adc \o p.dac \o p.pwm \o p.din)
        /\ ProjectionAccepted(c, c) <=> c.commands \subseteq ReadOnlyCommands

================================================================================
