----------------------------- MODULE SerialSession -----------------------------
(***************************************************************************)
(* The serial transport below the device adapter: SerialSession            *)
(* (transport/serial.py), the line framer that it owns                     *)
(* (transport/stream.py) and the backend that holds the operating system's *)
(* port (analog_validation_pyserial/backend.py).  One thread uses a        *)
(* session, so a method is split into steps only where it loops: a poll    *)
(* reads one chunk and feeds it to the framer byte by byte.                *)
(*                                                                         *)
(* This module has the session's state and the steps of its methods.       *)
(* SerialAdapter conjoins them with what the adapter does around them.     *)
(*                                                                         *)
(* A byte is the line feed or one payload byte, which stands for all that  *)
(* a record says.  Two things are stamped on it that the program does not  *)
(* see: the connection it was read from and, for telemetry, its place in   *)
(* the order of reception.                                                 *)
(***************************************************************************)
EXTENDS Integers, Sequences

CONSTANTS
    MaxRecord,      \* max_record_bytes, the line feed included
    MaxChunk,       \* read_chunk_bytes
    MaxReconnects,  \* max_reconnect_attempts of one disconnect
    MaxEpochs,      \* bound: successful opens of the port
    MaxTelemetry    \* bound: telemetry payloads the device sends

ASSUME SessionAssumption ==
    /\ MaxRecord \in Nat \ {0}
    /\ MaxChunk \in Nat \ {0}
    /\ MaxReconnects \in Nat
    /\ MaxEpochs \in Nat
    /\ MaxTelemetry \in Nat

VARIABLES
    session,     \* SerialSession._state
    port,        \* the backend holds an open port (_port is not None)
    buffer,      \* framer: bytes of the incomplete record
    discarding,  \* framer: _discarding_overlong
    room,        \* bytes the chunk of the current poll may still deliver
    records,     \* complete records of the current poll, not yet processed
    epoch,       \* history: number of successful opens
    sent         \* history: telemetry payloads received

framerVars  == <<buffer, discarding>>
sessionVars == <<session, port, framerVars, room, records, epoch, sent>>

\* Payloads: the DEVICE header of a capability response, an END that
\* completes a response with one of two capability sets, and telemetry.
\* CHANNEL records carry data only; any other record is damaged.
Payload == {"device", "caps1", "caps2", "telemetry"}
LF      == "lf"
Byte    == [value : Payload \cup {LF}, epoch : 0..MaxEpochs, number : 0..MaxTelemetry]

(***************************************************************************)
(* Mutated forms: plausible bugs in the operators that follow them.        *)
(***************************************************************************)

\* Mutant of FramerReset: the incomplete record outlives the connection.
FramerResetFlagOnly ==
    /\ buffer' = buffer
    /\ discarding' = FALSE

\* Mutant of Abort: the backend is not closed after a failed read.
AbortKeepsPort ==
    /\ buffer' = <<>>
    /\ discarding' = FALSE
    /\ port' = port
    /\ session' = "CLOSED"
    /\ room' = 0
    /\ records' = <<>>
    /\ UNCHANGED <<epoch, sent>>

\* Mutant of Framed: a record may be one byte too long.
FramedOffByOne(b) ==
    IF discarding
    THEN /\ discarding' = (b.value # LF)
         /\ UNCHANGED <<buffer, records>>
    ELSE IF Len(buffer) > MaxRecord
    THEN /\ buffer' = <<>>
         /\ discarding' = (b.value # LF)
         /\ UNCHANGED records
    ELSE IF b.value = LF
    THEN /\ records' = Append(records, Append(buffer, b))
         /\ buffer' = <<>>
         /\ UNCHANGED discarding
    ELSE /\ buffer' = Append(buffer, b)
         /\ UNCHANGED <<discarding, records>>

SessionInit ==
    /\ session = "CLOSED"
    /\ port = FALSE
    /\ buffer = <<>>
    /\ discarding = FALSE
    /\ room = 0
    /\ records = <<>>
    /\ epoch = 0
    /\ sent = 0

\* BoundedLineFramer.reset
FramerReset ==
    /\ buffer' = <<>>
    /\ discarding' = FALSE

(***************************************************************************)
(* open: both outcomes start with a framer reset; a backend that fails to  *)
(* open is closed again.  backend.close forgets the port before it closes  *)
(* it, so the port is released even when that close raises.                *)
(***************************************************************************)
SessionOpen ==
    /\ session = "CLOSED"
    /\ ~port
    /\ epoch < MaxEpochs
    /\ FramerReset
    /\ port' = TRUE
    /\ session' = "OPEN"
    /\ epoch' = epoch + 1
    /\ UNCHANGED <<room, records, sent>>

SessionOpenFails ==
    /\ session = "CLOSED"
    /\ FramerReset
    /\ port' = FALSE
    /\ UNCHANGED <<session, room, records, epoch, sent>>

\* close, with or without an error of the backend
SessionClose ==
    /\ FramerReset
    /\ session' = "CLOSED"
    /\ port' = IF session = "CLOSED" THEN port ELSE FALSE
    /\ room' = 0
    /\ records' = <<>>
    /\ UNCHANGED <<epoch, sent>>

\* _abort_session: a backend error or a chunk that cannot be processed
Abort ==
    /\ FramerReset
    /\ port' = FALSE
    /\ session' = "CLOSED"
    /\ room' = 0
    /\ records' = <<>>
    /\ UNCHANGED <<epoch, sent>>

\* _reconnect, one of at most MaxReconnects attempts opened the port
Reconnect ==
    /\ MaxReconnects > 0
    /\ epoch < MaxEpochs
    /\ FramerReset
    /\ port' = TRUE
    /\ session' = "OPEN"
    /\ epoch' = epoch + 1
    /\ UNCHANGED <<room, records, sent>>

\* _reconnect, every attempt failed
ReconnectExhausted ==
    /\ FramerReset
    /\ port' = FALSE
    /\ session' = "CLOSED"
    /\ UNCHANGED <<room, records, epoch, sent>>

\* poll got a chunk: its bytes follow, one FeedByte each
ChunkRead ==
    /\ room' = MaxChunk
    /\ UNCHANGED <<session, port, framerVars, records, epoch, sent>>

(***************************************************************************)
(* The body of the loop in BoundedLineFramer.feed.  The byte that makes    *)
(* the record too long starts the discarding, which the next line feed     *)
(* ends; that byte may be the line feed itself.                            *)
(***************************************************************************)
Framed(b) ==
    IF discarding
    THEN /\ discarding' = (b.value # LF)
         /\ UNCHANGED <<buffer, records>>
    ELSE IF Len(buffer) >= MaxRecord
    THEN /\ buffer' = <<>>
         /\ discarding' = (b.value # LF)
         /\ UNCHANGED records
    ELSE IF b.value = LF
    THEN /\ records' = Append(records, Append(buffer, b))
         /\ buffer' = <<>>
         /\ UNCHANGED discarding
    ELSE /\ buffer' = Append(buffer, b)
         /\ UNCHANGED <<discarding, records>>

Stamped(v) ==
    [value |-> v, epoch |-> epoch, number |-> IF v = "telemetry" THEN sent + 1 ELSE 0]

FeedByte(v) ==
    /\ room > 0
    /\ v = "telemetry" => sent < MaxTelemetry
    /\ Framed(Stamped(v))
    /\ room' = room - 1
    /\ sent' = IF v = "telemetry" THEN sent + 1 ELSE sent
    /\ UNCHANGED <<session, port, epoch>>

\* the chunk has no more bytes: poll returns its records
ChunkEnd ==
    /\ room' = 0
    /\ UNCHANGED <<session, port, framerVars, records, epoch, sent>>

================================================================================
