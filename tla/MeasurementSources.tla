--------------------------- MODULE MeasurementSources ---------------------------
(***************************************************************************)
(* Where measurements come from when there is no device: a replay file     *)
(* (replay/csv_v1.py) and the adapter that plays it (adapters/             *)
(* csv_replay.py), the simulator of the front end (adapters/simulator.py)  *)
(* and that of a frequency sweep (adapters/                                *)
(* frequency_response_simulator.py).  These are the hooks; the lifecycle   *)
(* around them is DeviceAdapter's.  And how a table of voltages becomes a  *)
(* replay file: the conversion (tabular_import.py), its package            *)
(* (import_packages.py) and the Dashboard's page (dashboard/               *)
(* import_page.py).                                                        *)
(*                                                                         *)
(* A read gives [reading, state]: the reading is empty if the hook raises. *)
(* What an import refuses is the empty sequence.                           *)
(***************************************************************************)
EXTENDS Integers, SequencesExt

Files == INSTANCE ProjectFiles

Answer(reading, state) == [reading |-> reading, state |-> state]

--------------------------------------------------------------------------------
(* A replay document, its rows = [tag, dataset, id, time, count, sound] *)

\* parse_csv_replay; a row that is not sound fails on its own
DocumentAccepted(rows, limit) ==
    LET size == Len(rows)
        data == SubSeq(rows, 3, size - 1)
    IN  /\ size \in 3..limit + 3
        /\ \A i \in DOMAIN rows : rows[i].sound
        /\ rows[1].tag = "HEADER" /\ rows[2].tag = "META" /\ rows[size].tag = "END"
        /\ rows[size].dataset = rows[2].dataset
        /\ \A i \in DOMAIN data : data[i].tag = "DATA" /\ data[i].dataset = rows[2].dataset
        /\ rows[size].count = Len(data)
        /\ \A i, j \in DOMAIN data : data[i].id = data[j].id => i = j
        /\ \A i \in 1..Len(data) - 1 : data[i].time <= data[i + 1].time

--------------------------------------------------------------------------------
(* CsvReplayAdapter, over the records of every configured channel *)

\* not connected: no channel has a cursor
Idle == [cursor |-> <<>>, previous |-> <<>>, paused |-> FALSE]

ReplayConnect(records) ==
    [cursor |-> [c \in DOMAIN records |-> 0],
     previous |-> [c \in DOMAIN records |-> {}],
     paused |-> FALSE]

\* pause and resume, which raise unless connected
SetPaused(s, paused) ==
    IF DOMAIN s.cursor = {} THEN s ELSE [s EXCEPT !.paused = paused]

AtEnd(s, records) ==
    /\ DOMAIN s.cursor # {}
    /\ \A c \in DOMAIN records : s.cursor[c] >= Len(records[c])

\* _next_measurement
Replayed(s, records, c) ==
    IF s.paused \/ c \notin DOMAIN s.cursor THEN Answer(<<>>, s)
    ELSE IF s.cursor[c] >= Len(records[c]) THEN Answer(<<>>, s)
    ELSE LET record == records[c][s.cursor[c] + 1]
         IN  Answer(<<record>>, [s EXCEPT !.cursor[c] = @ + 1,
                                          !.previous[c] = {record}])

\* how long it sleeps first, at normal speed
Delay(s, records, c, scaled) ==
    IF ~scaled \/ s.previous[c] = {} THEN 0
    ELSE LET last == CHOOSE r \in s.previous[c] : TRUE
         IN  records[c][s.cursor[c] + 1].time - last.time

--------------------------------------------------------------------------------
(* SimulatorAdapter.  Every channel plays the same inputs; config =        *)
(* [gain, offset, min, max, low, high, mode, every].                       *)

SimulatedChannel == {"input", "output", "threshold"}

SimulatorConnect ==
    [index |-> [c \in SimulatedChannel |-> 0], drawn |-> 0, on |-> FALSE]

\* _apply_fault: every so many reads of a channel
Faulted(index, config) == config.mode # "NONE" /\ (index + 1) % config.every = 0

Clamped(v, config) ==
    IF v < config.min THEN config.min ELSE IF v > config.max THEN config.max ELSE v

\* the hysteresis of the threshold channel
Switched(on, input, config) ==
    IF on THEN input > config.low ELSE input >= config.high

\* _make_measurement
Simulation(c, index, value, number, status, flags) ==
    [id |-> <<c, index>>, channel |-> c, value |-> value, number |-> number,
     unit |-> IF c = "threshold" THEN "bool" ELSE "mV", status |-> status,
     flags |-> flags]

\* _read_measurement and _read_digital_state
Simulated(s, c, inputs, noise, config) ==
    LET index == s.index[c]
        next == [s EXCEPT !.index[c] = @ + 1]
        input == inputs[index + 1]
        raw == config.gain * input + config.offset + noise[s.drawn + 1]
        on == Switched(s.on, input, config)
        valid(number) == Simulation(c, index, "finite", number, "VALID", {})
    IN  IF Faulted(index, config)
        THEN Answer(IF config.mode = "MISSING_SAMPLE"
                    THEN <<Simulation(c, index, "missing", 0, "INVALID",
                                      {"COMMUNICATION_ERROR", "MISSING"})>>
                    ELSE <<>>, next)
        ELSE IF c = "input" THEN Answer(<<valid(input)>>, next)
        ELSE IF c = "threshold"
        THEN Answer(<<valid(IF on THEN 1 ELSE 0)>>, [next EXCEPT !.on = on])
        ELSE Answer(<<IF Clamped(raw, config) = raw THEN valid(raw)
                      ELSE Simulation(c, index, "finite", Clamped(raw, config),
                                      "SUSPECT", {"SATURATED"})>>,
                    [next EXCEPT !.drawn = @ + 1])

--------------------------------------------------------------------------------
(* FrequencyResponseSimulatorAdapter, over the values of its three channels *)

FrequencyConnect(points) == [c \in DOMAIN points |-> 0]

\* after the last point the hook raises, and not as the end of the data
FrequencyRead(cursor, points, c) ==
    IF c \notin DOMAIN cursor THEN Answer(<<>>, cursor)
    ELSE IF cursor[c] >= Len(points[c]) THEN Answer(<<>>, cursor)
    ELSE Answer(<<[id |-> <<c, cursor[c]>>, number |-> points[c][cursor[c] + 1]]>>,
                [cursor EXCEPT ![c] = @ + 1])

--------------------------------------------------------------------------------
(* Import of a table.  The bytes of a file are what each separator makes   *)
(* of them, [columns, height, rows] with rows = [cells, height]: a height  *)
(* is a number of lines, a cell the set of the number it reads as.         *)

MAX_VOLTAGE_IMPORT_ROWS == 10000
MAX_VOLTAGE_IMPORT_COLUMNS == 64

\* _table_parts; what cannot be decoded has no columns
TableAccepted(table) ==
    /\ Len(table.columns) \in 1..MAX_VOLTAGE_IMPORT_COLUMNS
    /\ IsInjective(table.columns) /\ "" \notin ToSet(table.columns)
    /\ Len(table.rows) \in 1..MAX_VOLTAGE_IMPORT_ROWS
    /\ \A k \in DOMAIN table.rows : Len(table.rows[k].cells) = Len(table.columns)

parse_voltage_table(bytes, delimiter) ==
    IF TableAccepted(bytes[delimiter])
    THEN <<[bytes |-> bytes, delimiter |-> delimiter]>> ELSE <<>>

\* the line on which a row begins
RowNumber(table, k) ==
    FoldLeft(LAMBDA n, row : n + row.height, 1 + table.height, SubSeq(table.rows, 1, k - 1))

\* VoltageImportMapping
MappingAccepted(m) ==
    LET columns == <<m.time_column, m.input_column>> \o m.output_column
    IN  /\ Len(m.output_column) = Len(m.output_unit)
        /\ IsInjective(columns) /\ "" \notin ToSet(columns)
        /\ {m.input_unit} \cup ToSet(m.output_unit) \subseteq {"V", "mV"}
        /\ m.minimum_mv < m.maximum_mv
        /\ m.time_mode \in {"timestamp", "elapsed_seconds"}
        /\ m.start_time_utc # <<>> <=> m.time_mode = "elapsed_seconds"

RequiredFields == {"name", "time_column", "input_column", "input_unit"}

OptionalFields ==
    [output_column |-> <<>>, output_unit |-> <<>>, time_mode |-> "timestamp",
     start_time_utc |-> <<>>, delimiter |-> ",", minimum_mv |-> 0, maximum_mv |-> 3300]

\* mapping_from_dict
ReadMapping(d) ==
    IF /\ RequiredFields \subseteq DOMAIN d
       /\ DOMAIN d \subseteq RequiredFields \cup DOMAIN OptionalFields
       /\ MappingAccepted(d @@ OptionalFields)
    THEN <<d @@ OptionalFields>> ELSE <<>>

\* the columns that become channels
Imported(m) ==
    <<[role |-> "input", column |-> m.input_column, unit |-> m.input_unit]>>
    \o [i \in DOMAIN m.output_column |->
            [role |-> "output", column |-> m.output_column[i], unit |-> m.output_unit[i]]]

\* timedelta: half a microsecond goes to the even one
Microseconds(halves) ==
    LET whole == halves \div 2
    IN  IF halves % 2 = 1 /\ whole % 2 = 1 THEN whole + 1 ELSE whole

\* elapsed times are in half microseconds, timestamps in microseconds
Instant(m, number) ==
    IF m.time_mode = "timestamp" THEN number ELSE m.start_time_utc[1] + Microseconds(number)

Millivolts(number, unit) == IF unit = "V" THEN 1000 * number ELSE number

\* preview_voltage_import
Preview(source, m) ==
    LET table == source.bytes[source.delimiter]
        selected == {m.time_column} \cup {Imported(m)[c].column : c \in DOMAIN Imported(m)}
        at(k, column) == table.rows[k].cells[SelectInSeq(table.columns,
                                                         LAMBDA x : x = column)]
        number(k, column) == CHOOSE x \in at(k, column) : TRUE
        time(k) == Instant(m, number(k, m.time_column))
        value(k, c) == Millivolts(number(k, Imported(m)[c].column), Imported(m)[c].unit)
        record(k, c) == [id |-> <<RowNumber(table, k), Imported(m)[c].role>>, time |-> time(k),
                         channel |-> Imported(m)[c].role, value |-> value(k, c)]
    IN  IF /\ source.delimiter = m.delimiter
           /\ selected \subseteq ToSet(table.columns)
           /\ \A k \in DOMAIN table.rows :
                 /\ \A column \in selected : at(k, column) # {}
                 /\ m.time_mode = "elapsed_seconds" => number(k, m.time_column) >= 0
                 /\ k > 1 => time(k - 1) <= time(k)
                 /\ \A c \in DOMAIN Imported(m) : value(k, c) \in m.minimum_mv..m.maximum_mv
        THEN <<[source |-> source, mapping |-> m, rows |-> Len(table.rows),
                records |-> FlattenSeq([k \in DOMAIN table.rows |->
                                [c \in DOMAIN Imported(m) |-> record(k, c)]])]>>
        ELSE <<>>

--------------------------------------------------------------------------------
(* Packages of an import.  A digest is what it was computed from.          *)

\* _configuration
ImportedJob(preview) ==
    IF preview.mapping.output_column # <<>> /\ preview.rows >= 3 THEN "DC_ANALYSIS" ELSE "READ"

ImportedConfiguration(preview) ==
    [job |-> ImportedJob(preview), sample_count |-> preview.rows,
     minimum |-> preview.mapping.minimum_mv, maximum |-> preview.mapping.maximum_mv]

ImportedProject(preview, directory) ==
    [id |-> "imported-voltage",
     presets |-> <<[id |-> preview.mapping.name, source |-> "CSV_REPLAY",
                    settings |-> ImportedConfiguration(preview),
                    replay |-> <<Files!Absolute(Append(directory, "replay.csv"))>>]>>]

\* _payloads
Payloads(preview, directory) ==
    [source |-> preview.source.bytes, mapping |-> preview.mapping, replay |-> preview.records,
     project |-> Files!ProjectDocument(ImportedProject(preview, directory), directory)]

\* _manifest
ImportManifest(preview, name, payloads) ==
    [source_name |-> name, row_count |-> preview.rows, record_count |-> Len(preview.records),
     time_conversion |-> <<preview.mapping.time_mode, preview.mapping.start_time_utc>>,
     artifacts |-> payloads]

\* publish_voltage_import: a directory that does not depend on where it is
PublishedImport(preview, name, directory) ==
    LET payloads == Payloads(preview, directory)
    IN  [payloads |-> payloads, manifest |-> ImportManifest(preview, name, payloads)]

\* execute_import_csv, the action "convert" with a mapping's document
ConvertCommand(document, bytes, name, directory) ==
    LET mapping == ReadMapping(document)
        source == IF mapping = <<>> THEN <<>> ELSE parse_voltage_table(bytes, mapping[1].delimiter)
        preview == IF source = <<>> THEN <<>> ELSE Preview(source[1], mapping[1])
    IN  IF preview = <<>> THEN <<>> ELSE <<PublishedImport(preview[1], name, directory)>>

SourceNameAccepted(name) == name \notin {"", ".", ".."}

\* verify_voltage_import
Verified(package, directory) ==
    LET mapping == ReadMapping(package.payloads.mapping)
        source == parse_voltage_table(package.payloads.source, mapping[1].delimiter)
        preview == Preview(source[1], mapping[1])
    IN  /\ package.manifest.artifacts = package.payloads
        /\ mapping # <<>> /\ source # <<>> /\ preview # <<>>
        /\ package.payloads = Payloads(preview[1], directory)
        /\ SourceNameAccepted(package.manifest.source_name)
        /\ package.manifest
              = ImportManifest(preview[1], package.manifest.source_name, package.payloads)

--------------------------------------------------------------------------------
(* The page of the Dashboard.  Its fields hold a mapping, but that an      *)
(* output unit and a start time are shown that may not be used.            *)

NewFields ==
    [name |-> "Imported voltage", delimiter |-> ",", time_mode |-> "timestamp",
     time_column |-> "", input_column |-> "", input_unit |-> "V", output_column |-> <<>>,
     output_unit |-> "V", start_time_utc |-> <<>>, minimum_mv |-> 0, maximum_mv |-> 3300]

\* _mapping
FieldsMapping(f) ==
    [f EXCEPT !.start_time_utc = IF f.time_mode = "elapsed_seconds" THEN @ ELSE <<>>,
              !.output_unit = IF f.output_column = <<>> THEN <<>> ELSE <<@>>]

NewImport ==
    [path |-> "", bytes |-> <<>>, source |-> <<>>, separator |-> ",", fields |-> NewFields,
     last |-> NewFields, preview |-> <<>>, publication |-> <<>>, unpublished |-> FALSE]

Invalidated(p) == [p EXCEPT !.preview = <<>>, !.publication = <<>>]

\* _sync_fields: the captured bytes are read again with a new separator
Synced(p) ==
    LET separator == p.fields.delimiter
        changed == [Invalidated(p) EXCEPT !.last = p.fields]
    IN  IF p.fields = p.last THEN p
        ELSE IF p.bytes = <<>> \/ separator = p.separator THEN changed
        ELSE [changed EXCEPT !.separator = separator,
                             !.source = parse_voltage_table(p.bytes[1], separator)]

\* a change of a field renders the page
EditField(p, field, value) == Synced([p EXCEPT !.fields[field] = value])

\* _select_source, with the bytes that the file has now
SelectFile(p, path, bytes) ==
    LET source == parse_voltage_table(bytes, p.fields.delimiter)
    IN  [Invalidated(p) EXCEPT !.path = path, !.separator = p.fields.delimiter,
                               !.source = source,
                               !.bytes = IF source = <<>> THEN <<>> ELSE <<bytes>>]

\* _preview_mapping
CheckMapping(p) ==
    LET m == FieldsMapping(p.fields)
        preview == IF p.source # <<>> /\ MappingAccepted(m) THEN Preview(p.source[1], m)
                   ELSE <<>>
    IN  [Invalidated(p) EXCEPT !.preview = preview,
                               !.unpublished = @ \/ preview # <<>>]

\* _load_mapping
LoadMapping(p, m) ==
    LET shown == [m EXCEPT !.output_unit = IF @ = <<>> THEN "V" ELSE @[1]]
    IN  Invalidated(Synced([p EXCEPT !.fields = shown]))

\* _publish; a call that fails changes nothing
PublishImport(p, directory) ==
    IF p.preview = <<>> THEN p
    ELSE [p EXCEPT !.unpublished = FALSE,
                   !.publication = <<PublishedImport(p.preview[1], p.path, directory)>>]

================================================================================
