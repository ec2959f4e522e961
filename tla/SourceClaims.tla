------------------------------ MODULE SourceClaims ------------------------------
(***************************************************************************)
(* What replay files, the replay adapter, the simulators and the import of *)
(* tables promise, over all the documents, tables and sequences of reads   *)
(* of a bounded set.  MC_SweepRunner assumes the claims.                   *)
(***************************************************************************)
EXTENDS MeasurementSources, SequencesExt, FiniteSets

Quality == INSTANCE MeasurementQuality
Fit == INSTANCE DCSweepAnalysis

--------------------------------------------------------------------------------
(* Replay documents of at most two records *)

Row(tag, id, time, count) ==
    [tag |-> tag, dataset |-> "d", id |-> id, time |-> time, count |-> count,
     sound |-> TRUE]

DataRows == {Row("DATA", id, time, "none") : id \in 1..3, time \in 0..1}

Documents ==
    {<<Row("HEADER", 0, 0, "none"), Row("META", 0, 0, "none")>> \o data
        \o <<Row("END", 0, 0, Len(data))>> :
        data \in UNION {[1..n -> DataRows] : n \in 0..3}}

Accepted == {d \in Documents : DocumentAccepted(d, 2)}

\* the same rows with the count that fits them
Recounted(d) == [d EXCEPT ![Len(d)].count = Len(d) - 3]

(* A document that lost its tail or a row anywhere in it is refused, and   *)
(* one that has a row twice even if its count was adjusted: a replay is    *)
(* whole or it is not played.                                              *)
DamagedDocumentsRefused ==
    \A d \in Accepted : \A i \in DOMAIN d :
        /\ ~DocumentAccepted(SubSeq(d, 1, i - 1), 3)
        /\ ~DocumentAccepted(RemoveAt(d, i), 3)
        /\ ~DocumentAccepted(InsertAt(d, i, d[i]), 3)
        /\ ~DocumentAccepted(Recounted(InsertAt(d, i, d[i])), 3)

(* As many records as the limit are accepted, one more is not.             *)
LimitIsInclusive ==
    {Len(d) - 3 : d \in Accepted} = 0..2

--------------------------------------------------------------------------------
(* The replay adapter, two channels, at most seven calls *)

Records ==
    [a |-> <<[id |-> 1, time |-> 0], [id |-> 2, time |-> 2], [id |-> 4, time |-> 2]>>,
     b |-> <<[id |-> 3, time |-> 2], [id |-> 5, time |-> 7]>>]

Play(s, got) == [s |-> s, got |-> got, slept |-> [c \in DOMAIN Records |-> 0]]

NothingRead == [c \in DOMAIN Records |-> <<>>]

\* what may be reached, with what was read since the last connect
Plays ==
    LET read(p, c) ==
            LET r == Replayed(p.s, Records, c)
            IN  [s |-> r.state, got |-> [p.got EXCEPT ![c] = @ \o r.reading],
                 slept |-> [p.slept EXCEPT ![c] =
                    IF r.reading = <<>> THEN @ ELSE @ + Delay(p.s, Records, c, TRUE)]]
        after[k \in 0..7] ==
            IF k = 0 THEN {Play(Idle, NothingRead)}
            ELSE after[k - 1] \cup UNION {
                    {read(p, c) : c \in DOMAIN Records}
                    \cup {[p EXCEPT !.s = SetPaused(@, paused)] : paused \in BOOLEAN}
                    \cup {Play(IF DOMAIN p.s.cursor = {} THEN ReplayConnect(Records)
                               ELSE Idle, NothingRead)}
                    : p \in after[k - 1]}
    IN  after[7]

(* However reads, pauses and reconnects are mixed, each channel gives its  *)
(* rows from the first one on, in order and each once; the end is reported *)
(* exactly when every row was given.                                       *)
RowsInOrderOnce ==
    \A p \in Plays :
        /\ \A c \in DOMAIN Records : IsPrefix(p.got[c], Records[c])
        /\ DOMAIN p.s.cursor # {} =>
              (AtEnd(p.s, Records) <=> \A c \in DOMAIN Records : p.got[c] = Records[c])

(* A pause or the end of one channel takes nothing: a read is refused just *)
(* when paused or at the end of its channel, it leaves the adapter as it   *)
(* was, and after a resume the next row is the one due.                    *)
RefusedReadsTakeNothing ==
    \A p \in Plays : \A c \in DOMAIN Records :
        LET r == Replayed(p.s, Records, c)
            resumed == Replayed(SetPaused(p.s, FALSE), Records, c)
        IN  /\ r.reading = <<>> => r.state = p.s
            /\ p.s.paused => r.reading = <<>>
            /\ DOMAIN p.s.cursor # {} /\ Len(p.got[c]) < Len(Records[c])
                  => resumed.reading = <<Records[c][Len(p.got[c]) + 1]>>

(* At normal speed a channel sleeps from its first row to its last just    *)
(* the time between them, whatever the other channel does.                 *)
DelaysAddUp ==
    \A p \in Plays : \A c \in DOMAIN Records :
        p.got[c] # <<>> => p.slept[c] = p.got[c][Len(p.got[c])].time - p.got[c][1].time

--------------------------------------------------------------------------------
(* The simulator, at most five reads *)

Inputs == <<3, 0, 2, 1, 3>>
Noise == <<0, 1, -1, 2, 0>>

Configs ==
    {c \in [gain : {2}, offset : {-1}, min : {2}, max : {4}, low : {0, 1}, high : {2, 3},
            mode : {"NONE", "MISSING_SAMPLE", "COMMUNICATION_ERROR"}, every : {1, 2, 3}] :
        c.mode = "NONE" => c.every = 1}

\* the state and the readings after the reads of a sequence of channels
Reads(channels, config) ==
    LET after[k \in 0..Len(channels)] ==
            IF k = 0 THEN [state |-> SimulatorConnect, readings |-> <<>>]
            ELSE LET r == Simulated(after[k - 1].state, channels[k], Inputs, Noise, config)
                 IN  [state |-> r.state,
                      readings |-> after[k - 1].readings \o r.reading]
    IN  after[Len(channels)]

Orders == UNION {[1..n -> SimulatedChannel] : n \in 1..5}

(* A channel gives the same readings whatever is read of the others in     *)
(* between, faults and noise included: a run can be repeated channel by    *)
(* channel.                                                                *)
ChannelsOnTheirOwn ==
    \A config \in Configs : \A order \in Orders : \A c \in SimulatedChannel :
        LET of(readings) == SelectSeq(readings, LAMBDA m : m.channel = c)
            alone == SelectSeq(order, LAMBDA d : d = c)
        IN  of(Reads(order, config).readings) = Reads(alone, config).readings

(* A simulated reading is a measurement that may exist, and no two of a    *)
(* connection have the same ID.                                            *)
SimulatedReadingsAreSound ==
    \A config \in Configs : \A order \in Orders :
        LET readings == Reads(order, config).readings
        IN  /\ \A i \in DOMAIN readings : Quality!Consistent(readings[i])
            /\ \A i, j \in DOMAIN readings : readings[i].id = readings[j].id => i = j

(* The threshold remembers the last limit that a reading without a fault   *)
(* crossed: on after the upper one, off after the lower one.               *)
ThresholdRemembers ==
    \A config \in Configs : \A n \in 1..5 :
        LET seen == {i \in 1..n : ~Faulted(i - 1, config)}
            switch == {i \in seen : Inputs[i] >= config.high \/ Inputs[i] <= config.low}
        IN  Reads([i \in 1..n |-> "threshold"], config).state.on
                <=> \E i \in switch : /\ \A j \in switch : j <= i
                                      /\ Inputs[i] >= config.high

(* An output whose value before the limits lies outside them is never      *)
(* fitted by an analysis that knows them, even under a policy that allows  *)
(* SATURATED.                                                              *)
LimitedOutputsAreExcluded ==
    \A config \in {c \in Configs : c.mode = "NONE"}, allowed \in {{}, {"SATURATED"}} :
        LET with == [allowed |-> allowed, unit |-> "mV", low |-> 1000 * config.min,
                     high |-> 1000 * config.max, minimum |-> 2]
            good == [value |-> "finite", number |-> 1, unit |-> "mV", status |-> "VALID",
                     flags |-> {}]
            outputs == Reads([i \in 1..5 |-> "output"], config).readings
        IN  \A i \in DOMAIN outputs :
                config.gain * Inputs[i] + config.offset + Noise[i]
                        \notin config.min..config.max =>
                    Fit!ClassifyPoint([input |-> good, output |-> outputs[i]],
                                      with).disposition = "EXCLUDED"

(* Each channel of a frequency sweep gives its points once and in order,   *)
(* so that the k-th readings of the three channels belong to one point.    *)
SweepPointsBelongTogether ==
    LET points == [f |-> <<1, 2, 3>>, i |-> <<10, 20, 30>>, o |-> <<100, 200, 300>>]
        after[k \in 0..6] ==
            IF k = 0 THEN {[cursor |-> FrequencyConnect(points),
                            got |-> [c \in DOMAIN points |-> <<>>]]}
            ELSE after[k - 1] \cup
                 {LET r == FrequencyRead(p.cursor, points, c)
                  IN  [cursor |-> r.state, got |-> [p.got EXCEPT ![c] = @ \o r.reading]] :
                    p \in after[k - 1], c \in DOMAIN points}
    IN  \A p \in after[6] : \A c \in DOMAIN points : \A k \in DOMAIN p.got[c] :
            p.got[c][k] = [id |-> <<c, k - 1>>, number |-> points[c][k]]

--------------------------------------------------------------------------------
(* Tables of at most two rows; a row with a one in it spans two lines      *)

Separated(lines) == [columns |-> <<"t", "a", "b">>, height |-> 1, rows |-> lines]

\* read with a separator that it does not have
Unsplit(lines) ==
    [columns |-> <<"t,a,b">>, height |-> 1,
     rows |-> [k \in DOMAIN lines |-> [lines[k] EXCEPT !.cells = <<{}>>]]]

Bytes(lines) == [d \in {",", ";"} |-> IF d = "," THEN Separated(lines) ELSE Unsplit(lines)]

Line(t, a, b) == [cells |-> <<t, a, b>>, height |-> IF a = {1} THEN 2 ELSE 1]

Tables ==
    UNION {[1..n -> {Line(t, a, b) : t \in {{}, {-1}, {0}, {1}}, a \in {{}, {0}, {1}},
                                     b \in {{1}, {4}}}] : n \in 1..2}

Mapping ==
    [name |-> "m", time_column |-> "t", input_column |-> "a", input_unit |-> "mV",
     output_column |-> <<"b">>, output_unit |-> <<"V">>, time_mode |-> "timestamp",
     start_time_utc |-> <<>>, delimiter |-> ",", minimum_mv |-> 0, maximum_mv |-> 3300]

Elapsed == [Mapping EXCEPT !.time_mode = "elapsed_seconds", !.start_time_utc = <<5>>]

Alone == [Mapping EXCEPT !.output_column = <<>>, !.output_unit = <<>>]

Mappings ==
    {Mapping, Elapsed, Alone,
     [Mapping EXCEPT !.name = "n"], [Elapsed EXCEPT !.start_time_utc = <<6>>],
     [Mapping EXCEPT !.input_unit = "V"], [Mapping EXCEPT !.output_unit = <<"mV">>],
     [Mapping EXCEPT !.input_column = "b", !.output_column = <<"a">>],
     [Alone EXCEPT !.input_column = "b"], [Mapping EXCEPT !.delimiter = ";"],
     [Mapping EXCEPT !.maximum_mv = 1000], [Mapping EXCEPT !.minimum_mv = 1]}

Source(lines) == [bytes |-> Bytes(lines), delimiter |-> ","]

Previews == UNION {{Preview(Source(lines), m) : lines \in Tables} : m \in Mappings} \ {<<>>}

(* What an import converts is a replay document with one record for each   *)
(* channel of each row, both of one time, and the values of a column are   *)
(* those of its channel.                                                   *)
ImportsAreReplays ==
    \A found \in Previews :
        LET p == found[1]
            records == p.records
            lines == p.source.bytes[","].rows
            document ==
                <<Row("HEADER", 0, 0, "none"), Row("META", 0, 0, "none")>>
                \o [i \in DOMAIN records |-> Row("DATA", records[i].id, records[i].time, "none")]
                \o <<Row("END", 0, 0, Len(records))>>
            m == p.mapping
            channels == IF m.output_column = <<>> THEN {"input"} ELSE {"input", "output"}
            column(c) == IF c = "input" THEN m.input_column ELSE m.output_column[1]
            unit(c) == IF c = "input" THEN m.input_unit ELSE m.output_unit[1]
            of(c) == SelectSeq(records, LAMBDA r : r.channel = c)
        IN  /\ DocumentAccepted(document, 100000)
            /\ Len(records) = Len(lines) * Cardinality(channels)
            /\ \A c \in channels : \A k \in DOMAIN lines :
                  LET cell == lines[k].cells[CHOOSE i \in 1..3 :
                                                <<"t", "a", "b">>[i] = column(c)]
                  IN  /\ {of(c)[k].value} = {x * (IF unit(c) = "V" THEN 1000 ELSE 1) : x \in cell}
                      /\ of(c)[k].time = of("input")[k].time

(* Rows in order of time stay so; rows that are not are refused, unless    *)
(* they are elapsed times at most a microsecond apart that become one.     *)
TimesKeepTheirOrder ==
    \A m \in {Mapping, Elapsed} : \A first, second \in 0..9 :
        LET p == Preview(Source(<<Line({first}, {0}, {1}), Line({second}, {0}, {1})>>), m)
        IN  /\ first <= second => p # <<>>
            /\ first > second /\ p # <<>> =>
                  /\ m = Elapsed /\ first - second <= 2
                  /\ p[1].records[1].time = p[1].records[3].time

(* A mapping comes back from its file, and from the fields of the page, as *)
(* it was.  A file that has lost a field is refused, or the field is one   *)
(* of three that have a default of their own, or it said what is assumed   *)
(* without it.                                                             *)
MappingsSurviveTheirFiles ==
    \A m \in Mappings :
        /\ ReadMapping(m) = <<m>>
        /\ FieldsMapping(LoadMapping(NewImport, m).fields) = m
        /\ \A field \in DOMAIN m :
              LET read == ReadMapping([f \in DOMAIN m \ {field} |-> m[f]])
              IN  read # <<>> /\ read # <<m>>
                      => field \in {"delimiter", "minimum_mv", "maximum_mv"}

(* The longest table that an import accepts is written to a replay file    *)
(* that can be read, and is not too long for one job.  No row of the file  *)
(* has more than 470 bytes: 7 digits of a line twice, 328 of a value.      *)
LargestImportIsReadable ==
    LET longestRow == 470
        otherRows == 1000
    IN  /\ 2 * MAX_VOLTAGE_IMPORT_ROWS * longestRow + otherRows <= 10485760
        /\ 2 * MAX_VOLTAGE_IMPORT_ROWS <= 100000
        /\ MAX_VOLTAGE_IMPORT_ROWS <= 10000

--------------------------------------------------------------------------------
(* Packages *)

Here == <<"p", "import">>
Elsewhere == <<"r">>

\* a part of a package changed, and its digest with it
Edited(package, part, value) ==
    [package EXCEPT !.payloads[part] = value, !.manifest.artifacts[part] = value]

(* A package is verified wherever it was moved to.  Changed in one part    *)
(* without its digest it is not, nor with it if the part is the replay,    *)
(* the project or the mapping; the mapping may trade columns or units only *)
(* as far as the records stay the same, and so only where columns are the  *)
(* same or all zero.                                                       *)
EditedPackagesAreRefused ==
    \A found \in {q \in Previews : q[1].rows = 2} :
        LET p == found[1]
            package == PublishedImport(p, "s.csv", Here)
            with(part, value) == Verified(Edited(package, part, value), Here)
            lines == p.source.bytes[","].rows
            telling == \A k \in 1..2 : /\ lines[k].cells[2] \cap lines[k].cells[3] = {}
                                       /\ {0} \notin {lines[k].cells[2], lines[k].cells[3]}
        IN  /\ Verified(package, Here) /\ Verified(package, Elsewhere)
            /\ ~Verified([package EXCEPT !.payloads.replay = Tail(@)], Here)
            /\ ~with("replay", Tail(package.payloads.replay))
            /\ ~with("project", [package.payloads.project EXCEPT
                                    !.presets[1].configuration.settings.maximum = @ + 1])
            /\ \A m \in Mappings \ {p.mapping} : with("mapping", m) =>
                  /\ ~telling
                  /\ <<m.name, m.time_mode, m.start_time_utc>>
                        = <<p.mapping.name, p.mapping.time_mode, p.mapping.start_time_utc>>
                  /\ <<m.minimum_mv, m.maximum_mv>>
                        = <<p.mapping.minimum_mv, p.mapping.maximum_mv>>

(* The table of a package may be changed just where no column of the       *)
(* mapping looks and no row moves.                                         *)
UnmappedCellsMayChange ==
    \A found \in {q \in Previews : q[1].rows = 2 /\ q[1].mapping \in {Mapping, Alone}} :
        LET p == found[1]
            package == PublishedImport(p, "s.csv", Here)
            lines == p.source.bytes[","].rows
            seen == IF p.mapping = Alone THEN 1..2 ELSE 1..3
        IN  \A other \in Tables :
                Verified(Edited(package, "source", Bytes(other)), Here)
                    <=> /\ Len(other) = 2 /\ other[1].height = lines[1].height
                        /\ \A k \in 1..2 : \A i \in seen :
                              other[k].cells[i] = lines[k].cells[i]

(* Of a manifest the name of the source alone can be changed.              *)
SourceNamesAreNotVerified ==
    \A found \in Previews :
        LET package == PublishedImport(found[1], "s.csv", Here)
            with(manifest) == Verified([package EXCEPT !.manifest = manifest], Here)
            m == package.manifest
        IN  /\ with([m EXCEPT !.source_name = "other"])
            /\ ~with([m EXCEPT !.source_name = ".."])
            /\ ~with([m EXCEPT !.row_count = @ + 1]) /\ ~with([m EXCEPT !.record_count = @ + 1])
            /\ ~with([m EXCEPT !.time_conversion = <<"elapsed_seconds", <<7>>>>])

--------------------------------------------------------------------------------
(* The page: two files that change, whatever order its operations take     *)

Good == Bytes(<<Line({0}, {1}, {1})>>)
Other == [Good EXCEPT ![";"] = Separated(<<Line({0}, {0}, {1})>>), ![","].columns = <<>>]

\* the page after an operation, with the bytes chosen last and whether they
\* were readable then
PageOutcomes(s) ==
    {[s EXCEPT !.page = q] : q \in
        {EditField(s.page, "delimiter", d) : d \in {",", ";"}}
        \cup {EditField(s.page, "input_column", c) : c \in {"a", "t"}}
        \cup {EditField(s.page, "output_column", c) : c \in {<<>>, <<"b">>}}
        \cup {LoadMapping(s.page, m) : m \in {Alone, [Elapsed EXCEPT !.delimiter = ";"]}}
        \cup {CheckMapping(s.page), PublishImport(s.page, Here)}}
    \cup {[page |-> SelectFile(s.page, path, bytes), chosen |-> <<bytes>>,
           readable |-> TableAccepted(bytes[s.page.fields.delimiter])] :
              path \in {"f", "g"}, bytes \in {Good, Other}}

ImportPages ==
    LET new == [page |-> NewImport, chosen |-> <<>>, readable |-> FALSE]
        upto[k \in 0..12] ==
            IF k = 0 THEN [all |-> {new}, last |-> {new}]
            ELSE LET before == upto[k - 1]
                     next == UNION {PageOutcomes(s) : s \in before.last} \ before.all
                 IN  [all |-> before.all \cup next, last |-> next]
    IN  upto[12]

(* What is checked is the table on display under the fields on display,    *)
(* and what is published is what was checked; both vanish with the first   *)
(* change, however the page was used.  Work that is not published is       *)
(* known as such.  The command makes the same package of the same file.    *)
PublishedIsOnDisplay ==
    /\ ImportPages.last = {}
    /\ \A s \in ImportPages.all :
          LET p == s.page
              published == p.publication[1]
          IN  /\ p.preview # <<>> =>
                    /\ p.preview = Preview(p.source[1], FieldsMapping(p.fields))
                    /\ p.publication # <<>> <=> ~p.unpublished
              /\ p.publication # <<>> =>
                    /\ p.preview # <<>>
                    /\ published.payloads.source = s.chosen[1]
                    /\ published.payloads.mapping = FieldsMapping(p.fields)
                    /\ published.manifest.source_name = p.path
                    /\ Verified(published, Elsewhere)
                    /\ ConvertCommand(p.preview[1].mapping, s.chosen[1], p.path, Here)
                          = p.publication

(* The table on display is the file as it was when it was chosen last,     *)
(* read with the separator on display.  A separator can be tried and taken *)
(* back without choosing the file again, unless the file could not be read *)
(* when it was chosen: then no separator helps.                            *)
SeparatorsReadTheSnapshot ==
    \A s \in ImportPages.all :
        LET p == s.page
            back == EditField(EditField(p, "delimiter", IF p.separator = "," THEN ";" ELSE ","),
                              "delimiter", p.fields.delimiter)
        IN  /\ p.source = IF ~s.readable THEN <<>>
                          ELSE parse_voltage_table(s.chosen[1], p.fields.delimiter)
            /\ back.source = p.source

================================================================================
