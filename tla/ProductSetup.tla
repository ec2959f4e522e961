------------------------------ MODULE ProductSetup ------------------------------
(***************************************************************************)
(* How a test is set up: the catalog of sources, tests and profiles, the   *)
(* wizard's form, the reading of its fields into a configuration, the      *)
(* rules a configuration must meet, the job that is prepared from it, and  *)
(* the wizard's pages with the panel that shows the selection beside them  *)
(* (catalog.py, product_workflows.py, factories.py, dashboard/wizard.py,   *)
(* presets.py, application.py).                                            *)
(*                                                                         *)
(* A field that holds a number is <<n>>, or <<>> when its text is none;    *)
(* times are in ms, amplitudes in tenths of their unit, ratios in          *)
(* thousandths.  A channel name is a member of a small set.                *)
(***************************************************************************)
EXTENDS Integers, Sequences, FiniteSets

CONSTANT None

--------------------------------------------------------------------------------
(* Catalog *)

SourceMode == {"SIMULATOR", "CSV_REPLAY", "SERIAL_READ_ONLY"}

Analyses == {"DC_ANALYSIS", "HYSTERESIS_ANALYSIS", "CALIBRATION_ANALYSIS",
             "FREQUENCY_RESPONSE_ANALYSIS"}

JobType == {"READ", "LIVE_MONITOR"} \cup Analyses

Profile == {"afe/1", "msp430.health/1"}

SupportedJobs(mode) ==
    IF mode = "SERIAL_READ_ONLY" THEN {"READ", "LIVE_MONITOR"} ELSE JobType

SupportedModes(profile) ==
    IF profile = "afe/1" THEN SourceMode ELSE {"SERIAL_READ_ONLY"}

\* what the catalog allows together, as a draft and a configuration require
Compatible(d) ==
    /\ d.job \in SupportedJobs(d.source)
    /\ d.source \in SupportedModes(d.profile)

--------------------------------------------------------------------------------
(* The form *)

Default ==
    [replay_minimum |-> 0, replay_maximum |-> 3300,
     sample_count |-> 5, rising_count |-> 12, falling_count |-> 22,
     frequency_point_count |-> 21, frequency_minimum_hz |-> 10,
     frequency_maximum_hz |-> 100000, frequency_input_amplitude |-> 10000,
     simulated_cutoff_frequency_hz |-> 1000, target_cutoff_frequency_hz |-> 1000,
     cutoff_relative_tolerance |-> 150, cutoff_drop_db |-> 3010,
     monitor_sample_interval_seconds |-> 50, monitor_time_window_seconds |-> 5000,
     monitor_max_buffer_points |-> 2048,
     low_output_limit |-> 25, high_output_limit |-> 3275, target_gain |-> 2000,
     gain_tolerance |-> 50, max_abs_offset |-> 25, min_r_squared |-> 999, max_rmse |-> 1,
     max_calibration_rmse |-> 1, max_calibration_mean_absolute_error |-> 1,
     max_calibration_absolute_error |-> 2, minimum_calibration_rmse_reduction |-> 0,
     minimum_high_threshold |-> 900, maximum_high_threshold |-> 1100,
     minimum_low_threshold |-> 800, maximum_low_threshold |-> 1000,
     minimum_width |-> 20, maximum_width |-> 200, maximum_width_span |-> 0,
     serial_baud_rate |-> 115200, serial_read_timeout |-> 250, serial_max_polls |-> 32]

Field == DOMAIN Default

\* what a refusal can name
Refusable ==
    Field \cup {"replay_path", "serial_port", "serial_expected_device_id",
                "serial_afe_adc_aliases", "serial_confirm_read_only",
                "max_buffered_measurements", "secondary_channel", "state_channel",
                "operation", "unit", "profile_name", "job_type"}

ASSUME NoneAssumption == None \notin Refusable

\* path, port, device: whether the text field holds something; aliases: pairs
\* <<native, canonical>>, or None when the text is not a list of them
NewDraft ==
    [source |-> "SIMULATOR", job |-> "READ", profile |-> "afe/1",
     channel |-> [primary |-> "input", secondary |-> "output", state |-> "threshold",
                  frequency |-> "frequency"],
     operation |-> "ANALOG", unit |-> "mV",
     text |-> [f \in Field |-> <<Default[f]>>],
     path |-> FALSE, port |-> FALSE, device |-> FALSE, aliases |-> <<>>,
     confirmed |-> FALSE, include |-> [secondary |-> TRUE, state |-> TRUE]]

(* The first check <<holds, field>> that fails names the refused field.    *)
Refused(checks) ==
    LET failing == {i \in DOMAIN checks : ~checks[i][1]}
        first == CHOOSE i \in failing : \A j \in failing : i <= j
    IN  IF failing = {} THEN None ELSE checks[first][2]

\* the order in which the form is read; the fields of a serial source come last
Numbers ==
    <<"sample_count", "rising_count", "falling_count", "frequency_point_count",
      "frequency_minimum_hz", "frequency_maximum_hz", "frequency_input_amplitude",
      "simulated_cutoff_frequency_hz", "target_cutoff_frequency_hz",
      "cutoff_relative_tolerance", "cutoff_drop_db", "monitor_sample_interval_seconds",
      "monitor_time_window_seconds", "monitor_max_buffer_points", "low_output_limit",
      "high_output_limit", "target_gain", "gain_tolerance", "max_abs_offset",
      "min_r_squared", "max_rmse", "max_calibration_rmse",
      "max_calibration_mean_absolute_error", "max_calibration_absolute_error",
      "minimum_calibration_rmse_reduction", "minimum_high_threshold",
      "maximum_high_threshold", "minimum_low_threshold", "maximum_low_threshold",
      "minimum_width", "maximum_width", "maximum_width_span">>

IsNumber(d, f) == <<d.text[f] # <<>>, f>>

BoundsUsable(d) ==
    /\ d.text.replay_minimum # <<>> /\ d.text.replay_maximum # <<>>
    /\ d.text.replay_minimum[1] < d.text.replay_maximum[1]

ReadingChecks(d) ==
    (IF d.source = "CSV_REPLAY"
     THEN <<IsNumber(d, "replay_minimum"), IsNumber(d, "replay_maximum"),
            <<BoundsUsable(d), "replay_maximum">>>>
     ELSE <<>>)
    \o [i \in DOMAIN Numbers |-> IsNumber(d, Numbers[i])]
    \o CASE d.source = "CSV_REPLAY" -> <<<<d.path, "replay_path">>>>
         [] d.source = "SERIAL_READ_ONLY" ->
                <<<<d.port, "serial_port">>, IsNumber(d, "serial_baud_rate"),
                  IsNumber(d, "serial_read_timeout"), IsNumber(d, "serial_max_polls"),
                  <<d.aliases # None, "serial_afe_adc_aliases">>>>
         [] OTHER -> <<>>

MAX_BAUD_RATE == 4000000
MAX_READ_TIMEOUT == 60000
MAX_POLLS_PER_OPERATION == 10000

BufferedMeasurements(samples) == IF 8 * samples > 128 THEN 8 * samples ELSE 128

Distinct(s) == \A i, j \in DOMAIN s : i # j => s[i] # s[j]

NamedOnce(aliases, side) ==
    \A i, j \in DOMAIN aliases : i # j => aliases[i][side] # aliases[j][side]

SerialSourceChecks(d) ==
    LET number(f) == d.text[f][1]
    IN  <<<<number("serial_baud_rate") \in 1..MAX_BAUD_RATE, "serial_baud_rate">>,
          <<number("serial_read_timeout") \in 1..MAX_READ_TIMEOUT, "serial_read_timeout">>,
          <<number("serial_max_polls") \in 1..MAX_POLLS_PER_OPERATION, "serial_max_polls">>,
          <<BufferedMeasurements(number("sample_count")) <= 10000, "max_buffered_measurements">>,
          <<Len(d.aliases) <= 16, "serial_afe_adc_aliases">>,
          <<NamedOnce(d.aliases, 1), "serial_afe_adc_aliases">>,
          <<NamedOnce(d.aliases, 2), "serial_afe_adc_aliases">>,
          <<d.aliases # <<>> => d.device, "serial_expected_device_id">>>>

SerialNumber == {"serial_baud_rate", "serial_read_timeout", "serial_max_polls"}

(* The configuration the form reads as: the fields of other sources are    *)
(* left out, unusable replay bounds of another source are forgotten.       *)
Configuration(d) ==
    LET serial == d.source = "SERIAL_READ_ONLY"
        kept(f) ==
            /\ d.text[f] # <<>>
            /\ f \in {"replay_minimum", "replay_maximum"} => BoundsUsable(d)
            /\ f \in SerialNumber => serial
    IN  [source |-> d.source, job |-> d.job, profile |-> d.profile,
         channel |-> d.channel, operation |-> d.operation, unit |-> d.unit,
         n |-> [f \in Field |-> IF kept(f) THEN d.text[f][1] ELSE Default[f]],
         path |-> d.source = "CSV_REPLAY", serial |-> serial,
         aliases |-> IF serial THEN d.aliases ELSE <<>>,
         confirmed |-> serial /\ d.confirmed, include |-> d.include]

--------------------------------------------------------------------------------
(* The rules of a configuration *)

MaxSamples == 10000
MaxDuration == 55000
MAX_LIVE_MONITOR_INTERVAL == 60000
LiveMonitorWindow == 100..3600000

AmplitudeLimit(unit) == IF unit = "V" THEN 33 ELSE 33000

EnabledChannels(c) ==
    1 + (IF c.include.secondary THEN 1 ELSE 0) + (IF c.include.state THEN 1 ELSE 0)

Cadence(c) == (c.n.sample_count - 1) * c.n.monitor_sample_interval_seconds

SerialWaitBudget(c) ==
    IF c.source # "SERIAL_READ_ONLY" THEN 0
    ELSE (1 + c.n.sample_count * EnabledChannels(c))
            * c.n.serial_max_polls * c.n.serial_read_timeout

SourceChecks(c) ==
    CASE c.source = "SIMULATOR" ->
            <<<<~c.path /\ ~c.serial, "replay_path">>,
              <<~c.confirmed, "serial_confirm_read_only">>>>
      [] c.source = "CSV_REPLAY" ->
            <<<<c.path, "replay_path">>, <<~c.serial /\ ~c.confirmed, "serial_port">>>>
      [] OTHER ->
            <<<<~c.path, "replay_path">>, <<c.serial, "serial_port">>,
              <<c.aliases # <<>> => c.profile = "afe/1", "serial_afe_adc_aliases">>,
              <<c.confirmed, "serial_confirm_read_only">>>>

FrequencyChecks(c) ==
    LET n == c.n
        inside(f) == n.frequency_minimum_hz < f /\ f < n.frequency_maximum_hz
    IN  <<<<Distinct(<<c.channel.frequency, c.channel.primary, c.channel.secondary>>),
            "secondary_channel">>,
          <<0 < n.frequency_minimum_hz /\ inside(n.target_cutoff_frequency_hz),
            "target_cutoff_frequency_hz">>,
          <<inside(n.simulated_cutoff_frequency_hz), "simulated_cutoff_frequency_hz">>,
          <<0 <= n.cutoff_relative_tolerance /\ n.cutoff_relative_tolerance < 1000,
            "cutoff_relative_tolerance">>,
          <<n.cutoff_drop_db > 0, "cutoff_drop_db">>,
          <<n.frequency_input_amplitude \in 1..AmplitudeLimit(c.unit),
            "frequency_input_amplitude">>>>

MonitorChecks(c) ==
    <<<<c.operation = "ANALOG", "operation">>,
      <<c.n.monitor_sample_interval_seconds \in 0..MAX_LIVE_MONITOR_INTERVAL,
        "monitor_sample_interval_seconds">>,
      <<c.n.monitor_time_window_seconds \in LiveMonitorWindow, "monitor_time_window_seconds">>,
      <<Cadence(c) <= MaxDuration, "sample_count">>,
      <<Distinct(<<c.channel.primary, c.channel.secondary, c.channel.state>>),
        "secondary_channel">>,
      <<c.n.sample_count * EnabledChannels(c) <= MaxSamples, "sample_count">>,
      <<Cadence(c) + SerialWaitBudget(c) <= MaxDuration, "serial_read_timeout">>>>

NonNegative(c, f) == <<c.n[f] >= 0, f>>

JobChecks(c) ==
    LET voltage == <<<<c.unit \in {"V", "mV"}, "unit">>>>
        apart(name, field) == <<c.channel.primary # c.channel[name], field>>
    IN  CASE c.job = "READ" ->
                <<<<c.operation = "DIGITAL" <=> c.unit = "bool", "unit">>>>
          [] c.job = "DC_ANALYSIS" -> voltage \o <<apart("secondary", "secondary_channel")>>
          [] c.job = "CALIBRATION_ANALYSIS" ->
                voltage \o <<apart("secondary", "secondary_channel"),
                    NonNegative(c, "max_calibration_rmse"),
                    NonNegative(c, "max_calibration_mean_absolute_error"),
                    NonNegative(c, "max_calibration_absolute_error"),
                    NonNegative(c, "minimum_calibration_rmse_reduction")>>
          [] c.job = "FREQUENCY_RESPONSE_ANALYSIS" -> voltage \o FrequencyChecks(c)
          [] c.job = "LIVE_MONITOR" -> voltage \o MonitorChecks(c)
          [] OTHER -> voltage \o <<apart("state", "state_channel")>>

ConfigurationChecks(c) ==
    <<<<c.n.sample_count \in 1..MaxSamples, "sample_count">>,
      <<c.n.rising_count \in 2..MaxSamples, "rising_count">>,
      <<c.n.falling_count \in 2..MaxSamples, "falling_count">>,
      <<c.n.frequency_point_count \in 10..MaxSamples, "frequency_point_count">>,
      <<c.n.rising_count + c.n.falling_count <= MaxSamples, "falling_count">>,
      <<c.n.replay_minimum < c.n.replay_maximum, "replay_maximum">>,
      <<c.n.monitor_max_buffer_points \in 1..MaxSamples, "monitor_max_buffer_points">>,
      <<c.source \in SupportedModes(c.profile), "profile_name">>,
      <<c.job \in SupportedJobs(c.source), "job_type">>>>
    \o SourceChecks(c) \o JobChecks(c)

(* The field for which the form is refused, or None when it gives a        *)
(* configuration.                                                          *)
FormRefusal(d) ==
    LET reading == Refused(ReadingChecks(d))
        source == IF d.source = "SERIAL_READ_ONLY"
                  THEN Refused(SerialSourceChecks(d)) ELSE None
    IN  CASE reading # None -> reading
          [] reading = None /\ source # None -> source
          [] OTHER -> Refused(ConfigurationChecks(Configuration(d)))

(* A preset becomes a draft again: presets.py.  What no preset holds is    *)
(* left as in a new draft.                                                 *)
DraftOf(c) ==
    [NewDraft EXCEPT
        !.source = c.source, !.job = c.job, !.profile = c.profile,
        !.channel = c.channel, !.operation = c.operation, !.unit = c.unit,
        !.text = [f \in Field |-> <<IF f \in SerialNumber THEN Default[f] ELSE c.n[f]>>],
        !.path = c.path, !.include = c.include]

PresetAccepted(c) ==
    /\ c.source \in {"SIMULATOR", "CSV_REPLAY"}
    /\ Compatible(DraftOf(c))
    /\ FormRefusal(DraftOf(c)) = None
    /\ Configuration(DraftOf(c)) = c

--------------------------------------------------------------------------------
(* The job prepared from a configuration *)

Need(channel, operation, unit, count) ==
    [channel |-> channel, operation |-> operation, unit |-> unit, count |-> count]

\* the read workflow of each test
Requirements(c) ==
    LET voltage(side, count) == Need(c.channel[side], "ANALOG", c.unit, count)
        state(count) == Need(c.channel.state, "DIGITAL", "bool", count)
        samples == c.n.sample_count
        points == c.n.frequency_point_count
        both == c.n.rising_count + c.n.falling_count
    IN  CASE c.job = "READ" -> <<Need(c.channel.primary, c.operation, c.unit, samples)>>
          [] c.job \in {"DC_ANALYSIS", "CALIBRATION_ANALYSIS"} ->
                <<voltage("primary", samples), voltage("secondary", samples)>>
          [] c.job = "FREQUENCY_RESPONSE_ANALYSIS" ->
                <<Need(c.channel.frequency, "ANALOG", "Hz", points),
                  voltage("primary", points), voltage("secondary", points)>>
          [] c.job = "LIVE_MONITOR" ->
                <<voltage("primary", samples)>>
                \o (IF c.include.secondary THEN <<voltage("secondary", samples)>> ELSE <<>>)
                \o (IF c.include.state THEN <<state(samples)>> ELSE <<>>)
          [] OTHER -> <<voltage("primary", both), state(both)>>

(* The channels the source is built with; what a serial device offers is   *)
(* known when it answers.  A replay is given the channels of the test.     *)
SourceChannels(c) ==
    LET simulated(channel) ==
            {<<channel.primary, "ANALOG", "mV">>, <<channel.secondary, "ANALOG", "mV">>,
             <<channel.state, "DIGITAL", "bool">>}
        needed == {Requirements(c)[i] : i \in DOMAIN Requirements(c)}
    IN  CASE c.source = "SERIAL_READ_ONLY" -> {}
          [] c.source = "CSV_REPLAY" -> {<<r.channel, r.operation, r.unit>> : r \in needed}
          [] c.job = "FREQUENCY_RESPONSE_ANALYSIS" ->
                {<<c.channel.frequency, "ANALOG", "Hz">>,
                 <<c.channel.primary, "ANALOG", c.unit>>,
                 <<c.channel.secondary, "ANALOG", c.unit>>}
          [] c.job = "LIVE_MONITOR" -> simulated(c.channel)
          [] OTHER -> simulated(NewDraft.channel)

(* What the settings of the source and of the analysis check when they are *)
(* constructed; these failures name no field of the form.                  *)
NoneNegative(n, fields) == \A f \in fields : n[f] >= 0

OutputWindowUsable(n) == n.low_output_limit < n.high_output_limit

DCCriteriaUsable(n) ==
    /\ NoneNegative(n, {"gain_tolerance", "max_abs_offset", "max_rmse"})
    /\ n.min_r_squared \in 0..1000

HysteresisCriteriaUsable(n) ==
    /\ n.minimum_high_threshold <= n.maximum_high_threshold
    /\ n.minimum_low_threshold <= n.maximum_low_threshold
    /\ n.minimum_width <= n.maximum_width
    /\ NoneNegative(n, {"minimum_width", "maximum_width_span"})

CalibrationCriteriaUsable(n) ==
    NoneNegative(n, {"max_calibration_rmse", "max_calibration_mean_absolute_error",
                     "max_calibration_absolute_error",
                     "minimum_calibration_rmse_reduction"})

FrequencyCriteriaUsable(n) ==
    /\ n.target_cutoff_frequency_hz > 0
    /\ 0 <= n.cutoff_relative_tolerance /\ n.cutoff_relative_tolerance < 1000

CutoffDropUsable(n) == n.cutoff_drop_db > 0

SimulatedSweepUsable(n, unit) ==
    /\ 0 < n.frequency_minimum_hz
    /\ n.frequency_minimum_hz < n.simulated_cutoff_frequency_hz
    /\ n.simulated_cutoff_frequency_hz < n.frequency_maximum_hz
    /\ n.frequency_input_amplitude \in 1..AmplitudeLimit(unit)

SimulatorUsable(channel) == Distinct(<<channel.primary, channel.secondary, channel.state>>)

WorkflowUsable(needed) ==
    /\ \A i \in DOMAIN needed :
          needed[i].operation = "DIGITAL" <=> needed[i].unit = "bool"
    /\ Distinct([i \in DOMAIN needed |-> needed[i].channel])

Constructible(c) ==
    /\ WorkflowUsable(Requirements(c))
    /\ c.source = "SIMULATOR" =>
          /\ c.job = "LIVE_MONITOR" => SimulatorUsable(c.channel)
          /\ c.job = "FREQUENCY_RESPONSE_ANALYSIS" => SimulatedSweepUsable(c.n, c.unit)
    /\ CASE c.job = "DC_ANALYSIS" -> OutputWindowUsable(c.n) /\ DCCriteriaUsable(c.n)
         [] c.job = "HYSTERESIS_ANALYSIS" -> HysteresisCriteriaUsable(c.n)
         [] c.job = "CALIBRATION_ANALYSIS" -> CalibrationCriteriaUsable(c.n)
         [] c.job = "FREQUENCY_RESPONSE_ANALYSIS" ->
                FrequencyCriteriaUsable(c.n) /\ CutoffDropUsable(c.n)
         [] OTHER -> TRUE

Prepared(c) ==
    [source |-> c.source, job |-> c.job, profile |-> c.profile,
     needed |-> Requirements(c), offered |-> SourceChannels(c),
     live |-> c.job = "LIVE_MONITOR"]

(* What a serial device offers once its answer was projected: none if it   *)
(* is refused.  native = [expected, adc, inputs, outputs], names of        *)
(* channels in the vocabulary of the device mapped by canonical.           *)
Projection(c, pinned, native, canonical) ==
    LET alias(channel) == CHOOSE i \in DOMAIN c.aliases : c.aliases[i][1] = channel
        adc == [i \in DOMAIN native.adc |->
                  IF c.aliases = <<>> THEN canonical[native.adc[i]]
                  ELSE c.aliases[alias(native.adc[i])][2]]
        occupied == {canonical[channel] : channel \in native.inputs \cup native.outputs}
    IN  IF pinned /\ ~native.expected THEN None
        ELSE IF c.profile # "afe/1" THEN native.adc
        ELSE IF c.aliases = <<>> THEN adc
        ELSE IF {c.aliases[i][1] : i \in DOMAIN c.aliases}
                  # {native.adc[i] : i \in DOMAIN native.adc}
             THEN None
        ELSE IF \E i \in DOMAIN adc : adc[i] \in occupied THEN None
        ELSE adc
================================================================================
