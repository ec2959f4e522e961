---------------------------- MODULE SetupPagesProofs ----------------------------
(***************************************************************************)
(* The setup of a test, for every form a user can fill in and for every    *)
(* sequence of the wizard's operations.  SetupClaims evaluates the same    *)
(* promises over chosen edits.                                             *)
(***************************************************************************)
EXTENDS SetupPages, WellFoundedInduction, SequenceTheorems, TLAPS

(***************************************************************************)
(* Refusals                                                                *)
(***************************************************************************)

Check == BOOLEAN \X Refusable

Holds(checks) == \A i \in DOMAIN checks : checks[i][1]

\* A set of positions has a first one.
LEMMA FirstPosition ==
  ASSUME NEW T \in SUBSET Nat, T # {}
  PROVE  \E i \in T : \A j \in T : i <= j
<1> DEFINE R == OpToRel(<, Nat)
<1>1. IsWellFoundedOn(R, Nat)
  BY NatLessThanWellFounded
<1>2. PICK i \in T : \A j \in T : ~(<<j, i>> \in R)
  <2> HIDE DEF R
  <2> QED BY <1>1, WFMin
<1>3. \A j \in T : ~(j < i)
  BY <1>2 DEF OpToRel
<1> QED BY <1>3

\* Nothing is refused when every check holds, and only then.
LEMMA NothingRefused ==
  ASSUME NEW checks \in Seq(Check)
  PROVE  Refused(checks) = None <=> Holds(checks)
<1> DEFINE failing == {i \in DOMAIN checks : ~checks[i][1]}
           first == CHOOSE i \in failing : \A j \in failing : i <= j
<1>1. CASE failing = {}
  BY <1>1 DEF Refused, Holds
<1>2. CASE failing # {}
  <2>1. failing \in SUBSET Nat
    BY DEF Check
  <2>2. first \in failing
    <3> HIDE DEF failing
    <3> QED BY <1>2, <2>1, FirstPosition
  <2>3. checks[first][2] \in Refusable
    BY <2>2 DEF Check
  <2>4. Refused(checks) = checks[first][2]
    BY <1>2 DEF Refused
  <2>5. ~Holds(checks)
    BY <1>2 DEF Holds
  <2> QED BY <2>3, <2>4, <2>5, NoneAssumption
<1> QED BY <1>1, <1>2

\* Checks made one after the other all hold when each group does.
LEMMA ChecksInTurn ==
  ASSUME NEW s \in Seq(Check), NEW t \in Seq(Check)
  PROVE  /\ s \o t \in Seq(Check)
         /\ Holds(s \o t) <=> Holds(s) /\ Holds(t)
<1>1. /\ s \o t \in Seq(Check)
      /\ Len(s \o t) = Len(s) + Len(t)
      /\ \A i \in 1..Len(s) + Len(t) :
            (s \o t)[i] = IF i <= Len(s) THEN s[i] ELSE t[i - Len(s)]
  BY ConcatProperties
<1>2. ASSUME Holds(s \o t) PROVE Holds(s) /\ Holds(t)
  <2>1. ASSUME NEW i \in DOMAIN s PROVE s[i][1]
    BY <1>1, <1>2 DEF Holds
  <2>2. ASSUME NEW i \in DOMAIN t PROVE t[i][1]
    <3>1. /\ i + Len(s) \in 1..Len(s) + Len(t)
          /\ ~(i + Len(s) <= Len(s)) /\ (i + Len(s)) - Len(s) = i
      OBVIOUS
    <3>2. (s \o t)[i + Len(s)] = t[i]
      BY <1>1, <3>1
    <3>3. i + Len(s) \in DOMAIN (s \o t)
      BY <1>1, <3>1
    <3> QED BY <1>2, <3>2, <3>3 DEF Holds
  <2> QED BY <2>1, <2>2 DEF Holds
<1>3. ASSUME Holds(s), Holds(t) PROVE Holds(s \o t)
  <2> SUFFICES ASSUME NEW i \in DOMAIN (s \o t) PROVE (s \o t)[i][1]
    BY DEF Holds
  <2>1. CASE i <= Len(s)
    BY <1>1, <1>3, <2>1 DEF Holds
  <2>2. CASE ~(i <= Len(s))
    <3>1. i - Len(s) \in DOMAIN t
      BY <1>1, <2>2
    <3> QED BY <1>1, <1>3, <2>2, <3>1 DEF Holds
  <2> QED BY <2>1, <2>2
<1> QED BY <1>1, <1>2, <1>3

(***************************************************************************)
(* Forms                                                                   *)
(***************************************************************************)

Text == {<<>>} \cup {<<n>> : n \in Int}

\* any text; the ones the wizard writes itself are spelled out for the provers
Name == STRING \cup {"input", "output", "threshold", "frequency", "bus", "ANALOG", "mV"}

\* every form, not only those the selections lead to
Draft ==
    [source : SourceMode, job : JobType, profile : Profile,
     channel : [primary : Name, secondary : Name, state : Name, frequency : Name],
     operation : Name, unit : Name, text : [Field -> Text],
     path : BOOLEAN, port : BOOLEAN, device : BOOLEAN,
     aliases : Seq(Name \X Name) \cup {None},
     confirmed : BOOLEAN, include : [secondary : BOOLEAN, state : BOOLEAN]]

\* The numbers of the form are among the entries that can be refused.
LEMMA FieldNames ==
  /\ Field \subseteq Refusable
  /\ \A name \in {"replay_minimum", "replay_maximum", "sample_count", "rising_count",
                  "falling_count", "frequency_point_count", "frequency_minimum_hz",
                  "frequency_maximum_hz", "frequency_input_amplitude",
                  "simulated_cutoff_frequency_hz", "target_cutoff_frequency_hz",
                  "cutoff_relative_tolerance", "cutoff_drop_db",
                  "monitor_sample_interval_seconds", "monitor_time_window_seconds",
                  "monitor_max_buffer_points", "low_output_limit",
                  "high_output_limit", "target_gain", "gain_tolerance",
                  "max_abs_offset", "min_r_squared", "max_rmse",
                  "max_calibration_rmse", "max_calibration_mean_absolute_error",
                  "max_calibration_absolute_error",
                  "minimum_calibration_rmse_reduction", "minimum_high_threshold",
                  "maximum_high_threshold", "minimum_low_threshold",
                  "maximum_low_threshold", "minimum_width", "maximum_width",
                  "maximum_width_span", "serial_baud_rate", "serial_read_timeout",
                  "serial_max_polls"} :
        name \in Field
BY DEF Refusable, Field, Default

\* So is every name that a check of the form or of a configuration gives.
LEMMA RefusableNames ==
  \A name \in {"replay_minimum", "replay_maximum", "sample_count", "rising_count",
                "falling_count", "frequency_point_count", "monitor_max_buffer_points",
                "serial_baud_rate", "serial_read_timeout", "serial_max_polls",
                "target_cutoff_frequency_hz", "simulated_cutoff_frequency_hz",
                "cutoff_relative_tolerance", "cutoff_drop_db",
                "frequency_input_amplitude", "monitor_sample_interval_seconds",
                "monitor_time_window_seconds", "max_calibration_rmse",
                "max_calibration_mean_absolute_error",
                "max_calibration_absolute_error",
                "minimum_calibration_rmse_reduction", "replay_path", "serial_port",
                "serial_expected_device_id", "serial_afe_adc_aliases",
                "serial_confirm_read_only", "max_buffered_measurements",
                "secondary_channel", "state_channel", "operation", "unit",
                "profile_name", "job_type"} : name \in Refusable
BY FieldNames DEF Refusable

\* The order in which the form is read names fields of the form.
LEMMA NumbersAreFields ==
  Numbers \in Seq(Field)
<1>1. DOMAIN Numbers = 1..32
  BY DEF Numbers
<1>2. \A i \in 1..32 : Numbers[i] \in Field
  BY FieldNames DEF Numbers
<1> QED BY FieldNames DEF Numbers

\* Reading a form makes a sequence of checks.
LEMMA ReadingIsChecked ==
  ASSUME NEW d, d.path \in BOOLEAN, d.port \in BOOLEAN
  PROVE  ReadingChecks(d) \in Seq(Check)
<1> DEFINE bounds == <<IsNumber(d, "replay_minimum"), IsNumber(d, "replay_maximum"),
                       <<BoundsUsable(d), "replay_maximum">>>>
           first == IF d.source = "CSV_REPLAY" THEN bounds ELSE <<>>
           numbers == [i \in DOMAIN Numbers |-> IsNumber(d, Numbers[i])]
           last == CASE d.source = "CSV_REPLAY" -> <<<<d.path, "replay_path">>>>
                     [] d.source = "SERIAL_READ_ONLY" ->
                            <<<<d.port, "serial_port">>, IsNumber(d, "serial_baud_rate"),
                              IsNumber(d, "serial_read_timeout"),
                              IsNumber(d, "serial_max_polls"),
                              <<d.aliases # None, "serial_afe_adc_aliases">>>>
                     [] OTHER -> <<>>
<1>1. bounds \in Seq(Check)
  <2>1. \A p \in BOOLEAN : <<p, "replay_maximum">> \in Check
    BY RefusableNames DEF Check
  <2>2. BoundsUsable(d) \in BOOLEAN
    BY DEF BoundsUsable
  <2>3. /\ IsNumber(d, "replay_minimum") \in Check
        /\ IsNumber(d, "replay_maximum") \in Check
    BY RefusableNames DEF IsNumber, Check
  <2> QED BY <2>1, <2>2, <2>3
<1>2. numbers \in Seq(Check)
  <2>1. ASSUME NEW i \in DOMAIN Numbers PROVE IsNumber(d, Numbers[i]) \in Check
    <3>1. Numbers[i] \in Refusable
      BY NumbersAreFields, FieldNames
    <3> QED BY <3>1 DEF IsNumber, Check
  <2>2. DOMAIN Numbers = 1..Len(Numbers) /\ Len(Numbers) \in Nat
    BY NumbersAreFields
  <2> QED BY <2>1, <2>2
<1>3. last \in Seq(Check)
  <2>2. <<<<d.path, "replay_path">>>> \in Seq(Check)
    BY RefusableNames DEF Check
  <2>3. <<<<d.port, "serial_port">>, IsNumber(d, "serial_baud_rate"),
          IsNumber(d, "serial_read_timeout"), IsNumber(d, "serial_max_polls"),
          <<d.aliases # None, "serial_afe_adc_aliases">>>> \in Seq(Check)
    <3>1. ASSUME NEW f \in Refusable PROVE IsNumber(d, f) \in Check
      BY DEF IsNumber, Check
    <3>2. /\ <<d.port, "serial_port">> \in Check
          /\ <<d.aliases # None, "serial_afe_adc_aliases">> \in Check
      BY RefusableNames DEF Check
    <3> QED BY <3>1, <3>2, RefusableNames
  <2> QED BY <2>2, <2>3
<1>4. first \in Seq(Check)
  BY <1>1
<1>5. ReadingChecks(d) = first \o numbers \o last
  BY DEF ReadingChecks
<1> HIDE DEF first, numbers, last
<1>6. first \o numbers \in Seq(Check)
  BY <1>2, <1>4, ChecksInTurn
<1> QED BY <1>3, <1>5, <1>6, ChecksInTurn

\* A form of an offline source that holds all its numbers is read.
LEMMA OfflineIsRead ==
  ASSUME NEW d, d.path \in BOOLEAN, d.port \in BOOLEAN, d.source # "SERIAL_READ_ONLY",
         \A f \in Field : d.text[f] # <<>>,
         BoundsUsable(d), d.source = "CSV_REPLAY" => d.path
  PROVE  Holds(ReadingChecks(d))
<1> DEFINE usable == <<BoundsUsable(d), "replay_maximum">>
           bounds == <<IsNumber(d, "replay_minimum"), IsNumber(d, "replay_maximum"),
                       usable>>
           numbers == [i \in DOMAIN Numbers |-> IsNumber(d, Numbers[i])]
           path == <<<<d.path, "replay_path">>>>
<1>1. ASSUME NEW f \in Field PROVE IsNumber(d, f) \in Check /\ IsNumber(d, f)[1]
  BY FieldNames DEF IsNumber, Check
<1>2. bounds \in Seq(Check) /\ Holds(bounds)
  <2>1. usable \in Check /\ usable[1]
    <3>1. BoundsUsable(d) = TRUE
      BY DEF BoundsUsable
    <3> QED BY <3>1, RefusableNames DEF Check
  <2> HIDE DEF usable
  <2>2. /\ bounds[1] = IsNumber(d, "replay_minimum")
        /\ bounds[2] = IsNumber(d, "replay_maximum")
        /\ bounds[3] = usable
    OBVIOUS
  <2>4. \A i \in 1..3 : bounds[i][1]
    BY <1>1, <2>1, <2>2, FieldNames
  <2>3. DOMAIN bounds = 1..3 /\ bounds \in Seq(Check)
    BY <1>1, <2>1, FieldNames
  <2> QED BY <2>3, <2>4 DEF Holds
<1>3. numbers \in Seq(Check) /\ Holds(numbers)
  <2>1. DOMAIN Numbers = 1..Len(Numbers) /\ Len(Numbers) \in Nat
    BY NumbersAreFields
  <2>2. \A i \in DOMAIN Numbers : numbers[i] \in Check /\ numbers[i][1]
    BY <1>1, NumbersAreFields
  <2>3. numbers \in Seq(Check)
    BY <2>1, <2>2
  <2> QED BY <2>2 DEF Holds
<1>4. path \in Seq(Check) /\ (d.path => Holds(path))
  BY RefusableNames DEF Check, Holds
<1>5. <<>> \in Seq(Check) /\ Holds(<<>>)
  BY DEF Holds
<1>6. ReadingChecks(d) = IF d.source = "CSV_REPLAY" THEN bounds \o numbers \o path
                         ELSE <<>> \o numbers \o <<>>
  BY DEF ReadingChecks
<1> HIDE DEF bounds, numbers, path
<1>7. /\ bounds \o numbers \in Seq(Check) /\ Holds(bounds \o numbers)
      /\ <<>> \o numbers \in Seq(Check) /\ Holds(<<>> \o numbers)
  BY <1>2, <1>3, <1>5, ChecksInTurn
<1>8. /\ d.path => Holds(bounds \o numbers \o path)
      /\ Holds(<<>> \o numbers \o <<>>)
  BY <1>4, <1>5, <1>7, ChecksInTurn
<1> QED BY <1>6, <1>8

\* So does the setup of a serial source.
LEMMA SerialSourceIsChecked ==
  ASSUME NEW d
  PROVE  SerialSourceChecks(d) \in Seq(Check)
<1> DEFINE number(f) == d.text[f][1]
           baud == number("serial_baud_rate") \in 1..MAX_BAUD_RATE
           timeout == number("serial_read_timeout") \in 1..MAX_READ_TIMEOUT
           polls == number("serial_max_polls") \in 1..MAX_POLLS_PER_OPERATION
           samples == BufferedMeasurements(number("sample_count")) <= 10000
           few == Len(d.aliases) <= 16
           native == NamedOnce(d.aliases, 1)
           canonical == NamedOnce(d.aliases, 2)
           pinned == d.aliases # <<>> => d.device
<1>1. /\ baud \in BOOLEAN /\ timeout \in BOOLEAN /\ polls \in BOOLEAN
      /\ samples \in BOOLEAN /\ few \in BOOLEAN /\ native \in BOOLEAN
      /\ canonical \in BOOLEAN /\ pinned \in BOOLEAN
  BY DEF NamedOnce
<1>2. SerialSourceChecks(d) =
        <<<<baud, "serial_baud_rate">>, <<timeout, "serial_read_timeout">>,
          <<polls, "serial_max_polls">>, <<samples, "max_buffered_measurements">>,
          <<few, "serial_afe_adc_aliases">>, <<native, "serial_afe_adc_aliases">>,
          <<canonical, "serial_afe_adc_aliases">>, <<pinned, "serial_expected_device_id">>>>
  BY DEF SerialSourceChecks
<1> HIDE DEF baud, timeout, polls, samples, few, native, canonical, pinned
<1> QED BY <1>1, <1>2, RefusableNames DEF Check

\* What a configuration that was read from a form holds as truth values.
Flags(c) == c.path \in BOOLEAN /\ c.serial \in BOOLEAN /\ c.confirmed \in BOOLEAN

General(c) ==
    <<<<c.n.sample_count \in 1..MaxSamples, "sample_count">>,
      <<c.n.rising_count \in 2..MaxSamples, "rising_count">>,
      <<c.n.falling_count \in 2..MaxSamples, "falling_count">>,
      <<c.n.frequency_point_count \in 10..MaxSamples, "frequency_point_count">>,
      <<c.n.rising_count + c.n.falling_count <= MaxSamples, "falling_count">>,
      <<c.n.replay_minimum < c.n.replay_maximum, "replay_maximum">>,
      <<c.n.monitor_max_buffer_points \in 1..MaxSamples, "monitor_max_buffer_points">>,
      <<c.source \in SupportedModes(c.profile), "profile_name">>,
      <<c.job \in SupportedJobs(c.source), "job_type">>>>

\* So does the setup of a live monitor.
LEMMA MonitorIsChecked ==
  ASSUME NEW c
  PROVE  MonitorChecks(c) \in Seq(Check)
<1> DEFINE analog == c.operation = "ANALOG"
           interval == c.n.monitor_sample_interval_seconds
                          \in 0..MAX_LIVE_MONITOR_INTERVAL
           window == c.n.monitor_time_window_seconds \in LiveMonitorWindow
           cadence == Cadence(c) <= MaxDuration
           apart == Distinct(<<c.channel.primary, c.channel.secondary,
                               c.channel.state>>)
           samples == c.n.sample_count * EnabledChannels(c) <= MaxSamples
           waits == Cadence(c) + SerialWaitBudget(c) <= MaxDuration
<1>1. /\ analog \in BOOLEAN /\ interval \in BOOLEAN /\ window \in BOOLEAN
      /\ cadence \in BOOLEAN /\ apart \in BOOLEAN /\ samples \in BOOLEAN
      /\ waits \in BOOLEAN
  BY DEF Distinct
<1>2. MonitorChecks(c) =
        <<<<analog, "operation">>, <<interval, "monitor_sample_interval_seconds">>,
          <<window, "monitor_time_window_seconds">>, <<cadence, "sample_count">>,
          <<apart, "secondary_channel">>, <<samples, "sample_count">>,
          <<waits, "serial_read_timeout">>>>
  BY DEF MonitorChecks
<1> HIDE DEF analog, interval, window, cadence, apart, samples, waits
<1> QED BY <1>1, <1>2, RefusableNames DEF Check

\* So does a configuration, group by group.
LEMMA ConfigurationIsChecked ==
  ASSUME NEW c, Flags(c)
  PROVE  /\ General(c) \in Seq(Check) /\ SourceChecks(c) \in Seq(Check)
         /\ JobChecks(c) \in Seq(Check) /\ ConfigurationChecks(c) \in Seq(Check)
         /\ Holds(ConfigurationChecks(c)) <=>
              Holds(General(c)) /\ Holds(SourceChecks(c)) /\ Holds(JobChecks(c))
<1>1. General(c) \in Seq(Check)
  <2> DEFINE samples == c.n.sample_count \in 1..MaxSamples
             rising == c.n.rising_count \in 2..MaxSamples
             falling == c.n.falling_count \in 2..MaxSamples
             points == c.n.frequency_point_count \in 10..MaxSamples
             both == c.n.rising_count + c.n.falling_count <= MaxSamples
             bounds == c.n.replay_minimum < c.n.replay_maximum
             buffer == c.n.monitor_max_buffer_points \in 1..MaxSamples
             profile == c.source \in SupportedModes(c.profile)
             job == c.job \in SupportedJobs(c.source)
  <2>1. /\ samples \in BOOLEAN /\ rising \in BOOLEAN /\ falling \in BOOLEAN
        /\ points \in BOOLEAN /\ both \in BOOLEAN /\ bounds \in BOOLEAN
        /\ buffer \in BOOLEAN /\ profile \in BOOLEAN /\ job \in BOOLEAN
    OBVIOUS
  <2>2. General(c) =
          <<<<samples, "sample_count">>, <<rising, "rising_count">>,
            <<falling, "falling_count">>, <<points, "frequency_point_count">>,
            <<both, "falling_count">>, <<bounds, "replay_maximum">>,
            <<buffer, "monitor_max_buffer_points">>, <<profile, "profile_name">>,
            <<job, "job_type">>>>
    BY DEF General
  <2> HIDE DEF samples, rising, falling, points, both, bounds, buffer, profile, job
  <2> QED BY <2>1, <2>2, RefusableNames DEF Check
<1>2. SourceChecks(c) \in Seq(Check)
  <2> DEFINE offline == ~c.path /\ ~c.serial
             neither == ~c.serial /\ ~c.confirmed
             named == c.aliases # <<>> => c.profile = "afe/1"
             nopath == ~c.path
             unconfirmed == ~c.confirmed
  <2>1. /\ offline \in BOOLEAN /\ neither \in BOOLEAN /\ named \in BOOLEAN
        /\ nopath \in BOOLEAN /\ unconfirmed \in BOOLEAN
    OBVIOUS
  <2> DEFINE simulator == <<<<offline, "replay_path">>,
                            <<unconfirmed, "serial_confirm_read_only">>>>
             replay == <<<<c.path, "replay_path">>, <<neither, "serial_port">>>>
             serial == <<<<nopath, "replay_path">>, <<c.serial, "serial_port">>,
                         <<named, "serial_afe_adc_aliases">>,
                         <<c.confirmed, "serial_confirm_read_only">>>>
  <2>2. SourceChecks(c) = CASE c.source = "SIMULATOR" -> simulator
                            [] c.source = "CSV_REPLAY" -> replay
                            [] OTHER -> serial
    BY DEF SourceChecks
  <2> HIDE DEF offline, neither, named, nopath, unconfirmed
  <2>3. simulator \in Seq(Check)
    BY <2>1, RefusableNames DEF Check
  <2>4. replay \in Seq(Check)
    BY <2>1, RefusableNames DEF Check, Flags
  <2>5. serial \in Seq(Check)
    BY <2>1, RefusableNames DEF Check, Flags
  <2> HIDE DEF simulator, replay, serial
  <2> QED BY <2>2, <2>3, <2>4, <2>5
<1>3. JobChecks(c) \in Seq(Check)
  <2>1. FrequencyChecks(c) \in Seq(Check)
    <3> DEFINE n == c.n
               inside(f) == n.frequency_minimum_hz < f /\ f < n.frequency_maximum_hz
               apart == Distinct(<<c.channel.frequency, c.channel.primary,
                                   c.channel.secondary>>)
               target == 0 < n.frequency_minimum_hz /\ inside(n.target_cutoff_frequency_hz)
               simulated == inside(n.simulated_cutoff_frequency_hz)
               tolerance == /\ 0 <= n.cutoff_relative_tolerance
                            /\ n.cutoff_relative_tolerance < 1000
               drop == n.cutoff_drop_db > 0
               amplitude == n.frequency_input_amplitude \in 1..AmplitudeLimit(c.unit)
    <3>1. /\ target \in BOOLEAN /\ simulated \in BOOLEAN /\ tolerance \in BOOLEAN
          /\ drop \in BOOLEAN /\ amplitude \in BOOLEAN
      OBVIOUS
    <3>0. apart \in BOOLEAN
      BY DEF Distinct
    <3>2. FrequencyChecks(c) =
            <<<<apart, "secondary_channel">>, <<target, "target_cutoff_frequency_hz">>,
              <<simulated, "simulated_cutoff_frequency_hz">>,
              <<tolerance, "cutoff_relative_tolerance">>, <<drop, "cutoff_drop_db">>,
              <<amplitude, "frequency_input_amplitude">>>>
      BY DEF FrequencyChecks
    <3> HIDE DEF apart, target, simulated, tolerance, drop, amplitude
    <3> QED BY <3>0, <3>1, <3>2, RefusableNames DEF Check
  <2>2. MonitorChecks(c) \in Seq(Check)
    BY MonitorIsChecked
  <2> DEFINE unit == c.unit \in {"V", "mV"}
             state == c.operation = "DIGITAL" <=> c.unit = "bool"
             other(name) == c.channel.primary # c.channel[name]
             second == other("secondary")
             third == other("state")
  <2>3. /\ unit \in BOOLEAN /\ state \in BOOLEAN
        /\ second \in BOOLEAN /\ third \in BOOLEAN
    OBVIOUS
  <2>4. ASSUME NEW f \in Refusable PROVE NonNegative(c, f) \in Check
    <3>1. (c.n[f] >= 0) \in BOOLEAN
      OBVIOUS
    <3> QED BY <3>1 DEF NonNegative, Check
  <2> DEFINE errors == <<<<second, "secondary_channel">>,
                         NonNegative(c, "max_calibration_rmse"),
                         NonNegative(c, "max_calibration_mean_absolute_error"),
                         NonNegative(c, "max_calibration_absolute_error"),
                         NonNegative(c, "minimum_calibration_rmse_reduction")>>
             voltage == <<<<unit, "unit">>>>
  <2>5. JobChecks(c) =
          CASE c.job = "READ" -> <<<<state, "unit">>>>
            [] c.job = "DC_ANALYSIS" -> voltage \o <<<<second, "secondary_channel">>>>
            [] c.job = "CALIBRATION_ANALYSIS" -> voltage \o errors
            [] c.job = "FREQUENCY_RESPONSE_ANALYSIS" -> voltage \o FrequencyChecks(c)
            [] c.job = "LIVE_MONITOR" -> voltage \o MonitorChecks(c)
            [] OTHER -> voltage \o <<<<third, "state_channel">>>>
    BY DEF JobChecks
  <2> HIDE DEF unit, state, second, third
  <2>6. /\ voltage \in Seq(Check) /\ errors \in Seq(Check)
        /\ <<<<state, "unit">>>> \in Seq(Check)
        /\ <<<<second, "secondary_channel">>>> \in Seq(Check)
        /\ <<<<third, "state_channel">>>> \in Seq(Check)
    BY <2>3, <2>4, RefusableNames DEF Check
  <2> HIDE DEF voltage, errors
  <2> QED BY <2>1, <2>2, <2>5, <2>6, ChecksInTurn
<1>4. ConfigurationChecks(c) = General(c) \o SourceChecks(c) \o JobChecks(c)
  BY DEF ConfigurationChecks, General
<1>5. /\ General(c) \o SourceChecks(c) \in Seq(Check)
      /\ Holds(General(c) \o SourceChecks(c)) <=>
            Holds(General(c)) /\ Holds(SourceChecks(c))
  BY <1>1, <1>2, ChecksInTurn
<1>6. /\ General(c) \o SourceChecks(c) \o JobChecks(c) \in Seq(Check)
      /\ Holds(General(c) \o SourceChecks(c) \o JobChecks(c)) <=>
            Holds(General(c) \o SourceChecks(c)) /\ Holds(JobChecks(c))
  BY <1>3, <1>5, ChecksInTurn
<1> QED BY <1>1, <1>2, <1>3, <1>4, <1>5, <1>6

\* The configuration read from a form has its flags.
LEMMA FlagsOfConfiguration ==
  ASSUME NEW d, d.confirmed \in BOOLEAN
  PROVE  Flags(Configuration(d))
BY DEF Flags, Configuration

\* A form is accepted when every check on the way holds.
LEMMA AcceptedForm ==
  ASSUME NEW d, d.path \in BOOLEAN, d.port \in BOOLEAN, d.confirmed \in BOOLEAN
  PROVE  FormRefusal(d) = None
           <=> /\ Holds(ReadingChecks(d))
               /\ d.source = "SERIAL_READ_ONLY" => Holds(SerialSourceChecks(d))
               /\ Holds(ConfigurationChecks(Configuration(d)))
<1>1. Refused(ReadingChecks(d)) = None <=> Holds(ReadingChecks(d))
  BY ReadingIsChecked, NothingRefused
<1>2. Refused(SerialSourceChecks(d)) = None <=> Holds(SerialSourceChecks(d))
  BY SerialSourceIsChecked, NothingRefused
<1>3. Refused(ConfigurationChecks(Configuration(d))) = None
        <=> Holds(ConfigurationChecks(Configuration(d)))
  BY FlagsOfConfiguration, ConfigurationIsChecked, NothingRefused
<1> QED BY <1>1, <1>2, <1>3 DEF FormRefusal

\* What the checks say of a configuration.
LEMMA GeneralFacts ==
  ASSUME NEW c, Holds(General(c))
  PROVE  /\ c.n.sample_count \in 1..MaxSamples
         /\ c.n.replay_minimum < c.n.replay_maximum
         /\ c.source \in SupportedModes(c.profile)
         /\ c.job \in SupportedJobs(c.source)
<1>1. DOMAIN General(c) = 1..9
  BY DEF General
<1>2. General(c)[1][1] /\ General(c)[6][1] /\ General(c)[8][1] /\ General(c)[9][1]
  BY <1>1 DEF Holds
<1> QED BY <1>2 DEF General

\* A configuration of a serial source that passes was confirmed.
LEMMA SerialIsConfirmed ==
  ASSUME NEW c, Holds(SourceChecks(c)), c.source = "SERIAL_READ_ONLY"
  PROVE  c.confirmed
<1>1. DOMAIN SourceChecks(c) = 1..4
  BY DEF SourceChecks
<1>2. SourceChecks(c)[4][1]
  BY <1>1 DEF Holds
<1> QED BY <1>2 DEF SourceChecks

\* A live monitor that passes is bounded in measurements and in time.
LEMMA MonitorIsBounded ==
  ASSUME NEW c, Flags(c), Holds(JobChecks(c)), c.job = "LIVE_MONITOR"
  PROVE  /\ c.n.sample_count * EnabledChannels(c) <= MaxSamples
         /\ Cadence(c) + SerialWaitBudget(c) <= MaxDuration
<1>1. JobChecks(c) = <<<<c.unit \in {"V", "mV"}, "unit">>>> \o MonitorChecks(c)
  BY DEF JobChecks
<1>2. Holds(MonitorChecks(c))
  <2> DEFINE unit == c.unit \in {"V", "mV"}
  <2>1. unit \in BOOLEAN
    OBVIOUS
  <2> HIDE DEF unit
  <2>2. <<<<unit, "unit">>>> \in Seq(Check)
    BY <2>1, RefusableNames DEF Check
  <2>3. Holds(<<<<unit, "unit">>>> \o MonitorChecks(c))
    BY <1>1 DEF unit
  <2> QED BY <2>2, <2>3, MonitorIsChecked, ChecksInTurn
<1>3. DOMAIN MonitorChecks(c) = 1..7
  BY DEF MonitorChecks
<1>4. MonitorChecks(c)[6][1] /\ MonitorChecks(c)[7][1]
  BY <1>2, <1>3 DEF Holds
<1> QED BY <1>4 DEF MonitorChecks

(***************************************************************************)
(* Presets                                                                 *)
(***************************************************************************)

\* The draft made of a stored configuration reads as that configuration.
LEMMA PresetReadsBack ==
  ASSUME NEW d \in Draft, d.source # "SERIAL_READ_ONLY",
         LET c == Configuration(d) IN c.n.replay_minimum < c.n.replay_maximum
  PROVE  Configuration(DraftOf(Configuration(d))) = Configuration(d)
<1> DEFINE c == Configuration(d)
           e == DraftOf(c)
<1>1. /\ c.source = d.source /\ c.job = d.job /\ c.profile = d.profile
      /\ c.channel = d.channel /\ c.operation = d.operation /\ c.unit = d.unit
      /\ c.path = (d.source = "CSV_REPLAY") /\ c.include = d.include
      /\ c.serial = FALSE /\ c.aliases = <<>> /\ c.confirmed = FALSE
  BY DEF Configuration
<1>2. /\ e.source = c.source /\ e.job = c.job /\ e.profile = c.profile
      /\ e.channel = c.channel /\ e.operation = c.operation /\ e.unit = c.unit
      /\ e.path = c.path /\ e.include = c.include /\ e.confirmed = FALSE
      /\ e.text = [f \in Field |-> <<IF f \in SerialNumber THEN Default[f] ELSE c.n[f]>>]
  BY DEF DraftOf, NewDraft
<1>3. c.n = [f \in Field |-> c.n[f]]
  BY DEF Configuration
<1>4. \A f \in SerialNumber \cap Field : c.n[f] = Default[f]
  BY DEF Configuration
<1>5. BoundsUsable(e)
  <2>1. /\ e.text.replay_minimum = <<c.n.replay_minimum>>
        /\ e.text.replay_maximum = <<c.n.replay_maximum>>
    BY <1>2, FieldNames DEF SerialNumber
  <2> QED BY <2>1 DEF BoundsUsable
<1>6. Configuration(e).n =
        [f \in Field |-> IF f \in SerialNumber THEN Default[f] ELSE e.text[f][1]]
  <2>1. \A f \in Field : e.text[f] # <<>>
    BY <1>2
  <2>2. e.source # "SERIAL_READ_ONLY"
    BY <1>1, <1>2
  <2> HIDE DEF e
  <2> QED BY <1>5, <2>1, <2>2 DEF Configuration
<1>7. Configuration(e).n = c.n
  BY <1>2, <1>3, <1>4, <1>6
<1>8. /\ Configuration(e) =
            [source |-> e.source, job |-> e.job, profile |-> e.profile,
             channel |-> e.channel, operation |-> e.operation, unit |-> e.unit,
             n |-> Configuration(e).n, path |-> e.source = "CSV_REPLAY", serial |-> FALSE,
             aliases |-> <<>>, confirmed |-> FALSE, include |-> e.include]
      /\ c =
            [source |-> d.source, job |-> d.job, profile |-> d.profile,
             channel |-> d.channel, operation |-> d.operation, unit |-> d.unit,
             n |-> c.n, path |-> d.source = "CSV_REPLAY", serial |-> FALSE,
             aliases |-> <<>>, confirmed |-> FALSE, include |-> d.include]
  BY <1>1, <1>2 DEF Configuration
<1> HIDE DEF c, e
<1>9. Configuration(e) = c
  BY <1>1, <1>2, <1>7, <1>8
<1> QED BY <1>9 DEF c, e

\* A form that was accepted for an offline source can be stored as a preset
\* and loaded again, and then reads as the same configuration; one for a
\* serial source never loads (presets.py), whatever the form holds.
THEOREM PresetsKeepTheTest ==
  ASSUME NEW d \in Draft, FormRefusal(d) = None
  PROVE  PresetAccepted(Configuration(d)) <=> d.source # "SERIAL_READ_ONLY"
<1> DEFINE c == Configuration(d)
           e == DraftOf(c)
<1>0. d.path \in BOOLEAN /\ d.port \in BOOLEAN /\ d.confirmed \in BOOLEAN
  BY DEF Draft
<1>1. c.source = d.source /\ c.job = d.job /\ c.profile = d.profile
  BY DEF Configuration
<1>2. CASE d.source = "SERIAL_READ_ONLY"
  BY <1>1, <1>2 DEF PresetAccepted
<1>3. CASE d.source # "SERIAL_READ_ONLY"
  <2>1. Holds(ConfigurationChecks(c))
    BY <1>0, AcceptedForm
  <2>2. Holds(General(c))
    BY <1>0, <2>1, FlagsOfConfiguration, ConfigurationIsChecked
  <2>3. Configuration(e) = c
    BY <1>3, <2>2, GeneralFacts, PresetReadsBack
  <2>4. Compatible(e)
    <3>1. e.source = c.source /\ e.job = c.job /\ e.profile = c.profile
      BY DEF DraftOf, NewDraft
    <3> QED BY <2>2, <3>1, GeneralFacts DEF Compatible
  <2>5. Holds(ReadingChecks(e))
    <3>1. /\ e.source = c.source /\ e.path = c.path
          /\ e.text = [f \in Field |->
                          <<IF f \in SerialNumber THEN Default[f] ELSE c.n[f]>>]
      BY DEF DraftOf, NewDraft
    <3>2. \A f \in Field : e.text[f] # <<>>
      BY <3>1
    <3>3. BoundsUsable(e)
      <4>1. /\ e.text.replay_minimum = <<c.n.replay_minimum>>
            /\ e.text.replay_maximum = <<c.n.replay_maximum>>
        BY <3>1, FieldNames DEF SerialNumber
      <4> QED BY <2>2, <4>1, GeneralFacts DEF BoundsUsable
    <3>4. c.path = (c.source = "CSV_REPLAY")
      BY DEF Configuration
    <3>5. e.source # "SERIAL_READ_ONLY" /\ (e.source = "CSV_REPLAY" => e.path)
      BY <1>1, <1>3, <3>1, <3>4
    <3>6. e.path \in BOOLEAN /\ e.port \in BOOLEAN
      BY <3>1, <3>4 DEF DraftOf, NewDraft
    <3> HIDE DEF e
    <3> QED BY <3>2, <3>3, <3>5, <3>6, OfflineIsRead
  <2>6. e.path \in BOOLEAN /\ e.port \in BOOLEAN /\ e.confirmed \in BOOLEAN
    <3>1. c.path \in BOOLEAN
      BY <1>0, FlagsOfConfiguration DEF Flags
    <3> QED BY <3>1 DEF DraftOf, NewDraft
  <2>7. FormRefusal(e) = None
    <3>1. e.source # "SERIAL_READ_ONLY"
      BY <1>1, <1>3 DEF DraftOf, NewDraft
    <3> HIDE DEF e
    <3> QED BY <2>1, <2>3, <2>5, <2>6, <3>1, AcceptedForm
  <2>8. c.source \in {"SIMULATOR", "CSV_REPLAY"}
    BY <1>1, <1>3 DEF Draft, SourceMode
  <2> QED BY <1>3, <2>3, <2>4, <2>7, <2>8 DEF PresetAccepted
<1> QED BY <1>2, <1>3

(***************************************************************************)
(* The wizard                                                              *)
(***************************************************************************)

VARIABLE setup

\* The buttons and the selectors; the third page submits any form, and a
\* preset is any that a file can hold.
Operation ==
    \/ \E mode \in SourceMode : setup' = SelectSource(setup, mode)
    \/ \E profile \in Profile : setup' = SelectProfile(setup, profile)
    \/ \E job \in JobType : setup' = SelectJob(setup, job)
    \/ setup' = NextPage(setup)
    \/ setup' = Back(setup)
    \/ /\ "review" \in Buttons(setup)
       /\ \E d \in Draft, readable \in BOOLEAN : setup' = PrepareReview(setup, d, readable)
    \/ \E taken \in BOOLEAN : setup' = Run(setup, taken)
    \/ setup.step = "RUN" /\ setup' = Finish(setup)
    \/ \E readable \in BOOLEAN : setup' = ReviewSameSetup(setup, readable)
    \/ setup' = StartNewTest(setup)
    \/ \E found \in BOOLEAN : setup' = DiscoverPorts(setup, found)
    \/ \E d \in Draft : setup' = LoadPreset(setup, Configuration(d), setup.step # "RUN")

SetupSpec == setup = NewSetup /\ [][Operation]_setup

Reviewed == {"REVIEW", "RUN", "RESULT"}

SetupShape(s) ==
    /\ DOMAIN s = DOMAIN NewSetup
    /\ s.step \in WizardStep /\ s.draft \in Draft
    /\ s.reviewed \in BOOLEAN /\ s.issue \in BOOLEAN

\* The panel shows what the form selects, which the catalog allows.
Selection(s) == Compatible(s.draft) /\ s.panel = PanelOf(s.draft)

\* A job is held exactly on the pages that show or run it, and it is the one
\* of the form on display, which was accepted.
Held(s) ==
    /\ s.step \in Reviewed =>
          /\ s.prepared = <<Prepared(Configuration(s.draft))>>
          /\ s.reviewed
          /\ FormRefusal(s.draft) = None
          /\ Constructible(Configuration(s.draft))
    /\ s.step \notin Reviewed => s.prepared = <<>> /\ ~s.reviewed

SetupInv(s) == SetupShape(s) /\ Selection(s) /\ Held(s)

\* The form begins with numbers.
LEMMA DefaultsAreNumbers ==
  \A f \in Field : Default[f] \in Int
BY DEF Field, Default

\* The first form of the wizard is a form.
LEMMA NewDraftIsDraft ==
  NewDraft \in Draft
<1>1. [f \in Field |-> <<Default[f]>>] \in [Field -> Text]
  BY DefaultsAreNumbers DEF Text
<1>2. <<>> \in Seq(Name \X Name)
  OBVIOUS
<1> HIDE DEF Text
<1> QED BY <1>1, <1>2 DEF NewDraft, Draft, Name, SourceMode, JobType, Profile

\* A selection or a preset leaves a form.
LEMMA DraftKept ==
  ASSUME NEW d \in Draft
  PROVE  /\ \A job \in JobType :
              /\ WithJob(d, job) \in Draft
              /\ WithJob(d, job).source = d.source /\ WithJob(d, job).job = job
              /\ WithJob(d, job).profile = d.profile
         /\ DraftOf(Configuration(d)) \in Draft
<1>1. ASSUME NEW job \in JobType
      PROVE  /\ WithJob(d, job) \in Draft
             /\ WithJob(d, job).source = d.source /\ WithJob(d, job).job = job
             /\ WithJob(d, job).profile = d.profile
  <2> DEFINE e == [d EXCEPT !.job = job]
             analog == [e EXCEPT !.operation = "ANALOG",
                                 !.unit = IF @ = "bool" THEN "mV" ELSE @]
             text == [e.text EXCEPT !.sample_count = <<20>>,
                                    !.monitor_sample_interval_seconds = <<20>>,
                                    !.serial_read_timeout = <<50>>,
                                    !.serial_max_polls = <<4>>]
             none == [secondary |-> FALSE, state |-> FALSE]
             finite == [analog EXCEPT !.include = none, !.text = text]
  <2>1. e \in Draft /\ e.source = d.source /\ e.job = job /\ e.profile = d.profile
    BY DEF Draft
  <2>2. analog \in Draft /\ analog.source = d.source /\ analog.job = job
        /\ analog.profile = d.profile /\ analog.text = e.text
    <3>1. "ANALOG" \in Name /\ "mV" \in Name
      BY DEF Name
    <3> HIDE DEF e
    <3> QED BY <2>1, <3>1 DEF Draft
  <2>3. text \in [Field -> Text]
    <3>1. e.text \in [Field -> Text]
      BY <2>1 DEF Draft
    <3>2. <<20>> \in Text /\ <<50>> \in Text /\ <<4>> \in Text
      BY DEF Text
    <3> HIDE DEF e
    <3> QED BY <3>1, <3>2
  <2>4. finite \in Draft /\ finite.source = d.source /\ finite.job = job
        /\ finite.profile = d.profile
    <3> HIDE DEF analog, text
    <3> QED BY <2>2, <2>3 DEF Draft
  <2>5. WithJob(d, job) \in {e, analog, finite}
    BY <2>2 DEF WithJob, ForLiveMonitor
  <2> HIDE DEF e, analog, finite
  <2> QED BY <2>1, <2>2, <2>4, <2>5
<1>2. DraftOf(Configuration(d)) \in Draft
  <2> DEFINE c == Configuration(d)
             text == [f \in Field |-> <<IF f \in SerialNumber THEN Default[f] ELSE c.n[f]>>]
  <2>1. \A f \in Field : c.n[f] \in Int
    <3>1. \A f \in Field : d.text[f] # <<>> => d.text[f][1] \in Int
      BY DEF Draft, Text
    <3> QED BY <3>1, DefaultsAreNumbers DEF Configuration
  <2>2. text \in [Field -> Text]
    BY <2>1, DefaultsAreNumbers DEF Text
  <2>3. /\ c.source \in SourceMode /\ c.job \in JobType /\ c.profile \in Profile
        /\ c.channel \in [primary : Name, secondary : Name, state : Name, frequency : Name]
        /\ c.operation \in Name /\ c.unit \in Name /\ c.path \in BOOLEAN
        /\ c.include \in [secondary : BOOLEAN, state : BOOLEAN]
    BY DEF Configuration, Draft
  <2>4. DraftOf(c) = [NewDraft EXCEPT
            !.source = c.source, !.job = c.job, !.profile = c.profile,
            !.channel = c.channel, !.operation = c.operation, !.unit = c.unit,
            !.text = text, !.path = c.path, !.include = c.include]
    BY DEF DraftOf
  <2> HIDE DEF c, text
  <2>5. DraftOf(c) \in Draft
    BY <2>2, <2>3, <2>4, NewDraftIsDraft DEF Draft
  <2> QED BY <2>5 DEF c
<1> QED BY <1>1, <1>2

\* Setups with the same entries but for the issue keep the invariant together.
LEMMA SameButIssue ==
  ASSUME NEW s, SetupInv(s), NEW t,
         DOMAIN t = DOMAIN s, t.issue \in BOOLEAN,
         t.step = s.step, t.draft = s.draft, t.panel = s.panel,
         t.reviewed = s.reviewed, t.prepared = s.prepared
  PROVE  SetupInv(t)
BY DEF SetupInv, SetupShape, Selection, Held

\* The entries of a setup.
LEMMA SetupDomain ==
  DOMAIN NewSetup = {"step", "draft", "panel", "reviewed", "issue", "field", "prepared"}
BY DEF NewSetup

\* An issue changes nothing but what is said of it.
LEMMA IssueKept ==
  ASSUME NEW s, SetupInv(s)
  PROVE  /\ \A field : SetupInv(WithIssue(s, field))
         /\ SetupInv(NoIssue(s))
<1>1. DOMAIN s = {"step", "draft", "panel", "reviewed", "issue", "field", "prepared"}
  BY SetupDomain DEF SetupInv, SetupShape
<1>2. ASSUME NEW field PROVE SetupInv(WithIssue(s, field))
  <2> DEFINE t == WithIssue(s, field)
  <2>1. /\ DOMAIN t = DOMAIN s /\ t.issue = TRUE
        /\ t.step = s.step /\ t.draft = s.draft /\ t.panel = s.panel
        /\ t.reviewed = s.reviewed /\ t.prepared = s.prepared
    BY <1>1 DEF WithIssue
  <2> HIDE DEF t
  <2>2. SetupInv(t)
    BY <2>1, SameButIssue
  <2> QED BY <2>2 DEF t
<1>3. SetupInv(NoIssue(s))
  <2> DEFINE t == NoIssue(s)
  <2>1. /\ DOMAIN t = DOMAIN s /\ t.issue = FALSE
        /\ t.step = s.step /\ t.draft = s.draft /\ t.panel = s.panel
        /\ t.reviewed = s.reviewed /\ t.prepared = s.prepared
    BY <1>1 DEF NoIssue
  <2> HIDE DEF t
  <2>2. SetupInv(t)
    BY <2>1, SameButIssue
  <2> QED BY <2>2 DEF t
<1> QED BY <1>2, <1>3

\* What suffices of a setup on a page before the review.
LEMMA FormPage ==
  ASSUME NEW t, DOMAIN t = DOMAIN NewSetup, t.step \in {"SOURCE", "TEST", "CONFIGURATION"},
         t.draft \in Draft, t.issue \in BOOLEAN, t.reviewed = FALSE, t.prepared = <<>>,
         Compatible(t.draft), t.panel = PanelOf(t.draft)
  PROVE  SetupInv(t)
BY DEF SetupInv, SetupShape, Selection, Held, WizardStep, Reviewed

\* The selections on the first two pages.
LEMMA SelectionsKept ==
  ASSUME NEW s, SetupInv(s)
  PROVE  /\ \A mode \in SourceMode : SetupInv(SelectSource(s, mode))
         /\ \A profile \in Profile : SetupInv(SelectProfile(s, profile))
         /\ \A job \in JobType : SetupInv(SelectJob(s, job))
<1>0. /\ DOMAIN s = {"step", "draft", "panel", "reviewed", "issue", "field", "prepared"}
      /\ s.draft \in Draft /\ s.panel = PanelOf(s.draft) /\ Compatible(s.draft)
      /\ s.step \in {"SOURCE", "TEST"} => s.reviewed = FALSE /\ s.prepared = <<>>
  BY SetupDomain DEF SetupInv, SetupShape, Selection, Held, Reviewed
<1>1. ASSUME NEW mode \in SourceMode, s.step = "SOURCE"
      PROVE  SetupInv(SelectSource(s, mode))
  <2> DEFINE job == IF s.draft.job \in SupportedJobs(mode) THEN s.draft.job ELSE "READ"
             chosen == [s.draft EXCEPT !.source = mode, !.profile = "afe/1",
                                       !.confirmed = FALSE]
             d == WithJob(chosen, job)
             t == SelectSource(s, mode)
  <2>1. chosen \in Draft /\ chosen.source = mode /\ chosen.profile = "afe/1"
    BY <1>0 DEF Draft, Profile
  <2>2. job \in JobType /\ job \in SupportedJobs(mode)
    BY <1>0 DEF Draft, JobType, SupportedJobs
  <2>3. d \in Draft /\ d.source = mode /\ d.job = job /\ d.profile = "afe/1"
    <3> HIDE DEF chosen, job
    <3> QED BY <2>1, <2>2, DraftKept
  <2>4. PanelWithSource(s.panel, mode) = PanelOf(d)
    <3> HIDE DEF d
    <3> QED BY <1>0, <2>3 DEF PanelWithSource, PanelOf
  <2>5. /\ DOMAIN t = DOMAIN s /\ t.step = "SOURCE" /\ t.draft = d
        /\ t.panel = PanelWithSource(s.panel, mode) /\ t.issue = FALSE
        /\ t.reviewed = FALSE /\ t.prepared = <<>>
    BY <1>0, <1>1 DEF SelectSource, Unprepared, NoIssue
  <2> HIDE DEF d, t, job
  <2>6. Compatible(d)
    BY <2>2, <2>3 DEF Compatible, SupportedModes
  <2>7. SetupInv(t)
    BY <1>0, <2>3, <2>4, <2>5, <2>6, SetupDomain, FormPage
  <2> QED BY <2>7 DEF t
<1>2. ASSUME NEW profile \in Profile, s.step = "SOURCE",
             s.draft.source \in SupportedModes(profile)
      PROVE  SetupInv(SelectProfile(s, profile))
  <2> DEFINE primary == IF profile = "afe/1" THEN "input" ELSE "bus"
             d == [s.draft EXCEPT !.profile = profile, !.operation = "ANALOG",
                                  !.unit = "mV", !.channel.primary = primary]
             t == SelectProfile(s, profile)
  <2>1. d \in Draft /\ d.source = s.draft.source /\ d.profile = profile
        /\ d.job = s.draft.job
    <3>1. "ANALOG" \in Name /\ "mV" \in Name /\ primary \in Name
      BY DEF Name
    <3> HIDE DEF primary
    <3> QED BY <1>0, <3>1 DEF Draft
  <2>2. /\ DOMAIN t = DOMAIN s /\ t.step = "SOURCE" /\ t.draft = d
        /\ t.panel = [s.panel EXCEPT !.profile = profile] /\ t.issue = FALSE
        /\ t.reviewed = s.reviewed /\ t.prepared = <<>>
    BY <1>0, <1>2 DEF SelectProfile, NoIssue
  <2> HIDE DEF d, t
  <2>3. [s.panel EXCEPT !.profile = profile] = PanelOf(d)
    BY <1>0, <2>1 DEF PanelOf
  <2>4. Compatible(d)
    BY <1>0, <1>2, <2>1 DEF Compatible
  <2>5. SetupInv(t)
    BY <1>0, <1>2, <2>1, <2>2, <2>3, <2>4, SetupDomain, FormPage
  <2> QED BY <2>5 DEF t
<1>3. ASSUME NEW job \in JobType, s.step = "TEST", job \in SupportedJobs(s.draft.source)
      PROVE  SetupInv(SelectJob(s, job))
  <2> DEFINE d == WithJob(s.draft, job)
             t == SelectJob(s, job)
  <2>1. d \in Draft /\ d.source = s.draft.source /\ d.profile = s.draft.profile
        /\ d.job = job
    BY <1>0, DraftKept
  <2>2. /\ DOMAIN t = DOMAIN s /\ t.step = "TEST" /\ t.draft = d
        /\ t.panel = [s.panel EXCEPT !.job = job] /\ t.issue = FALSE
        /\ t.reviewed = s.reviewed /\ t.prepared = <<>>
    BY <1>0, <1>3 DEF SelectJob, NoIssue
  <2> HIDE DEF d, t
  <2>3. [s.panel EXCEPT !.job = job] = PanelOf(d)
    BY <1>0, <2>1 DEF PanelOf
  <2>4. Compatible(d)
    BY <1>0, <1>3, <2>1 DEF Compatible
  <2>5. SetupInv(t)
    BY <1>0, <1>3, <2>1, <2>2, <2>3, <2>4, SetupDomain, FormPage
  <2> QED BY <2>5 DEF t
<1> QED BY <1>1, <1>2, <1>3, IssueKept DEF SelectSource, SelectProfile, SelectJob

\* Turning a page forward or back; the way back from a review or a result
\* gives up the job.
LEMMA PagesKept ==
  ASSUME NEW s, SetupInv(s)
  PROVE  /\ SetupInv(NextPage(s)) /\ SetupInv(Back(s))
         /\ s.step = "RESULT" => Back(s).step = "CONFIGURATION" /\ Back(s).draft = s.draft
<1>0. /\ DOMAIN s = {"step", "draft", "panel", "reviewed", "issue", "field", "prepared"}
      /\ s.draft \in Draft /\ s.panel = PanelOf(s.draft) /\ Compatible(s.draft)
      /\ s.step \notin Reviewed => s.reviewed = FALSE /\ s.prepared = <<>>
  BY SetupDomain DEF SetupInv, SetupShape, Selection, Held
<1>1. ASSUME s.step \in {"SOURCE", "TEST"}
      PROVE  SetupInv(NextPage(s))
  <2> DEFINE t == NextPage(s)
  <2>1. /\ DOMAIN t = DOMAIN s /\ t.step \in {"TEST", "CONFIGURATION"}
        /\ t.draft = s.draft /\ t.panel = s.panel /\ t.issue = FALSE
        /\ t.reviewed = s.reviewed /\ t.prepared = s.prepared
    BY <1>0, <1>1 DEF NextPage, NoIssue
  <2> HIDE DEF t
  <2>2. SetupInv(t)
    BY <1>0, <1>1, <2>1, SetupDomain, FormPage DEF Reviewed
  <2> QED BY <2>2 DEF t
<1>2. ASSUME s.step \in {"TEST", "CONFIGURATION"}
      PROVE  SetupInv(Back(s))
  <2> DEFINE t == Back(s)
  <2>1. /\ DOMAIN t = DOMAIN s /\ t.step \in {"SOURCE", "TEST"}
        /\ t.draft = s.draft /\ t.panel = s.panel /\ t.issue = FALSE
        /\ t.reviewed = FALSE /\ t.prepared = s.prepared
    BY <1>0, <1>2 DEF Back, NoIssue
  <2> HIDE DEF t
  <2>2. SetupInv(t)
    BY <1>0, <1>2, <2>1, SetupDomain, FormPage DEF Reviewed
  <2> QED BY <2>2 DEF t
<1>3. ASSUME s.step \in {"REVIEW", "RESULT"}
      PROVE  SetupInv(Back(s)) /\ Back(s).step = "CONFIGURATION" /\ Back(s).draft = s.draft
  <2> DEFINE t == Back(s)
  <2>1. /\ DOMAIN t = DOMAIN s /\ t.step = "CONFIGURATION"
        /\ t.draft = s.draft /\ t.panel = s.panel /\ t.issue = FALSE
        /\ t.reviewed = FALSE /\ t.prepared = <<>>
    BY <1>0, <1>3 DEF Back, Unprepared, NoIssue
  <2> HIDE DEF t
  <2>2. SetupInv(t)
    BY <1>0, <1>3, <2>1, SetupDomain, FormPage
  <2> QED BY <2>1, <2>2 DEF t
<1>4. s.step \notin {"SOURCE", "TEST"} => SetupInv(NextPage(s))
  BY IssueKept DEF NextPage
<1>5. s.step \notin {"TEST", "CONFIGURATION", "REVIEW", "RESULT"} => SetupInv(Back(s))
  BY IssueKept DEF Back
<1> QED BY <1>1, <1>2, <1>3, <1>4, <1>5

\* The review of a form: it is refused and kept, or its job is held.
LEMMA ReviewKept ==
  ASSUME NEW s, SetupInv(s), s.step = "CONFIGURATION", NEW d \in Draft, NEW readable
  PROVE  SetupInv(PrepareReview(s, d, readable))
<1> DEFINE fallback == IF d.source = "CSV_REPLAY" THEN "replay_path" ELSE None
           c == Configuration(d)
           submitted == [NoIssue(s) EXCEPT !.draft = d]
           refused(u, field) == WithIssue([u EXCEPT !.prepared = <<>>], field)
           held == [submitted EXCEPT !.step = "REVIEW", !.reviewed = TRUE,
                                     !.prepared = <<Prepared(c)>>, !.panel = PanelOf(c)]
           same == PanelOf(d) = PanelOf(s.draft)
<1>0. /\ DOMAIN s = {"step", "draft", "panel", "reviewed", "issue", "field", "prepared"}
      /\ s.draft \in Draft /\ s.panel = PanelOf(s.draft) /\ Compatible(s.draft)
      /\ s.reviewed = FALSE /\ s.prepared = <<>>
  BY SetupDomain DEF SetupInv, SetupShape, Selection, Held, Reviewed
<1>1. ASSUME NEW field PROVE SetupInv(refused(s, field))
  <2> DEFINE t == refused(s, field)
  <2>1. /\ DOMAIN t = DOMAIN s /\ t.step = s.step /\ t.draft = s.draft
        /\ t.panel = s.panel /\ t.issue = TRUE /\ t.reviewed = s.reviewed
        /\ t.prepared = <<>>
    BY <1>0 DEF WithIssue
  <2> HIDE DEF t
  <2>2. SetupInv(t)
    BY <1>0, <2>1, SetupDomain, FormPage
  <2> QED BY <2>2 DEF t
<1>2. ASSUME same, NEW field PROVE SetupInv(refused(submitted, field))
  <2> DEFINE t == refused(submitted, field)
  <2>1. /\ DOMAIN t = DOMAIN s /\ t.step = s.step /\ t.draft = d
        /\ t.panel = s.panel /\ t.issue = TRUE /\ t.reviewed = s.reviewed
        /\ t.prepared = <<>>
    BY <1>0 DEF WithIssue, NoIssue
  <2> HIDE DEF t
  <2>2. Compatible(d)
    BY <1>0, <1>2 DEF Compatible, PanelOf
  <2>3. SetupInv(t)
    BY <1>0, <1>2, <2>1, <2>2, SetupDomain, FormPage
  <2> QED BY <2>3 DEF t
<1>3. ASSUME same, FormRefusal(d) = None, Constructible(c) PROVE SetupInv(held)
  <2>1. /\ DOMAIN held = DOMAIN s /\ held.step = "REVIEW" /\ held.draft = d
        /\ held.panel = PanelOf(c) /\ held.issue = FALSE /\ held.reviewed = TRUE
        /\ held.prepared = <<Prepared(c)>>
    <3> HIDE DEF c
    <3> QED BY <1>0 DEF NoIssue
  <2>2. Compatible(d)
    BY <1>0, <1>3 DEF Compatible, PanelOf
  <2>3. PanelOf(c) = PanelOf(d)
    BY DEF PanelOf, Configuration
  <2> HIDE DEF held
  <2>4. SetupShape(held)
    BY <1>0, <2>1, SetupDomain DEF SetupShape, WizardStep
  <2>5. Selection(held)
    BY <2>1, <2>2, <2>3 DEF Selection
  <2>6. Held(held)
    BY <1>3, <2>1 DEF Held, Reviewed
  <2> QED BY <2>4, <2>5, <2>6 DEF SetupInv
<1>4. PrepareReview(s, d, readable) =
        IF ~same THEN refused(s, fallback)
        ELSE IF FormRefusal(d) # None THEN refused(submitted, FormRefusal(d))
        ELSE IF ~Constructible(c) \/ (c.source = "CSV_REPLAY" /\ ~readable)
        THEN refused(submitted, fallback) ELSE held
  BY DEF PrepareReview
<1> HIDE DEF fallback, c, submitted, refused, held, same
<1> QED BY <1>1, <1>2, <1>3, <1>4

\* The run of the held job and its end.
LEMMA RunKept ==
  ASSUME NEW s, SetupInv(s)
  PROVE  /\ \A taken \in BOOLEAN : SetupInv(Run(s, taken))
         /\ s.step = "RUN" => SetupInv(Finish(s))
         /\ CanRun(s) => Run(s, TRUE).step = "RUN"
<1>0. /\ DOMAIN s = {"step", "draft", "panel", "reviewed", "issue", "field", "prepared"}
      /\ s.panel = PanelOf(s.draft) /\ s.issue \in BOOLEAN
      /\ s.prepared # <<>> =>
            s.step \in Reviewed /\ s.prepared[1] = Prepared(Configuration(s.draft))
  BY SetupDomain DEF SetupInv, SetupShape, Selection, Held
<1>1. ASSUME s.prepared # <<>>
      PROVE  PanelOf(s.prepared[1]) = s.panel
  BY <1>0, <1>1 DEF PanelOf, Prepared, Configuration
<1>2. ASSUME s.prepared # <<>>
      PROVE  LET begun == [s EXCEPT !.panel = PanelOf(s.prepared[1])]
             IN  /\ SetupInv(begun)
                 /\ \A step \in {"RUN", "RESULT"} : SetupInv([begun EXCEPT !.step = step])
                 /\ DOMAIN begun = DOMAIN s
  <2> DEFINE begun == [s EXCEPT !.panel = PanelOf(s.prepared[1])]
  <2>1. /\ DOMAIN begun = DOMAIN s /\ begun.step = s.step /\ begun.draft = s.draft
        /\ begun.panel = s.panel /\ begun.issue = s.issue /\ begun.reviewed = s.reviewed
        /\ begun.prepared = s.prepared
    BY <1>0, <1>1, <1>2
  <2> HIDE DEF begun
  <2>2. SetupInv(begun)
    BY <1>0, <2>1, SameButIssue
  <2>3. ASSUME NEW step \in {"RUN", "RESULT"} PROVE SetupInv([begun EXCEPT !.step = step])
    <3> DEFINE t == [begun EXCEPT !.step = step]
    <3>1. /\ DOMAIN t = DOMAIN s /\ t.step = step /\ t.draft = begun.draft
          /\ t.panel = begun.panel /\ t.issue = begun.issue
          /\ t.reviewed = begun.reviewed /\ t.prepared = begun.prepared
      BY <1>0, <2>1
    <3> HIDE DEF t
    <3>2. begun.step \in Reviewed
      BY <1>0, <1>2, <2>1
    <3>3. SetupInv(t)
      BY <2>1, <2>2, <3>1, <3>2
         DEF SetupInv, SetupShape, Selection, Held, Reviewed, WizardStep
    <3> QED BY <3>3 DEF t
  <2> QED BY <2>1, <2>2, <2>3 DEF begun
<1>3. ASSUME NEW taken \in BOOLEAN PROVE SetupInv(Run(s, taken))
  <2> DEFINE begun == [s EXCEPT !.panel = PanelOf(s.prepared[1])]
  <2>1. CASE s.prepared = <<>> \/ ~taken
    BY <2>1, IssueKept DEF Run
  <2>2. CASE s.prepared # <<>> /\ taken
    <3>1. SetupInv(begun) /\ SetupInv([begun EXCEPT !.step = "RUN"])
      BY <1>2, <2>2
    <3>2. Run(s, taken) = IF CanRun(s) THEN [begun EXCEPT !.step = "RUN"]
                          ELSE WithIssue(begun, None)
      BY <2>2 DEF Run
    <3> HIDE DEF begun
    <3>3. SetupInv(WithIssue(begun, None))
      BY <3>1, IssueKept
    <3> QED BY <3>1, <3>2, <3>3
  <2> QED BY <2>1, <2>2
<1>4. ASSUME s.step = "RUN" PROVE SetupInv(Finish(s))
  <2> DEFINE t == Finish(s)
  <2>1. /\ DOMAIN t = DOMAIN s /\ t.step = "RESULT" /\ t.draft = s.draft
        /\ t.panel = s.panel /\ t.issue = s.issue
        /\ t.reviewed = s.reviewed /\ t.prepared = s.prepared
    BY <1>0 DEF Finish
  <2> HIDE DEF t
  <2>2. SetupInv(t)
    BY <1>4, <2>1 DEF SetupInv, SetupShape, Selection, Held, Reviewed, WizardStep
  <2> QED BY <2>2 DEF t
<1>5. ASSUME CanRun(s) PROVE Run(s, TRUE).step = "RUN"
  <2> DEFINE begun == [s EXCEPT !.panel = PanelOf(s.prepared[1])]
  <2>1. s.prepared # <<>>
    BY <1>5 DEF CanRun, SetupInv, Held, Reviewed
  <2>2. Run(s, TRUE) = [begun EXCEPT !.step = "RUN"]
    BY <1>5, <2>1 DEF Run
  <2>3. "step" \in DOMAIN begun
    BY <1>0
  <2> QED BY <2>2, <2>3
<1> QED BY <1>3, <1>4, <1>5

\* A new test and a preset give up what was held and show another form.
LEMMA RestartKept ==
  ASSUME NEW s, SetupInv(s)
  PROVE  /\ SetupInv(StartNewTest(s))
         /\ \A d \in Draft, idle \in BOOLEAN : SetupInv(LoadPreset(s, Configuration(d), idle))
<1>0. DOMAIN s = {"step", "draft", "panel", "reviewed", "issue", "field", "prepared"}
  BY SetupDomain DEF SetupInv, SetupShape
<1>1. ASSUME s.step = "RESULT" PROVE SetupInv(StartNewTest(s))
  <2> DEFINE t == StartNewTest(s)
  <2>1. /\ DOMAIN t = DOMAIN s /\ t.step = "SOURCE" /\ t.draft = NewDraft
        /\ t.panel = PanelOf(NewDraft) /\ t.issue = FALSE
        /\ t.reviewed = FALSE /\ t.prepared = <<>>
    <3>1. StartNewTest(s) =
            [Unprepared(s) EXCEPT !.step = "SOURCE", !.draft = NewDraft,
                                  !.panel = PanelOf(NewDraft)]
      BY <1>1 DEF StartNewTest
    <3> QED BY <1>0, <3>1 DEF Unprepared, NoIssue
  <2> HIDE DEF t
  <2>2. Compatible(NewDraft)
    BY DEF Compatible, NewDraft, SupportedJobs, SupportedModes, JobType, SourceMode
  <2>3. SetupInv(t)
    BY <1>0, <2>1, <2>2, NewDraftIsDraft, SetupDomain, FormPage
  <2> QED BY <2>3 DEF t
<1>2. ASSUME NEW d \in Draft, NEW idle \in BOOLEAN
      PROVE  SetupInv(LoadPreset(s, Configuration(d), idle))
  <2> DEFINE c == Configuration(d)
             t == LoadPreset(s, c, idle)
             loaded == idle /\ PresetAccepted(c) /\ s.step # "RUN"
  <2>1. CASE ~loaded
    BY <2>1, IssueKept DEF LoadPreset
  <2>2. CASE loaded
    <3>1. /\ DOMAIN t = DOMAIN s /\ t.step = "CONFIGURATION" /\ t.draft = DraftOf(c)
          /\ t.panel = [PanelWithSource(s.panel, c.source) EXCEPT !.profile = c.profile,
                                                                  !.job = c.job]
          /\ t.issue = FALSE /\ t.reviewed = FALSE /\ t.prepared = <<>>
      <4> HIDE DEF c
      <4> QED BY <1>0, <2>2 DEF LoadPreset, Unprepared, NoIssue
    <3>2. DraftOf(c) \in Draft
      BY DraftKept
    <3>3. /\ DraftOf(c).source = c.source /\ DraftOf(c).job = c.job
          /\ DraftOf(c).profile = c.profile
      <4> HIDE DEF c
      <4> QED BY DEF DraftOf, NewDraft
    <3> HIDE DEF t, c
    <3>4. t.panel = PanelOf(t.draft)
      BY <3>1, <3>3 DEF PanelWithSource, PanelOf
    <3>5. Compatible(t.draft)
      BY <2>2, <3>1 DEF PresetAccepted
    <3>6. SetupInv(t)
      BY <1>0, <3>1, <3>2, <3>4, <3>5, SetupDomain, FormPage
    <3> QED BY <3>6 DEF t, c
  <2> QED BY <2>1, <2>2
<1>3. s.step # "RESULT" => SetupInv(StartNewTest(s))
  BY IssueKept DEF StartNewTest
<1> QED BY <1>1, <1>2, <1>3

\* The invariant holds of the first setup.
LEMMA FirstSetup ==
  SetupInv(NewSetup)
<1>1. Compatible(NewDraft)
  BY DEF Compatible, NewDraft, SupportedJobs, SupportedModes, JobType, SourceMode
<1>2. /\ NewSetup.step = "SOURCE" /\ NewSetup.draft = NewDraft /\ NewSetup.issue = FALSE
      /\ NewSetup.reviewed = FALSE /\ NewSetup.prepared = <<>>
      /\ NewSetup.panel = PanelOf(NewDraft)
  <2>1. /\ NewDraft.source = "SIMULATOR" /\ NewDraft.profile = "afe/1"
        /\ NewDraft.job = "READ"
    BY DEF NewDraft
  <2> QED BY <2>1 DEF NewSetup, PanelOf
<1> QED BY <1>1, <1>2, NewDraftIsDraft, FormPage

\* Every operation keeps the invariant.
LEMMA OperationsKeepSetup ==
  ASSUME SetupInv(setup), Operation
  PROVE  SetupInv(setup')
<1>1. CASE \E mode \in SourceMode : setup' = SelectSource(setup, mode)
  BY <1>1, SelectionsKept
<1>2. CASE \E profile \in Profile : setup' = SelectProfile(setup, profile)
  BY <1>2, SelectionsKept
<1>3. CASE \E job \in JobType : setup' = SelectJob(setup, job)
  BY <1>3, SelectionsKept
<1>4. CASE setup' = NextPage(setup) \/ setup' = Back(setup)
  BY <1>4, PagesKept
<1>5. CASE /\ "review" \in Buttons(setup)
           /\ \E d \in Draft, readable \in BOOLEAN :
                 setup' = PrepareReview(setup, d, readable)
  <2>1. setup.step = "CONFIGURATION"
    BY <1>5 DEF Buttons
  <2> QED BY <1>5, <2>1, ReviewKept
<1>6. CASE \E taken \in BOOLEAN : setup' = Run(setup, taken)
  BY <1>6, RunKept
<1>7. CASE setup.step = "RUN" /\ setup' = Finish(setup)
  BY <1>7, RunKept
<1>8. CASE \E readable \in BOOLEAN : setup' = ReviewSameSetup(setup, readable)
  <2>1. CASE setup.step # "RESULT"
    BY <1>8, <2>1, IssueKept DEF ReviewSameSetup
  <2>2. CASE setup.step = "RESULT"
    <3> DEFINE back == Back(setup)
    <3>1. SetupInv(back) /\ back.step = "CONFIGURATION" /\ setup.draft \in Draft
      BY <2>2, PagesKept DEF SetupInv, SetupShape
    <3>2. \E readable \in BOOLEAN : setup' = PrepareReview(back, setup.draft, readable)
      BY <1>8, <2>2 DEF ReviewSameSetup
    <3> HIDE DEF back
    <3> QED BY <3>1, <3>2, ReviewKept
  <2> QED BY <2>1, <2>2
<1>9. CASE setup' = StartNewTest(setup)
  BY <1>9, RestartKept
<1>10. CASE \E found \in BOOLEAN : setup' = DiscoverPorts(setup, found)
  BY <1>10, IssueKept DEF DiscoverPorts
<1>11. CASE \E d \in Draft :
               setup' = LoadPreset(setup, Configuration(d), setup.step # "RUN")
  BY <1>11, RestartKept
<1> QED BY <1>1, <1>2, <1>3, <1>4, <1>5, <1>6, <1>7, <1>8, <1>9, <1>10, <1>11 DEF Operation

SetupCorrect == SetupInv(setup)

\* After any operations in any order, with any forms and any presets: the
\* panel beside the wizard shows what the form selects and the catalog
\* allows, and a job is held exactly on the pages that show or run it, the
\* one of the accepted form on display (application.py, wizard.py).
THEOREM SetupInvariant == SetupSpec => []SetupCorrect
<1>1. setup = NewSetup => SetupCorrect
  BY FirstSetup DEF SetupCorrect
<1>2. SetupCorrect /\ [Operation]_setup => SetupCorrect'
  <2> SUFFICES ASSUME SetupCorrect, [Operation]_setup PROVE SetupCorrect'
    OBVIOUS
  <2>1. CASE Operation
    BY <2>1, OperationsKeepSetup DEF SetupCorrect
  <2>2. CASE UNCHANGED setup
    BY <2>2 DEF SetupCorrect
  <2> QED BY <2>1, <2>2
<1> QED BY <1>1, <1>2, PTL DEF SetupSpec

Serial == setup.draft.source = "SERIAL_READ_ONLY"

\* A serial source is reviewed and run only when its user confirmed that it
\* is receive-only, and no other source runs as if it had been.
SerialConfirmed ==
    setup.step \in Reviewed =>
        /\ Serial => setup.draft.confirmed
        /\ Configuration(setup.draft).confirmed <=> Serial

\* What is reviewed or run is bounded: its samples, and for a live monitor
\* its measurements and the time it can take, its waits for a serial device
\* included.
RunsBounded ==
    LET c == Configuration(setup.draft)
    IN  setup.step \in Reviewed =>
            /\ c.n.sample_count \in 1..MaxSamples
            /\ c.job = "LIVE_MONITOR" =>
                  /\ c.n.sample_count * EnabledChannels(c) <= MaxSamples
                  /\ Cadence(c) + SerialWaitBudget(c) <= MaxDuration

\* An accepted form passes every group of checks.
LEMMA AcceptedFacts ==
  ASSUME NEW d \in Draft, FormRefusal(d) = None
  PROVE  LET c == Configuration(d)
         IN  /\ Holds(General(c)) /\ Holds(SourceChecks(c)) /\ Holds(JobChecks(c))
             /\ Flags(c)
<1>1. d.path \in BOOLEAN /\ d.port \in BOOLEAN /\ d.confirmed \in BOOLEAN
  BY DEF Draft
<1> QED BY <1>1, AcceptedForm, FlagsOfConfiguration, ConfigurationIsChecked

\* Every run of a serial source was confirmed by its user (wizard.py).
THEOREM SerialRunsConfirmed == SetupSpec => []SerialConfirmed
<1>1. SetupCorrect => SerialConfirmed
  <2> SUFFICES ASSUME SetupCorrect, setup.step \in Reviewed
               PROVE  /\ Serial => setup.draft.confirmed
                      /\ Configuration(setup.draft).confirmed <=> Serial
    BY DEF SerialConfirmed
  <2> DEFINE c == Configuration(setup.draft)
  <2>1. setup.draft \in Draft /\ FormRefusal(setup.draft) = None
    BY DEF SetupCorrect, SetupInv, SetupShape, Held
  <2>2. Holds(SourceChecks(c))
    BY <2>1, AcceptedFacts
  <2>3. c.source = setup.draft.source /\ c.confirmed = (Serial /\ setup.draft.confirmed)
    BY DEF Configuration, Serial
  <2> HIDE DEF c
  <2>4. Serial => c.confirmed
    BY <2>2, <2>3, SerialIsConfirmed DEF Serial
  <2> QED BY <2>3, <2>4 DEF c
<1> QED BY <1>1, SetupInvariant, PTL

\* No run outlasts what its form was checked for (product_workflows.py).
THEOREM RunsAreBounded == SetupSpec => []RunsBounded
<1>1. SetupCorrect => RunsBounded
  <2> SUFFICES ASSUME SetupCorrect, setup.step \in Reviewed PROVE RunsBounded
    BY DEF RunsBounded
  <2> DEFINE c == Configuration(setup.draft)
  <2>1. setup.draft \in Draft /\ FormRefusal(setup.draft) = None
    BY DEF SetupCorrect, SetupInv, SetupShape, Held
  <2>2. Holds(General(c)) /\ Holds(JobChecks(c)) /\ Flags(c)
    BY <2>1, AcceptedFacts
  <2> HIDE DEF c
  <2>3. /\ c.n.sample_count \in 1..MaxSamples
        /\ c.job = "LIVE_MONITOR" =>
              /\ c.n.sample_count * EnabledChannels(c) <= MaxSamples
              /\ Cadence(c) + SerialWaitBudget(c) <= MaxDuration
    BY <2>2, GeneralFacts, MonitorIsBounded
  <2> QED BY <2>3 DEF RunsBounded, c
<1> QED BY <1>1, SetupInvariant, PTL

\* A run starts only from a review without an issue, with the job on display;
\* while it lasts no operation turns the page, except to its result, and the
\* form, the panel and the job stay those of the run.
SameTest(s, t) == t.draft = s.draft /\ t.prepared = s.prepared /\ t.panel = s.panel

RunIsOfReview(s, t) ==
    /\ t.step = "RUN" /\ s.step # "RUN" => CanRun(s) /\ SameTest(s, t)
    /\ s.step = "RUN" => t.step \in {"RUN", "RESULT"} /\ SameTest(s, t)

\* An issue is of no consequence to it.
LEMMA IssueTurnsNoPage ==
  ASSUME NEW s, SetupInv(s)
  PROVE  /\ \A field : RunIsOfReview(s, WithIssue(s, field))
         /\ RunIsOfReview(s, NoIssue(s))
<1>1. DOMAIN s = {"step", "draft", "panel", "reviewed", "issue", "field", "prepared"}
  BY SetupDomain DEF SetupInv, SetupShape
<1>2. ASSUME NEW field PROVE RunIsOfReview(s, WithIssue(s, field))
  <2> DEFINE t == WithIssue(s, field)
  <2>1. t.step = s.step /\ SameTest(s, t)
    BY <1>1 DEF WithIssue, SameTest
  <2> HIDE DEF t
  <2>2. RunIsOfReview(s, t)
    BY <2>1 DEF RunIsOfReview
  <2> QED BY <2>2 DEF t
<1>3. NoIssue(s).step = s.step /\ SameTest(s, NoIssue(s))
  BY <1>1 DEF NoIssue, SameTest
<1> QED BY <1>2, <1>3 DEF RunIsOfReview

\* No operation but Run reaches the page of the run.
LEMMA OtherPages ==
  ASSUME NEW s, SetupInv(s), s.step # "RUN"
  PROVE  /\ \A mode \in SourceMode : s.step = "SOURCE" => SelectSource(s, mode).step # "RUN"
         /\ \A profile \in Profile :
              s.step = "SOURCE" /\ s.draft.source \in SupportedModes(profile) =>
                 SelectProfile(s, profile).step # "RUN"
         /\ \A job \in JobType :
              s.step = "TEST" /\ job \in SupportedJobs(s.draft.source) =>
                 SelectJob(s, job).step # "RUN"
         /\ s.step \in {"SOURCE", "TEST"} => NextPage(s).step # "RUN"
         /\ s.step \in {"TEST", "CONFIGURATION", "REVIEW", "RESULT"} => Back(s).step # "RUN"
         /\ s.step = "RESULT" => StartNewTest(s).step # "RUN"
         /\ \A d \in Draft, readable \in BOOLEAN :
              s.step = "CONFIGURATION" => PrepareReview(s, d, readable).step # "RUN"
<1>0. DOMAIN s = {"step", "draft", "panel", "reviewed", "issue", "field", "prepared"}
  BY SetupDomain DEF SetupInv, SetupShape
<1>1. \A mode \in SourceMode : s.step = "SOURCE" => SelectSource(s, mode).step = "SOURCE"
  BY <1>0 DEF SelectSource, Unprepared, NoIssue
<1>2. \A profile \in Profile :
        s.step = "SOURCE" /\ s.draft.source \in SupportedModes(profile) =>
           SelectProfile(s, profile).step = "SOURCE"
  BY <1>0 DEF SelectProfile, NoIssue
<1>3. \A job \in JobType :
        s.step = "TEST" /\ job \in SupportedJobs(s.draft.source) =>
           SelectJob(s, job).step = "TEST"
  BY <1>0 DEF SelectJob, NoIssue
<1>4. s.step \in {"SOURCE", "TEST"} => NextPage(s).step \in {"TEST", "CONFIGURATION"}
  BY <1>0 DEF NextPage, NoIssue
<1>5. s.step \in {"TEST", "CONFIGURATION", "REVIEW", "RESULT"} =>
        Back(s).step \in {"SOURCE", "TEST", "CONFIGURATION"}
  BY <1>0 DEF Back, Unprepared, NoIssue
<1>6. s.step = "RESULT" => StartNewTest(s).step = "SOURCE"
  BY <1>0 DEF StartNewTest, Unprepared, NoIssue
<1>7. ASSUME NEW d \in Draft, NEW readable \in BOOLEAN, s.step = "CONFIGURATION"
      PROVE  PrepareReview(s, d, readable).step # "RUN"
  <2> DEFINE c == Configuration(d)
             job == Prepared(c)
             panel == PanelOf(c)
             submitted == [NoIssue(s) EXCEPT !.draft = d]
  <2>1. /\ \A field : WithIssue([s EXCEPT !.prepared = <<>>], field).step = s.step
        /\ \A field : WithIssue([submitted EXCEPT !.prepared = <<>>], field).step = s.step
    BY <1>0 DEF WithIssue, NoIssue
  <2>2. [submitted EXCEPT !.step = "REVIEW", !.reviewed = TRUE,
                          !.prepared = <<job>>, !.panel = panel].step = "REVIEW"
    <3> HIDE DEF job, panel
    <3> QED BY <1>0 DEF NoIssue
  <2> QED BY <1>7, <2>1, <2>2 DEF PrepareReview
<1> QED BY <1>1, <1>2, <1>3, <1>4, <1>5, <1>6, <1>7

\* Every operation keeps to the page order of a run.
LEMMA OperationsTurnPages ==
  ASSUME SetupInv(setup), Operation
  PROVE  RunIsOfReview(setup, setup')
<1>0. \A t : setup.step # "RUN" /\ t.step # "RUN" => RunIsOfReview(setup, t)
  BY DEF RunIsOfReview
<1>1. CASE \E mode \in SourceMode : setup' = SelectSource(setup, mode)
  <2>1. CASE setup.step = "SOURCE"
    BY <1>0, <1>1, <2>1, OtherPages
  <2>2. CASE setup.step # "SOURCE"
    BY <1>1, <2>2, IssueTurnsNoPage DEF SelectSource
  <2> QED BY <2>1, <2>2
<1>2. CASE \E profile \in Profile : setup' = SelectProfile(setup, profile)
  <2> PICK profile \in Profile : setup' = SelectProfile(setup, profile)
    BY <1>2
  <2>1. CASE setup.step = "SOURCE" /\ setup.draft.source \in SupportedModes(profile)
    BY <1>0, <2>1, OtherPages
  <2>2. CASE ~(setup.step = "SOURCE" /\ setup.draft.source \in SupportedModes(profile))
    BY <2>2, IssueTurnsNoPage DEF SelectProfile
  <2> QED BY <2>1, <2>2
<1>3. CASE \E job \in JobType : setup' = SelectJob(setup, job)
  <2> PICK job \in JobType : setup' = SelectJob(setup, job)
    BY <1>3
  <2>1. CASE setup.step = "TEST" /\ job \in SupportedJobs(setup.draft.source)
    BY <1>0, <2>1, OtherPages
  <2>2. CASE ~(setup.step = "TEST" /\ job \in SupportedJobs(setup.draft.source))
    BY <2>2, IssueTurnsNoPage DEF SelectJob
  <2> QED BY <2>1, <2>2
<1>4. CASE setup' = NextPage(setup)
  <2>1. CASE setup.step \in {"SOURCE", "TEST"}
    BY <1>0, <1>4, <2>1, OtherPages
  <2>2. CASE setup.step \notin {"SOURCE", "TEST"}
    BY <1>4, <2>2, IssueTurnsNoPage DEF NextPage
  <2> QED BY <2>1, <2>2
<1>5. CASE setup' = Back(setup)
  <2>1. CASE setup.step \in {"TEST", "CONFIGURATION", "REVIEW", "RESULT"}
    BY <1>0, <1>5, <2>1, OtherPages
  <2>2. CASE setup.step \notin {"TEST", "CONFIGURATION", "REVIEW", "RESULT"}
    BY <1>5, <2>2, IssueTurnsNoPage DEF Back
  <2> QED BY <2>1, <2>2
<1>6. CASE /\ "review" \in Buttons(setup)
           /\ \E d \in Draft, readable \in BOOLEAN :
                 setup' = PrepareReview(setup, d, readable)
  <2>1. setup.step = "CONFIGURATION"
    BY <1>6 DEF Buttons
  <2> QED BY <1>0, <1>6, <2>1, OtherPages
<1>7. CASE \E taken \in BOOLEAN : setup' = Run(setup, taken)
  <2> DEFINE begun == [setup EXCEPT !.panel = PanelOf(setup.prepared[1])]
  <2>1. /\ DOMAIN setup = DOMAIN NewSetup
        /\ setup.panel = PanelOf(setup.draft)
    BY DEF SetupInv, SetupShape, Selection
  <2>2. CASE setup.prepared = <<>> \/ setup' = WithIssue(setup, None)
    BY <1>7, <2>2, IssueTurnsNoPage DEF Run
  <2>3. CASE setup.prepared # <<>> /\ setup' # WithIssue(setup, None)
    <3>1. setup' = IF CanRun(setup) THEN [begun EXCEPT !.step = "RUN"]
                   ELSE WithIssue(begun, None)
      BY <1>7, <2>3 DEF Run
    <3>2. PanelOf(setup.prepared[1]) = setup.panel
      <4>1. setup.prepared = <<Prepared(Configuration(setup.draft))>>
        BY <2>3 DEF SetupInv, Held
      <4> QED BY <2>1, <4>1 DEF PanelOf, Prepared, Configuration
    <3>3. /\ DOMAIN begun = DOMAIN setup /\ begun.step = setup.step
          /\ SameTest(setup, begun)
      BY <2>1, <3>2, SetupDomain DEF SameTest
    <3> HIDE DEF begun
    <3>4. CASE CanRun(setup)
      <4>1. setup'.step = "RUN" /\ SameTest(setup, setup')
        BY <2>1, <3>1, <3>3, <3>4, SetupDomain DEF SameTest
      <4>2. setup.step = "REVIEW"
        BY <3>4 DEF CanRun
      <4> QED BY <3>4, <4>1, <4>2 DEF RunIsOfReview
    <3>5. CASE ~CanRun(setup)
      <4>1. setup'.step = setup.step /\ SameTest(setup, setup')
        BY <2>1, <3>1, <3>3, <3>5, SetupDomain DEF SameTest, WithIssue
      <4> QED BY <4>1 DEF RunIsOfReview
    <3> QED BY <3>4, <3>5
  <2> QED BY <2>2, <2>3
<1>8. CASE setup.step = "RUN" /\ setup' = Finish(setup)
  <2>1. setup'.step = "RESULT" /\ SameTest(setup, setup')
    BY <1>8, SetupDomain DEF SetupInv, SetupShape, Finish, SameTest
  <2> QED BY <1>8, <2>1 DEF RunIsOfReview
<1>9. CASE \E readable \in BOOLEAN : setup' = ReviewSameSetup(setup, readable)
  <2>1. CASE setup.step # "RESULT"
    BY <1>9, <2>1, IssueTurnsNoPage DEF ReviewSameSetup
  <2>2. CASE setup.step = "RESULT"
    <3> DEFINE back == Back(setup)
    <3>1. SetupInv(back) /\ back.step = "CONFIGURATION" /\ setup.draft \in Draft
      BY <2>2, PagesKept DEF SetupInv, SetupShape
    <3>2. \E readable \in BOOLEAN : setup' = PrepareReview(back, setup.draft, readable)
      BY <1>9, <2>2 DEF ReviewSameSetup
    <3> HIDE DEF back
    <3>3. setup'.step # "RUN"
      BY <3>1, <3>2, OtherPages
    <3> QED BY <1>0, <2>2, <3>3
  <2> QED BY <2>1, <2>2
<1>10. CASE setup' = StartNewTest(setup)
  <2>1. CASE setup.step = "RESULT"
    BY <1>0, <1>10, <2>1, OtherPages
  <2>2. CASE setup.step # "RESULT"
    BY <1>10, <2>2, IssueTurnsNoPage DEF StartNewTest
  <2> QED BY <2>1, <2>2
<1>11. CASE \E found \in BOOLEAN : setup' = DiscoverPorts(setup, found)
  BY <1>11, IssueTurnsNoPage DEF DiscoverPorts
<1>12. CASE \E d \in Draft :
               setup' = LoadPreset(setup, Configuration(d), setup.step # "RUN")
  <2> PICK d \in Draft : setup' = LoadPreset(setup, Configuration(d), setup.step # "RUN")
    BY <1>12
  <2> DEFINE c == Configuration(d)
             loaded == PresetAccepted(c) /\ setup.step # "RUN"
  <2>1. CASE ~loaded
    BY <2>1, IssueTurnsNoPage DEF LoadPreset
  <2>2. CASE loaded
    <3>1. LoadPreset(setup, c, setup.step # "RUN").step = "CONFIGURATION"
      <4>1. DOMAIN setup = DOMAIN NewSetup
        BY DEF SetupInv, SetupShape
      <4> HIDE DEF c
      <4> QED BY <2>2, <4>1, SetupDomain DEF LoadPreset, Unprepared, NoIssue
    <3>2. setup'.step # "RUN"
      BY <3>1
    <3> QED BY <1>0, <2>2, <3>2
  <2> QED BY <2>1, <2>2
<1> QED BY <1>1, <1>2, <1>3, <1>4, <1>5, <1>6, <1>7, <1>8, <1>9, <1>10, <1>11, <1>12
        DEF Operation

\* The form that was reviewed is the one that runs, and a run freezes it
\* (application.py, wizard.py).
THEOREM RunsAreOfTheirReview == SetupSpec => [][RunIsOfReview(setup, setup')]_setup
<1>1. SetupCorrect /\ [Operation]_setup => [RunIsOfReview(setup, setup')]_setup
  BY OperationsTurnPages DEF SetupCorrect
<1> QED BY <1>1, SetupInvariant, PTL DEF SetupSpec

\* An enabled button is never refused by the page behind it, where the ports it
\* looks for can be enumerated and the worker takes the job.
ButtonsWork ==
    /\ "next" \in Buttons(setup) => ~NextPage(setup).issue
    /\ Buttons(setup) \cap {"back", "modify"} # {} => ~Back(setup).issue
    /\ "new" \in Buttons(setup) => ~StartNewTest(setup).issue
    /\ "discover" \in Buttons(setup) => ~DiscoverPorts(setup, TRUE).issue
    /\ "run" \in Buttons(setup) => Run(setup, TRUE).step = "RUN"

\* What the widgets enable is what the pages accept (widgets.py, wizard.py).
THEOREM EnabledButtonsWork == SetupSpec => []ButtonsWork
<1>1. SetupCorrect => ButtonsWork
  <2> SUFFICES ASSUME SetupCorrect PROVE ButtonsWork
    OBVIOUS
  <2>0. DOMAIN setup = {"step", "draft", "panel", "reviewed", "issue", "field", "prepared"}
    BY SetupDomain DEF SetupCorrect, SetupInv, SetupShape
  <2>1. "next" \in Buttons(setup) => ~NextPage(setup).issue
    BY <2>0 DEF Buttons, NextPage, NoIssue
  <2>2. Buttons(setup) \cap {"back", "modify"} # {} => ~Back(setup).issue
    <3>1. Buttons(setup) \cap {"back", "modify"} # {} =>
            setup.step \in {"TEST", "CONFIGURATION", "REVIEW", "RESULT"}
      BY DEF Buttons
    <3> QED BY <2>0, <3>1 DEF Back, Unprepared, NoIssue
  <2>3. "new" \in Buttons(setup) => ~StartNewTest(setup).issue
    BY <2>0 DEF Buttons, StartNewTest, Unprepared, NoIssue
  <2>4. "discover" \in Buttons(setup) => ~DiscoverPorts(setup, TRUE).issue
    BY <2>0 DEF Buttons, DiscoverPorts, NoIssue
  <2>5. "run" \in Buttons(setup) => Run(setup, TRUE).step = "RUN"
    BY RunKept DEF Buttons, SetupCorrect
  <2> QED BY <2>1, <2>2, <2>3, <2>4, <2>5 DEF ButtonsWork
<1> QED BY <1>1, SetupInvariant, PTL
================================================================================
