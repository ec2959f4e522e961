------------------------------- MODULE SetupPages -------------------------------
(***************************************************************************)
(* The wizard's pages and the panel beside them, from the choice of a      *)
(* source to the result of the run and back (dashboard/wizard.py,          *)
(* application.py, presenter.py, widgets.py).  Dashboard follows the run   *)
(* itself; this module follows the form, its review and what was prepared  *)
(* from it.                                                                *)
(*                                                                         *)
(* s = [step, draft, panel, reviewed, issue, field, prepared]; prepared is *)
(* <<job>>, or <<>> while none is held.                                    *)
(***************************************************************************)
EXTENDS ProductSetup

WizardStep == {"SOURCE", "TEST", "CONFIGURATION", "REVIEW", "RUN", "RESULT"}

NewSetup ==
    [step |-> "SOURCE", draft |-> NewDraft,
     panel |-> [source |-> "SIMULATOR", profile |-> "afe/1", job |-> "READ"],
     reviewed |-> FALSE, issue |-> FALSE, field |-> None, prepared |-> <<>>]

CanRun(s) == s.step = "REVIEW" /\ s.reviewed /\ ~s.issue

WithIssue(s, field) == [s EXCEPT !.issue = TRUE, !.field = field]

NoIssue(s) == [s EXCEPT !.issue = FALSE, !.field = None]

Unprepared(s) == [NoIssue(s) EXCEPT !.reviewed = FALSE, !.prepared = <<>>]

\* the selection shown beside the wizard
PanelOf(d) == [source |-> d.source, profile |-> d.profile, job |-> d.job]

PanelWithSource(panel, mode) ==
    [source |-> mode, profile |-> "afe/1",
     job |-> IF panel.job \in SupportedJobs(mode) THEN panel.job ELSE "READ"]

\* a test that enters the live monitor is made finite
ForLiveMonitor(d) ==
    LET analog == [d EXCEPT !.operation = "ANALOG",
                            !.unit = IF @ = "bool" THEN "mV" ELSE @]
    IN  IF d.source # "SERIAL_READ_ONLY" THEN analog
        ELSE [analog EXCEPT
                !.include = [secondary |-> FALSE, state |-> FALSE],
                !.text = [@ EXCEPT !.sample_count = <<20>>,
                                   !.monitor_sample_interval_seconds = <<20>>,
                                   !.serial_read_timeout = <<50>>,
                                   !.serial_max_polls = <<4>>]]

WithJob(d, job) ==
    IF job = "LIVE_MONITOR" THEN ForLiveMonitor([d EXCEPT !.job = job])
    ELSE [d EXCEPT !.job = job]

--------------------------------------------------------------------------------
(* The selections *)

SelectSource(s, mode) ==
    IF s.step # "SOURCE" THEN WithIssue(s, None)
    ELSE LET job == IF s.draft.job \in SupportedJobs(mode) THEN s.draft.job ELSE "READ"
             chosen == [s.draft EXCEPT !.source = mode, !.profile = "afe/1",
                                       !.confirmed = FALSE]
         IN  [Unprepared(s) EXCEPT !.draft = WithJob(chosen, job),
                                   !.panel = PanelWithSource(@, mode)]

SelectProfile(s, profile) ==
    IF s.step # "SOURCE" \/ s.draft.source \notin SupportedModes(profile)
    THEN WithIssue(s, None)
    ELSE [NoIssue(s) EXCEPT
            !.draft = [@ EXCEPT !.profile = profile, !.operation = "ANALOG",
                                !.unit = "mV",
                                !.channel.primary = IF profile = "afe/1" THEN "input"
                                                    ELSE "bus"],
            !.panel.profile = profile, !.prepared = <<>>]

SelectJob(s, job) ==
    IF s.step # "TEST" \/ job \notin SupportedJobs(s.draft.source)
    THEN WithIssue(s, None)
    ELSE [NoIssue(s) EXCEPT !.draft = WithJob(@, job), !.panel.job = job,
                            !.prepared = <<>>]

NextPage(s) ==
    CASE s.step = "SOURCE" -> [NoIssue(s) EXCEPT !.step = "TEST"]
      [] s.step = "TEST" -> [NoIssue(s) EXCEPT !.step = "CONFIGURATION"]
      [] OTHER -> WithIssue(s, None)

\* also the step back from a result, which keeps what is displayed
Back(s) ==
    CASE s.step = "TEST" -> [NoIssue(s) EXCEPT !.step = "SOURCE", !.reviewed = FALSE]
      [] s.step = "CONFIGURATION" ->
            [NoIssue(s) EXCEPT !.step = "TEST", !.reviewed = FALSE]
      [] s.step \in {"REVIEW", "RESULT"} ->
            [Unprepared(s) EXCEPT !.step = "CONFIGURATION"]
      [] OTHER -> WithIssue(s, None)

--------------------------------------------------------------------------------
(* The review and the run *)

(* prepare_review.  A form that is refused is kept; an error that names no *)
(* field points at the file of a replay.                                   *)
PrepareReview(s, d, readable) ==
    LET fallback == IF d.source = "CSV_REPLAY" THEN "replay_path" ELSE None
        submitted == [NoIssue(s) EXCEPT !.draft = d]
        refused(t, field) == WithIssue([t EXCEPT !.prepared = <<>>], field)
        form == FormRefusal(d)
        c == Configuration(d)
    IN  IF s.step # "CONFIGURATION" \/ PanelOf(d) # PanelOf(s.draft)
        THEN refused(s, fallback)
        ELSE IF form # None THEN refused(submitted, form)
        ELSE IF ~Constructible(c) \/ (c.source = "CSV_REPLAY" /\ ~readable)
        THEN refused(submitted, fallback)
        ELSE [submitted EXCEPT !.step = "REVIEW", !.reviewed = TRUE,
                               !.prepared = <<Prepared(c)>>, !.panel = PanelOf(c)]

\* the worker took the job, or refused it; a job that the worker took runs
\* even if the wizard then refuses to turn the page
Run(s, taken) ==
    IF s.prepared = <<>> \/ ~taken THEN WithIssue(s, None)
    ELSE LET begun == [s EXCEPT !.panel = PanelOf(s.prepared[1])]
         IN  IF CanRun(s) THEN [begun EXCEPT !.step = "RUN"]
             ELSE WithIssue(begun, None)

Finish(s) == [s EXCEPT !.step = "RESULT"]

ReviewSameSetup(s, readable) ==
    IF s.step # "RESULT" THEN WithIssue(s, None)
    ELSE PrepareReview(Back(s), s.draft, readable)

StartNewTest(s) ==
    IF s.step # "RESULT" THEN WithIssue(s, None)
    ELSE [Unprepared(s) EXCEPT !.step = "SOURCE", !.draft = NewDraft,
                               !.panel = PanelOf(NewDraft)]

\* c: what the preset holds; idle: no job runs
LoadPreset(s, c, idle) ==
    IF ~idle \/ ~PresetAccepted(c) \/ s.step = "RUN" THEN WithIssue(s, None)
    ELSE [Unprepared(s) EXCEPT
            !.step = "CONFIGURATION", !.draft = DraftOf(c),
            !.panel = [PanelWithSource(@, c.source) EXCEPT !.profile = c.profile,
                                                           !.job = c.job]]

\* found: the ports could be enumerated
DiscoverPorts(s, found) ==
    IF s.draft.source = "SERIAL_READ_ONLY" /\ found THEN NoIssue(s)
    ELSE WithIssue(s, None)

--------------------------------------------------------------------------------
(* What the widgets let the user press and edit *)

Buttons(s) ==
    {b \in {"back", "next", "review", "run", "discover", "modify", "repeat", "new"} :
        CASE b = "back" -> s.step \in {"TEST", "CONFIGURATION", "REVIEW"}
          [] b = "next" -> s.step \in {"SOURCE", "TEST"}
          [] b = "review" -> s.step = "CONFIGURATION"
          [] b = "run" -> CanRun(s)
          [] b = "discover" -> /\ s.draft.source = "SERIAL_READ_ONLY"
                               /\ s.step \in {"SOURCE", "CONFIGURATION"}
          [] OTHER -> s.step = "RESULT"}

\* the tests and the sources for which the control of a field is enabled
EditableFor(f) ==
    LET only(jobs, sources) == [jobs |-> jobs, sources |-> sources]
        analysis(job) == only({job}, SourceMode)
    IN  CASE f \in {"primary_channel", "unit"} -> only(JobType, SourceMode)
          [] f = "secondary_channel" ->
                only({"DC_ANALYSIS", "CALIBRATION_ANALYSIS",
                      "FREQUENCY_RESPONSE_ANALYSIS", "LIVE_MONITOR"}, SourceMode)
          [] f = "state_channel" ->
                only({"HYSTERESIS_ANALYSIS", "LIVE_MONITOR"}, SourceMode)
          [] f = "operation" -> analysis("READ")
          [] f = "sample_count" ->
                only({"READ", "DC_ANALYSIS", "CALIBRATION_ANALYSIS", "LIVE_MONITOR"},
                     SourceMode)
          [] f \in {"low_output_limit", "high_output_limit", "target_gain",
                    "gain_tolerance", "max_abs_offset", "min_r_squared", "max_rmse"} ->
                analysis("DC_ANALYSIS")
          [] f \in {"rising_count", "falling_count", "minimum_high_threshold",
                    "maximum_high_threshold", "minimum_low_threshold",
                    "maximum_low_threshold", "minimum_width", "maximum_width",
                    "maximum_width_span"} -> analysis("HYSTERESIS_ANALYSIS")
          [] f \in {"max_calibration_rmse", "max_calibration_mean_absolute_error",
                    "max_calibration_absolute_error",
                    "minimum_calibration_rmse_reduction"} ->
                analysis("CALIBRATION_ANALYSIS")
          [] f \in {"frequency_channel", "frequency_point_count", "frequency_minimum_hz",
                    "frequency_maximum_hz", "target_cutoff_frequency_hz",
                    "cutoff_relative_tolerance", "cutoff_drop_db"} ->
                analysis("FREQUENCY_RESPONSE_ANALYSIS")
          [] f \in {"frequency_input_amplitude", "simulated_cutoff_frequency_hz"} ->
                only({"FREQUENCY_RESPONSE_ANALYSIS"}, {"SIMULATOR"})
          [] f \in {"monitor_sample_interval_seconds", "monitor_time_window_seconds",
                    "monitor_max_buffer_points"} -> analysis("LIVE_MONITOR")
          [] f \in {"replay_path", "replay_minimum", "replay_maximum"} ->
                only(JobType, {"CSV_REPLAY"})
          [] f \in SerialNumber \cup {"serial_port", "serial_expected_device_id",
                    "serial_afe_adc_aliases", "serial_confirm_read_only"} ->
                only({"READ", "LIVE_MONITOR"}, {"SERIAL_READ_ONLY"})
          [] OTHER -> only({}, {})

Editable(f, d) == d.job \in EditableFor(f).jobs /\ d.source \in EditableFor(f).sources
================================================================================
