------------------------------ MODULE SetupClaims ------------------------------
(***************************************************************************)
(* What the setup of a test promises, over the edits of every form that    *)
(* the selections lead to and over all short sequences of the wizard's     *)
(* operations.  MC_LiveMonitor assumes the claims.                         *)
(***************************************************************************)
EXTENDS SetupPages

--------------------------------------------------------------------------------
(* The forms: every selection, then edits of one or two fields *)

Identities ==
    {i \in [source : SourceMode, job : JobType, profile : Profile] : Compatible(i)}

\* what the user must supply for the source
Filled(d) ==
    [d EXCEPT !.path = d.source = "CSV_REPLAY",
              !.port = d.source = "SERIAL_READ_ONLY",
              !.confirmed = d.source = "SERIAL_READ_ONLY"]

Selected(i) ==
    SelectJob(NextPage(SelectProfile(SelectSource(NewSetup, i.source), i.profile)), i.job)

Form(i) == Filled(Selected(i).draft)

Edges ==
    {<<>>} \cup {<<v>> : v \in {-1, 0, 1, 2, 9, 10, 999, 1000, 1001, 1250, 1251,
                                 10000, 10001, 60001, 100000, 4000001}}

\* one number, or one of the other choices of the form
Edits(d) ==
    {[d EXCEPT !.text[f] = t] : f \in Field, t \in Edges}
    \cup {[d EXCEPT !.unit = unit] : unit \in {"V", "mV", "bool"}}
    \cup {[d EXCEPT !.operation = "DIGITAL", !.unit = unit] : unit \in {"mV", "bool"}}
    \cup {[d EXCEPT !.channel[side] = name] :
            side \in DOMAIN d.channel, name \in {"input", "output", "threshold", "other"}}
    \cup {[d EXCEPT !.include = [secondary |-> a, state |-> b]] : a, b \in BOOLEAN}
    \cup {[d EXCEPT !.device = device, !.aliases = aliases] : device \in BOOLEAN,
            aliases \in {None, <<<<"adc0", "input">>>>,
                         <<<<"adc0", "input">>, <<"adc0", "output">>>>,
                         <<<<"adc0", "input">>, <<"adc1", "input">>>>}}
    \cup {[d EXCEPT !.path = FALSE], [d EXCEPT !.port = FALSE],
          [d EXCEPT !.confirmed = FALSE]}

\* what can be changed by the controls that are enabled
Changeable(i) == {f \in Field : Editable(f, i)}

EditedForms(i) ==
    LET form == Form(i)
        shown(f) == Editable(f, i)
    IN  {d \in Edits(form) :
            /\ \A f \in Field : d.text[f] # form.text[f] => shown(f)
            /\ \A side \in DOMAIN form.channel :
                  d.channel[side] # form.channel[side] => shown(side \o "_channel")
            /\ d.operation # form.operation => shown("operation")
            /\ d.aliases # form.aliases \/ d.device # form.device =>
                  shown("serial_afe_adc_aliases")
            /\ d.include # form.include => shown("monitor_sample_interval_seconds")}

PairEdits(i) ==
    {[Form(i) EXCEPT !.text[f] = <<v>>, !.text[g] = <<w>>] :
        f, g \in Changeable(i), v, w \in {-1, 1, 1000, 5000}}

Accepts(d) == FormRefusal(d) = None

(* Every selection leads to a form that is accepted once its source is     *)
(* named, and whose job can be built: no default of the form is refused.   *)
DefaultsAreUsable ==
    \A i \in Identities :
        /\ Accepts(Form(i)) /\ Constructible(Configuration(Form(i)))
        /\ PanelOf(Form(i)) = i

(* A refused edit names a control the user can reach.  There are three     *)
(* exceptions: a replayed frequency test is held to two settings of the    *)
(* simulator, and a long serial read to a limit the form does not show.    *)
RefusalsNameAnEditableField ==
    \A i \in Identities : \A d \in EditedForms(i) \cup PairEdits(i) :
        LET f == FormRefusal(d)
        IN  f # None /\ ~Editable(f, d) =>
              \/ /\ i.source = "CSV_REPLAY"
                 /\ f \in {"simulated_cutoff_frequency_hz", "frequency_input_amplitude"}
              \/ i.source = "SERIAL_READ_ONLY" /\ f = "max_buffered_measurements"

(* A field no enabled control shows can still refuse the form: if it was   *)
(* left unreadable, or a count out of its range, for another test.  The    *)
(* fields of another source never do.                                      *)
HiddenFieldsThatRefuse ==
    LET counts == {"sample_count", "rising_count", "falling_count",
                   "frequency_point_count", "monitor_max_buffer_points"}
        numbers == {Numbers[k] : k \in DOMAIN Numbers}
    IN  \A i \in Identities : \A f \in Field \ Changeable(i) : \A t \in Edges :
            LET refusal == FormRefusal([Form(i) EXCEPT !.text[f] = t])
                simulated == /\ i.job = "FREQUENCY_RESPONSE_ANALYSIS"
                             /\ f \in {"simulated_cutoff_frequency_hz",
                                       "frequency_input_amplitude"}
            IN  /\ f \notin numbers => refusal = None
                /\ t = <<>> /\ f \in numbers => refusal = f
                /\ t # <<>> /\ refusal # None => f \in counts \/ simulated

(* The form and the constructors of the settings agree except on limits of *)
(* a DC or a hysteresis test that contradict each other: those pass the    *)
(* form and are refused afterwards, with no field to point at.             *)
OnlyLimitsRefusedLate ==
    LET late(i) == {d \in EditedForms(i) \cup PairEdits(i) :
                        Accepts(d) /\ ~Constructible(Configuration(d))}
    IN  \A i \in Identities :
            late(i) # {} <=> i.job \in {"DC_ANALYSIS", "HYSTERESIS_ANALYSIS"}

(* Whatever a user tried for a serial read, entering the live monitor      *)
(* gives a form that is accepted: its waits are bounded again, and what    *)
(* the monitor cannot read is no longer asked for.                         *)
EnteringLiveMonitorIsSafe ==
    \A profile \in Profile :
        LET read == [source |-> "SERIAL_READ_ONLY", job |-> "READ", profile |-> profile]
            page(d) == [Selected(read) EXCEPT !.draft = d, !.step = "TEST"]
        IN  \A d \in EditedForms(read) \cup PairEdits(read) :
                Accepts(d) /\ d.channel = Form(read).channel =>
                    Accepts(SelectJob(page(d), "LIVE_MONITOR").draft)

(* An offline configuration is the same after it was stored as a preset    *)
(* and loaded; one of a serial source is never loaded.                     *)
PresetsAreLossless ==
    \A i \in Identities : \A d \in EditedForms(i) \cup PairEdits(i) :
        Accepts(d) =>
            (PresetAccepted(Configuration(d)) <=> i.source # "SERIAL_READ_ONLY")

Served(c) ==
    \A k \in DOMAIN Requirements(c) : \E offer \in SourceChannels(c) :
        LET need == Requirements(c)[k]
        IN  /\ offer[1] = need.channel /\ offer[2] = need.operation
            /\ need.operation = "ANALOG" => offer[3] = need.unit

(* A replay and a simulated frequency sweep offer whatever the test asks.  *)
(* The simulator offers its own channels in mV, under the names of the     *)
(* form only for the live monitor: a read or an analysis of any other      *)
(* channel or in V is reviewed, and found unsupported by its run.          *)
SourcesServeTheTest ==
    \A i \in Identities : \A d \in EditedForms(i) :
        LET c == Configuration(d)
            own == /\ c.unit # "V"
                   /\ c.job # "LIVE_MONITOR" => \A k \in DOMAIN Requirements(c) :
                        \E offer \in SourceChannels(Configuration(Form(i))) :
                            /\ Requirements(c)[k].channel = offer[1]
                            /\ Requirements(c)[k].operation = offer[2]
        IN  Accepts(d) =>
              CASE i.source = "SERIAL_READ_ONLY" -> TRUE
                [] i.source = "CSV_REPLAY" -> Served(c)
                [] i.job = "FREQUENCY_RESPONSE_ANALYSIS" -> Served(c)
                [] OTHER -> Served(c) <=> own

(* The selections alone lead there: the channel of a health profile stays  *)
(* in the form when the source becomes the simulator again.                *)
StaleChannelIsReviewed ==
    LET health == SelectProfile(SelectSource(NewSetup, "SERIAL_READ_ONLY"),
                                "msp430.health/1")
        form == NextPage(NextPage(SelectSource(health, "SIMULATOR")))
    IN  /\ CanRun(PrepareReview(form, form.draft, TRUE))
        /\ ~Served(Configuration(form.draft))

--------------------------------------------------------------------------------
(* Aliases of the channels of a serial device *)

Native == {"adc0", "adc1"}
Canonical == [adc0 |-> "input", adc1 |-> "input1", din0 |-> "threshold", dac0 |-> "dac"]

AliasLists == UNION {[1..k -> Native \X {"input", "output", "threshold"}] : k \in 0..2}

Answers ==
    [expected : BOOLEAN, adc : {<<"adc0">>, <<"adc0", "adc1">>},
     inputs : {{}, {"din0"}}, outputs : {{"dac0"}}]

(* Aliases rename every converter channel of the expected device, each to  *)
(* a channel of its own, or the device is refused; another device never    *)
(* gets the names.                                                         *)
AliasesNameEachChannelOnce ==
    \A aliases \in AliasLists, answer \in Answers, pinned \in BOOLEAN :
        LET d == [Form([source |-> "SERIAL_READ_ONLY", job |-> "READ",
                        profile |-> "afe/1"])
                    EXCEPT !.aliases = aliases, !.device = pinned]
            names == Projection(Configuration(d), pinned, answer, Canonical)
        IN  Accepts(d) /\ names # None =>
              /\ Len(names) = Len(answer.adc) /\ Distinct(names)
              /\ "din0" \in answer.inputs => \A k \in DOMAIN names : names[k] # "threshold"
              /\ aliases # <<>> =>
                    /\ answer.expected
                    /\ Len(aliases) = Len(names)
                    /\ \A k \in DOMAIN names : \E a \in DOMAIN aliases :
                          aliases[a] = <<answer.adc[k], names[k]>>

--------------------------------------------------------------------------------
(* The wizard, all sequences of operations *)

\* the forms a user may submit on the third page
Submitted(d) ==
    {d, Filled(d), [Filled(d) EXCEPT !.text.sample_count = <<>>]}

Preset == Configuration(Form([source |-> "CSV_REPLAY", job |-> "DC_ANALYSIS",
                              profile |-> "afe/1"]))

\* the enabled buttons and selectors, a preset, and calls that come too late
Outcomes(s) ==
    LET enabled == Buttons(s)
        when(button, outcomes) == IF button \in enabled THEN outcomes ELSE {}
    IN  {SelectSource(s, mode) : mode \in SourceMode}
        \cup {SelectProfile(s, profile) : profile \in Profile}
        \cup {SelectJob(s, job) : job \in {"READ", "DC_ANALYSIS", "LIVE_MONITOR"}}
        \cup when("next", {NextPage(s)})
        \cup when("back", {Back(s)})
        \cup when("review", {PrepareReview(s, d, readable) :
                                d \in Submitted(s.draft), readable \in BOOLEAN})
        \cup {Run(s, taken) : taken \in BOOLEAN}
        \cup (IF s.step = "RUN" THEN {Finish(s)} ELSE {})
        \cup when("modify", {Back(s)})
        \cup when("repeat", {ReviewSameSetup(s, readable) : readable \in BOOLEAN})
        \cup when("new", {StartNewTest(s)})
        \cup when("discover", {DiscoverPorts(s, found) : found \in BOOLEAN})
        \cup {LoadPreset(s, Preset, s.step # "RUN")}

Setups ==
    LET upto[k \in 0..20] ==
            IF k = 0 THEN [all |-> {NewSetup}, last |-> {NewSetup}]
            ELSE LET before == upto[k - 1]
                     new == UNION {Outcomes(s) : s \in before.last} \ before.all
                 IN  [all |-> before.all \cup new, last |-> new]
    IN  upto[20].all

(* Twenty operations reach every setup there is: the claims below hold for *)
(* operations in any number and order.                                     *)
EverySetupIsReached ==
    LET all == Setups
    IN  \A s \in all : Outcomes(s) \subseteq all

(* The selection shown beside the wizard is the wizard's, and what the     *)
(* catalog allows, after every sequence of operations.                     *)
PanelShowsTheSelection ==
    \A s \in Setups : Compatible(s.draft) /\ PanelOf(s.draft) = s.panel

(* A job stays prepared only on the pages that show or run it, it is the   *)
(* one of the form on display, and a form that can be run has one.         *)
PreparedIsWhatIsShown ==
    \A s \in Setups :
        /\ s.prepared # <<>> =>
              /\ s.step \in {"REVIEW", "RUN", "RESULT"} /\ s.reviewed
              /\ s.prepared = <<Prepared(Configuration(s.draft))>>
        /\ s.step \in {"REVIEW", "RUN", "RESULT"} =>
              s.prepared # <<>> /\ Accepts(s.draft)
        /\ s.step \in {"SOURCE", "TEST", "CONFIGURATION"} => ~s.reviewed

(* A serial source is reviewed and run only once the user confirmed that   *)
(* it is receive-only, and choosing a source anew takes that back.         *)
SerialRunsAreConfirmed ==
    \A s \in Setups :
        /\ s.step \in {"REVIEW", "RUN", "RESULT"} =>
              (s.draft.confirmed <=> s.draft.source = "SERIAL_READ_ONLY")
        /\ \A mode \in SourceMode :
              s.step = "SOURCE" => ~SelectSource(s, mode).draft.confirmed

(* A button that is enabled is never refused by the page behind it, where  *)
(* the files and the ports it looks for are there.                         *)
EnabledButtonsAreAccepted ==
    \A s \in Setups :
        LET clean(t) == ~t.issue
        IN  /\ "next" \in Buttons(s) => clean(NextPage(s))
            /\ Buttons(s) \cap {"back", "modify"} # {} => clean(Back(s))
            /\ "new" \in Buttons(s) => clean(StartNewTest(s))
            /\ "discover" \in Buttons(s) => clean(DiscoverPorts(s, TRUE))
            /\ "run" \in Buttons(s) => Run(s, TRUE).step = "RUN"
            /\ "repeat" \in Buttons(s) => clean(ReviewSameSetup(s, TRUE))
================================================================================
