----------------------------- MODULE MC_LiveMonitor -----------------------------
(***************************************************************************)
(* Model-checking instance of LiveMonitor: two channels, three cycles and  *)
(* a trace that holds fewer points than are read.                          *)
(***************************************************************************)
EXTENDS LiveMonitor, CommandClaims

\* a device that offers what the request needs, and one that does not
MCOffered == {[device |-> TRUE, profile |-> TRUE, plan |-> p, config |-> TRUE,
               shutdown |-> TRUE] : p \in BOOLEAN}

MCLevel == {1}

(* What the setup of a test, the monitor's among them, promises *)
ASSUME DefaultsAreUsable
ASSUME RefusalsNameAnEditableField
ASSUME HiddenFieldsThatRefuse
ASSUME OnlyLimitsRefusedLate
ASSUME EnteringLiveMonitorIsSafe
ASSUME PresetsAreLossless
ASSUME SourcesServeTheTest
ASSUME StaleChannelIsReviewed
ASSUME AliasesNameEachChannelOnce
ASSUME EverySetupIsReached
ASSUME PanelShowsTheSelection
ASSUME PreparedIsWhatIsShown
ASSUME SerialRunsAreConfirmed
ASSUME EnabledButtonsAreAccepted

(* What the command line promises *)
ASSUME CommandsOfferTheForm
ASSUME CommandsAgreeWithTheForm
ASSUME BuffersHoldTheRecords
ASSUME MonitorsAreAwaited
ASSUME ObserveMayBeCutOff
ASSUME OutputIsPublishedOnce
ASSUME CancellationIsSeenSoon
ASSUME LegsKeepTheReadings
ASSUME NearestRuleDecides
ASSUME ResultPathIsReportedAsInput
ASSUME TransportErrorsAreVague
ASSUME ZeroIsEarned
ASSUME NothingIsReplaced
ASSUME HalfTheFilesAreLeft
ASSUME InterruptsExit130
ASSUME ReportsAgreeWithRuns
ASSUME ProjectsExitWithTheGravest
ASSUME CodesAreApart

=============================================================================
