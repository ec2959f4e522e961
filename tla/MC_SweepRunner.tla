---------------------------- MODULE MC_SweepRunner ----------------------------
(***************************************************************************)
(* A sweep of two setpoints, each repeated twice.                          *)
(***************************************************************************)
EXTENDS SweepRunner

MCLevel == {1, 2}
MCOrder == <<1, 1, 2, 2>>

\* one step per setpoint, for the run that looks for one short behaviour
MCShortOrder == <<1, 2>>

(* What the analyses of the records of a sweep promise *)
Analysis == INSTANCE AnalysisClaims

ASSUME DecisionsAccepted == Analysis!DecisionsAccepted
ASSUME OnlyAllowedDoubtsIncluded == Analysis!OnlyAllowedDoubtsIncluded
ASSUME UnitsDoNotMatter == Analysis!UnitsDoNotMatter
ASSUME PointsAccepted == Analysis!PointsAccepted
ASSUME EveryRecordPairedOnce == Analysis!EveryRecordPairedOnce
ASSUME GapGuardsDivision == Analysis!GapGuardsDivision
ASSUME FitIsLeastSquares == Analysis!FitIsLeastSquares
ASSUME ClampOnlyRounds == Analysis!ClampOnlyRounds
ASSUME CalibrationNeverWorsens == Analysis!CalibrationNeverWorsens
ASSUME AppliedPointsAccepted == Analysis!AppliedPointsAccepted
ASSUME LegsGetTheirSetpoints == Analysis!LegsGetTheirSetpoints
ASSUME LegPointsAccepted == Analysis!LegPointsAccepted
ASSUME OneCleanTransition == Analysis!OneCleanTransition
ASSUME RoundedMeanMayLeaveItsBounds == Analysis!RoundedMeanMayLeaveItsBounds
ASSUME CrossingsFoundOnce == Analysis!CrossingsFoundOnce
ASSUME DropIsFound == Analysis!DropIsFound
ASSUME ResponseNeedsEveryPoint == Analysis!ResponseNeedsEveryPoint
ASSUME ResultsEarned == Analysis!ResultsEarned
ASSUME LooserKeepsPass == Analysis!LooserKeepsPass

(* What the replay, the simulators and the imports that feed a sweep promise *)
Sources == INSTANCE SourceClaims

ASSUME DamagedDocumentsRefused == Sources!DamagedDocumentsRefused
ASSUME LimitIsInclusive == Sources!LimitIsInclusive
ASSUME RowsInOrderOnce == Sources!RowsInOrderOnce
ASSUME RefusedReadsTakeNothing == Sources!RefusedReadsTakeNothing
ASSUME DelaysAddUp == Sources!DelaysAddUp
ASSUME ChannelsOnTheirOwn == Sources!ChannelsOnTheirOwn
ASSUME SimulatedReadingsAreSound == Sources!SimulatedReadingsAreSound
ASSUME ThresholdRemembers == Sources!ThresholdRemembers
ASSUME LimitedOutputsAreExcluded == Sources!LimitedOutputsAreExcluded
ASSUME SweepPointsBelongTogether == Sources!SweepPointsBelongTogether
ASSUME ImportsAreReplays == Sources!ImportsAreReplays
ASSUME TimesKeepTheirOrder == Sources!TimesKeepTheirOrder
ASSUME MappingsSurviveTheirFiles == Sources!MappingsSurviveTheirFiles
ASSUME LargestImportIsReadable == Sources!LargestImportIsReadable
ASSUME EditedPackagesAreRefused == Sources!EditedPackagesAreRefused
ASSUME UnmappedCellsMayChange == Sources!UnmappedCellsMayChange
ASSUME SourceNamesAreNotVerified == Sources!SourceNamesAreNotVerified
ASSUME PublishedIsOnDisplay == Sources!PublishedIsOnDisplay
ASSUME SeparatorsReadTheSnapshot == Sources!SeparatorsReadTheSnapshot

================================================================================
