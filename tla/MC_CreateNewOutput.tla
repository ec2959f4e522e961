--------------------------- MODULE MC_CreateNewOutput ---------------------------
(***************************************************************************)
(* Model-checking instance of CreateNewOutput: publishers as model values, *)
(* of every combination of kinds.                                          *)
(***************************************************************************)
EXTENDS CreateNewOutput, TLC

PublisherSymmetry == Permutations(Publisher)

(* What the documents that are published promise *)
Document == INSTANCE DocumentClaims

ASSUME EvaluationsCanBeExported == Document!EvaluationsCanBeExported
ASSUME WrittenDocumentsAreRead == Document!WrittenDocumentsAreRead
ASSUME DamagedRowsAreRefused == Document!DamagedRowsAreRefused
ASSUME EvidenceCannotBeRemoved == Document!EvidenceCannotBeRemoved
ASSUME DamagedFieldsAreRefused == Document!DamagedFieldsAreRefused
ASSUME LongRunsCannotBeReadBack == Document!LongRunsCannotBeReadBack
ASSUME CoefficientsHaveOneLineage == Document!CoefficientsHaveOneLineage
ASSUME ProjectsKeepTheirConfigurations == Document!ProjectsKeepTheirConfigurations
ASSUME ManifestsAreReadAsWritten == Document!ManifestsAreReadAsWritten
ASSUME EditedManifestsShowTheFailures == Document!EditedManifestsShowTheFailures
ASSUME StatusIsDetermined == Document!StatusIsDetermined
ASSUME OpenedRunsAreWhole == Document!OpenedRunsAreWhole
ASSUME SelectionsArePlans == Document!SelectionsArePlans
ASSUME ComparisonsAreFair == Document!ComparisonsAreFair
ASSUME ProgressIsAccepted == Document!ProgressIsAccepted

=============================================================================
