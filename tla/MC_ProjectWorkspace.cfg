SPECIFICATION FairSpec
CONSTANTS
    Publisher = {b1, b2}
    Nobody = nobody
    dc = dc
    csv = csv
    Preset <- MCPreset
    Replay <- MCReplay
    Plan <- MCPlan
CHECK_DEADLOCK FALSE
INVARIANTS
    WorkspaceTypeOK
    ManifestIsTrue
    ResultReachesItsBatch
PROPERTIES
    PublishesAsSpecified
    BatchIsReported
