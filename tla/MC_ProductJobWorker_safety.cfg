SPECIFICATION Spec
CONSTANTS
    Caller = {c1, c2}
    MaxEvents = 2
    MaxJobs = 2
    MaxProgress = 0
    InterruptibleStart = FALSE
SYMMETRY CallerSymmetry
VIEW SafetyView
INVARIANTS
    TypeOK
    SingleService
    QuietMeansReleased
    CancelNeverSucceeds
    LeakNeverHidden
    EventAccounting
    LatestEventTellsState
    ClosedMeansStopped
PROPERTIES
    VerdictStable
