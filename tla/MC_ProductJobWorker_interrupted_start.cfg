SPECIFICATION Spec
CONSTANTS
    Caller = {c1}
    MaxEvents = 2
    MaxJobs = 2
    MaxProgress = 0
    InterruptibleStart = TRUE
INVARIANTS
    SingleService
