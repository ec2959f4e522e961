SPECIFICATION FairSpec
CONSTANTS
    Caller = {c1, c2}
    MaxEvents = 1
    MaxJobs = 1
    MaxProgress = 1
    InterruptibleStart = FALSE
PROPERTIES
    JobEnds
    CallReturns
