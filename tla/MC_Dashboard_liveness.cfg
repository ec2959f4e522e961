SPECIFICATION DashFairSpec
CONSTANTS
    Caller = {gui}
    Gui = gui
    MaxEvents = 1
    MaxJobs = 1
    MaxProgress = 0
    InterruptibleStart = FALSE
CHECK_DEADLOCK FALSE
PROPERTIES
    RunIsReported
