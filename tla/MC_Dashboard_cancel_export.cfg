SPECIFICATION DashSpec
CONSTANTS
    Caller = {gui}
    Gui = gui
    MaxEvents = 2
    MaxJobs = 1
    MaxProgress = 1
    InterruptibleStart = FALSE
CHECK_DEADLOCK FALSE
INVARIANTS
    CancelCreatesNoExport
