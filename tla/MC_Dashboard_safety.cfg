SPECIFICATION DashSpec
CONSTANTS
    Caller = {gui}
    Gui = gui
    MaxEvents = 2
    MaxJobs = 2
    MaxProgress = 0
    InterruptibleStart = FALSE
VIEW DashView
CHECK_DEADLOCK FALSE
INVARIANTS
    DashTypeOK
    EventsAttributed
    ActiveRunIsWatched
    ResultPageIsFinal
    ExportIsOfThisRun
PROPERTIES
    UsesWorkerAsSpecified
