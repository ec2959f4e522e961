SPECIFICATION FairSpec
CONSTANTS
    None = None
    Level <- MCLevel
    Offered <- MCOffered
    Channels = 2
    Cycles = 3
    Interval = TRUE
    MaxPoints = 4
    MaxPauses = 2
CHECK_DEADLOCK FALSE
INVARIANTS
    PauseStopsReading
    TerminalViewIsComplete
PROPERTIES
    CancelEndsPause
