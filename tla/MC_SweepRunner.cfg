SPECIFICATION Spec
CONSTANTS
    Level <- MCLevel
    Order <- MCOrder
INVARIANTS
    RunnerTypeOK
    NoSilentOutput
PROPERTIES
    VerdictIsEarned
    OutputIsAuthorised
    LiveOutputIsError
    ImplementsAttempt
