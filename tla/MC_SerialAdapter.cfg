SPECIFICATION AdapterFairSpec
CONSTANTS
    MaxRecord = 2
    MaxChunk = 3
    MaxReconnects = 1
    MaxEpochs = 2
    MaxTelemetry = 3
    Channels <- MCChannels
    MaxPolls = 2
    MaxBuffered = 3
    MaxRawEvents = 2
INVARIANTS
    AdapterTypeOK
    RecordsAreWellFramed
    ConnectionOwnsPort
    NothingCrossesConnections
    ReadsAreConfirmed
PROPERTIES
    ReadingsAreFresh
    CallsReturn
