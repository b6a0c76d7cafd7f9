SPECIFICATION MCSpec
CONSTANTS
    BatchSize = 2
    BacklogCap = 2
    Retrying = TRUE
    RetryAttempts = 2
    HasFactory = TRUE
    ReconnectMax = 2
    MaxEntries = 5
    MaxPending = 2
INVARIANTS TriesBounded CloseNeverStrands CloseAbandonsOnlyAfterRetry
PROPERTIES ImplementsQueue RecoversAndCloses QueueDrains
