SPECIFICATION Spec

CONSTANTS
    BatchSize = 2
    BacklogCap = 2
    Retrying = TRUE
    RetryAttempts = 1
    HasFactory = TRUE
    ReconnectMax = 2
    MaxEntries = 3
    MaxPending = 2

PROPERTIES
    RecoveryWritesOnRebuiltAdapter
