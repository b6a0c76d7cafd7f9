SPECIFICATION MCSpec
CONSTANTS
    BatchSize = 2
    MaxQueueSize = 3
    HasInterval = TRUE
    InnerBatches = FALSE
    MaxEntries = 4
    Watchers = {w1, w2}
    NoWatcher = NoWatcher
    Backoff = TRUE
    Interval = 3
    BackoffMaxMs = 4
    Jitter = 25
    MaxExtras = 1
    MaxFailures = 2
INVARIANTS BooksKept QueueIsWatched InnerClosedLast
PROPERTIES FlushSettlesAll ImplementsQueue CallsSettle WatchersConsistent
