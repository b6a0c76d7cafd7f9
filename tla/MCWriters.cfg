SPECIFICATION MCSpec
CONSTANTS MaxBufferSize = 2
          Rotates = TRUE
          MaxLines = 2
          MaxFiles = 2
          ForcedRotation = TRUE
          Callers = {c1}
          Ticker = interval
          Closer = close
          MaxEntries = 4
          Keys = {boom, crash, info}
          Errors = {boom, crash}
          Verbose = {info}
          MaxKeys = 2
          MaxGroups = 1
          ErrorRate = 1
          WindowMs = 1
          CooldownMs = 1
          MaxBatch = 2
          MaxWritten = 4
          MaxClock = 3
INVARIANTS FilesConsistent
PROPERTIES ImplementsQueue NothingPilesUp CallsReturn GroupsConsistent RepeatsReported
