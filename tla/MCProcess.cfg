SPECIFICATION MCSpec
CONSTANTS Transports = {t, u}
          MaxRegistered = 3
          MaxChanges = 4
          MaxDispatched = 1
          LimitKeys = {j, k, l}
          CacheSize = 2
          ThrottleMs = 1
          MaxClock = 2
          MaxKeyCalls = 5
          IdSpace = 3
          SpanCapacity = 2
          MaxSpans = 4
          MaxGiven = 2
          ServerCapacity = 2
          MaxLogged = 5
          MaxServerRestarts = 2
          Writers = {a, b, c}
          MaxFilesPerDay = 2
          MaxDay = 2
          MaxFlushes = 4
          MaxRestarts = 1
          FileLevels = {info, error}
          MaxFanEntries = 2
          MaxFanCalls = 3
          Unset = Unset
          False = False
          Null = Null
          EnvModules <- MCEnvModules
          ModuleNames <- MCModuleNames
          MaxLoggers = 2
          MaxPatches = 3
          Operations = {op1, op2, op3}
          Overflow = Overflow
          MaxOperations = 1
          Buckets <- MCBuckets
          Durations = {0, 1, 3, 6}
          MaxRecords = 4
          Fields = {"pub", "sec"}
          DeniedFields = {"sec"}
          ErrorFields = {"pub"}
          PlainKinds = {"number", "static", "lazy", "async", "mixin"}
          MaxNesting = 2
          BuildCalls <- MCBuildCalls
          NoContext = NoContext
          NotBuilt = NotBuilt
INVARIANTS TreesTellSpans PollsBringAll DaysConsistent SiblingsConsistent SettingsConsistent
           ProfileIsTrue EntriesAreClean
PROPERTIES RegistryConsistent LimitsKept
CHECK_DEADLOCK FALSE
