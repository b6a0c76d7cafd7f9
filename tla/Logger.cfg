SPECIFICATION LoggerSpec
CONSTANTS PauseCap = 1
          RingSize = 2
          MaxLogCalls = 3
          MaxGen = 2
          MaxEvents = 4
INVARIANTS EntriesConsistent
PROPERTIES CallsDeliver CrashIsRecorded
CHECK_DEADLOCK FALSE
