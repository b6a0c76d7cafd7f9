SPECIFICATION DailySpec
CONSTANTS Writers = {a, b}
          MaxFilesPerDay = 2
          MaxDay = 1
          MaxFlushes = 2
          MaxRestarts = 0
INVARIANTS OneFilePerDay
CHECK_DEADLOCK FALSE
