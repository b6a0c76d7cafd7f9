SPECIFICATION Spec
CONSTANTS MaxSpawns = 3
          MaxEntries = 3
          MaxCalls = 2
INVARIANT EntriesHandedOn
PROPERTIES OneAfterTheOther OutagesHandled CallsEnd
CHECK_DEADLOCK FALSE
