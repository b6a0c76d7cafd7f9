SPECIFICATION Spec
CONSTANTS MaxSpawns = 2
          MaxEntries = 2
          MaxCalls = 1
PROPERTY OutageAlwaysEnds
CHECK_DEADLOCK FALSE
