SPECIFICATION Spec
CONSTANTS Scalars = {a}
          Objects = {o, p}
          Mark = TRUE
          CacheCap = 1
          Ttl = 1
          MaxEntries = 3
          MaxStarted = 3
          MaxIdle = 1
          MaxTime = 1
INVARIANTS LookupsConsistent SameContextInOrder
PROPERTIES ServedFresh IdleMeansDelivered EveryEntryDelivered
CHECK_DEADLOCK FALSE
