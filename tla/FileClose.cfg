SPECIFICATION Spec
CONSTANTS
  MaxBufferSize = 3
  Rotates = TRUE
  MaxLines = 9
  MaxFiles = 2
  ForcedRotation = FALSE
  Callers = {c1}
  Ticker = interval
  Closer = close
  MaxEntries = 3
INVARIANTS CloseDrains
