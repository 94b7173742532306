SPECIFICATION Spec
CONSTANTS
  Devices = {h, s}
  Foreign = {}
  Codes = {c1, c2}
  None = None
  MaxJoinAttempts = 1
  Host = h
  Source = s
  MaxJoins = 2
  MaxChunks = 1
  MaxUpsets = 2
INVARIANTS TypeOK RestoredIsComplete 
PROPERTIES DoneIsKept
CHECK_DEADLOCK FALSE
