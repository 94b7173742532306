SPECIFICATION Spec
CONSTANTS
  MaxSeq = 2
  MaxDrafts = 0
  Media <- Nothing
  Expiring <- Nothing
  Sleepy = FALSE
  MaxConnects = 1
  MaxFaults = 0
CHECK_DEADLOCK FALSE
INVARIANT AckedIsStored
