SPECIFICATION Spec
CONSTANTS
  MaxSeq = 3
  MaxDrafts = 1
  Media <- Nothing
  Expiring <- Nothing
  Sleepy = FALSE
  MaxConnects = 1
  MaxFaults = 0
CHECK_DEADLOCK FALSE
INVARIANTS TypeOK NoSilentHole ToldOnce
