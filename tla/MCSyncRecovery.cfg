SPECIFICATION FairSpec
CONSTANTS
  MaxSeq = 1
  MaxDrafts = 1
  Media <- First
  Expiring <- First
  Sleepy = TRUE
  MaxConnects = 2
  MaxFaults = 1
CHECK_DEADLOCK FALSE
INVARIANTS NothingMissed AckFollowsWrite
 
