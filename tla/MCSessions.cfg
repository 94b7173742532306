SPECIFICATION Spec
CONSTANTS
  Tabs = {t1, t2}
  Users = {u1}
  Links = {l1}
  None = None
  MaxDevices = 2
  MaxPairs = 3
  MaxMore = 0
SYMMETRY Alike
INVARIANTS TypeOK StoredIsCurrent NoSessionLeft  
CHECK_DEADLOCK FALSE
