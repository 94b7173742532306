SPECIFICATION Spec
CONSTANTS
  MaxSeq = 2
  MaxFiles = 1
  MaxUpsets = 1
INVARIANTS TypeOK  ReimportIsNoop NothingAhead
CHECK_DEADLOCK FALSE
