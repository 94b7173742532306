SPECIFICATION Spec
CONSTANTS
  Reader = reader
  Writer = writer
  NoUser = NoUser
  PageSize = 1
  MaxSeq = 2
  MaxUpsets = 1
INVARIANTS TypeOK ReadIsPassed PageIsWhole
PROPERTY TickNeverFalls
