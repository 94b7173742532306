SPECIFICATION Spec
CONSTANTS
  a1 = a1  a2 = a2  b1 = b1  b2 = b2
  Devices = {a1, b1}
  NoDevice = NoDevice
  Handlers = {h1, h2}
  Owner <- MCOwner
  Sleepers = {}  Revocable = {b1}
  MaxSeq = 2
  Media <- MCMedia
  BatchSize = 1
  MaxFailures = 2
SYMMETRY HandlerSymmetry
INVARIANTS TypeOK SweepLeavesNothing  NoOrphanedMedia
