SPECIFICATION Spec
CONSTANTS
  a1 = a1  a2 = a2  b1 = b1  b2 = b2
  Devices = {a1, a2, b1}
  NoDevice = NoDevice
  Handlers = {h1, h2, h3}
  Owner <- MCOwner
  Sleepers = {b1}  Revocable = {a2, b1}
  MaxSeq = 1
  Media <- MCMedia
  BatchSize = 1
  MaxFailures = 0
SYMMETRY HandlerSymmetry
INVARIANTS NoSettledEnvelope PurgeOnlyWhenSettled TickIsExact
PROPERTY ContractKept
