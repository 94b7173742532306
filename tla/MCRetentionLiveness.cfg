SPECIFICATION FairSpec
CONSTANTS
  a1 = a1  a2 = a2  b1 = b1  b2 = b2
  Devices = {a1, b1}
  NoDevice = NoDevice
  Handlers = {h1, h2}
  Owner <- MCOwner
  Sleepers = {}  Revocable = {}
  MaxSeq = 1
  Media <- NoMedia
  BatchSize = 1
  MaxFailures = 1
PROPERTIES ExpiredIsPurged EveryRequestEnds
