SPECIFICATION Spec
CONSTANTS
  Devices = {h, a, x}
  Foreign = {x}
  Codes = {c1}
  None = None
  PairingTtl = 2
  MaxJoinAttempts = 2
  MaxTries = 2
  JoinsPerSocket = 2
INVARIANTS TypeOK JoinsRecorded
PROPERTIES AtomicWhileAlone
CHECK_DEADLOCK FALSE
