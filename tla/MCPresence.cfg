SPECIFICATION Spec
CONSTANTS
  Devices = {a1, a2}
  NoDevice = NoDevice
  MaxSockets = 3
  MaxRestarts = 1
INVARIANTS TypeOK SetIsExact AnnouncedIsCurrent ShownIsCurrent
