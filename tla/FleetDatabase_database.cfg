SPECIFICATION Spec
CONSTANTS
  Command = {c1, c2}
  NVersion = 2
  Keep = 2
  Interval = 1
  MaxTime = 2
  MaxFaults = 2
INVARIANTS
  TypeOK
  DatabaseSound
PROPERTIES
  RecoveryPreserves
CHECK_DEADLOCK FALSE
