SPECIFICATION FairSpec
CONSTANTS
  Command = {c1}
  NVersion = 1
  Keep = 2
  Interval = 2
  MaxTime = 1
  MaxFaults = 1
PROPERTIES
  RestartServes
CHECK_DEADLOCK FALSE
