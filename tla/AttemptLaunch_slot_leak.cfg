CONSTANTS
  Task = {t1}
  NoTask = NoTask
  NAttempt = 1
  MaxCrashes = 0
  Obstacles = {}
SPECIFICATION Spec
INVARIANT TerminalReleasesSlot
CHECK_DEADLOCK FALSE
