SPECIFICATION Spec
CONSTANTS
  Session = {s1, s2}
  NTerminal = 2
  MaxEvents = 1
INVARIANT InputToOwnSession
CHECK_DEADLOCK FALSE
