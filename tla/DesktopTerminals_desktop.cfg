SPECIFICATION FairSpec
CONSTANTS
  Session = {s1}
  NTerminal = 2
  MaxEvents = 2
INVARIANTS
  TypeOK
  AttachmentsOwned
PROPERTIES
  ClosedTerminalReleases
  AttachSettles
CHECK_DEADLOCK FALSE
