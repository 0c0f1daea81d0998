SPECIFICATION FairSpec
CONSTANTS
  Command = {c1}
  Handler = {h1, h2}
  NChallenge = 1
  NAttempt = 2
  MaxChanges = 2
INVARIANTS
  TypeOK
PROPERTIES
  StopAsConfirmed
  ImplementsCommandOnce
  StopReaches
CHECK_DEADLOCK FALSE
