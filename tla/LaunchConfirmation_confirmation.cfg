SPECIFICATION Spec
CONSTANTS
  Command = {c1, c2}
  Handler = {h1, h2}
  Env = {e1, e2}
  NChallenge = 2
  MaxChanges = 1
INVARIANTS
  TypeOK
PROPERTIES
  ImplementsCommandOnce
  AsConfirmed
SYMMETRY Symmetry
CHECK_DEADLOCK FALSE
