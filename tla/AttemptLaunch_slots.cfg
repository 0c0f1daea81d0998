\* Two Attempts, of one Task or of two, compete for the slot; one crash.
CONSTANTS
  Task = {t1, t2}
  NoTask = NoTask
  NAttempt = 2
  MaxCrashes = 1
  Obstacles = {"spawn"}
SPECIFICATION Spec
INVARIANTS
  SlotSound
  SettledMeansGone
  ViewTruthful
  AttentionActionable
PROPERTIES
  EndingsFinal
\* When every Task is Cancelled and every Attempt is over nothing is left to do.
CHECK_DEADLOCK FALSE
SYMMETRY TaskSymmetry
