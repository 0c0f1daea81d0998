\* One grant of the root, two Worktrees, one of them the active one, and two Attempts; two
\* Git operations may run at one time, and the outside acts once, or exchanges the .git
\* of the Repository and puts it back.
CONSTANTS
  MaxVersion = 1
  MaxId = 2
  MaxChanges = 2
  NAttempt = 2
  NWorktree = 2
  MaxDirs = 1
  MaxOps = 2
SPECIFICATION Spec
INVARIANTS
  TypeOK
  
  DisposeSafe
PROPERTIES
  BoundToConfirmed
  ReadyIsAsPlanned
  RevokedIsInert
CHECK_DEADLOCK FALSE
