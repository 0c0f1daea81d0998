\* One Attempt and two crashes: up to three bootstraps on one nonce.
CONSTANTS
  Task = {t1}
  NoTask = NoTask
  NAttempt = 1
  MaxCrashes = 2
  Obstacles = {"spawn", "snapshot", "socket"}
SPECIFICATION FairSpec
INVARIANTS
  TypeOK
  LaunchSound
PROPERTIES
  ImplementsLaunchOnce
  Resolves
\* A cancelled Draft Task, or a single Attempt that is over, leaves nothing to do.
CHECK_DEADLOCK FALSE
