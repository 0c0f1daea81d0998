\* Three chunks, the third perhaps too much for a Snapshot, and a reader that may reopen,
\* with two crashes, one lost connection and one damaged file.
CONSTANTS
  MaxChunks = 3
  PendingLimit = 2
  Unsafe = {2}
  Heavy = {3}
  MaxDamage = 1
  MaxCrashes = 2
  QueueFrames = 2
  MaxOpens = 2
  MaxDrops = 1
SPECIFICATION FairSpec
INVARIANTS
  AllTypeOK
  StoreSound
  ScreenFaithful
PROPERTIES
  ImplementsDurableStream
  OutputArrives
\* A Session that ended and whose reader has everything has nothing left to do.
CHECK_DEADLOCK FALSE
