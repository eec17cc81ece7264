SPECIFICATION FairSpec
CONSTANTS
  Atoms = {1, 2}
  Contents = {1, 2}
  Attrs = {0, 1}
  Poison = {2}
  MaxRepairs = 1
  MaxAttempts = 2
  MaxRetries = 2
  MaxReplays = 2
  MaxBackoff = 3
  MaxJobs = 1
  MaxWrites = 3
  MaxFaults = 2
INVARIANTS QueuesDisjoint
PROPERTIES WritesPresentRow DeletesAreQueued ResyncsAreDone Converges
CHECK_DEADLOCK FALSE
