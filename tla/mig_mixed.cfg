SPECIFICATION Spec
CONSTANTS
  Atoms = {1, 2}
  Contents = {"x"}
  Poison = {}
  Profiles = {"A", "B"}
  StateLosses = FALSE
  BatchSize = 2
  MaxAttempts = 2
  MaxChanges = 1
  MaxSwitches = 1
  MaxFaults = 0
INVARIANT Unmixed
CHECK_DEADLOCK FALSE
