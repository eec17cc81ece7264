SPECIFICATION FairSpec
CONSTANTS
  Atoms = {1, 2}
  Contents = {"x", "y"}
  Poison = {}
  Profiles = {"A", "B"}
  StateLosses = FALSE
  BatchSize = 2
  MaxAttempts = 2
  MaxChanges = 2
  MaxSwitches = 2
  MaxFaults = 1
INVARIANT SearchOneSpace
INVARIANT LabelTrue
PROPERTY SwitchesToExact
PROPERTY Opened
CHECK_DEADLOCK FALSE
