SPECIFICATION FairSpec
CONSTANTS
  Atoms = {1, 2}
  Summary = 0
  Cap = 1
  Batch = 2
  Snippets = 1
  MaxFaults = 1

PROPERTIES CapEnforced
CHECK_DEADLOCK FALSE
