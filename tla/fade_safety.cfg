SPECIFICATION FairSpec
CONSTANTS
  Atoms = {1, 2}
  Summary = 0
  Cap = 1
  Batch = 2
  Snippets = 1
  MaxFaults = 1
INVARIANTS DeletedKept
PROPERTIES RetiredWhenAbsorbed FadedLeaves
CHECK_DEADLOCK FALSE
