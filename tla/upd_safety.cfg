SPECIFICATION FairSpec
CONSTANTS
  Revisions = {1, 2, 3}
  Forks = {3}
  Tags = 1
  MaxRequests = 2
  MaxEdits = 1
  MaxPushes = 2
  MaxFaults = 2
INVARIANTS ResultOfLastTask ResultTrue
PROPERTIES OnlyConfirmed TaskEnds
