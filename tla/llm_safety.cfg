SPECIFICATION FairSpec
CONSTANTS
  Requests = {1, 2}
  Lenient = {2}
  Textual = {1}
  ModelCount = 3
  MaxRetry = 2
  Cost = 700
  AtRandom = FALSE
INVARIANTS Charged Blamed CallsBounded
PROPERTIES Ended
CHECK_DEADLOCK FALSE
