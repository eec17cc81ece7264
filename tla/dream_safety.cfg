SPECIFICATION FairSpec
CONSTANTS
  Messages = {1, 2}
  Noises = {3}
  Batch = 1
  Limit = 2
  Day = 1
  Week = 2
  Month = 3
  Recent = 1
  Keep = 2
  MaxFaults = 2
CHECK_DEADLOCK FALSE
INVARIANTS TriagedKept PromotedOnce
PROPERTIES ConsumedForGood PoolDrains
