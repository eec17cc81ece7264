SPECIFICATION FairTurnsSpec
CONSTANTS
  Messages = 3
  Mentions = {2}
  Trigger = 2
  Hesitant = 1
  Silent = 1
  MaxRecalls = 1
  MaxFaults = 1
INVARIANTS RecalledNotArchived NothingSkipped SegmentedOnce
PROPERTY Considered
CHECK_DEADLOCK FALSE
