SPECIFICATION FairSpec
CONSTANTS
  Streams = {"g", "p"}
  MaxMessages = 4
  MaxFaults = 3
  MaxBuffer = 2
  MaxBatch = 2
  TriggerCount = 2
INVARIANTS OutboxQueued
PROPERTIES DeliverySpec HeldUntilWritten NewMessagesKept Drained
