SPECIFICATION Spec
CONSTANTS
  MaxOps = 4
  MaxEntries = 2
  MaxLines = 4
  MaxArchives = 2
  MaxSlots = 3
  MaxReplays = 2
  MaxBumps = 3
  Faults = {"append_fails", "rename_fails", "rebuild_fails", "prune_fails"}
INVARIANT TypeOK
INVARIANT Journaled
INVARIANT Settled
PROPERTY TrimBound
PROPERTY JournalSpec
