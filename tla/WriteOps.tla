------------------------------ MODULE WriteOps ------------------------------
(***************************************************************************)
(* The records of the memory system's write-operation log                  *)
(* (src/src/memory/write_ops.py), as pure data.  An operation is named by  *)
(* a natural number that grows with its created_at; its payload is left    *)
(* out.  A log is a partial function from operations to records: the file  *)
(* holds at most one line per operation, in creation order.                *)
(***************************************************************************)
EXTENDS Integers, FiniteSets, Functions

\* OpStatus.  No code assigns ROLLED_BACK, but the log reads and trims it.
Status == {"pending", "in_progress", "completed", "failed", "rolled_back"}

\* WriteOp, reduced to the two fields that the log itself interprets.
WriteOp == [status : Status, retry : Nat]

\* WriteOp.is_terminal: the record will not change any more.
IsTerminal(op) == op.status \in {"completed", "rolled_back"}

Live(ops) == {o \in DOMAIN ops : ~ IsTerminal(ops[o])}

\* get_failed_ops: the operations that ended in a failure, and no other.
FailedOps(ops, maxReplays) ==
  {o \in DOMAIN ops : ops[o].retry < maxReplays /\ ops[o].status = "failed"}

\* Every operation that a restart replays (get_recoverable_ops).
Recoverable(ops, maxReplays) ==
  {o \in DOMAIN ops : /\ ops[o].retry < maxReplays
                      /\ ops[o].status \in {"pending", "in_progress", "failed"}}

\* ops with the record of o replaced, or added.
Put(ops, o, op) == [x \in DOMAIN ops \cup {o} |-> IF x = o THEN op ELSE ops[x]]

\* after is before, less some records of finished operations.
Forgets(before, after) ==
  /\ DOMAIN after \subseteq DOMAIN before
  /\ Live(before) \subseteq DOMAIN after
  /\ \A o \in DOMAIN after : after[o] = before[o]

\* after is before, less some records of finished operations and the newest of
\* the others: each unfinished one that is lost is newer than all that are kept.
Truncates(before, after) ==
  /\ DOMAIN after \subseteq DOMAIN before
  /\ \A o \in Live(before) \ DOMAIN after, p \in DOMAIN after : p < o
  /\ \A o \in DOMAIN after : after[o] = before[o]
=============================================================================
