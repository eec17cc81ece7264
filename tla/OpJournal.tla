----------------------------- MODULE OpJournal -----------------------------
(***************************************************************************)
(* What the write-operation log promises to the code that records its      *)
(* writes in it.  While the process lives, an operation, once recorded, is *)
(* kept until it has finished, whatever rotations, trims and failures      *)
(* happen meanwhile; a finished operation is never reopened; and only      *)
(* finished operations are forgotten.  A death of the process may also     *)
(* cost the newest records, never an older one of an operation that is     *)
(* unfinished while a newer is kept.  WriteOpLog is the log that the code  *)
(* implements.                                                             *)
(***************************************************************************)
EXTENDS WriteOps

VARIABLES
  ops,       \* the operations a restart can still find
  alive      \* the process lives

vars == <<ops, alive>>

Init == ops = [o \in {} |-> [status |-> "pending", retry |-> 0]] /\ alive = FALSE

\* What a step that made the log before leaves of it.
Left(before) == IF alive' THEN Forgets(before, ops') ELSE Truncates(before, ops')

\* A new operation enters the journal; its body starts at once or never.
Record ==
  /\ alive
  /\ \E o \in DOMAIN ops' \ DOMAIN ops, s \in {"pending", "in_progress"} :
       Left(Put(ops, o, [status |-> s, retry |-> 0]))

\* An unfinished operation changes state.  It may be forgotten in the same
\* step only if that change finished it.
Advance ==
  /\ alive
  /\ \E o \in Live(ops), s \in Status \ {"pending"}, n \in {0, 1} :
       Left(Put(ops, o, [status |-> s, retry |-> ops[o].retry + n]))

Forget == alive /\ Left(ops)

\* A start of the process loses nothing.
Start == ~ alive /\ alive' /\ UNCHANGED ops

Next == Record \/ Advance \/ Forget \/ Start

Spec == Init /\ [][Next]_vars
=============================================================================
