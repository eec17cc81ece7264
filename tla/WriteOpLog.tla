----------------------------- MODULE WriteOpLog -----------------------------
(***************************************************************************)
(* The write-operation log of the memory system, WriteOpLogger, the        *)
(* WriteOperation context manager that feeds it, and its start-up replay   *)
(* (src/src/memory/write_ops.py).                                          *)
(*                                                                         *)
(* The log is a JSONL file that is appended to, rewritten as a whole on    *)
(* every status change, trimmed and rotated.  Every method runs to its end *)
(* under a lock and without suspending, so a method is one step here; what *)
(* a test hardly reaches is what the file looks like when the process dies *)
(* or an I/O call fails inside it.  A method is therefore an operator that *)
(* returns the set of its outcomes: the file it leaves behind, and whether *)
(* it returned, raised OSError, or the process died.  A death between two  *)
(* file operations is always possible, also between the truncation of the  *)
(* log, or its renaming, and the end of the writing that follows; the      *)
(* faults inside one file operation are those of the constant Faults.      *)
(***************************************************************************)
EXTENDS WriteOps

CONSTANTS MaxOps,       \* bound: operations ever created
          MaxEntries,   \* WriteOpLogger.max_entries
          MaxLines,     \* MAX_LINE_COUNT
          MaxArchives,  \* the 50 of _rotate_log
          MaxSlots,     \* bound: largest archive number
          MaxReplays,   \* max_retries of get_recoverable_ops
          MaxBumps,     \* _MAX_RETRIES of reconciliation.py
          Faults        \* the I/O faults that can happen

\* read_fails: reading the log raises.      append_fails: nothing is appended.
\* append_torn: an append leaves a fragment of a line.
\* rename_fails, rebuild_fails: a rotation fails and leaves, or restores, the log.
\* prune_fails: the archive to drop cannot be removed.
\* write_torn: a write of the log that is cut short leaves a fragment of a line.
\* restore_fails: a rotation fails, and so does the restoring of the log.
\* rewrite_cut: a write of the whole log raises after a part of it.
BenignFaults == {"read_fails", "append_fails", "rename_fails", "rebuild_fails", "prune_fails"}
AllFaults == BenignFaults \cup {"append_torn", "write_torn", "restore_fails", "rewrite_cut"}

ASSUME LogAssumption ==
  /\ {MaxOps, MaxEntries, MaxLines, MaxArchives, MaxSlots, MaxReplays, MaxBumps} \subseteq Nat
  /\ MaxEntries > 0
  /\ Faults \subseteq AllFaults

VARIABLES
  file,      \* [lines, torn, archives, made]: the log and its archives on disk
  phase,     \* "down", "recovering" (replay_failed_ops) or "serving"
  running,   \* operations whose WriteOperation body is executing
  todo,      \* operations the replay still has to do
  replaying, \* {o} while the replay awaits the dispatch of o, else {}
  next       \* the operation created next

vars == <<file, phase, running, todo, replaying, next>>
-----------------------------------------------------------------------------
(* Outcomes of file operations                                             *)

File(lines, torn, archives, made) ==
  [lines |-> lines, torn |-> torn, archives |-> archives, made |-> made]

Outcome(f, r) == [file |-> f, res |-> r]

\* The outcomes of a step that follows those of S, if the step before returned.
Then(S, Step(_)) ==
  UNION {IF s.res = "ok" THEN Step(s.file) \cup {Outcome(s.file, "crash")} ELSE {s} : s \in S}

If(fault, S) == IF fault \in Faults THEN S ELSE {}

\* What is left of a write of ops that was cut short: the first lines of it,
\* perhaps none or all, and perhaps a fragment of the next one.
CutShort(f, ops, r) ==
  UNION {{Outcome(File(Restrict(ops, {o \in DOMAIN ops : o <= k}), t, f.archives, f.made), r) :
            t \in {FALSE} \cup If("write_torn", {TRUE})} : k \in 0..MaxOps}

FirstFreeFromZero(archives) ==
  {n \in 0..MaxSlots : n \notin DOMAIN archives /\ 0..(n - 1) \subseteq DOMAIN archives}

\* The number of the next archive: the search for a free one starts at 1.
FirstFree(archives) ==
  {n \in 1..MaxSlots : n \notin DOMAIN archives /\ 1..(n - 1) \subseteq DOMAIN archives}

\* The archives after one was added as number n: beyond MaxArchives, number 1 goes.
Pruned(archives, n) ==
  IF n > MaxArchives
  THEN {Restrict(archives, DOMAIN archives \ {1})} \cup If("prune_fails", {archives})
  ELSE {archives}

CarriedUnstarted(ops) == Restrict(ops, {o \in Live(ops) : ops[o].status # "in_progress"})

\* What a rotation carries over into the new log: the unfinished operations.
Carried(ops) == Restrict(ops, Live(ops))

\* _rotate_log: the log is renamed to a numbered archive, and a new log is
\* written with the unfinished operations.  Until that is done they are only in
\* the archive, which no start reads.
RotateLog(f) ==
  LET kept == Carried(f.lines)
      Archived(n) == Put(f.archives, n, f.made + 1)
      Moved(n) == File(f.lines, f.torn, Archived(n), f.made + 1)
  IN  {Outcome(f, "ok") : x \in Faults \cap {"read_fails", "rename_fails", "rebuild_fails"}}
      \cup UNION {{Outcome(File(kept, FALSE, a, f.made + 1), "ok") : a \in Pruned(Archived(n), n)}
                  \cup CutShort(Moved(n), kept, "crash")
                  \cup If("restore_fails", CutShort(Moved(n), kept, "ok")) : n \in FirstFree(f.archives)}

\* _check_rotate: by the number of lines, or by the size of a non-empty file,
\* which depends on the payloads and can be anything here.
CheckRotate(f) ==
  (IF Cardinality(DOMAIN f.lines) < MaxLines THEN {Outcome(f, "ok")} ELSE {})
  \cup (IF DOMAIN f.lines # {} THEN RotateLog(f) ELSE {})

\* _write_all_ops: open(path, "w") truncates the file before the lines are
\* written, so a process that dies meanwhile leaves the first of them only.
Overwrite(f, ops) ==
  {Outcome(File(ops, FALSE, f.archives, f.made), "ok")}
  \cup CutShort(f, ops, "crash")
  \cup If("rewrite_cut", CutShort(f, ops, "error"))

WriteAllOps(f, ops) == Then(CheckRotate(f), LAMBDA g : Overwrite(g, ops))

TrimmedAnyStatus(ops) ==
  Restrict(ops, {o \in DOMAIN ops :
                   Cardinality({p \in DOMAIN ops : p < o}) >= Cardinality(DOMAIN ops) - MaxEntries})

\* The operations that _auto_trim keeps: the unfinished ones, and the newest
\* finished ones that MaxEntries leaves room for.
Trimmed(ops) ==
  LET done == DOMAIN ops \ Live(ops)
      excess == Cardinality(DOMAIN ops) - MaxEntries
  IN  Restrict(ops, Live(ops) \cup {o \in done : Cardinality({p \in done : p < o}) >= excess})

AutoTrimLate(f, ops) ==
  IF Cardinality(DOMAIN ops) <= MaxEntries + 1 THEN {Outcome(f, "ok")} ELSE WriteAllOps(f, Trimmed(ops))

\* _auto_trim: only a log that has grown beyond max_entries is rewritten.
AutoTrim(f, ops) ==
  IF Cardinality(DOMAIN ops) <= MaxEntries THEN {Outcome(f, "ok")} ELSE WriteAllOps(f, Trimmed(ops))

\* The write of one line.  After a fragment it completes a line nobody can parse.
AppendLine(f, o) ==
  LET parsed == IF f.torn THEN f.lines ELSE Put(f.lines, o, [status |-> "pending", retry |-> 0])
  IN  {Outcome(File(parsed, FALSE, f.archives, f.made), "ok")}
      \cup If("append_fails", {Outcome(f, "error")})
      \cup If("append_torn", {Outcome(File(f.lines, TRUE, f.archives, f.made), r) : r \in {"error", "crash"}})

\* _append_op.  A missing file counts as an empty one, and reading the log
\* back for the trim can fail.
AppendOp(f, o) ==
  Then(Then(CheckRotate(f), LAMBDA g : AppendLine(g, o)),
       LAMBDA h : AutoTrim(h, h.lines) \cup If("read_fails", {Outcome(h, "error")}))

\* _update_op: read, change one record, write everything back, trim.
UpdateOp(f, o, status, retries) ==
  If("read_fails", {Outcome(f, "error")})
  \cup IF o \notin DOMAIN f.lines THEN {Outcome(f, "ok")}
       ELSE LET ops == Put(f.lines, o, [status |-> status, retry |-> f.lines[o].retry + retries])
            IN  Then(WriteAllOps(f, ops), LAMBDA g : AutoTrim(g, ops))
-----------------------------------------------------------------------------
Init ==
  /\ file = File([o \in {} |-> [status |-> "pending", retry |-> 0]], FALSE, [n \in {} |-> 0], 0)
  /\ phase = "down"
  /\ running = {} /\ todo = {} /\ replaying = {}
  /\ next = 1

\* The process continues with these operations running, to replay and being
\* replayed, unless the step killed it.
Continue(out, run, left, cur) ==
  /\ file' = out.file
  /\ IF out.res = "crash"
     THEN phase' = "down" /\ running' = {} /\ todo' = {} /\ replaying' = {}
     ELSE running' = run /\ todo' = left /\ replaying' = cur /\ UNCHANGED phase

\* WriteOperation.__aenter__: log_op, then mark_started; if either raises, the
\* body is not executed.
Enter ==
  /\ phase = "serving" /\ next <= MaxOps
  /\ next' = next + 1
  /\ \E out \in Then(AppendOp(file, next), LAMBDA g : UpdateOp(g, next, "in_progress", 0)) :
       Continue(out, IF out.res = "ok" THEN running \cup {next} ELSE running, todo, replaying)

\* WriteOperation.__aexit__: mark_completed, or mark_failed if the body raised.
Exit(o) ==
  /\ o \in running
  /\ \E s \in {"completed", "failed"} : \E out \in UpdateOp(file, o, s, 0) :
       Continue(out, running \ {o}, todo, replaying)
  /\ UNCHANGED next

\* ReconciliationTask.run counts a failed compensation of a failed operation.
Bump(o) ==
  /\ phase = "serving" /\ o \in DOMAIN file.lines
  /\ file.lines[o].status = "failed" /\ file.lines[o].retry < MaxBumps
  /\ \E out \in UpdateOp(file, o, "failed", 1) : Continue(out, running, todo, replaying)
  /\ UNCHANGED next

\* cleanup_completed drops the finished operations older than some age.
Cleanup ==
  /\ phase = "serving"
  /\ \E age \in 1..MaxOps :
       LET old == {o \in DOMAIN file.lines \ Live(file.lines) : o <= age} IN
       /\ old # {}
       /\ \E out \in WriteAllOps(file, Restrict(file.lines, DOMAIN file.lines \ old)) :
            Continue(out, running, todo, replaying)
  /\ UNCHANGED next

Crash ==
  /\ phase # "down"
  /\ phase' = "down" /\ running' = {} /\ todo' = {} /\ replaying' = {}
  /\ UNCHANGED <<file, next>>

\* The start of the program awaits the replay before it creates the tasks that
\* record operations in the log; those it creates earlier do not use the log.
Restart ==
  /\ phase = "down"
  /\ phase' = "recovering"
  /\ todo' = Recoverable(file.lines, MaxReplays)
  /\ UNCHANGED <<file, running, replaying, next>>

\* The oldest operation is marked and counted before it is dispatched.  The
\* mark is outside the try block: if it raises, the whole replay ends.
ReplayStart(o) ==
  /\ replaying = {} /\ o \in todo /\ \A p \in todo : o <= p
  /\ \E out \in UpdateOp(file, o, "in_progress", 1) :
       IF out.res = "error" THEN Continue(out, running, {}, {})
                            ELSE Continue(out, running, todo \ {o}, {o})
  /\ UNCHANGED next

\* A dispatch that returned is marked completed; if that raises, it is marked
\* failed like a dispatch that raised; if that raises too, the replay ends.
ReplayEnd(o) ==
  /\ o \in replaying
  /\ LET succeeded == UpdateOp(file, o, "completed", 0)
         outs == {s \in succeeded : s.res # "error"}
                 \cup UpdateOp(file, o, "failed", 0)
                 \cup UNION {UpdateOp(s.file, o, "failed", 0) : s \in {x \in succeeded : x.res = "error"}}
     IN  \E out \in outs : Continue(out, running, IF out.res = "error" THEN {} ELSE todo, {})
  /\ UNCHANGED next

RecoveryDone ==
  /\ phase = "recovering" /\ todo = {} /\ replaying = {}
  /\ phase' = "serving"
  /\ UNCHANGED <<file, running, todo, replaying, next>>

Next ==
  \/ Enter \/ Cleanup \/ Crash \/ Restart \/ RecoveryDone
  \/ \E o \in 1..MaxOps : Exit(o) \/ Bump(o) \/ ReplayStart(o) \/ ReplayEnd(o)

Spec == Init /\ [][Next]_vars
-----------------------------------------------------------------------------
(* Properties                                                              *)

TypeOK ==
  /\ file = File(file.lines, file.torn, file.archives, file.made)
  /\ file.lines \in [DOMAIN file.lines -> WriteOp] /\ DOMAIN file.lines \subseteq 1..(next - 1)
  /\ file.archives \in [DOMAIN file.archives -> 1..file.made] /\ DOMAIN file.archives \subseteq 1..MaxSlots
  /\ file.torn \in BOOLEAN /\ file.made \in Nat
  /\ phase \in {"down", "recovering", "serving"}
  /\ running \subseteq 1..MaxOps /\ todo \subseteq 1..MaxOps /\ replaying \subseteq 1..MaxOps
  /\ next \in 1..(MaxOps + 1)

\* An operation whose writes may have reached a store - its body is running,
\* or the replay is dispatching it - is in the log, as in progress: a process
\* that dies now finds it again ("every write to SQLite/Qdrant is recorded as
\* a WriteOp", write_ops.py:8).
Journaled ==
  \A o \in running \cup replaying : o \in DOMAIN file.lines /\ file.lines[o].status = "in_progress"

\* Once the start-up replay is over, every operation of the log that is not
\* running has finished, has failed, or has used up its replays: none was
\* passed over ("all failed operations are replayed at start-up", :11).
Settled ==
  phase = "serving" =>
    \A o \in DOMAIN file.lines \ running :
       \/ IsTerminal(file.lines[o]) \/ file.lines[o].status = "failed"
       \/ file.lines[o].retry >= MaxReplays

\* A method that changes the log and returns leaves no more finished
\* operations than max_entries has room for, or at least shrinks the log: what
\* a crash left behind between a write and its trim does not stay (_auto_trim).
TrimBound ==
  [][phase' # "down" /\ file'.lines # file.lines =>
       \/ DOMAIN Trimmed(file'.lines) = DOMAIN file'.lines
       \/ Cardinality(DOMAIN file'.lines) < Cardinality(DOMAIN file.lines)]_vars

\* The log implements the journal: see OpJournal.  A record is lost only to a
\* death of the process during a rewrite or rotation, and then the newest first.
Journal == INSTANCE OpJournal WITH ops <- file.lines, alive <- phase # "down"
JournalSpec == Journal!Spec
=============================================================================
