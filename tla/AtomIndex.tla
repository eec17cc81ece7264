----------------------------- MODULE AtomIndex -----------------------------
(***************************************************************************)
(* The two stores of the memory system and the task that reconciles them.  *)
(* SQLite holds the atoms and is authoritative; Qdrant holds one point per *)
(* active atom, with its vector and a copy of its fields.  Writers change  *)
(* SQLite first and Qdrant later, without a common transaction.  Ids of    *)
(* atoms are numbers, in their sort order.                                 *)
(*                                                                         *)
(* All tasks share one event loop and the stores' methods do not suspend,  *)
(* so a task is interrupted only where it awaits an embedding: between     *)
(* such points it runs as one step, or, in the reconciliation task, as     *)
(* several steps that no other task can come between.  A call to a store   *)
(* can fail, and a call to Qdrant that fails may have taken effect; a      *)
(* crash inside a call leaves what a failed call and then a crash leave.   *)
(*                                                                         *)
(* src/src/memory: reconciliation.py, layer3_retrieval.py, store.py,       *)
(* conflict_arbitration.py, write_ops.py.                                  *)
(***************************************************************************)
EXTENDS Integers, FiniteSets

CONSTANTS Atoms,        \* ids of atoms
          Contents,     \* contents of atoms; atoms are created with content 1
          Attrs,        \* values of the other indexed fields; 0 at first
          Poison,       \* contents that cannot be embedded
          MaxRepairs,   \* _MAX_DRIFT_REPAIRS_PER_RUN
          MaxAttempts,  \* _MAX_EMBEDDING_REFRESH_ATTEMPTS
          MaxRetries,   \* _MAX_RETRIES
          MaxReplays,   \* max_retries of get_recoverable_ops
          MaxBackoff,   \* longest back-off, in rounds; the shortest is 2
          MaxJobs,      \* bound: writers that await an embedding
          MaxWrites,    \* bound: writes of the other tasks
          MaxFaults     \* bound: failed calls and crashes

ASSUME IndexAssumption ==
  /\ Atoms \subseteq Nat \ {0} /\ 1 \in Contents /\ 0 \in Attrs /\ Poison \subseteq Contents
  /\ {MaxRepairs, MaxAttempts, MaxRetries, MaxReplays, MaxJobs, MaxWrites, MaxFaults} \subseteq Nat
  /\ MaxBackoff \in Nat \ {0, 1} /\ MaxRepairs > 0 /\ MaxAttempts > 0

VARIABLES
  row,       \* SQLite: the row of each atom
  vec,       \* Qdrant: the point of each atom
  jobs,      \* writers awaiting the embedding of an atom they have written
  failed,    \* log: INSERT operations <<side, atom>> that FAILED
  retries,   \* log: retry_count of each
  done,      \* log: atoms with a completed INSERT on the Qdrant side
  rec,       \* the reconciliation task: see Idle
  resync,    \* _forced_resync_ids
  cleanup,   \* _forced_cleanup_ids
  suspects,  \* _orphan_candidates
  backoff,   \* rounds before each kind of repair of each atom is retried
  writes, faults

memory == <<resync, cleanup, suspects, backoff>>
log == <<failed, retries, done>>
vars == <<row, vec, jobs, log, rec, memory, writes, faults>>

Sides == {"sqlite", "qdrant"}
Repairs == {"sync", "cleanup", "orphan"}

Record(c, x, s) == [content |-> c, attr |-> x, status |-> s]
Absent == Record(0, 0, "none")       \* no row, or no point
Deleted == Record(0, 0, "deleted")   \* no row any more
Original == Record(1, 0, "active")   \* the payload of an INSERT

Rows == {Record(c, x, s) : c \in Contents, x \in Attrs, s \in {"active", "archived"}}
Active(a) == row[a].status = "active"
Exists(a) == row[a].status \in {"active", "archived"}

\* The index of an atom is what it should be.
Agree(a) == vec[a] = IF Active(a) THEN row[a] ELSE Absent

Idle == [pc |-> "idle", work |-> "none", todo |-> {}, confirmed |-> {},
         cur |-> <<"none", 0>>, snap |-> Absent, attempt |-> 0]

\* Another task can run: the reconciliation, or the replay at the start, is not
\* between two of its awaits.
Quiet == rec.pc \in {"idle", "await", "embed"}

Spend(n) == faults' = faults + n /\ faults + n <= MaxFaults

\* The outcomes of writing p as the point of a (Absent deletes it).
WritePoint(v, a, p) ==
  {[vec |-> [v EXCEPT ![a] = p], res |-> "ok", cost |-> 0]}
  \cup {[vec |-> w, res |-> "failed", cost |-> 1] : w \in {v, [v EXCEPT ![a] = p]}}
-----------------------------------------------------------------------------
(* The tasks that write                                                    *)

\* A task writes while the reconciliation task, or the replay, is suspended.
Writer ==
  /\ Quiet /\ writes < MaxWrites /\ writes' = writes + 1
  /\ UNCHANGED <<rec, memory>>

\* The encoding pipeline is started after the replay.
Piped == Writer /\ rec.pc # "embed"

\* MemoryWriter.write_atom up to its await, the row being written or not.  Ids
\* are fresh: one is used again only if its row was not written.
Insert(a) ==
  /\ Piped /\ row[a] = Absent
  /\ \/ /\ Cardinality(jobs) < MaxJobs
        /\ row' = [row EXCEPT ![a] = Original]
        /\ jobs' = jobs \cup {[atom |-> a, point |-> Original, loser |-> 0]}
        /\ UNCHANGED <<failed, retries, faults>>
     \/ /\ failed' = failed \cup {<<"sqlite", a>>}
        /\ retries' = [retries EXCEPT ![<<"sqlite", a>>] = 0]
        /\ Spend(1) /\ UNCHANGED <<row, jobs>>
  /\ UNCHANGED <<vec, done>>

\* ConflictArbiter._apply_resolution, MERGE, up to its await.  The update is
\* skipped if an earlier attempt did it.
Merge(a, b, c) ==
  /\ Piped /\ a # b /\ Exists(a) /\ Cardinality(jobs) < MaxJobs
  /\ LET applied == row[a].content = c /\ row[b].status = "archived" IN
     \E x \in Attrs :
       /\ row' = IF applied THEN row ELSE [row EXCEPT ![a] = Record(c, x, row[a].status)]
       /\ jobs' = jobs \cup {[atom |-> a, point |-> row'[a], loser |-> b]}
  /\ UNCHANGED <<vec, log, faults>>

\* What the await and the upsert after it leave, with the fields read before it.
Upserted(j) ==
  IF j.point.content \in Poison
  THEN {[vec |-> vec, res |-> "skipped", cost |-> 0]}
  ELSE WritePoint(vec, j.atom, j.point) \cup {[vec |-> vec, res |-> "skipped", cost |-> 1]}

\* The rest of write_atom: the outcome of an upsert goes to the log.
InsertEnd(j) ==
  /\ Quiet /\ j \in jobs /\ j.loser = 0
  /\ jobs' = jobs \ {j}
  /\ \E w \in Upserted(j) :
       /\ vec' = w.vec /\ Spend(w.cost)
       /\ done' = IF w.res = "ok" THEN done \cup {j.atom} ELSE done
       /\ failed' = IF w.res = "failed" THEN failed \cup {<<"qdrant", j.atom>>} ELSE failed
       /\ retries' = IF w.res = "failed" THEN [retries EXCEPT ![<<"qdrant", j.atom>>] = 0] ELSE retries
  /\ UNCHANGED <<row, rec, memory, writes>>

\* The rest of a MERGE: the losing atom is archived and its point deleted.
MergeEnd(j) ==
  /\ Quiet /\ j \in jobs /\ j.loser # 0
  /\ jobs' = jobs \ {j}
  /\ \E w \in Upserted(j) :
       IF Exists(j.loser)
       THEN \E d \in WritePoint(w.vec, j.loser, Absent) :
              /\ row' = [row EXCEPT ![j.loser].status = "archived"]
              /\ vec' = d.vec /\ Spend(w.cost + d.cost)
       ELSE vec' = w.vec /\ Spend(w.cost) /\ UNCHANGED row
  /\ UNCHANGED <<log, rec, memory, writes>>

\* MemoryStore.archive_atom, ForgettingMechanism._archive_faded, and
\* _archive_losing_atom, which may be repeated.
Archive(a) ==
  /\ Writer /\ Exists(a)
  /\ row' = [row EXCEPT ![a].status = "archived"]
  /\ \E w \in WritePoint(vec, a, Absent) : vec' = w.vec /\ Spend(w.cost)
  /\ UNCHANGED <<jobs, log>>

\* MemoryStore.delete_atom.
Delete(a) ==
  /\ Writer /\ Exists(a)
  /\ row' = [row EXCEPT ![a] = Deleted]
  /\ \E w \in WritePoint(vec, a, Absent) : vec' = w.vec /\ Spend(w.cost)
  /\ UNCHANGED <<jobs, log>>

\* ForgettingMechanism._decay_atoms, BOTH of _apply_resolution: a field of the
\* row, then of the payload of the point, if there is one.
Reweigh(a) ==
  /\ Writer /\ Exists(a)
  /\ \E x \in Attrs \ {row[a].attr} :
       /\ row' = [row EXCEPT ![a].attr = x]
       /\ \E w \in WritePoint(vec, a, IF vec[a] = Absent THEN Absent ELSE [vec[a] EXCEPT !.attr = x]) :
            vec' = w.vec /\ Spend(w.cost)
  /\ UNCHANGED <<jobs, log>>
-----------------------------------------------------------------------------
(* ReconciliationTask                                                      *)

\* The state of a repair, and res: "ok" or "failed" if it is over, "await" if
\* it awaits an embedding.
Now == [vec |-> vec, resync |-> resync, cleanup |-> cleanup, cost |-> 0, res |-> "ok"]
Failed(s) == [s EXCEPT !.res = "failed"]
Fault(s) == [s EXCEPT !.cost = @ + 1]

\* _delete_stale_vector
DeleteStale(s, a, queue) ==
  {[s EXCEPT !.vec = w.vec, !.cost = @ + w.cost, !.res = w.res,
             !.cleanup = IF w.res = "ok" THEN @ \ {a} ELSE IF queue THEN @ \cup {a} ELSE @] :
     w \in WritePoint(s.vec, a, Absent)}

\* The atom to synchronise is not active, or could not be read.
SyncInactiveKept(s, a) ==   \* mutant: it stays in the first queue
  IF a \in s.resync THEN DeleteStale([s EXCEPT !.cleanup = @ \cup {a}], a, TRUE) ELSE {Failed(s)}

SyncInactive(s, a) ==
  IF a \in s.resync
  THEN DeleteStale([s EXCEPT !.resync = @ \ {a}, !.cleanup = @ \cup {a}], a, TRUE)
  ELSE {Failed(s)}

\* _abort_forced_resync
AbortForgets(s, a) ==       \* mutant: the atom leaves the queue
  IF a \in s.resync
  THEN {Failed([t EXCEPT !.resync = @ \ {a}]) : t \in DeleteStale(s, a, FALSE)}
  ELSE {Failed(s)}

AbortForcedResync(s, a) ==
  IF a \in s.resync THEN {Failed(t) : t \in DeleteStale(s, a, FALSE)} ELSE {Failed(s)}

\* _sync_sqlite_to_qdrant up to its first await.
SyncStart(s, a) ==
  IF Active(a)
  THEN {[s EXCEPT !.cleanup = @ \ {a}, !.res = "await"]} \cup SyncInactive(Fault(s), a)
  ELSE SyncInactive(s, a)

\* Its upsert of p, and the read after it, which finds the row as it was
\* before the upsert, or fails.
SyncUpsert(s, a, p) ==
  UNION {IF w.res = "failed"
         THEN AbortForcedResync([s EXCEPT !.vec = w.vec, !.cost = @ + w.cost], a)
         ELSE {[s EXCEPT !.vec = w.vec, !.resync = @ \ {a}, !.cleanup = @ \ {a}]}
              \cup SyncInactive(Fault([s EXCEPT !.vec = w.vec, !.resync = @ \cup {a}]), a) :
           w \in WritePoint(s.vec, a, p)}

\* A round of its loop, when the embedding of the row read before, old, is there.
SyncStaleRow(s, a, old, attempt) ==   \* mutant: what changed since is not seen
  IF ~ Active(a) THEN SyncInactive(s, a) ELSE SyncUpsert(s, a, old)

SyncEmbedded(s, a, old, attempt) ==
  IF ~ Active(a) THEN SyncInactive(s, a)
  ELSE SyncInactive(Fault(s), a)
       \cup IF row[a] = old THEN SyncUpsert(s, a, row[a])
            ELSE IF attempt < MaxAttempts THEN {[s EXCEPT !.res = "await"]}
            ELSE AbortForcedResync(s, a)

\* ... and when there is none.
SyncUnembedded(s, a, old) ==
  AbortForcedResync(IF old.content \in Poison THEN s ELSE Fault(s), a)

\* _resolve_forced_cleanup, which reads the active atoms again
CleanupUnread(s, a) == DeleteStale(s, a, TRUE)   \* mutant: it does not

ResolveForcedCleanup(s, a) ==
  {Failed(Fault(s))}
  \cup IF Active(a) THEN SyncStart([s EXCEPT !.cleanup = @ \ {a}, !.resync = @ \cup {a}], a)
       ELSE DeleteStale(s, a, TRUE)

\* _remove_orphan_vector, which reads the atoms again
RemoveOrphanVector(s, a) ==
  {Failed(Fault(s))}
  \cup IF Exists(a) THEN {s}
       ELSE {[s EXCEPT !.vec = w.vec, !.cost = @ + w.cost, !.res = w.res] :
               w \in WritePoint(s.vec, a, Absent)}

\* The repair of one kind of work on one atom.
Repair(kind, a) ==
  CASE kind \in {"qdrant", "sync"} -> SyncStart(Now, a)
    [] kind = "cleanup" -> ResolveForcedCleanup(Now, a)
    [] kind \in {"sqlite", "orphan"} -> RemoveOrphanVector(Now, a)

\* The back-off after a repair: _mark_drift_success, _mark_drift_failure.
NoBackoff(k, res) == {0}   \* mutant: it is tried again at once

Backoff(k, res) == IF res = "ok" THEN {0} ELSE 2..MaxBackoff

\* A repair ends in a step that leaves s: it succeeded, it failed and is
\* retried later, or it awaits an embedding.
RepairStep(k, s, attempt) ==
  /\ vec' = s.vec /\ resync' = s.resync /\ cleanup' = s.cleanup /\ Spend(s.cost)
  /\ IF s.res = "await"
     THEN /\ rec' = [rec EXCEPT !.pc = "await", !.cur = k, !.snap = row[k[2]], !.attempt = attempt]
          /\ UNCHANGED <<suspects, backoff, retries>>
     ELSE /\ rec' = [rec EXCEPT !.pc = "work", !.todo = @ \ {k}, !.cur = Idle.cur, !.snap = Absent, !.attempt = 0]
          /\ IF rec.work = "pairs"
             THEN /\ retries' = IF s.res = "failed" THEN [retries EXCEPT ![k] = @ + 1] ELSE retries
                  /\ UNCHANGED <<suspects, backoff>>
             ELSE /\ \E d \in Backoff(k, s.res) : backoff' = [backoff EXCEPT ![k] = d]
                  /\ suspects' = IF s.res = "ok" /\ k[1] = "orphan" THEN suspects \ {k[2]} ELSE suspects
                  /\ UNCHANGED retries
  /\ UNCHANGED <<row, jobs, failed, done, writes>>

\* The eligible work of a kind: at most MaxRepairs atoms, in order.
Eligible(kind, S, wait) ==
  LET ready == {a \in S : wait[<<kind, a>>] = 0}
  IN  {<<kind, a>> : a \in {x \in ready : Cardinality({y \in ready : y < x}) < MaxRepairs}}

\* run: the failed halves of the pairs that get_inconsistent_ops finds.  The
\* other half of a pair may have been trimmed from the log.
RoundBegin ==
  /\ rec.pc = "idle"
  /\ \E S \in SUBSET {k \in failed : retries[k] < MaxRetries /\ (k[1] = "sqlite" => k[2] \in done)} :
       rec' = [Idle EXCEPT !.pc = "work", !.work = "pairs", !.todo = S]
  /\ UNCHANGED <<row, vec, jobs, log, memory, writes, faults>>

\* Pairs in the order of the log; drift in the order of the ids.
Work(k) ==
  /\ rec.pc = "work" /\ k \in rec.todo
  /\ rec.work # "pairs" => \A j \in rec.todo : k[2] <= j[2]
  /\ \E s \in Repair(k[1], k[2]) : RepairStep(k, s, 1)

Embedded ==
  /\ rec.pc = "await"
  /\ LET a == rec.cur[2] IN
     \E s \in SyncUnembedded(Now, a, rec.snap)
              \cup (IF rec.snap.content \in Poison THEN {} ELSE SyncEmbedded(Now, a, rec.snap, rec.attempt)) :
       RepairStep(rec.cur, s, rec.attempt + 1)

\* _reconcile_storage_drift up to its first repair: what the stores disagree on.
Scan ==
  /\ rec.pc = "work" /\ rec.work = "pairs" /\ rec.todo = {}
  /\ LET active == {a \in Atoms : Active(a)}
         points == {a \in Atoms : vec[a] # Absent}
         missing == active \ points
         stale == {a \in active \cap points : vec[a] # row[a]}
         reactivated == cleanup \cap active
         wanted == resync \cup stale \cup reactivated
         unwanted == (cleanup \ reactivated) \cup (wanted \ active)
         orphans == {a \in points \ unwanted : ~ Exists(a)}
         inactive == {a \in points \ unwanted : Exists(a) /\ ~ Active(a)}
         keys == {<<"sync", a>> : a \in missing \cup resync'} \cup {<<"cleanup", a>> : a \in cleanup'}
                 \cup {<<"orphan", a>> : a \in orphans}
     IN  /\ resync' = wanted \cap active
         /\ cleanup' = unwanted \cup inactive
         /\ suspects' = orphans
         /\ backoff' = [k \in Repairs \X Atoms |-> IF k \in keys /\ backoff[k] > 0 THEN backoff[k] - 1 ELSE 0]
         /\ rec' = IF keys = {} THEN Idle
                   ELSE [rec EXCEPT !.work = "sync", !.confirmed = orphans \cap suspects,
                                    !.todo = Eligible("sync", missing \cup resync', backoff')]
  /\ UNCHANGED <<row, vec, jobs, log, writes, faults>>

\* The stores could not be listed.
ScanFails ==
  /\ rec.pc = "work" /\ rec.work = "pairs" /\ rec.todo = {}
  /\ rec' = Idle /\ Spend(1)
  /\ UNCHANGED <<row, vec, jobs, log, memory, writes>>

\* The next kind of work, or the end of the round.
NextWork ==
  /\ rec.pc = "work" /\ rec.work # "pairs" /\ rec.todo = {}
  /\ rec' = CASE rec.work = "sync" -> [rec EXCEPT !.work = "cleanup", !.todo = Eligible("cleanup", cleanup, backoff)]
              [] rec.work = "cleanup" -> [rec EXCEPT !.work = "orphan",
                                                     !.todo = Eligible("orphan", rec.confirmed, backoff)]
              [] rec.work = "orphan" -> Idle
  /\ UNCHANGED <<row, vec, jobs, log, memory, writes, faults>>
-----------------------------------------------------------------------------
(* Crash and restart                                                       *)

\* What is only in memory is lost.  The start replays the log before it starts
\* the pipeline and the reconciliation; the hourly sweep runs already.
Crash ==
  /\ Spend(1)
  /\ jobs' = {} /\ resync' = {} /\ cleanup' = {} /\ suspects' = {}
  /\ backoff' = [k \in Repairs \X Atoms |-> 0]
  /\ rec' = [Idle EXCEPT !.pc = "replay", !.todo = {k \in failed : retries[k] < MaxReplays}]
  /\ UNCHANGED <<row, vec, log, writes>>

\* WriteOpLogger._dispatch_replay of an INSERT, up to its await: the payload of
\* the operation is used where SQLite has no row.
Replay(k) ==
  /\ rec.pc = "replay" /\ k \in rec.todo
  /\ retries' = [retries EXCEPT ![k] = @ + 1]
  /\ LET a == k[2]
         todo == rec.todo \ {k}
     IN  \/ /\ k[1] = "sqlite"
            /\ row' = IF Exists(a) THEN row ELSE [row EXCEPT ![a] = Original]
            /\ failed' = failed \ {k} /\ rec' = [rec EXCEPT !.todo = todo]
            /\ UNCHANGED faults
         \/ /\ k[1] = "qdrant"
            /\ rec' = [rec EXCEPT !.pc = "embed", !.todo = todo, !.cur = k,
                                  !.snap = IF Exists(a) THEN row[a] ELSE Original]
            /\ UNCHANGED <<row, failed, faults>>
         \/ \* SQLite fails
            /\ rec' = [rec EXCEPT !.todo = todo] /\ Spend(1)
            /\ UNCHANGED <<row, failed>>
  /\ UNCHANGED <<vec, jobs, done, memory, writes>>

\* The rest of it, _upsert_qdrant_atom, with the row read before the await.
ReplayEmbedded ==
  /\ rec.pc = "embed"
  /\ rec' = [rec EXCEPT !.pc = "replay", !.cur = Idle.cur, !.snap = Absent]
  /\ \E w \in Upserted([atom |-> rec.cur[2], point |-> rec.snap, loser |-> 0]) :
       /\ vec' = w.vec /\ Spend(w.cost)
       /\ failed' = IF w.res = "ok" THEN failed \ {rec.cur} ELSE failed
       /\ done' = IF w.res = "ok" THEN done \cup {rec.cur[2]} ELSE done
  /\ UNCHANGED <<row, retries, jobs, memory, writes>>

Serve ==
  /\ rec.pc = "replay" /\ rec.todo = {}
  /\ rec' = Idle
  /\ UNCHANGED <<row, vec, jobs, log, memory, writes, faults>>
-----------------------------------------------------------------------------
Init ==
  /\ row = [a \in Atoms |-> Absent] /\ vec = [a \in Atoms |-> Absent]
  /\ jobs = {} /\ failed = {} /\ done = {}
  /\ retries = [k \in Sides \X Atoms |-> 0]
  /\ rec = Idle
  /\ resync = {} /\ cleanup = {} /\ suspects = {}
  /\ backoff = [k \in Repairs \X Atoms |-> 0]
  /\ writes = 0 /\ faults = 0

WriterStep ==
  \E a \in Atoms : Insert(a) \/ Archive(a) \/ Delete(a) \/ Reweigh(a) \/ \E b \in Atoms, c \in Contents : Merge(a, b, c)

JobStep == \E j \in jobs : InsertEnd(j) \/ MergeEnd(j)

Reconcile ==
  \/ RoundBegin \/ Scan \/ ScanFails \/ NextWork \/ Embedded
  \/ \E k \in (Sides \cup Repairs) \X Atoms : Work(k)

StartUp == Serve \/ ReplayEmbedded \/ \E k \in Sides \X Atoms : Replay(k)

Next == WriterStep \/ JobStep \/ Reconcile \/ Crash \/ StartUp

Spec == Init /\ [][Next]_vars

\* The scheduler runs every task that can run.
FairSpec == Spec /\ WF_vars(JobStep) /\ WF_vars(Reconcile) /\ WF_vars(StartUp)
-----------------------------------------------------------------------------
(* Properties                                                              *)

TypeOK ==
  /\ row \in [Atoms -> Rows \cup {Absent, Deleted}] /\ vec \in [Atoms -> Rows \cup {Absent}]
  /\ jobs \subseteq [atom : Atoms, point : Rows, loser : Atoms \cup {0}]
  /\ failed \subseteq Sides \X Atoms /\ done \subseteq Atoms /\ retries \in [Sides \X Atoms -> Nat]
  /\ rec.pc \in {"replay", "embed", "idle", "work", "await"} /\ rec.work \in {"none", "pairs", "sync", "cleanup", "orphan"}
  /\ rec.todo \subseteq (Sides \cup Repairs) \X Atoms /\ rec.confirmed \subseteq Atoms
  /\ rec.pc = "await" => rec.cur \in rec.todo /\ rec.snap \in Rows /\ rec.attempt \in 1..MaxAttempts
  /\ rec.pc = "embed" => rec.cur \in Sides \X Atoms /\ rec.snap \in Rows
  /\ resync \subseteq Atoms /\ cleanup \subseteq Atoms /\ suspects \subseteq Atoms
  /\ backoff \in [Repairs \X Atoms -> 0..MaxBackoff]
  /\ writes \in 0..MaxWrites /\ faults \in 0..MaxFaults

\* No atom is queued both to be synchronised and to be removed from the index.
QueuesDisjoint == resync \cap cleanup = {}

\* Whatever the reconciliation task writes is the present row of an active
\* atom; all else it does to the index is to delete from it.
WritesPresentRow ==
  [][Reconcile => \A a \in Atoms : vec'[a] \in {vec[a], Absent} \/ (Active(a) /\ vec'[a] = row[a])]_vars

\* While no call fails, the reconciliation task deletes the point of an active
\* atom only if the atom stays in one of its queues.
DeletesAreQueued ==
  [][Reconcile /\ faults' = faults =>
       \A a \in Atoms : Active(a) /\ vec[a] # Absent /\ vec'[a] = Absent => a \in resync' \cup cleanup']_vars

\* An atom that is to be synchronised leaves that queue, while no call fails,
\* only with the point it should have, or to be removed from the index.
ResyncsAreDone ==
  [][Reconcile /\ faults' = faults => \A a \in resync \ resync' : a \in cleanup' \/ Agree(a)']_vars

\* When the tasks that write stop, and calls stop failing, the index comes to
\* hold exactly the points of the active atoms, each with the present row;
\* atoms that cannot be embedded do not keep the others from it as long as they
\* are fewer than the repairs of a round times the rounds of a back-off.
Converges == <>[](\A a \in Atoms : row[a].content \in Poison \/ Agree(a))

\* What force_forget deletes is not brought back by a restart.
ForgottenStaysForgotten ==
  [][StartUp => \A a \in Atoms : row[a] = Deleted => row'[a] = Deleted]_vars
=============================================================================
