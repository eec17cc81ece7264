-------------------------- MODULE VectorMigration --------------------------
(***************************************************************************)
(* One versioned vector index: the collections of Qdrant, the alias that   *)
(* names the one that is searched, the persisted migration state, and the  *)
(* task that rebuilds the index for another embedding profile.  Vectors of *)
(* different profiles cannot be compared, so each profile has a collection *)
(* of its own, filled in the background and then put behind the alias.     *)
(*                                                                         *)
(* A profile may change while the process runs, in the middle of a rebuild *)
(* for another one.  All tasks share one event loop and the stores do not  *)
(* suspend: the rebuild is interrupted only where it awaits an embedding   *)
(* and between its runs.                                                   *)
(*                                                                         *)
(* src/src/memory/vector_migration.py, src/src/memory/store.py,            *)
(* src/src/services/embedding_profile_monitor.py.                          *)
(***************************************************************************)
EXTENDS Integers, FiniteSets

CONSTANTS Atoms,        \* ids of the sources, in the order in which they are migrated
          Contents,     \* texts of sources
          Poison,       \* texts that the embedding model refuses
          Profiles,     \* embedding profiles; each names its collection too
          BatchSize,    \* vector_batch_size
          StateLosses,  \* whether the state can be missing where an alias exists: its
                        \* first save was cut off, or reading it failed
          MaxAttempts,  \* _MAX_SOURCE_REFRESH_ATTEMPTS
          MaxChanges,   \* bound: writes of the other tasks
          MaxSwitches,  \* bound: changes of the configured profile
          MaxFaults     \* bound: failed calls and crashes

Legacy == "legacy"      \* the collection of versions without profiles
Unknown == "unknown"    \* _LEGACY_EMBEDDING_SIGNATURE
None == "none"
Blank == "blank"        \* a text of white space
Gone == "gone"          \* a source that is deleted, archived or not yet written

ASSUME MigrationAssumption ==
  /\ Atoms \subseteq Nat \ {0} /\ IsFiniteSet(Atoms)
  /\ Poison \subseteq Contents /\ {Blank, Gone, None} \cap Contents = {}
  /\ {Legacy, Unknown, None} \cap Profiles = {}
  /\ StateLosses \in BOOLEAN
  /\ {BatchSize, MaxAttempts, MaxChanges, MaxSwitches, MaxFaults} \subseteq Nat
  /\ BatchSize > 0 /\ MaxAttempts > 0

VARIABLES
  row,      \* SQLite: the text of each source
  disk,     \* Qdrant and the persisted state: see Disk
  up,       \* the process runs
  conf,     \* the profile in force, of the manager and of the embedding runtime
  target,   \* _atom_migration_target
  search,   \* _vector_search_enabled
  job,      \* the migration task: see Job
  mixed,    \* history: a run has written a vector of another profile than its target's
  changes, switches, faults

manager == <<up, conf, target, search>>
bounds == <<changes, switches, faults>>
vars == <<row, disk, manager, job, mixed, bounds>>

Collections == Profiles \cup {Legacy}

\* A point: the text its vector stands for and the profile that made it.
Point(text, space) == [text |-> text, space |-> space]
NoPoint == Point(None, None)

\* VectorIndexState: the collection and profile that are searched, the
\* collection that is rebuilt (its status is "ready" when there is none), and
\* the last source that is done.
IndexState(active, space, aim, cursor) ==
  [active |-> active, space |-> space, aim |-> aim, cursor |-> cursor]
NoState == IndexState(None, None, None, 0)

\* Existing collections, their points, the alias, and the persisted state.
Disk(exist, points, alias, state) == [exist |-> exist, points |-> points, alias |-> alias, state |-> state]

\* The task is off (not registered), asleep between two runs, at work, or
\* awaits the embedding of the first source of todo.  coll is the target its
\* run began with; wants and gets are the profiles it expects and will get.
Job(pc, coll, kind, todo, last, text, tries, wants, gets, fixed) ==
  [pc |-> pc, coll |-> coll, kind |-> kind, todo |-> todo, last |-> last,
   text |-> text, tries |-> tries, wants |-> wants, gets |-> gets, fixed |-> fixed]
Resting(pc) == Job(pc, None, None, {}, 0, None, 0, None, None, FALSE)

\* Other tasks act only where the migration task can be interrupted.
Suspended == job.pc \in {"off", "asleep", "embed"}

Put(d, c, a, p) == [d EXCEPT !.points[c][a] = p]
Drop(d, c, S) == [d EXCEPT !.points[c] = [a \in Atoms |-> IF a \in S THEN NoPoint ELSE @[a]]]

\* _source_hashes: the sources that a migration has to have; and a collection
\* that has exactly them.  Mutant: empty texts are expected, though never embedded.
Embeddable == {a \in Atoms : row[a] \in Contents}

ExpectedBlank(a, p) == IF row[a] # Gone THEN Point(row[a], p) ELSE NoPoint

Expected(a, p) == IF row[a] \in Contents THEN Point(row[a], p) ELSE NoPoint
Exact(d, c, p) == \A a \in Atoms : d.points[c][a] = Expected(a, p)

FirstOf(S) == {a \in S : Cardinality({b \in S : b < a}) < BatchSize}
Last(S) == CHOOSE a \in S : \A b \in S : b <= a
-----------------------------------------------------------------------------
(* _initialize_versioned_index                                             *)

\* A missing alias is restored from the state, from the legacy collection, or
\* made to name a new one.
AdoptAlias(d, p) ==
  LET c == IF d.state.active \in d.exist THEN d.state.active ELSE IF Legacy \in d.exist THEN Legacy ELSE p
  IN  IF d.alias # None THEN d ELSE [d EXCEPT !.alias = c, !.exist = @ \cup {c}]

Activated(d, p) == [d EXCEPT !.state = IndexState(d.alias, p, None, 0)]

\* The first state of an index.  A legacy collection that has points may be of
\* any profile.  Mutant: it is taken for one of the configured profile.
FirstStateTrusting(d, p) == IndexState(d.alias, p, None, 0)

FirstState(d, p) ==
  LET legacy == d.alias # p /\ \E a \in Atoms : d.points[d.alias][a] # NoPoint
  IN  IndexState(d.alias, IF legacy THEN Unknown ELSE p, None, 0)

\* The state is made to agree with the alias, which is authoritative: a switch
\* that was not recorded is recovered, an unexpected collection is not trusted.
\* Mutant: the profile that the switch was for is not compared.
LabelAnyAim(d, p) ==
  IF d.state = NoState THEN [d EXCEPT !.state = FirstState(d, p)]
  ELSE IF d.alias = d.state.aim THEN Activated(d, p)
  ELSE IF d.alias # d.state.active THEN [d EXCEPT !.state.active = d.alias, !.state.space = Unknown]
  ELSE d

Label(d, p) ==
  IF d.state = NoState THEN [d EXCEPT !.state = FirstState(d, p)]
  ELSE IF d.alias = p /\ d.state.aim = p THEN Activated(d, p)
  ELSE IF d.alias # d.state.active THEN [d EXCEPT !.state.active = d.alias, !.state.space = Unknown]
  ELSE d

NeedsMigration(d, p) == d.state.space # p \/ d.state.aim = p

\* The target exists and is recorded; the cursor is kept if it is the same one.
Prepare(d, p) ==
  IF NeedsMigration(d, p)
  THEN [d EXCEPT !.exist = @ \cup {p}, !.state.aim = p, !.state.cursor = IF d.state.aim = p THEN @ ELSE 0]
  ELSE d

Initialized(d, p) == Prepare(Label(AdoptAlias(d, p), p), p)

\* What the initialization takes for the disk: a failed read is no state.
Seen == {disk} \cup IF StateLosses THEN {[disk EXCEPT !.state = NoState]} ELSE {}
ReadFails(seen) == IF seen = disk THEN 0 ELSE 1

\* What is on disk when the initialization is cut off between two of its calls.
Stages(seen, p) ==
  LET adopted == AdoptAlias(seen, p)
      labelled == Label(adopted, p)
  IN  IF disk.state = NoState /\ ~StateLosses THEN {disk}
      ELSE {disk, [disk EXCEPT !.exist = adopted.exist], [adopted EXCEPT !.state = disk.state],
            labelled, [labelled EXCEPT !.exist = Initialized(seen, p).exist], Initialized(seen, p)}

\* The manager after an initialization that succeeded.
Opens(seen, p) ==
  /\ disk' = Initialized(seen, p)
  /\ conf' = p
  /\ target' = IF NeedsMigration(disk', p) THEN p ELSE None
  /\ search' = (target' = None)
-----------------------------------------------------------------------------
(* The process and its configuration                                       *)

\* The first start with versioned indexes: on a new installation, or on an old
\* one, whose collection was written without profiles and may be empty.
Init ==
  /\ row \in [Atoms -> Contents \cup {Gone}]
  /\ \E exist \in SUBSET {Legacy}, full \in BOOLEAN :
       disk = Disk(exist,
                   [c \in Collections |->
                      [a \in Atoms |-> IF full /\ c \in exist THEN Expected(a, Unknown) ELSE NoPoint]],
                   None, NoState)
  /\ up = FALSE /\ conf = None /\ target = None /\ search = FALSE
  /\ job = Resting("off") /\ mixed = FALSE
  /\ changes = 0 /\ switches = 0 /\ faults = 0

\* A start with the profile that is configured now; it may die on the way.
Start ==
  /\ ~up
  /\ \E p \in Profiles, seen \in Seen :
       LET changed == IF conf \in {None, p} THEN 0 ELSE 1
       IN  /\ switches + changed <= MaxSwitches
           /\ switches' = switches + changed
           /\ \/ Opens(seen, p) /\ up' = TRUE /\ faults' = faults + ReadFails(seen)
              \/ /\ faults' = faults + ReadFails(seen) + 1
                 /\ disk' \in Stages(seen, p) /\ conf' = p
                 /\ UNCHANGED <<up, target, search>>
  /\ faults' <= MaxFaults
  /\ UNCHANGED <<row, job, mixed, changes>>

Crash ==
  /\ up /\ faults < MaxFaults
  /\ up' = FALSE /\ target' = None /\ search' = FALSE /\ job' = Resting("off")
  /\ faults' = faults + 1
  /\ UNCHANGED <<row, disk, conf, mixed, changes, switches>>

\* reconfigure_embedding and the activation of the runtime: no await between.
\* When it fails, memory is restored and the disk is left as it is.
Reconfigure(p) ==
  /\ up /\ Suspended /\ p # conf /\ switches < MaxSwitches
  /\ switches' = switches + 1
  /\ \E seen \in Seen :
       \/ Opens(seen, p) /\ faults' = faults + ReadFails(seen)
       \/ /\ faults' = faults + ReadFails(seen) + 1
          /\ disk' \in Stages(seen, p)
          /\ UNCHANGED <<conf, target, search>>
  /\ faults' <= MaxFaults
  /\ UNCHANGED <<row, up, job, mixed, changes>>
-----------------------------------------------------------------------------
(* Writers, removals, and the reconciliation task                          *)

\* What accepts new vectors: the collection under construction, if there is one.
WriteCollection == IF target # None THEN target ELSE disk.alias

Busy == changes < MaxChanges /\ changes' = changes + 1

\* A write to SQLite; Upsert is what becomes of it, or of a repair, later.
Write(a, text) ==
  /\ up /\ Suspended /\ Busy
  /\ text # row[a]
  /\ row' = [row EXCEPT ![a] = text]
  /\ UNCHANGED <<disk, manager, job, mixed, switches, faults>>

\* Vectors of another profile are refused, so what is written is of this one;
\* its text was read before the embedding and may have changed.
Upsert(a, text) ==
  /\ up /\ Suspended /\ Busy
  /\ disk' = Put(disk, WriteCollection, a, Point(text, conf))
  /\ UNCHANGED <<row, manager, job, mixed, switches, faults>>

\* delete_atom_vector goes through the searched collection and the target and
\* stops at the first failure; nobody asks for its result.
Remove(a) ==
  /\ up /\ Suspended /\ Busy
  /\ row[a] # Gone
  /\ row' = [row EXCEPT ![a] = Gone]
  /\ LET first == Drop(disk, disk.alias, {a})
         both == IF target = None THEN first ELSE Drop(first, target, {a})
     IN  \/ disk' = both /\ faults' = faults
         \/ faults < MaxFaults /\ faults' = faults + 1 /\ disk' \in {disk, first}
  /\ UNCHANGED <<manager, job, mixed, switches>>
-----------------------------------------------------------------------------
(* The migration task                                                      *)

\* The monitor registers a task whenever a migration is pending.
Register ==
  /\ up /\ job.pc = "off" /\ target # None
  /\ job' = Resting("asleep")
  /\ UNCHANGED <<row, disk, manager, mixed, bounds>>

\* A source that vanishes during its embedding is skipped although the profile
\* has changed, and the run goes on: it expects the new profile, and has the old
\* target.  d is what a step of it leaves.
Mixes(d) ==
  /\ job.pc = "embed" /\ job.gets # job.coll
  /\ \E a \in job.todo : d.points[job.coll][a] = Point(job.text, job.gets)

\* A run raises after cost failed calls: the failure is recorded for the target
\* of the manager, unless that fails too, and the task runs again.
Fail(d, cost) ==
  /\ \/ /\ faults' = faults + cost
        /\ disk' = IF target = None THEN d ELSE [d EXCEPT !.state.aim = target]
     \/ faults' = faults + cost + 1 /\ disk' = d
  /\ faults' <= MaxFaults
  /\ job' = Resting("asleep")
  /\ mixed' = (mixed \/ Mixes(d))
  /\ UNCHANGED <<row, manager, changes, switches>>

\* A step of a run that leaves d, after cost failed calls.
Proceed(d, cost, next) ==
  /\ disk' = d /\ job' = next
  /\ faults' = faults + cost /\ faults' <= MaxFaults
  /\ mixed' = (mixed \/ Mixes(d))
  /\ UNCHANGED <<row, manager, changes, switches>>

RunEnds ==
  /\ up /\ job.pc = "asleep" /\ target = None
  /\ Proceed(disk, 0, Resting("off"))

\* _load_batch
Batch == FirstOf({a \in Atoms : row[a] # Gone /\ a > disk.state.cursor})

RunBatch ==
  /\ up /\ job.pc = "asleep" /\ target # None
  /\ \/ Fail(disk, 1)
     \/ /\ Batch # {}
        /\ Proceed(disk, 0, Job("work", target, "batch", Batch, Last(Batch), None, 0, None, None, FALSE))

\* _reconcile_and_activate up to its repairs: points without a source are
\* deleted, and if one of the deletions fails the run raises.
RunReconcile ==
  /\ up /\ job.pc = "asleep" /\ target # None /\ Batch = {}
  /\ LET orphans == {a \in Atoms \ Embeddable : disk.points[target][a] # NoPoint}
         repairs == {a \in Embeddable : disk.points[target][a] # Expected(a, conf)}
     IN  \/ Proceed(Drop(disk, target, orphans), 0,
                    Job("work", target, "repair", FirstOf(repairs), 0, None, 0, None, None, FALSE))
         \/ \E S \in SUBSET orphans : Fail(Drop(disk, target, S), 1)

\* The run is done with source a.
Done(a, fixed) ==
  [job EXCEPT !.pc = "work", !.todo = @ \ {a}, !.text = None, !.tries = 0, !.wants = None, !.gets = None,
              !.fixed = fixed]

\* A source that is not there or cannot be embedded: its point is deleted, and
\* nobody asks for the result.
Skip(a) ==
  \/ Proceed(Drop(disk, job.coll, {a}), 0, Done(a, job.fixed))
  \/ Proceed(disk, 1, Done(a, job.fixed))

\* _migrate_source up to its await.
Source(a) ==
  /\ up /\ job.pc = "work" /\ a \in job.todo /\ \A b \in job.todo : a <= b
  /\ IF row[a] \in Contents
     THEN Proceed(disk, 0, [job EXCEPT !.pc = "embed", !.text = row[a], !.tries = 1, !.wants = conf, !.gets = conf])
     ELSE Skip(a)

\* Mutant: a text that keeps changing is embedded for ever.
\* The text changed: what is there now is embedded, but not for ever.
Reembed(a) ==
  IF job.tries = MaxAttempts THEN Fail(Drop(disk, job.coll, {a}), 0)
  ELSE IF row[a] = Blank THEN Skip(a)
  ELSE Proceed(disk, 0, [job EXCEPT !.text = row[a], !.tries = @ + 1, !.gets = conf])

\* A refused vector, a written one, and a failed call that may have written it.
Upserted(a) ==
  LET written == Put(disk, job.coll, a, Point(job.text, job.gets))
  IN  \/ job.gets # conf /\ Fail(disk, 0)
      \/ job.gets = conf /\ Proceed(written, 0, Done(a, TRUE))
      \/ job.gets = conf /\ \E d \in {disk, written} : Fail(d, 1)

\* _migrate_source after its await: the text has to be what was embedded and the
\* profile the one that was in force when the source was begun; the store
\* refuses a vector of another profile than the present one.
Embedded(a) ==
  /\ up /\ job.pc = "embed" /\ a \in job.todo /\ \A b \in job.todo : a <= b
  /\ \/ Fail(disk, IF job.text \in Poison THEN 0 ELSE 1)
     \/ job.text \notin Poison /\ job.gets # job.wants /\ Fail(disk, 0)
     \/ /\ job.text \notin Poison /\ job.gets = job.wants
        /\ \/ row[a] = Gone /\ Skip(a)
           \/ row[a] \notin {Gone, job.text} /\ Reembed(a)
           \/ row[a] = job.text /\ Upserted(a)

\* A run that came to the end of its sources.
BatchDone ==
  /\ up /\ job.pc = "work" /\ job.todo = {} /\ job.kind = "batch"
  /\ \/ Fail(disk, 1)
     \/ Proceed(IF target = None THEN disk ELSE [disk EXCEPT !.state.aim = target, !.state.cursor = job.last],
                0, Resting("asleep"))

\* The alias is switched, then the state is saved; each can fail, and a crash
\* can come between.
Activate ==
  LET switched == [disk EXCEPT !.alias = target]
  IN  \/ /\ disk' = Activated(switched, target)
         /\ target' = None /\ search' = TRUE /\ job' = Resting("off")
         /\ UNCHANGED <<row, up, conf, mixed, bounds>>
      \/ Fail(disk, 1)
      \/ Fail(switched, 1)
      \/ /\ faults < MaxFaults /\ faults' = faults + 1
         /\ disk' = switched /\ up' = FALSE /\ target' = None /\ search' = FALSE /\ job' = Resting("off")
         /\ UNCHANGED <<row, conf, mixed, changes, switches>>

\* Mutant: what was repaired is not verified again.
ReconcileDoneAtOnce ==
  /\ up /\ job.pc = "work" /\ job.todo = {} /\ job.kind = "repair"
  /\ IF target = None THEN Fail(disk, 0) ELSE Activate

\* A run that repaired something leaves the verification to the next one.  The
\* target of the run is verified, and that of the manager is activated.
ReconcileDone ==
  /\ up /\ job.pc = "work" /\ job.todo = {} /\ job.kind = "repair"
  /\ IF job.fixed THEN Proceed(disk, 0, Resting("asleep"))
     ELSE \/ Fail(disk, 1)
          \/ ~Exact(disk, job.coll, conf) /\ Proceed(disk, 0, Resting("asleep"))
          \/ Exact(disk, job.coll, conf) /\ target = None /\ Fail(disk, 0)
          \/ Exact(disk, job.coll, conf) /\ target # None /\ Activate

Migrate ==
  \/ RunEnds \/ RunBatch \/ RunReconcile \/ BatchDone \/ ReconcileDone
  \/ \E a \in Atoms : Source(a) \/ Embedded(a)

Next ==
  \/ Start \/ Crash \/ Register \/ Migrate
  \/ \E p \in Profiles : Reconfigure(p)
  \/ \E a \in Atoms : Remove(a)
  \/ \E a \in Atoms, text \in Contents \cup {Blank} : Write(a, text)
  \/ \E a \in Atoms, text \in Contents : Upsert(a, text)

Spec == Init /\ [][Next]_vars

\* The process is started again, the monitor polls, and the task, which loops
\* with a sleep, goes on.
FairSpec == Spec /\ WF_vars(Start) /\ WF_vars(Register) /\ WF_vars(Migrate)
-----------------------------------------------------------------------------
(* Properties                                                              *)

Points == [text : Contents \cup {None}, space : Profiles \cup {Unknown, None}]

TypeOK ==
  /\ row \in [Atoms -> Contents \cup {Blank, Gone}]
  /\ disk = Disk(disk.exist, disk.points, disk.alias, disk.state)
  /\ disk.exist \subseteq Collections /\ disk.points \in [Collections -> [Atoms -> Points]]
  /\ disk.alias \in disk.exist \cup {None}
  /\ disk.state = IndexState(disk.state.active, disk.state.space, disk.state.aim, disk.state.cursor)
  /\ disk.state.active \in Collections \cup {None} /\ disk.state.space \in Profiles \cup {Unknown, None}
  /\ disk.state.aim \in disk.exist \cup {None} /\ disk.state.cursor \in Atoms \cup {0}
  /\ up \in BOOLEAN /\ conf \in Profiles \cup {None} /\ target \in {None, conf} /\ search \in BOOLEAN
  /\ job.pc \in {"off", "asleep", "work", "embed"} /\ job.coll \in Profiles \cup {None}
  /\ job.todo \subseteq Atoms /\ job.tries \in 0..MaxAttempts

\* What is searched was made by the present profile: whatever becomes of
\* profiles, rebuilds and saved states, no search compares vectors of different
\* profiles (embedding_profile.py:3), unless a run has mixed them.
SearchOneSpace ==
  up /\ search /\ ~mixed => \A a \in Atoms : disk.points[disk.alias][a].space \in {conf, None}

\* A collection that the state says was made by a profile was, unless a run has
\* mixed them: the next start opens it for searches on the word of the state.
LabelTrue ==
  disk.alias # None /\ disk.state.active = disk.alias /\ disk.state.space \in Profiles /\ ~mixed =>
    \A a \in Atoms : disk.points[disk.alias][a].space \in {disk.state.space, None}

\* The alias is put on a collection only when that has the vectors of exactly
\* the present sources ("atomically point the stable atom alias at a fully
\* rebuilt collection", store.py:1521), although the profile may change while a
\* run that will verify another collection awaits.  What is verified and what is
\* activated can differ in an index that has no sources, or has mixed profiles.
SwitchesToExact ==
  [][~mixed /\ disk.alias \notin {None, disk'.alias} /\ Embeddable # {} => Exact(disk, disk'.alias, conf)]_vars

\* A collection holds vectors of its own profile only: indexes "do not silently
\* mix models that happen to have the same dimension" (embedding_profile.py:4-5).
Unmixed == \A p \in Profiles, a \in Atoms : disk.points[p][a].space \in {p, None}

\* When profiles stop changing, writes end and calls stop failing, the index is
\* rebuilt and can be searched.
Opened == <>[](up /\ search)
=============================================================================
