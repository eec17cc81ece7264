---------------------------- MODULE DreamCycles ----------------------------
(***************************************************************************)
(* What the dream agent makes of raw messages and of noise: DreamTask with *)
(* its daily, weekly and monthly cycles, of which one at a time is due;    *)
(* the triage of archived messages into the noise pool; the recycling of   *)
(* the pool by InspirationEngine; and the cleaning of the pool.            *)
(*                                                                         *)
(* Time is counted in slots.  A poll falls into a slot if the chat is idle *)
(* then, and a slot may hold several polls or none; a cycle is over within *)
(* the slot it began in.  Ages stop at the first value at which nothing    *)
(* older differs.  What the other phases of a cycle do to atoms is modelled*)
(* in Fading; here they are awaits.                                        *)
(***************************************************************************)
EXTENDS Integers, FiniteSets, FiniteSetsExt

CONSTANTS Messages,        \* archived messages
          Noises,          \* what the objectivity check puts into the pool itself
          Batch,           \* RAW_TRIAGE_BATCH_SIZE
          Limit,           \* CANDIDATE_LIMIT
          Day, Week, Month,\* DAILY_CYCLE_HOURS, WEEKLY_CYCLE_DAYS, MONTHLY_CYCLE_DAYS
          Recent, Keep,    \* WEEKLY_NOISE_RECYCLE_DAYS, NOISE_CLEANUP_DAYS
          MaxFaults        \* bound: failed database operations, restarts

ASSUME DreamAssumption ==
  /\ IsFiniteSet(Messages) /\ IsFiniteSet(Noises) /\ Messages \cap Noises = {}
  /\ {Batch, Limit, Day, Week, Month} \subseteq Nat \ {0}
  /\ Recent \in 1..Keep /\ Keep \in Nat /\ MaxFaults \in Nat

Items  == Messages \cup Noises
Cycles == {"daily", "weekly", "monthly"}

VARIABLES
  since,    \* time since the last completed cycle of each type began
  raw,      \* raw_message_archive: dream_status, and the age of the message
  pool,     \* noise_pool: the candidate made of each item, and its age
  cycle,    \* the cycle that runs: its type, the next phase, the candidates
            \* left and the one whose atom was just written
  atoms,    \* how often an atom was written for the item
  missed,   \* history: the messages whose triage has failed
  faults

vars == <<since, raw, pool, cycle, atoms, missed, faults>>

Rest == [type |-> "none", phase |-> "idle", left |-> {}, written |-> {}]

\* The first elapsed time at which a cycle is due; "never" counts as that.
Due == [t \in Cycles |-> CASE t = "daily" -> Day + 1 [] t = "weekly" -> Week
                           [] t = "monthly" -> Month]

TypeOK ==
  /\ since \in [Cycles -> Nat] /\ \A t \in Cycles : since[t] <= Due[t]
  /\ raw \in [Messages -> [status: {"none", "pending", "triaged", "skipped"},
                           age: 0..(Day + 1)]]
  /\ pool \in [Items -> [state: {"none", "pooled", "gone"}, age: 0..(Keep + 1)]]
  /\ cycle \in [type: Cycles \cup {"none"}, left: SUBSET Items, written: SUBSET Items,
                phase: {"idle", "triage", "recycle", "dispose", "confirm", "clean"}]
  /\ atoms \in [Items -> 0..2]
  /\ missed \subseteq Messages
  /\ faults \in 0..MaxFaults

Init ==
  /\ since = Due
  /\ raw = [m \in Messages |-> [status |-> "none", age |-> 0]]
  /\ pool = [i \in Items |-> [state |-> "none", age |-> 0]]
  /\ cycle = Rest
  /\ atoms = [i \in Items |-> 0]
  /\ missed = {} /\ faults = 0

Fault == faults < MaxFaults /\ faults' = faults + 1

\* The subsets of s for which the operation fails, if a fault is left.
Failing(s) == {bad \in SUBSET s : bad = {} \/ faults < MaxFaults}
Counted(bad) == faults' = IF bad = {} THEN faults ELSE faults + 1

Pooled == {i \in Items : pool[i].state = "pooled"}
Entry  == [state |-> "pooled", age |-> 0]
Spent  == [state |-> "gone", age |-> 0]

-----------------------------------------------------------------------------
(* Time, and what comes in.                                                *)

Tick ==
  /\ cycle = Rest
  /\ since' = [t \in Cycles |-> Min({since[t] + 1, Due[t]})]
  /\ raw' = [m \in Messages |->
               IF raw[m].status = "pending"
               THEN [raw[m] EXCEPT !.age = Min({@ + 1, Day + 1})] ELSE raw[m]]
  /\ pool' = [i \in Items |->
               IF i \in Pooled THEN [pool[i] EXCEPT !.age = Min({@ + 1, Keep + 1})]
                               ELSE pool[i]]
  /\ UNCHANGED <<cycle, atoms, missed, faults>>

Arrive(m) ==
  /\ raw[m].status = "none"
  /\ raw' = [raw EXCEPT ![m].status = "pending"]
  /\ UNCHANGED <<since, pool, cycle, atoms, missed, faults>>

RecordNoise(n) ==
  /\ pool[n].state = "none"
  /\ pool' = [pool EXCEPT ![n] = Entry]
  /\ UNCHANGED <<since, raw, cycle, atoms, missed, faults>>

-----------------------------------------------------------------------------
(* The cycles.                                                             *)

IsDue(t) == since[t] = Due[t]

\* daily > weekly > monthly; if the runs cannot be read, daily.
Begin(t) ==
  /\ cycle = Rest
  /\ \/ /\ IsDue(t)
        /\ t = "weekly" => ~IsDue("daily")
        /\ t = "monthly" => ~IsDue("daily") /\ ~IsDue("weekly")
        /\ UNCHANGED faults
     \/ t = "daily" /\ Fault
  /\ cycle' = [type |-> t, phase |-> IF t = "daily" THEN "triage" ELSE "recycle",
              left |-> {}, written |-> {}]
  /\ UNCHANGED <<since, raw, pool, atoms, missed>>

\* The oldest pending messages of the last day, at most Batch of them.
ToTriage ==
  LET recent == {m \in Messages : raw[m].status = "pending" /\ raw[m].age <= Day}
  IN  {s \in kSubset(Min({Batch, Cardinality(recent)}), recent) :
          \A m \in s, o \in recent \ s : raw[m].age >= raw[o].age}

Marked(done, blank) ==
  raw' = [m \in Messages |->
            IF m \in done THEN [status |-> IF m \in blank THEN "skipped" ELSE "triaged", age |-> 0]
                          ELSE raw[m]]

Recorded(done) ==
  pool' = [i \in Items |-> IF i \in done \ Pooled THEN Entry ELSE pool[i]]

\* Mutation: the mark is committed before the candidate is created.
MarkFirst(list, blank, bad) == Marked(list, blank) /\ Recorded(list \ (bad \cup blank))

\* Mutation: the candidate is committed before the message is marked.
RecordFirst(list, blank, bad) == Marked(list \ bad, blank) /\ Recorded(list \ blank)

\* The candidate and the mark are one transaction; a blank message is marked
\* only.  A message for which that fails stays pending.
Triaged(list, blank, bad) == Marked(list \ bad, blank) /\ Recorded(list \ (bad \cup blank))

Triage ==
  /\ cycle.phase = "triage"
  /\ \E list \in ToTriage : \E blank \in SUBSET list : \E bad \in Failing(list) :
       /\ Triaged(list, blank, bad)
       /\ missed' = missed \cup bad
       /\ Counted(bad)
  /\ cycle' = [cycle EXCEPT !.phase = "clean"]
  /\ UNCHANGED <<since, atoms>>

Window == IF cycle.type = "weekly" THEN Recent ELSE Keep

\* Which of the candidates of the window are taken depends on significances.
Recycle ==
  /\ cycle.phase = "recycle"
  /\ LET young == {i \in Pooled : pool[i].age <= Window}
     IN  \E list \in kSubset(Min({Limit, Cardinality(young)}), young) :
           cycle' = [cycle EXCEPT !.phase = IF list = {} THEN "clean" ELSE "dispose",
                                  !.left = list]
  /\ UNCHANGED <<since, raw, pool, atoms, missed, faults>>

Without(i) == [cycle EXCEPT !.left = @ \ {i}, !.written = {},
                            !.phase = IF cycle.left = {i} THEN "clean" ELSE "dispose"]

Skip(i) == cycle' = Without(i) /\ Fault /\ UNCHANGED <<since, raw, missed>>

Leave(i) == Skip(i) /\ UNCHANGED pool

Consume(i) ==
  /\ pool' = [pool EXCEPT ![i] = Spent]
  /\ cycle' = Without(i)
  /\ UNCHANGED <<since, raw, missed, faults>>

\* No keywords, or too few atoms share one: deleted.  Enough of them: consumed
\* in one transaction with an insight.
Resolve(i) ==
  /\ cycle.phase = "dispose" /\ i \in cycle.left
  /\ Consume(i) \/ Leave(i)
  /\ UNCHANGED atoms

\* Mutation: the atom is written without looking for an earlier one.
WrittenAgain(i) == atoms' = [atoms EXCEPT ![i] = Min({@ + 1, 2})]

\* The atom has an identifier made of the candidate.
Written(i) == atoms' = IF atoms[i] = 0 THEN [atoms EXCEPT ![i] = 1] ELSE atoms

\* Only what does not come from a raw message becomes an atom.  The write
\* awaits; when it raises, the row may be in place or not.
Promote(n) ==
  /\ cycle.phase = "dispose" /\ n \in cycle.left \cap Noises
  /\ \/ /\ Written(n)
        /\ cycle' = [cycle EXCEPT !.phase = "confirm", !.written = {n}]
        /\ UNCHANGED <<since, raw, missed, faults>>
     \/ /\ Skip(n)
        /\ Written(n) \/ UNCHANGED atoms
  /\ UNCHANGED pool

Confirm(n) ==
  /\ cycle.phase = "confirm" /\ n \in cycle.written
  /\ Consume(n) \/ Leave(n)
  /\ UNCHANGED atoms

Expired == {i \in Pooled : pool[i].age > Keep}

\* Mutation: the daily cycle leaves the cleaning to the cycles that recycle.
CleanedAfterRecycling ==
  pool' = [i \in Items |-> IF i \in Expired /\ cycle.type # "daily" THEN Spent ELSE pool[i]]

Cleaned == pool' = [i \in Items |-> IF i \in Expired THEN Spent ELSE pool[i]]

\* The last phase and the record of the run: either may fail for itself, and
\* a run that is not recorded as completed leaves its type due.
Clean ==
  /\ cycle.phase = "clean"
  /\ cycle' = Rest
  /\ \/ Cleaned /\ UNCHANGED faults /\ since' = [since EXCEPT ![cycle.type] = 0]
     \/ UNCHANGED pool /\ Fault /\ since' = [since EXCEPT ![cycle.type] = 0]
     \/ Cleaned /\ Fault /\ UNCHANGED since
  /\ UNCHANGED <<raw, atoms, missed>>

\* An exception that a phase does not catch, or a restart: the run stays
\* "failed" or "running", which is not completed.
Abort ==
  /\ cycle # Rest /\ Fault
  /\ cycle' = Rest
  /\ UNCHANGED <<since, raw, pool, atoms, missed>>

-----------------------------------------------------------------------------
Next ==
  \/ Tick
  \/ \E m \in Messages : Arrive(m)
  \/ \E n \in Noises : RecordNoise(n) \/ Promote(n) \/ Confirm(n)
  \/ \E i \in Items : Resolve(i)
  \/ \E t \in Cycles : Begin(t)
  \/ Triage \/ Recycle \/ Clean \/ Abort

Spec == Init /\ [][Next]_vars

Dispose == \E i \in Items : Resolve(i) \/ (i \in Noises /\ (Promote(i) \/ Confirm(i)))

\* Time passes; a poll finds the chat idle now and then, though not often
\* enough perhaps for more than the cycle that comes first; and a cycle that
\* has begun goes on.
FairSpec ==
  /\ Spec
  /\ WF_vars(Tick) /\ WF_vars(\E t \in Cycles : Begin(t))
  /\ WF_vars(Triage) /\ WF_vars(Recycle) /\ WF_vars(Dispose) /\ WF_vars(Clean)

-----------------------------------------------------------------------------
(* Properties.                                                             *)

\* A message counts as triaged only when a candidate was made of it,
\* whichever part of the triage failed.
TriagedKept == \A m \in Messages : raw[m].status = "triaged" => pool[m].state # "none"

\* What became of a message is not undone: a candidate that was consumed is
\* not made again of the same message, though triages are repeated.
ConsumedForGood == [][\A i \in Items : pool[i].state = "gone" => pool'[i] = pool[i]]_vars

\* A candidate whose atom was written becomes no second one, though it was
\* not removed: the removal failed, or the process was stopped before it.
PromotedOnce == \A i \in Items : atoms[i] <= 1

\* The pool does not keep a candidate for ever, even if the chat is never
\* idle for long enough that a weekly or a monthly cycle gets its turn.
PoolDrains == \A i \in Items : (i \in Pooled) ~> (i \notin Pooled)

\* A message whose triage failed is taken up again.
MissedRetried == \A m \in Messages :
  (m \in missed /\ raw[m].status = "pending") ~> (raw[m].status # "pending")
=============================================================================
