------------------------------- MODULE Fading -------------------------------
(***************************************************************************)
(* How memories leave: the sweep of ForgettingManager (decay, archive,     *)
(* hard deletion), which its own hourly task and the dream agent share;    *)
(* the dream agent's soft cap, which merges the least of one user's atoms  *)
(* into a summary; and the feedback on atoms a reply was made with.        *)
(*                                                                         *)
(* The atoms are those of one user.  A weight is a level: 0, at least the  *)
(* archive threshold; 1, below it; 2, below the delete threshold.  An atom *)
(* has the weight of its row and the age that compute_weight would derive  *)
(* one from now; importance and confidence are such that a fresh atom is   *)
(* at level 0.  Everything runs on one event loop: an action is what runs  *)
(* between two awaits that suspend.  Those of the stores do not, so that a *)
(* sweep is one action; the embedding of a summary does.  A process that   *)
(* dies inside an action leaves what a failure at that point leaves, with  *)
(* Restart after it.                                                       *)
(***************************************************************************)
EXTENDS Integers, FiniteSets, FiniteSetsExt

CONSTANTS Atoms,     \* the user's atoms
          Summary,   \* the summary of the soft cap, with its fixed identifier
          Cap,       \* soft cap
          Batch,     \* atoms that a round of the soft cap takes at most
          Snippets,  \* atoms that the text of a summary quotes at most
          MaxFaults  \* bound: database errors, failed embeddings, restarts

ASSUME FadingAssumption ==
  /\ IsFiniteSet(Atoms) /\ Summary \notin Atoms
  /\ {Cap, Batch, Snippets} \subseteq Nat \ {0} /\ MaxFaults \in Nat

All == Atoms \cup {Summary}

VARIABLES
  row,      \* memory_atom: status, weight and what the weight is derived from
  archive,  \* the atoms with a row in raw_message_archive
  gist,     \* the atoms that the summary's text quotes
  indexed,  \* its vector was made of that text
  running,  \* _sweep_running
  hourly,   \* ForgettingSweepTask is alive
  cap,      \* the soft cap's round: where it is, to_archive
  held,     \* the atom retrieved for a reply, without feedback yet
  faults

memory == <<row, archive>>
dream  == <<cap, gist, indexed>>
sweeps == <<running, hourly>>
vars   == <<memory, dream, sweeps, held, faults>>

Level == 0..2
Awake == [step |-> "idle", list |-> {}]

TypeOK ==
  /\ row \in [All -> [status: {"none", "active", "archived", "deleted"},
                      age: Level, weight: Level]]
  /\ {archive, gist, held} \subseteq SUBSET All
  /\ cap \in [step: {"idle", "indexing"}, list: SUBSET All]
  /\ {running, hourly, indexed} \subseteq BOOLEAN
  /\ faults \in 0..MaxFaults

Init ==
  /\ row = [a \in All |-> [status |-> "none", age |-> 0, weight |-> 0]]
  /\ archive = {} /\ gist = {} /\ indexed = FALSE
  /\ running = FALSE /\ hourly = TRUE
  /\ cap = Awake /\ held = {} /\ faults = 0

Active == {a \in All : row[a].status = "active"}

Fault == faults < MaxFaults /\ faults' = faults + 1

\* A loop comes through with all of these atoms, or at the price of a fault with
\* some of them.
Through(s) == IF faults < MaxFaults THEN SUBSET s ELSE {s}

-----------------------------------------------------------------------------
(* What the atoms undergo otherwise.                                       *)

Write(a) ==
  /\ row[a].status = "none" /\ a # Summary
  /\ row' = [row EXCEPT ![a].status = "active"]
  /\ UNCHANGED <<archive, dream, sweeps, held, faults>>

\* Days go by, in which the atom is not accessed; a round of the soft cap takes
\* seconds.  The age of an archived one no longer matters.
Age(a) ==
  /\ cap.step = "idle"
  /\ row[a].status = "active" /\ row[a].age < 2
  /\ row' = [row EXCEPT ![a].age = @ + 1]
  /\ UNCHANGED <<archive, dream, sweeps, held, faults>>

\* One reply at a time.  Only active atoms are found, but one may be archived,
\* or deleted, before the feedback on it arrives.
Retrieve(a) ==
  /\ held = {} /\ a \in Active
  /\ held' = {a}
  /\ UNCHANGED <<memory, dream, sweeps, faults>>

\* A useful atom gets a new weight, any other one loses a little; either is
\* an access.
Reinforced(a) ==
  \E w \in {0, row[a].weight, row[a].weight + 1} \cap Level :
    row' = [row EXCEPT ![a].age = 0, ![a].weight = w]

Feedback(a) ==
  /\ a \in held
  /\ held' = {}
  /\ IF row[a].status = "deleted" THEN UNCHANGED row ELSE Reinforced(a)
  /\ UNCHANGED <<archive, dream, sweeps, faults>>

-----------------------------------------------------------------------------
(* The sweep.                                                              *)

Derived == [a \in All |-> IF a \in Active THEN [row[a] EXCEPT !.weight = row[a].age] ELSE row[a]]

\* Those that are faint once the weights are derived, and are archived; a failure
\* is logged for each, and may come after its archive row was made.
Faint == {a \in Active : row[a].age > 0}

Shelved(atom) == [atom EXCEPT !.status = "archived", !.age = 0]

Archived(s) == [a \in All |-> IF a \in s THEN Shelved(Derived[a]) ELSE Derived[a]]

Expired(r) == {a \in All : r[a].status \in {"active", "archived"} /\ r[a].weight = 2}

\* Mutation: an atom that could not be archived is deleted as well.
EvenUnsaved(expired, saved) == expired

\* Before a deletion the archive row is made sure of; when that fails the atom
\* stays.
Deletable(expired, saved) == saved

Gone(r, s) == [a \in All |-> IF a \in s THEN [status |-> "deleted", age |-> 0, weight |-> 0] ELSE r[a]]

\* A call while a sweep is under way returns at once.  The dream agent's
\* call follows its soft cap.
MaySweep(by) ==
  /\ ~running
  /\ \/ by = "hourly" /\ hourly
     \/ by = "dream" /\ cap.step = "idle"

\* run_sweep: the weights are derived, those that are faint by now are archived,
\* and those below the delete threshold, read once, are deleted.
Sweep(by) ==
  /\ MaySweep(by)
  /\ \E done \in Through(Faint) : \E copied \in Through(Faint) :
       LET expired == Expired(Archived(done))
       IN  \E saved \in Through(expired) : \E gone \in Through(Deletable(expired, saved)) :
             /\ done \subseteq copied
             /\ row' = Gone(Archived(done), gone)
             /\ archive' = archive \cup copied \cup saved
             /\ IF done = Faint /\ gone = expired THEN UNCHANGED faults ELSE Fault
  /\ UNCHANGED <<dream, sweeps, held>>

\* Mutation: the flag is reset only when the sweep comes to its end.
RaisedBusy(by) == running' = TRUE /\ hourly' = (hourly /\ by # "hourly")

\* The flag is reset (finally); the exception ends the hourly task for good, the
\* dream agent goes on.
Raised(by) == running' = FALSE /\ hourly' = (hourly /\ by # "hourly")

\* A query of the sweep fails: as the weights are derived, which undoes them; as
\* the faint ones are read; or as the list of those to be deleted is read.
SweepFails(by) ==
  /\ MaySweep(by) /\ Fault
  /\ \/ UNCHANGED memory
     \/ \E copied \in SUBSET Faint : \E done \in SUBSET copied :
          row' = Archived(done) /\ archive' = archive \cup copied
  /\ Raised(by)
  /\ UNCHANGED <<dream, held>>

-----------------------------------------------------------------------------
(* The soft cap.                                                           *)

\* n of these atoms, or all if there are no more, of the least weight.
Least(n, s) ==
  {t \in kSubset(Min({n, Cardinality(s)}), s) :
     \A a \in t, b \in s \ t : row[a].weight >= row[b].weight}

\* As many as bring the active ones, the summary counted, down to the cap.
ToArchive ==
  LET excess == Cardinality(Active) - Cap + (IF Summary \in Active THEN 0 ELSE 1)
  IN  Least(Min({excess, Batch}), Active \ {Summary})

Over == Cardinality(Active) > Cap /\ Active # {Summary}

\* The summary is updated if it is active and otherwise created, with a text that
\* quotes the first of the atoms taken this time: that fails if its row exists,
\* which is so when it was archived.
Summarise ==
  /\ cap.step = "idle"
  /\ Over
  /\ row[Summary].status # "archived"
  /\ \E list \in ToArchive :
        /\ gist' \in Least(Snippets, list) /\ indexed' = FALSE
        /\ cap' = [step |-> "indexing", list |-> list]
  /\ row' = [row EXCEPT ![Summary] = [status |-> "active", age |-> 0, weight |-> 0]]
  /\ UNCHANGED <<archive, sweeps, held, faults>>

\* Mutation: the atoms are archived although the vector was not written.
IndexedOrNot == indexed' \in BOOLEAN

\* The summary has an embedding, and its vector is written.
Indexed == indexed' = TRUE

\* _archive_soft_cap_atoms: an update of no row, where a sweep has deleted the
\* atom meanwhile.  An exception leaves the rest as they are.
Absorb ==
  /\ cap.step = "indexing" /\ cap' = Awake
  /\ Indexed
  /\ \E done \in Through(cap.list) :
       /\ row' = [a \in All |-> IF a \in done /\ row[a].status # "deleted" THEN Shelved(row[a]) ELSE row[a]]
       /\ IF done = cap.list THEN UNCHANGED faults ELSE Fault
  /\ UNCHANGED <<archive, gist, sweeps, held>>

\* The embedding or the write of the vector fails.
CapFails ==
  /\ cap.step = "indexing"
  /\ Fault
  /\ cap' = Awake
  /\ UNCHANGED <<memory, gist, indexed, sweeps, held>>

Restart ==
  /\ Fault
  /\ running' = FALSE /\ hourly' = TRUE
  /\ cap' = Awake /\ held' = {}
  /\ UNCHANGED <<memory, gist, indexed>>

-----------------------------------------------------------------------------
Next ==
  \/ \E a \in All : Write(a) \/ Age(a) \/ Retrieve(a) \/ Feedback(a)
  \/ \E by \in {"hourly", "dream"} : Sweep(by) \/ SweepFails(by)
  \/ Summarise \/ Absorb \/ CapFails
  \/ Restart

Spec == Init /\ [][Next]_vars

\* The chat falls idle again and again, and the dream agent then has its
\* turn; the hour comes round; an embedding returns.
FairSpec ==
  /\ Spec
  /\ WF_vars(Sweep("dream")) /\ WF_vars(Sweep("hourly")) /\ WF_vars(Summarise)
  /\ WF_vars(Absorb)

-----------------------------------------------------------------------------
(* Properties.                                                             *)

\* What is deleted for good was archived before, whichever step failed for
\* it earlier.
DeletedKept == \A a \in All : row[a].status = "deleted" => a \in archive

\* The soft cap takes an atom only while the summary that stands for it is active
\* and can be found by its vector, whatever a sweep or a feedback did while that
\* was embedded; and the text of the summary quotes the atom, unless it quotes as
\* many as it can hold: what a batch has beyond these is taken without a word.
RetiredWhenAbsorbed ==
  [][\A a \in All : /\ row[a].status = "active" /\ row'[a].status = "archived"
                    /\ cap.step = "indexing" /\ cap'.step = "idle"
                    => /\ row[Summary].status = "active" /\ indexed'
                       /\ \/ a \in gist
                          \/ Cardinality(gist) = Snippets]_vars

\* An atom nobody asks for leaves, though sweeps fail, kill the hourly task
\* and are left unfinished by a restart.
FadedLeaves ==
  \A a \in Atoms : (row[a].status = "active" /\ row[a].age = 2)
                     ~> (row[a].status # "active" \/ row[a].age < 2)

\* What the soft cap is for: it is exceeded for some time only.
CapEnforced == Over ~> ~Over
=============================================================================
