--------------------------- MODULE Fading_proofs ---------------------------
(***************************************************************************)
(* Proofs about how memories leave, for all atoms, caps, batches and       *)
(* failures: what is deleted was archived; the soft cap archives only for  *)
(* a summary that is active, has its vector, and quotes what it can hold.  *)
(***************************************************************************)
EXTENDS Fading, FiniteSetTheorems, TLAPS

AtomType == [status: {"none", "active", "archived", "deleted"}, age: Level, weight: Level]

\* While a summary is embedded it stays as fresh as it was made, so that no sweep
\* takes it; and its text quotes all the atoms of the batch, or as many as it can.
IInv ==
  /\ TypeOK
  /\ DeletedKept
  /\ cap.step = "indexing" =>
       /\ row[Summary].status = "active" /\ row[Summary].age = 0
       /\ \/ cap.list \subseteq gist
          \/ Cardinality(gist) = Snippets

\* What every step keeps, of the property about steps.
Careful ==
  \A a \in All : /\ row[a].status = "active" /\ row'[a].status = "archived"
                 /\ cap.step = "indexing" /\ cap'.step = "idle"
                 => /\ row[Summary].status = "active" /\ indexed'
                    /\ \/ a \in gist
                       \/ Cardinality(gist) = Snippets
-----------------------------------------------------------------------------
LEMMA Types ==
  ASSUME TypeOK
  PROVE  /\ row \in [All -> AtomType]
         /\ archive \subseteq All /\ gist \subseteq All /\ held \subseteq All
         /\ cap \in [step: {"idle", "indexing"}, list: SUBSET All]
         /\ running \in BOOLEAN /\ hourly \in BOOLEAN /\ indexed \in BOOLEAN
         /\ faults \in 0..MaxFaults
BY DEF TypeOK, AtomType

LEMMA FaultKeeps ==
  ASSUME faults \in 0..MaxFaults, Fault
  PROVE  faults' \in 0..MaxFaults
BY FadingAssumption DEF Fault

LEMMA ThroughSubset ==
  ASSUME NEW s, NEW t \in Through(s)
  PROVE  t \subseteq s
BY DEF Through

LEMMA ShelvedType ==
  ASSUME NEW r \in AtomType
  PROVE  Shelved(r) \in AtomType /\ Shelved(r).status = "archived"
<1>1. 0 \in Level
  BY DEF Level
<1> DEFINE once == [r EXCEPT !.status = "archived"]
<1>2. once \in AtomType /\ once.status = "archived"
  BY DEF AtomType
<1>3. Shelved(r) = [once EXCEPT !.age = 0]
  BY DEF Shelved
<1> HIDE DEF once
<1> QED
  BY <1>1, <1>2, <1>3 DEF AtomType

\* The text made of a batch quotes all of it, or as many as it can hold.
LEMMA Quoted ==
  ASSUME NEW list, IsFiniteSet(list), NEW text \in Least(Snippets, list)
  PROVE  text \subseteq list /\ (list \subseteq text \/ Cardinality(text) = Snippets)
<1> DEFINE n == Cardinality(list)
<1>1. Snippets \in Nat /\ n \in Nat
  BY FadingAssumption, FS_CardinalityType
<1>2. text \subseteq list /\ Cardinality(text) = Min({Snippets, n})
  BY DEF Least, kSubset
<1>3. Min({Snippets, n}) \in {Snippets, n}
  <2> HIDE DEF n
  <2>1. \E x \in {Snippets, n} : \A y \in {Snippets, n} : x =< y
    BY <1>1
  <2> QED
    BY <2>1 DEF Min
<1>4. CASE Cardinality(text) = n
  BY <1>2, <1>4, FS_Subset
<1> QED
  BY <1>2, <1>3, <1>4

LEMMA InitInvariant == Init => IInv
<1> SUFFICES ASSUME Init PROVE IInv
  OBVIOUS
<1>1. row \in [All -> AtomType] /\ \A a \in All : row[a].status = "none"
  BY DEF Init, AtomType, Level
<1>2. faults \in 0..MaxFaults
  BY FadingAssumption DEF Init
<1> QED
  BY <1>1, <1>2 DEF Init, IInv, TypeOK, AtomType, DeletedKept, Awake
-----------------------------------------------------------------------------
(* The sweep                                                               *)

\* Deriving the weights and archiving: the fresh stay as they are.
LEMMA ArchivedRows ==
  ASSUME row \in [All -> AtomType], NEW done \in SUBSET Faint
  PROVE  /\ Archived(done) \in [All -> AtomType]
         /\ \A a \in All : /\ Archived(done)[a].status = "deleted" => row[a].status = "deleted"
                           /\ row[a].status = "active" /\ row[a].age = 0 =>
                                /\ Archived(done)[a].status = "active"
                                /\ Archived(done)[a].age = 0 /\ Archived(done)[a].weight = 0
<1>1. Derived \in [All -> AtomType]
  BY DEF Derived, AtomType
<1>2. \A a \in All : /\ Derived[a].status = row[a].status /\ Derived[a].age = row[a].age
                     /\ row[a].status = "active" => Derived[a].weight = row[a].age
  BY DEF Derived, Active, AtomType
<1>3. \A a \in All : Shelved(Derived[a]) \in AtomType /\ Shelved(Derived[a]).status = "archived"
  BY <1>1, ShelvedType
<1>4. \A a \in done : row[a].age # 0
  BY DEF Faint, Active, AtomType, Level
<1>5. \A a \in All : Archived(done)[a] = IF a \in done THEN Shelved(Derived[a]) ELSE Derived[a]
  BY DEF Archived
<1>6. Archived(done) \in [All -> AtomType]
  BY <1>1, <1>3 DEF Archived
<1> QED
  BY <1>2, <1>3, <1>4, <1>5, <1>6

\* What the two outcomes of a sweep have in common.
LEMMA SweptKeeps ==
  ASSUME IInv, NEW done \in SUBSET Faint, NEW copied \in SUBSET Faint,
         NEW saved \in SUBSET Expired(Archived(done)), NEW gone \in SUBSET saved,
         row' = Gone(Archived(done), gone), archive' = archive \cup copied \cup saved,
         faults' \in 0..MaxFaults, running' \in BOOLEAN, hourly' \in BOOLEAN,
         UNCHANGED <<cap, gist, indexed, held>>
  PROVE  IInv' /\ Careful
<1> DEFINE r == Archived(done)
<1>1. /\ TypeOK /\ row \in [All -> AtomType] /\ Summary \in All
      /\ archive \subseteq All /\ gist \subseteq All /\ held \subseteq All
      /\ cap \in [step: {"idle", "indexing"}, list: SUBSET All] /\ indexed \in BOOLEAN
  BY Types DEF IInv, All
<1>2. /\ r \in [All -> AtomType]
      /\ \A a \in All : /\ r[a].status = "deleted" => row[a].status = "deleted"
                        /\ row[a].status = "active" /\ row[a].age = 0 =>
                             r[a].status = "active" /\ r[a].age = 0 /\ r[a].weight = 0
  BY <1>1, ArchivedRows
<1>3. gone \subseteq All /\ saved \subseteq All /\ copied \subseteq All /\ \A a \in gone : r[a].weight = 2
  BY DEF Expired, Faint, Active
<1> HIDE DEF r
<1>4. \A a \in All : row'[a] = IF a \in gone THEN [status |-> "deleted", age |-> 0, weight |-> 0] ELSE r[a]
  BY DEF Gone, r
<1>5. row' \in [All -> AtomType]
  <2>1. [status |-> "deleted", age |-> 0, weight |-> 0] \in AtomType
    BY DEF AtomType, Level
  <2> QED
    BY <1>2, <2>1 DEF Gone, r
<1>6. TypeOK'
  BY <1>1, <1>3, <1>5 DEF TypeOK, AtomType
<1>7. DeletedKept'
  BY <1>2, <1>3, <1>4 DEF IInv, DeletedKept
<1>8. \A a \in All : row[a].status = "active" /\ row[a].age = 0 => row'[a].status = "active" /\ row'[a].age = 0
  BY <1>2, <1>3, <1>4
<1>9. Careful
  BY DEF Careful
<1> QED
  BY <1>1, <1>6, <1>7, <1>8, <1>9 DEF IInv

LEMMA SweepKeeps ==
  ASSUME IInv, NEW by \in {"hourly", "dream"}, Sweep(by)
  PROVE  IInv' /\ Careful
<1>1. TypeOK
  BY DEF IInv
<1>2. PICK done \in Through(Faint), copied \in Through(Faint) :
        \E saved \in Through(Expired(Archived(done))) :
          \E gone \in Through(Deletable(Expired(Archived(done)), saved)) :
             /\ row' = Gone(Archived(done), gone)
             /\ archive' = archive \cup copied \cup saved
             /\ IF done = Faint /\ gone = Expired(Archived(done)) THEN UNCHANGED faults ELSE Fault
  BY DEF Sweep
<1>3. PICK saved \in Through(Expired(Archived(done))) :
        \E gone \in Through(saved) :
             /\ row' = Gone(Archived(done), gone)
             /\ archive' = archive \cup copied \cup saved
             /\ IF done = Faint /\ gone = Expired(Archived(done)) THEN UNCHANGED faults ELSE Fault
  BY <1>2 DEF Deletable
<1>4. PICK gone \in Through(saved) :
             /\ row' = Gone(Archived(done), gone)
             /\ archive' = archive \cup copied \cup saved
             /\ IF done = Faint /\ gone = Expired(Archived(done)) THEN UNCHANGED faults ELSE Fault
  BY <1>3
<1>5. /\ done \in SUBSET Faint /\ copied \in SUBSET Faint
      /\ saved \in SUBSET Expired(Archived(done)) /\ gone \in SUBSET saved
  BY ThroughSubset
<1>6. faults' \in 0..MaxFaults
  BY <1>1, <1>4, Types, FaultKeeps
<1>7. UNCHANGED <<cap, gist, indexed, held>> /\ running' \in BOOLEAN /\ hourly' \in BOOLEAN
  BY <1>1, Types DEF Sweep, dream, sweeps
<1> QED
  BY <1>4, <1>5, <1>6, <1>7, SweptKeeps

LEMMA SweepFailsKeeps ==
  ASSUME IInv, NEW by \in {"hourly", "dream"}, SweepFails(by)
  PROVE  IInv' /\ Careful
<1>1. TypeOK /\ row \in [All -> AtomType]
  BY Types DEF IInv
<1>2. faults' \in 0..MaxFaults
  BY <1>1, Types, FaultKeeps DEF SweepFails
<1>3. UNCHANGED <<cap, gist, indexed, held>> /\ running' \in BOOLEAN /\ hourly' \in BOOLEAN
  BY <1>1, Types DEF SweepFails, Raised, dream
<1>4. CASE UNCHANGED memory
  BY <1>1, <1>2, <1>3, <1>4 DEF memory, IInv, TypeOK, DeletedKept, Careful
<1>5. CASE \E copied \in SUBSET Faint : \E done \in SUBSET copied :
             row' = Archived(done) /\ archive' = archive \cup copied
  <2>1. PICK copied \in SUBSET Faint : \E done \in SUBSET copied :
               row' = Archived(done) /\ archive' = archive \cup copied
    BY <1>5
  <2>2. PICK done \in SUBSET copied : row' = Archived(done) /\ archive' = archive \cup copied
    BY <2>1
  <2>3. Gone(Archived(done), {}) = Archived(done)
    BY DEF Gone, Archived
  <2>4. row' = Gone(Archived(done), {}) /\ archive' = archive \cup copied \cup {}
    BY <2>2, <2>3
  <2>5. done \in SUBSET Faint /\ {} \in SUBSET Expired(Archived(done))
    OBVIOUS
  <2>6. \A saved \in SUBSET Expired(Archived(done)) : \A gone \in SUBSET saved :
          /\ row' = Gone(Archived(done), gone)
          /\ archive' = archive \cup copied \cup saved
          => IInv' /\ Careful
    BY <1>2, <1>3, <2>5, SweptKeeps
  <2> QED
    BY <2>4, <2>5, <2>6
<1> QED
  BY <1>4, <1>5 DEF SweepFails
-----------------------------------------------------------------------------
(* The other steps                                                         *)

LEMMA FeedbackKeeps ==
  ASSUME IInv, NEW a \in All, Feedback(a)
  PROVE  IInv' /\ Careful
<1>1. row \in [All -> AtomType] /\ TypeOK
  BY Types DEF IInv
<1>2. /\ row' \in [All -> AtomType]
      /\ \A b \in All : row'[b].status = row[b].status /\ (row'[b].age = row[b].age \/ row'[b].age = 0)
  <2>1. CASE row[a].status = "deleted"
    BY <1>1, <2>1 DEF Feedback
  <2>2. CASE row[a].status # "deleted"
    <3>1. PICK w \in {0, row[a].weight, row[a].weight + 1} \cap Level :
            row' = [row EXCEPT ![a].age = 0, ![a].weight = w]
      BY <2>2 DEF Feedback, Reinforced
    <3> DEFINE fresh == [row[a] EXCEPT !.age = 0]
               done  == [fresh EXCEPT !.weight = w]
    <3>2. row[a] \in AtomType /\ w \in Level /\ 0 \in Level
      BY <1>1, <3>1 DEF Level
    <3>3. fresh \in AtomType /\ fresh.status = row[a].status /\ fresh.age = 0
      BY <3>2 DEF AtomType
    <3>4. done \in AtomType /\ done.status = row[a].status /\ done.age = 0
      <4> HIDE DEF fresh
      <4> QED
        BY <3>2, <3>3 DEF AtomType
    <3>5. row' = [row EXCEPT ![a] = done]
      BY <1>1, <3>1
    <3> HIDE DEF fresh, done
    <3> QED
      BY <1>1, <3>4, <3>5
  <2> QED
    BY <2>1, <2>2
<1>3. held' \subseteq All /\ UNCHANGED <<archive, cap, gist, indexed, running, hourly, faults>>
  BY DEF Feedback, dream, sweeps
<1>4. TypeOK'
  BY <1>1, <1>2, <1>3, Types DEF TypeOK, AtomType
<1> QED
  BY <1>2, <1>3, <1>4 DEF IInv, DeletedKept, Careful, All

LEMMA SummariseKeeps ==
  ASSUME IInv, Summarise
  PROVE  IInv' /\ Careful
<1>1. TypeOK /\ row \in [All -> AtomType] /\ Summary \in All /\ IsFiniteSet(All)
  BY Types, FadingAssumption, FS_AddElement DEF IInv, All
<1>2. PICK list \in ToArchive : /\ gist' \in Least(Snippets, list) /\ indexed' = FALSE
                               /\ cap' = [step |-> "indexing", list |-> list]
  BY DEF Summarise
<1>3. list \subseteq All
  BY DEF ToArchive, Least, kSubset, Active
<1>4. gist' \subseteq list /\ (list \subseteq gist' \/ Cardinality(gist') = Snippets)
  BY <1>1, <1>2, <1>3, Quoted, FS_Subset
<1>5. row' = [row EXCEPT ![Summary] = [status |-> "active", age |-> 0, weight |-> 0]]
  BY DEF Summarise
<1>6. /\ row' \in [All -> AtomType]
      /\ row'[Summary].status = "active" /\ row'[Summary].age = 0
      /\ \A a \in All : row'[a].status # "active" => row'[a] = row[a]
  BY <1>1, <1>5 DEF AtomType, Level
<1>7. UNCHANGED <<archive, running, hourly, held, faults>>
  BY DEF Summarise, sweeps
<1>8. TypeOK'
  BY <1>1, <1>2, <1>3, <1>4, <1>6, <1>7, Types DEF TypeOK, AtomType
<1>9. DeletedKept'
  BY <1>6, <1>7 DEF IInv, DeletedKept
<1>10. Careful
  BY DEF Careful, Summarise
<1> QED
  BY <1>2, <1>4, <1>6, <1>8, <1>9, <1>10 DEF IInv

LEMMA AbsorbKeeps ==
  ASSUME IInv, Absorb
  PROVE  IInv' /\ Careful
<1>1. TypeOK /\ row \in [All -> AtomType]
  BY Types DEF IInv
<1>2. PICK done \in Through(cap.list) :
        /\ row' = [a \in All |-> IF a \in done /\ row[a].status # "deleted" THEN Shelved(row[a]) ELSE row[a]]
        /\ IF done = cap.list THEN UNCHANGED faults ELSE Fault
  BY DEF Absorb
<1>3. done \subseteq cap.list /\ faults' \in 0..MaxFaults
  BY <1>1, <1>2, ThroughSubset, FaultKeeps, Types
<1>4. /\ row' \in [All -> AtomType]
      /\ \A a \in All : row'[a] = row[a] \/ (a \in done /\ row'[a].status = "archived")
  BY <1>1, <1>2, ShelvedType
<1>5. cap.step = "indexing" /\ cap' = Awake /\ indexed' = TRUE /\ UNCHANGED <<archive, gist, running, hourly, held>>
  BY DEF Absorb, Indexed, sweeps
<1>6. TypeOK'
  BY <1>1, <1>3, <1>4, <1>5, Types DEF TypeOK, AtomType, Awake
<1>7. DeletedKept'
  BY <1>4, <1>5 DEF IInv, DeletedKept
<1>8. Careful
  BY <1>3, <1>4, <1>5 DEF IInv, Careful
<1> QED
  BY <1>5, <1>6, <1>7, <1>8 DEF IInv, Awake

LEMMA StepInvariant ==
  ASSUME IInv, [Next]_vars
  PROVE  IInv' /\ Careful
<1>1. TypeOK /\ row \in [All -> AtomType] /\ Summary \in All
  BY Types DEF IInv, All
<1>2. ASSUME NEW a \in All, Write(a) PROVE IInv' /\ Careful
  <2>1. /\ row' \in [All -> AtomType]
        /\ \A b \in All : row'[b].age = row[b].age /\ (row'[b].status = row[b].status \/ row'[b].status = "active")
    BY <1>1, <1>2 DEF Write, AtomType
  <2>2. UNCHANGED <<archive, cap, gist, indexed, running, hourly, held, faults>>
    BY <1>2 DEF Write, dream, sweeps
  <2>3. TypeOK'
    BY <1>1, <2>1, <2>2, Types DEF TypeOK, AtomType
  <2> QED
    BY <1>1, <2>1, <2>2, <2>3 DEF IInv, DeletedKept, Careful
<1>3. ASSUME NEW a \in All, Age(a) PROVE IInv' /\ Careful
  <2>1. row' \in [All -> AtomType] /\ \A b \in All : row'[b].status = row[b].status
    BY <1>1, <1>3 DEF Age, AtomType, Level
  <2>2. cap.step = "idle" /\ UNCHANGED <<archive, cap, gist, indexed, running, hourly, held, faults>>
    BY <1>3 DEF Age, dream, sweeps
  <2>3. TypeOK'
    BY <1>1, <2>1, <2>2, Types DEF TypeOK, AtomType
  <2> QED
    BY <2>1, <2>2, <2>3 DEF IInv, DeletedKept, Careful
<1>4. ASSUME NEW a \in All, Retrieve(a) PROVE IInv' /\ Careful
  <2>1. held' \subseteq All
    BY <1>4 DEF Retrieve
  <2>2. UNCHANGED <<row, archive, cap, gist, indexed, running, hourly, faults>>
    BY <1>4 DEF Retrieve, memory, dream, sweeps
  <2> QED
    BY <1>1, <2>1, <2>2 DEF IInv, TypeOK, DeletedKept, Careful
<1>5. CASE CapFails
  <2>1. UNCHANGED <<row, archive, gist, indexed, running, hourly, held>>
    BY <1>5 DEF CapFails, memory, sweeps
  <2>2. cap' = Awake /\ faults' \in 0..MaxFaults
    BY <1>1, <1>5, Types, FaultKeeps DEF CapFails
  <2> QED
    BY <1>1, <2>1, <2>2 DEF IInv, TypeOK, Awake, DeletedKept, Careful
<1>6. CASE Restart
  <2>1. running' = FALSE /\ hourly' = TRUE /\ cap' = Awake /\ held' = {}
    BY <1>6 DEF Restart
  <2>2. UNCHANGED <<row, archive, gist, indexed>> /\ faults' \in 0..MaxFaults
    BY <1>1, <1>6, Types, FaultKeeps DEF Restart, memory
  <2> QED
    BY <1>1, <2>1, <2>2 DEF IInv, TypeOK, Awake, DeletedKept, Careful
<1>7. CASE UNCHANGED vars
  <2>1. UNCHANGED <<row, archive, cap, gist, indexed, running, hourly, held, faults>>
    BY <1>7 DEF vars, memory, dream, sweeps
  <2> QED
    BY <1>1, <2>1 DEF IInv, TypeOK, DeletedKept, Careful
<1> QED
  BY <1>2, <1>3, <1>4, <1>5, <1>6, <1>7,
     FeedbackKeeps, SweepKeeps, SweepFailsKeeps, SummariseKeeps, AbsorbKeeps DEF Next
-----------------------------------------------------------------------------
THEOREM Invariance == Spec => []IInv
<1>1. IInv /\ [Next]_vars => IInv'
  BY StepInvariant
<1> QED
  BY InitInvariant, <1>1, PTL DEF Spec

\* Whatever fails in the sweeps, an atom that is deleted for good has a row in
\* the archive (ForgettingManager._purge_expired).
THEOREM DeletedKeptHolds == Spec => []DeletedKept
<1>1. IInv => DeletedKept
  BY DEF IInv
<1> QED
  BY Invariance, <1>1, PTL

\* The soft cap archives an atom only while its summary is active and when the
\* vector is written, whatever sweeps and feedback come between the summary and
\* its embedding; and the text quotes the atom or as many as it can hold
\* (_merge_overflowing_user_memories, _build_soft_cap_summary_content).
THEOREM RetiredWhenAbsorbedHolds == Spec => RetiredWhenAbsorbed
<1>1. IInv /\ [Next]_vars => [Careful]_vars
  BY StepInvariant
<1>2. IInv /\ [Next]_vars =>
        [\A a \in All : /\ row[a].status = "active" /\ row'[a].status = "archived"
                        /\ cap.step = "indexing" /\ cap'.step = "idle"
                        => /\ row[Summary].status = "active" /\ indexed'
                           /\ \/ a \in gist
                              \/ Cardinality(gist) = Snippets]_vars
  BY <1>1 DEF Careful
<1> QED
  BY Invariance, <1>2, PTL DEF Spec, RetiredWhenAbsorbed
=============================================================================
