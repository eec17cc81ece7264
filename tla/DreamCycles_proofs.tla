------------------------ MODULE DreamCycles_proofs ------------------------
(***************************************************************************)
(* Proofs about the dream agent's cycles, for all messages, batches,       *)
(* periods and failures: a triaged message has its candidate, a consumed   *)
(* candidate does not come back, and nothing is promoted twice.            *)
(***************************************************************************)
EXTENDS DreamCycles, TLAPS

\* A message that has not been triaged has no candidate, and one that has
\* been has, or had, one; a cycle has candidates in its hands, or what is left
\* of them; no atom was written twice.
IInv ==
  /\ TypeOK
  /\ \A m \in Messages : raw[m].status = "triaged" <=> pool[m].state # "none"
  /\ \A i \in Items : pool[i].state = "gone" => pool[i] = Spent
  /\ \A i \in cycle.left \cup cycle.written : pool[i].state # "none"
  /\ \A i \in Items : atoms[i] \in {0, 1}
-----------------------------------------------------------------------------
LEMMA MinOfTwo ==
  ASSUME NEW a \in Nat, NEW b \in Nat
  PROVE  Min({a, b}) \in {a, b} /\ Min({a, b}) <= a /\ Min({a, b}) <= b
<1>1. \E x \in {a, b} : \A y \in {a, b} : x <= y
  <2>1. CASE a <= b
    BY <2>1
  <2>2. CASE ~(a <= b)
    BY <2>2
  <2> QED
    BY <2>1, <2>2
<1>2. Min({a, b}) \in {a, b} /\ \A y \in {a, b} : Min({a, b}) <= y
  BY <1>1 DEF Min
<1> QED
  BY <1>2

LEMMA DueIsNat == Due \in [Cycles -> Nat]
BY DreamAssumption DEF Due, Cycles

LEMMA ToTriagePending ==
  ASSUME NEW list \in ToTriage
  PROVE  list \subseteq Messages /\ \A m \in list : raw[m].status = "pending"
BY DEF ToTriage, kSubset
-----------------------------------------------------------------------------
LEMMA InitInvariant == Init => IInv
<1> SUFFICES ASSUME Init PROVE IInv
  OBVIOUS
<1>1. TypeOK
  <2>1. since \in [Cycles -> Nat] /\ \A t \in Cycles : since[t] <= Due[t]
    BY DueIsNat DEF Init
  <2>2. raw \in [Messages -> [status: {"none", "pending", "triaged", "skipped"}, age: 0..(Day + 1)]]
    BY DreamAssumption DEF Init
  <2>3. pool \in [Items -> [state: {"none", "pooled", "gone"}, age: 0..(Keep + 1)]]
    BY DreamAssumption DEF Init
  <2>4. cycle \in [type: Cycles \cup {"none"}, left: SUBSET Items, written: SUBSET Items,
                   phase: {"idle", "triage", "recycle", "dispose", "confirm", "clean"}]
    BY DEF Init, Rest
  <2>5. atoms \in [Items -> 0..2] /\ missed \subseteq Messages /\ faults \in 0..MaxFaults
    BY DreamAssumption DEF Init
  <2> QED
    BY <2>1, <2>2, <2>3, <2>4, <2>5 DEF TypeOK
<1> QED
  BY <1>1 DEF Init, IInv, Items, Rest

RawType  == [Messages -> [status: {"none", "pending", "triaged", "skipped"}, age: 0..(Day + 1)]]
CycleType == [type: Cycles \cup {"none"}, left: SUBSET Items, written: SUBSET Items,
              phase: {"idle", "triage", "recycle", "dispose", "confirm", "clean"}]
PoolType == [Items -> [state: {"none", "pooled", "gone"}, age: 0..(Keep + 1)]]

\* What the actions change of the pool, with the invariant's part about it.
LEMMA TickKeeps ==
  ASSUME IInv, Tick
  PROVE  /\ since' \in [Cycles -> Nat] /\ \A t \in Cycles : since'[t] <= Due[t]
         /\ raw' \in RawType /\ \A m \in Messages : raw'[m].status = raw[m].status
         /\ pool' \in PoolType
         /\ \A i \in Items : pool'[i].state = pool[i].state
         /\ \A i \in Items : i \notin Pooled => pool'[i] = pool[i]
<1>1. /\ since \in [Cycles -> Nat] /\ raw \in RawType /\ pool \in PoolType
  BY DEF IInv, TypeOK, RawType, PoolType
<1>2. \A t \in Cycles : Min({since[t] + 1, Due[t]}) \in Nat /\ Min({since[t] + 1, Due[t]}) <= Due[t]
  <2> TAKE t \in Cycles
  <2>1. since[t] + 1 \in Nat /\ Due[t] \in Nat
    BY <1>1, DueIsNat
  <2> DEFINE least == Min({since[t] + 1, Due[t]})
  <2>2. least \in {since[t] + 1, Due[t]} /\ least <= Due[t]
    BY <2>1, MinOfTwo, Zenon
  <2> HIDE DEF least
  <2>3. least \in Nat /\ least <= Due[t]
    BY <2>1, <2>2
  <2> QED
    BY <2>3 DEF least
<1>3. \A m \in Messages : Min({raw[m].age + 1, Day + 1}) \in 0..(Day + 1)
  <2> TAKE m \in Messages
  <2> DEFINE least == Min({raw[m].age + 1, Day + 1})
  <2>1. raw[m].age + 1 \in Nat /\ Day + 1 \in Nat
    BY <1>1, DreamAssumption DEF RawType
  <2>2. least \in {raw[m].age + 1, Day + 1} /\ least <= Day + 1
    BY <2>1, MinOfTwo, Zenon
  <2> HIDE DEF least
  <2>3. least \in 0..(Day + 1)
    BY <2>1, <2>2, DreamAssumption
  <2> QED
    BY <2>3 DEF least
<1>4. \A i \in Items : Min({pool[i].age + 1, Keep + 1}) \in 0..(Keep + 1)
  <2> TAKE i \in Items
  <2> DEFINE least == Min({pool[i].age + 1, Keep + 1})
  <2>1. pool[i].age + 1 \in Nat /\ Keep + 1 \in Nat
    BY <1>1, DreamAssumption DEF PoolType
  <2>2. least \in {pool[i].age + 1, Keep + 1} /\ least <= Keep + 1
    BY <2>1, MinOfTwo, Zenon
  <2> HIDE DEF least
  <2>3. least \in 0..(Keep + 1)
    BY <2>1, <2>2, DreamAssumption
  <2> QED
    BY <2>3 DEF least
<1>5. since' \in [Cycles -> Nat] /\ \A t \in Cycles : since'[t] <= Due[t]
  BY <1>2 DEF Tick
<1>6. raw' \in RawType /\ \A m \in Messages : raw'[m].status = raw[m].status
  BY <1>1, <1>3 DEF Tick, RawType
<1>7. /\ pool' \in PoolType
      /\ \A i \in Items : pool'[i].state = pool[i].state
      /\ \A i \in Items : i \notin Pooled => pool'[i] = pool[i]
  BY <1>1, <1>4 DEF Tick, PoolType
<1> QED
  BY <1>5, <1>6, <1>7

LEMMA TriageKeeps ==
  ASSUME IInv, Triage
  PROVE  /\ raw' \in RawType /\ pool' \in PoolType
         /\ \A m \in Messages : raw'[m].status = "triaged" <=> pool'[m].state # "none"
         /\ \A i \in Items : pool[i].state # "none" => pool'[i] = pool[i]
         /\ \A i \in Items : pool'[i].state = "gone" => pool[i].state = "gone"
         /\ missed' \subseteq Messages /\ faults' \in 0..MaxFaults
<1>1. PICK list \in ToTriage : \E blank \in SUBSET list : \E bad \in Failing(list) :
        Triaged(list, blank, bad) /\ missed' = missed \cup bad /\ Counted(bad)
  BY DEF Triage
<1>2. PICK blank \in SUBSET list, bad \in Failing(list) :
        Triaged(list, blank, bad) /\ missed' = missed \cup bad /\ Counted(bad)
  BY <1>1
<1>3. list \subseteq Messages /\ \A m \in list : raw[m].status = "pending"
  BY ToTriagePending
<1>4. bad \subseteq list /\ (bad = {} \/ faults < MaxFaults)
  BY <1>2 DEF Failing
<1>5. raw \in RawType /\ pool \in PoolType /\ missed \subseteq Messages /\ faults \in 0..MaxFaults
  BY DEF IInv, TypeOK, RawType, PoolType
<1>6. \A m \in list : pool[m].state = "none"
  BY <1>3, <1>5 DEF IInv, PoolType, Items
<1>7. list \cap Pooled = {}
  BY <1>6 DEF Pooled
<1>8. /\ raw' \in RawType
      /\ \A m \in Messages : raw'[m].status =
            IF m \in list \ bad THEN IF m \in blank THEN "skipped" ELSE "triaged" ELSE raw[m].status
  BY <1>2, <1>5, DreamAssumption DEF Triaged, Marked, RawType
<1>9. /\ pool' \in PoolType
      /\ \A i \in Items : pool'[i] = IF i \in list \ (bad \cup blank) THEN Entry ELSE pool[i]
  BY <1>2, <1>5, <1>7, DreamAssumption DEF Triaged, Recorded, PoolType, Entry
<1>10. \A m \in Messages : raw'[m].status = "triaged" <=> pool'[m].state # "none"
  <2> TAKE m \in Messages
  <2>1. m \in Items
    BY DEF Items
  <2>2. CASE m \in list
    BY <2>1, <2>2, <1>3, <1>6, <1>8, <1>9 DEF Entry
  <2>3. CASE m \notin list
    BY <2>1, <2>3, <1>8, <1>9 DEF IInv
  <2> QED
    BY <2>2, <2>3
<1>11. faults' \in 0..MaxFaults
  BY <1>2, <1>4, <1>5, DreamAssumption DEF Counted
<1> QED
  BY <1>2, <1>3, <1>4, <1>5, <1>6, <1>8, <1>9, <1>10, <1>11 DEF Entry

\* One of the candidates in the cycle's hands is consumed, or left for later.
LEMMA ConsumeKeeps ==
  ASSUME IInv, NEW i \in cycle.left \cup cycle.written, Consume(i) \/ Leave(i)
  PROVE  /\ UNCHANGED atoms => TypeOK'
         /\ \A m \in Messages : raw'[m].status = "triaged" <=> pool'[m].state # "none"
         /\ \A k \in Items : pool'[k].state = "gone" => pool'[k] = Spent
         /\ \A k \in Items : pool[k].state # "none" => pool'[k].state # "none"
         /\ \A k \in Items : pool[k].state = "gone" => pool'[k] = pool[k]
         /\ cycle'.left \subseteq cycle.left /\ cycle'.written = {}
<1>1. /\ TypeOK /\ i \in Items /\ pool[i].state # "none"
      /\ pool \in PoolType /\ cycle \in CycleType
  BY DEF IInv, TypeOK, PoolType, CycleType
<1>2. /\ cycle' \in CycleType
      /\ cycle'.left \subseteq cycle.left /\ cycle'.written = {}
  <2>1. cycle' = Without(i)
    BY DEF Consume, Leave, Skip
  <2> QED
    BY <1>1, <2>1 DEF Without, CycleType
<1>3. UNCHANGED <<since, raw, missed>> /\ faults' \in 0..MaxFaults
  BY <1>1, DreamAssumption DEF Consume, Leave, Skip, Fault, TypeOK
<1>4. pool' = [pool EXCEPT ![i] = Spent] \/ pool' = pool
  BY DEF Consume, Leave
<1>5. pool' \in PoolType /\ \A k \in Items : pool'[k] = pool[k] \/ (k = i /\ pool'[k] = Spent)
  BY <1>1, <1>4, DreamAssumption DEF PoolType, Spent
<1>6. UNCHANGED atoms => TypeOK'
  BY <1>1, <1>2, <1>3, <1>5 DEF TypeOK, PoolType, CycleType
<1>7. \A m \in Messages : raw'[m].status = "triaged" <=> pool'[m].state # "none"
  BY <1>1, <1>3, <1>5 DEF IInv, Spent, Items
<1>8. /\ \A k \in Items : pool'[k].state = "gone" => pool'[k] = Spent
      /\ \A k \in Items : pool[k].state # "none" => pool'[k].state # "none"
      /\ \A k \in Items : pool[k].state = "gone" => pool'[k] = pool[k]
  BY <1>1, <1>5 DEF IInv, Spent
<1> QED
  BY <1>2, <1>6, <1>7, <1>8, Zenon
-----------------------------------------------------------------------------
\* A step keeps the invariant, and a candidate that is gone stays as it is.
LEMMA StepInvariant ==
  ASSUME IInv, [Next]_vars
  PROVE  IInv' /\ \A i \in Items : pool[i].state = "gone" => pool'[i] = pool[i]
<1> DEFINE Stays == \A i \in Items : pool[i].state = "gone" => pool'[i] = pool[i]
<1>1. CASE Tick
  <2>1. Stays
    BY <1>1, TickKeeps DEF Pooled
  <2>2. TypeOK'
    BY <1>1, TickKeeps DEF Tick, IInv, TypeOK, RawType, PoolType
  <2>3. \A i \in Items : pool'[i].state = "gone" => pool'[i] = Spent
    BY <1>1, TickKeeps DEF IInv, Pooled
  <2> QED
    BY <1>1, <2>1, <2>2, <2>3, TickKeeps DEF Tick, IInv, Rest, Items
<1>2. ASSUME NEW m \in Messages, Arrive(m) PROVE IInv' /\ Stays
  BY <1>2 DEF Arrive, IInv, TypeOK, Items
<1>3. ASSUME NEW n \in Noises, RecordNoise(n) PROVE IInv' /\ Stays
  <2>1. n \in Items /\ n \notin Messages /\ Entry \in [state: {"none", "pooled", "gone"}, age: 0..(Keep + 1)]
    BY DreamAssumption DEF Items, Entry
  <2> QED
    BY <1>3, <2>1 DEF RecordNoise, IInv, TypeOK, Items, Entry
<1>4. ASSUME NEW n \in Noises, Promote(n) PROVE IInv' /\ Stays
  <2>1. /\ n \in Items /\ n \in cycle.left /\ cycle \in CycleType
        /\ atoms \in [Items -> 0..2] /\ \A i \in Items : atoms[i] \in {0, 1}
    BY <1>4 DEF Promote, IInv, TypeOK, CycleType, Items
  <2>2. atoms' \in [Items -> 0..2] /\ \A i \in Items : atoms'[i] \in {0, 1}
    <3>1. Written(n) \/ UNCHANGED atoms
      BY <1>4 DEF Promote
    <3> QED
      BY <3>1, <2>1 DEF Written
  <2>3. cycle' = [cycle EXCEPT !.phase = "confirm", !.written = {n}] \/ cycle' = Without(n)
    BY <1>4 DEF Promote, Skip
  <2>4. /\ cycle' \in CycleType
        /\ \A i \in cycle'.left \cup cycle'.written : i \in cycle.left \cup cycle.written
    <3>1. CASE cycle' = Without(n)
      BY <2>1, <3>1 DEF Without, CycleType
    <3>2. CASE cycle' = [cycle EXCEPT !.phase = "confirm", !.written = {n}]
      BY <2>1, <3>2 DEF CycleType
    <3> QED
      BY <2>3, <3>1, <3>2
  <2>5. UNCHANGED <<since, raw, pool, missed>> /\ faults' \in 0..MaxFaults
    BY <1>4, DreamAssumption DEF Promote, Skip, Fault, IInv, TypeOK
  <2> QED
    BY <2>2, <2>4, <2>5 DEF IInv, TypeOK, CycleType
<1>5. ASSUME NEW i \in Items, Resolve(i) PROVE IInv' /\ Stays
  BY <1>5, ConsumeKeeps DEF Resolve, IInv, TypeOK
<1>6. ASSUME NEW n \in Noises, Confirm(n) PROVE IInv' /\ Stays
  BY <1>6, ConsumeKeeps DEF Confirm, IInv, TypeOK
<1>7. ASSUME NEW t \in Cycles, Begin(t) PROVE IInv' /\ Stays
  <2>1. /\ cycle' \in CycleType /\ cycle'.left = {} /\ cycle'.written = {}
        /\ UNCHANGED <<since, raw, pool, atoms, missed>>
    BY <1>7 DEF Begin, CycleType
  <2>2. faults' \in 0..MaxFaults
    BY <1>7, DreamAssumption DEF Begin, Fault, IInv, TypeOK
  <2> QED
    BY <2>1, <2>2 DEF IInv, TypeOK, CycleType
<1>8. CASE Triage
  <2>1. TypeOK'
    BY <1>8, TriageKeeps DEF Triage, IInv, TypeOK, RawType, PoolType
  <2>2. \A i \in Items : pool'[i].state = "gone" => pool'[i] = Spent
    BY <1>8, TriageKeeps DEF IInv
  <2>3. /\ cycle'.left = cycle.left /\ cycle'.written = cycle.written
        /\ cycle.left \cup cycle.written \subseteq Items
    BY <1>8 DEF Triage, IInv, TypeOK
  <2>4. UNCHANGED atoms
    BY <1>8 DEF Triage
  <2> QED
    BY <1>8, <2>1, <2>2, <2>3, <2>4, TriageKeeps DEF IInv
<1>9. CASE Recycle
  <2>1. PICK list \in SUBSET Pooled :
          cycle' = [cycle EXCEPT !.phase = IF list = {} THEN "clean" ELSE "dispose", !.left = list]
    BY <1>9 DEF Recycle, kSubset
  <2>2. cycle \in CycleType /\ list \subseteq Items /\ \A i \in list : pool[i].state # "none"
    BY DEF IInv, TypeOK, CycleType, Pooled
  <2>3. cycle' \in CycleType /\ cycle'.left = list /\ cycle'.written = cycle.written
    BY <2>1, <2>2 DEF CycleType
  <2>4. UNCHANGED <<since, raw, pool, atoms, missed, faults>>
    BY <1>9 DEF Recycle
  <2> QED
    BY <2>2, <2>3, <2>4 DEF IInv, TypeOK, CycleType
<1>10. CASE Clean
  <2>1. cycle' = Rest /\ faults' \in 0..MaxFaults /\ UNCHANGED <<raw, atoms, missed>>
    BY <1>10, DreamAssumption DEF Clean, Fault, IInv, TypeOK
  <2>2. since' \in [Cycles -> Nat] /\ \A t \in Cycles : since'[t] <= Due[t]
    BY <1>10, DueIsNat DEF Clean, IInv, TypeOK
  <2>3. \A i \in Items : pool'[i] = pool[i] \/ (pool[i].state = "pooled" /\ pool'[i] = Spent)
    BY <1>10 DEF Clean, Cleaned, Expired, Pooled, IInv, TypeOK
  <2>4. pool' \in PoolType
    BY <1>10, <2>3, DreamAssumption DEF Clean, Cleaned, PoolType, Spent, IInv, TypeOK
  <2> QED
    BY <2>1, <2>2, <2>3, <2>4 DEF IInv, TypeOK, PoolType, Spent, Rest, Items
<1>11. CASE Abort
  <2>1. cycle' = Rest /\ UNCHANGED <<since, raw, pool, atoms, missed>>
    BY <1>11 DEF Abort
  <2>2. faults' \in 0..MaxFaults
    BY <1>11, DreamAssumption DEF Abort, Fault, IInv, TypeOK
  <2> QED
    BY <2>1, <2>2 DEF IInv, TypeOK, Rest
<1>12. CASE UNCHANGED vars
  BY <1>12 DEF vars, IInv, TypeOK
<1> QED
  BY <1>1, <1>2, <1>3, <1>4, <1>5, <1>6, <1>7, <1>8, <1>9, <1>10, <1>11, <1>12 DEF Next
-----------------------------------------------------------------------------
THEOREM Invariance == Spec => []IInv
<1>1. IInv /\ [Next]_vars => IInv'
  BY StepInvariant
<1> QED
  BY InitInvariant, <1>1, PTL DEF Spec

\* Whatever fails in a triage, a message counts as triaged only with a
\* candidate made of it (_record_raw_candidate_and_mark_triaged).
THEOREM TriagedKeptHolds == Spec => []TriagedKept
<1>1. IInv => TriagedKept
  BY DEF IInv, TriagedKept
<1> QED
  BY Invariance, <1>1, PTL

\* A candidate whose removal failed, or did not come about, after its atom was
\* written becomes no second atom (InspirationEngine._promote).
THEOREM PromotedOnceHolds == Spec => []PromotedOnce
<1>1. IInv => PromotedOnce
  BY DEF IInv, PromotedOnce
<1> QED
  BY Invariance, <1>1, PTL

\* A consumed candidate is not made again, though triages are repeated before
\* their time and fail in part.
THEOREM ConsumedForGoodHolds == Spec => ConsumedForGood
<1>1. IInv /\ [Next]_vars => [\A i \in Items : pool[i].state = "gone" => pool'[i] = pool[i]]_vars
  BY StepInvariant
<1> QED
  BY Invariance, <1>1, PTL DEF Spec, ConsumedForGood
=============================================================================
