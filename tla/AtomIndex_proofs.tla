-------------------------- MODULE AtomIndex_proofs --------------------------
(***************************************************************************)
(* Proofs about the index and its reconciliation, for all atoms, contents, *)
(* limits and numbers of writes and faults: the two queues are disjoint,   *)
(* and what a repair may do to a point of the index and to the queues.     *)
(***************************************************************************)
EXTENDS AtomIndex, TLAPS

RowType == [content: Contents, attr: Attrs, status: {"active", "archived"}]
Points  == Rows \cup {Absent}
Vectors == [Atoms -> Points]
Items   == (Sides \cup Repairs) \X Atoms

RecType == [pc: {"replay", "embed", "idle", "work", "await"},
            work: {"none", "pairs", "sync", "cleanup", "orphan"},
            todo: SUBSET Items, confirmed: SUBSET Atoms,
            cur: Items \cup {<<"none", 0>>}, snap: Points, attempt: 0..MaxAttempts]

\* The kinds of repair that a kind of work consists of.
Kinds(work) == IF work \in {"none", "pairs"} THEN Sides ELSE {work}

StoresOK ==
  /\ row \in [Atoms -> Rows \cup {Absent, Deleted}] /\ vec \in Vectors
  /\ jobs \subseteq [atom : Atoms, point : Rows, loser : Atoms \cup {0}]

LogOK == failed \subseteq Sides \X Atoms /\ done \subseteq Atoms /\ retries \in [Sides \X Atoms -> Nat]

CountsOK == writes \in 0..MaxWrites /\ faults \in 0..MaxFaults

MemoryOK ==
  /\ resync \subseteq Atoms /\ cleanup \subseteq Atoms /\ suspects \subseteq Atoms
  /\ backoff \in [Repairs \X Atoms -> 0..MaxBackoff]
  /\ QueuesDisjoint

RecOK ==
  /\ rec \in RecType
  /\ rec.pc \in {"work", "await"} => rec.work # "none"
  /\ \A k \in rec.todo : k[1] \in Kinds(rec.work)
  /\ rec.pc = "await" => rec.cur \in rec.todo /\ rec.snap \in Rows /\ rec.attempt \in 1..MaxAttempts
  /\ rec.pc = "embed" => rec.cur \in Sides \X Atoms /\ rec.snap \in Rows

\* What the task still has to remove from the index is in the queue for that,
\* until the removal has turned into a synchronisation that awaits.
StillQueued ==
  \A k \in rec.todo : k[1] = "cleanup" /\ ~(rec.pc = "await" /\ k = rec.cur) => k[2] \in cleanup

IInv == StoresOK /\ LogOK /\ CountsOK /\ MemoryOK /\ RecOK /\ StillQueued

StateType == [vec: Vectors, resync: SUBSET Atoms, cleanup: SUBSET Atoms, cost: Nat,
              res: {"ok", "failed", "await"}]

\* s is reached within a repair of a, which is all it has touched: the point
\* of a is the old one, none, or the present row.
Within(s, a) ==
  /\ s \in StateType
  /\ \A b \in Atoms \ {a} : /\ s.vec[b] = vec[b]
                            /\ b \in s.resync <=> b \in resync
                            /\ b \in s.cleanup <=> b \in cleanup
  /\ s.vec[a] \in {vec[a], Absent} \/ (Active(a) /\ s.vec[a] = row[a])

\* A repair of a may end in s.
Good(s, a) ==
  /\ Within(s, a)
  /\ ~ (a \in s.resync /\ a \in s.cleanup)
  /\ s.cost = 0 /\ Active(a) /\ vec[a] # Absent /\ s.vec[a] = Absent => a \in s.resync \cup s.cleanup
  /\ s.cost = 0 /\ a \in resync /\ a \notin s.resync =>
       a \in s.cleanup \/ s.vec[a] = IF Active(a) THEN row[a] ELSE Absent

Ends(s, a) == Good(s, a) /\ s.res # "await"
-----------------------------------------------------------------------------
(* Data                                                                    *)

LEMMA RowsType == Rows = RowType
<1>1. ASSUME NEW r \in Rows  PROVE r \in RowType
  <2>1. PICK c \in Contents, x \in Attrs, s \in {"active", "archived"} : r = Record(c, x, s)
    BY DEF Rows
  <2> QED
    BY <2>1 DEF RowType, Record
<1>2. ASSUME NEW r \in RowType  PROVE r \in Rows
  <2>1. r = Record(r.content, r.attr, r.status)
    BY DEF RowType, Record
  <2>2. r.content \in Contents /\ r.attr \in Attrs /\ r.status \in {"active", "archived"}
    BY DEF RowType
  <2> QED
    BY <2>1, <2>2 DEF Rows
<1> QED
  BY <1>1, <1>2

LEMMA Constants ==
  /\ Original \in Rows /\ Absent \notin Rows /\ Deleted \notin Rows
  /\ Atoms \subseteq Nat \ {0} /\ {MaxWrites, MaxFaults} \subseteq Nat
  /\ MaxAttempts \in Nat \ {0} /\ MaxBackoff \in Nat \ {0, 1}
BY RowsType, IndexAssumption DEF Original, Absent, Deleted, Record, RowType

LEMMA ExistsInRows ==
  ASSUME StoresOK, NEW a \in Atoms
  PROVE  /\ Exists(a) => row[a] \in Rows
         /\ Active(a) => Exists(a)
BY DEF StoresOK, Exists, Active, Absent, Deleted, Record

LEMMA SpendKeeps ==
  ASSUME CountsOK, NEW n \in Nat, Spend(n)
  PROVE  faults' \in 0..MaxFaults /\ (faults' = faults => n = 0)
BY Constants DEF CountsOK, Spend

\* A call that writes a point either succeeds, or fails and costs a fault.
LEMMA WritePointType ==
  ASSUME NEW v \in Vectors, NEW a \in Atoms, NEW p \in Points, NEW w \in WritePoint(v, a, p)
  PROVE  /\ w.vec \in Vectors /\ w.vec \in {v, [v EXCEPT ![a] = p]}
         /\ \/ w.res = "ok" /\ w.cost = 0 /\ w.vec = [v EXCEPT ![a] = p]
            \/ w.res = "failed" /\ w.cost = 1
<1>1. [v EXCEPT ![a] = p] \in Vectors
  BY DEF Vectors
<1>2. CASE w = [vec |-> [v EXCEPT ![a] = p], res |-> "ok", cost |-> 0]
  BY <1>1, <1>2
<1>3. ASSUME NEW u \in {v, [v EXCEPT ![a] = p]}, w = [vec |-> u, res |-> "failed", cost |-> 1]
      PROVE  w.vec \in Vectors /\ w.vec = u /\ w.res = "failed" /\ w.cost = 1
  BY <1>1, <1>3
<1> QED
  BY <1>2, <1>3 DEF WritePoint

LEMMA UpsertedType ==
  ASSUME StoresOK, NEW j, j.atom \in Atoms, j.point \in Rows, NEW w \in Upserted(j)
  PROVE  w.vec \in Vectors /\ w.cost \in {0, 1}
<1>1. j.atom \in Atoms /\ j.point \in Points /\ vec \in Vectors
  BY DEF StoresOK, Points
<1>2. CASE w \in WritePoint(vec, j.atom, j.point)
  <2>1. /\ w.vec \in Vectors /\ w.vec \in {vec, [vec EXCEPT ![j.atom] = j.point]}
        /\ \/ w.res = "ok" /\ w.cost = 0 /\ w.vec = [vec EXCEPT ![j.atom] = j.point]
           \/ w.res = "failed" /\ w.cost = 1
    BY <1>1, <1>2, WritePointType
  <2> QED
    BY <2>1
<1>3. CASE w \notin WritePoint(vec, j.atom, j.point)
  BY <1>1, <1>3 DEF Upserted
<1> QED
  BY <1>2, <1>3
-----------------------------------------------------------------------------
(* What a repair leaves                                                    *)

LEMMA NowGood ==
  ASSUME IInv, NEW a \in Atoms
  PROVE  Ends(Now, a) /\ Now.vec = vec /\ Now.resync = resync /\ Now.cleanup = cleanup /\ Now.cost = 0
BY DEF IInv, StoresOK, MemoryOK, QueuesDisjoint, Ends, Good, Within, Now, StateType

LEMMA FailedGood ==
  ASSUME NEW a \in Atoms, NEW s, Good(s, a)
  PROVE  /\ Ends(Failed(s), a)
         /\ Good(Fault(s), a) /\ Fault(s).cost > 0 /\ Fault(s).vec = s.vec /\ Fault(s).res = s.res
         /\ Fault(s).resync = s.resync /\ Fault(s).cleanup = s.cleanup
BY DEF Ends, Good, Within, Failed, Fault, StateType

LEMMA FaultWithin ==
  ASSUME NEW a \in Atoms, NEW s, Within(s, a)
  PROVE  /\ Within(Fault(s), a) /\ Fault(s).cost > 0 /\ Fault(s).vec = s.vec /\ Fault(s).res = s.res
         /\ Fault(s).resync = s.resync /\ Fault(s).cleanup = s.cleanup
BY DEF Within, Fault, StateType

LEMMA DeleteStaleQueues ==
  ASSUME NEW a \in Atoms, NEW s, Within(s, a), a \notin s.resync,
         ~ Active(a) \/ s.cost > 0, NEW t \in DeleteStale(s, a, TRUE)
  PROVE  Ends(t, a)
<1>1. PICK w \in WritePoint(s.vec, a, Absent) :
        t = [s EXCEPT !.vec = w.vec, !.cost = @ + w.cost, !.res = w.res,
                      !.cleanup = IF w.res = "ok" THEN @ \ {a} ELSE @ \cup {a}]
  BY DEF DeleteStale
<1>2. s.vec \in Vectors /\ Absent \in Points
  BY DEF Within, StateType, Points
<1>3. /\ w.vec \in Vectors /\ w.vec \in {s.vec, [s.vec EXCEPT ![a] = Absent]}
      /\ \/ w.res = "ok" /\ w.cost = 0 /\ w.vec = [s.vec EXCEPT ![a] = Absent]
         \/ w.res = "failed" /\ w.cost = 1
  BY <1>1, <1>2, WritePointType
<1>4. /\ t.vec = w.vec /\ t.cost = s.cost + w.cost /\ t.res = w.res /\ t.resync = s.resync
      /\ t.cleanup = IF w.res = "ok" THEN s.cleanup \ {a} ELSE s.cleanup \cup {a}
      /\ t \in StateType
  <2>1. s \in StateType /\ s.cost + w.cost \in Nat /\ w.res \in {"ok", "failed"}
    BY <1>3 DEF Within, StateType
  <2>2. s.cleanup \ {a} \in SUBSET Atoms /\ s.cleanup \cup {a} \in SUBSET Atoms
    BY <2>1 DEF StateType
  <2> QED
    BY <1>1, <1>3, <2>1, <2>2 DEF StateType
<1>5. Within(t, a)
  BY <1>2, <1>3, <1>4 DEF Within, Vectors
<1>6. CASE w.res = "ok"
  BY <1>2, <1>3, <1>4, <1>5, <1>6 DEF Ends, Good, Within, StateType, Vectors
<1>7. CASE w.res = "failed"
  BY <1>2, <1>3, <1>4, <1>5, <1>7 DEF Ends, Good, Within, StateType, Vectors
<1> QED
  BY <1>3, <1>6, <1>7

\* A repair that gives up deletes the point, and keeps the atom in its queue.
LEMMA AbortGood ==
  ASSUME NEW a \in Atoms, NEW s, Good(s, a), NEW t \in AbortForcedResync(s, a)
  PROVE  Ends(t, a)
<1>1. CASE a \notin s.resync
  BY <1>1, FailedGood DEF AbortForcedResync
<1>2. CASE a \in s.resync
  <2>1. PICK d \in DeleteStale(s, a, FALSE) : t = Failed(d)
    BY <1>2 DEF AbortForcedResync
  <2>2. PICK w \in WritePoint(s.vec, a, Absent) :
          d = [s EXCEPT !.vec = w.vec, !.cost = @ + w.cost, !.res = w.res,
                        !.cleanup = IF w.res = "ok" THEN @ \ {a} ELSE @]
    BY <2>1 DEF DeleteStale
  <2>3. s.vec \in Vectors /\ Absent \in Points
    BY DEF Good, Within, StateType, Points
  <2>4. /\ w.vec \in Vectors /\ w.vec \in {s.vec, [s.vec EXCEPT ![a] = Absent]}
        /\ \/ w.res = "ok" /\ w.cost = 0 /\ w.vec = [s.vec EXCEPT ![a] = Absent]
           \/ w.res = "failed" /\ w.cost = 1
    BY <2>2, <2>3, WritePointType
  <2>5. /\ d.vec = w.vec /\ d.cost = s.cost + w.cost /\ d.resync = s.resync
        /\ d.cleanup \in {s.cleanup, s.cleanup \ {a}}
        /\ d \in StateType
    <3>1. /\ s \in StateType /\ s.cost + w.cost \in Nat /\ s.cleanup \ {a} \in SUBSET Atoms
          /\ w.res \in {"ok", "failed"} /\ w.cost \in Nat
      BY <2>4 DEF Good, Within, StateType
    <3> QED
      BY <2>2, <2>4, <3>1 DEF StateType
  <2>6. Within(d, a)
    BY <2>3, <2>4, <2>5 DEF Good, Within, Vectors
  <2>7. Good(d, a)
    BY <1>2, <2>5, <2>6 DEF Good
  <2> QED
    BY <2>1, <2>7, FailedGood
<1> QED
  BY <1>1, <1>2

LEMMA SyncInactiveGood ==
  ASSUME NEW a \in Atoms, NEW s, Within(s, a), ~ Active(a) \/ s.cost > 0,
         a \notin s.resync => Good(s, a), NEW t \in SyncInactive(s, a)
  PROVE  Ends(t, a)
<1>1. CASE a \notin s.resync
  BY <1>1, FailedGood DEF SyncInactive
<1>2. CASE a \in s.resync
  <2> DEFINE u == [s EXCEPT !.resync = @ \ {a}, !.cleanup = @ \cup {a}]
  <2>1. /\ u \in StateType /\ u.vec = s.vec /\ u.cost = s.cost /\ u.resync = s.resync \ {a}
        /\ u.cleanup = s.cleanup \cup {a}
    BY DEF Within, StateType
  <2>2. t \in DeleteStale(u, a, TRUE)
    BY <1>2 DEF SyncInactive
  <2> HIDE DEF u
  <2>3. Within(u, a) /\ a \notin u.resync
    BY <2>1 DEF Within
  <2> QED
    BY <2>1, <2>2, <2>3, DeleteStaleQueues
<1> QED
  BY <1>1, <1>2

LEMMA SyncStartGood ==
  ASSUME NEW a \in Atoms, NEW s, Ends(s, a), s.vec = vec, resync \subseteq s.resync,
         NEW t \in SyncStart(s, a)
  PROVE  Good(t, a) /\ (t.res = "await" => Active(a))
<1>1. CASE ~ Active(a)
  BY <1>1, SyncInactiveGood DEF SyncStart, Ends, Good
<1>2. CASE Active(a) /\ t \in SyncInactive(Fault(s), a)
  <2>1. Good(Fault(s), a) /\ Fault(s).cost > 0
    BY FailedGood DEF Ends
  <2> QED
    BY <1>2, <2>1, SyncInactiveGood DEF Ends, Good
<1>3. CASE Active(a) /\ t = [s EXCEPT !.cleanup = @ \ {a}, !.res = "await"]
  <2>1. /\ t \in StateType /\ t.vec = vec /\ t.cost = s.cost /\ t.resync = s.resync
        /\ t.cleanup = s.cleanup \ {a}
    BY <1>3 DEF Ends, Good, Within, StateType
  <2> QED
    BY <1>3, <2>1 DEF Ends, Good, Within
<1> QED
  BY <1>1, <1>2, <1>3 DEF SyncStart

LEMMA SyncUpsertGood ==
  ASSUME StoresOK, NEW a \in Atoms, NEW s, Ends(s, a), Active(a), NEW t \in SyncUpsert(s, a, row[a])
  PROVE  Ends(t, a)
<1>1. row[a] \in Points /\ s.vec \in Vectors /\ row[a] # Absent
  BY ExistsInRows, Constants DEF Ends, Good, Within, StateType, Points
<1>2. PICK w \in WritePoint(s.vec, a, row[a]) :
        t \in IF w.res = "failed"
              THEN AbortForcedResync([s EXCEPT !.vec = w.vec, !.cost = @ + w.cost], a)
              ELSE {[s EXCEPT !.vec = w.vec, !.resync = @ \ {a}, !.cleanup = @ \ {a}]}
                   \cup SyncInactive(Fault([s EXCEPT !.vec = w.vec, !.resync = @ \cup {a}]), a)
  BY DEF SyncUpsert
<1>3. /\ w.vec \in Vectors /\ w.vec \in {s.vec, [s.vec EXCEPT ![a] = row[a]]}
      /\ \/ w.res = "ok" /\ w.cost = 0 /\ w.vec = [s.vec EXCEPT ![a] = row[a]]
         \/ w.res = "failed" /\ w.cost = 1
  BY <1>1, <1>2, WritePointType
<1>4. CASE w.res = "failed"
  <2> DEFINE u == [s EXCEPT !.vec = w.vec, !.cost = @ + w.cost]
  <2>1. /\ u \in StateType /\ u.vec = w.vec /\ u.cost = s.cost + 1 /\ u.resync = s.resync
        /\ u.cleanup = s.cleanup /\ u.cost > 0
    <3>1. s \in StateType /\ s.cost \in Nat /\ w.cost = 1 /\ w.vec \in Vectors
      BY <1>3, <1>4 DEF Ends, Good, Within, StateType
    <3> DEFINE v == [s EXCEPT !.vec = w.vec]
    <3>2. /\ v \in StateType /\ v.vec = w.vec /\ v.cost = s.cost /\ v.resync = s.resync
          /\ v.cleanup = s.cleanup
      BY <3>1 DEF StateType
    <3>3. u = [v EXCEPT !.cost = s.cost + 1]
      BY <3>1
    <3> HIDE DEF u, v
    <3> QED
      BY <3>1, <3>2, <3>3 DEF StateType
  <2>2. t \in AbortForcedResync(u, a)
    BY <1>2, <1>4
  <2> HIDE DEF u
  <2>3. Good(u, a)
    BY <1>1, <1>3, <2>1 DEF Ends, Good, Within, Vectors
  <2> QED
    BY <2>2, <2>3, AbortGood
<1>5. CASE w.res = "ok" /\ t = [s EXCEPT !.vec = w.vec, !.resync = @ \ {a}, !.cleanup = @ \ {a}]
  <2>1. /\ t \in StateType /\ t.vec = w.vec /\ t.cost = s.cost /\ t.res = s.res
        /\ t.resync = s.resync \ {a} /\ t.cleanup = s.cleanup \ {a}
    BY <1>3, <1>5 DEF Ends, Good, Within, StateType
  <2>2. t.vec[a] = row[a]
    BY <1>1, <1>3, <1>5, <2>1 DEF Vectors
  <2>3. Within(t, a)
    BY <1>1, <1>3, <2>1, <2>2 DEF Ends, Good, Within, Vectors
  <2> QED
    BY <1>1, <2>1, <2>2, <2>3 DEF Ends, Good
<1>6. CASE /\ w.res = "ok"
           /\ t \in SyncInactive(Fault([s EXCEPT !.vec = w.vec, !.resync = @ \cup {a}]), a)
  <2> DEFINE u == [s EXCEPT !.vec = w.vec, !.resync = @ \cup {a}]
  <2>1. u \in StateType /\ u.vec = w.vec /\ u.resync = s.resync \cup {a} /\ u.cleanup = s.cleanup
    BY <1>3 DEF Ends, Good, Within, StateType
  <2>2. t \in SyncInactive(Fault(u), a)
    BY <1>6
  <2> HIDE DEF u
  <2>3. Within(u, a)
    BY <1>1, <1>3, <2>1 DEF Ends, Good, Within, Vectors
  <2>4. Within(Fault(u), a) /\ Fault(u).cost > 0 /\ a \in Fault(u).resync
    BY <2>1, <2>3, FaultWithin
  <2> QED
    BY <2>2, <2>4, SyncInactiveGood
<1> QED
  BY <1>2, <1>3, <1>4, <1>5, <1>6

\* A state in which a repair of a ends, or awaits an embedding.
Reached(s, a) == Good(s, a) /\ (s.res = "await" => Active(a))

LEMMA UnembeddedGood ==
  ASSUME IInv, NEW a \in Atoms, NEW old, NEW t \in SyncUnembedded(Now, a, old)
  PROVE  Ends(t, a)
<1>1. Good(Now, a)
  BY NowGood DEF Ends
<1>2. Good(Fault(Now), a)
  BY <1>1, FailedGood
<1> QED
  BY <1>1, <1>2, AbortGood DEF SyncUnembedded

LEMMA EmbeddedGood ==
  ASSUME IInv, NEW a \in Atoms, NEW old, NEW n \in Nat, NEW t \in SyncEmbedded(Now, a, old, n)
  PROVE  Reached(t, a) /\ (t.res = "await" => n < MaxAttempts)
<1>1. Ends(Now, a) /\ Good(Now, a) /\ Within(Now, a)
  BY NowGood DEF Ends, Good
<1>2. Good(Fault(Now), a) /\ Fault(Now).cost > 0 /\ Within(Fault(Now), a)
  BY <1>1, FailedGood DEF Good
<1>3. CASE ~ Active(a)
  BY <1>1, <1>3, SyncInactiveGood DEF SyncEmbedded, Reached, Ends
<1>4. CASE t \in SyncInactive(Fault(Now), a)
  BY <1>2, <1>4, SyncInactiveGood DEF Reached, Ends
<1>5. CASE Active(a) /\ t \in SyncUpsert(Now, a, row[a])
  <2>1. StoresOK
    BY DEF IInv
  <2> QED
    BY <1>1, <1>5, <2>1, SyncUpsertGood DEF Reached, Ends
<1>6. CASE t \in AbortForcedResync(Now, a)
  BY <1>1, <1>6, AbortGood DEF Reached, Ends
<1>7. CASE Active(a) /\ n < MaxAttempts /\ t = [Now EXCEPT !.res = "await"]
  <2>1. /\ t \in StateType /\ t.vec = vec /\ t.resync = resync /\ t.cleanup = cleanup /\ t.cost = 0
        /\ t.res = "await"
    BY <1>1, <1>7 DEF Within, StateType, Now
  <2>2. Good(t, a)
    BY <1>1, <2>1, NowGood DEF Good, Within
  <2> QED
    BY <1>7, <2>1, <2>2 DEF Reached
<1> QED
  BY <1>3, <1>4, <1>5, <1>6, <1>7 DEF SyncEmbedded

LEMMA CleanupGood ==
  ASSUME IInv, NEW a \in cleanup, NEW t \in ResolveForcedCleanup(Now, a)
  PROVE  Reached(t, a)
<1>0. a \in Atoms /\ a \notin resync
  BY DEF IInv, MemoryOK, QueuesDisjoint
<1>1. /\ Ends(Now, a) /\ Good(Now, a) /\ Within(Now, a)
      /\ Now.vec = vec /\ Now.resync = resync /\ Now.cleanup = cleanup /\ Now.cost = 0
  BY <1>0, NowGood DEF Ends, Good
<1>2. CASE t = Failed(Fault(Now))
  <2>1. Good(Fault(Now), a)
    BY <1>0, <1>1, FailedGood
  <2> QED
    BY <1>0, <1>2, <2>1, FailedGood DEF Reached, Ends
<1>3. CASE Active(a) /\ t \in SyncStart([Now EXCEPT !.cleanup = @ \ {a}, !.resync = @ \cup {a}], a)
  <2> DEFINE u == [Now EXCEPT !.cleanup = @ \ {a}, !.resync = @ \cup {a}]
  <2>1. /\ u \in StateType /\ u.vec = vec /\ u.cost = 0 /\ u.res = Now.res
        /\ u.resync = resync \cup {a} /\ u.cleanup = cleanup \ {a}
    BY <1>0, <1>1 DEF Within, StateType
  <2> HIDE DEF u
  <2>2. Ends(u, a)
    BY <1>0, <1>1, <2>1 DEF Ends, Good, Within
  <2>3. Good(t, a) /\ (t.res = "await" => Active(a))
    BY <1>0, <1>3, <2>1, <2>2, SyncStartGood DEF u
  <2> QED
    BY <2>3 DEF Reached
<1>4. CASE ~ Active(a) /\ t \in DeleteStale(Now, a, TRUE)
  BY <1>0, <1>1, <1>4, DeleteStaleQueues DEF Reached, Ends
<1> QED
  BY <1>2, <1>3, <1>4 DEF ResolveForcedCleanup

LEMMA OrphanGood ==
  ASSUME IInv, NEW a \in Atoms, NEW t \in RemoveOrphanVector(Now, a)
  PROVE  Reached(t, a)
<1>1. /\ Ends(Now, a) /\ Good(Now, a) /\ Within(Now, a)
      /\ Now.vec = vec /\ Now.resync = resync /\ Now.cleanup = cleanup /\ Now.cost = 0
  BY NowGood DEF Ends, Good
<1>2. CASE t = Failed(Fault(Now))
  <2>1. Good(Fault(Now), a)
    BY <1>1, FailedGood
  <2> QED
    BY <1>2, <2>1, FailedGood DEF Reached, Ends
<1>3. CASE t = Now
  BY <1>1, <1>3 DEF Reached, Ends
<1>4. ASSUME ~ Exists(a), NEW w \in WritePoint(Now.vec, a, Absent),
             t = [Now EXCEPT !.vec = w.vec, !.cost = @ + w.cost, !.res = w.res]
      PROVE  Reached(t, a)
  <2>1. vec \in Vectors /\ Absent \in Points
    BY DEF IInv, StoresOK, Points
  <2>2. /\ w.vec \in Vectors /\ w.vec \in {vec, [vec EXCEPT ![a] = Absent]}
        /\ \/ w.res = "ok" /\ w.cost = 0 /\ w.vec = [vec EXCEPT ![a] = Absent]
           \/ w.res = "failed" /\ w.cost = 1
    BY <1>1, <1>4, <2>1, WritePointType
  <2>3. w.res \in {"ok", "failed"} /\ w.cost \in Nat
    BY <2>2
  <2>4. t = [vec |-> w.vec, resync |-> resync, cleanup |-> cleanup, cost |-> 0 + w.cost, res |-> w.res]
    BY <1>4 DEF Now
  <2>5. /\ t \in StateType /\ t.vec = w.vec /\ t.resync = resync /\ t.cleanup = cleanup
        /\ t.res # "await"
    BY <2>2, <2>3, <2>4 DEF IInv, MemoryOK, StateType
  <2>6. ~ Active(a)
    BY <1>4 DEF Active, Exists
  <2>7. Within(t, a)
    BY <2>1, <2>2, <2>5 DEF Within, Vectors
  <2> QED
    BY <1>1, <2>5, <2>6, <2>7 DEF Reached, Good
<1> QED
  BY <1>2, <1>3, <1>4 DEF RemoveOrphanVector

\* A repair of an atom, if one that is to be removed is queued for that.
LEMMA RepairGood ==
  ASSUME IInv, NEW k \in Items, k[1] = "cleanup" => k[2] \in cleanup, NEW t \in Repair(k[1], k[2])
  PROVE  Reached(t, k[2])
<1>0. k[1] \in Sides \cup Repairs /\ k[2] \in Atoms
  BY DEF Items
<1>1. CASE k[1] \in {"qdrant", "sync"}
  <2>1. t \in SyncStart(Now, k[2])
    BY <1>1 DEF Repair
  <2> QED
    BY <1>0, <2>1, NowGood, SyncStartGood DEF Reached
<1>2. CASE k[1] = "cleanup"
  BY <1>0, <1>2, CleanupGood DEF Repair
<1>3. CASE k[1] \in {"sqlite", "orphan"}
  BY <1>0, <1>3, OrphanGood DEF Repair
<1> QED
  BY <1>0, <1>1, <1>2, <1>3 DEF Sides, Repairs
-----------------------------------------------------------------------------
(* The steps                                                               *)

PresentRow == \A a \in Atoms : vec'[a] \in {vec[a], Absent} \/ (Active(a) /\ vec'[a] = row[a])

DeletionsQueued ==
  \A a \in Atoms : Active(a) /\ vec[a] # Absent /\ vec'[a] = Absent => a \in resync' \cup cleanup'

ResyncsDone == \A a \in resync \ resync' : a \in cleanup' \/ Agree(a)'

\* What a step of the reconciliation task keeps, of the properties about steps.
Careful == PresentRow /\ (faults' = faults => DeletionsQueued /\ ResyncsDone)

LEMMA InvImplies == IInv => TypeOK /\ QueuesDisjoint
<1> SUFFICES ASSUME IInv  PROVE TypeOK /\ QueuesDisjoint
  OBVIOUS
<1>1. rec \in RecType
  BY DEF IInv, RecOK
<1>2. /\ rec.pc \in {"replay", "embed", "idle", "work", "await"}
      /\ rec.work \in {"none", "pairs", "sync", "cleanup", "orphan"}
      /\ rec.todo \subseteq (Sides \cup Repairs) \X Atoms /\ rec.confirmed \subseteq Atoms
  BY <1>1 DEF RecType, Items
<1> QED
  BY <1>2 DEF IInv, StoresOK, LogOK, CountsOK, MemoryOK, RecOK, TypeOK, Vectors, Points

LEMMA IdleOK == Idle \in RecType /\ Idle.todo = {} /\ Idle.pc = "idle" /\ Idle.work = "none"
<1>1. Absent \in Points /\ 0 \in 0..MaxAttempts
  BY Constants DEF Points
<1> QED
  BY <1>1 DEF Idle, RecType

LEMMA InitInv == Init => IInv
<1> SUFFICES ASSUME Init  PROVE IInv
  OBVIOUS
<1>1. StoresOK
  BY DEF Init, StoresOK, Vectors, Points
<1>2. LogOK
  BY DEF Init, LogOK
<1>3. CountsOK
  BY Constants DEF Init, CountsOK
<1>4. MemoryOK
  BY Constants DEF Init, MemoryOK, QueuesDisjoint
<1>5. RecOK /\ StillQueued
  BY IdleOK DEF Init, RecOK, StillQueued
<1> QED
  BY <1>1, <1>2, <1>3, <1>4, <1>5 DEF IInv

\* What the task remembers is not touched by the tasks that write.
LEMMA RecUnchanged ==
  ASSUME IInv, UNCHANGED <<rec, memory>>
  PROVE  MemoryOK' /\ RecOK' /\ StillQueued'
BY DEF IInv, memory, MemoryOK, QueuesDisjoint, RecOK, StillQueued

LEMMA WriterInv ==
  ASSUME IInv, WriterStep
  PROVE  IInv'
<1> USE DEF IInv
<1>0. MemoryOK' /\ RecOK' /\ StillQueued' /\ writes' \in 0..MaxWrites
  <2>1. Writer
    BY DEF WriterStep, Insert, Archive, Delete, Reweigh, Merge, Piped
  <2>2. UNCHANGED <<rec, memory>>
    BY <2>1 DEF Writer
  <2>3. MemoryOK' /\ RecOK' /\ StillQueued'
    BY <2>2, RecUnchanged
  <2> QED
    BY <2>1, <2>3, Constants DEF Writer, CountsOK
<1>1. ASSUME NEW a \in Atoms, Insert(a)
      PROVE  IInv'
  <2>1. CASE /\ row' = [row EXCEPT ![a] = Original] /\ UNCHANGED <<failed, retries, faults>>
             /\ jobs' = jobs \cup {[atom |-> a, point |-> Original, loser |-> 0]}
    <3>1. StoresOK'
      BY <1>1, <2>1, Constants DEF Insert, StoresOK, Vectors
    <3> QED
      BY <1>0, <1>1, <2>1, <3>1 DEF Insert, LogOK, CountsOK
  <2>2. CASE /\ failed' = failed \cup {<<"sqlite", a>>} /\ Spend(1) /\ UNCHANGED <<row, jobs>>
             /\ retries' = [retries EXCEPT ![<<"sqlite", a>>] = 0]
    <3>1. StoresOK'
      BY <1>1, <2>2 DEF Insert, StoresOK
    <3>2. LogOK'
      BY <1>1, <2>2 DEF Insert, LogOK, Sides
    <3> QED
      BY <1>0, <2>2, <3>1, <3>2, SpendKeeps DEF CountsOK
  <2> QED
    BY <1>1, <2>1, <2>2 DEF Insert
<1>2. ASSUME NEW a \in Atoms, NEW b \in Atoms, NEW c \in Contents, Merge(a, b, c)
      PROVE  IInv'
  <2>1. PICK x \in Attrs :
          /\ row' = IF row[a].content = c /\ row[b].status = "archived" THEN row
                    ELSE [row EXCEPT ![a] = Record(c, x, row[a].status)]
          /\ jobs' = jobs \cup {[atom |-> a, point |-> row'[a], loser |-> b]}
    BY <1>2 DEF Merge
  <2>2. row[a] \in Rows
    BY <1>2, ExistsInRows DEF Merge
  <2>3. Record(c, x, row[a].status) \in Rows
    BY <2>2, RowsType DEF RowType, Record
  <2>4. row' \in [Atoms -> Rows \cup {Absent, Deleted}] /\ row'[a] \in Rows
    BY <2>1, <2>2, <2>3 DEF StoresOK
  <2>5. StoresOK'
    BY <1>2, <2>1, <2>4 DEF Merge, StoresOK
  <2> QED
    BY <1>0, <1>2, <2>5 DEF Merge, log, LogOK, CountsOK
<1>3. ASSUME NEW a \in Atoms, NEW r \in Rows \cup {Deleted}, NEW p \in Points,
             row' = [row EXCEPT ![a] = r], NEW w \in WritePoint(vec, a, p), vec' = w.vec, Spend(w.cost),
             UNCHANGED <<jobs, log>>
      PROVE  IInv'
  <2>1. /\ w.vec \in Vectors /\ w.vec \in {vec, [vec EXCEPT ![a] = p]}
        /\ \/ w.res = "ok" /\ w.cost = 0 /\ w.vec = [vec EXCEPT ![a] = p]
           \/ w.res = "failed" /\ w.cost = 1
    BY <1>3, WritePointType DEF StoresOK
  <2>2. w.cost \in Nat
    BY <2>1
  <2>3. faults' \in 0..MaxFaults
    BY <1>3, <2>2, SpendKeeps
  <2>4. StoresOK'
    BY <1>3, <2>1 DEF StoresOK
  <2> QED
    BY <1>0, <1>3, <2>3, <2>4 DEF log, LogOK, CountsOK
<1>4. Absent \in Points
  BY DEF Points
<1>5. ASSUME NEW a \in Atoms, Archive(a)
      PROVE  IInv'
  <2>1. row[a] \in Rows
    BY <1>5, ExistsInRows DEF Archive
  <2>2. [row[a] EXCEPT !.status = "archived"] \in Rows
    BY <2>1, RowsType DEF RowType
  <2>3. row' = [row EXCEPT ![a] = [row[a] EXCEPT !.status = "archived"]]
    BY <1>5 DEF Archive
  <2> QED
    BY <1>3, <1>4, <1>5, <2>2, <2>3 DEF Archive
<1>6. ASSUME NEW a \in Atoms, Delete(a)
      PROVE  IInv'
  BY <1>3, <1>4, <1>6 DEF Delete
<1>7. ASSUME NEW a \in Atoms, Reweigh(a)
      PROVE  IInv'
  <2>1. row[a] \in Rows
    BY <1>7, ExistsInRows DEF Reweigh
  <2>2. PICK x \in Attrs :
          /\ row' = [row EXCEPT ![a].attr = x]
          /\ \E w \in WritePoint(vec, a, IF vec[a] = Absent THEN Absent ELSE [vec[a] EXCEPT !.attr = x]) :
               vec' = w.vec /\ Spend(w.cost)
    BY <1>7 DEF Reweigh
  <2>3. [row[a] EXCEPT !.attr = x] \in Rows
    BY <2>1, RowsType DEF RowType
  <2>4. row' = [row EXCEPT ![a] = [row[a] EXCEPT !.attr = x]]
    BY <2>2
  <2>5. vec[a] # Absent => vec[a] \in Rows
    BY DEF StoresOK, Vectors, Points
  <2>6. (IF vec[a] = Absent THEN Absent ELSE [vec[a] EXCEPT !.attr = x]) \in Points
    BY <1>4, <2>5, RowsType DEF RowType, Points
  <2> QED
    BY <1>3, <1>7, <2>2, <2>3, <2>4, <2>6 DEF Reweigh
<1> QED
  BY <1>1, <1>2, <1>5, <1>6, <1>7 DEF WriterStep

LEMMA JobInv ==
  ASSUME IInv, JobStep
  PROVE  IInv'
<1> USE DEF IInv
<1>1. PICK j \in jobs : InsertEnd(j) \/ MergeEnd(j)
  BY DEF JobStep
<1>2. /\ UNCHANGED <<rec, memory>> /\ jobs' = jobs \ {j} /\ writes' = writes
      /\ j.atom \in Atoms /\ j.point \in Rows /\ j.loser \in Atoms \cup {0}
  BY <1>1 DEF InsertEnd, MergeEnd, StoresOK
<1>3. MemoryOK' /\ RecOK' /\ StillQueued'
  BY <1>2, RecUnchanged
<1>4. CASE InsertEnd(j)
  <2>1. PICK w \in Upserted(j) :
          /\ vec' = w.vec /\ Spend(w.cost)
          /\ done' = IF w.res = "ok" THEN done \cup {j.atom} ELSE done
          /\ failed' = IF w.res = "failed" THEN failed \cup {<<"qdrant", j.atom>>} ELSE failed
          /\ retries' = IF w.res = "failed" THEN [retries EXCEPT ![<<"qdrant", j.atom>>] = 0] ELSE retries
    BY <1>4 DEF InsertEnd
  <2>2. w.vec \in Vectors /\ w.cost \in {0, 1}
    BY UpsertedType DEF StoresOK
  <2>3. StoresOK'
    BY <1>2, <1>4, <2>1, <2>2 DEF InsertEnd, StoresOK
  <2>4. LogOK'
    BY <1>2, <2>1 DEF LogOK, Sides
  <2>5. CountsOK'
    BY <1>2, <2>1, <2>2, SpendKeeps DEF CountsOK
  <2> QED
    BY <1>3, <2>3, <2>4, <2>5
<1>5. CASE MergeEnd(j)
  <2>1. PICK w \in Upserted(j) :
          IF Exists(j.loser)
          THEN \E d \in WritePoint(w.vec, j.loser, Absent) :
                 /\ row' = [row EXCEPT ![j.loser].status = "archived"]
                 /\ vec' = d.vec /\ Spend(w.cost + d.cost)
          ELSE vec' = w.vec /\ Spend(w.cost) /\ UNCHANGED row
    BY <1>5 DEF MergeEnd
  <2>2. w.vec \in Vectors /\ w.cost \in {0, 1}
    BY UpsertedType DEF StoresOK
  <2>3. LogOK'
    BY <1>5 DEF MergeEnd, log, LogOK
  <2>4. CASE ~ Exists(j.loser)
    BY <1>2, <1>3, <2>1, <2>2, <2>3, <2>4, SpendKeeps DEF StoresOK, CountsOK
  <2>5. CASE Exists(j.loser)
    <3>1. j.loser \in Atoms
      BY <1>2, <1>5 DEF MergeEnd
    <3>2. PICK d \in WritePoint(w.vec, j.loser, Absent) :
            /\ row' = [row EXCEPT ![j.loser].status = "archived"]
            /\ vec' = d.vec /\ Spend(w.cost + d.cost)
      BY <2>1, <2>5
    <3>3. Absent \in Points
      BY DEF Points
    <3>4. /\ d.vec \in Vectors /\ d.vec \in {w.vec, [w.vec EXCEPT ![j.loser] = Absent]}
          /\ \/ d.res = "ok" /\ d.cost = 0 /\ d.vec = [w.vec EXCEPT ![j.loser] = Absent]
             \/ d.res = "failed" /\ d.cost = 1
      BY <2>2, <3>1, <3>3, WritePointType
    <3>5. row[j.loser] \in Rows
      BY <2>5, <3>1, ExistsInRows
    <3>6. [row[j.loser] EXCEPT !.status = "archived"] \in Rows
      BY <3>5, RowsType DEF RowType
    <3>7. row' = [row EXCEPT ![j.loser] = [row[j.loser] EXCEPT !.status = "archived"]]
      BY <3>2
    <3>8. StoresOK'
      BY <1>2, <3>1, <3>2, <3>4, <3>6, <3>7 DEF StoresOK
    <3>9. w.cost + d.cost \in Nat
      BY <2>2, <3>4
    <3> QED
      BY <1>2, <1>3, <2>3, <3>2, <3>8, <3>9, SpendKeeps DEF CountsOK
  <2> QED
    BY <2>4, <2>5
<1> QED
  BY <1>1, <1>4, <1>5

\* The step in which a repair ends, or begins to wait.
LEMMA RepairStepInv ==
  ASSUME IInv, NEW k \in rec.todo, NEW s, Reached(s, k[2]),
         NEW n \in Nat, n > 0, s.res = "await" => n <= MaxAttempts,
         \/ rec.pc = "work"
         \/ rec.pc = "await" /\ k = rec.cur,
         RepairStep(k, s, n)
  PROVE  IInv' /\ Careful
<1> DEFINE a == k[2]
<1> USE DEF IInv
<1>1. /\ rec \in RecType /\ k \in Items /\ k[1] \in Kinds(rec.work) /\ a \in Atoms
      /\ rec.work # "none"
  BY DEF RecOK, RecType, Items
<1>2. /\ vec' = s.vec /\ resync' = s.resync /\ cleanup' = s.cleanup /\ Spend(s.cost)
      /\ UNCHANGED <<row, jobs, failed, done, writes>>
  BY DEF RepairStep
<1>3. /\ Good(s, a) /\ Within(s, a) /\ (s.res = "await" => Active(a))
      /\ s \in StateType /\ s.vec \in Vectors /\ s.resync \subseteq Atoms /\ s.cleanup \subseteq Atoms
      /\ s.cost \in Nat /\ s.res \in {"ok", "failed", "await"}
  BY DEF Reached, Good, Within, StateType
<1>4. faults' \in 0..MaxFaults /\ (faults' = faults => s.cost = 0)
  BY <1>2, <1>3, SpendKeeps
<1>5. StoresOK' /\ CountsOK'
  BY <1>2, <1>3, <1>4 DEF StoresOK, CountsOK
<1>6. QueuesDisjoint'
  BY <1>1, <1>2, <1>3 DEF MemoryOK, QueuesDisjoint, Good, Within
<1>7. \A x \in cleanup : x # a => x \in cleanup'
  BY <1>2, <1>3 DEF MemoryOK, Within
<1>8. Careful
  <2>1. PresentRow
    BY <1>2, <1>3 DEF PresentRow, Within
  <2>2. ASSUME faults' = faults
        PROVE  DeletionsQueued
    BY <1>2, <1>3, <1>4, <2>2 DEF DeletionsQueued, Good, Within
  <2>3. ASSUME faults' = faults, NEW x \in resync \ resync'
        PROVE  x \in cleanup' \/ Agree(x)'
    <3>1. x = a
      BY <1>2, <1>3, <2>3 DEF MemoryOK, Within
    <3>2. a \in cleanup' \/ vec'[a] = IF Active(a) THEN row[a] ELSE Absent
      BY <1>2, <1>3, <1>4, <2>3, <3>1 DEF Good
    <3> QED
      BY <1>2, <3>1, <3>2 DEF Agree, Active
  <2> QED
    BY <2>1, <2>2, <2>3 DEF Careful, ResyncsDone
<1>9. CASE s.res = "await"
  <2>1. /\ rec' = [rec EXCEPT !.pc = "await", !.cur = k, !.snap = row[k[2]], !.attempt = n]
        /\ UNCHANGED <<suspects, backoff, retries>>
    BY <1>9 DEF RepairStep
  <2>2. row[a] \in Rows /\ n \in 1..MaxAttempts /\ n \in 0..MaxAttempts
    <3>1. row[a] \in Rows
      BY <1>1, <1>3, <1>9, ExistsInRows
    <3>2. n \in Nat /\ n > 0 /\ n <= MaxAttempts /\ MaxAttempts \in Nat
      BY <1>9, Constants
    <3> QED
      BY <3>1, <3>2
  <2>3. /\ rec' \in RecType /\ rec'.pc = "await" /\ rec'.cur = k /\ rec'.snap = row[a]
        /\ rec'.attempt = n /\ rec'.work = rec.work /\ rec'.todo = rec.todo
    BY <1>1, <2>1, <2>2 DEF RecType, Points
  <2>4. RecOK'
    BY <1>1, <2>2, <2>3 DEF RecOK
  <2>5. StillQueued'
    <3> SUFFICES ASSUME NEW j \in rec.todo, j[1] = "cleanup", j # k
                 PROVE  j[2] \in cleanup'
      BY <2>3 DEF StillQueued
    <3>1. j[1] = k[1] /\ j \in Items
      BY <1>1 DEF RecOK, RecType, Kinds, Sides, Items
    <3>2. j[2] # a
      BY <1>1, <3>1 DEF Items
    <3> QED
      BY <1>7, <3>2 DEF StillQueued
  <2>6. MemoryOK' /\ LogOK'
    BY <1>2, <1>3, <1>6, <2>1 DEF MemoryOK, LogOK
  <2> QED
    BY <1>5, <1>8, <2>4, <2>5, <2>6
<1>10. CASE s.res # "await"
  <2>1. rec' = [rec EXCEPT !.pc = "work", !.todo = @ \ {k}, !.cur = Idle.cur, !.snap = Absent, !.attempt = 0]
    BY <1>10 DEF RepairStep
  <2>2. /\ Idle.cur = <<"none", 0>> /\ Absent \in Points /\ 0 \in 0..MaxAttempts
        /\ rec.todo \ {k} \in SUBSET Items
    BY <1>1, Constants DEF Idle, Points, RecType
  <2>3. rec' \in RecType /\ rec'.pc = "work" /\ rec'.work = rec.work /\ rec'.todo = rec.todo \ {k}
    BY <1>1, <2>1, <2>2 DEF RecType
  <2>4. RecOK'
    BY <1>1, <2>3 DEF RecOK
  <2>5. StillQueued'
    <3> SUFFICES ASSUME NEW j \in rec.todo, j[1] = "cleanup", j # k
                 PROVE  j[2] \in cleanup'
      BY <2>3 DEF StillQueued
    <3>1. j[1] = k[1] /\ j \in Items
      BY <1>1 DEF RecOK, RecType, Kinds, Sides, Items
    <3>2. j[2] # a
      BY <1>1, <3>1 DEF Items
    <3> QED
      BY <1>7, <3>2 DEF StillQueued
  <2>6. retries' \in [Sides \X Atoms -> Nat]
    <3>1. retries' \in {retries, [retries EXCEPT ![k] = @ + 1]}
      BY <1>10 DEF RepairStep
    <3> QED
      BY <3>1 DEF LogOK
  <2>7. suspects' \subseteq Atoms /\ backoff' \in [Repairs \X Atoms -> 0..MaxBackoff]
    <3>1. suspects' \in {suspects, suspects \ {k[2]}}
      BY <1>10 DEF RepairStep
    <3>2. backoff' = backoff \/ \E d \in Backoff(k, s.res) : backoff' = [backoff EXCEPT ![k] = d]
      BY <1>10 DEF RepairStep
    <3>3. Backoff(k, s.res) \subseteq 0..MaxBackoff
      BY Constants DEF Backoff
    <3> QED
      BY <3>1, <3>2, <3>3 DEF MemoryOK
  <2>8. MemoryOK' /\ LogOK'
    BY <1>2, <1>3, <1>6, <2>6, <2>7 DEF MemoryOK, LogOK
  <2> QED
    BY <1>5, <1>8, <2>4, <2>5, <2>8
<1> QED
  BY <1>9, <1>10

LEMMA EligibleType ==
  ASSUME NEW kind, NEW S, NEW wait, NEW k \in Eligible(kind, S, wait)
  PROVE  \E a \in S : k = <<kind, a>>
BY DEF Eligible

\* A step that leaves the stores, the log and the queues alone.
LEMMA StayCareful ==
  ASSUME IInv, UNCHANGED <<row, vec, memory>>
  PROVE  Careful
BY DEF Careful, PresentRow, DeletionsQueued, ResyncsDone, memory

LEMMA WorkInv ==
  ASSUME IInv, NEW k \in Items, Work(k)
  PROVE  IInv' /\ Careful
<1>1. k \in rec.todo /\ rec.pc = "work"
  BY DEF Work
<1>2. k[1] = "cleanup" => k[2] \in cleanup
  BY <1>1 DEF IInv, StillQueued
<1>3. PICK s \in Repair(k[1], k[2]) : RepairStep(k, s, 1)
  BY DEF Work
<1>4. Reached(s, k[2])
  BY <1>2, RepairGood
<1>5. 1 <= MaxAttempts /\ 1 \in Nat /\ 1 > 0
  BY Constants
<1> QED
  BY <1>1, <1>3, <1>4, <1>5, RepairStepInv

LEMMA EmbeddedInv ==
  ASSUME IInv, Embedded
  PROVE  IInv' /\ Careful
<1> DEFINE k == rec.cur
           n == rec.attempt
<1>1. rec.pc = "await" /\ k \in rec.todo /\ n \in 1..MaxAttempts
  BY DEF Embedded, IInv, RecOK
<1>2. k[2] \in Atoms /\ n \in Nat /\ n + 1 \in Nat /\ n + 1 > 0 /\ MaxAttempts \in Nat
  BY <1>1, Constants DEF IInv, RecOK, RecType, Items
<1>3. PICK s : /\ \/ s \in SyncUnembedded(Now, k[2], rec.snap)
                  \/ s \in SyncEmbedded(Now, k[2], rec.snap, n)
               /\ RepairStep(k, s, n + 1)
  BY DEF Embedded
<1>4. Reached(s, k[2]) /\ (s.res = "await" => n < MaxAttempts)
  BY <1>2, <1>3, UnembeddedGood, EmbeddedGood DEF Reached, Ends
<1>5. s.res = "await" => n + 1 <= MaxAttempts
  BY <1>2, <1>4
<1> HIDE DEF n
<1> QED
  BY <1>1, <1>2, <1>3, <1>4, <1>5, RepairStepInv

LEMMA ScanInv ==
  ASSUME IInv, Scan
  PROVE  IInv' /\ Careful
<1> USE DEF IInv
<1> DEFINE active == {a \in Atoms : Active(a)}
           points == {a \in Atoms : vec[a] # Absent}
           missing == active \ points
           stale == {a \in active \cap points : vec[a] # row[a]}
           reactivated == cleanup \cap active
           wanted == resync \cup stale \cup reactivated
           unwanted == (cleanup \ reactivated) \cup (wanted \ active)
           orphans == {a \in points \ unwanted : ~ Exists(a)}
           inactive == {a \in points \ unwanted : Exists(a) /\ ~ Active(a)}
           keys == {<<"sync", a>> : a \in missing \cup resync'} \cup {<<"cleanup", a>> : a \in cleanup'}
                   \cup {<<"orphan", a>> : a \in orphans}
<1>1. /\ resync' = wanted \cap active /\ cleanup' = unwanted \cup inactive /\ suspects' = orphans
      /\ backoff' = [k \in Repairs \X Atoms |-> IF k \in keys /\ backoff[k] > 0 THEN backoff[k] - 1 ELSE 0]
      /\ rec' = IF keys = {} THEN Idle
                ELSE [rec EXCEPT !.work = "sync", !.confirmed = orphans \cap suspects,
                                 !.todo = Eligible("sync", missing \cup resync', backoff')]
      /\ rec.pc = "work" /\ UNCHANGED <<row, vec, jobs, log, writes, faults>>
  BY DEF Scan
<1>2. /\ resync' \subseteq Atoms /\ cleanup' \subseteq Atoms /\ suspects' \subseteq Atoms
      /\ missing \cup resync' \subseteq Atoms
  BY <1>1 DEF MemoryOK
<1>3. QueuesDisjoint'
  BY <1>1 DEF QueuesDisjoint
<1>4. \A a \in resync \ resync' : a \in cleanup'
  BY <1>1 DEF MemoryOK
<1> HIDE DEF keys, missing, orphans, wanted, unwanted, inactive
<1>5. backoff' \in [Repairs \X Atoms -> 0..MaxBackoff]
  <2>1. \A k \in Repairs \X Atoms : backoff[k] \in 0..MaxBackoff
    BY DEF MemoryOK
  <2>2. \A d \in 0..MaxBackoff : d > 0 => d - 1 \in 0..MaxBackoff
    BY Constants
  <2>3. 0 \in 0..MaxBackoff
    BY Constants
  <2> QED
    BY <1>1, <2>1, <2>2, <2>3
<1>6. RecOK' /\ StillQueued'
  <2>1. CASE rec' = Idle
    BY <2>1, IdleOK DEF RecOK, StillQueued
  <2>2. CASE rec' = [rec EXCEPT !.work = "sync", !.confirmed = orphans \cap suspects,
                                !.todo = Eligible("sync", missing \cup resync', backoff')]
    <3>1. \A k \in Eligible("sync", missing \cup resync', backoff') : k \in Items /\ k[1] = "sync"
      BY <1>2, EligibleType DEF Items, Repairs
    <3> DEFINE T == Eligible("sync", missing \cup resync', backoff')
               C == orphans \cap suspects
    <3>2. T \in SUBSET Items /\ C \in SUBSET Atoms /\ rec' = [rec EXCEPT !.work = "sync", !.confirmed = C, !.todo = T]
      BY <2>2, <3>1 DEF MemoryOK
    <3> HIDE DEF T, C
    <3>3. rec' \in RecType /\ rec'.pc = "work" /\ rec'.work = "sync" /\ rec'.todo = T
      BY <1>1, <3>2 DEF RecOK, RecType
    <3> QED
      BY <3>1, <3>3 DEF T, RecOK, StillQueued, Kinds
  <2> QED
    BY <1>1, <2>1, <2>2
<1>7. StoresOK' /\ LogOK' /\ CountsOK' /\ MemoryOK'
  BY <1>1, <1>2, <1>3, <1>5 DEF log, StoresOK, LogOK, CountsOK, MemoryOK
<1>8. Careful
  BY <1>1, <1>4 DEF Careful, PresentRow, DeletionsQueued, ResyncsDone
<1> QED
  BY <1>6, <1>7, <1>8

\* The steps between the repairs, which leave the stores and the queues alone.
LEMMA BetweenInv ==
  ASSUME IInv, RoundBegin \/ ScanFails \/ NextWork
  PROVE  IInv' /\ Careful
<1> USE DEF IInv
<1>1. UNCHANGED <<row, vec, jobs, log, memory, writes>>
  BY DEF RoundBegin, ScanFails, NextWork
<1>2. faults' \in 0..MaxFaults
  BY SpendKeeps DEF RoundBegin, ScanFails, NextWork, CountsOK
<1>3. RecOK' /\ StillQueued'
  <2>1. CASE rec' = Idle
    BY <2>1, IdleOK DEF RecOK, StillQueued
  <2>2. CASE RoundBegin
    <3>1. PICK S \in SUBSET failed : rec' = [Idle EXCEPT !.pc = "work", !.work = "pairs", !.todo = S]
      BY <2>2 DEF RoundBegin
    <3>2. \A k \in S : k \in Items /\ k[1] \in Sides
      BY DEF LogOK, Items
    <3>3. rec' \in RecType /\ rec'.pc = "work" /\ rec'.work = "pairs" /\ rec'.todo = S
      BY <3>1, <3>2, IdleOK DEF RecType
    <3> QED
      BY <3>2, <3>3 DEF RecOK, StillQueued, Kinds, Sides
  <2>3. ASSUME NEW w \in {"cleanup", "orphan"}, NEW S \in SUBSET Atoms, w = "cleanup" => S = cleanup,
               rec.pc = "work", rec' = [rec EXCEPT !.work = w, !.todo = Eligible(w, S, backoff)]
        PROVE  RecOK' /\ StillQueued'
    <3>1. \A k \in Eligible(w, S, backoff) : k \in Items /\ k[1] = w /\ k[2] \in S
      BY EligibleType DEF Items, Repairs
    <3>2. /\ rec' \in RecType /\ rec'.pc = "work" /\ rec'.work = w
          /\ rec'.todo = Eligible(w, S, backoff)
      BY <2>3, <3>1 DEF RecOK, RecType
    <3>3. cleanup' = cleanup
      BY <1>1 DEF memory
    <3> QED
      BY <2>3, <3>1, <3>2, <3>3 DEF RecOK, StillQueued, Kinds
  <2>4. CASE NextWork
    <3>1. rec.pc = "work" /\ rec.work \in {"sync", "cleanup", "orphan"}
      BY <2>4 DEF NextWork, RecOK, RecType
    <3>2. cleanup \in SUBSET Atoms /\ rec.confirmed \in SUBSET Atoms
      BY DEF MemoryOK, RecOK, RecType
    <3>3. \/ rec' = [rec EXCEPT !.work = "cleanup", !.todo = Eligible("cleanup", cleanup, backoff)]
          \/ rec' = [rec EXCEPT !.work = "orphan", !.todo = Eligible("orphan", rec.confirmed, backoff)]
          \/ rec' = Idle
      BY <2>4, <3>1 DEF NextWork
    <3> QED
      BY <2>1, <2>3, <3>1, <3>2, <3>3
  <2> QED
    BY <2>1, <2>2, <2>4 DEF ScanFails
<1>4. MemoryOK'
  BY <1>1 DEF memory, MemoryOK, QueuesDisjoint
<1>5. StoresOK' /\ LogOK' /\ CountsOK'
  BY <1>1, <1>2 DEF log, StoresOK, LogOK, CountsOK
<1> QED
  BY <1>1, <1>3, <1>4, <1>5, StayCareful

LEMMA ReconcileInv ==
  ASSUME IInv, Reconcile
  PROVE  IInv' /\ Careful
BY WorkInv, EmbeddedInv, ScanInv, BetweenInv DEF Reconcile, Items

LEMMA CrashInv ==
  ASSUME IInv, Crash
  PROVE  IInv'
<1> USE DEF IInv
<1>1. MemoryOK'
  BY Constants DEF Crash, MemoryOK, QueuesDisjoint
<1>2. StoresOK' /\ LogOK'
  BY DEF Crash, log, StoresOK, LogOK
<1>3. CountsOK'
  BY SpendKeeps DEF Crash, CountsOK
<1>4. PICK S \in SUBSET failed : rec' = [Idle EXCEPT !.pc = "replay", !.todo = S]
  BY DEF Crash
<1>5. \A k \in S : k \in Items /\ k[1] \in Sides
  BY DEF LogOK, Items
<1>6. rec' \in RecType /\ rec'.pc = "replay" /\ rec'.work = "none" /\ rec'.todo = S
  BY <1>4, <1>5, IdleOK DEF RecType
<1>7. RecOK' /\ StillQueued'
  BY <1>5, <1>6 DEF RecOK, StillQueued, Kinds, Sides
<1> QED
  BY <1>1, <1>2, <1>3, <1>7

LEMMA ReplayInv ==
  ASSUME IInv, StartUp
  PROVE  IInv'
<1> USE DEF IInv
<1>1. CASE Serve
  <2>1. RecOK' /\ StillQueued'
    BY <1>1, IdleOK DEF Serve, RecOK, StillQueued
  <2> QED
    BY <1>1, <2>1 DEF Serve, log, memory, StoresOK, LogOK, CountsOK, MemoryOK, QueuesDisjoint
<1>2. ASSUME NEW k \in Sides \X Atoms, Replay(k)
      PROVE  IInv'
  <2> DEFINE a == k[2]
             T == rec.todo \ {k}
             point == IF Exists(a) THEN row[a] ELSE Original
  <2>0. a \in Atoms /\ point \in Rows /\ k \in Items /\ Rows \subseteq Points
    BY ExistsInRows, Constants DEF Items, Points
  <2>1. /\ rec.pc = "replay" /\ k \in rec.todo
        /\ retries' = [retries EXCEPT ![k] = @ + 1] /\ UNCHANGED <<vec, jobs, done, memory, writes>>
    BY <1>2 DEF Replay
  <2>2. /\ row' \in {row, [row EXCEPT ![a] = Original]} /\ failed' \in {failed, failed \ {k}}
        /\ UNCHANGED faults \/ Spend(1)
        /\ \/ rec' = [rec EXCEPT !.todo = T]
           \/ rec' = [rec EXCEPT !.pc = "embed", !.todo = T, !.cur = k, !.snap = point]
    BY <1>2 DEF Replay
  <2> HIDE DEF a, point
  <2>3. /\ rec' \in RecType /\ rec'.pc \in {"replay", "embed"} /\ rec'.work = rec.work /\ rec'.todo = T
        /\ rec'.pc = "embed" => rec'.cur = k /\ rec'.snap = point
    BY <2>0, <2>1, <2>2 DEF RecOK, RecType
  <2>4. RecOK' /\ StillQueued' /\ MemoryOK'
    BY <2>0, <2>1, <2>3 DEF memory, RecOK, StillQueued, MemoryOK, QueuesDisjoint
  <2>5. LogOK'
    BY <2>1, <2>2 DEF LogOK
  <2>6. StoresOK'
    BY <2>0, <2>1, <2>2, Constants DEF StoresOK
  <2>7. CountsOK'
    BY <2>1, <2>2, SpendKeeps DEF CountsOK
  <2> QED
    BY <2>4, <2>5, <2>6, <2>7
<1>3. CASE ReplayEmbedded
  <2> DEFINE j == [atom |-> rec.cur[2], point |-> rec.snap, loser |-> 0]
  <2>1. /\ rec.pc = "embed" /\ rec' = [rec EXCEPT !.pc = "replay", !.cur = Idle.cur, !.snap = Absent]
        /\ UNCHANGED <<row, retries, jobs, memory, writes>>
    BY <1>3 DEF ReplayEmbedded
  <2>2. PICK w \in Upserted(j) :
          /\ vec' = w.vec /\ Spend(w.cost)
          /\ failed' = IF w.res = "ok" THEN failed \ {rec.cur} ELSE failed
          /\ done' = IF w.res = "ok" THEN done \cup {rec.cur[2]} ELSE done
    BY <1>3 DEF ReplayEmbedded
  <2>3. rec.cur \in Sides \X Atoms /\ rec.snap \in Rows /\ j.atom \in Atoms /\ j.point \in Rows
    BY <2>1 DEF RecOK
  <2> HIDE DEF j
  <2>4. w.vec \in Vectors /\ w.cost \in Nat
    BY <2>2, <2>3, UpsertedType
  <2>5. StoresOK' /\ LogOK' /\ CountsOK'
    BY <2>1, <2>2, <2>3, <2>4, SpendKeeps DEF StoresOK, LogOK, CountsOK
  <2>6. Idle.cur = <<"none", 0>> /\ Absent \in Points
    BY DEF Idle, Points
  <2>7. rec' \in RecType /\ rec'.pc = "replay" /\ rec'.work = rec.work /\ rec'.todo = rec.todo
    BY <2>1, <2>6 DEF RecOK, RecType
  <2>8. RecOK' /\ StillQueued' /\ MemoryOK'
    BY <2>1, <2>7 DEF memory, RecOK, StillQueued, MemoryOK, QueuesDisjoint
  <2> QED
    BY <2>5, <2>8
<1> QED
  BY <1>1, <1>2, <1>3 DEF StartUp

LEMMA StutterInv ==
  ASSUME IInv, UNCHANGED vars
  PROVE  IInv'
BY DEF vars, log, memory, IInv, StoresOK, LogOK, CountsOK, MemoryOK, QueuesDisjoint, RecOK, StillQueued

LEMMA NextInv == IInv /\ [Next]_vars => IInv'
BY WriterInv, JobInv, ReconcileInv, CrashInv, ReplayInv, StutterInv DEF Next

LEMMA Inductive == Spec => []IInv
BY InitInv, NextInv, PTL DEF Spec
-----------------------------------------------------------------------------
(* Theorems                                                                *)

\* Every variable of the stores, the log and the task has its type, whatever
\* the writers, the failed calls and the restarts do.
THEOREM Typed == Spec => []TypeOK
BY Inductive, InvImplies, PTL

\* ReconciliationTask never has an atom in _forced_resync_ids and in
\* _forced_cleanup_ids at once.
THEOREM Disjoint == Spec => []QueuesDisjoint
BY Inductive, InvImplies, PTL

\* What the reconciliation writes into the index is the present row of an
\* active atom, though the row may have changed while an embedding was awaited.
THEOREM PresentRowWritten == Spec => WritesPresentRow
<1>1. IInv /\ [Next]_vars => [Reconcile => \A a \in Atoms : vec'[a] \in {vec[a], Absent} \/ (Active(a) /\ vec'[a] = row[a])]_vars
  BY ReconcileInv DEF Careful, PresentRow
<1> QED
  BY <1>1, Inductive, PTL DEF Spec, WritesPresentRow

\* While no call fails, no repair deletes the point of an active atom and
\* forgets the atom.
THEOREM DeletionsStayQueued == Spec => DeletesAreQueued
<1>1. IInv /\ [Next]_vars =>
        [Reconcile /\ faults' = faults =>
           \A a \in Atoms : Active(a) /\ vec[a] # Absent /\ vec'[a] = Absent => a \in resync' \cup cleanup']_vars
  BY ReconcileInv DEF Careful, DeletionsQueued
<1> QED
  BY <1>1, Inductive, PTL DEF Spec, DeletesAreQueued

\* While no call fails, an atom is dropped from _forced_resync_ids only once
\* its point is right, or in favour of its removal.
THEOREM ResyncsCompleted == Spec => ResyncsAreDone
<1>1. IInv /\ [Next]_vars =>
        [Reconcile /\ faults' = faults => \A a \in resync \ resync' : a \in cleanup' \/ Agree(a)']_vars
  BY ReconcileInv DEF Careful, ResyncsDone
<1> QED
  BY <1>1, Inductive, PTL DEF Spec, ResyncsAreDone
=============================================================================
