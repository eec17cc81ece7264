------------------------- MODULE WriteOpLog_proofs -------------------------
(***************************************************************************)
(* Proofs about the write-operation log, for every number of operations,   *)
(* every size limit and every set of faults that WriteOpLog's constants    *)
(* allow.  The lemmas follow the operators: what each outcome of a file    *)
(* operation leaves of the log, then what each method does.                *)
(***************************************************************************)
EXTENDS WriteOpLog, FiniteSetTheorems, TLAPS

\* A log whose records belong to operations below bound.
FileOK(f, bound) ==
  /\ f = File(f.lines, f.torn, f.archives, f.made)
  /\ f.lines \in [DOMAIN f.lines -> WriteOp] /\ DOMAIN f.lines \subseteq 1..(bound - 1)
  /\ f.archives \in [DOMAIN f.archives -> 1..f.made] /\ DOMAIN f.archives \subseteq 1..MaxSlots
  /\ f.torn \in BOOLEAN /\ f.made \in Nat

Results == {"ok", "error", "crash"}
-----------------------------------------------------------------------------
(* Records and logs as data                                                *)

LEMMA RestrictType ==
  ASSUME NEW ops, NEW S, ops \in [DOMAIN ops -> WriteOp], S \subseteq DOMAIN ops
  PROVE  /\ DOMAIN Restrict(ops, S) = S
         /\ Restrict(ops, S) \in [S -> WriteOp]
         /\ \A o \in S : Restrict(ops, S)[o] = ops[o]
BY DEF Restrict

LEMMA PutType ==
  ASSUME NEW ops, NEW o, NEW op \in WriteOp, ops \in [DOMAIN ops -> WriteOp]
  PROVE  /\ DOMAIN Put(ops, o, op) = DOMAIN ops \cup {o}
         /\ Put(ops, o, op) \in [DOMAIN ops \cup {o} -> WriteOp]
         /\ Put(ops, o, op)[o] = op
         /\ \A x \in DOMAIN ops \ {o} : Put(ops, o, op)[x] = ops[x]
BY DEF Put

\* Forgetting is transitive, and a log forgets nothing of itself.
LEMMA ForgetsTransitive ==
  ASSUME NEW a, NEW b, NEW c, Forgets(a, b), Forgets(b, c)
  PROVE  Forgets(a, c)
BY DEF Forgets, Live

LEMMA ForgetsReflexive ==
  ASSUME NEW a
  PROVE  Forgets(a, a)
BY DEF Forgets, Live

\* Forgetting is a kind of truncation, and so is truncating what forgetting left.
LEMMA ForgetsTruncates ==
  ASSUME NEW a, NEW b, Forgets(a, b)
  PROVE  Truncates(a, b)
BY DEF Forgets, Truncates

LEMMA TruncatesAfter ==
  ASSUME NEW a, NEW b, NEW c, Forgets(a, b), Truncates(b, c)
  PROVE  Truncates(a, c)
BY DEF Forgets, Truncates, Live

\* The first lines of a log are a truncation of it.
LEMMA PrefixTruncates ==
  ASSUME NEW ops, NEW bound, DOMAIN ops \subseteq 1..(bound - 1), NEW k \in Nat
  PROVE  Truncates(ops, Restrict(ops, {o \in DOMAIN ops : o <= k}))
<1> DEFINE S == {o \in DOMAIN ops : o <= k}
<1>1. DOMAIN Restrict(ops, S) = S /\ \A o \in S : Restrict(ops, S)[o] = ops[o]
  BY DEF Restrict
<1>2. \A o \in DOMAIN ops : o \in Int
  OBVIOUS
<1>3. \A o \in DOMAIN ops \ S, p \in S : p < o
  BY <1>2
<1>4. S \subseteq DOMAIN ops /\ Live(ops) \subseteq DOMAIN ops
  BY DEF Live
<1> HIDE DEF S
<1> QED
  BY <1>1, <1>3, <1>4 DEF Truncates, S

\* Keeping all unfinished operations, and any others, is forgetting.
LEMMA RestrictForgets ==
  ASSUME NEW ops, NEW S, Live(ops) \subseteq S, S \subseteq DOMAIN ops
  PROVE  Forgets(ops, Restrict(ops, S))
BY DEF Forgets, Restrict, Live

-----------------------------------------------------------------------------
(* Every outcome of a file operation leaves a well-formed log.             *)

LEMMA FileType ==
  ASSUME NEW bound, NEW lines, NEW torn \in BOOLEAN, NEW archives, NEW made \in Nat,
         lines \in [DOMAIN lines -> WriteOp], DOMAIN lines \subseteq 1..(bound - 1),
         archives \in [DOMAIN archives -> 1..made], DOMAIN archives \subseteq 1..MaxSlots
  PROVE  FileOK(File(lines, torn, archives, made), bound)
BY DEF File, FileOK

LEMMA CutShortType ==
  ASSUME NEW bound, NEW f, FileOK(f, bound), NEW r \in Results,
         NEW ops, ops \in [DOMAIN ops -> WriteOp], DOMAIN ops \subseteq 1..(bound - 1),
         NEW out \in CutShort(f, ops, r)
  PROVE  FileOK(out.file, bound) /\ out.res = r
<1>1. PICK k \in 0..MaxOps : \E t \in BOOLEAN :
        out = Outcome(File(Restrict(ops, {o \in DOMAIN ops : o <= k}), t, f.archives, f.made), r)
  BY DEF CutShort, If
<1>2. PICK t \in BOOLEAN :
        out = Outcome(File(Restrict(ops, {o \in DOMAIN ops : o <= k}), t, f.archives, f.made), r)
  BY <1>1
<1> DEFINE S == {o \in DOMAIN ops : o <= k}
<1>3. Restrict(ops, S) \in [S -> WriteOp] /\ DOMAIN Restrict(ops, S) = S
  BY RestrictType
<1> QED
  BY <1>2, <1>3 DEF Outcome, File, FileOK

LEMMA RotateLogType ==
  ASSUME LogAssumption, NEW bound, NEW f, FileOK(f, bound), NEW out \in RotateLog(f)
  PROVE  FileOK(out.file, bound) /\ out.res \in Results
<1> DEFINE kept == Carried(f.lines)
           Archived(n) == Put(f.archives, n, f.made + 1)
           Moved(n) == File(f.lines, f.torn, Archived(n), f.made + 1)
<1>1. kept \in [DOMAIN kept -> WriteOp] /\ DOMAIN kept \subseteq 1..(bound - 1)
  BY RestrictType DEF Carried, Live, FileOK
<1>2. ASSUME NEW n \in FirstFree(f.archives)
      PROVE  /\ Archived(n) \in [DOMAIN Archived(n) -> 1..(f.made + 1)]
             /\ DOMAIN Archived(n) \subseteq 1..MaxSlots
  BY DEF FirstFree, Put, FileOK
<1>3. ASSUME NEW n \in FirstFree(f.archives) PROVE FileOK(Moved(n), bound)
  BY <1>2 DEF File, FileOK
<1>4. CASE out = Outcome(f, "ok")
  BY <1>4 DEF Outcome, Results
<1>5. CASE \E n \in FirstFree(f.archives) : \E a \in Pruned(Archived(n), n) :
             out = Outcome(File(kept, FALSE, a, f.made + 1), "ok")
  <2>0. PICK n \in FirstFree(f.archives) : \E a \in Pruned(Archived(n), n) :
             out = Outcome(File(kept, FALSE, a, f.made + 1), "ok")
    BY <1>5
  <2>1. PICK a \in Pruned(Archived(n), n) :
             out = Outcome(File(kept, FALSE, a, f.made + 1), "ok")
    BY <2>0
  <2>2. a \in [DOMAIN a -> 1..(f.made + 1)] /\ DOMAIN a \subseteq 1..MaxSlots
    BY <1>2 DEF Pruned, If, Restrict
  <2> QED
    <3>1. f.made + 1 \in Nat
      BY DEF FileOK
    <3>2. FileOK(File(kept, FALSE, a, f.made + 1), bound)
      BY <1>1, <2>2, <3>1, FileType
    <3> QED
      BY <2>1, <3>2 DEF Outcome, Results
<1>6. CASE \E n \in FirstFree(f.archives), r \in Results : out \in CutShort(Moved(n), kept, r)
  BY <1>1, <1>3, <1>6, CutShortType
<1> QED
  BY <1>4, <1>5, <1>6 DEF RotateLog, If, Results


LEMMA CheckRotateType ==
  ASSUME LogAssumption, NEW bound, NEW f, FileOK(f, bound), NEW out \in CheckRotate(f)
  PROVE  FileOK(out.file, bound) /\ out.res \in Results
<1>1. CASE out = Outcome(f, "ok")
  BY <1>1 DEF Outcome, Results
<1>2. CASE out \in RotateLog(f)
  BY <1>2, RotateLogType
<1> QED
  BY <1>1, <1>2 DEF CheckRotate

LEMMA WriteAllOpsType ==
  ASSUME LogAssumption, NEW bound, NEW f, FileOK(f, bound),
         NEW ops, ops \in [DOMAIN ops -> WriteOp], DOMAIN ops \subseteq 1..(bound - 1),
         NEW out \in WriteAllOps(f, ops)
  PROVE  FileOK(out.file, bound) /\ out.res \in Results
<1>1. PICK s \in CheckRotate(f) :
        out \in (IF s.res = "ok" THEN Overwrite(s.file, ops) \cup {Outcome(s.file, "crash")} ELSE {s})
  BY DEF WriteAllOps, Then
<1>2. FileOK(s.file, bound) /\ s.res \in Results
  BY CheckRotateType
<1>3. CASE out = s \/ out = Outcome(s.file, "crash")
  BY <1>2, <1>3 DEF Outcome, Results
<1>4. CASE out = Outcome(File(ops, FALSE, s.file.archives, s.file.made), "ok")
  BY <1>2, <1>4 DEF Outcome, File, FileOK, Results
<1>5. CASE \E r \in Results : out \in CutShort(s.file, ops, r)
  BY <1>2, <1>5, CutShortType
<1> QED
  BY <1>1, <1>3, <1>4, <1>5 DEF Overwrite, If, Results

LEMMA TrimmedType ==
  ASSUME NEW ops, ops \in [DOMAIN ops -> WriteOp]
  PROVE  /\ Trimmed(ops) \in [DOMAIN Trimmed(ops) -> WriteOp]
         /\ DOMAIN Trimmed(ops) \subseteq DOMAIN ops
         /\ Forgets(ops, Trimmed(ops))
<1> DEFINE done == DOMAIN ops \ Live(ops)
           excess == Cardinality(DOMAIN ops) - MaxEntries
           S == Live(ops) \cup {o \in done : Cardinality({p \in done : p < o}) >= excess}
<1>1. S \subseteq DOMAIN ops /\ Live(ops) \subseteq S
  BY DEF Live
<1>2. Trimmed(ops) = Restrict(ops, S)
  BY DEF Trimmed
<1> HIDE DEF S
<1> QED
  BY <1>1, <1>2, RestrictType, RestrictForgets

LEMMA AutoTrimType ==
  ASSUME LogAssumption, NEW bound, NEW f, FileOK(f, bound),
         NEW ops, ops \in [DOMAIN ops -> WriteOp], DOMAIN ops \subseteq 1..(bound - 1),
         NEW out \in AutoTrim(f, ops)
  PROVE  FileOK(out.file, bound) /\ out.res \in Results
<1>1. CASE out = Outcome(f, "ok")
  BY <1>1 DEF Outcome, Results
<1>2. CASE out \in WriteAllOps(f, Trimmed(ops))
  BY <1>2, TrimmedType, WriteAllOpsType
<1> QED
  BY <1>1, <1>2 DEF AutoTrim


\* The log with the record of one of its operations updated.
LEMMA UpdatedType ==
  ASSUME NEW bound, NEW f, FileOK(f, bound), NEW o \in DOMAIN f.lines, NEW status \in Status, NEW retries \in Nat
  PROVE  LET ops == Put(f.lines, o, [status |-> status, retry |-> f.lines[o].retry + retries])
         IN  ops \in [DOMAIN ops -> WriteOp] /\ DOMAIN ops \subseteq 1..(bound - 1)
<1> DEFINE op == [status |-> status, retry |-> f.lines[o].retry + retries]
<1>1. op \in WriteOp
  BY DEF FileOK, WriteOp
<1>2. f.lines \in [DOMAIN f.lines -> WriteOp] /\ DOMAIN f.lines \subseteq 1..(bound - 1)
  BY DEF FileOK
<1> HIDE DEF op
<1>3. DOMAIN Put(f.lines, o, op) = DOMAIN f.lines /\ Put(f.lines, o, op) \in [DOMAIN f.lines -> WriteOp]
  <2>1. DOMAIN f.lines \cup {o} = DOMAIN f.lines
    OBVIOUS
  <2>2. /\ DOMAIN Put(f.lines, o, op) = DOMAIN f.lines \cup {o}
        /\ Put(f.lines, o, op) \in [DOMAIN f.lines \cup {o} -> WriteOp]
    BY <1>1, <1>2, PutType
  <2> QED
    BY <2>1, <2>2
<1>4. Put(f.lines, o, op) \in [DOMAIN Put(f.lines, o, op) -> WriteOp] /\ DOMAIN Put(f.lines, o, op) \subseteq 1..(bound - 1)
  BY <1>2, <1>3
<1> QED
  BY <1>4 DEF op

LEMMA UpdateOpType ==
  ASSUME LogAssumption, NEW bound, NEW f, FileOK(f, bound), NEW o,
         NEW status \in Status, NEW retries \in Nat, NEW out \in UpdateOp(f, o, status, retries)
  PROVE  FileOK(out.file, bound) /\ out.res \in Results
<1> DEFINE op == [status |-> status, retry |-> f.lines[o].retry + retries]
           ops == Put(f.lines, o, op)
<1>1. CASE out = Outcome(f, "ok") \/ out = Outcome(f, "error")
  BY <1>1 DEF Outcome, Results
<1>2. CASE /\ o \in DOMAIN f.lines
           /\ out \in Then(WriteAllOps(f, ops), LAMBDA g : AutoTrim(g, ops))
  <2>2. ops \in [DOMAIN ops -> WriteOp] /\ DOMAIN ops \subseteq 1..(bound - 1)
    BY <1>2, UpdatedType
  <2> HIDE DEF ops
  <2>3. PICK s \in WriteAllOps(f, ops) :
          out \in (IF s.res = "ok" THEN AutoTrim(s.file, ops) \cup {Outcome(s.file, "crash")} ELSE {s})
    BY <1>2 DEF Then
  <2>4. FileOK(s.file, bound) /\ s.res \in Results
    BY <2>2, WriteAllOpsType
  <2>5. CASE out = s \/ out = Outcome(s.file, "crash")
    BY <2>4, <2>5 DEF Outcome, Results
  <2>6. CASE out \in AutoTrim(s.file, ops)
    BY <2>2, <2>4, <2>6, AutoTrimType
  <2> QED
    BY <2>3, <2>5, <2>6
<1> QED
  BY <1>1, <1>2 DEF UpdateOp, If

LEMMA AppendLineType ==
  ASSUME LogAssumption, NEW o \in Nat \ {0}, NEW f, FileOK(f, o), NEW out \in AppendLine(f, o)
  PROVE  FileOK(out.file, o + 1) /\ out.res \in Results
<1> DEFINE new == Put(f.lines, o, [status |-> "pending", retry |-> 0])
           parsed == IF f.torn THEN f.lines ELSE new
<1>1. FileOK(f, o + 1)
  BY DEF FileOK
<1>2. [status |-> "pending", retry |-> 0] \in WriteOp
  BY DEF WriteOp, Status
<1>3. new \in [DOMAIN new -> WriteOp] /\ DOMAIN new \subseteq 1..((o + 1) - 1)
  <2>1. f.lines \in [DOMAIN f.lines -> WriteOp] /\ DOMAIN f.lines \subseteq 1..(o - 1)
    BY DEF FileOK
  <2>2. DOMAIN new = DOMAIN f.lines \cup {o} /\ new \in [DOMAIN f.lines \cup {o} -> WriteOp]
    BY <1>2, <2>1, PutType
  <2> QED
    BY <2>1, <2>2
<1>4. parsed \in [DOMAIN parsed -> WriteOp] /\ DOMAIN parsed \subseteq 1..((o + 1) - 1)
  BY <1>1, <1>3 DEF FileOK
<1> HIDE DEF parsed
<1>5. FileOK(File(parsed, FALSE, f.archives, f.made), o + 1)
  BY <1>1, <1>4, FileType DEF FileOK
<1>6. FileOK(File(f.lines, TRUE, f.archives, f.made), o + 1)
  BY <1>1, FileType DEF FileOK
<1>7. \/ out = Outcome(File(parsed, FALSE, f.archives, f.made), "ok")
      \/ out = Outcome(f, "error")
      \/ \E r \in Results : out = Outcome(File(f.lines, TRUE, f.archives, f.made), r)
  BY DEF AppendLine, If, Results, parsed
<1>8. CASE out = Outcome(File(parsed, FALSE, f.archives, f.made), "ok")
  BY <1>5, <1>8 DEF Outcome, Results
<1>9. CASE out = Outcome(f, "error")
  BY <1>1, <1>9 DEF Outcome, Results
<1>10. CASE \E r \in Results : out = Outcome(File(f.lines, TRUE, f.archives, f.made), r)
  <2>1. PICK r \in Results : out = Outcome(File(f.lines, TRUE, f.archives, f.made), r)
    BY <1>10
  <2>2. out.file = File(f.lines, TRUE, f.archives, f.made) /\ out.res = r
    BY <2>1 DEF Outcome
  <2> QED
    BY <1>6, <2>2
<1> QED
  BY <1>7, <1>8, <1>9, <1>10

LEMMA AppendOpType ==
  ASSUME LogAssumption, NEW o \in Nat \ {0}, NEW f, FileOK(f, o), NEW out \in AppendOp(f, o)
  PROVE  FileOK(out.file, o + 1) /\ out.res \in Results
<1> DEFINE appended == Then(CheckRotate(f), LAMBDA g : AppendLine(g, o))
<1>1. ASSUME NEW s \in appended PROVE FileOK(s.file, o + 1) /\ s.res \in Results
  <2>1. PICK r \in CheckRotate(f) :
          s \in (IF r.res = "ok" THEN AppendLine(r.file, o) \cup {Outcome(r.file, "crash")} ELSE {r})
    BY <1>1 DEF Then
  <2>2. FileOK(r.file, o) /\ r.res \in Results
    BY CheckRotateType
  <2>3. FileOK(r.file, o + 1)
    BY <2>2 DEF FileOK
  <2>4. CASE s = r \/ s = Outcome(r.file, "crash")
    BY <2>2, <2>3, <2>4 DEF Outcome, Results
  <2>5. CASE s \in AppendLine(r.file, o)
    BY <2>2, <2>5, AppendLineType
  <2> QED
    BY <2>1, <2>4, <2>5
<1>2. PICK s \in appended :
        out \in (IF s.res = "ok"
                 THEN (AutoTrim(s.file, s.file.lines) \cup If("read_fails", {Outcome(s.file, "error")}))
                      \cup {Outcome(s.file, "crash")}
                 ELSE {s})
  BY DEF AppendOp, Then
<1> HIDE DEF appended
<1>3. FileOK(s.file, o + 1) /\ s.res \in Results
  BY <1>1
<1>4. CASE out = s \/ out = Outcome(s.file, "crash") \/ out = Outcome(s.file, "error")
  BY <1>3, <1>4 DEF Outcome, Results
<1>5. CASE out \in AutoTrim(s.file, s.file.lines)
  BY <1>3, <1>5, AutoTrimType DEF FileOK
<1> QED
  BY <1>2, <1>4, <1>5 DEF If
-----------------------------------------------------------------------------
(* Type correctness of the log, under every fault                          *)

LEMMA ContinueType ==
  ASSUME NEW out, NEW run \in SUBSET (1..MaxOps), NEW left \in SUBSET (1..MaxOps),
         NEW cur \in SUBSET (1..MaxOps), TypeOK, Continue(out, run, left, cur)
  PROVE  /\ file' = out.file
         /\ phase' \in {"down", "recovering", "serving"}
         /\ running' \subseteq 1..MaxOps /\ todo' \subseteq 1..MaxOps /\ replaying' \subseteq 1..MaxOps
BY DEF Continue, TypeOK

\* The invariant's first part, under the name that the lemmas above use.
LEMMA TypeOKFile ==
  TypeOK <=> /\ FileOK(file, next)
             /\ phase \in {"down", "recovering", "serving"}
             /\ running \subseteq 1..MaxOps /\ todo \subseteq 1..MaxOps /\ replaying \subseteq 1..MaxOps
             /\ next \in 1..(MaxOps + 1)
BY DEF TypeOK, FileOK

LEMMA InitType == LogAssumption /\ Init => TypeOK
<1> SUFFICES ASSUME LogAssumption, Init PROVE TypeOK
  OBVIOUS
<1> DEFINE lines == [o \in {} |-> [status |-> "pending", retry |-> 0]]
           archives == [n \in {} |-> 0]
<1>1. lines \in [DOMAIN lines -> WriteOp] /\ DOMAIN lines = {}
  OBVIOUS
<1>2. archives \in [DOMAIN archives -> 1..0] /\ DOMAIN archives = {}
  OBVIOUS
<1>3. file = File(lines, FALSE, archives, 0)
  BY DEF Init
<1> HIDE DEF lines, archives
<1>4. FileOK(file, 1)
  BY <1>1, <1>2, <1>3, FileType
<1>5. phase = "down" /\ running = {} /\ todo = {} /\ replaying = {} /\ next = 1
  BY DEF Init
<1> QED
  BY <1>4, <1>5, TypeOKFile DEF LogAssumption

\* A step that updates one record of the log and continues is well-typed.
LEMMA UpdateStepType ==
  ASSUME LogAssumption, TypeOK, UNCHANGED next, NEW o,
         NEW status \in Status, NEW retries \in Nat, NEW out \in UpdateOp(file, o, status, retries),
         NEW run \in SUBSET (1..MaxOps), NEW left \in SUBSET (1..MaxOps), NEW cur \in SUBSET (1..MaxOps),
         Continue(out, run, left, cur)
  PROVE  TypeOK'
<1>1. FileOK(file, next)
  BY TypeOKFile
<1>2. FileOK(out.file, next)
  BY <1>1, UpdateOpType
<1>3. FileOK(file, next)'
  BY <1>2, ContinueType DEF FileOK
<1> QED
  BY <1>3, ContinueType DEF TypeOK, FileOK

LEMMA NextType == LogAssumption /\ TypeOK /\ [Next]_vars => TypeOK'
<1> SUFFICES ASSUME LogAssumption, TypeOK, [Next]_vars PROVE TypeOK'
  OBVIOUS
<1>0. FileOK(file, next) /\ next \in Nat \ {0}
  BY TypeOKFile DEF LogAssumption
<1>s. "in_progress" \in Status /\ "completed" \in Status /\ "failed" \in Status
  BY DEF Status
<1>1. CASE Enter
  <2>1. PICK out \in Then(AppendOp(file, next), LAMBDA g : UpdateOp(g, next, "in_progress", 0)) :
          Continue(out, IF out.res = "ok" THEN running \cup {next} ELSE running, todo, replaying)
    BY <1>1 DEF Enter
  <2>2. PICK s \in AppendOp(file, next) :
          out \in (IF s.res = "ok" THEN UpdateOp(s.file, next, "in_progress", 0) \cup {Outcome(s.file, "crash")}
                   ELSE {s})
    BY <2>1 DEF Then
  <2>3. FileOK(s.file, next + 1)
    BY <1>0, AppendOpType
  <2>4. FileOK(out.file, next + 1)
    <3>1. CASE out = s \/ out = Outcome(s.file, "crash")
      BY <2>3, <3>1 DEF Outcome
    <3>2. CASE out \in UpdateOp(s.file, next, "in_progress", 0)
      BY <1>s, <2>3, <3>2, UpdateOpType
    <3> QED
      BY <2>2, <3>1, <3>2
  <2>5. next' = next + 1 /\ next' \in 1..(MaxOps + 1) /\ next \in 1..MaxOps
    BY <1>1, <1>0 DEF Enter, LogAssumption
  <2>6. (IF out.res = "ok" THEN running \cup {next} ELSE running) \in SUBSET (1..MaxOps)
    BY <2>5 DEF TypeOK
  <2>7. todo \in SUBSET (1..MaxOps) /\ replaying \in SUBSET (1..MaxOps)
    BY DEF TypeOK
  <2>8. /\ file' = out.file
        /\ phase' \in {"down", "recovering", "serving"}
        /\ running' \subseteq 1..MaxOps /\ todo' \subseteq 1..MaxOps /\ replaying' \subseteq 1..MaxOps
    BY <2>1, <2>6, <2>7, ContinueType
  <2> QED
    BY <2>4, <2>5, <2>8 DEF TypeOK, FileOK
<1>2. ASSUME NEW o \in 1..MaxOps, Exit(o) PROVE TypeOK'
  <2>1. PICK s \in {"completed", "failed"} : \E out \in UpdateOp(file, o, s, 0) :
          Continue(out, running \ {o}, todo, replaying)
    BY <1>2 DEF Exit
  <2>2. running \ {o} \in SUBSET (1..MaxOps) /\ todo \in SUBSET (1..MaxOps) /\ replaying \in SUBSET (1..MaxOps)
    BY DEF TypeOK
  <2> QED
    BY <1>2, <1>s, <2>1, <2>2, UpdateStepType DEF Exit
<1>3. ASSUME NEW o \in 1..MaxOps, Bump(o) PROVE TypeOK'
  <2>1. running \in SUBSET (1..MaxOps) /\ todo \in SUBSET (1..MaxOps) /\ replaying \in SUBSET (1..MaxOps)
    BY DEF TypeOK
  <2> QED
    BY <1>3, <1>s, <2>1, UpdateStepType DEF Bump
<1>4. CASE Cleanup
  <2>1. PICK age \in 1..MaxOps :
          LET old == {o \in DOMAIN file.lines \ Live(file.lines) : o <= age} IN
          \E out \in WriteAllOps(file, Restrict(file.lines, DOMAIN file.lines \ old)) :
            Continue(out, running, todo, replaying)
    BY <1>4 DEF Cleanup
  <2> DEFINE old == {o \in DOMAIN file.lines \ Live(file.lines) : o <= age}
             ops == Restrict(file.lines, DOMAIN file.lines \ old)
  <2>2. ops \in [DOMAIN ops -> WriteOp] /\ DOMAIN ops \subseteq 1..(next - 1)
    BY <1>0, RestrictType DEF FileOK
  <2>3. PICK out \in WriteAllOps(file, ops) : Continue(out, running, todo, replaying)
    BY <2>1
  <2> HIDE DEF ops
  <2>4. FileOK(out.file, next)
    BY <1>0, <2>2, WriteAllOpsType
  <2>5. running \in SUBSET (1..MaxOps) /\ todo \in SUBSET (1..MaxOps) /\ replaying \in SUBSET (1..MaxOps)
    BY DEF TypeOK
  <2>6. next' = next
    BY <1>4 DEF Cleanup
  <2>7. /\ file' = out.file
        /\ phase' \in {"down", "recovering", "serving"}
        /\ running' \subseteq 1..MaxOps /\ todo' \subseteq 1..MaxOps /\ replaying' \subseteq 1..MaxOps
    BY <2>3, <2>5, ContinueType
  <2> QED
    BY <2>4, <2>6, <2>7 DEF TypeOK, FileOK
<1>5. CASE Crash
  BY <1>5 DEF Crash, TypeOK
<1>6. CASE Restart
  <2>1. Recoverable(file.lines, MaxReplays) \subseteq 1..MaxOps
    BY DEF Recoverable, TypeOK, LogAssumption
  <2> QED
    BY <1>6, <2>1 DEF Restart, TypeOK
<1>7. ASSUME NEW o \in 1..MaxOps, ReplayStart(o) PROVE TypeOK'
  <2>1. PICK out \in UpdateOp(file, o, "in_progress", 1) :
          IF out.res = "error" THEN Continue(out, running, {}, {})
                               ELSE Continue(out, running, todo \ {o}, {o})
    BY <1>7 DEF ReplayStart
  <2>2. /\ running \in SUBSET (1..MaxOps) /\ todo \ {o} \in SUBSET (1..MaxOps)
        /\ {} \in SUBSET (1..MaxOps) /\ {o} \in SUBSET (1..MaxOps)
    BY DEF TypeOK
  <2>3. next' = next
    BY <1>7 DEF ReplayStart
  <2> QED
    BY <1>s, <2>1, <2>2, <2>3, UpdateStepType
<1>8. ASSUME NEW o \in 1..MaxOps, ReplayEnd(o) PROVE TypeOK'
  <2> DEFINE succeeded == UpdateOp(file, o, "completed", 0)
  <2>1. PICK out : /\ \/ out \in succeeded
                      \/ out \in UpdateOp(file, o, "failed", 0)
                      \/ \E s \in succeeded : out \in UpdateOp(s.file, o, "failed", 0)
                   /\ Continue(out, running, IF out.res = "error" THEN {} ELSE todo, {})
    BY <1>8 DEF ReplayEnd
  <2>2. FileOK(out.file, next)
    BY <1>0, <1>s, <2>1, UpdateOpType
  <2>3. /\ running \in SUBSET (1..MaxOps) /\ {} \in SUBSET (1..MaxOps)
        /\ (IF out.res = "error" THEN {} ELSE todo) \in SUBSET (1..MaxOps)
    BY DEF TypeOK
  <2>4. next' = next
    BY <1>8 DEF ReplayEnd
  <2>5. /\ file' = out.file
        /\ phase' \in {"down", "recovering", "serving"}
        /\ running' \subseteq 1..MaxOps /\ todo' \subseteq 1..MaxOps /\ replaying' \subseteq 1..MaxOps
    BY <2>1, <2>3, ContinueType
  <2> QED
    BY <2>2, <2>4, <2>5 DEF TypeOK, FileOK
<1>9. CASE RecoveryDone
  BY <1>9 DEF RecoveryDone, TypeOK
<1>10. CASE UNCHANGED vars
  BY <1>10 DEF vars, TypeOK
<1> QED
  BY <1>1, <1>2, <1>3, <1>4, <1>5, <1>6, <1>7, <1>8, <1>9, <1>10 DEF Next

\* The log is well-formed in every reachable state, whatever faults happen.
THEOREM LogTypeCorrect == Spec => []TypeOK
<1>1. LogAssumption
  BY LogAssumption
<1> QED
  BY <1>1, InitType, NextType, PTL DEF Spec

-----------------------------------------------------------------------------
(* What a method leaves of the log when a failing write changes nothing    *)

\* No call of the logger damages the log and returns: what is written in part
\* is written by a process that dies, or is one line.
Sound == Faults \cap {"restore_fails", "rewrite_cut"} = {}

\* Nothing leaves a fragment of a line.
Benign == Faults \subseteq BenignFaults

LEMMA BenignSound == Benign => Sound
BY DEF Benign, Sound, BenignFaults

\* What is left of a log: a process that died has lost at most the newest records.
Leaves(r, before, after) == IF r = "crash" THEN Truncates(before, after) ELSE Forgets(before, after)

LEMMA ForgetsLeaves ==
  ASSUME NEW r, NEW a, NEW b, Forgets(a, b)
  PROVE  Leaves(r, a, b)
BY ForgetsTruncates DEF Leaves

LEMMA LeavesAfter ==
  ASSUME NEW r, NEW a, NEW b, NEW c, Forgets(a, b), Leaves(r, b, c)
  PROVE  Leaves(r, a, c)
BY ForgetsTransitive, TruncatesAfter DEF Leaves

\* A file that ends with a complete line, and will.
Whole(f) == Benign /\ ~ f.torn

LEMMA CutShortLeaves ==
  ASSUME NEW f, NEW ops, NEW bound, DOMAIN ops \subseteq 1..(bound - 1), NEW out \in CutShort(f, ops, "crash")
  PROVE  out.res = "crash" /\ Truncates(ops, out.file.lines) /\ (Benign => ~ out.file.torn)
<1>1. PICK k \in 0..MaxOps : \E t \in {FALSE} \cup If("write_torn", {TRUE}) :
        out = Outcome(File(Restrict(ops, {o \in DOMAIN ops : o <= k}), t, f.archives, f.made), "crash")
  BY DEF CutShort
<1>2. PICK t \in {FALSE} \cup If("write_torn", {TRUE}) :
        out = Outcome(File(Restrict(ops, {o \in DOMAIN ops : o <= k}), t, f.archives, f.made), "crash")
  BY <1>1
<1>3. Truncates(ops, Restrict(ops, {o \in DOMAIN ops : o <= k}))
  BY PrefixTruncates
<1>4. Benign => ~ t
  BY DEF Benign, BenignFaults, If
<1> QED
  BY <1>2, <1>3, <1>4 DEF Outcome, File

LEMMA RotateLogLeaves ==
  ASSUME Sound, NEW bound, NEW f, FileOK(f, bound), NEW out \in RotateLog(f)
  PROVE  /\ out.res \in {"ok", "crash"} /\ Leaves(out.res, f.lines, out.file.lines)
         /\ out.res = "ok" /\ ~ f.torn => ~ out.file.torn
         /\ Whole(f) => Whole(out.file)
<1> DEFINE kept == Carried(f.lines)
           Moved(n) == File(f.lines, f.torn, Put(f.archives, n, f.made + 1), f.made + 1)
<1>1. Forgets(f.lines, kept)
  BY RestrictForgets DEF Carried, Live
<1>2. DOMAIN kept \subseteq 1..(bound - 1)
  BY <1>1 DEF Forgets, FileOK
<1>3. CASE out = Outcome(f, "ok")
  BY <1>3, ForgetsReflexive, ForgetsLeaves DEF Outcome
<1>4. CASE \E a : out = Outcome(File(kept, FALSE, a, f.made + 1), "ok")
  BY <1>1, <1>4, ForgetsLeaves DEF Outcome, File, Whole
<1>5. CASE \E n \in FirstFree(f.archives) : out \in CutShort(Moved(n), kept, "crash")
  <2>1. out.res = "crash" /\ Truncates(kept, out.file.lines) /\ (Benign => ~ out.file.torn)
    <3> HIDE DEF kept, Moved
    <3> QED
      BY <1>2, <1>5, CutShortLeaves
  <2> QED
    BY <1>1, <2>1, TruncatesAfter DEF Leaves, Whole
<1>6. "restore_fails" \notin Faults
  BY DEF Sound
<1> QED
  BY <1>3, <1>4, <1>5, <1>6 DEF RotateLog, If

LEMMA CheckRotateLeaves ==
  ASSUME Sound, NEW bound, NEW f, FileOK(f, bound), NEW out \in CheckRotate(f)
  PROVE  /\ out.res \in {"ok", "crash"} /\ Leaves(out.res, f.lines, out.file.lines)
         /\ out.res = "ok" /\ ~ f.torn => ~ out.file.torn
         /\ Whole(f) => Whole(out.file)
<1>1. CASE out = Outcome(f, "ok")
  BY <1>1, ForgetsReflexive, ForgetsLeaves DEF Outcome
<1>2. CASE out \in RotateLog(f)
  BY <1>2, RotateLogLeaves
<1> QED
  BY <1>1, <1>2 DEF CheckRotate

\* A write of the whole log is complete, or the process died before its end.
LEMMA WriteAllOpsLeaves ==
  ASSUME Sound, NEW bound, NEW f, FileOK(f, bound),
         NEW ops, DOMAIN ops \subseteq 1..(bound - 1), NEW out \in WriteAllOps(f, ops)
  PROVE  /\ \/ out.res = "ok" /\ out.file.lines = ops /\ ~ out.file.torn
            \/ out.res = "crash" /\ Truncates(f.lines, out.file.lines)
            \/ out.res = "crash" /\ Truncates(ops, out.file.lines)
         /\ Whole(f) => Whole(out.file)
<1>1. PICK s \in CheckRotate(f) :
        out \in (IF s.res = "ok" THEN Overwrite(s.file, ops) \cup {Outcome(s.file, "crash")} ELSE {s})
  BY DEF WriteAllOps, Then
<1>2. /\ s.res \in {"ok", "crash"} /\ Leaves(s.res, f.lines, s.file.lines)
      /\ Whole(f) => Whole(s.file)
  BY CheckRotateLeaves
<1>3. "rewrite_cut" \notin Faults
  BY DEF Sound
<1>4. \/ s.res = "crash" /\ out = s
      \/ s.res = "ok" /\ out = Outcome(s.file, "crash")
      \/ out = Outcome(File(ops, FALSE, s.file.archives, s.file.made), "ok")
      \/ out \in CutShort(s.file, ops, "crash")
  BY <1>1, <1>2, <1>3 DEF Overwrite, If
<1>5. CASE s.res = "crash" /\ out = s
  BY <1>2, <1>5 DEF Leaves
<1>6. CASE s.res = "ok" /\ out = Outcome(s.file, "crash")
  BY <1>2, <1>6, ForgetsTruncates DEF Leaves, Outcome
<1>7. CASE out = Outcome(File(ops, FALSE, s.file.archives, s.file.made), "ok")
  BY <1>7 DEF Outcome, File, Whole
<1>8. CASE out \in CutShort(s.file, ops, "crash")
  BY <1>8, CutShortLeaves DEF Whole
<1> QED
  BY <1>4, <1>5, <1>6, <1>7, <1>8

LEMMA AutoTrimLeaves ==
  ASSUME Sound, NEW bound, NEW f, FileOK(f, bound), NEW out \in AutoTrim(f, f.lines)
  PROVE  /\ out.res # "error" /\ Leaves(out.res, f.lines, out.file.lines)
         /\ Whole(f) => Whole(out.file)
<1>1. CASE out = Outcome(f, "ok")
  BY <1>1, ForgetsReflexive, ForgetsLeaves DEF Outcome
<1>2. CASE out \in WriteAllOps(f, Trimmed(f.lines))
  <2>1. f.lines \in [DOMAIN f.lines -> WriteOp] /\ DOMAIN f.lines \subseteq 1..(bound - 1)
    BY DEF FileOK
  <2>2. Forgets(f.lines, Trimmed(f.lines)) /\ DOMAIN Trimmed(f.lines) \subseteq 1..(bound - 1)
    BY <2>1, TrimmedType
  <2>3. /\ \/ out.res = "ok" /\ out.file.lines = Trimmed(f.lines)
           \/ out.res = "crash" /\ Truncates(f.lines, out.file.lines)
           \/ out.res = "crash" /\ Truncates(Trimmed(f.lines), out.file.lines)
        /\ Whole(f) => Whole(out.file)
    BY <1>2, <2>2, WriteAllOpsLeaves
  <2> QED
    BY <2>2, <2>3, TruncatesAfter DEF Leaves
<1> QED
  BY <1>1, <1>2 DEF AutoTrim

\* An update of one record happens, or the process died before it, or the log
\* is as it was: reading it failed, or it has no such record.
LEMMA UpdateOpLeaves ==
  ASSUME LogAssumption, Sound, NEW bound, NEW f, FileOK(f, bound), NEW o,
         NEW status \in Status, NEW retries \in Nat, NEW out \in UpdateOp(f, o, status, retries)
  PROVE  /\ \/ out.file = f /\ (out.res = "error" \/ o \notin DOMAIN f.lines)
            \/ out.res = "crash" /\ Truncates(f.lines, out.file.lines)
            \/ /\ out.res # "error" /\ o \in DOMAIN f.lines
               /\ Leaves(out.res, Put(f.lines, o, [status |-> status, retry |-> f.lines[o].retry + retries]),
                         out.file.lines)
         /\ Whole(f) => Whole(out.file)
<1> DEFINE op == [status |-> status, retry |-> f.lines[o].retry + retries]
           ops == Put(f.lines, o, op)
<1>1. CASE out = Outcome(f, "error") \/ (o \notin DOMAIN f.lines /\ out = Outcome(f, "ok"))
  BY <1>1 DEF Outcome
<1>2. CASE /\ o \in DOMAIN f.lines
           /\ out \in Then(WriteAllOps(f, ops), LAMBDA g : AutoTrim(g, ops))
  <2>2. ops \in [DOMAIN ops -> WriteOp] /\ DOMAIN ops \subseteq 1..(bound - 1)
    BY <1>2, UpdatedType
  <2> HIDE DEF ops
  <2>3. PICK s \in WriteAllOps(f, ops) :
          out \in (IF s.res = "ok" THEN AutoTrim(s.file, ops) \cup {Outcome(s.file, "crash")} ELSE {s})
    BY <1>2 DEF Then
  <2>4. FileOK(s.file, bound)
    BY <2>2, WriteAllOpsType
  <2>5. /\ \/ s.res = "ok" /\ s.file.lines = ops
           \/ s.res = "crash" /\ Truncates(f.lines, s.file.lines)
           \/ s.res = "crash" /\ Truncates(ops, s.file.lines)
        /\ Whole(f) => Whole(s.file)
    BY <2>2, WriteAllOpsLeaves
  <2>6. CASE s.res = "crash"
    BY <1>2, <2>3, <2>5, <2>6 DEF Leaves, ops
  <2>7. CASE s.res = "ok" /\ out = Outcome(s.file, "crash")
    <3>1. Leaves(out.res, ops, out.file.lines) /\ out.res # "error" /\ out.file = s.file
      BY <2>5, <2>7, ForgetsReflexive, ForgetsLeaves DEF Outcome
    <3> QED
      BY <1>2, <2>5, <3>1 DEF ops
  <2>8. CASE s.res = "ok" /\ out \in AutoTrim(s.file, ops)
    <3>1. /\ out.res # "error" /\ Leaves(out.res, ops, out.file.lines)
          /\ Whole(s.file) => Whole(out.file)
      BY <2>4, <2>5, <2>8, AutoTrimLeaves
    <3> QED
      BY <1>2, <2>5, <3>1 DEF ops
  <2> QED
    BY <2>3, <2>5, <2>6, <2>7, <2>8
<1> QED
  BY <1>1, <1>2 DEF UpdateOp, If

Fresh == [status |-> "pending", retry |-> 0]

\* An append adds the new record, or raised or died before it.  Only after a
\* fragment of a line can it return without adding it.
LEMMA AppendOpLeaves ==
  ASSUME LogAssumption, Sound, NEW o \in Nat \ {0}, NEW f, FileOK(f, o), NEW out \in AppendOp(f, o)
  PROVE  /\ \/ (out.res = "ok" => f.torn) /\ Leaves(out.res, f.lines, out.file.lines)
            \/ Leaves(out.res, Put(f.lines, o, Fresh), out.file.lines)
         /\ Whole(f) => Whole(out.file)
<1> DEFINE appended == Then(CheckRotate(f), LAMBDA g : AppendLine(g, o))
           Kept(s, r) == (r = "ok" => f.torn) /\ Leaves(s.res, f.lines, s.file.lines)
           Added(s) == Leaves(s.res, Put(f.lines, o, Fresh), s.file.lines)
<1>1. ASSUME NEW s \in appended
      PROVE  FileOK(s.file, o + 1) /\ (Whole(f) => Whole(s.file)) /\ (Kept(s, s.res) \/ Added(s))
  <2>1. PICK r \in CheckRotate(f) :
          s \in (IF r.res = "ok" THEN AppendLine(r.file, o) \cup {Outcome(r.file, "crash")} ELSE {r})
    BY <1>1 DEF Then
  <2>2. /\ FileOK(r.file, o) /\ r.res \in {"ok", "crash"} /\ Leaves(r.res, f.lines, r.file.lines)
        /\ r.res = "ok" /\ ~ f.torn => ~ r.file.torn
        /\ Whole(f) => Whole(r.file)
    BY CheckRotateType, CheckRotateLeaves
  <2>3. FileOK(r.file, o + 1)
    BY <2>2 DEF FileOK
  <2>4. CASE r.res = "crash" /\ s = r
    BY <2>2, <2>3, <2>4
  <2>5. CASE r.res = "ok" /\ (s = Outcome(r.file, "crash") \/ s = Outcome(r.file, "error"))
    <3>1. Forgets(f.lines, r.file.lines) /\ s.file = r.file /\ s.res # "ok"
      BY <2>2, <2>5 DEF Leaves, Outcome
    <3> QED
      BY <2>2, <2>3, <3>1, ForgetsLeaves
  <2>6. CASE r.res = "ok" /\ s \in AppendLine(r.file, o)
    <3>1. FileOK(s.file, o + 1) /\ Forgets(f.lines, r.file.lines)
      BY <2>2, <2>6, AppendLineType DEF Leaves
    <3>2. CASE s = Outcome(File(Put(r.file.lines, o, Fresh), FALSE, r.file.archives, r.file.made), "ok")
      <4>1. Forgets(Put(f.lines, o, Fresh), Put(r.file.lines, o, Fresh))
        BY <3>1 DEF Forgets, Put, Live
      <4>2. s.res = "ok" /\ s.file.lines = Put(r.file.lines, o, Fresh) /\ ~ s.file.torn
        BY <3>2 DEF Outcome, File
      <4> QED
        BY <3>1, <4>1, <4>2, ForgetsLeaves DEF Whole
    <3>3. CASE r.file.torn /\ s = Outcome(File(r.file.lines, FALSE, r.file.archives, r.file.made), "ok")
      <4>1. s.res = "ok" /\ s.file.lines = r.file.lines /\ ~ s.file.torn
        BY <3>3 DEF Outcome, File
      <4> QED
        BY <2>2, <2>6, <3>1, <3>3, <4>1, ForgetsLeaves DEF Whole
    <3>4. CASE s = Outcome(r.file, "error")
      BY <2>5, <2>6, <3>4
    <3>5. CASE /\ "append_torn" \in Faults
               /\ \E x \in {"error", "crash"} :
                    s = Outcome(File(r.file.lines, TRUE, r.file.archives, r.file.made), x)
      <4>1. s.res # "ok" /\ s.file.lines = r.file.lines /\ ~ Benign
        BY <3>5 DEF Outcome, File, Benign, BenignFaults
      <4> QED
        BY <3>1, <4>1, ForgetsLeaves DEF Whole
    <3> QED
      BY <2>6, <3>2, <3>3, <3>4, <3>5 DEF AppendLine, If, Fresh
  <2> QED
    BY <2>1, <2>2, <2>4, <2>5, <2>6
<1>2. PICK s \in appended :
        out \in (IF s.res = "ok"
                 THEN (AutoTrim(s.file, s.file.lines) \cup If("read_fails", {Outcome(s.file, "error")}))
                      \cup {Outcome(s.file, "crash")}
                 ELSE {s})
  BY DEF AppendOp, Then
<1> HIDE DEF appended
<1>3. FileOK(s.file, o + 1) /\ (Whole(f) => Whole(s.file)) /\ (Kept(s, s.res) \/ Added(s))
  BY <1>1
<1>4. CASE out = s
  BY <1>3, <1>4
<1>5. CASE s.res = "ok" /\ (out = Outcome(s.file, "crash") \/ out = Outcome(s.file, "error"))
  <2>1. \/ f.torn /\ Forgets(f.lines, s.file.lines)
        \/ Forgets(Put(f.lines, o, Fresh), s.file.lines)
    BY <1>3, <1>5 DEF Leaves
  <2>2. out.file = s.file /\ out.res # "ok"
    BY <1>5 DEF Outcome
  <2> QED
    BY <1>3, <2>1, <2>2, ForgetsLeaves
<1>6. CASE s.res = "ok" /\ out \in AutoTrim(s.file, s.file.lines)
  <2>1. \/ f.torn /\ Forgets(f.lines, s.file.lines)
        \/ Forgets(Put(f.lines, o, Fresh), s.file.lines)
    BY <1>3, <1>6 DEF Leaves
  <2>2. Leaves(out.res, s.file.lines, out.file.lines) /\ (Whole(s.file) => Whole(out.file))
    BY <1>3, <1>6, AutoTrimLeaves
  <2> QED
    BY <1>3, <2>1, <2>2, LeavesAfter
<1> QED
  BY <1>2, <1>4, <1>5, <1>6 DEF If

-----------------------------------------------------------------------------
(* What a step of the process leaves of the log                            *)

\* The other unfinished operations are kept as they are by what a method leaves.
LEMMA ForgetsKeeps ==
  ASSUME NEW before, NEW after, Forgets(before, after), NEW p \in Live(before)
  PROVE  p \in Live(after) /\ after[p] = before[p]
BY DEF Forgets, Live

LEMMA PutKeeps ==
  ASSUME NEW ops, NEW o, NEW op, NEW p \in Live(ops), p # o
  PROVE  p \in Live(Put(ops, o, op)) /\ Put(ops, o, op)[p] = ops[p]
BY DEF Live, Put

\* A method that returns or raises keeps the unfinished operations but o.
Keeps(f, o, out) ==
  /\ Whole(f) => Whole(out.file)
  /\ out.res # "crash" =>
       \A p \in Live(f.lines) \ {o} : p \in Live(out.file.lines) /\ out.file.lines[p] = f.lines[p]

InProgress(f, o) == o \in DOMAIN f.lines /\ f.lines[o].status = "in_progress"

\* An update of o leaves every other unfinished operation as it was, and, if
\* it returned and started o, o is in progress.
LEMMA UpdateOpKeeps ==
  ASSUME LogAssumption, Sound, NEW bound, NEW f, FileOK(f, bound), NEW o,
         NEW status \in Status, NEW retries \in Nat, NEW out \in UpdateOp(f, o, status, retries)
  PROVE  /\ Keeps(f, o, out)
         /\ status = "in_progress" /\ out.res = "ok" /\ o \in DOMAIN f.lines => InProgress(out.file, o)
<1> DEFINE op == [status |-> status, retry |-> f.lines[o].retry + retries]
           ops == Put(f.lines, o, op)
<1>2. op.status = status
  OBVIOUS
<1> HIDE DEF op
<1>3. ops[o] = op /\ o \in DOMAIN ops
  BY DEF Put
<1>4. \A p \in Live(f.lines) \ {o} : p \in Live(ops) /\ ops[p] = f.lines[p]
  BY PutKeeps
<1>5. status = "in_progress" => o \in Live(ops)
  BY <1>2, <1>3 DEF Live, IsTerminal
<1> HIDE DEF ops
<1>6. /\ Whole(f) => Whole(out.file)
      /\ \/ out.file = f /\ (out.res = "error" \/ o \notin DOMAIN f.lines)
         \/ out.res = "crash"
         \/ out.res # "error" /\ o \in DOMAIN f.lines /\ Leaves(out.res, ops, out.file.lines)
  BY UpdateOpLeaves DEF op, ops
<1>7. CASE out.file = f /\ (out.res = "error" \/ o \notin DOMAIN f.lines)
  BY <1>6, <1>7 DEF Keeps
<1>8. CASE out.res = "crash"
  BY <1>6, <1>8 DEF Keeps
<1>9. CASE out.res # "crash" /\ Leaves(out.res, ops, out.file.lines)
  <2>1. Forgets(ops, out.file.lines)
    BY <1>9 DEF Leaves
  <2> QED
    BY <1>2, <1>3, <1>4, <1>5, <1>6, <2>1, ForgetsKeeps DEF Keeps, InProgress, Live
<1> QED
  BY <1>6, <1>7, <1>8, <1>9

\* Beginning operation o, as WriteOperation.__aenter__ does, leaves every other
\* unfinished operation as it was; if it returned, o is in progress, or its line
\* was lost in a fragment of one.
LEMMA EnterKeeps ==
  ASSUME LogAssumption, Sound, NEW o \in Nat \ {0}, NEW f, FileOK(f, o),
         NEW out \in Then(AppendOp(f, o), LAMBDA g : UpdateOp(g, o, "in_progress", 0))
  PROVE  /\ Keeps(f, o, out)
         /\ out.res = "ok" => InProgress(out.file, o) \/ (f.torn /\ o \notin DOMAIN out.file.lines)
<1>1. PICK s \in AppendOp(f, o) :
        out \in (IF s.res = "ok" THEN UpdateOp(s.file, o, "in_progress", 0) \cup {Outcome(s.file, "crash")}
                 ELSE {s})
  BY DEF Then
<1>2. FileOK(s.file, o + 1)
  BY AppendOpType
<1>3. o \notin Live(f.lines) /\ o \notin DOMAIN f.lines
  BY DEF FileOK, Live
<1>4. /\ Whole(f) => Whole(s.file)
      /\ \/ (s.res = "ok" => f.torn) /\ Leaves(s.res, f.lines, s.file.lines)
         \/ Leaves(s.res, Put(f.lines, o, Fresh), s.file.lines)
  BY AppendOpLeaves
<1>5. s.res # "crash" =>
        \A p \in Live(f.lines) : p \in Live(s.file.lines) /\ s.file.lines[p] = f.lines[p]
  BY <1>3, <1>4, ForgetsKeeps, PutKeeps DEF Leaves
<1>6. s.res = "ok" => o \in DOMAIN s.file.lines \/ (f.torn /\ o \notin DOMAIN s.file.lines)
  <2>1. o \in Live(Put(f.lines, o, Fresh))
    BY DEF Live, Put, Fresh, IsTerminal
  <2> QED
    BY <1>3, <1>4, <2>1, ForgetsKeeps DEF Live, Leaves, Forgets
<1>7. CASE s.res # "ok" /\ out = s
  BY <1>4, <1>5, <1>7 DEF Keeps
<1>8. CASE s.res = "ok" /\ out = Outcome(s.file, "crash")
  BY <1>4, <1>8 DEF Outcome, Keeps
<1>9. CASE s.res = "ok" /\ out \in UpdateOp(s.file, o, "in_progress", 0)
  <2>1. "in_progress" \in Status /\ 0 \in Nat
    BY DEF Status
  <2>2. Keeps(s.file, o, out) /\ (out.res = "ok" /\ o \in DOMAIN s.file.lines => InProgress(out.file, o))
    BY <1>2, <1>9, <2>1, UpdateOpKeeps
  <2>3. out.res = "ok" /\ o \notin DOMAIN s.file.lines => out.file = s.file
    BY <1>2, <1>9, <2>1, UpdateOpLeaves
  <2> QED
    BY <1>3, <1>4, <1>5, <1>6, <1>9, <2>2, <2>3 DEF Keeps
<1> QED
  BY <1>1, <1>7, <1>8, <1>9

\* The operations other than o that after holds are in before as they were.
Others(before, o, after) ==
  \A p \in DOMAIN after \ {o} : p \in DOMAIN before /\ after[p] = before[p]

LEMMA TruncatesOthers ==
  ASSUME NEW before, NEW o, NEW op, NEW after,
         Truncates(before, after) \/ Truncates(Put(before, o, op), after)
  PROVE  Others(before, o, after)
BY DEF Others, Truncates, Put

LEMMA ForgetsOthers ==
  ASSUME NEW before, NEW o, NEW op, NEW after, Forgets(Put(before, o, op), after)
  PROVE  /\ Others(before, o, after)
         /\ o \in DOMAIN after => after[o] = op
         /\ ~ IsTerminal(op) => o \in DOMAIN after
BY DEF Others, Forgets, Put, Live

\* An update of o leaves no other record that was not there, and if it returned,
\* the record of o, where there still is one, has the new status.
LEMMA UpdateOpOthers ==
  ASSUME LogAssumption, Sound, NEW bound, NEW f, FileOK(f, bound), NEW o,
         NEW status \in Status, NEW retries \in Nat, NEW out \in UpdateOp(f, o, status, retries)
  PROVE  /\ Others(f.lines, o, out.file.lines)
         /\ out.res = "ok" /\ o \in DOMAIN out.file.lines => out.file.lines[o].status = status
         /\ out.res = "error" => out.file = f
<1> DEFINE op == [status |-> status, retry |-> f.lines[o].retry + retries]
<1>1. op.status = status
  OBVIOUS
<1> HIDE DEF op
<1>2. \/ out.file = f /\ (out.res = "error" \/ o \notin DOMAIN f.lines)
      \/ out.res = "crash" /\ Truncates(f.lines, out.file.lines)
      \/ out.res # "error" /\ Leaves(out.res, Put(f.lines, o, op), out.file.lines)
  BY UpdateOpLeaves DEF op
<1>3. CASE out.file = f /\ (out.res = "error" \/ o \notin DOMAIN f.lines)
  BY <1>3 DEF Others
<1>4. CASE out.res = "crash" /\ Truncates(f.lines, out.file.lines)
  BY <1>4, TruncatesOthers
<1>5. CASE out.res # "error" /\ Leaves(out.res, Put(f.lines, o, op), out.file.lines)
  <2>1. CASE out.res = "crash"
    BY <1>5, <2>1, TruncatesOthers DEF Leaves
  <2>2. CASE out.res # "crash"
    <3>1. Forgets(Put(f.lines, o, op), out.file.lines)
      BY <1>5, <2>2 DEF Leaves
    <3> QED
      BY <1>1, <1>5, <3>1, ForgetsOthers
  <2> QED
    BY <2>1, <2>2
<1> QED
  BY <1>2, <1>3, <1>4, <1>5

\* Beginning o leaves no other record that was not there.
LEMMA EnterOthers ==
  ASSUME LogAssumption, Sound, NEW o \in Nat \ {0}, NEW f, FileOK(f, o),
         NEW out \in Then(AppendOp(f, o), LAMBDA g : UpdateOp(g, o, "in_progress", 0))
  PROVE  Others(f.lines, o, out.file.lines)
<1>1. PICK s \in AppendOp(f, o) :
        out \in (IF s.res = "ok" THEN UpdateOp(s.file, o, "in_progress", 0) \cup {Outcome(s.file, "crash")}
                 ELSE {s})
  BY DEF Then
<1>2. FileOK(s.file, o + 1)
  BY AppendOpType
<1>3. \/ Leaves(s.res, f.lines, s.file.lines)
      \/ Leaves(s.res, Put(f.lines, o, Fresh), s.file.lines)
  BY AppendOpLeaves
<1>4. Others(f.lines, o, s.file.lines)
  BY <1>3, TruncatesOthers, ForgetsTruncates DEF Leaves
<1>5. CASE out = s \/ out = Outcome(s.file, "crash")
  BY <1>4, <1>5 DEF Outcome
<1>6. CASE out \in UpdateOp(s.file, o, "in_progress", 0)
  <2>1. "in_progress" \in Status /\ 0 \in Nat
    BY DEF Status
  <2>2. Others(s.file.lines, o, out.file.lines)
    BY <1>2, <1>6, <2>1, UpdateOpOthers
  <2> QED
    BY <1>4, <2>2 DEF Others
<1> QED
  BY <1>1, <1>5, <1>6

-----------------------------------------------------------------------------
(* The inductive invariants                                                *)

\* An operation that a body or the replay is working on, or that is still to
\* replay, is unfinished where the log has it; bodies and the replay never run
\* together.
JInv ==
  /\ TypeOK
  /\ (running \cup todo \cup replaying) \cap DOMAIN file.lines \subseteq Live(file.lines)
  /\ running \subseteq 1..(next - 1)
  /\ running # {} => phase = "serving"
  /\ todo \cup replaying # {} => phase = "recovering"
  /\ todo \cap replaying = {}

LEMMA InitJInv == LogAssumption /\ Init => JInv
<1> SUFFICES ASSUME LogAssumption, Init PROVE JInv
  OBVIOUS
<1>1. TypeOK
  BY InitType
<1> QED
  BY <1>1 DEF JInv, Init

\* The invariant after a step that works on o and ends as Continue says.
LEMMA ContinueJInv ==
  ASSUME JInv, TypeOK', NEW o, NEW out, NEW run, NEW left, NEW cur, Continue(out, run, left, cur),
         Others(file.lines, o, out.file.lines), run \subseteq 1..(next' - 1),
         out.res # "crash" =>
           /\ run \cup left \cup cur \subseteq running \cup todo \cup replaying \cup {o}
           /\ o \in (run \cup left \cup cur) \cap DOMAIN out.file.lines => o \in Live(out.file.lines)
           /\ run # {} => phase = "serving"
           /\ left \cup cur # {} => phase = "recovering"
           /\ left \cap cur = {}
  PROVE  JInv'
<1>1. CASE out.res = "crash"
  BY <1>1 DEF JInv, Continue
<1>2. CASE out.res # "crash"
  <2>1. file' = out.file /\ running' = run /\ todo' = left /\ replaying' = cur /\ phase' = phase
    BY <1>2 DEF Continue
  <2>2. ASSUME NEW p \in (run \cup left \cup cur) \cap DOMAIN out.file.lines PROVE p \in Live(out.file.lines)
    <3>1. CASE p = o
      BY <1>2, <3>1
    <3>2. CASE p # o
      BY <1>2, <3>2 DEF JInv, Others, Live
    <3> QED
      BY <3>1, <3>2
  <2> QED
    BY <1>2, <2>1, <2>2 DEF JInv
<1> QED
  BY <1>1, <1>2

\* The replay of o ends in one update of o: where marking it completed raised,
\* the log was left as it was.
LEMMA ReplayEndOutcome ==
  ASSUME LogAssumption, Sound, FileOK(file, next), NEW o, ReplayEnd(o)
  PROVE  \E out, status :
           /\ status \in {"completed", "failed"} /\ out \in UpdateOp(file, o, status, 0)
           /\ Continue(out, running, IF out.res = "error" THEN {} ELSE todo, {})
<1> DEFINE succeeded == UpdateOp(file, o, "completed", 0)
<1>1. PICK out : /\ \/ out \in succeeded
                    \/ out \in UpdateOp(file, o, "failed", 0)
                    \/ \E s \in succeeded : s.res = "error" /\ out \in UpdateOp(s.file, o, "failed", 0)
                 /\ Continue(out, running, IF out.res = "error" THEN {} ELSE todo, {})
  BY DEF ReplayEnd
<1>2. ASSUME NEW s \in succeeded, s.res = "error" PROVE s.file = file
  <2>1. "completed" \in Status /\ 0 \in Nat
    BY DEF Status
  <2> QED
    BY <1>2, <2>1, UpdateOpOthers
<1> QED
  BY <1>1, <1>2

LEMMA NextJInv == LogAssumption /\ Sound /\ JInv /\ [Next]_vars => JInv'
<1> SUFFICES ASSUME LogAssumption, Sound, JInv, [Next]_vars PROVE JInv'
  OBVIOUS
<1>t. TypeOK'
  BY NextType DEF JInv
<1>f. FileOK(file, next) /\ next \in Nat \ {0}
  BY TypeOKFile DEF LogAssumption, JInv
<1>s. "in_progress" \in Status /\ "completed" \in Status /\ "failed" \in Status /\ 0 \in Nat /\ 1 \in Nat
  BY DEF Status
<1>1. CASE Enter
  <2>1. PICK out \in Then(AppendOp(file, next), LAMBDA g : UpdateOp(g, next, "in_progress", 0)) :
          Continue(out, IF out.res = "ok" THEN running \cup {next} ELSE running, todo, replaying)
    BY <1>1 DEF Enter
  <2> DEFINE run == IF out.res = "ok" THEN running \cup {next} ELSE running
  <2>2. Others(file.lines, next, out.file.lines)
    BY <1>f, EnterOthers
  <2>3. out.res = "ok" => next \in Live(out.file.lines) \/ next \notin DOMAIN out.file.lines
    BY <1>f, EnterKeeps DEF InProgress, Live, IsTerminal
  <2>4. phase = "serving" /\ todo = {} /\ replaying = {} /\ next' = next + 1
    BY <1>1 DEF Enter, JInv
  <2>5. next \notin running /\ running \subseteq 1..next
    BY <1>f DEF JInv
  <2>6. /\ run \subseteq running \cup {next} /\ run \subseteq 1..(next' - 1)
        /\ next \in run => out.res = "ok"
    BY <1>f, <2>4, <2>5
  <2> HIDE DEF run
  <2>7. Continue(out, run, {}, {}) /\ todo = {} /\ replaying = {}
    BY <2>1, <2>4 DEF run
  <2> QED
    BY <1>t, <2>2, <2>3, <2>4, <2>6, <2>7, ContinueJInv
<1>2. ASSUME NEW o \in 1..MaxOps, Exit(o) PROVE JInv'
  <2>1. PICK s \in {"completed", "failed"} : \E out \in UpdateOp(file, o, s, 0) :
          Continue(out, running \ {o}, todo, replaying)
    BY <1>2 DEF Exit
  <2>2. PICK out \in UpdateOp(file, o, s, 0) : Continue(out, running \ {o}, todo, replaying)
    BY <2>1
  <2>3. Others(file.lines, o, out.file.lines)
    BY <1>f, <1>s, UpdateOpOthers
  <2>4. /\ phase = "serving" /\ todo = {} /\ replaying = {}
        /\ next' = next /\ running \ {o} \subseteq 1..(next' - 1)
    BY <1>2 DEF Exit, JInv
  <2> QED
    BY <1>t, <2>2, <2>3, <2>4, ContinueJInv
<1>3. ASSUME NEW o \in 1..MaxOps, Bump(o) PROVE JInv'
  <2>1. PICK out \in UpdateOp(file, o, "failed", 1) : Continue(out, running, todo, replaying)
    BY <1>3 DEF Bump
  <2>2. Others(file.lines, o, out.file.lines) /\ (out.res = "error" => out.file = file)
    BY <1>f, <1>s, UpdateOpOthers
  <2>3. out.res = "ok" /\ o \in DOMAIN out.file.lines => o \in Live(out.file.lines)
    BY <1>f, <1>s, UpdateOpOthers DEF Live, IsTerminal
  <2>4. out.res = "error" => o \in Live(out.file.lines)
    BY <1>3, <2>2 DEF Bump, Live, IsTerminal
  <2>5. /\ phase = "serving" /\ todo = {} /\ replaying = {} /\ out.res \in Results
        /\ running \subseteq 1..(next' - 1)
    BY <1>3, <1>f, <1>s, UpdateOpType DEF Bump, JInv
  <2> QED
    BY <1>t, <2>1, <2>2, <2>3, <2>4, <2>5, ContinueJInv DEF Results
<1>4. CASE Cleanup
  <2>1. PICK age \in 1..MaxOps :
          LET old == {o \in DOMAIN file.lines \ Live(file.lines) : o <= age} IN
          \E out \in WriteAllOps(file, Restrict(file.lines, DOMAIN file.lines \ old)) :
            Continue(out, running, todo, replaying)
    BY <1>4 DEF Cleanup
  <2> DEFINE left == DOMAIN file.lines \ {o \in DOMAIN file.lines \ Live(file.lines) : o <= age}
             ops == Restrict(file.lines, left)
  <2>2. PICK out \in WriteAllOps(file, ops) : Continue(out, running, todo, replaying)
    BY <2>1
  <2>3. DOMAIN ops = left /\ \A p \in left : ops[p] = file.lines[p]
    BY DEF Restrict
  <2>4. DOMAIN ops \subseteq 1..(next - 1) /\ left \subseteq DOMAIN file.lines
    BY <1>f, <2>3 DEF FileOK
  <2> HIDE DEF ops, left
  <2>5. \/ out.file.lines = ops
        \/ Truncates(file.lines, out.file.lines)
        \/ Truncates(ops, out.file.lines)
    BY <1>f, <2>4, WriteAllOpsLeaves
  <2>6. \A p \in DOMAIN out.file.lines : p \in DOMAIN file.lines /\ out.file.lines[p] = file.lines[p]
    BY <2>3, <2>4, <2>5 DEF Truncates
  <2>7. /\ phase = "serving" /\ todo = {} /\ replaying = {} /\ running \subseteq 1..(next' - 1)
        /\ next \notin DOMAIN out.file.lines
    BY <1>4, <1>f, <2>6 DEF Cleanup, JInv, FileOK
  <2>8. Others(file.lines, next, out.file.lines) /\ Continue(out, running, {}, {})
    BY <2>2, <2>6, <2>7 DEF Others
  <2> QED
    BY <1>t, <2>7, <2>8, ContinueJInv
<1>5. CASE Crash
  BY <1>t, <1>5 DEF Crash, JInv
<1>6. CASE Restart
  <2>1. Recoverable(file.lines, MaxReplays) \subseteq Live(file.lines)
    BY DEF Recoverable, Live, IsTerminal
  <2>2. running = {} /\ replaying = {}
    BY <1>6 DEF Restart, JInv
  <2> QED
    BY <1>t, <1>6, <2>1, <2>2 DEF Restart, JInv
<1>7. ASSUME NEW o \in 1..MaxOps, ReplayStart(o) PROVE JInv'
  <2>1. PICK out \in UpdateOp(file, o, "in_progress", 1) :
          IF out.res = "error" THEN Continue(out, running, {}, {})
                               ELSE Continue(out, running, todo \ {o}, {o})
    BY <1>7 DEF ReplayStart
  <2>2. Others(file.lines, o, out.file.lines)
    BY <1>f, <1>s, UpdateOpOthers
  <2>3. phase = "recovering" /\ running = {} /\ replaying = {} /\ o \in todo
    BY <1>7 DEF ReplayStart, JInv
  <2>4. CASE out.res = "error"
    <3>1. Continue(out, {}, {}, {})
      BY <2>1, <2>3, <2>4
    <3> QED
      BY <1>t, <2>2, <3>1, ContinueJInv
  <2>5. CASE out.res # "error"
    <3>1. Continue(out, {}, todo \ {o}, {o})
      BY <2>1, <2>3, <2>5
    <3>2. out.res # "crash" => out.res = "ok"
      BY <1>f, <1>s, <2>1, <2>5, UpdateOpType DEF Results
    <3>3. out.res # "crash" /\ o \in DOMAIN out.file.lines => o \in Live(out.file.lines)
      BY <1>f, <1>s, <3>2, UpdateOpOthers DEF Live, IsTerminal
    <3>4. (todo \ {o}) \cap {o} = {}
      OBVIOUS
    <3> QED
      BY <1>t, <2>2, <2>3, <3>1, <3>3, <3>4, ContinueJInv
  <2> QED
    BY <2>4, <2>5
<1>8. ASSUME NEW o \in 1..MaxOps, ReplayEnd(o) PROVE JInv'
  <2>1. PICK out, status : /\ status \in {"completed", "failed"} /\ out \in UpdateOp(file, o, status, 0)
                           /\ Continue(out, running, IF out.res = "error" THEN {} ELSE todo, {})
    BY <1>f, <1>8, ReplayEndOutcome
  <2>2. Others(file.lines, o, out.file.lines)
    BY <1>f, <1>s, <2>1, UpdateOpOthers
  <2>3. phase = "recovering" /\ running = {} /\ o \notin todo
    BY <1>8 DEF ReplayEnd, JInv
  <2>4. PICK left : left \subseteq todo /\ Continue(out, {}, left, {})
    BY <2>1, <2>3
  <2> QED
    BY <1>t, <2>2, <2>3, <2>4, ContinueJInv
<1>9. CASE RecoveryDone
  BY <1>t, <1>9 DEF RecoveryDone, JInv
<1>10. CASE UNCHANGED vars
  BY <1>10, <1>t DEF vars, JInv
<1> QED
  BY <1>1, <1>2, <1>3, <1>4, <1>5, <1>6, <1>7, <1>8, <1>9, <1>10 DEF Next

\* When no fragment of a line is ever left, the operations worked on and those
\* to replay are in the log.
IInv ==
  /\ JInv
  /\ ~ file.torn
  /\ Journaled
  /\ todo \subseteq Live(file.lines)

LEMMA InitIInv == LogAssumption /\ Init => IInv
<1> SUFFICES ASSUME LogAssumption, Init PROVE IInv
  OBVIOUS
<1>1. JInv
  BY InitJInv
<1> QED
  BY <1>1 DEF IInv, Init, Journaled, File

\* The rest of the invariant, for a step that ends as Continue says.
LEMMA ContinueIInv ==
  ASSUME NEW out, NEW run, NEW left, NEW cur, Continue(out, run, left, cur), JInv', ~ out.file.torn,
         out.res # "crash" =>
           /\ \A p \in run \cup cur : InProgress(out.file, p)
           /\ left \subseteq Live(out.file.lines)
  PROVE  IInv'
<1>1. CASE out.res = "crash"
  BY <1>1 DEF IInv, Continue, Journaled
<1>2. CASE out.res # "crash"
  BY <1>2 DEF IInv, Continue, Journaled, InProgress
<1> QED
  BY <1>1, <1>2

LEMMA NextIInv == LogAssumption /\ Benign /\ IInv /\ [Next]_vars => IInv'
<1> SUFFICES ASSUME LogAssumption, Benign, IInv, [Next]_vars PROVE IInv'
  OBVIOUS
<1>b. Sound /\ Whole(file)
  BY BenignSound DEF Whole, IInv
<1>t. JInv /\ JInv'
  BY <1>b, NextJInv DEF IInv
<1>f. FileOK(file, next) /\ next \in Nat \ {0} /\ ~ file.torn
  BY <1>t, TypeOKFile DEF LogAssumption, IInv, JInv
<1>s. "in_progress" \in Status /\ "completed" \in Status /\ "failed" \in Status /\ 0 \in Nat /\ 1 \in Nat
  BY DEF Status
<1>j. running \cup replaying \subseteq Live(file.lines) /\ todo \subseteq Live(file.lines)
  BY DEF IInv, Journaled, Live, IsTerminal
<1>w. ASSUME NEW o, NEW out, Keeps(file, o, out) PROVE ~ out.file.torn
  BY <1>b, <1>w DEF Keeps, Whole
<1>1. CASE Enter
  <2>1. PICK out \in Then(AppendOp(file, next), LAMBDA g : UpdateOp(g, next, "in_progress", 0)) :
          Continue(out, IF out.res = "ok" THEN running \cup {next} ELSE running, todo, replaying)
    BY <1>1 DEF Enter
  <2>2. Keeps(file, next, out) /\ (out.res = "ok" => InProgress(out.file, next))
    BY <1>b, <1>f, EnterKeeps
  <2>n. next \notin Live(file.lines) /\ ~ out.file.torn
    BY <1>f, <1>w, <2>2 DEF FileOK, Live
  <2> DEFINE run == IF out.res = "ok" THEN running \cup {next} ELSE running
  <2>3. todo = {} /\ replaying = {}
    BY <1>1, <1>t DEF Enter, JInv
  <2>4. out.res # "crash" => \A p \in run : InProgress(out.file, p)
    BY <1>j, <2>2, <2>n DEF IInv, Journaled, Live, Keeps, InProgress
  <2> HIDE DEF run
  <2> QED
    BY <1>t, <2>1, <2>n, <2>3, <2>4, ContinueIInv DEF run
<1>2. ASSUME NEW o \in 1..MaxOps, Exit(o) PROVE IInv'
  <2>1. PICK s \in {"completed", "failed"} : \E out \in UpdateOp(file, o, s, 0) :
          Continue(out, running \ {o}, todo, replaying)
    BY <1>2 DEF Exit
  <2>2. PICK out \in UpdateOp(file, o, s, 0) : Continue(out, running \ {o}, todo, replaying)
    BY <2>1
  <2>3. Keeps(file, o, out) /\ ~ out.file.torn
    BY <1>b, <1>f, <1>s, <1>w, <2>2, UpdateOpKeeps
  <2>4. todo = {} /\ replaying = {}
    BY <1>2, <1>t DEF Exit, JInv
  <2>5. out.res # "crash" => \A p \in running \ {o} : InProgress(out.file, p)
    BY <1>j, <2>3 DEF IInv, Journaled, Live, Keeps, InProgress
  <2> QED
    BY <1>t, <2>2, <2>3, <2>4, <2>5, ContinueIInv
<1>3. ASSUME NEW o \in 1..MaxOps, Bump(o) PROVE IInv'
  <2>1. PICK out \in UpdateOp(file, o, "failed", 1) : Continue(out, running, todo, replaying)
    BY <1>3 DEF Bump
  <2>2. Keeps(file, o, out) /\ ~ out.file.torn
    BY <1>b, <1>f, <1>s, <1>w, <2>1, UpdateOpKeeps
  <2>3. todo = {} /\ replaying = {} /\ o \notin running
    BY <1>3, <1>t DEF Bump, IInv, JInv, Journaled
  <2>4. out.res # "crash" => \A p \in running : InProgress(out.file, p)
    BY <1>j, <2>2, <2>3 DEF IInv, Journaled, Live, Keeps, InProgress
  <2> QED
    BY <1>t, <2>1, <2>2, <2>3, <2>4, ContinueIInv
<1>4. CASE Cleanup
  <2>1. PICK age \in 1..MaxOps :
          LET old == {o \in DOMAIN file.lines \ Live(file.lines) : o <= age} IN
          \E out \in WriteAllOps(file, Restrict(file.lines, DOMAIN file.lines \ old)) :
            Continue(out, running, todo, replaying)
    BY <1>4 DEF Cleanup
  <2> DEFINE left == DOMAIN file.lines \ {o \in DOMAIN file.lines \ Live(file.lines) : o <= age}
             ops == Restrict(file.lines, left)
  <2>2. PICK out \in WriteAllOps(file, ops) : Continue(out, running, todo, replaying)
    BY <2>1
  <2>3. Live(file.lines) \subseteq left /\ left \subseteq DOMAIN file.lines
    BY DEF Live
  <2>4. Forgets(file.lines, ops) /\ DOMAIN ops \subseteq 1..(next - 1)
    BY <1>f, <2>3, RestrictForgets DEF Forgets, FileOK
  <2> HIDE DEF ops, left
  <2>5. ~ out.file.torn /\ (out.res # "crash" => Forgets(file.lines, out.file.lines))
    BY <1>b, <1>f, <2>4, WriteAllOpsLeaves DEF Whole
  <2>6. out.res # "crash" =>
          \A p \in Live(file.lines) : p \in Live(out.file.lines) /\ out.file.lines[p] = file.lines[p]
    BY <2>5, ForgetsKeeps
  <2>7. todo = {} /\ replaying = {}
    BY <1>4, <1>t DEF Cleanup, JInv
  <2>8. out.res # "crash" => \A p \in running : InProgress(out.file, p)
    BY <1>j, <2>6 DEF IInv, Journaled, Live, InProgress
  <2> QED
    BY <1>t, <2>2, <2>5, <2>7, <2>8, ContinueIInv
<1>5. CASE Crash
  BY <1>t, <1>5 DEF Crash, IInv, Journaled
<1>6. CASE Restart
  <2>1. Recoverable(file.lines, MaxReplays) \subseteq Live(file.lines)
    BY DEF Recoverable, Live, IsTerminal
  <2>2. running = {} /\ replaying = {}
    BY <1>6, <1>t DEF Restart, JInv
  <2> QED
    BY <1>t, <1>6, <2>1, <2>2 DEF Restart, IInv, Journaled
<1>7. ASSUME NEW o \in 1..MaxOps, ReplayStart(o) PROVE IInv'
  <2>1. PICK out \in UpdateOp(file, o, "in_progress", 1) :
          IF out.res = "error" THEN Continue(out, running, {}, {})
                               ELSE Continue(out, running, todo \ {o}, {o})
    BY <1>7 DEF ReplayStart
  <2>2. /\ Keeps(file, o, out) /\ ~ out.file.torn
        /\ out.res = "ok" /\ o \in DOMAIN file.lines => InProgress(out.file, o)
    BY <1>b, <1>f, <1>s, <1>w, <2>1, UpdateOpKeeps
  <2>3. running = {} /\ o \in DOMAIN file.lines
    BY <1>7, <1>j, <1>t DEF ReplayStart, JInv, Live
  <2>4. CASE out.res = "error"
    <3>1. Continue(out, {}, {}, {})
      BY <2>1, <2>3, <2>4
    <3> QED
      BY <1>t, <2>2, <3>1, ContinueIInv
  <2>5. CASE out.res # "error"
    <3>1. Continue(out, {}, todo \ {o}, {o})
      BY <2>1, <2>3, <2>5
    <3>2. out.res # "crash" => out.res = "ok"
      BY <1>f, <1>s, <2>1, <2>5, UpdateOpType DEF Results
    <3>3. out.res # "crash" => todo \ {o} \subseteq Live(out.file.lines)
      BY <1>j, <2>2 DEF Keeps
    <3>4. out.res # "crash" => InProgress(out.file, o)
      BY <2>2, <2>3, <3>2
    <3> QED
      BY <1>t, <2>2, <3>1, <3>3, <3>4, ContinueIInv
  <2> QED
    BY <2>4, <2>5
<1>8. ASSUME NEW o \in 1..MaxOps, ReplayEnd(o) PROVE IInv'
  <2>1. PICK out, status : /\ status \in {"completed", "failed"} /\ out \in UpdateOp(file, o, status, 0)
                           /\ Continue(out, running, IF out.res = "error" THEN {} ELSE todo, {})
    BY <1>b, <1>f, <1>8, ReplayEndOutcome
  <2>2. Keeps(file, o, out) /\ ~ out.file.torn
    BY <1>b, <1>f, <1>s, <1>w, <2>1, UpdateOpKeeps
  <2>3. running = {} /\ o \notin todo
    BY <1>8, <1>t DEF ReplayEnd, JInv
  <2>4. PICK left : left \subseteq todo /\ Continue(out, {}, left, {})
    BY <2>1, <2>3
  <2>5. out.res # "crash" => left \subseteq Live(out.file.lines)
    BY <1>j, <2>2, <2>3, <2>4 DEF Keeps
  <2> QED
    BY <1>t, <2>2, <2>4, <2>5, ContinueIInv
<1>9. CASE RecoveryDone
  BY <1>t, <1>9 DEF RecoveryDone, IInv, Journaled
<1>10. CASE UNCHANGED vars
  BY <1>10, <1>t DEF vars, IInv, Journaled
<1> QED
  BY <1>1, <1>2, <1>3, <1>4, <1>5, <1>6, <1>7, <1>8, <1>9, <1>10 DEF Next

\* As long as no fragment of a line is left in the log, and a failing write
\* changes nothing, an operation whose writes may have reached a store is in the
\* log, in progress - wherever in a rewrite or a rotation a process died before.
THEOREM RunningJournaled == ASSUME Benign PROVE Spec => []Journaled
<1>1. LogAssumption
  BY LogAssumption
<1>2. Init => IInv
  BY <1>1, InitIInv
<1>3. IInv /\ [Next]_vars => IInv'
  BY <1>1, NextIInv
<1>4. IInv => Journaled
  BY DEF IInv
<1> QED
  BY <1>2, <1>3, <1>4, PTL DEF Spec

-----------------------------------------------------------------------------
(* The log implements the journal                                          *)

\* The journal's operators, seen through the refinement mapping, are the log's.
LEMMA JournalOperators ==
  /\ \A a, b : Journal!Forgets(a, b) <=> Forgets(a, b)
  /\ \A a, b : Journal!Truncates(a, b) <=> Truncates(a, b)
  /\ \A a : Journal!Live(a) = Live(a)
  /\ \A a, o, op : Journal!Put(a, o, op) = Put(a, o, op)
  /\ Journal!Status = Status
BY DEF Journal!Forgets, Journal!Truncates, Journal!Live, Journal!IsTerminal, Journal!Put, Journal!Status,
       Forgets, Truncates, Live, IsTerminal, Put, Status

\* A step of a living process leaves of a log what its outcome says.
LEMMA ContinueLeft ==
  ASSUME phase # "down", NEW out, NEW run, NEW left, NEW cur, Continue(out, run, left, cur),
         NEW before, Leaves(out.res, before, out.file.lines)
  PROVE  Journal!Left(before)
<1>1. file' = out.file /\ (phase' # "down" <=> out.res # "crash")
  BY DEF Continue
<1> QED
  BY <1>1, JournalOperators DEF Leaves, Journal!Left

\* What only lost records of the log is a Forget of the journal; what updated an
\* unfinished operation is an Advance; what added one, and kept it, is a Record.
LEMMA ForgetStep ==
  ASSUME phase # "down", NEW out, NEW run, NEW left, NEW cur, Continue(out, run, left, cur),
         Leaves(out.res, file.lines, out.file.lines)
  PROVE  Journal!Next
BY ContinueLeft DEF Journal!Next, Journal!Forget

LEMMA UpdateStep ==
  ASSUME LogAssumption, Sound, FileOK(file, next), phase # "down",
         NEW o, o \in DOMAIN file.lines => o \in Live(file.lines),
         NEW status \in Status \ {"pending"}, NEW retries \in {0, 1},
         NEW out \in UpdateOp(file, o, status, retries),
         NEW run, NEW left, NEW cur, Continue(out, run, left, cur)
  PROVE  Journal!Next
<1> DEFINE op == [status |-> status, retry |-> file.lines[o].retry + retries]
<1>1. \/ out.file = file
      \/ out.res = "crash" /\ Truncates(file.lines, out.file.lines)
      \/ o \in DOMAIN file.lines /\ Leaves(out.res, Put(file.lines, o, op), out.file.lines)
  <2>1. retries \in Nat
    OBVIOUS
  <2> QED
    BY <2>1, UpdateOpLeaves
<1>2. CASE out.file = file
  BY <1>2, ForgetStep, ForgetsReflexive, ForgetsLeaves
<1>3. CASE out.res = "crash" /\ Truncates(file.lines, out.file.lines)
  BY <1>3, ForgetStep DEF Leaves
<1>4. CASE o \in DOMAIN file.lines /\ Leaves(out.res, Put(file.lines, o, op), out.file.lines)
  <2>1. Journal!Left(Journal!Put(file.lines, o, op))
    BY <1>4, ContinueLeft, JournalOperators
  <2>2. o \in Journal!Live(file.lines) /\ status \in Journal!Status \ {"pending"}
    BY <1>4, JournalOperators
  <2> QED
    BY <2>1, <2>2 DEF Journal!Next, Journal!Advance
<1> QED
  BY <1>1, <1>2, <1>3, <1>4

LEMMA RecordStep ==
  ASSUME phase # "down", NEW out, NEW run, NEW left, NEW cur, Continue(out, run, left, cur),
         NEW o, o \notin DOMAIN file.lines, NEW t \in {"pending", "in_progress"},
         Leaves(out.res, Put(file.lines, o, [status |-> t, retry |-> 0]), out.file.lines)
  PROVE  Journal!Next
<1> DEFINE op == [status |-> t, retry |-> 0]
<1>0. ~ IsTerminal(op) /\ file' = out.file
  BY DEF IsTerminal, Continue
<1>1. CASE o \in DOMAIN out.file.lines
  <2>1. Journal!Left(Journal!Put(file.lines, o, op))
    BY ContinueLeft, JournalOperators
  <2> QED
    BY <1>0, <1>1, <2>1 DEF Journal!Next, Journal!Record
<1>2. CASE o \notin DOMAIN out.file.lines
  <2>1. out.res = "crash" /\ Truncates(Put(file.lines, o, op), out.file.lines)
    BY <1>0, <1>2, ForgetsOthers DEF Leaves
  <2> HIDE DEF op
  <2>2. Truncates(file.lines, out.file.lines)
    BY <1>2, <2>1 DEF Truncates, Put, Live
  <2> QED
    BY <2>1, <2>2, ForgetStep DEF Leaves
<1> QED
  BY <1>1, <1>2

\* Beginning an operation records it, or at most forgets others.
LEMMA EnterStep ==
  ASSUME LogAssumption, Sound, FileOK(file, next), next \in Nat \ {0}, phase # "down",
         NEW out \in Then(AppendOp(file, next), LAMBDA g : UpdateOp(g, next, "in_progress", 0)),
         NEW run, NEW left, NEW cur, Continue(out, run, left, cur)
  PROVE  Journal!Next
<1> DEFINE o == next
           Rec(t) == [status |-> t, retry |-> 0]
<1>1. PICK s \in AppendOp(file, next) :
        out \in (IF s.res = "ok" THEN UpdateOp(s.file, next, "in_progress", 0) \cup {Outcome(s.file, "crash")}
                 ELSE {s})
  BY DEF Then
<1>2. FileOK(s.file, next + 1)
  BY AppendOpType
<1>3. \/ Leaves(s.res, file.lines, s.file.lines)
      \/ Leaves(s.res, Put(file.lines, o, Rec("pending")), s.file.lines)
  BY AppendOpLeaves DEF Fresh
<1>4. o \notin DOMAIN file.lines
  BY DEF FileOK
<1>5. ASSUME \/ Leaves(out.res, file.lines, out.file.lines)
             \/ \E t \in {"pending", "in_progress"} : Leaves(out.res, Put(file.lines, o, Rec(t)), out.file.lines)
      PROVE  Journal!Next
  BY <1>4, <1>5, ForgetStep, RecordStep
<1>6. CASE out = s
  BY <1>3, <1>5, <1>6
<1>7. CASE s.res = "ok" /\ out = Outcome(s.file, "crash")
  <2>1. \/ Forgets(file.lines, s.file.lines)
        \/ Forgets(Put(file.lines, o, Rec("pending")), s.file.lines)
    BY <1>3, <1>7 DEF Leaves
  <2> QED
    BY <1>5, <1>7, <2>1, ForgetsLeaves DEF Outcome
<1>8. CASE s.res = "ok" /\ out \in UpdateOp(s.file, next, "in_progress", 0)
  <2>1. "in_progress" \in Status /\ 0 \in Nat
    BY DEF Status
  <2>2. \/ out.file = s.file
        \/ out.res = "crash" /\ Truncates(s.file.lines, out.file.lines)
        \/ /\ o \in DOMAIN s.file.lines
           /\ Leaves(out.res, Put(s.file.lines, o, [status |-> "in_progress", retry |-> s.file.lines[o].retry + 0]),
                     out.file.lines)
    BY <1>2, <1>8, <2>1, UpdateOpLeaves
  <2>3. CASE out.file = s.file \/ (out.res = "crash" /\ Truncates(s.file.lines, out.file.lines))
    <3>1. Leaves(out.res, s.file.lines, out.file.lines)
      BY <2>3, ForgetsReflexive, ForgetsLeaves DEF Leaves
    <3>2. \/ Forgets(file.lines, s.file.lines)
          \/ Forgets(Put(file.lines, o, Rec("pending")), s.file.lines)
      BY <1>3, <1>8 DEF Leaves
    <3> QED
      BY <1>5, <3>1, <3>2, LeavesAfter
  <2>4. CASE /\ o \in DOMAIN s.file.lines
             /\ Leaves(out.res, Put(s.file.lines, o, [status |-> "in_progress", retry |-> s.file.lines[o].retry + 0]),
                       out.file.lines)
    <3>1. Forgets(Put(file.lines, o, Rec("pending")), s.file.lines)
      BY <1>3, <1>4, <1>8, <2>4 DEF Leaves, Forgets
    <3>2. s.file.lines[o] = Rec("pending")
      BY <2>4, <3>1, ForgetsOthers
    <3>3. [status |-> "in_progress", retry |-> s.file.lines[o].retry + 0] = Rec("in_progress")
      BY <3>2
    <3>4. Forgets(Put(file.lines, o, Rec("in_progress")), Put(s.file.lines, o, Rec("in_progress")))
      BY <2>4, <3>1, <3>2 DEF Forgets, Put, Live, IsTerminal
    <3> QED
      BY <1>5, <2>4, <3>3, <3>4, LeavesAfter
  <2> QED
    BY <2>2, <2>3, <2>4
<1> QED
  BY <1>1, <1>6, <1>7, <1>8

LEMMA JournalInit == Init => Journal!Init
BY DEF Init, File, Journal!Init

LEMMA JournalStep == LogAssumption /\ Sound /\ JInv /\ [Next]_vars => [Journal!Next]_(Journal!vars)
<1> SUFFICES ASSUME LogAssumption, Sound, JInv, [Next]_vars PROVE Journal!Next \/ UNCHANGED Journal!vars
  OBVIOUS
<1>f. FileOK(file, next) /\ next \in Nat \ {0}
  BY TypeOKFile DEF LogAssumption, JInv
<1>s. "in_progress" \in Status /\ "completed" \in Status /\ "failed" \in Status
  BY DEF Status
<1>1. CASE Enter
  <2>1. PICK out \in Then(AppendOp(file, next), LAMBDA g : UpdateOp(g, next, "in_progress", 0)) :
          \E run : Continue(out, run, todo, replaying)
    BY <1>1 DEF Enter
  <2>2. phase # "down"
    BY <1>1 DEF Enter
  <2> QED
    BY <1>f, <2>1, <2>2, EnterStep
<1>2. ASSUME NEW o \in 1..MaxOps, Exit(o) PROVE Journal!Next
  <2>1. PICK s \in {"completed", "failed"} : \E out \in UpdateOp(file, o, s, 0) :
          Continue(out, running \ {o}, todo, replaying)
    BY <1>2 DEF Exit
  <2>2. /\ s \in Status \ {"pending"} /\ phase # "down"
        /\ o \in DOMAIN file.lines => o \in Live(file.lines)
    BY <1>2, <1>s DEF Exit, JInv
  <2> QED
    BY <1>f, <2>1, <2>2, UpdateStep
<1>3. ASSUME NEW o \in 1..MaxOps, Bump(o) PROVE Journal!Next
  <2>1. \E out \in UpdateOp(file, o, "failed", 1) : Continue(out, running, todo, replaying)
    BY <1>3 DEF Bump
  <2>2. o \in Live(file.lines) /\ phase # "down"
    BY <1>3 DEF Bump, Live, IsTerminal
  <2> QED
    BY <1>f, <1>s, <2>1, <2>2, UpdateStep
<1>4. CASE Cleanup
  <2>1. PICK age \in 1..MaxOps :
          LET old == {o \in DOMAIN file.lines \ Live(file.lines) : o <= age} IN
          \E out \in WriteAllOps(file, Restrict(file.lines, DOMAIN file.lines \ old)) :
            Continue(out, running, todo, replaying)
    BY <1>4 DEF Cleanup
  <2> DEFINE kept == DOMAIN file.lines \ {o \in DOMAIN file.lines \ Live(file.lines) : o <= age}
             ops == Restrict(file.lines, kept)
  <2>2. Live(file.lines) \subseteq kept /\ kept \subseteq DOMAIN file.lines
    BY DEF Live
  <2>3. PICK out \in WriteAllOps(file, ops) : Continue(out, running, todo, replaying)
    BY <2>1
  <2>4. Forgets(file.lines, ops) /\ DOMAIN ops \subseteq 1..(next - 1)
    BY <1>f, <2>2, RestrictForgets DEF Forgets, FileOK
  <2> HIDE DEF kept, ops
  <2>5. \/ out.res = "ok" /\ out.file.lines = ops
        \/ out.res = "crash" /\ Truncates(file.lines, out.file.lines)
        \/ out.res = "crash" /\ Truncates(ops, out.file.lines)
    BY <1>f, <2>4, WriteAllOpsLeaves
  <2>6. Leaves(out.res, file.lines, out.file.lines) /\ phase # "down"
    BY <1>4, <2>4, <2>5, TruncatesAfter DEF Leaves, Cleanup
  <2> QED
    BY <2>3, <2>6, ForgetStep
<1>5. CASE Crash
  <2>1. Truncates(file.lines, file.lines)
    BY ForgetsReflexive, ForgetsTruncates
  <2> QED
    BY <1>5, <2>1, JournalOperators DEF Crash, Journal!Next, Journal!Forget, Journal!Left
<1>6. CASE Restart
  BY <1>6 DEF Restart, Journal!Next, Journal!Start
<1>7. ASSUME NEW o \in 1..MaxOps, ReplayStart(o) PROVE Journal!Next
  <2>1. PICK out \in UpdateOp(file, o, "in_progress", 1) : \E left, cur : Continue(out, running, left, cur)
    BY <1>7 DEF ReplayStart
  <2>2. (o \in DOMAIN file.lines => o \in Live(file.lines)) /\ phase # "down"
    BY <1>7 DEF ReplayStart, JInv
  <2> QED
    BY <1>f, <1>s, <2>1, <2>2, UpdateStep
<1>8. ASSUME NEW o \in 1..MaxOps, ReplayEnd(o) PROVE Journal!Next
  <2>1. PICK out, status : /\ status \in {"completed", "failed"} /\ out \in UpdateOp(file, o, status, 0)
                           /\ \E left : Continue(out, running, left, {})
    BY <1>f, <1>8, ReplayEndOutcome
  <2>2. (o \in DOMAIN file.lines => o \in Live(file.lines)) /\ phase # "down"
    BY <1>8 DEF ReplayEnd, JInv
  <2> QED
    BY <1>f, <1>s, <2>1, <2>2, UpdateStep
<1>9. CASE RecoveryDone \/ UNCHANGED vars
  BY <1>9 DEF RecoveryDone, vars, Journal!vars
<1> QED
  BY <1>1, <1>2, <1>3, <1>4, <1>5, <1>6, <1>7, <1>8, <1>9 DEF Next

\* The log keeps the journal's promise, torn lines and failing reads included,
\* unless a write that raises has left a part of itself: a living process
\* forgets finished operations only, through every rotation, trim and failed
\* call; one that dies, between any two file operations, loses at most the
\* newest of the records.
THEOREM LogImplementsJournal == ASSUME Sound PROVE Spec => JournalSpec
<1>1. LogAssumption
  BY LogAssumption
<1>2. Init => JInv /\ Journal!Init
  BY <1>1, InitJInv, JournalInit
<1>3. JInv /\ [Next]_vars => JInv' /\ [Journal!Next]_(Journal!vars)
  BY <1>1, NextJInv, JournalStep
<1> QED
  BY <1>2, <1>3, PTL DEF Spec, JournalSpec, Journal!Spec
-----------------------------------------------------------------------------
(* Nothing is passed over                                                  *)

\* Reading the log does not fail.
Readable == "read_fails" \notin Faults

LEMMA AutoTrimReturns ==
  ASSUME Sound, NEW bound, NEW f, FileOK(f, bound), NEW ops, ops \in [DOMAIN ops -> WriteOp],
         DOMAIN ops \subseteq 1..(bound - 1), NEW out \in AutoTrim(f, ops)
  PROVE  out.res \in {"ok", "crash"}
<1>1. CASE out = Outcome(f, "ok")
  BY <1>1 DEF Outcome
<1>2. CASE out \in WriteAllOps(f, Trimmed(ops))
  <2>1. DOMAIN Trimmed(ops) \subseteq 1..(bound - 1)
    BY TrimmedType
  <2> QED
    BY <1>2, <2>1, WriteAllOpsLeaves
<1> QED
  BY <1>1, <1>2 DEF AutoTrim

\* A readable log is updated, or the process dies: an update does not raise.
LEMMA UpdateOpReturns ==
  ASSUME LogAssumption, Sound, Readable, NEW bound, NEW f, FileOK(f, bound), NEW o,
         NEW status \in Status, NEW retries \in Nat, NEW out \in UpdateOp(f, o, status, retries)
  PROVE  out.res \in {"ok", "crash"}
<1> DEFINE op == [status |-> status, retry |-> f.lines[o].retry + retries]
           ops == Put(f.lines, o, op)
<1>1. CASE out = Outcome(f, "ok")
  BY <1>1 DEF Outcome
<1>2. CASE /\ o \in DOMAIN f.lines
           /\ out \in Then(WriteAllOps(f, ops), LAMBDA g : AutoTrim(g, ops))
  <2>1. ops \in [DOMAIN ops -> WriteOp] /\ DOMAIN ops \subseteq 1..(bound - 1)
    BY <1>2, UpdatedType
  <2> HIDE DEF ops
  <2>2. PICK s \in WriteAllOps(f, ops) :
          out \in (IF s.res = "ok" THEN AutoTrim(s.file, ops) \cup {Outcome(s.file, "crash")} ELSE {s})
    BY <1>2 DEF Then
  <2>3. FileOK(s.file, bound) /\ s.res \in {"ok", "crash"}
    BY <2>1, WriteAllOpsType, WriteAllOpsLeaves
  <2>4. CASE out \in AutoTrim(s.file, ops)
    BY <2>1, <2>3, <2>4, AutoTrimReturns
  <2>5. CASE out = s \/ out = Outcome(s.file, "crash")
    BY <2>3, <2>5 DEF Outcome
  <2> QED
    BY <2>2, <2>4, <2>5
<1> QED
  BY <1>1, <1>2 DEF UpdateOp, If, Readable

\* An append to a readable log that raises has added nothing.
LEMMA AppendOpReturns ==
  ASSUME LogAssumption, Sound, Readable, NEW o \in Nat \ {0}, NEW f, FileOK(f, o),
         NEW out \in AppendOp(f, o)
  PROVE  out.res = "error" => Forgets(f.lines, out.file.lines)
<1>1. PICK s \in Then(CheckRotate(f), LAMBDA g : AppendLine(g, o)) :
        out \in (IF s.res = "ok"
                 THEN (AutoTrim(s.file, s.file.lines) \cup If("read_fails", {Outcome(s.file, "error")}))
                      \cup {Outcome(s.file, "crash")}
                 ELSE {s})
  BY DEF AppendOp, Then
<1>2. PICK r \in CheckRotate(f) :
        s \in (IF r.res = "ok" THEN AppendLine(r.file, o) \cup {Outcome(r.file, "crash")} ELSE {r})
  BY <1>1 DEF Then
<1>3. FileOK(r.file, o) /\ r.res \in {"ok", "crash"} /\ (r.res = "ok" => Forgets(f.lines, r.file.lines))
  BY CheckRotateType, CheckRotateLeaves DEF Leaves
<1>4. CASE r.res = "crash" \/ s = Outcome(r.file, "crash")
  BY <1>1, <1>2, <1>4 DEF Outcome
<1>5. CASE r.res = "ok" /\ s \in AppendLine(r.file, o)
  <2>0. s.res # "ok" => s.file.lines = r.file.lines
    <3> DEFINE parsed == IF r.file.torn THEN r.file.lines ELSE Put(r.file.lines, o, Fresh)
    <3>1. \/ s = Outcome(File(parsed, FALSE, r.file.archives, r.file.made), "ok")
          \/ s = Outcome(r.file, "error")
          \/ \E x : s = Outcome(File(r.file.lines, TRUE, r.file.archives, r.file.made), x)
      BY <1>5 DEF AppendLine, If, Fresh
    <3> HIDE DEF parsed
    <3> QED
      BY <3>1 DEF Outcome, File
  <2>1. FileOK(s.file, o + 1) /\ (s.res # "ok" => s.file.lines = r.file.lines)
    BY <1>3, <1>5, <2>0, AppendLineType
  <2>2. CASE s.res # "ok"
    BY <1>1, <1>3, <1>5, <2>1, <2>2
  <2>3. CASE s.res = "ok" /\ out \in AutoTrim(s.file, s.file.lines)
    BY <2>1, <2>3, AutoTrimLeaves
  <2>4. CASE out = Outcome(s.file, "crash")
    BY <2>4 DEF Outcome
  <2> QED
    BY <1>1, <2>2, <2>3, <2>4 DEF If, Readable
<1> QED
  BY <1>2, <1>3, <1>4, <1>5

LEMMA EnterResult ==
  ASSUME LogAssumption, NEW o \in Nat \ {0}, NEW f, FileOK(f, o),
         NEW out \in Then(AppendOp(f, o), LAMBDA g : UpdateOp(g, o, "in_progress", 0))
  PROVE  out.res \in Results
<1>1. PICK s \in AppendOp(f, o) :
        out \in (IF s.res = "ok" THEN UpdateOp(s.file, o, "in_progress", 0) \cup {Outcome(s.file, "crash")}
                 ELSE {s})
  BY DEF Then
<1>2. FileOK(s.file, o + 1) /\ s.res \in Results
  BY AppendOpType
<1>3. CASE out \in UpdateOp(s.file, o, "in_progress", 0)
  <2>1. "in_progress" \in Status /\ 0 \in Nat
    BY DEF Status
  <2> QED
    BY <1>2, <1>3, <2>1, UpdateOpType
<1> QED
  BY <1>1, <1>2, <1>3 DEF Outcome, Results

\* Beginning an operation of a readable log raises only before it recorded it.
LEMMA EnterReturns ==
  ASSUME LogAssumption, Sound, Readable, NEW o \in Nat \ {0}, NEW f, FileOK(f, o),
         NEW out \in Then(AppendOp(f, o), LAMBDA g : UpdateOp(g, o, "in_progress", 0))
  PROVE  out.res = "error" => Forgets(f.lines, out.file.lines)
<1>1. PICK s \in AppendOp(f, o) :
        out \in (IF s.res = "ok" THEN UpdateOp(s.file, o, "in_progress", 0) \cup {Outcome(s.file, "crash")}
                 ELSE {s})
  BY DEF Then
<1>2. FileOK(s.file, o + 1)
  BY AppendOpType
<1>3. CASE out = s
  BY <1>3, AppendOpReturns
<1>4. CASE out = Outcome(s.file, "crash")
  BY <1>4 DEF Outcome
<1>5. CASE out \in UpdateOp(s.file, o, "in_progress", 0)
  <2>1. "in_progress" \in Status /\ 0 \in Nat
    BY DEF Status
  <2> QED
    BY <1>2, <1>5, <2>1, UpdateOpReturns
<1> QED
  BY <1>1, <1>3, <1>4, <1>5

\* An operation that no restart has to do.
IsSettled(op) == IsTerminal(op) \/ op.status = "failed" \/ op.retry >= MaxReplays

\* What a clean-up of finished operations leaves.
LEMMA CleanedTruncates ==
  ASSUME Sound, NEW bound, NEW f, FileOK(f, bound), NEW S, Live(f.lines) \subseteq S, S \subseteq DOMAIN f.lines,
         NEW out \in WriteAllOps(f, Restrict(f.lines, S))
  PROVE  Truncates(f.lines, out.file.lines) /\ (out.res # "crash" => Forgets(f.lines, out.file.lines))
<1> DEFINE ops == Restrict(f.lines, S)
<1>1. Forgets(f.lines, ops) /\ DOMAIN ops \subseteq 1..(bound - 1)
  BY RestrictForgets DEF Forgets, FileOK
<1> HIDE DEF ops
<1>2. \/ out.res = "ok" /\ out.file.lines = ops
      \/ out.res = "crash" /\ Truncates(f.lines, out.file.lines)
      \/ out.res = "crash" /\ Truncates(ops, out.file.lines)
  BY <1>1, WriteAllOpsLeaves DEF ops
<1> QED
  BY <1>1, <1>2, ForgetsTruncates, TruncatesAfter

\* Every operation of the log that nobody works on is settled, already during
\* the replay, where those still to do are the ones that are not.
SInv ==
  /\ JInv
  /\ \A p, q \in replaying : p = q
  /\ phase # "down" =>
       \A p \in DOMAIN file.lines \ (running \cup todo \cup replaying) : IsSettled(file.lines[p])

LEMMA InitSInv == LogAssumption /\ Init => SInv
BY InitJInv DEF SInv, Init

\* The invariant after a step that works on o and ends as Continue says.
LEMMA ContinueSInv ==
  ASSUME SInv, NEW o, NEW out, NEW run, NEW left, NEW cur, Continue(out, run, left, cur), JInv',
         phase # "down", Others(file.lines, o, out.file.lines),
         \A p, q \in cur : p = q,
         out.res # "crash" =>
           /\ (running \cup todo \cup replaying) \ {o} \subseteq run \cup left \cup cur
           /\ o \in run \cup left \cup cur \/ o \notin DOMAIN out.file.lines \/ IsSettled(out.file.lines[o])
  PROVE  SInv'
<1>1. CASE out.res = "crash"
  BY <1>1 DEF SInv, Continue
<1>2. CASE out.res # "crash"
  <2> SUFFICES ASSUME NEW p \in DOMAIN out.file.lines \ (run \cup left \cup cur)
               PROVE  IsSettled(out.file.lines[p])
    BY <1>2 DEF SInv, Continue, IsSettled
  <2>1. CASE p = o
    BY <1>2, <2>1
  <2>2. CASE p # o
    BY <1>2, <2>2 DEF SInv, Others
  <2> QED
    BY <2>1, <2>2
<1> QED
  BY <1>1, <1>2

LEMMA NextSInv == LogAssumption /\ Sound /\ Readable /\ SInv /\ [Next]_vars => SInv'
<1> SUFFICES ASSUME LogAssumption, Sound, Readable, SInv, [Next]_vars PROVE SInv'
  OBVIOUS
<1>i. JInv /\ JInv'
  BY NextJInv DEF SInv
<1>f. FileOK(file, next) /\ next \in Nat \ {0}
  BY <1>i, TypeOKFile DEF LogAssumption, JInv
<1>s. "in_progress" \in Status /\ "completed" \in Status /\ "failed" \in Status /\ 0 \in Nat /\ 1 \in Nat
  BY DEF Status
<1>1. CASE Enter
  <2>1. PICK out \in Then(AppendOp(file, next), LAMBDA g : UpdateOp(g, next, "in_progress", 0)) :
          Continue(out, IF out.res = "ok" THEN running \cup {next} ELSE running, todo, replaying)
    BY <1>1 DEF Enter
  <2> DEFINE run == IF out.res = "ok" THEN running \cup {next} ELSE running
  <2>2. /\ Others(file.lines, next, out.file.lines)
        /\ out.res = "error" => Forgets(file.lines, out.file.lines)
    BY <1>f, EnterOthers, EnterReturns
  <2>3. out.res = "error" => next \notin DOMAIN out.file.lines
    BY <1>f, <2>2 DEF Forgets, FileOK
  <2>4. out.res \in Results
    BY <1>f, EnterResult
  <2>5. running \subseteq run /\ (out.res = "ok" => next \in run)
    OBVIOUS
  <2>6. phase # "down" /\ Continue(out, run, todo, replaying)
    BY <1>1, <2>1 DEF Enter
  <2> HIDE DEF run
  <2> QED
    BY <1>i, <2>2, <2>3, <2>4, <2>5, <2>6, ContinueSInv DEF SInv, Results
<1>2. ASSUME NEW o \in 1..MaxOps, Exit(o) PROVE SInv'
  <2>1. PICK s \in {"completed", "failed"} : \E out \in UpdateOp(file, o, s, 0) :
          Continue(out, running \ {o}, todo, replaying)
    BY <1>2 DEF Exit
  <2>2. PICK out \in UpdateOp(file, o, s, 0) : Continue(out, running \ {o}, todo, replaying)
    BY <2>1
  <2>3. /\ Others(file.lines, o, out.file.lines) /\ out.res \in {"ok", "crash"}
        /\ out.res = "ok" /\ o \in DOMAIN out.file.lines => out.file.lines[o].status = s
    BY <1>f, <1>s, UpdateOpOthers, UpdateOpReturns
  <2>4. phase # "down"
    BY <1>2, <1>i DEF Exit, JInv
  <2> QED
    BY <1>i, <2>2, <2>3, <2>4, ContinueSInv DEF SInv, IsSettled, IsTerminal
<1>3. ASSUME NEW o \in 1..MaxOps, Bump(o) PROVE SInv'
  <2>1. PICK out \in UpdateOp(file, o, "failed", 1) : Continue(out, running, todo, replaying)
    BY <1>3 DEF Bump
  <2>2. /\ Others(file.lines, o, out.file.lines) /\ out.res \in {"ok", "crash"}
        /\ out.res = "ok" /\ o \in DOMAIN out.file.lines => out.file.lines[o].status = "failed"
    BY <1>f, <1>s, UpdateOpOthers, UpdateOpReturns
  <2>3. phase # "down"
    BY <1>3 DEF Bump
  <2> QED
    BY <1>i, <2>1, <2>2, <2>3, ContinueSInv DEF SInv, IsSettled
<1>4. CASE Cleanup
  <2>1. PICK age \in 1..MaxOps :
          LET old == {o \in DOMAIN file.lines \ Live(file.lines) : o <= age} IN
          \E out \in WriteAllOps(file, Restrict(file.lines, DOMAIN file.lines \ old)) :
            Continue(out, running, todo, replaying)
    BY <1>4 DEF Cleanup
  <2> DEFINE left == DOMAIN file.lines \ {o \in DOMAIN file.lines \ Live(file.lines) : o <= age}
  <2>2. Live(file.lines) \subseteq left /\ left \subseteq DOMAIN file.lines
    BY DEF Live
  <2>3. PICK out \in WriteAllOps(file, Restrict(file.lines, left)) : Continue(out, running, todo, replaying)
    BY <2>1
  <2> HIDE DEF left
  <2>4. Truncates(file.lines, out.file.lines)
    BY <1>f, <2>2, <2>3, CleanedTruncates
  <2>5. Others(file.lines, next, out.file.lines) /\ next \notin DOMAIN out.file.lines
    BY <1>f, <2>4 DEF Truncates, Others, FileOK
  <2>6. phase # "down"
    BY <1>4 DEF Cleanup
  <2> QED
    BY <1>i, <2>3, <2>5, <2>6, ContinueSInv DEF SInv
<1>5. CASE Crash
  BY <1>i, <1>5 DEF Crash, SInv
<1>6. CASE Restart
  <2>1. \A p \in DOMAIN file.lines \ Recoverable(file.lines, MaxReplays) : IsSettled(file.lines[p])
    <3> SUFFICES ASSUME NEW p \in DOMAIN file.lines, p \notin Recoverable(file.lines, MaxReplays)
                 PROVE  IsSettled(file.lines[p])
      OBVIOUS
    <3>1. file.lines[p].status \in Status /\ file.lines[p].retry \in Nat /\ MaxReplays \in Nat
      BY <1>f DEF FileOK, WriteOp, LogAssumption
    <3> QED
      BY <3>1 DEF Recoverable, IsSettled, IsTerminal, Status
  <2> QED
    BY <1>i, <1>6, <2>1 DEF Restart, SInv, IsSettled
<1>7. ASSUME NEW o \in 1..MaxOps, ReplayStart(o) PROVE SInv'
  <2>1. PICK out \in UpdateOp(file, o, "in_progress", 1) :
          IF out.res = "error" THEN Continue(out, running, {}, {})
                               ELSE Continue(out, running, todo \ {o}, {o})
    BY <1>7 DEF ReplayStart
  <2>2. Others(file.lines, o, out.file.lines) /\ out.res \in {"ok", "crash"}
    BY <1>f, <1>s, UpdateOpOthers, UpdateOpReturns
  <2>3. Continue(out, running, todo \ {o}, {o})
    BY <2>1, <2>2
  <2>4. phase # "down" /\ replaying = {}
    BY <1>7, <1>i DEF ReplayStart, JInv
  <2> QED
    BY <1>i, <2>2, <2>3, <2>4, ContinueSInv DEF SInv
<1>8. ASSUME NEW o \in 1..MaxOps, ReplayEnd(o) PROVE SInv'
  <2>1. PICK out, status : /\ status \in {"completed", "failed"} /\ out \in UpdateOp(file, o, status, 0)
                           /\ Continue(out, running, IF out.res = "error" THEN {} ELSE todo, {})
    BY <1>f, <1>8, ReplayEndOutcome
  <2>2. /\ Others(file.lines, o, out.file.lines) /\ out.res \in {"ok", "crash"}
        /\ out.res = "ok" /\ o \in DOMAIN out.file.lines => out.file.lines[o].status = status
    BY <1>f, <1>s, <2>1, UpdateOpOthers, UpdateOpReturns
  <2>3. Continue(out, running, todo, {})
    BY <2>1, <2>2
  <2>4. phase # "down"
    BY <1>8, <1>i DEF ReplayEnd, JInv
  <2>5. replaying \subseteq {o}
    BY <1>8 DEF ReplayEnd, SInv
  <2>6. out.res # "crash" => o \notin DOMAIN out.file.lines \/ IsSettled(out.file.lines[o])
    BY <2>1, <2>2 DEF IsSettled, IsTerminal
  <2>7. (running \cup todo \cup replaying) \ {o} \subseteq running \cup todo \cup {}
    BY <2>5
  <2>8. \A p, q \in {} : p = q
    OBVIOUS
  <2> QED
    <3>1. JInv' /\ SInv /\ Others(file.lines, o, out.file.lines)
      BY <1>i, <2>2
    <3> QED
      BY <2>3, <2>4, <2>6, <2>7, <2>8, <3>1, ContinueSInv
<1>9. CASE RecoveryDone
  BY <1>i, <1>9 DEF RecoveryDone, SInv, IsSettled
<1>10. CASE UNCHANGED vars
  BY <1>i, <1>10 DEF vars, SInv, IsSettled
<1> QED
  BY <1>1, <1>2, <1>3, <1>4, <1>5, <1>6, <1>7, <1>8, <1>9, <1>10 DEF Next

\* When the log can be read, and a write that raises changes nothing, the replay
\* and the bodies that follow it pass over no operation that is in the log, torn
\* as it may be: once the process serves, each one that nobody is working on has
\* finished, has failed, or has used up its replays.
THEOREM NothingPassedOver == ASSUME Sound, Readable PROVE Spec => []Settled
<1>1. LogAssumption
  BY LogAssumption
<1>2. Init => SInv
  BY <1>1, InitSInv
<1>3. SInv /\ [Next]_vars => SInv'
  BY <1>1, NextSInv
<1>4. SInv => Settled
  BY DEF SInv, JInv, Settled, IsSettled
<1> QED
  BY <1>2, <1>3, <1>4, PTL DEF Spec
-----------------------------------------------------------------------------
(* The log is trimmed                                                      *)

\* Trimming ops would drop nothing.
Stable(ops) == DOMAIN Trimmed(ops) = DOMAIN ops

\* How many members of S are smaller.
Rank(S, o) == Cardinality({p \in S : p < o})

\* Ranks are numbers below the size of the set, and no two members share one.
LEMMA RankType ==
  ASSUME NEW S \in SUBSET Nat, IsFiniteSet(S), NEW o \in S
  PROVE  Rank(S, o) \in Nat /\ Rank(S, o) < Cardinality(S)
<1> DEFINE B == {p \in S : p < o}
<1>1. B \in SUBSET S /\ o \notin B
  OBVIOUS
<1> HIDE DEF B
<1>2. Cardinality(B) <= Cardinality(S) /\ Cardinality(B) # Cardinality(S) /\ IsFiniteSet(B)
  BY <1>1, FS_Subset
<1>3. Cardinality(B) \in Nat /\ Cardinality(S) \in Nat
  BY <1>2, FS_CardinalityType
<1> QED
  BY <1>2, <1>3 DEF Rank, B

LEMMA RankInjective ==
  ASSUME NEW S \in SUBSET Nat, IsFiniteSet(S), NEW o \in S, NEW q \in S, o < q
  PROVE  Rank(S, o) < Rank(S, q)
<1> DEFINE B == {p \in S : p < o}
           C == {p \in S : p < q}
<1>0. \A p \in S : p \in Nat
  OBVIOUS
<1>1. B \in SUBSET C /\ o \in C /\ o \notin B /\ C \in SUBSET S
  <2>1. \A p \in S : p < o => p < q
    BY <1>0
  <2>2. ~ (o < o)
    BY <1>0
  <2> QED
    BY <2>1, <2>2
<1> HIDE DEF B, C
<1>2. IsFiniteSet(C)
  BY <1>1, FS_Subset
<1>3. Cardinality(B) <= Cardinality(C) /\ Cardinality(B) # Cardinality(C) /\ IsFiniteSet(B)
  BY <1>1, <1>2, FS_Subset
<1>4. Cardinality(B) \in Nat /\ Cardinality(C) \in Nat
  BY <1>2, <1>3, FS_CardinalityType
<1> QED
  BY <1>3, <1>4 DEF Rank, B, C

\* At most Cardinality(S) - e members of a set have a rank of at least e.
LEMMA UpperRanks ==
  ASSUME NEW S \in SUBSET Nat, IsFiniteSet(S), NEW e \in Nat,
         NEW K, K = {o \in S : Rank(S, o) >= e}
  PROVE  K # {} => Cardinality(K) <= Cardinality(S) - e
<1> SUFFICES ASSUME K # {} PROVE Cardinality(K) <= Cardinality(S) - e
  OBVIOUS
<1> DEFINE n == Cardinality(S) - 1
           f == [o \in K |-> Rank(S, o)]
<1>1. Cardinality(S) \in Nat
  BY FS_CardinalityType
<1>2. \A o \in K : o \in S /\ Rank(S, o) \in e..n
  BY <1>1, RankType
<1>3. \A o, q \in K : Rank(S, o) = Rank(S, q) => o = q
  <2> SUFFICES ASSUME NEW o \in K, NEW q \in K, Rank(S, o) = Rank(S, q), o # q PROVE FALSE
    OBVIOUS
  <2>1. o \in S /\ q \in S /\ Rank(S, o) \in Nat /\ Rank(S, q) \in Nat
    BY RankType
  <2>2. o < q \/ q < o
    BY <2>1
  <2> QED
    BY <2>1, <2>2, RankInjective
<1>4. f \in Injection(K, e..n)
  BY <1>2, <1>3 DEF Injection, IsInjective
<1>5. n \in Int /\ e \in Int /\ e <= n
  <2>1. PICK o \in K : TRUE
    OBVIOUS
  <2> QED
    BY <1>1, <1>2, <2>1
<1> HIDE DEF n, f
<1>6. IsFiniteSet(e..n) /\ Cardinality(e..n) = n - e + 1
  BY <1>5, FS_Interval
<1>7. Cardinality(K) <= Cardinality(e..n)
  BY <1>4, <1>6, FS_Injection
<1> QED
  BY <1>1, <1>6, <1>7 DEF n

\* A log that is trimmed once is trimmed: a second trim drops nothing.
LEMMA TrimmedStable ==
  ASSUME LogAssumption, NEW ops, ops \in [DOMAIN ops -> WriteOp], IsFiniteSet(DOMAIN ops), DOMAIN ops \subseteq Nat
  PROVE  Stable(Trimmed(ops))
<1> DEFINE D == DOMAIN ops
           L == Live(ops)
           done == D \ L
           excess == Cardinality(D) - MaxEntries
           K == {o \in done : Rank(done, o) >= excess}
           T == Trimmed(ops)
           excess2 == Cardinality(DOMAIN T) - MaxEntries
<1>1. L \subseteq D /\ K \subseteq done /\ L \cap K = {} /\ L \cap done = {} /\ L \cup done = D /\ L \cup K \subseteq D
  BY DEF Live
<1>2. DOMAIN T = L \cup K /\ \A o \in L \cup K : T[o] = ops[o]
  <2>1. T = Restrict(ops, L \cup K)
    BY DEF Trimmed, Rank
  <2> HIDE DEF T, K, L
  <2> QED
    BY <1>1, <2>1, RestrictType
<1>3. Live(T) = L /\ DOMAIN T \ Live(T) = K
  <2>1. Live(T) = {o \in L \cup K : ~ IsTerminal(ops[o])}
    BY <1>2 DEF Live
  <2>2. \A o \in D : o \in L <=> ~ IsTerminal(ops[o])
    BY DEF Live
  <2> HIDE DEF T, K, L
  <2> QED
    BY <1>1, <1>2, <2>1, <2>2
<1>4. IsFiniteSet(done) /\ IsFiniteSet(L) /\ IsFiniteSet(K)
  <2>1. done \in SUBSET D /\ L \in SUBSET D /\ K \in SUBSET D
    BY <1>1
  <2> HIDE DEF done, L, K
  <2> QED
    BY <2>1, FS_Subset
<1>5. /\ Cardinality(D) \in Nat /\ Cardinality(L) \in Nat
      /\ Cardinality(done) \in Nat /\ Cardinality(K) \in Nat /\ MaxEntries \in Nat
  BY <1>4, FS_CardinalityType DEF LogAssumption
<1>6. Cardinality(D) = Cardinality(L) + Cardinality(done)
  <2> HIDE DEF T, K, excess, excess2, done, L, D
  <2>1. Cardinality(L \cup done) = Cardinality(L) + Cardinality(done) - Cardinality(L \cap done)
    BY <1>4, FS_Union
  <2>2. Cardinality(L \cap done) = 0
    BY <1>1, FS_EmptySet
  <2>3. L \cup done = D
    BY <1>1
  <2>4. Cardinality(L \cup done) = Cardinality(D)
    BY Zenon, <2>3
  <2> HIDE <2>3
  <2> QED
    BY <1>5, <2>1, <2>2, <2>4
<1>7. Cardinality(DOMAIN T) = Cardinality(L) + Cardinality(K)
  <2> HIDE DEF K, L, D, T
  <2>1. Cardinality(L \cup K) = Cardinality(L) + Cardinality(K) - Cardinality(L \cap K)
    BY <1>4, FS_Union
  <2> QED
    BY <1>1, <1>2, <1>5, <2>1, FS_EmptySet
<1>8. K = {} \/ excess2 <= 0
  <2> SUFFICES ASSUME K # {} PROVE excess2 <= 0
    OBVIOUS
  <2>1. done \in SUBSET Nat
    OBVIOUS
  <2>2. CASE excess >= 0
    <3>1. excess \in Nat
      BY <1>5, <2>2
    <3>2. K = {o \in done : Rank(done, o) >= excess}
      OBVIOUS
    <3> HIDE DEF K, excess, done
    <3>3. Cardinality(K) <= Cardinality(done) - excess
      BY <1>4, <2>1, <3>1, <3>2, UpperRanks
    <3> QED
      BY <1>5, <1>6, <1>7, <3>3 DEF excess
  <2>3. CASE excess < 0
    <3>1. Cardinality(K) <= Cardinality(done)
      <4> HIDE DEF K, done
      <4> QED
        BY <1>1, <1>4, FS_Subset
    <3> HIDE DEF K, done, D, L, T
    <3> QED
      BY <1>5, <1>6, <1>7, <2>3, <3>1
  <2>4. excess \in Int
    BY <1>5
  <2> QED
    BY <2>2, <2>3, <2>4
<1>9. DOMAIN Trimmed(T) = L \cup {o \in K : Rank(K, o) >= excess2}
  <2> HIDE DEF T, K, L, D
  <2>1. Trimmed(T) = Restrict(T, L \cup {o \in K : Rank(K, o) >= excess2})
    BY <1>3 DEF Trimmed, Rank
  <2> QED
    BY <2>1 DEF Restrict
<1>10. CASE K = {}
  <2> HIDE DEF T, K, L, D
  <2> QED
    BY <1>2, <1>9, <1>10 DEF Stable, T
<1>11. CASE excess2 <= 0
  <2>1. \A o \in K : Rank(K, o) \in Nat
    <3>1. K \in SUBSET Nat
      OBVIOUS
    <3> HIDE DEF K
    <3> QED
      BY <1>4, <3>1, RankType
  <2>2. excess2 \in Int
    <3> HIDE DEF T, K, L, D
    <3> QED
      BY <1>5, <1>7
  <2> HIDE DEF T, K, L, D, excess2
  <2>3. \A o \in K : Rank(K, o) >= excess2
    BY <1>11, <2>1, <2>2
  <2> QED
    BY <1>2, <1>9, <2>3 DEF Stable, T
<1> QED
  BY <1>8, <1>10, <1>11

\* A log that is not larger than max_entries is not trimmed.
LEMMA SmallStable ==
  ASSUME LogAssumption, NEW ops, IsFiniteSet(DOMAIN ops), DOMAIN ops \subseteq Nat,
         Cardinality(DOMAIN ops) <= MaxEntries
  PROVE  Stable(ops)
<1> DEFINE done == DOMAIN ops \ Live(ops)
           excess == Cardinality(DOMAIN ops) - MaxEntries
<1>1. Cardinality(DOMAIN ops) \in Nat /\ MaxEntries \in Nat
  BY FS_CardinalityType DEF LogAssumption
<1>2. done \in SUBSET Nat /\ IsFiniteSet(done)
  BY FS_Subset
<1>3. Trimmed(ops) = Restrict(ops, Live(ops) \cup {o \in done : Rank(done, o) >= excess})
  BY DEF Trimmed, Rank
<1>4. Live(ops) \subseteq DOMAIN ops
  BY DEF Live
<1>5. \A o \in done : Rank(done, o) >= excess
  <2> HIDE DEF done
  <2>1. \A o \in done : Rank(done, o) \in Nat
    BY <1>2, RankType
  <2> QED
    BY <1>1, <2>1
<1> HIDE DEF excess
<1>6. Trimmed(ops) = Restrict(ops, DOMAIN ops)
  BY <1>3, <1>4, <1>5
<1> QED
  BY <1>6 DEF Stable, Restrict

LEMMA FileFinite ==
  ASSUME NEW bound \in Nat, NEW f, FileOK(f, bound)
  PROVE  IsFiniteSet(DOMAIN f.lines) /\ DOMAIN f.lines \subseteq Nat
<1>1. IsFiniteSet(1..(bound - 1)) /\ DOMAIN f.lines \in SUBSET (1..(bound - 1))
  BY FS_Interval DEF FileOK
<1> QED
  BY <1>1, FS_Subset

\* Forgetting that changes the log shrinks it.
LEMMA ForgetsShrinks ==
  ASSUME NEW bound \in Nat, NEW f, FileOK(f, bound), NEW g, FileOK(g, bound),
         Forgets(f.lines, g.lines), g.lines # f.lines
  PROVE  Cardinality(DOMAIN g.lines) < Cardinality(DOMAIN f.lines)
<1> DEFINE D == DOMAIN f.lines
           E == DOMAIN g.lines
<1>1. IsFiniteSet(D) /\ E \in SUBSET D /\ E # D
  BY FileFinite DEF Forgets, FileOK
<1> HIDE DEF D, E
<1>2. IsFiniteSet(E) /\ Cardinality(E) <= Cardinality(D) /\ Cardinality(E) # Cardinality(D)
  BY <1>1, FS_Subset
<1>3. Cardinality(E) \in Nat /\ Cardinality(D) \in Nat
  BY <1>1, <1>2, FS_CardinalityType
<1> QED
  BY <1>2, <1>3 DEF D, E

\* The log that an update of one of its operations leaves, if it returned, is trimmed.
LEMMA UpdateOpStable ==
  ASSUME LogAssumption, Sound, NEW bound \in Nat, NEW f, FileOK(f, bound), NEW o \in DOMAIN f.lines,
         NEW status \in Status, NEW retries \in Nat, NEW out \in UpdateOp(f, o, status, retries), out.res = "ok"
  PROVE  Stable(out.file.lines)
<1> DEFINE op == [status |-> status, retry |-> f.lines[o].retry + retries]
           ops == Put(f.lines, o, op)
<1>1. ops \in [DOMAIN ops -> WriteOp] /\ DOMAIN ops \subseteq 1..(bound - 1)
  BY UpdatedType
<1>2. out # Outcome(f, "error")
  BY DEF Outcome
<1>3. out \in Then(WriteAllOps(f, ops), LAMBDA g : AutoTrim(g, ops))
  BY <1>2 DEF UpdateOp, If
<1> HIDE DEF ops
<1>4. PICK s \in WriteAllOps(f, ops) :
        out \in (IF s.res = "ok" THEN AutoTrim(s.file, ops) \cup {Outcome(s.file, "crash")} ELSE {s})
  BY <1>3 DEF Then
<1>5. s.res = "ok" /\ out \in AutoTrim(s.file, ops)
  BY <1>4 DEF Outcome
<1>6. FileOK(s.file, bound) /\ s.file.lines = ops
  BY <1>1, <1>5, WriteAllOpsType, WriteAllOpsLeaves
<1>7. IsFiniteSet(DOMAIN ops) /\ DOMAIN ops \subseteq Nat
  BY <1>6, FileFinite
<1>8. CASE Cardinality(DOMAIN ops) <= MaxEntries /\ out = Outcome(s.file, "ok")
  BY <1>6, <1>7, <1>8, SmallStable DEF Outcome
<1>9. CASE out \in WriteAllOps(s.file, Trimmed(ops))
  <2>1. DOMAIN Trimmed(ops) \subseteq 1..(bound - 1)
    BY <1>1, TrimmedType
  <2>2. out.file.lines = Trimmed(ops)
    BY <1>6, <1>9, <2>1, WriteAllOpsLeaves
  <2> QED
    BY <1>1, <1>7, <2>2, TrimmedStable
<1> QED
  BY <1>5, <1>8, <1>9 DEF AutoTrim

\* A step that updates o and keeps the process alive leaves a trimmed log, or
\* the log as it was.
LEMMA UpdateStepStable ==
  ASSUME LogAssumption, Sound, Readable, FileOK(file, next), next \in Nat, NEW o,
         NEW status \in Status, NEW retries \in Nat, NEW out \in UpdateOp(file, o, status, retries),
         file' = out.file, out.res # "crash", file'.lines # file.lines
  PROVE  Stable(file'.lines)
<1>1. out.res = "ok"
  BY UpdateOpReturns
<1>2. o \in DOMAIN file.lines
  BY <1>1, UpdateOpLeaves
<1> QED
  BY <1>1, <1>2, UpdateOpStable

\* Beginning an operation leaves a trimmed log, unless it lost its line.
LEMMA EnterStable ==
  ASSUME LogAssumption, Sound, Readable, FileOK(file, next), next \in Nat \ {0},
         NEW out \in Then(AppendOp(file, next), LAMBDA g : UpdateOp(g, next, "in_progress", 0)),
         out.res = "ok"
  PROVE  Stable(out.file.lines) \/ Forgets(file.lines, out.file.lines)
<1>1. PICK s \in AppendOp(file, next) :
        out \in (IF s.res = "ok" THEN UpdateOp(s.file, next, "in_progress", 0) \cup {Outcome(s.file, "crash")}
                 ELSE {s})
  BY DEF Then
<1>2. s.res = "ok" /\ out \in UpdateOp(s.file, next, "in_progress", 0)
  BY <1>1 DEF Outcome
<1>3. FileOK(s.file, next + 1) /\ next + 1 \in Nat
  BY AppendOpType
<1>4. Forgets(file.lines, s.file.lines) \/ Forgets(Put(file.lines, next, Fresh), s.file.lines)
  BY <1>2, AppendOpLeaves DEF Leaves
<1>6. "in_progress" \in Status /\ 0 \in Nat
  BY DEF Status
<1>7. CASE next \in DOMAIN s.file.lines
  BY <1>2, <1>3, <1>6, <1>7, UpdateOpStable
<1>8. CASE next \notin DOMAIN s.file.lines
  <2>1. out.file = s.file
    BY <1>2, <1>3, <1>6, <1>8, UpdateOpLeaves
  <2>2. Forgets(file.lines, s.file.lines)
    BY <1>4, <1>8, ForgetsOthers DEF Fresh, IsTerminal
  <2> QED
    BY <2>1, <2>2
<1> QED
  BY <1>7, <1>8

LEMMA TrimStep ==
  ASSUME LogAssumption, Sound, Readable, JInv, [Next]_vars, phase' # "down", file'.lines # file.lines
  PROVE  Stable(file'.lines) \/ Cardinality(DOMAIN file'.lines) < Cardinality(DOMAIN file.lines)
<1>f. FileOK(file, next) /\ next \in Nat \ {0}
  BY TypeOKFile DEF LogAssumption, JInv
<1>g. FileOK(file', next') /\ next' \in Nat
  <2>1. TypeOK'
    BY NextType DEF JInv
  <2> QED
    BY <2>1 DEF TypeOK, FileOK, LogAssumption
<1>s. "in_progress" \in Status /\ "completed" \in Status /\ "failed" \in Status /\ 0 \in Nat /\ 1 \in Nat
  BY DEF Status
<1>1. CASE Enter
  <2>1. PICK out \in Then(AppendOp(file, next), LAMBDA g : UpdateOp(g, next, "in_progress", 0)) :
          Continue(out, IF out.res = "ok" THEN running \cup {next} ELSE running, todo, replaying)
    BY <1>1 DEF Enter
  <2>2. out.res # "crash" /\ file' = out.file
    BY <2>1 DEF Continue
  <2>3. CASE Stable(out.file.lines)
    BY <2>2, <2>3
  <2>4. CASE Forgets(file.lines, out.file.lines)
    <3>1. Forgets(file.lines, file'.lines)
      BY <2>2, <2>4
    <3>2. FileOK(file, next') /\ next' \in Nat
      BY <1>1, <1>f DEF Enter, FileOK
    <3> QED
      BY <1>g, <3>1, <3>2, ForgetsShrinks
  <2>5. out.res \in Results
    BY <1>f, EnterResult
  <2> QED
    BY <1>f, <2>2, <2>3, <2>4, <2>5, EnterStable, EnterReturns DEF Results
<1>2. ASSUME NEW o \in 1..MaxOps, Exit(o) PROVE Stable(file'.lines)
  <2>1. PICK s \in {"completed", "failed"} : \E out \in UpdateOp(file, o, s, 0) :
          file' = out.file /\ out.res # "crash"
    BY <1>2 DEF Exit, Continue
  <2> QED
    BY <1>f, <1>s, <2>1, UpdateStepStable
<1>3. ASSUME NEW o \in 1..MaxOps, Bump(o) PROVE Stable(file'.lines)
  <2>1. \E out \in UpdateOp(file, o, "failed", 1) : file' = out.file /\ out.res # "crash"
    BY <1>3 DEF Bump, Continue
  <2> QED
    BY <1>f, <1>s, <2>1, UpdateStepStable
<1>4. CASE Cleanup
  <2>1. PICK age \in 1..MaxOps :
          LET old == {o \in DOMAIN file.lines \ Live(file.lines) : o <= age} IN
          \E out \in WriteAllOps(file, Restrict(file.lines, DOMAIN file.lines \ old)) :
            Continue(out, running, todo, replaying)
    BY <1>4 DEF Cleanup
  <2> DEFINE left == DOMAIN file.lines \ {o \in DOMAIN file.lines \ Live(file.lines) : o <= age}
  <2>2. Live(file.lines) \subseteq left /\ left \subseteq DOMAIN file.lines
    BY DEF Live
  <2>3. PICK out \in WriteAllOps(file, Restrict(file.lines, left)) : file' = out.file /\ out.res # "crash"
    BY <2>1 DEF Continue
  <2> HIDE DEF left
  <2>4. Forgets(file.lines, file'.lines)
    BY <1>f, <2>2, <2>3, CleanedTruncates
  <2>5. next' = next
    BY <1>4 DEF Cleanup
  <2> QED
    BY <1>f, <1>g, <2>4, <2>5, ForgetsShrinks
<1>5. CASE Crash \/ Restart \/ RecoveryDone \/ UNCHANGED vars
  BY <1>5 DEF Crash, Restart, RecoveryDone, vars
<1>6. ASSUME NEW o \in 1..MaxOps, ReplayStart(o) PROVE Stable(file'.lines)
  <2>1. \E out \in UpdateOp(file, o, "in_progress", 1) : file' = out.file /\ out.res # "crash"
    BY <1>6 DEF ReplayStart, Continue
  <2> QED
    BY <1>f, <1>s, <2>1, UpdateStepStable
<1>7. ASSUME NEW o \in 1..MaxOps, ReplayEnd(o) PROVE Stable(file'.lines)
  <2>1. PICK out, status : /\ status \in {"completed", "failed"} /\ out \in UpdateOp(file, o, status, 0)
                           /\ file' = out.file /\ out.res # "crash"
    BY <1>f, <1>7, ReplayEndOutcome DEF Continue
  <2> QED
    BY <1>f, <1>s, <2>1, UpdateStepStable
<1> QED
  BY <1>1, <1>2, <1>3, <1>4, <1>5, <1>6, <1>7 DEF Next

\* When the log can be read, and a write that raises changes nothing, a method
\* that changes the log and returns leaves it
\* trimmed, or at least smaller than it was: what a crash left behind between a
\* write and its trim does not stay.
THEOREM LogTrimmed == ASSUME Sound, Readable PROVE Spec => TrimBound
<1>1. LogAssumption
  BY LogAssumption
<1>2. Init => JInv
  BY <1>1, InitJInv
<1>3. JInv /\ [Next]_vars => JInv'
  BY <1>1, NextJInv
<1> DEFINE Bound == phase' # "down" /\ file'.lines # file.lines =>
                      \/ DOMAIN Trimmed(file'.lines) = DOMAIN file'.lines
                      \/ Cardinality(DOMAIN file'.lines) < Cardinality(DOMAIN file.lines)
<1>4. JInv /\ [Next]_vars => [Bound]_vars
  BY <1>1, TrimStep DEF Stable
<1> QED
  BY <1>2, <1>3, <1>4, PTL DEF Spec, TrimBound
=============================================================================
