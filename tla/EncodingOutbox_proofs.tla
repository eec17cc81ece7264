----------------------- MODULE EncodingOutbox_proofs -----------------------
(***************************************************************************)
(* Proofs about the encoding pipeline, for all streams, messages, sizes    *)
(* and failures: what leaves the outbox is written, and what has been      *)
(* extracted is held until it is written.                                  *)
(***************************************************************************)
EXTENDS EncodingOutbox, FiniteSetTheorems, SequenceTheorems, TLAPS

\* Where the cycle has an atom in its hands, and where that atom has a row.
AtAtom == {"check", "persist", "look", "write", "embed", "effects", "delete"}
AfterWrite == {"embed", "effects", "delete"}

IsSeq(s) == s \in Seq(Range(s))

\* The strengthening: the queue and the work are sequences; a cycle that is over
\* has no work left, one at an atom has; and the atom is written where it should.
IInv ==
  /\ IsSeq(work) /\ IsSeq(pending)
  /\ pc \in {"idle", "down"} => work = <<>>
  /\ pc \in AtAtom => work # <<>>
  /\ pc \in AfterWrite => atom \in rows
-----------------------------------------------------------------------------
(* Sequences and what is in them                                           *)

LEMMA SeqIsSeq ==
  ASSUME NEW S, NEW s \in Seq(S)
  PROVE  IsSeq(s) /\ Range(s) = {s[i] : i \in 1..Len(s)} /\ Len(s) \in Nat
<1>1. s \in [1..Len(s) -> S] /\ DOMAIN s = 1..Len(s) /\ Len(s) \in Nat
  BY LenProperties
<1>2. Range(s) = {s[i] : i \in 1..Len(s)}
  BY <1>1 DEF Range
<1>3. s \in [1..Len(s) -> Range(s)]
  BY <1>1, <1>2
<1> QED
  BY <1>1, <1>2, <1>3, SeqDef DEF IsSeq

LEMMA EmptyIsSeq == IsSeq(<<>>) /\ Range(<<>>) = {}
<1>1. <<>> \in Seq({})
  BY EmptySeq
<1>2. IsSeq(<<>>) /\ Range(<<>>) = {<<>>[i] : i \in 1..Len(<<>>)}
  BY <1>1, SeqIsSeq
<1>3. 1..Len(<<>>) = {}
  <2>1. Len(<<>>) = 0
    BY EmptySeq
  <2> QED
    BY <2>1
<1> QED
  BY <1>2, <1>3

LEMMA TailRange ==
  ASSUME NEW s, IsSeq(s), s # <<>>
  PROVE  IsSeq(Tail(s)) /\ Range(s) = {Head(s)} \cup Range(Tail(s))
<1>1. s \in Seq(Range(s))
  BY DEF IsSeq
<1>2. /\ Tail(s) \in Seq(Range(s))
      /\ Len(Tail(s)) = Len(s) - 1
      /\ \A i \in 1..Len(Tail(s)) : Tail(s)[i] = s[i + 1]
  BY <1>1, HeadTailProperties
<1>3. Range(s) = {s[i] : i \in 1..Len(s)} /\ Len(s) \in Nat /\ Len(s) # 0
  BY <1>1, SeqIsSeq, EmptySeq
<1>4. IsSeq(Tail(s)) /\ Range(Tail(s)) = {Tail(s)[i] : i \in 1..Len(Tail(s))}
  BY <1>2, SeqIsSeq
<1>5. Head(s) = s[1]
  BY <1>1
<1>6. Range(s) \subseteq {Head(s)} \cup Range(Tail(s))
  <2> SUFFICES ASSUME NEW i \in 1..Len(s) PROVE s[i] \in {Head(s)} \cup Range(Tail(s))
    BY <1>3
  <2>1. CASE i = 1
    BY <2>1, <1>5
  <2>2. CASE i # 1
    <3>1. i - 1 \in 1..Len(Tail(s)) /\ (i - 1) + 1 = i
      BY <2>2, <1>2, <1>3
    <3>2. Tail(s)[i - 1] = s[i]
      BY <3>1, <1>2
    <3> QED
      BY <3>1, <3>2, <1>4
  <2> QED
    BY <2>1, <2>2
<1>7. {Head(s)} \cup Range(Tail(s)) \subseteq Range(s)
  <2>1. 1 \in 1..Len(s) /\ \A i \in 1..Len(Tail(s)) : i + 1 \in 1..Len(s)
    BY <1>2, <1>3
  <2> QED
    BY <2>1, <1>2, <1>3, <1>4, <1>5
<1> QED
  BY <1>4, <1>6, <1>7

LEMMA ConcatRange ==
  ASSUME NEW s, NEW t, IsSeq(s), IsSeq(t)
  PROVE  IsSeq(s \o t) /\ Range(s) \subseteq Range(s \o t) /\ Range(t) \subseteq Range(s \o t)
<1> DEFINE S == Range(s) \cup Range(t)
<1>1. s \in Seq(S) /\ t \in Seq(S)
  BY SeqMonotonic DEF IsSeq
<1> HIDE DEF S
<1>2. /\ s \o t \in Seq(S)
      /\ Len(s \o t) = Len(s) + Len(t)
      /\ \A i \in 1..(Len(s) + Len(t)) :
           (s \o t)[i] = IF i <= Len(s) THEN s[i] ELSE t[i - Len(s)]
  BY <1>1, ConcatProperties
<1>3. /\ IsSeq(s \o t) /\ Range(s \o t) = {(s \o t)[i] : i \in 1..Len(s \o t)}
      /\ Range(s) = {s[i] : i \in 1..Len(s)} /\ Len(s) \in Nat
      /\ Range(t) = {t[i] : i \in 1..Len(t)} /\ Len(t) \in Nat
  BY <1>1, <1>2, SeqIsSeq
<1>4. ASSUME NEW i \in 1..Len(s) PROVE s[i] \in Range(s \o t)
  <2>1. i \in 1..(Len(s) + Len(t)) /\ i <= Len(s)
    BY <1>3
  <2> QED
    BY <2>1, <1>2, <1>3
<1>5. ASSUME NEW i \in 1..Len(t) PROVE t[i] \in Range(s \o t)
  <2>1. i + Len(s) \in 1..(Len(s) + Len(t)) /\ ~(i + Len(s) <= Len(s)) /\ (i + Len(s)) - Len(s) = i
    BY <1>3
  <2>2. (s \o t)[i + Len(s)] = t[i]
    BY <2>1, <1>2
  <2> QED
    BY <2>1, <2>2, <1>2, <1>3
<1> QED
  BY <1>3, <1>4, <1>5

LEMMA AppendRange ==
  ASSUME NEW s, NEW e, IsSeq(s)
  PROVE  IsSeq(Append(s, e)) /\ Range(Append(s, e)) = Range(s) \cup {e}
<1> DEFINE S == Range(s) \cup {e}
<1>1. s \in Seq(S) /\ e \in S
  BY SeqMonotonic DEF IsSeq
<1> HIDE DEF S
<1>2. /\ Append(s, e) \in Seq(S) /\ Len(Append(s, e)) = Len(s) + 1
      /\ \A i \in 1..Len(s) : Append(s, e)[i] = s[i]
      /\ Append(s, e)[Len(s) + 1] = e
  BY <1>1, AppendProperties
<1>3. /\ IsSeq(Append(s, e)) /\ Range(Append(s, e)) = {Append(s, e)[i] : i \in 1..(Len(s) + 1)}
      /\ Range(s) = {s[i] : i \in 1..Len(s)} /\ Len(s) \in Nat
  BY <1>1, <1>2, SeqIsSeq
<1>4. 1..(Len(s) + 1) = 1..Len(s) \cup {Len(s) + 1}
  BY <1>3
<1> QED
  BY <1>2, <1>3, <1>4

LEMMA OrderIsSeq ==
  ASSUME NEW S, NEW s \in Orders(S)
  PROVE  IsSeq(s)
<1>1. PICK n \in 0..MaxMessages : s \in Bijection(1..n, S)
  BY DEF Orders
<1>2. s \in [1..n -> S] /\ n \in Nat
  BY <1>1, EncodingAssumption DEF Bijection, Injection
<1> QED
  BY <1>2, SeqDef, SeqIsSeq

LEMMA OrderRange ==
  ASSUME NEW S, NEW s \in Orders(S)
  PROVE  Range(s) = S
<1>1. PICK n \in 0..MaxMessages : s \in Bijection(1..n, S)
  BY DEF Orders
<1>2. s \in [1..n -> S] /\ \A x \in S : \E i \in 1..n : s[i] = x
  BY <1>1 DEF Bijection, Surjection
<1>3. DOMAIN s = 1..n
  BY <1>2
<1> QED
  BY <1>2, <1>3 DEF Range
-----------------------------------------------------------------------------
(* The invariant                                                           *)

\* Leaving one atom behind.
LEMMA ProceedFromAtom ==
  ASSUME IInv, pc \in AtAtom, Proceed(Tail(work))
  PROVE  /\ IsSeq(work') /\ Range(work) = {atom} \cup Range(work')
         /\ pc' \in {"idle", "down"} => work' = <<>>
         /\ pc' \in AtAtom => work' # <<>>
         /\ pc' \notin AfterWrite
<1>1. IsSeq(work) /\ work # <<>> /\ work' = Tail(work)
  BY DEF IInv, Proceed
<1>2. IsSeq(work') /\ Range(work) = {atom} \cup Range(work')
  BY <1>1, TailRange DEF atom
<1>3. CASE work' # <<>>
  BY <1>1, <1>3, <1>2 DEF Proceed, AfterWrite
<1>4. CASE work' = <<>>
  BY <1>1, <1>4, <1>2 DEF Proceed, AtAtom, AfterWrite
<1> QED
  BY <1>3, <1>4

\* The atom goes back to the queue.
LEMMA KeepAtom ==
  ASSUME IInv, pc \in AtAtom, Keep
  PROVE  IInv' /\ Range(pending') = Range(pending) \cup {atom} /\ Range(work) = {atom} \cup Range(work')
<1>1. IsSeq(pending') /\ Range(pending') = Range(pending) \cup {atom}
  BY AppendRange DEF IInv, Keep
<1> QED
  BY <1>1, ProceedFromAtom DEF IInv, Keep

LEMMA InitInvariant == Init => IInv
BY EmptyIsSeq DEF Init, IInv, AtAtom, AfterWrite

\* What a new cycle finds in its hands.
LEMMA BeginInvariant ==
  ASSUME IInv, Begin
  PROVE  IInv' /\ Range(pending) \cup Range(work) \subseteq Range(pending') \cup Range(work')
<1>1. work = <<>> /\ IsSeq(pending) /\ Range(work) = {}
  BY EmptyIsSeq DEF IInv, Begin
<1>2. CASE LoadFailed /\ UNCHANGED <<pc, work, todo, retrying, pending, thin>>
  BY <1>1, <1>2 DEF IInv, Begin, AtAtom, AfterWrite
<1>3. CASE /\ \E bad \in SUBSET Recovered : \E atoms \in Orders(Recovered \ bad) : work' = pending \o atoms
           /\ pending' = <<>>
           /\ IF work' # <<>> THEN pc' = "look" ELSE pc' = "encode"
  <2>0. PICK bad \in SUBSET Recovered : \E atoms \in Orders(Recovered \ bad) : work' = pending \o atoms
    BY <1>3
  <2>1. PICK atoms \in Orders(Recovered \ bad) : work' = pending \o atoms
    BY <2>0
  <2>2. IsSeq(atoms)
    BY <2>1, OrderIsSeq
  <2>3. IsSeq(work') /\ Range(pending) \subseteq Range(work')
    BY <1>1, <2>1, <2>2, ConcatRange
  <2> QED
    BY <1>1, <1>3, <2>3, EmptyIsSeq DEF IInv, AtAtom, AfterWrite
<1> QED
  BY <1>2, <1>3 DEF Begin

\* An answer adds atoms to the work.
LEMMA AnswerInvariant ==
  ASSUME IInv, Answer
  PROVE  IInv' /\ Range(work) \subseteq Range(work')
<1>1. IsSeq(work)
  BY DEF IInv
<1>2. CASE \E atoms \in Extractions(batch.messages) : work' = work \o atoms
  <2>1. PICK atoms \in Extractions(batch.messages) : work' = work \o atoms
    BY <1>2
  <2>2. IsSeq(atoms)
    BY <2>1, OrderIsSeq DEF Extractions
  <2>3. IsSeq(work') /\ Range(work) \subseteq Range(work')
    BY <1>1, <2>1, <2>2, ConcatRange
  <2> QED
    BY <2>3 DEF IInv, Answer, AtAtom, AfterWrite, queue
<1>3. CASE UNCHANGED work
  BY <1>3 DEF IInv, Answer, AtAtom, AfterWrite, queue
<1> QED
  BY <1>2, <1>3 DEF Answer

\* One step keeps the invariant, lets go of nothing that has no row, and takes
\* nothing else out of the outbox.
LEMMA StepInvariant ==
  ASSUME IInv, [Next]_vars
  PROVE  /\ IInv'
         /\ outbox \ outbox' \subseteq rows
         /\ pc' = "down" \/ Held \ Held' \subseteq rows \cup Dropped
<1> DEFINE Queued == Range(pending) \cup Range(work)
           OutboxOK == outbox \ outbox' \subseteq rows
           HeldOK == pc' = "down" \/ Held \ Held' \subseteq rows \cup Dropped
<1>0. ASSUME outbox \subseteq outbox', Queued \subseteq Queued'
      PROVE  OutboxOK /\ HeldOK
  BY <1>0 DEF Held
<1>1. ASSUME NEW s \in Streams, Ingest(s)
      PROVE  IInv' /\ OutboxOK /\ HeldOK
  <2>1. UNCHANGED <<pc, work, pending, outbox, rows>>
    BY <1>1 DEF Ingest, cycle, queue, stored
  <2> QED
    BY <2>1, <1>0 DEF IInv, AtAtom, AfterWrite, atom
<1>2. ASSUME Begin PROVE IInv' /\ OutboxOK /\ HeldOK
  BY <1>0, <1>2, BeginInvariant DEF Begin
<1>3. ASSUME NEW s \in Streams, Ask(s)
      PROVE  IInv' /\ OutboxOK /\ HeldOK
  <2>1. UNCHANGED <<work, pending, outbox>> /\ pc' = "llm"
    BY <1>3 DEF Ask, queue
  <2> QED
    BY <2>1, <1>0 DEF IInv, AtAtom, AfterWrite
<1>4. ASSUME Answer PROVE IInv' /\ OutboxOK /\ HeldOK
  <2>1. UNCHANGED <<pending, outbox>>
    BY <1>4 DEF Answer, queue
  <2> QED
    BY <2>1, <1>0, <1>4, AnswerInvariant
<1>5. ASSUME Encoded PROVE IInv' /\ OutboxOK /\ HeldOK
  <2>1. UNCHANGED <<work, pending, outbox>>
    BY <1>5 DEF Encoded, Proceed, queue
  <2>2. IInv'
    <3>1. CASE work # <<>>
      BY <1>5, <2>1, <3>1 DEF IInv, Encoded, Proceed, AfterWrite
    <3>2. CASE work = <<>>
      BY <1>5, <2>1, <3>2 DEF IInv, Encoded, Proceed, AtAtom, AfterWrite
    <3> QED
      BY <3>1, <3>2
  <2> QED
    BY <2>1, <2>2, <1>0
<1>6. ASSUME Check PROVE IInv' /\ OutboxOK /\ HeldOK
  <2>1. UNCHANGED <<pending, outbox>> /\ pc = "check"
    BY <1>6 DEF Check, queue
  <2>2. CASE Proceed(Tail(work))
    <3>1. IInv' /\ Range(work) = {atom} \cup Range(work')
      BY <2>1, <2>2, ProceedFromAtom DEF IInv, AtAtom
    <3> QED
      BY <2>1, <3>1 DEF Held, Dropped
  <2>3. CASE pc' = "persist" /\ UNCHANGED work
    BY <1>0, <2>1, <2>3 DEF IInv, AtAtom, AfterWrite
  <2> QED
    BY <1>6, <2>1, <2>2, <2>3 DEF Check
<1>7. ASSUME Persist PROVE IInv' /\ OutboxOK /\ HeldOK
  <2>1. CASE pc' = "look" /\ outbox' = outbox \cup {atom} /\ UNCHANGED <<work, pending>>
    BY <1>0, <1>7, <2>1 DEF IInv, Persist, AtAtom, AfterWrite
  <2>2. CASE Keep /\ UNCHANGED outbox
    BY <1>0, <1>7, <2>2, KeepAtom DEF Persist, AtAtom
  <2> QED
    BY <1>7, <2>1, <2>2 DEF Persist
<1>8. ASSUME Look PROVE IInv' /\ OutboxOK /\ HeldOK
  <2>0. pc = "look" /\ UNCHANGED <<outbox, rows>>
    BY <1>8 DEF Look
  <2>1. CASE pc' = (IF Written(atom) THEN "effects" ELSE "write") /\ UNCHANGED <<work, pending>>
    BY <1>0, <2>0, <2>1 DEF IInv, Written, AtAtom, AfterWrite, atom
  <2>2. CASE pc' = "write" /\ UNCHANGED <<work, pending>>
    BY <1>0, <2>0, <2>2 DEF IInv, AtAtom, AfterWrite
  <2>3. CASE Keep
    BY <1>0, <2>0, <2>3, KeepAtom DEF AtAtom
  <2> QED
    BY <1>8, <2>1, <2>2, <2>3 DEF Look
<1>9. ASSUME Write PROVE IInv' /\ OutboxOK /\ HeldOK
  <2>0. pc = "write" /\ UNCHANGED outbox
    BY <1>9 DEF Write
  <2>1. CASE rows' = rows \cup {atom} /\ pc' = "embed" /\ UNCHANGED <<work, pending>>
    BY <1>0, <2>0, <2>1 DEF IInv, AtAtom, AfterWrite, atom
  <2>2. CASE Keep
    BY <1>0, <2>0, <2>2, KeepAtom DEF AtAtom
  <2> QED
    BY <1>9, <2>1, <2>2 DEF Write
<1>10. ASSUME Embed PROVE IInv' /\ OutboxOK /\ HeldOK
  <2>1. pc = "embed" /\ pc' = "effects" /\ UNCHANGED <<work, pending, outbox, rows>>
    BY <1>10 DEF Embed, cycle, queue, stored
  <2> QED
    BY <2>1, <1>0 DEF IInv, AtAtom, AfterWrite, atom
<1>11. ASSUME Effects PROVE IInv' /\ OutboxOK /\ HeldOK
  <2>1. pc = "effects" /\ pc' = "delete" /\ UNCHANGED <<work, pending, outbox, rows>>
    BY <1>11 DEF Effects, cycle, queue
  <2> QED
    BY <2>1, <1>0 DEF IInv, AtAtom, AfterWrite, atom
<1>12. ASSUME Delete PROVE IInv' /\ OutboxOK /\ HeldOK
  <2>0. pc = "delete" /\ atom \in rows
    BY <1>12 DEF Delete, IInv, AfterWrite
  <2>1. CASE outbox' = outbox \ {atom} /\ Proceed(Tail(work)) /\ UNCHANGED pending
    <3>1. IInv' /\ Range(work) = {atom} \cup Range(work')
      BY <2>0, <2>1, ProceedFromAtom DEF IInv, AtAtom
    <3> QED
      BY <2>0, <2>1, <3>1 DEF Held
  <2>2. CASE Keep /\ UNCHANGED outbox
    BY <1>0, <2>0, <2>2, KeepAtom DEF AtAtom
  <2> QED
    BY <1>12, <2>1, <2>2 DEF Delete
<1>13. ASSUME Crash PROVE IInv' /\ OutboxOK /\ HeldOK
  BY <1>13, EmptyIsSeq DEF IInv, Crash, AtAtom, AfterWrite
<1>14. ASSUME Start PROVE IInv' /\ OutboxOK /\ HeldOK
  <2>1. pc = "down" /\ pc' = "idle" /\ UNCHANGED <<work, pending, outbox>>
    BY <1>14 DEF Start, cycle, queue
  <2> QED
    BY <2>1, <1>0 DEF IInv, AtAtom, AfterWrite
<1>16. ASSUME EncodingRaises PROVE IInv' /\ OutboxOK /\ HeldOK
  <2>1. /\ pc \in {"encode", "llm"} /\ pc' = "idle" /\ work' = <<>>
        /\ UNCHANGED <<pending, outbox>>
    BY <1>16 DEF EncodingRaises, queue
  <2> QED
    BY <2>1, EmptyIsSeq DEF IInv, Held, Dropped, AtAtom, AfterWrite
<1>15. ASSUME UNCHANGED vars PROVE IInv' /\ OutboxOK /\ HeldOK
  <2>1. UNCHANGED <<pc, work, pending, outbox, rows>>
    BY <1>15 DEF vars, cycle, queue, stored
  <2> QED
    BY <2>1, <1>0 DEF IInv, AtAtom, AfterWrite, atom
<1> QED
  BY <1>1, <1>2, <1>3, <1>4, <1>5, <1>6, <1>7, <1>8, <1>9, <1>10, <1>11, <1>12, <1>13,
     <1>14, <1>15, <1>16 DEF Next, Cycle
-----------------------------------------------------------------------------
\* The invariant of the pipeline (run_cycle): a cycle that has ended has no
\* atoms left in its hands, and where it runs the effects of an atom, or
\* deletes its record, that atom has a row.
THEOREM HandsInvariant == Spec => []IInv
<1>1. IInv /\ [Next]_vars => IInv'
  BY StepInvariant
<1> QED
  BY InitInvariant, <1>1, PTL DEF Spec

\* No record leaves the outbox (run_cycle: commit, then delete) before its atom
\* has a row, whichever calls fail and whenever the process dies.
THEOREM OutboxServedHolds == Spec => OutboxServed
<1>1. IInv /\ [Next]_vars => [outbox \ outbox' \subseteq rows]_vars
  BY StepInvariant
<1> QED
  BY HandsInvariant, <1>1, PTL DEF Spec, OutboxServed

\* No failure makes the running pipeline lose an accepted atom that has no row yet
\* (the except clauses of run_cycle put it back), and of the others it loses only
\* what the check rejects, or the candidates before an encode_batch that raises.
THEOREM HeldUntilWrittenHolds == Spec => HeldUntilWritten
<1>1. IInv /\ [Next]_vars => [pc' = "down" \/ Held \ Held' \subseteq rows \cup Dropped]_vars
  BY StepInvariant
<1> QED
  BY HandsInvariant, <1>1, PTL DEF Spec, HeldUntilWritten
-----------------------------------------------------------------------------
(* The queue holds the outbox                                              *)

\* Where the cycle works on an atom that the outbox may hold.
AtCommit == {"look", "write", "embed", "effects", "delete"}

\* The atoms in the hands of the cycle that the outbox may hold: on its way
\* through the queue all that are left of it, among the new ones the first.
InHands == IF retrying THEN Range(work) ELSE IF pc \in AtCommit THEN {atom} ELSE {}

\* In a process that has read the outbox, each of its records is in the queue or
\* in the hands of the cycle, or is one that no start can read.
QueueInv ==
  /\ IInv
  /\ retrying => pc \in AtCommit
  /\ loaded => outbox \subseteq Range(pending) \cup InHands \cup corrupt

LEMMA InitQueueInv == Init => QueueInv
BY InitInvariant DEF Init, QueueInv

\* The step ends the work on an atom that the outbox, from now on, holds no more,
\* or the queue holds as well.
LEMMA ProceedQueued ==
  ASSUME QueueInv, pc \in AtAtom, Proceed(Tail(work)), IInv', UNCHANGED <<loaded, corrupt>>,
         Range(pending) \subseteq Range(pending'),
         outbox' \subseteq outbox, pc \in AtCommit => atom \notin outbox' \/ atom \in Range(pending')
  PROVE  QueueInv'
<1>1. work' = Tail(work) /\ Range(work) = {atom} \cup Range(work')
  BY ProceedFromAtom DEF QueueInv, Proceed
<1>2. loaded => outbox' \subseteq Range(pending') \cup (IF retrying THEN Range(work') ELSE {}) \cup corrupt'
  BY <1>1 DEF QueueInv, InHands
<1>3. CASE work' # <<>>
  BY <1>1, <1>2, <1>3 DEF Proceed, QueueInv, InHands, AtCommit
<1>4. CASE work' = <<>>
  <2>1. Range(work') = {} /\ ~ retrying' /\ pc' \notin AtCommit
    BY <1>1, <1>4, EmptyIsSeq DEF Proceed, QueueInv, AtCommit
  <2> QED
    BY <1>2, <2>1 DEF QueueInv, InHands
<1> QED
  BY <1>3, <1>4

LEMMA KeepQueued ==
  ASSUME QueueInv, pc \in AtAtom, Keep, UNCHANGED <<loaded, outbox, corrupt>>
  PROVE  QueueInv'
<1>1. IInv' /\ Range(pending') = Range(pending) \cup {atom}
  BY KeepAtom DEF QueueInv
<1> QED
  BY <1>1, ProceedQueued DEF Keep

\* A step in which the cycle goes on with the same atom.
LEMMA StayQueued ==
  ASSUME QueueInv, IInv', pc \in AtCommit, pc' \in AtCommit, UNCHANGED <<work, retrying, pending, loaded, outbox, corrupt>>
  PROVE  QueueInv'
BY DEF QueueInv, InHands, atom

LEMMA BeginQueued ==
  ASSUME QueueInv, Begin
  PROVE  QueueInv'
<1>1. IInv' /\ work = <<>> /\ IsSeq(pending) /\ ~ retrying /\ pc = "idle"
  BY BeginInvariant DEF QueueInv, IInv, Begin, AtCommit
<1>2. CASE LoadFailed /\ UNCHANGED <<pc, work, todo, retrying, pending, thin>>
  BY <1>1, <1>2 DEF Begin, LoadFailed, QueueInv, InHands, AtCommit
<1>3. CASE /\ loaded' = TRUE
           /\ \E bad \in SUBSET Recovered :
                /\ corrupt' = corrupt \cup bad
                /\ \E atoms \in Orders(Recovered \ bad) : work' = pending \o atoms
           /\ pending' = <<>>
           /\ IF work' # <<>> THEN pc' = "look" /\ retrying' = TRUE /\ UNCHANGED todo
              ELSE pc' = "encode" /\ todo' = Ready /\ UNCHANGED retrying
  <2>0. PICK bad \in SUBSET Recovered :
           corrupt' = corrupt \cup bad /\ \E atoms \in Orders(Recovered \ bad) : work' = pending \o atoms
    BY <1>3
  <2>1. PICK atoms \in Orders(Recovered \ bad) : work' = pending \o atoms
    BY <2>0
  <2>2. IsSeq(atoms) /\ Range(atoms) = Recovered \ bad
    BY <2>1, OrderIsSeq, OrderRange
  <2>3. Range(pending) \cup Recovered \subseteq Range(work') \cup corrupt'
    BY <1>1, <2>0, <2>1, <2>2, ConcatRange
  <2>4. outbox \subseteq Range(pending) \cup Recovered \cup corrupt
    BY <1>1 DEF QueueInv, InHands, Recovered, AtCommit
  <2>5. outbox' \subseteq Range(work') \cup corrupt'
    <3>1. outbox' = outbox /\ corrupt \subseteq corrupt'
      BY <2>0 DEF Begin
    <3> QED
      BY <2>3, <2>4, <3>1
  <2>6. CASE work' # <<>>
    BY <1>1, <1>3, <2>5, <2>6 DEF QueueInv, InHands, AtCommit
  <2>7. CASE work' = <<>>
    BY <1>1, <1>3, <2>5, <2>7, EmptyIsSeq DEF QueueInv, InHands, AtCommit
  <2> QED
    BY <2>6, <2>7
<1> QED
  BY <1>2, <1>3 DEF Begin

LEMMA NextQueueInv == QueueInv /\ [Next]_vars => QueueInv'
<1> SUFFICES ASSUME QueueInv, [Next]_vars PROVE QueueInv'
  OBVIOUS
<1>0. IInv /\ IInv'
  BY StepInvariant DEF QueueInv
<1> USE DEF buffers, cycle, queue, stored
<1>1. ASSUME NEW s \in Streams, Ingest(s) PROVE QueueInv'
  BY <1>0, <1>1 DEF Ingest, QueueInv, InHands, atom
<1>2. CASE Begin
  BY <1>2, BeginQueued
<1>3. ASSUME NEW s \in Streams, Ask(s) PROVE QueueInv'
  BY <1>0, <1>3 DEF Ask, QueueInv, InHands, AtCommit
<1>4. CASE Answer
  BY <1>0, <1>4 DEF Answer, QueueInv, InHands, AtCommit
<1>5. CASE Encoded
  <2>1. pc = "encode" /\ ~ retrying /\ UNCHANGED <<work, pending, loaded, outbox, corrupt>>
    BY <1>5 DEF Encoded, Proceed, QueueInv, AtCommit
  <2>2. retrying' = FALSE /\ pc' \notin AtCommit
    BY <1>5, <2>1 DEF Encoded, Proceed, AtCommit, QueueInv, IInv
  <2> QED
    BY <1>0, <2>1, <2>2 DEF QueueInv, InHands, AtCommit
<1>6. CASE Check
  <2>1. pc = "check" /\ UNCHANGED <<pending, loaded, outbox, corrupt>>
    BY <1>6 DEF Check
  <2>2. CASE Proceed(Tail(work))
    BY <1>0, <2>1, <2>2, ProceedQueued DEF AtAtom, AtCommit
  <2>3. CASE pc' = "persist" /\ UNCHANGED <<work, retrying>>
    BY <1>0, <2>1, <2>3 DEF QueueInv, InHands, AtCommit
  <2> QED
    BY <1>6, <2>2, <2>3 DEF Check
<1>7. CASE Persist
  <2>1. pc = "persist" /\ UNCHANGED <<loaded, corrupt>>
    BY <1>7 DEF Persist
  <2>2. CASE pc' = "look" /\ outbox' = outbox \cup {atom} /\ UNCHANGED <<work, retrying, pending>>
    BY <1>0, <2>1, <2>2 DEF QueueInv, InHands, AtCommit, atom
  <2>3. CASE Keep /\ UNCHANGED outbox
    BY <2>1, <2>3, KeepQueued DEF AtAtom
  <2> QED
    BY <1>7, <2>2, <2>3 DEF Persist
<1>8. CASE Look
  <2>1. pc = "look" /\ UNCHANGED <<loaded, outbox, corrupt>>
    BY <1>8 DEF Look
  <2>2. CASE pc' \in {"effects", "write"} /\ UNCHANGED <<work, retrying, pending>>
    BY <1>0, <2>1, <2>2, StayQueued DEF AtCommit
  <2>3. CASE Keep
    BY <2>1, <2>3, KeepQueued DEF AtAtom
  <2> QED
    BY <1>8, <2>2, <2>3 DEF Look
<1>9. CASE Write
  <2>1. pc = "write" /\ UNCHANGED <<loaded, outbox, corrupt>>
    BY <1>9 DEF Write
  <2>2. CASE pc' = "embed" /\ UNCHANGED <<work, retrying, pending>>
    BY <1>0, <2>1, <2>2, StayQueued DEF AtCommit
  <2>3. CASE Keep
    BY <2>1, <2>3, KeepQueued DEF AtAtom
  <2> QED
    BY <1>9, <2>2, <2>3 DEF Write
<1>10. CASE Embed
  BY <1>0, <1>10, StayQueued DEF Embed, AtCommit
<1>11. CASE Effects
  BY <1>0, <1>11, StayQueued DEF Effects, AtCommit
<1>12. CASE Delete
  <2>1. pc = "delete" /\ UNCHANGED <<loaded, corrupt>>
    BY <1>12 DEF Delete
  <2>2. CASE outbox' = outbox \ {atom} /\ Proceed(Tail(work)) /\ UNCHANGED pending
    BY <1>0, <2>1, <2>2, ProceedQueued DEF AtAtom
  <2>3. CASE Keep /\ UNCHANGED outbox
    BY <2>1, <2>3, KeepQueued DEF AtAtom
  <2> QED
    BY <1>12, <2>2, <2>3 DEF Delete
<1>13. CASE Crash
  BY <1>0, <1>13 DEF Crash, QueueInv
<1>14. CASE Start
  BY <1>0, <1>14 DEF Start, QueueInv, InHands, AtCommit
<1>15. CASE UNCHANGED vars
  BY <1>0, <1>15 DEF vars, QueueInv, InHands, atom
<1>16. CASE EncodingRaises
  BY <1>0, <1>16 DEF EncodingRaises, QueueInv, InHands, AtCommit
<1> QED
  BY <1>1, <1>2, <1>3, <1>4, <1>5, <1>6, <1>7, <1>8, <1>9, <1>10, <1>11, <1>12, <1>13,
     <1>14, <1>15, <1>16 DEF Next, Cycle

\* Between two cycles of a process that has read the outbox, no record of it
\* waits for a restart: whichever calls fail, each is in the queue too, but for
\* those that a start could not read (_load_pending_writes leaves these alone).
THEOREM OutboxQueuedHolds == Spec => []OutboxQueued
<1>1. QueueInv => OutboxQueued
  BY DEF QueueInv, OutboxQueued, InHands, AtCommit
<1> QED
  BY <1>1, InitQueueInv, NextQueueInv, PTL DEF Spec
-----------------------------------------------------------------------------
(* Leaving elements of a sequence out                                      *)

Places(seq, S) == {i \in DOMAIN seq : seq[i] \notin S}
Order(P, i) == Cardinality({j \in P : j <= i})

\* The places of a set of numbers are counted from 1 to its size.
LEMMA OrderType ==
  ASSUME NEW P \in SUBSET Nat, IsFiniteSet(P), NEW i \in P
  PROVE  Order(P, i) \in 1..Cardinality(P)
<1> DEFINE B == {j \in P : j <= i}
<1>1. B \in SUBSET P /\ B # {}
  OBVIOUS
<1> HIDE DEF B
<1>2. IsFiniteSet(B) /\ Cardinality(B) <= Cardinality(P)
  BY <1>1, FS_Subset
<1>3. Cardinality(B) \in Nat /\ Cardinality(P) \in Nat /\ Cardinality(B) # 0
  BY <1>1, <1>2, FS_CardinalityType, FS_EmptySet
<1> QED
  BY <1>2, <1>3 DEF Order, B

LEMMA OrderGrows ==
  ASSUME NEW P \in SUBSET Nat, IsFiniteSet(P), NEW i \in P, NEW k \in P, i < k
  PROVE  Order(P, i) < Order(P, k)
<1> DEFINE B == {j \in P : j <= i}
           C == {j \in P : j <= k}
<1>0. \A j \in P : j \in Nat
  OBVIOUS
<1>1. B \in SUBSET C /\ k \in C /\ k \notin B /\ C \in SUBSET P
  <2>1. \A j \in P : j <= i => j <= k
    BY <1>0
  <2>2. ~ (k <= i) /\ k <= k
    BY <1>0
  <2> QED
    BY <2>1, <2>2
<1> HIDE DEF B, C
<1>2. IsFiniteSet(C)
  BY <1>1, FS_Subset
<1>3. IsFiniteSet(B) /\ Cardinality(B) <= Cardinality(C) /\ Cardinality(B) # Cardinality(C)
  BY <1>1, <1>2, FS_Subset
<1>4. Cardinality(B) \in Nat /\ Cardinality(C) \in Nat
  BY <1>2, <1>3, FS_CardinalityType
<1> QED
  BY <1>3, <1>4 DEF Order, B, C

LEMMA OrderInjective ==
  ASSUME NEW P \in SUBSET Nat, IsFiniteSet(P), NEW i \in P, NEW k \in P, Order(P, i) = Order(P, k)
  PROVE  i = k
<1>1. i \in Nat /\ k \in Nat /\ Order(P, i) \in Int /\ Order(P, k) \in Int
  BY OrderType
<1>2. ~ (i < k) /\ ~ (k < i)
  BY <1>1, OrderGrows
<1> QED
  BY <1>1, <1>2

\* The numbers up to n are n, and n is known from them.
LEMMA UpTo ==
  ASSUME NEW n \in Nat
  PROVE  IsFiniteSet(1..n) /\ Cardinality(1..n) = n
BY FS_Interval

LEMMA UpToInjective ==
  ASSUME NEW m \in Nat, NEW n \in Nat, 1..m = 1..n
  PROVE  m = n
<1>1. Cardinality(1..m) = Cardinality(1..n)
  OBVIOUS
<1> QED
  BY <1>1, UpTo

\* So every number up to the size is the count of one place.
LEMMA OrderOnto ==
  ASSUME NEW P \in SUBSET Nat, IsFiniteSet(P), NEW k \in 1..Cardinality(P)
  PROVE  \E i \in P : Order(P, i) = k
<1> DEFINE n == Cardinality(P)
           f == [i \in P |-> Order(P, i)]
<1>1. n \in Nat
  BY FS_CardinalityType
<1>2. f \in Injection(P, 1..n)
  BY OrderType, OrderInjective DEF Injection, IsInjective
<1> HIDE DEF f
<1>3. IsFiniteSet(1..n) /\ Cardinality(1..n) = n
  BY <1>1, UpTo
<1>4. f \in Surjection(P, 1..n)
  BY <1>2, <1>3, FS_Injection
<1> QED
  BY <1>4 DEF Surjection, f

\* What is left of a sequence without the members of S is its other elements.
LEMMA WithoutRange ==
  ASSUME NEW seq, IsSeq(seq), NEW S
  PROVE  /\ IsSeq(Without(seq, S))
         /\ Len(Without(seq, S)) <= Len(seq)
         /\ Range(Without(seq, S)) = Range(seq) \ S
<1> DEFINE P == Places(seq, S)
           n == Cardinality(P)
           place(k) == CHOOSE i \in P : Order(P, i) = k
           left == [k \in 1..n |-> seq[place(k)]]
<1>0. Without(seq, S) = left
  BY DEF Without, Places, Order
<1>1. DOMAIN seq = 1..Len(seq) /\ Len(seq) \in Nat
  <2>1. seq \in Seq(Range(seq))
    BY DEF IsSeq
  <2> QED
    BY <2>1, LenProperties
<1>2. P \in SUBSET (1..Len(seq)) /\ \A i \in P : seq[i] \in Range(seq) \ S
  BY <1>1 DEF Places, Range
<1>3. \A x \in Range(seq) \ S : \E i \in P : seq[i] = x
  BY DEF Places, Range
<1> HIDE DEF P
<1>4. IsFiniteSet(P) /\ n \in Nat /\ n <= Len(seq)
  <2>1. IsFiniteSet(1..Len(seq)) /\ Cardinality(1..Len(seq)) = Len(seq)
    BY <1>1, UpTo
  <2> QED
    BY <1>2, <2>1, FS_Subset, FS_CardinalityType
<1>5. P \in SUBSET Nat
  BY <1>2
<1>6. \A k \in 1..n : place(k) \in P
  <2> SUFFICES ASSUME NEW k \in 1..n PROVE place(k) \in P
    OBVIOUS
  <2>1. \E i \in P : Order(P, i) = k
    BY <1>4, <1>5, OrderOnto
  <2> QED
    BY <2>1
<1>7. \A i \in P : Order(P, i) \in 1..n /\ place(Order(P, i)) = i
  <2> SUFFICES ASSUME NEW i \in P PROVE Order(P, i) \in 1..n /\ place(Order(P, i)) = i
    OBVIOUS
  <2>1. Order(P, i) \in 1..n
    BY <1>4, <1>5, OrderType
  <2>2. place(Order(P, i)) \in P /\ Order(P, place(Order(P, i))) = Order(P, i)
    OBVIOUS
  <2> QED
    BY <1>4, <1>5, <2>1, <2>2, OrderInjective
<1> HIDE DEF place
<1>8. left \in [1..n -> Range(seq)]
  BY <1>2, <1>6
<1>9. left \in Seq(Range(seq)) /\ Len(left) = n
  <2>1. left \in Seq(Range(seq))
    BY <1>4, <1>8, SeqDef
  <2>2. DOMAIN left = 1..Len(left) /\ Len(left) \in Nat
    BY <2>1, LenProperties
  <2>3. 1..Len(left) = 1..n
    BY <2>2
  <2> HIDE DEF left, n
  <2> QED
    BY <1>4, <2>1, <2>2, <2>3, UpToInjective
<1>10. Range(left) = Range(seq) \ S
  <2>1. \A k \in 1..n : left[k] \in Range(seq) \ S
    BY <1>2, <1>6
  <2>2. \A x \in Range(seq) \ S : \E k \in 1..n : left[k] = x
    BY <1>3, <1>7
  <2>3. DOMAIN left = 1..n
    OBVIOUS
  <2> HIDE DEF left, n
  <2> QED
    BY <2>1, <2>2, <2>3 DEF Range
<1>11. IsSeq(left)
  BY <1>9, SeqIsSeq
<1> QED
  BY <1>0, <1>4, <1>9, <1>10, <1>11
-----------------------------------------------------------------------------
(* What leaves a buffer                                                    *)

\* The buffers are sequences within their size.
BufferInv == \A s \in DOMAIN buffer : IsSeq(buffer[s]) /\ Len(buffer[s]) <= MaxBuffer

LEMMA InitBufferInv == Init => BufferInv
BY DEF Init, BufferInv

\* A message is added to a buffer, at most at the cost of the oldest.
LEMMA AddedRange ==
  ASSUME NEW messages, NEW m, IsSeq(messages), Len(messages) <= MaxBuffer
  PROVE  /\ IsSeq(Added(messages, m)) /\ Len(Added(messages, m)) <= MaxBuffer
         /\ \A x \in Range(messages) \ Range(Added(messages, m)) :
               Len(messages) = MaxBuffer /\ x = Head(messages)
<1> DEFINE all == Append(messages, m)
<1>0. MaxBuffer \in Nat /\ MaxBuffer > 0
  BY EncodingAssumption
<1>1. IsSeq(all) /\ Range(all) = Range(messages) \cup {m} /\ Len(messages) \in Nat
  BY AppendRange, SeqIsSeq DEF IsSeq
<1>2. Len(all) = Len(messages) + 1 /\ all # <<>> /\ (messages # <<>> => Head(all) = Head(messages))
  <2> DEFINE T == Range(messages) \cup {m}
  <2>1. messages \in Seq(T) /\ m \in T
    BY SeqMonotonic DEF IsSeq
  <2> HIDE DEF T
  <2> QED
    BY <2>1, AppendProperties, HeadTailAppend
<1> HIDE DEF all
<1>3. CASE Len(all) > MaxBuffer
  <2>1. Added(messages, m) = Tail(all) /\ Len(messages) = MaxBuffer
    BY <1>0, <1>1, <1>2, <1>3 DEF Added, all
  <2>2. IsSeq(Tail(all)) /\ Range(all) = {Head(all)} \cup Range(Tail(all)) /\ Len(Tail(all)) = Len(all) - 1
    BY <1>1, <1>2, TailRange, HeadTailProperties DEF IsSeq
  <2>3. messages # <<>>
    BY <1>0, <2>1, EmptySeq
  <2> QED
    BY <1>0, <1>1, <1>2, <2>1, <2>2, <2>3
<1>4. CASE ~ (Len(all) > MaxBuffer)
  <2>1. Added(messages, m) = all
    BY <1>4 DEF Added, all
  <2> QED
    BY <1>0, <1>1, <1>2, <1>4, <2>1
<1> QED
  BY <1>3, <1>4

LEMMA IngestKeeps ==
  ASSUME BufferInv, NEW s \in Streams, Ingest(s)
  PROVE  /\ BufferInv'
         /\ \A t \in DOMAIN buffer : \A m \in Range(buffer[t]) \ Range(buffer'[t]) :
               Len(buffer[t]) = MaxBuffer /\ m = Head(buffer[t])
<1> DEFINE old == IF Known(s) THEN buffer[s] ELSE <<>>
<1>1. /\ DOMAIN buffer' = DOMAIN buffer \cup {s}
      /\ buffer'[s] = Added(old, next)
      /\ \A t \in DOMAIN buffer \ {s} : buffer'[t] = buffer[t]
  BY DEF Ingest, Buffered
<1>2. IsSeq(old) /\ Len(old) <= MaxBuffer
  <2>1. CASE Known(s)
    BY <2>1 DEF BufferInv, Known
  <2>2. CASE ~ Known(s)
    BY <2>2, EmptyIsSeq, EmptySeq, EncodingAssumption
  <2> QED
    BY <2>1, <2>2
<1>3. s \in DOMAIN buffer => old = buffer[s]
  BY DEF Known
<1> HIDE DEF old
<1>4. /\ IsSeq(buffer'[s]) /\ Len(buffer'[s]) <= MaxBuffer
      /\ \A x \in Range(old) \ Range(buffer'[s]) : Len(old) = MaxBuffer /\ x = Head(old)
  BY <1>1, <1>2, AddedRange
<1>5. BufferInv'
  BY <1>1, <1>4 DEF BufferInv
<1>6. ASSUME NEW t \in DOMAIN buffer, NEW m \in Range(buffer[t]) \ Range(buffer'[t])
      PROVE  Len(buffer[t]) = MaxBuffer /\ m = Head(buffer[t])
  BY <1>1, <1>3, <1>4, <1>6
<1> QED
  BY <1>5, <1>6

LEMMA AnswerKeeps ==
  ASSUME BufferInv, Answer
  PROVE  /\ BufferInv'
         /\ \A s \in DOMAIN buffer : \A m \in Range(buffer[s]) \ Range(buffer'[s]) :
               pc = "llm" /\ s = batch.stream /\ m \in Range(batch.messages)
<1> DEFINE done == batch.messages
<1>1. CASE UNCHANGED buffer
  BY <1>1 DEF BufferInv
<1>2. CASE buffer' = [buffer EXCEPT ![batch.stream] = Acknowledged(@, done)]
  <2>1. /\ DOMAIN buffer' = DOMAIN buffer
        /\ \A s \in DOMAIN buffer :
             buffer'[s] = IF s = batch.stream THEN Without(buffer[s], Range(done)) ELSE buffer[s]
    BY <1>2 DEF Acknowledged
  <2>2. ASSUME NEW s \in DOMAIN buffer
        PROVE  /\ IsSeq(buffer'[s]) /\ Len(buffer'[s]) <= MaxBuffer
               /\ Range(buffer[s]) \ Range(buffer'[s]) \subseteq IF s = batch.stream THEN Range(done) ELSE {}
    <3>1. IsSeq(buffer[s]) /\ Len(buffer[s]) <= MaxBuffer
      BY <2>2 DEF BufferInv
    <3>2. CASE s = batch.stream
      <4>1. buffer'[s] = Without(buffer[s], Range(done))
        BY <2>1, <3>2
      <4>2. /\ IsSeq(buffer'[s]) /\ Len(buffer'[s]) <= Len(buffer[s])
            /\ Range(buffer'[s]) = Range(buffer[s]) \ Range(done)
        BY <3>1, <4>1, WithoutRange
      <4>3. Len(buffer[s]) \in Nat /\ Len(buffer'[s]) \in Nat /\ MaxBuffer \in Nat
        BY <3>1, <4>2, SeqIsSeq, EncodingAssumption DEF IsSeq
      <4> QED
        BY <3>1, <3>2, <4>2, <4>3
    <3>3. CASE s # batch.stream
      BY <2>1, <3>1, <3>3
    <3> QED
      BY <3>2, <3>3
  <2>3. BufferInv'
    BY <2>1, <2>2 DEF BufferInv
  <2> QED
    BY <2>2, <2>3 DEF Answer
<1> QED
  BY <1>1, <1>2 DEF Answer

\* One step keeps the buffers within their size, and takes from them only what
\* was answered for or had to make room.
LEMMA StepBuffers ==
  ASSUME BufferInv, [Next]_vars
  PROVE  /\ BufferInv'
         /\ pc' # "down" =>
              \A s \in DOMAIN buffer : \A m \in Range(buffer[s]) \ Range(buffer'[s]) :
                 \/ pc = "llm" /\ s = batch.stream /\ m \in Range(batch.messages)
                 \/ Len(buffer[s]) = MaxBuffer /\ m = Head(buffer[s])
<1>1. CASE UNCHANGED buffer
  BY <1>1 DEF BufferInv
<1>2. ASSUME NEW s \in Streams, Ingest(s) PROVE BufferInv' /\ \A t \in DOMAIN buffer :
        \A m \in Range(buffer[t]) \ Range(buffer'[t]) : Len(buffer[t]) = MaxBuffer /\ m = Head(buffer[t])
  BY <1>2, IngestKeeps
<1>3. CASE Answer
  BY <1>3, AnswerKeeps
<1>4. CASE Crash
  BY <1>4 DEF Crash, BufferInv
<1>5. CASE UNCHANGED vars \/ Begin \/ Encoded \/ Check \/ Persist \/ Look \/ Write \/ Start
  BY <1>1, <1>5 DEF vars, buffers, Begin, Encoded, Check, Persist, Look, Write, Start
<1>6. CASE Embed \/ Effects \/ Delete \/ \E s \in Streams : Ask(s)
  BY <1>1, <1>6 DEF buffers, Embed, Effects, Delete, Ask
<1>7. CASE EncodingRaises
  BY <1>1, <1>7 DEF EncodingRaises
<1> QED
  BY <1>2, <1>3, <1>4, <1>5, <1>6, <1>7 DEF Next, Cycle

\* A message leaves a buffer only with the batch it was answered in, or as the
\* oldest of a full one: none that came in, or moved up, during the call.
THEOREM NewMessagesKeptHolds == Spec => NewMessagesKept
<1> DEFINE NewKept == pc' # "down" =>
                        \A s \in DOMAIN buffer : \A m \in Range(buffer[s]) \ Range(buffer'[s]) :
                           \/ pc = "llm" /\ s = batch.stream /\ m \in Range(batch.messages)
                           \/ Len(buffer[s]) = MaxBuffer /\ m = Head(buffer[s])
<1>1. BufferInv /\ [Next]_vars => BufferInv' /\ [NewKept]_vars
  BY StepBuffers
<1> QED
  BY InitBufferInv, <1>1, PTL DEF Spec, NewMessagesKept
-----------------------------------------------------------------------------
(* Sequences without repetitions                                           *)

LEMMA TailUnrepeated ==
  ASSUME NEW s, IsSeq(s), s # <<>>, IsInjective(s)
  PROVE  IsInjective(Tail(s)) /\ Head(s) \notin Range(Tail(s))
<1>1. s \in Seq(Range(s)) /\ DOMAIN s = 1..Len(s) /\ Len(s) \in Nat /\ Len(s) # 0
  BY LenProperties, EmptySeq DEF IsSeq
<1>2. /\ Tail(s) \in Seq(Range(s)) /\ Len(Tail(s)) = Len(s) - 1
      /\ \A i \in 1..Len(Tail(s)) : Tail(s)[i] = s[i + 1]
  BY <1>1, HeadTailProperties
<1>3. DOMAIN Tail(s) = 1..Len(Tail(s)) /\ Head(s) = s[1]
  BY <1>1, <1>2, LenProperties
<1>4. ASSUME NEW i \in 1..Len(Tail(s)) PROVE i + 1 \in DOMAIN s /\ i + 1 # 1 /\ Tail(s)[i] = s[i + 1]
  BY <1>1, <1>2
<1>5. ASSUME NEW i \in 1..Len(Tail(s)), NEW j \in 1..Len(Tail(s)), Tail(s)[i] = Tail(s)[j]
      PROVE  i = j
  <2>1. i + 1 = j + 1
    BY <1>4, <1>5 DEF IsInjective
  <2> QED
    BY <2>1
<1>6. ASSUME NEW i \in 1..Len(Tail(s)) PROVE Tail(s)[i] # Head(s)
  <2>1. 1 \in DOMAIN s
    BY <1>1
  <2> QED
    BY <1>3, <1>4, <2>1 DEF IsInjective
<1> QED
  BY <1>3, <1>5, <1>6 DEF IsInjective, Range

LEMMA AppendUnrepeated ==
  ASSUME NEW s, IsSeq(s), IsInjective(s), NEW e, e \notin Range(s)
  PROVE  IsInjective(Append(s, e))
<1> DEFINE S == Range(s) \cup {e}
<1>1. s \in Seq(S) /\ e \in S /\ DOMAIN s = 1..Len(s) /\ Len(s) \in Nat
  BY SeqMonotonic, LenProperties DEF IsSeq
<1>2. \A i \in 1..Len(s) : s[i] # e
  BY <1>1 DEF Range
<1> HIDE DEF S
<1>3. /\ Append(s, e) \in Seq(S) /\ Len(Append(s, e)) = Len(s) + 1
      /\ \A i \in 1..Len(s) : Append(s, e)[i] = s[i]
      /\ Append(s, e)[Len(s) + 1] = e
  BY <1>1, AppendProperties
<1>4. DOMAIN Append(s, e) = 1..(Len(s) + 1)
  BY <1>3, LenProperties
<1>5. ASSUME NEW i \in 1..(Len(s) + 1)
      PROVE  \/ i \in 1..Len(s) /\ Append(s, e)[i] = s[i]
             \/ i = Len(s) + 1 /\ Append(s, e)[i] = e
  BY <1>1, <1>3
<1>6. ASSUME NEW i \in 1..(Len(s) + 1), NEW j \in 1..(Len(s) + 1), Append(s, e)[i] = Append(s, e)[j]
      PROVE  i = j
  <2>1. CASE i \in 1..Len(s) /\ Append(s, e)[i] = s[i]
    BY <1>1, <1>2, <1>5, <1>6, <2>1 DEF IsInjective
  <2>2. CASE i = Len(s) + 1 /\ Append(s, e)[i] = e
    BY <1>2, <1>5, <1>6, <2>2
  <2> QED
    BY <1>5, <2>1, <2>2
<1> QED
  BY <1>4, <1>6 DEF IsInjective

LEMMA ConcatUnrepeated ==
  ASSUME NEW s, NEW t, IsSeq(s), IsSeq(t)
  PROVE  /\ Range(s \o t) = Range(s) \cup Range(t)
         /\ IsInjective(s) /\ IsInjective(t) /\ Range(s) \cap Range(t) = {} => IsInjective(s \o t)
<1> DEFINE S == Range(s) \cup Range(t)
<1>1. s \in Seq(S) /\ t \in Seq(S)
  BY SeqMonotonic DEF IsSeq
<1>2. /\ DOMAIN s = 1..Len(s) /\ Len(s) \in Nat
      /\ DOMAIN t = 1..Len(t) /\ Len(t) \in Nat
  BY <1>1, LenProperties
<1>3. (\A i \in 1..Len(s) : s[i] \in Range(s)) /\ (\A i \in 1..Len(t) : t[i] \in Range(t))
  BY <1>2 DEF Range
<1>4. Range(s) \cup Range(t) \subseteq Range(s \o t)
  BY ConcatRange
<1> HIDE DEF S
<1>5. /\ s \o t \in Seq(S)
      /\ Len(s \o t) = Len(s) + Len(t)
      /\ \A i \in 1..(Len(s) + Len(t)) :
           (s \o t)[i] = IF i <= Len(s) THEN s[i] ELSE t[i - Len(s)]
  BY <1>1, ConcatProperties
<1>6. DOMAIN (s \o t) = 1..(Len(s) + Len(t))
  BY <1>5, LenProperties
<1>7. ASSUME NEW i \in 1..(Len(s) + Len(t))
      PROVE  \/ i \in 1..Len(s) /\ (s \o t)[i] = s[i]
             \/ i - Len(s) \in 1..Len(t) /\ (s \o t)[i] = t[i - Len(s)]
  BY <1>2, <1>5
<1>8. Range(s \o t) \subseteq Range(s) \cup Range(t)
  BY <1>3, <1>6, <1>7 DEF Range
<1>9. ASSUME IsInjective(s), IsInjective(t), Range(s) \cap Range(t) = {},
             NEW i \in 1..(Len(s) + Len(t)), NEW j \in 1..(Len(s) + Len(t)), (s \o t)[i] = (s \o t)[j]
      PROVE  i = j
  <2>1. CASE i \in 1..Len(s) /\ (s \o t)[i] = s[i]
    <3>1. ~ (j - Len(s) \in 1..Len(t) /\ (s \o t)[j] = t[j - Len(s)])
      BY <1>3, <1>9, <2>1
    <3> QED
      BY <1>2, <1>7, <1>9, <2>1, <3>1 DEF IsInjective
  <2>2. CASE i - Len(s) \in 1..Len(t) /\ (s \o t)[i] = t[i - Len(s)]
    <3>1. ~ (j \in 1..Len(s) /\ (s \o t)[j] = s[j])
      BY <1>3, <1>9, <2>2
    <3>2. i - Len(s) = j - Len(s)
      BY <1>2, <1>7, <1>9, <2>2, <3>1 DEF IsInjective
    <3> QED
      BY <1>2, <3>2
  <2> QED
    BY <1>7, <2>1, <2>2
<1> QED
  BY <1>4, <1>6, <1>8, <1>9 DEF IsInjective

LEMMA OrderUnrepeated ==
  ASSUME NEW S, NEW s \in Orders(S)
  PROVE  IsInjective(s)
BY DEF Orders, Bijection, Injection

\* The values of a sequence are not more than its places.
LEMMA RangeBound ==
  ASSUME NEW s, IsSeq(s)
  PROVE  IsFiniteSet(Range(s)) /\ Cardinality(Range(s)) <= Len(s)
<1>1. s \in [1..Len(s) -> Range(s)] /\ DOMAIN s = 1..Len(s) /\ Len(s) \in Nat
  BY LenProperties DEF IsSeq
<1>2. s \in Surjection(1..Len(s), Range(s))
  BY <1>1 DEF Surjection, Range
<1>3. IsFiniteSet(1..Len(s)) /\ Cardinality(1..Len(s)) = Len(s)
  BY <1>1, UpTo
<1> QED
  BY <1>2, <1>3, FS_Surjection
-----------------------------------------------------------------------------
(* The pipeline delivers: what waits                                       *)

\* Each message waits in one place, the batch among them; a batch is asked about
\* in one place only and is no longer than it may be.
WaitInv ==
  /\ BufferInv /\ next \in Nat \ {0}
  /\ todo \subseteq DOMAIN buffer
  /\ IsSeq(batch.messages) /\ Len(batch.messages) <= MaxBatch
  /\ pc # "llm" => Range(batch.messages) = {}
  /\ \A s, t \in DOMAIN buffer : s # t => Range(buffer[s]) \cap Range(buffer[t]) = {}
  /\ \A s \in DOMAIN buffer : s # batch.stream => Range(buffer[s]) \cap Range(batch.messages) = {}

LEMMA NoBatchRange == IsSeq(NoBatch.messages) /\ Range(NoBatch.messages) = {} /\ Len(NoBatch.messages) = 0
BY EmptyIsSeq, EmptySeq DEF NoBatch

LEMMA InitWaitInv == Init => WaitInv
BY InitBufferInv, NoBatchRange, EncodingAssumption DEF Init, WaitInv

\* The oldest messages of a buffer are some of it, and not too many.
LEMMA OldestRange ==
  ASSUME NEW messages, IsSeq(messages)
  PROVE  /\ IsSeq(Oldest(messages)) /\ Len(Oldest(messages)) <= MaxBatch
         /\ Range(Oldest(messages)) \subseteq Range(messages)
<1> DEFINE n == IF Len(messages) < MaxBatch THEN Len(messages) ELSE MaxBatch
<1>1. DOMAIN messages = 1..Len(messages) /\ Len(messages) \in Nat
  BY LenProperties DEF IsSeq
<1>2. n \in Nat /\ n <= Len(messages) /\ n <= MaxBatch
  BY <1>1, EncodingAssumption
<1>3. Oldest(messages) = SubSeq(messages, 1, n)
  BY DEF Oldest
<1> HIDE DEF n
<1>4. \A i \in 1..n : messages[i] \in Range(messages)
  BY <1>1, <1>2 DEF Range
<1>5. SubSeq(messages, 1, n) \in Seq(Range(messages)) /\ Len(SubSeq(messages, 1, n)) = n
  BY <1>2, <1>4, SubSeqProperties
<1> DEFINE oldest == SubSeq(messages, 1, n)
           R == Range(messages)
<1> HIDE DEF oldest, R
<1>6. oldest \in Seq(R) /\ Len(oldest) = n
  BY <1>5 DEF oldest, R
<1>7. IsSeq(oldest) /\ Range(oldest) = {oldest[i] : i \in 1..Len(oldest)}
  BY <1>6, SeqIsSeq
<1>8. Range(oldest) \subseteq R
  BY <1>6, <1>7, LenProperties
<1> QED
  BY <1>2, <1>3, <1>6, <1>7, <1>8 DEF oldest, R

\* What is added to a buffer is in it.
LEMMA AddedHas ==
  ASSUME NEW messages, NEW m, IsSeq(messages)
  PROVE  /\ m \in Range(Added(messages, m))
         /\ Range(Added(messages, m)) \subseteq Range(messages) \cup {m}
<1> DEFINE all == Append(messages, m)
<1>0. MaxBuffer \in Nat /\ MaxBuffer > 0
  BY EncodingAssumption
<1>1. IsSeq(all) /\ Range(all) = Range(messages) \cup {m} /\ Len(messages) \in Nat
  BY AppendRange, SeqIsSeq DEF IsSeq
<1>2. Len(all) = Len(messages) + 1 /\ all[Len(messages) + 1] = m
  BY AppendProperties DEF IsSeq
<1> HIDE DEF all
<1>3. CASE Len(all) > MaxBuffer
  <2>1. Added(messages, m) = Tail(all) /\ all # <<>>
    BY <1>0, <1>3, EmptySeq DEF Added, all
  <2>2. IsSeq(Tail(all)) /\ Range(all) = {Head(all)} \cup Range(Tail(all))
    BY <1>1, <2>1, TailRange
  <2>3. /\ Len(Tail(all)) = Len(all) - 1 /\ DOMAIN Tail(all) = 1..Len(Tail(all))
        /\ \A i \in 1..Len(Tail(all)) : Tail(all)[i] = all[i + 1]
    BY <1>1, <2>1, HeadTailProperties, LenProperties DEF IsSeq
  <2>4. Len(messages) \in 1..Len(Tail(all))
    BY <1>0, <1>1, <1>2, <1>3, <2>3
  <2>5. m \in Range(Tail(all))
    BY <1>2, <2>3, <2>4 DEF Range
  <2> QED
    BY <1>1, <2>1, <2>2, <2>5
<1>4. CASE ~ (Len(all) > MaxBuffer)
  BY <1>1, <1>4 DEF Added, all
<1> QED
  BY <1>3, <1>4

LEMMA WaitingHas ==
  ASSUME NEW m
  PROVE  m \in Waiting <=> (\E s \in DOMAIN buffer : m \in Range(buffer[s])) \/ m \in Range(batch.messages)
BY DEF Waiting

LEMMA WaitingHasNext ==
  ASSUME NEW m
  PROVE  m \in Waiting' <=> (\E s \in DOMAIN buffer' : m \in Range(buffer'[s])) \/ m \in Range(batch'.messages)
BY DEF Waiting

\* A message comes in, at most at the cost of one.
LEMMA IngestWaits ==
  ASSUME WaitInv, Waiting \subseteq 1..(next - 1), NEW s \in Streams, Ingest(s)
  PROVE  /\ WaitInv'
         /\ \E dropped \in SUBSET Waiting : Cardinality(dropped) <= 1 /\ Waiting' = (Waiting \ dropped) \cup {next}
<1> DEFINE old == IF Known(s) THEN buffer[s] ELSE <<>>
           dropped == Waiting \ Waiting'
<1>1. /\ DOMAIN buffer' = DOMAIN buffer \cup {s}
      /\ buffer'[s] = Added(old, next)
      /\ \A t \in DOMAIN buffer \ {s} : buffer'[t] = buffer[t]
      /\ next' = next + 1 /\ UNCHANGED <<pc, todo, batch>>
  BY DEF Ingest, Buffered, cycle
<1>2. IsSeq(old) /\ Len(old) <= MaxBuffer
  <2>1. CASE Known(s)
    BY <2>1 DEF WaitInv, BufferInv, Known
  <2>2. CASE ~ Known(s)
    BY <2>2, EmptyIsSeq, EmptySeq, EncodingAssumption
  <2> QED
    BY <2>1, <2>2
<1>3. /\ Range(old) \subseteq Waiting
      /\ s \in DOMAIN buffer => old = buffer[s]
      /\ \A t \in DOMAIN buffer \ {s} : Range(buffer[t]) \cap Range(old) = {}
      /\ s # batch.stream => Range(old) \cap Range(batch.messages) = {}
  <2>1. CASE Known(s)
    BY <2>1, WaitingHas DEF WaitInv, Known
  <2>2. CASE ~ Known(s)
    BY <2>2, EmptyIsSeq DEF Known
  <2> QED
    BY <2>1, <2>2
<1> HIDE DEF old
<1>4. /\ next \in Range(buffer'[s]) /\ Range(buffer'[s]) \subseteq Range(old) \cup {next}
      /\ \A x \in Range(old) \ Range(buffer'[s]) : x = Head(old)
  BY <1>1, <1>2, AddedHas, AddedRange
<1>5. next \notin Waiting
  BY DEF WaitInv
<1>6. WaitInv'
  <2>1. BufferInv'
    BY IngestKeeps DEF WaitInv
  <2>2. ASSUME NEW t \in DOMAIN buffer' \ {s}
        PROVE  Range(buffer'[t]) \cap Range(buffer'[s]) = {}
    <3>1. t \in DOMAIN buffer /\ buffer'[t] = buffer[t] /\ next \notin Range(buffer[t])
      BY <1>1, <1>5, <2>2, WaitingHas
    <3> QED
      BY <1>3, <1>4, <2>2, <3>1
  <2>3. ASSUME NEW t \in DOMAIN buffer', NEW u \in DOMAIN buffer', t # u
        PROVE  Range(buffer'[t]) \cap Range(buffer'[u]) = {}
    <3>1. CASE t = s \/ u = s
      BY <2>2, <2>3, <3>1
    <3>2. CASE t # s /\ u # s
      BY <1>1, <2>3, <3>2 DEF WaitInv
    <3> QED
      BY <3>1, <3>2
  <2>4. ASSUME NEW t \in DOMAIN buffer', t # batch.stream
        PROVE  Range(buffer'[t]) \cap Range(batch.messages) = {}
    <3>1. CASE t = s
      BY <1>3, <1>4, <1>5, <2>4, <3>1, WaitingHas
    <3>2. CASE t # s
      BY <1>1, <2>4, <3>2 DEF WaitInv
    <3> QED
      BY <3>1, <3>2
  <2> QED
    BY <1>1, <2>1, <2>3, <2>4 DEF WaitInv
<1>7. dropped \subseteq {Head(old)}
  <2> SUFFICES ASSUME NEW x \in Waiting, x \notin Waiting' PROVE x = Head(old)
    OBVIOUS
  <2>1. x \notin Range(batch.messages) /\ \A t \in DOMAIN buffer' : x \notin Range(buffer'[t])
    BY <1>1, WaitingHasNext
  <2>2. PICK t \in DOMAIN buffer : x \in Range(buffer[t])
    BY <2>1, WaitingHas
  <2>3. t = s
    BY <1>1, <2>1, <2>2
  <2> QED
    BY <1>1, <1>3, <1>4, <2>1, <2>2, <2>3
<1>8. Waiting' \subseteq Waiting \cup {next} /\ next \in Waiting'
  <2>1. ASSUME NEW x \in Waiting' PROVE x \in Waiting \cup {next}
    <3>1. CASE x \in Range(batch.messages)
      BY <3>1, WaitingHas
    <3>2. CASE x \notin Range(batch.messages)
      <4>1. PICK t \in DOMAIN buffer' : x \in Range(buffer'[t])
        BY <1>1, <3>2, WaitingHasNext
      <4>2. CASE t = s
        BY <1>3, <1>4, <4>1, <4>2
      <4>3. CASE t # s
        BY <1>1, <4>1, <4>3, WaitingHas
      <4> QED
        BY <4>2, <4>3
    <3> QED
      BY <3>1, <3>2
  <2>2. next \in Waiting'
    BY <1>1, <1>4, WaitingHasNext
  <2> QED
    BY <2>1, <2>2
<1>9. dropped \in SUBSET Waiting /\ Waiting' = (Waiting \ dropped) \cup {next}
  BY <1>8
<1>10. Cardinality(dropped) <= 1
  <2> HIDE DEF dropped
  <2>1. dropped = {} \/ dropped = {Head(old)}
    BY <1>7
  <2>2. Cardinality({}) = 0 /\ Cardinality({Head(old)}) = 1
    BY FS_EmptySet, FS_Singleton
  <2>3. Cardinality(dropped) \in {0, 1}
    BY <2>1, <2>2
  <2> QED
    BY <2>3
<1> QED
  BY <1>6, <1>9, <1>10

\* What is answered for ceases to wait.
LEMMA AnswerWaits ==
  ASSUME WaitInv, Answer
  PROVE  /\ WaitInv'
         /\ Waiting' \subseteq Waiting /\ Waiting \ Waiting' \subseteq Range(batch.messages)
         /\ UNCHANGED work \/ Waiting' = Waiting \ Range(batch.messages)
<1>1. /\ pc' # "llm" /\ UNCHANGED <<next, todo>> /\ BufferInv'
      /\ batch' = NoBatch /\ IsSeq(batch'.messages) /\ Range(batch'.messages) = {} /\ Len(batch'.messages) <= MaxBatch
  <2>1. batch' = NoBatch /\ pc' # "llm" /\ UNCHANGED <<next, todo>>
    BY DEF Answer
  <2>2. BufferInv'
    BY AnswerKeeps DEF WaitInv
  <2> QED
    BY <2>1, <2>2, NoBatchRange, EncodingAssumption
<1>2. CASE UNCHANGED <<work, buffer>>
  <2>1. WaitInv'
    BY <1>1, <1>2 DEF WaitInv
  <2>2. Waiting' \subseteq Waiting /\ Waiting \ Waiting' \subseteq Range(batch.messages)
    BY <1>1, <1>2, WaitingHas, WaitingHasNext
  <2> QED
    BY <1>2, <2>1, <2>2
<1>3. CASE buffer' = [buffer EXCEPT ![batch.stream] = Acknowledged(@, batch.messages)]
  <2>1. DOMAIN buffer' = DOMAIN buffer
    BY <1>3
  <2>2. ASSUME NEW s \in DOMAIN buffer
        PROVE  Range(buffer'[s]) = Range(buffer[s]) \ Range(batch.messages)
    <3>1. CASE s = batch.stream
      <4>1. buffer'[s] = Without(buffer[s], Range(batch.messages)) /\ IsSeq(buffer[s])
        BY <1>3, <2>2, <3>1 DEF Acknowledged, WaitInv, BufferInv
      <4> QED
        BY <4>1, WithoutRange
    <3>2. CASE s # batch.stream
      BY <1>3, <2>2, <3>2 DEF WaitInv
    <3> QED
      BY <3>1, <3>2
  <2>3. WaitInv'
    <3>1. ASSUME NEW t \in DOMAIN buffer', NEW u \in DOMAIN buffer', t # u
          PROVE  Range(buffer'[t]) \cap Range(buffer'[u]) = {}
      BY <2>1, <2>2, <3>1 DEF WaitInv
    <3> QED
      BY <1>1, <2>1, <3>1 DEF WaitInv
  <2>4. ASSUME NEW x PROVE x \in Waiting' <=> x \in Waiting /\ x \notin Range(batch.messages)
    BY <1>1, <2>1, <2>2, WaitingHas, WaitingHasNext
  <2> QED
    BY <2>3, <2>4
<1> QED
  BY <1>2, <1>3 DEF Answer

\* When the encoding raises, nothing is asked about any more.
LEMMA RaiseWaits ==
  ASSUME WaitInv, EncodingRaises
  PROVE  /\ WaitInv'
         /\ Waiting' \subseteq Waiting /\ Waiting \ Waiting' \subseteq Range(batch.messages)
<1>1. /\ pc' # "llm" /\ UNCHANGED <<buffer, next>> /\ todo' = {}
      /\ batch' = NoBatch /\ IsSeq(batch'.messages) /\ Range(batch'.messages) = {} /\ Len(batch'.messages) <= MaxBatch
  BY NoBatchRange, EncodingAssumption DEF EncodingRaises
<1>2. WaitInv'
  BY <1>1 DEF WaitInv, BufferInv
<1> QED
  BY <1>1, <1>2, WaitingHas, WaitingHasNext

\* Messages of the batch are no more than a batch may hold.
LEMMA BatchBound ==
  ASSUME WaitInv, NEW B \in SUBSET Range(batch.messages)
  PROVE  IsFiniteSet(B) /\ Cardinality(B) <= MaxBatch
<1> DEFINE R == Range(batch.messages)
<1>1. IsFiniteSet(R) /\ Cardinality(R) <= Len(batch.messages)
  BY RangeBound DEF WaitInv
<1>2. Len(batch.messages) <= MaxBatch /\ Len(batch.messages) \in Nat /\ MaxBatch \in Nat
  BY SeqIsSeq, EncodingAssumption DEF WaitInv, IsSeq
<1>3. B \in SUBSET R
  OBVIOUS
<1> HIDE DEF R
<1>4. IsFiniteSet(B) /\ Cardinality(B) <= Cardinality(R)
  BY <1>1, <1>3, FS_Subset
<1>5. Cardinality(B) \in Nat /\ Cardinality(R) \in Nat
  BY <1>1, <1>4, FS_CardinalityType
<1> QED
  BY <1>1, <1>2, <1>4, <1>5

LEMMA AskWaits ==
  ASSUME WaitInv, NEW s \in Streams, Ask(s)
  PROVE  WaitInv' /\ Waiting' = Waiting
<1>1. /\ s \in DOMAIN buffer /\ Range(batch.messages) = {} /\ IsSeq(buffer[s])
      /\ pc' = "llm" /\ UNCHANGED <<buffer, next>> /\ todo' \subseteq todo
      /\ batch' = [stream |-> s, messages |-> Oldest(buffer[s])]
  BY DEF WaitInv, BufferInv, Ask, buffers
<1>2. batch'.stream = s /\ batch'.messages = Oldest(buffer[s])
  BY <1>1
<1>3. /\ IsSeq(batch'.messages) /\ Len(batch'.messages) <= MaxBatch
      /\ Range(batch'.messages) \subseteq Range(buffer[s])
  BY <1>1, <1>2, OldestRange
<1>4. WaitInv'
  BY <1>1, <1>2, <1>3 DEF WaitInv, BufferInv
<1>5. ASSUME NEW x PROVE x \in Waiting' <=> x \in Waiting
  BY <1>1, <1>3, WaitingHas, WaitingHasNext
<1> QED
  BY <1>4, <1>5

LEMMA CrashWaits ==
  ASSUME Crash, WaitInv
  PROVE  WaitInv' /\ Waiting' = {}
<1>1. /\ buffer' = [s \in {} |-> <<>>] /\ DOMAIN buffer' = {} /\ todo' = {} /\ batch' = NoBatch /\ UNCHANGED next
  BY DEF Crash
<1>2. WaitInv'
  BY <1>1, NoBatchRange, EncodingAssumption DEF WaitInv, BufferInv
<1>3. ASSUME NEW x PROVE x \notin Waiting'
  BY <1>1, NoBatchRange, WaitingHasNext
<1> QED
  BY <1>2, <1>3

LEMMA OtherWaits ==
  ASSUME WaitInv, UNCHANGED <<buffer, next, batch>>, todo' \in {todo, Ready}, pc' # "llm" \/ UNCHANGED pc, pc # "llm" \/ UNCHANGED pc
  PROVE  WaitInv' /\ Waiting' = Waiting
<1>1. WaitInv'
  BY DEF WaitInv, BufferInv, Ready
<1>2. Waiting' = Waiting
  BY DEF Waiting
<1> QED
  BY <1>1, <1>2
-----------------------------------------------------------------------------
(* The pipeline delivers: what is checked and kept                         *)

\* No atom is twice in the work and the queue.
DistinctInv == IsInjective(work) /\ IsInjective(pending) /\ Range(work) \cap Range(pending) = {}

\* The work on an atom ends; it is a candidate no more, or kept no more.
LEMMA LeaveDelivers ==
  ASSUME QueueInv, DistinctInv, pc \in AtAtom, Proceed(Tail(work)), UNCHANGED pending
  PROVE  /\ DistinctInv'
         /\ pc = "check" => atom \in Candidates /\ Candidates' = Candidates \ {atom} /\ Kept' = Kept
         /\ pc \in Accepted => atom \in Kept /\ Candidates' = Candidates /\ Kept' = Kept \ {atom}
<1>1. work' = Tail(work) /\ Range(work) = {atom} \cup Range(work') /\ IsSeq(work) /\ work # <<>>
  BY ProceedFromAtom DEF QueueInv, IInv, Proceed
<1>2. IsInjective(work') /\ atom \notin Range(work')
  BY <1>1, TailUnrepeated DEF DistinctInv, atom
<1>3. DistinctInv'
  BY <1>1, <1>2 DEF DistinctInv
<1>4. atom \notin Range(pending)
  BY <1>1 DEF DistinctInv
<1>5. CASE retrying
  <2>1. pc \in Accepted /\ pc # "check"
    BY <1>5 DEF QueueInv, AtCommit, Accepted
  <2>2. Candidates = {} /\ Kept = Range(pending) \cup Range(work)
    BY <1>5 DEF Candidates, Kept
  <2>3. CASE work' # <<>>
    <3>1. retrying'
      BY <1>1, <1>5, <2>3 DEF Proceed
    <3>2. Candidates' = {} /\ Kept' = Range(pending) \cup Range(work')
      BY <3>1 DEF Candidates, Kept
    <3> QED
      BY <1>1, <1>2, <1>3, <1>4, <2>1, <2>2, <3>2
  <2>4. CASE work' = <<>>
    <3>1. ~ retrying' /\ pc' \notin Accepted /\ Range(work') = {}
      BY <1>1, <1>5, <2>4, EmptyIsSeq DEF Proceed, Accepted
    <3>2. Candidates' = {} /\ Kept' = Range(pending)
      BY <3>1 DEF Candidates, Kept
    <3> QED
      BY <1>1, <1>2, <1>3, <1>4, <2>1, <2>2, <3>1, <3>2
  <2> QED
    BY <2>3, <2>4
<1>6. CASE ~ retrying
  <2>1. ~ retrying' /\ pc' \notin Accepted
    BY <1>1, <1>6 DEF Proceed, Accepted
  <2>2. Candidates' = Range(work') /\ Kept' = Range(pending)
    BY <2>1 DEF Candidates, Kept
  <2>3. CASE pc = "check"
    <3>1. Candidates = Range(work) /\ Kept = Range(pending) /\ pc \notin Accepted
      BY <1>6, <2>3 DEF Candidates, Kept, Accepted
    <3> QED
      BY <1>1, <1>2, <1>3, <2>2, <3>1
  <2>4. CASE pc \in Accepted
    <3>1. Candidates = Range(work') /\ Kept = Range(pending) \cup {atom} /\ pc # "check"
      BY <1>1, <1>6, <2>4 DEF Candidates, Kept, Accepted
    <3> QED
      BY <1>3, <1>4, <2>2, <3>1
  <2> QED
    BY <1>3, <2>3, <2>4
<1> QED
  BY <1>5, <1>6

\* The cycle goes on with an accepted atom.
LEMMA StayDelivers ==
  ASSUME QueueInv, pc \in Accepted
  PROVE  /\ atom \in Kept
         /\ pc' \in Accepted /\ UNCHANGED <<work, retrying, pending>> =>
              (DistinctInv => DistinctInv') /\ Candidates' = Candidates /\ Kept' = Kept
<1>1. atom \in Range(work)
  BY TailRange DEF QueueInv, IInv, AtAtom, Accepted, atom
<1>2. atom \in Kept
  BY <1>1 DEF Kept
<1>3. ASSUME pc' \in Accepted, UNCHANGED <<work, retrying, pending>>
      PROVE  (DistinctInv => DistinctInv') /\ Candidates' = Candidates /\ Kept' = Kept
  BY <1>3 DEF DistinctInv, Candidates, Kept, atom
<1> QED
  BY <1>2, <1>3

\* An accepted atom goes back to the queue.
LEMMA KeepDelivers ==
  ASSUME QueueInv, DistinctInv, pc \in Accepted, Keep
  PROVE  DistinctInv' /\ Candidates' = Candidates /\ Kept' = Kept
<1>0. pc \in AtAtom /\ pc # "check"
  BY DEF Accepted, AtAtom
<1>1. /\ work' = Tail(work) /\ Range(work) = {atom} \cup Range(work') /\ IsSeq(work) /\ work # <<>>
      /\ pending' = Append(pending, atom) /\ IsSeq(pending)
  BY <1>0, ProceedFromAtom DEF QueueInv, IInv, Proceed, Keep
<1>2. IsInjective(work') /\ atom \notin Range(work') /\ atom \notin Range(pending)
  BY <1>1, TailUnrepeated DEF DistinctInv, atom
<1>3. Range(pending') = Range(pending) \cup {atom} /\ IsInjective(pending')
  BY <1>1, <1>2, AppendRange, AppendUnrepeated DEF DistinctInv
<1>4. DistinctInv'
  BY <1>1, <1>2, <1>3 DEF DistinctInv
<1>5. CASE retrying
  <2>1. Candidates = {} /\ Kept = Range(pending) \cup Range(work)
    BY <1>5 DEF Candidates, Kept
  <2>2. CASE work' # <<>>
    <3>1. retrying'
      BY <1>1, <1>5, <2>2 DEF Keep, Proceed
    <3>2. Candidates' = {} /\ Kept' = Range(pending') \cup Range(work')
      BY <3>1 DEF Candidates, Kept
    <3> QED
      BY <1>1, <1>3, <1>4, <2>1, <3>2
  <2>3. CASE work' = <<>>
    <3>1. ~ retrying' /\ pc' \notin Accepted /\ Range(work') = {}
      BY <1>1, <1>5, <2>3, EmptyIsSeq DEF Keep, Proceed, Accepted
    <3>2. Candidates' = {} /\ Kept' = Range(pending')
      BY <3>1 DEF Candidates, Kept
    <3> QED
      BY <1>1, <1>3, <1>4, <2>1, <3>1, <3>2
  <2> QED
    BY <2>2, <2>3
<1>6. CASE ~ retrying
  <2>1. ~ retrying' /\ pc' \notin Accepted
    BY <1>1, <1>6 DEF Keep, Proceed, Accepted
  <2>2. Candidates' = Range(work') /\ Kept' = Range(pending')
    BY <2>1 DEF Candidates, Kept
  <2>3. Candidates = Range(work') /\ Kept = Range(pending) \cup {atom}
    BY <1>1, <1>6 DEF Candidates, Kept
  <2> QED
    BY <1>3, <1>4, <2>2, <2>3
<1> QED
  BY <1>5, <1>6

\* The cycle is at no accepted atom, before the step and after it.
LEMMA RestDelivers ==
  ASSUME ~ retrying, ~ retrying', pc \notin Accepted, pc' \notin Accepted, UNCHANGED <<work, pending>>
  PROVE  (DistinctInv => DistinctInv') /\ Candidates' = Candidates /\ Kept' = Kept
BY DEF DistinctInv, Candidates, Kept

\* A cycle begins with what is in the queue and what the outbox brings back.
LEMMA BeginDelivers ==
  ASSUME QueueInv, DistinctInv, Begin
  PROVE  /\ DistinctInv' /\ Candidates' = Candidates
         /\ \E atoms \in SUBSET outbox : Kept' = Kept \cup atoms
<1>1. work = <<>> /\ Range(work) = {} /\ IsSeq(pending) /\ ~ retrying /\ pc = "idle"
  BY EmptyIsSeq DEF QueueInv, IInv, Begin, AtCommit
<1>2. Candidates = {} /\ Kept = Range(pending)
  BY <1>1 DEF Candidates, Kept, Accepted
<1>3. CASE UNCHANGED <<pc, work, retrying, pending>>
  <2>1. DistinctInv' /\ Candidates' = Candidates /\ Kept' = Kept \cup {}
    BY <1>1, <1>3, RestDelivers DEF Accepted
  <2> QED
    BY <2>1
<1>4. CASE /\ \E bad \in SUBSET Recovered : \E atoms \in Orders(Recovered \ bad) : work' = pending \o atoms
           /\ pending' = <<>>
           /\ IF work' # <<>> THEN pc' = "look" /\ retrying' = TRUE ELSE pc' = "encode" /\ UNCHANGED retrying
  <2>0. PICK read \in SUBSET Recovered : \E atoms \in Orders(read) : work' = pending \o atoms
    BY <1>4
  <2>1. PICK atoms \in Orders(read) : work' = pending \o atoms
    BY <2>0
  <2>2. IsSeq(atoms) /\ Range(atoms) = read /\ IsInjective(atoms)
    BY <2>1, OrderIsSeq, OrderRange, OrderUnrepeated
  <2>3. read \subseteq outbox /\ Range(pending) \cap read = {}
    BY DEF Recovered
  <2>4. IsInjective(work') /\ Range(work') = Range(pending) \cup read
    BY <1>1, <2>1, <2>2, <2>3, ConcatUnrepeated DEF DistinctInv
  <2>5. Range(pending') = {} /\ IsInjective(pending')
    BY <1>1, <1>4, EmptyIsSeq DEF DistinctInv
  <2>6. DistinctInv'
    BY <2>4, <2>5 DEF DistinctInv
  <2>7. CASE work' # <<>>
    <3>1. Candidates' = {} /\ Kept' = Range(pending') \cup Range(work')
      BY <1>4, <2>7 DEF Candidates, Kept
    <3> QED
      BY <1>2, <2>3, <2>4, <2>5, <2>6, <3>1
  <2>8. CASE work' = <<>>
    <3>1. ~ retrying' /\ pc' \notin Accepted /\ Range(work') = {}
      BY <1>1, <1>4, <2>8, EmptyIsSeq DEF Accepted
    <3>2. Candidates' = {} /\ Kept' = Range(pending')
      BY <3>1 DEF Candidates, Kept
    <3> QED
      BY <1>2, <2>3, <2>4, <2>5, <2>6, <3>1, <3>2
  <2> QED
    BY <2>7, <2>8
<1> QED
  BY <1>3, <1>4 DEF Begin
-----------------------------------------------------------------------------
(* The pipeline delivers                                                   *)

\* The cardinalities that AtomDelivery speaks of are those spoken of here.
LEMMA DeliveryOperators == \A S : Delivery!Cardinality(S) = Cardinality(S)
BY DEF Cardinality, Delivery!Cardinality, IsFiniteSet, Delivery!IsFiniteSet

\* What AtomDelivery allows makes no message into an atom twice.
LEMMA OnceStep ==
  ASSUME next \in Nat \ {0}, Delivery!Once, [Delivery!Next]_(Delivery!vars)
  PROVE  Delivery!Once'
<1> DEFINE received == next - 1
<1>1. received \in Nat
  OBVIOUS
<1>2. CASE Delivery!Receive
  <2>1. /\ received' = received + 1 /\ UNCHANGED <<Candidates, Kept, outbox, logged, rows>>
        /\ \E dropped \in SUBSET Waiting : Waiting' = (Waiting \ dropped) \cup {received'}
    BY <1>2 DEF Delivery!Receive
  <2> HIDE DEF received
  <2>2. 1..received \subseteq 1..received' /\ received' \in 1..received' /\ received' \notin 1..received
    BY <1>1, <2>1
  <2>3. /\ Waiting \cup Candidates \cup Kept \cup outbox \cup logged \cup rows \subseteq 1..received
        /\ Waiting \cap Candidates = {}
        /\ (Waiting \cup Candidates) \cap (Kept \cup outbox \cup logged \cup rows) = {}
    BY DEF Delivery!Once, Delivery!Accepted, received
  <2>4. /\ Waiting' \cup Candidates' \cup Kept' \cup outbox' \cup logged' \cup rows' \subseteq 1..received'
        /\ Waiting' \cap Candidates' = {}
        /\ (Waiting' \cup Candidates') \cap (Kept' \cup outbox' \cup logged' \cup rows') = {}
    BY <2>1, <2>2, <2>3
  <2> QED
    BY <2>4 DEF Delivery!Once, Delivery!Accepted, received
<1>3. CASE Delivery!Answer
  BY <1>3 DEF Delivery!Answer, Delivery!Once, Delivery!Accepted
<1>4. ASSUME NEW a \in Candidates, Delivery!Judge(a) PROVE Delivery!Once'
  BY <1>4 DEF Delivery!Judge, Delivery!Once, Delivery!Accepted
<1>5. ASSUME NEW a \in Kept, Delivery!Record(a) \/ Delivery!Write(a) \/ Delivery!Release(a)
      PROVE  Delivery!Once'
  BY <1>5 DEF Delivery!Record, Delivery!Write, Delivery!Release, Delivery!Once, Delivery!Accepted
<1>6. CASE Delivery!Recover
  BY <1>6 DEF Delivery!Recover, Delivery!Once, Delivery!Accepted
<1>7. CASE Delivery!Die
  BY <1>7 DEF Delivery!Die, Delivery!Once, Delivery!Accepted
<1>8. CASE Delivery!Replay
  BY <1>8 DEF Delivery!Replay, Delivery!Once, Delivery!Accepted
<1>9. CASE UNCHANGED Delivery!vars
  BY <1>9 DEF Delivery!vars, Delivery!Once, Delivery!Accepted
<1> QED
  BY <1>2, <1>3, <1>4, <1>5, <1>6, <1>7, <1>8, <1>9 DEF Delivery!Next

\* The invariant of the refinement.
LifeInv == QueueInv /\ WaitInv /\ DistinctInv /\ Delivery!Once

LEMMA InitLifeInv == Init => LifeInv /\ Delivery!Init
<1> SUFFICES ASSUME Init PROVE LifeInv /\ Delivery!Init
  OBVIOUS
<1>1. QueueInv /\ WaitInv
  BY InitQueueInv, InitWaitInv
<1>2. Range(<<>>) = {} /\ IsInjective(<<>>)
  BY EmptyIsSeq DEF IsInjective
<1>3. DistinctInv
  BY <1>2 DEF Init, DistinctInv
<1>4. Waiting = {} /\ Candidates = {} /\ Kept = {}
  BY <1>2, NoBatchRange, WaitingHas DEF Init, Candidates, Kept, Accepted
<1>5. Delivery!Init
  BY <1>4 DEF Init, Delivery!Init
<1>6. Delivery!Once
  BY <1>4 DEF Init, Delivery!Once, Delivery!Accepted
<1> QED
  BY <1>1, <1>3, <1>5, <1>6 DEF LifeInv

\* Each step of the pipeline is one that AtomDelivery allows, or none.
LEMMA LifeStep ==
  ASSUME LifeInv, [Next]_vars
  PROVE  DistinctInv' /\ WaitInv' /\ [Delivery!Next]_(Delivery!vars)
<1> DEFINE Goal == DistinctInv' /\ WaitInv' /\ [Delivery!Next]_(Delivery!vars)
<1>0. QueueInv /\ WaitInv /\ DistinctInv /\ (retrying => pc \in AtCommit) /\ next \in Nat \ {0}
  BY DEF LifeInv, QueueInv, WaitInv
<1>1. ASSUME NEW s \in Streams, Ingest(s) PROVE Goal
  <2>1. Waiting \subseteq 1..(next - 1)
    BY DEF LifeInv, Delivery!Once
  <2>2. /\ WaitInv'
        /\ \E dropped \in SUBSET Waiting :
             Cardinality(dropped) <= 1 /\ Waiting' = (Waiting \ dropped) \cup {next}
    BY <1>0, <1>1, <2>1, IngestWaits
  <2>3. DistinctInv' /\ Candidates' = Candidates /\ Kept' = Kept
    BY <1>0, <1>1 DEF Ingest, cycle, queue, DistinctInv, Candidates, Kept, atom
  <2>4. next' - 1 = (next - 1) + 1 /\ next' - 1 = next /\ UNCHANGED <<outbox, logged, rows>>
    BY <1>0, <1>1 DEF Ingest, stored
  <2>5. UNCHANGED <<Candidates, Kept, outbox, logged, rows>>
    BY <2>3, <2>4
  <2>6. \E dropped \in SUBSET Waiting :
          Cardinality(dropped) <= 1 /\ Waiting' = (Waiting \ dropped) \cup {next' - 1}
    BY <2>2, <2>4
  <2>7. Delivery!Receive
    BY <2>4, <2>5, <2>6, DeliveryOperators, Zenon DEF Delivery!Receive
  <2> QED
    BY <2>2, <2>3, <2>7 DEF Delivery!Next
<1>2. CASE Begin
  <2>1. /\ DistinctInv' /\ Candidates' = Candidates
        /\ \E atoms \in SUBSET outbox : Kept' = Kept \cup atoms
    BY <1>0, <1>2, BeginDelivers
  <2>2. UNCHANGED <<buffer, next, batch, outbox, logged, rows>> /\ todo' \in {todo, Ready} /\ pc = "idle" /\ pc' # "llm"
    BY <1>2 DEF Begin, stored
  <2>3. WaitInv' /\ Waiting' = Waiting
    BY <1>0, <2>2, OtherWaits
  <2>4. Delivery!Recover
    BY <2>1, <2>2, <2>3 DEF Delivery!Recover
  <2> QED
    BY <2>1, <2>3, <2>4 DEF Delivery!Next
<1>3. ASSUME NEW s \in Streams, Ask(s) PROVE Goal
  <2>1. WaitInv' /\ Waiting' = Waiting
    BY <1>0, <1>3, AskWaits
  <2>2. /\ pc = "encode" /\ pc' = "llm" /\ UNCHANGED <<next, work, retrying, pending, outbox, logged, rows>>
    BY <1>3 DEF Ask, buffers, queue, stored
  <2>3. DistinctInv' /\ Candidates' = Candidates /\ Kept' = Kept
    BY <1>0, <2>2, RestDelivers DEF Accepted, AtCommit
  <2> QED
    BY <2>1, <2>2, <2>3 DEF Delivery!vars
<1>4. CASE Answer
  <2>1. /\ WaitInv' /\ Waiting' \subseteq Waiting /\ Waiting \ Waiting' \subseteq Range(batch.messages)
        /\ UNCHANGED work \/ Waiting' = Waiting \ Range(batch.messages)
    BY <1>0, <1>4, AnswerWaits
  <2>2. /\ pc = "llm" /\ pc' = "encode" /\ ~ retrying /\ ~ retrying'
        /\ UNCHANGED <<next, pending, outbox, logged, rows>>
    BY <1>0, <1>4 DEF Answer, AtCommit, queue, stored
  <2>3. IsFiniteSet(Waiting \ Waiting') /\ Cardinality(Waiting \ Waiting') <= MaxBatch
    BY <1>0, <2>1, BatchBound
  <2>4. /\ DistinctInv' /\ Kept' = Kept
        /\ \E atoms \in SUBSET (Waiting \ Waiting') : Candidates' = Candidates \cup atoms
    <3>1. Candidates = Range(work) /\ Candidates' = Range(work') /\ Kept' = Kept
      BY <2>2 DEF Candidates, Kept, Accepted
    <3>2. CASE UNCHANGED work
      BY <1>0, <2>2, <3>1, <3>2 DEF DistinctInv
    <3>3. CASE /\ \E atoms \in Extractions(batch.messages) : work' = work \o atoms
               /\ Waiting' = Waiting \ Range(batch.messages)
      <4>1. PICK atoms \in Extractions(batch.messages) : work' = work \o atoms
        BY <3>3
      <4>2. PICK some \in SUBSET Range(batch.messages) : atoms \in Orders(some)
        BY <4>1 DEF Extractions
      <4>3. IsSeq(atoms) /\ Range(atoms) = some /\ IsInjective(atoms)
        BY <4>2, OrderIsSeq, OrderRange, OrderUnrepeated
      <4>4. some \subseteq Waiting /\ some \subseteq Waiting \ Waiting'
        BY <3>3, <4>2, WaitingHas
      <4>5. Range(work) \cap some = {} /\ Range(pending) \cap some = {}
        BY <3>1, <4>4 DEF LifeInv, Delivery!Once, Delivery!Accepted, Kept
      <4>6. IsSeq(work)
        BY <1>0 DEF QueueInv, IInv
      <4>7. IsInjective(work') /\ Range(work') = Range(work) \cup some
        BY <1>0, <4>1, <4>3, <4>5, <4>6, ConcatUnrepeated DEF DistinctInv
      <4>8. DistinctInv'
        BY <1>0, <2>2, <4>5, <4>7 DEF DistinctInv
      <4> QED
        BY <3>1, <4>4, <4>7, <4>8
    <3> QED
      BY <1>4, <2>1, <3>2, <3>3 DEF Answer
  <2>5. Delivery!Answer
    <3>1. UNCHANGED <<next - 1, Kept, outbox, logged, rows>>
      BY <2>2, <2>4
    <3>2. Waiting \ Waiting' \in SUBSET Waiting /\ Waiting' = Waiting \ (Waiting \ Waiting')
      BY <2>1
    <3> QED
      BY <2>3, <2>4, <3>1, <3>2, DeliveryOperators, Zenon DEF Delivery!Answer
  <2> QED
    BY <2>1, <2>4, <2>5 DEF Delivery!Next
<1>5. CASE Encoded
  <2>1. /\ pc = "encode" /\ pc' \notin Accepted /\ pc' # "llm" /\ ~ retrying /\ ~ retrying'
        /\ todo' \in {todo, Ready} /\ UNCHANGED <<buffer, next, batch, work, pending, outbox, logged, rows>>
    BY <1>0, <1>5 DEF Encoded, Proceed, Accepted, AtCommit, queue, stored
  <2>2. WaitInv' /\ Waiting' = Waiting
    BY <1>0, <2>1, OtherWaits
  <2>3. DistinctInv' /\ Candidates' = Candidates /\ Kept' = Kept
    BY <1>0, <2>1, RestDelivers DEF Accepted
  <2> QED
    BY <2>1, <2>2, <2>3 DEF Delivery!vars
<1>6. ASSUME pc \in AtAtom, Proceed(Tail(work)) \/ (pc' \in AtAtom /\ UNCHANGED todo), UNCHANGED <<buffer, next, batch>>
      PROVE  WaitInv' /\ Waiting' = Waiting /\ UNCHANGED (next - 1)
  <2>1. todo' \in {todo, Ready} /\ pc # "llm" /\ pc' # "llm"
    BY <1>6 DEF Proceed, AtAtom
  <2> QED
    BY <1>0, <1>6, <2>1, OtherWaits
<1>7. CASE Check
  <2>1. pc = "check" /\ ~ retrying /\ UNCHANGED <<buffer, next, batch, pending, outbox, logged, rows>>
    BY <1>0, <1>7 DEF Check, AtCommit, queue, stored
  <2>2. CASE Proceed(Tail(work))
    <3>1. WaitInv' /\ Waiting' = Waiting /\ UNCHANGED (next - 1)
      BY <1>6, <2>1, <2>2 DEF AtAtom
    <3>2. DistinctInv' /\ atom \in Candidates /\ Candidates' = Candidates \ {atom} /\ Kept' = Kept
      BY <1>0, <2>1, <2>2, LeaveDelivers DEF AtAtom
    <3>3. Delivery!Judge(atom)
      BY <2>1, <3>1, <3>2 DEF Delivery!Judge
    <3> QED
      BY <3>1, <3>2, <3>3 DEF Delivery!Next
  <2>3. CASE pc' = "persist" /\ UNCHANGED <<todo, work, retrying>>
    <3>1. WaitInv' /\ Waiting' = Waiting /\ UNCHANGED (next - 1)
      BY <1>6, <2>1, <2>3 DEF AtAtom
    <3>2. /\ Range(work) = {atom} \cup Range(Tail(work)) /\ IsSeq(work) /\ work # <<>> /\ IsInjective(work)
      BY <1>0, <2>1, TailRange DEF QueueInv, IInv, AtAtom, DistinctInv, atom
    <3>3. atom \notin Range(Tail(work))
      BY <3>2, TailUnrepeated DEF atom
    <3>4. atom' = atom /\ DistinctInv'
      BY <1>0, <2>1, <2>3 DEF atom, DistinctInv
    <3>5. Candidates = Range(work) /\ Candidates' = Range(Tail(work)) /\ Kept = Range(pending) /\ Kept' = Range(pending) \cup {atom}
      BY <2>1, <2>3, <3>4 DEF Candidates, Kept, Accepted
    <3>6. Candidates' = Candidates \ {atom} /\ atom \in Candidates /\ Kept' = Kept \cup {atom}
      BY <3>2, <3>3, <3>5
    <3>7. Delivery!Judge(atom)
      BY <2>1, <3>1, <3>6 DEF Delivery!Judge
    <3> QED
      BY <3>1, <3>4, <3>6, <3>7 DEF Delivery!Next
  <2> QED
    BY <1>7, <2>2, <2>3 DEF Check
<1>8. ASSUME pc \in Accepted, Keep \/ (pc' \in Accepted /\ UNCHANGED <<todo, work, retrying, pending>>), UNCHANGED <<buffer, next, batch>>
      PROVE  /\ WaitInv' /\ DistinctInv' /\ UNCHANGED <<next - 1, Waiting, Candidates, Kept>>
             /\ atom \in Kept
  <2>1. pc \in AtAtom /\ (pc' \in Accepted => pc' \in AtAtom)
    BY <1>8 DEF Accepted, AtAtom
  <2>2. WaitInv' /\ Waiting' = Waiting /\ UNCHANGED (next - 1)
    BY <1>6, <1>8, <2>1 DEF Keep
  <2>3. DistinctInv' /\ Candidates' = Candidates /\ Kept' = Kept /\ atom \in Kept
    BY <1>0, <1>8, KeepDelivers, StayDelivers
  <2> QED
    BY <2>2, <2>3
<1>9. CASE Persist
  <2>1. pc = "persist" /\ UNCHANGED <<buffer, next, batch, logged, rows>> /\ outbox' \in {outbox, outbox \cup {atom}}
    BY <1>9 DEF Persist, stored
  <2>2. /\ WaitInv' /\ DistinctInv' /\ UNCHANGED <<next - 1, Waiting, Candidates, Kept>>
        /\ atom \in Kept
    BY <1>8, <1>9, <2>1 DEF Persist, Accepted
  <2>3. CASE UNCHANGED outbox
    BY <2>1, <2>2, <2>3 DEF Delivery!vars
  <2>4. CASE outbox' = outbox \cup {atom}
    <3>1. Delivery!Record(atom)
      BY <2>1, <2>2, <2>4 DEF Delivery!Record
    <3> QED
      BY <2>2, <3>1 DEF Delivery!Next
  <2> QED
    BY <2>1, <2>3, <2>4
<1>10. CASE Look
  <2>1. pc = "look" /\ UNCHANGED <<buffer, next, batch, outbox, rows>> /\ logged' \in {logged, logged \cup {atom}}
    BY <1>10 DEF Look
  <2>2. /\ WaitInv' /\ DistinctInv' /\ UNCHANGED <<next - 1, Waiting, Candidates, Kept>>
        /\ atom \in Kept
    BY <1>8, <1>10, <2>1 DEF Look, Accepted
  <2>3. Delivery!Write(atom)
    BY <2>1, <2>2 DEF Delivery!Write
  <2> QED
    BY <2>2, <2>3 DEF Delivery!Next
<1>11. CASE Write
  <2>1. /\ pc = "write" /\ UNCHANGED <<buffer, next, batch, outbox>>
        /\ rows' \in {rows, rows \cup {atom}} /\ logged' \in {logged, logged \cup {atom}}
    BY <1>11 DEF Write
  <2>2. /\ WaitInv' /\ DistinctInv' /\ UNCHANGED <<next - 1, Waiting, Candidates, Kept>>
        /\ atom \in Kept
    BY <1>8, <1>11, <2>1 DEF Write, Accepted
  <2>3. Delivery!Write(atom)
    BY <2>1, <2>2 DEF Delivery!Write
  <2> QED
    BY <2>2, <2>3 DEF Delivery!Next
<1>12. CASE Embed \/ Effects
  <2>1. /\ pc \in Accepted /\ pc' \in Accepted /\ UNCHANGED <<todo, work, retrying, pending>>
        /\ UNCHANGED <<buffer, next, batch, outbox, logged, rows>>
    BY <1>12 DEF Embed, Effects, Accepted, buffers, cycle, queue, stored
  <2> QED
    BY <1>8, <2>1 DEF Delivery!vars
<1>13. CASE Delete
  <2>1. pc = "delete" /\ UNCHANGED <<buffer, next, batch, logged, rows>> /\ atom \in rows
    BY <1>0, <1>13 DEF Delete, stored, QueueInv, IInv, AfterWrite
  <2>2. CASE outbox' = outbox \ {atom} /\ Proceed(Tail(work)) /\ UNCHANGED pending
    <3>1. WaitInv' /\ Waiting' = Waiting /\ UNCHANGED (next - 1)
      BY <1>6, <2>1, <2>2 DEF AtAtom
    <3>2. DistinctInv' /\ atom \in Kept /\ Candidates' = Candidates /\ Kept' = Kept \ {atom}
      BY <1>0, <2>1, <2>2, LeaveDelivers DEF AtAtom, Accepted
    <3>3. Delivery!Release(atom)
      BY <2>1, <2>2, <3>1, <3>2 DEF Delivery!Release
    <3> QED
      BY <3>1, <3>2, <3>3 DEF Delivery!Next
  <2>3. CASE Keep /\ UNCHANGED outbox
    BY <1>8, <2>1, <2>3 DEF Accepted, Delivery!vars
  <2> QED
    BY <1>13, <2>2, <2>3 DEF Delete
<1>14. CASE Crash
  <2>1. WaitInv' /\ Waiting' = {}
    BY <1>0, <1>14, CrashWaits
  <2>2. /\ pc' = "down" /\ work' = <<>> /\ pending' = <<>> /\ ~ retrying' /\ UNCHANGED <<next, outbox, rows>>
        /\ logged' = IF pc = "write" THEN logged \cup {atom} ELSE logged
    BY <1>14 DEF Crash
  <2>3. Range(<<>>) = {} /\ IsInjective(<<>>)
    BY EmptyIsSeq DEF IsInjective
  <2>4. DistinctInv' /\ Candidates' = {} /\ Kept' = {}
    BY <2>2, <2>3 DEF DistinctInv, Candidates, Kept, Accepted
  <2>5. pc = "write" => atom \in Kept
    BY <1>0, StayDelivers DEF Accepted
  <2>6. \E trace \in SUBSET Kept : Cardinality(trace) <= 1 /\ logged' = logged \cup trace
    <3>1. Cardinality({}) <= 1 /\ Cardinality({atom}) <= 1
      <4>1. Cardinality({}) = 0 /\ Cardinality({atom}) = 1
        BY FS_EmptySet, FS_Singleton
      <4> QED
        BY <4>1
    <3>2. CASE pc = "write"
      BY <2>2, <2>5, <3>1, <3>2
    <3>3. CASE pc # "write"
      <4>1. {} \in SUBSET Kept /\ logged' = logged \cup {}
        BY <2>2, <3>3
      <4> QED
        BY <3>1, <4>1
    <3> QED
      BY <3>2, <3>3
  <2>7. UNCHANGED <<next - 1, outbox, rows>>
    BY <2>2
  <2>8. Delivery!Die
    BY <2>1, <2>4, <2>6, <2>7, DeliveryOperators, Zenon DEF Delivery!Die
  <2> QED
    BY <2>1, <2>4, <2>8 DEF Delivery!Next
<1>15. CASE Start
  <2>1. /\ pc = "down" /\ pc' = "idle" /\ ~ retrying /\ ~ retrying'
        /\ UNCHANGED <<buffer, next, batch, todo, work, pending, outbox>>
        /\ \E done \in SUBSET logged : rows' = rows \cup done /\ logged' = logged \ done
    BY <1>0, <1>15 DEF Start, AtCommit, buffers, cycle, queue
  <2>2. WaitInv' /\ Waiting' = Waiting
    BY <1>0, <2>1, OtherWaits
  <2>3. DistinctInv' /\ Candidates' = Candidates /\ Kept' = Kept
    BY <1>0, <2>1, RestDelivers DEF Accepted
  <2>4. Delivery!Replay
    BY <2>1, <2>2, <2>3 DEF Delivery!Replay
  <2> QED
    BY <2>2, <2>3, <2>4 DEF Delivery!Next
<1>16. CASE UNCHANGED vars
  <2>1. UNCHANGED <<pc, buffer, next, batch, todo, work, retrying, pending, outbox, logged, rows>>
    BY <1>16 DEF vars, buffers, cycle, queue, stored
  <2>2. WaitInv' /\ Waiting' = Waiting
    BY <1>0, <2>1, OtherWaits
  <2>3. DistinctInv' /\ Candidates' = Candidates /\ Kept' = Kept
    BY <1>0, <2>1 DEF DistinctInv, Candidates, Kept, atom
  <2> QED
    BY <2>1, <2>2, <2>3 DEF Delivery!vars
<1>17. CASE EncodingRaises
  <2>1. WaitInv' /\ Waiting' \subseteq Waiting /\ Waiting \ Waiting' \subseteq Range(batch.messages)
    BY <1>0, <1>17, RaiseWaits
  <2>2. /\ pc \in {"encode", "llm"} /\ pc' = "idle" /\ ~ retrying /\ ~ retrying' /\ work' = <<>>
        /\ UNCHANGED <<next, pending, outbox, logged, rows>>
    BY <1>0, <1>17 DEF EncodingRaises, AtCommit, queue, stored
  <2>3. IsFiniteSet(Waiting \ Waiting') /\ Cardinality(Waiting \ Waiting') <= MaxBatch
    BY <1>0, <2>1, BatchBound
  <2>4. IsSeq(work') /\ Range(work') = {} /\ IsInjective(work')
    BY <2>2, EmptyIsSeq DEF IsInjective
  <2>5. DistinctInv' /\ Kept' = Kept /\ Candidates' = {}
    BY <1>0, <2>2, <2>4 DEF DistinctInv, Kept, Candidates, Accepted
  <2>6. Delivery!Answer
    <3>1. UNCHANGED <<next - 1, Kept, outbox, logged, rows>>
      BY <2>2, <2>5
    <3>2. Waiting \ Waiting' \in SUBSET Waiting /\ Waiting' = Waiting \ (Waiting \ Waiting')
      BY <2>1
    <3> QED
      BY <2>3, <2>5, <3>1, <3>2, DeliveryOperators, Zenon DEF Delivery!Answer
  <2> QED
    BY <2>1, <2>5, <2>6 DEF Delivery!Next
<1> QED
  BY <1>1, <1>2, <1>3, <1>4, <1>5, <1>7, <1>9, <1>10, <1>11, <1>12, <1>13, <1>14, <1>15,
     <1>16, <1>17 DEF Next, Cycle

LEMMA NextLifeInv == LifeInv /\ [Next]_vars => LifeInv' /\ [Delivery!Next]_(Delivery!vars)
<1> SUFFICES ASSUME LifeInv, [Next]_vars PROVE LifeInv' /\ [Delivery!Next]_(Delivery!vars)
  OBVIOUS
<1>1. DistinctInv' /\ WaitInv' /\ [Delivery!Next]_(Delivery!vars)
  BY LifeStep
<1>2. QueueInv'
  BY NextQueueInv DEF LifeInv
<1>3. Delivery!Once'
  BY <1>1, OnceStep DEF LifeInv, WaitInv
<1> QED
  BY <1>1, <1>2, <1>3 DEF LifeInv

\* The pipeline delivers: whichever calls fail and whenever the process dies, no
\* message is made into an atom twice, and an accepted atom is let go only when
\* it has a row (BatchEncoder.encode_batch, run_cycle, _load_pending_writes).
THEOREM PipelineDelivers == Spec => DeliverySpec
<1>1. Init => LifeInv /\ Delivery!Init
  BY InitLifeInv
<1>2. LifeInv /\ [Next]_vars => LifeInv' /\ [Delivery!Next]_(Delivery!vars)
  BY NextLifeInv
<1> QED
  BY <1>1, <1>2, PTL DEF Spec, DeliverySpec, Delivery!Spec

\* Whatever batches, full buffers, failed answers, retries, deaths and restarts
\* do, a message waits, or is a candidate, or is an atom, and never two of these:
\* what has been made into an atom is never made into one again.
THEOREM AtomsMadeOnce == Spec => []Delivery!Once
<1>1. Init => LifeInv
  BY InitLifeInv
<1>2. LifeInv /\ [Next]_vars => LifeInv'
  BY NextLifeInv
<1>3. LifeInv => Delivery!Once
  BY DEF LifeInv
<1> QED
  BY <1>1, <1>2, <1>3, PTL DEF Spec
=============================================================================
