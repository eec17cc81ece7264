----------------------------- MODULE Chat_proofs -----------------------------
(***************************************************************************)
(* Proofs about the turns of a group chat and the language-model requests  *)
(* they make.  For all numbers of requests, models and retries, and for    *)
(* both strategies: the accounts in model_usage balance, and no model gets *)
(* more calls than its retries allow.  For all numbers of messages,        *)
(* recalls and faults: the cursor of a chat passes no message unread, and  *)
(* what was recalled does not stay in the archive.                         *)
(***************************************************************************)
EXTENDS Failover, GroupTurns, FiniteSetTheorems, SequenceTheorems, TLAPS

Account == [tokens: Nat, penalty: Int, inUse: Int]
Limit(r) == MaxRetry + (IF r \in Textual THEN 1 ELSE 0)

\* The request stands in the model's account of uses: it works on it, or was
\* cancelled or broke on it.
OnIt(q, m) == q.model = m /\ q.pc \in Waits \cup {"cancelled", "broken"}
One(condition) == IF condition THEN 1 ELSE 0

\* The calls that the model at work may have got.
Calls(q) == MaxRetry - q.remain + One(q.small) + One(q.pc = "sent")

\* A request has called no model but those it gave up and the one it is on,
\* each as often as the retries it has used say.
Bound(r) ==
  /\ req[r].pc = "new" => req[r].failed = {}
  /\ req[r].pc \in Waits =>
       /\ req[r].model \in Models \ req[r].failed
       /\ req[r].small => r \in Textual
       /\ req[r].remain >= 1
  /\ \A m \in Models :
       heard[r][m] <= IF req[r].pc \in Waits /\ m = req[r].model THEN Calls(req[r])
                      ELSE IF m \in req[r].failed \/ req[r].pc \in Ends THEN Limit(r) ELSE 0

IInv == TypeOK /\ Charged /\ Blamed /\ \A r \in Requests : Bound(r)

\* What a step of the request r does, v being its locals afterwards: the
\* accounts change by what r leaves and takes, and by whom it gives up.
Effect(r, v) ==
  /\ v \in RequestTypeOK /\ req' = [req EXCEPT ![r] = v]
  /\ usage' \in [Models -> Account]
  /\ \A m \in Models : usage'[m].inUse = usage[m].inUse - One(OnIt(req[r], m)) + One(OnIt(v, m))
  /\ req[r].failed \subseteq v.failed
  /\ \A m \in Models : usage'[m].penalty = usage[m].penalty + One(m \in v.failed \ req[r].failed)
  /\ heard' \in [Requests -> [Models -> Nat]]
  /\ \A q \in Requests \ {r} : heard'[q] = heard[q]
  /\ Bound(r)'
-----------------------------------------------------------------------------
\* Two sets of requests that differ in one request only.
LEMMA DifferInOne ==
  ASSUME NEW r \in Requests, NEW S \in SUBSET Requests, NEW T \in SUBSET Requests, S \ {r} = T \ {r}
  PROVE  /\ Cardinality(S) \in Nat /\ Cardinality(T) \in Nat
         /\ Cardinality(T) = Cardinality(S) - One(r \in S) + One(r \in T)
<1>1. IsFiniteSet(S) /\ IsFiniteSet(T)
  BY FS_Subset, RequestsAssumption
<1>2. Cardinality(S) \in Nat /\ Cardinality(T) \in Nat
  BY <1>1, FS_CardinalityType
<1>3. Cardinality(S \ {r}) = IF r \in S THEN Cardinality(S) - 1 ELSE Cardinality(S)
  BY <1>1, FS_RemoveElement
<1>4. Cardinality(T \ {r}) = IF r \in T THEN Cardinality(T) - 1 ELSE Cardinality(T)
  BY <1>1, FS_RemoveElement
<1> QED
  BY <1>2, <1>3, <1>4 DEF One

\* Both kinds of requests in an account, counted together.
LEMMA Together ==
  ASSUME NEW m \in Models
  PROVE  Cardinality(Working(m)) + Cardinality(Abandoned(m)) = Cardinality({r \in Requests : OnIt(req[r], m)})
<1> DEFINE W == Working(m)
           A == Abandoned(m)
           U == {r \in Requests : OnIt(req[r], m)}
<1>1. W \in SUBSET Requests /\ A \in SUBSET Requests /\ W \cap A = {} /\ W \cup A = U
  BY DEF Working, Abandoned, OnIt, Waits
<1> HIDE DEF W, A, U
<1>2. IsFiniteSet(W) /\ IsFiniteSet(A)
  BY <1>1, FS_Subset, RequestsAssumption
<1>3. Cardinality(W) \in Nat /\ Cardinality(A) \in Nat /\ Cardinality({}) = 0
  BY <1>2, FS_CardinalityType, FS_EmptySet
<1>4. Cardinality(W \cup A) = Cardinality(W) + Cardinality(A) - Cardinality(W \cap A)
  BY <1>2, FS_Union
<1>5. Cardinality(W \cup A) = Cardinality(U) /\ Cardinality(W \cap A) = Cardinality({})
  BY <1>1, Zenon
<1>6. Cardinality(U) = Cardinality(W) + Cardinality(A)
  BY <1>3, <1>4, <1>5
<1> QED
  BY <1>6 DEF W, A, U

LEMMA TogetherAfter ==
  ASSUME NEW m \in Models
  PROVE  Cardinality(Working(m)') + Cardinality(Abandoned(m)') = Cardinality({r \in Requests : OnIt(req'[r], m)})
<1> DEFINE W == Working(m)'
           A == Abandoned(m)'
           U == {r \in Requests : OnIt(req'[r], m)}
<1>1. W \in SUBSET Requests /\ A \in SUBSET Requests /\ W \cap A = {} /\ W \cup A = U
  BY DEF Working, Abandoned, OnIt, Waits
<1> HIDE DEF W, A, U
<1>2. IsFiniteSet(W) /\ IsFiniteSet(A)
  BY <1>1, FS_Subset, RequestsAssumption
<1>3. Cardinality(W) \in Nat /\ Cardinality(A) \in Nat /\ Cardinality({}) = 0
  BY <1>2, FS_CardinalityType, FS_EmptySet
<1>4. Cardinality(W \cup A) = Cardinality(W) + Cardinality(A) - Cardinality(W \cap A)
  BY <1>2, FS_Union
<1>5. Cardinality(W \cup A) = Cardinality(U) /\ Cardinality(W \cap A) = Cardinality({})
  BY <1>1, Zenon
<1>6. Cardinality(U) = Cardinality(W) + Cardinality(A)
  BY <1>3, <1>4, <1>5
<1> QED
  BY <1>6 DEF W, A, U

\* Such a step keeps the invariant.
LEMMA EffectKeeps ==
  ASSUME IInv, NEW r \in Requests, NEW v, Effect(r, v)
  PROVE  IInv'
<1>1. /\ req \in [Requests -> RequestTypeOK] /\ usage \in [Models -> Account]
      /\ req' \in [Requests -> RequestTypeOK] /\ usage' \in [Models -> Account]
      /\ \A q \in Requests : req'[q] = IF q = r THEN v ELSE req[q]
  BY DEF IInv, TypeOK, Effect, Account
<1>2. ASSUME NEW m \in Models
      PROVE  /\ usage'[m].inUse \in Nat
             /\ usage'[m].inUse = Cardinality(Working(m)') + Cardinality(Abandoned(m)')
  <2> DEFINE S == {q \in Requests : OnIt(req[q], m)}
             T == {q \in Requests : OnIt(req'[q], m)}
  <2>1. S \ {r} = T \ {r} /\ S \in SUBSET Requests /\ T \in SUBSET Requests
    BY <1>1
  <2>2. (r \in S <=> OnIt(req[r], m)) /\ (r \in T <=> OnIt(v, m))
    BY <1>1
  <2>3. usage[m].inUse = Cardinality(S)
    BY Together DEF IInv, Charged
  <2>4. usage'[m].inUse = usage[m].inUse - One(OnIt(req[r], m)) + One(OnIt(v, m))
    BY DEF Effect
  <2> HIDE DEF S, T
  <2>5. usage'[m].inUse = Cardinality(T) /\ Cardinality(T) \in Nat
    BY <2>1, <2>2, <2>3, <2>4, DifferInOne DEF One
  <2> QED
    BY <2>5, TogetherAfter DEF T
<1>3. ASSUME NEW m \in Models
      PROVE  /\ usage'[m].penalty \in Nat
             /\ usage'[m].penalty = Cardinality({q \in Requests : m \in req'[q].failed})
  <2> DEFINE S == {q \in Requests : m \in req[q].failed}
             T == {q \in Requests : m \in req'[q].failed}
  <2>1. S \ {r} = T \ {r} /\ S \in SUBSET Requests /\ T \in SUBSET Requests
    BY <1>1
  <2>2. (r \in S <=> m \in req[r].failed) /\ (r \in T <=> m \in v.failed) /\ req[r].failed \subseteq v.failed
    BY <1>1 DEF Effect
  <2>3. usage[m].penalty = Cardinality(S)
    BY DEF IInv, Blamed
  <2>4. usage'[m].penalty = usage[m].penalty + One(m \in v.failed \ req[r].failed)
    BY DEF Effect
  <2> HIDE DEF S, T
  <2>5. usage'[m].penalty = Cardinality(T) /\ Cardinality(T) \in Nat
    BY <2>1, <2>2, <2>3, <2>4, DifferInOne DEF One
  <2> QED
    BY <2>5 DEF T
<1>4. TypeOK'
  <2>1. usage' \in [Models -> [tokens: Nat, penalty: Nat, inUse: Nat]]
    BY <1>1, <1>2, <1>3 DEF Account
  <2> QED
    BY <1>1, <2>1 DEF TypeOK, Effect
<1>5. ASSUME NEW q \in Requests PROVE Bound(q)'
  <2>1. CASE q = r
    BY <2>1 DEF Effect
  <2>2. CASE q # r
    <3>1. req'[q] = req[q] /\ heard'[q] = heard[q] /\ Bound(q)
      BY <1>1, <2>2 DEF Effect, IInv
    <3> QED
      BY <3>1 DEF Bound
  <2> QED
    BY <2>1, <2>2
<1>6. Charged'
  BY <1>2 DEF Charged
<1>7. Blamed'
  BY <1>3 DEF Blamed
<1> QED
  BY <1>4, <1>5, <1>6, <1>7 DEF IInv
-----------------------------------------------------------------------------
\* What the invariant says of a request at work.
LEMMA AtWork ==
  ASSUME IInv, NEW r \in Requests, req[r].pc \in Waits
  PROVE  /\ req \in [Requests -> RequestTypeOK] /\ req[r] \in RequestTypeOK
         /\ usage \in [Models -> Account] /\ heard \in [Requests -> [Models -> Nat]]
         /\ req[r].model \in Models \ req[r].failed /\ req[r].remain >= 1
         /\ req[r].small => r \in Textual
         /\ heard[r][req[r].model] <= Calls(req[r])
         /\ \A m \in Models : OnIt(req[r], m) <=> m = req[r].model
BY DEF IInv, TypeOK, Bound, OnIt, Account, RequestTypeOK

\* A new model's accounts: one of those left, or none is left.
LEMMA CandidatesLeft == \A u, failed : Candidates(u, failed) \subseteq Models \ failed
BY DEF Candidates, Best

\* The next model, from accounts u that the request has left behind it.
LEMMA NextModelEffect ==
  ASSUME IInv, NEW r \in Requests, req[r].pc \in {"new", "sent"},
         NEW u \in [Models -> Account], NEW failed \in SUBSET Models,
         req[r].failed \subseteq failed,
         req[r].pc = "sent" => failed = req[r].failed \cup {req[r].model},
         req[r].pc = "new" => failed = {},
         \A m \in Models : u[m].inUse = usage[m].inUse - One(OnIt(req[r], m)),
         \A m \in Models : u[m].penalty = usage[m].penalty + One(m \in failed \ req[r].failed),
         NextModel(r, u, failed)
  PROVE  \E v : Effect(r, v)
<1>1. /\ req \in [Requests -> RequestTypeOK] /\ req[r] \in RequestTypeOK
      /\ heard \in [Requests -> [Models -> Nat]]
  BY DEF IInv, TypeOK
<1>2. \A m \in Models : heard[r][m] <= IF m \in failed THEN Limit(r) ELSE 0
  <2>1. Bound(r)
    BY DEF IInv
  <2>2. CASE req[r].pc = "new"
    BY <2>1, <2>2 DEF Bound, Waits, Ends
  <2>3. CASE req[r].pc = "sent"
    <3>1. Calls(req[r]) <= Limit(r)
      BY <2>3, AtWork, NumbersAssumption DEF Calls, Limit, One, Waits, RequestTypeOK
    <3>2. Calls(req[r]) \in Int /\ Limit(r) \in Int
      BY <1>1, NumbersAssumption DEF Calls, Limit, One, RequestTypeOK
    <3> QED
      BY <1>1, <2>1, <2>3, <3>1, <3>2 DEF Bound, Waits, Ends
  <2> QED
    BY <2>2, <2>3
<1>3. ASSUME NEW m \in Candidates(u, failed), Try(r, m, u, failed)
      PROVE  \E v : Effect(r, v)
  <2>1. m \in Models \ failed /\ m \in 0..ModelCount
    BY <1>3, CandidatesLeft, NumbersAssumption DEF Models
  <2>2. usage' = [u EXCEPT ![m].inUse = @ + 1]
    BY <1>3 DEF Try, Taken
  <2>3. /\ usage' \in [Models -> Account]
        /\ \A k \in Models : usage'[k].inUse = u[k].inUse + One(k = m)
        /\ \A k \in Models : usage'[k].penalty = u[k].penalty
    BY <2>1, <2>2 DEF Account, One
  <2>4. CASE /\ req' = [req EXCEPT ![r] = [pc |-> "sent", model |-> m, remain |-> MaxRetry,
                                            small |-> FALSE, failed |-> failed]]
             /\ Call(r, m)
    <3> DEFINE v == [pc |-> "sent", model |-> m, remain |-> MaxRetry, small |-> FALSE, failed |-> failed]
    <3>1. v \in RequestTypeOK
      BY <2>1, NumbersAssumption DEF RequestTypeOK, Waits
    <3>2. req' = [req EXCEPT ![r] = v] /\ req'[r] = v
      BY <1>1, <2>4
    <3>3. \A k \in Models : OnIt(v, k) <=> k = m
      BY DEF OnIt, Waits
    <3>4. /\ heard' \in [Requests -> [Models -> Nat]]
          /\ \A q \in Requests \ {r} : heard'[q] = heard[q]
          /\ \A k \in Models : heard'[r][k] = heard[r][k] + One(k = m)
      BY <1>1, <2>1, <2>4 DEF Call, One
    <3>5. v.pc = "sent" /\ v.model = m /\ v.remain = MaxRetry /\ ~v.small /\ v.failed = failed
      OBVIOUS
    <3> HIDE DEF v
    <3>6. Calls(v) = 1
      BY <3>5, NumbersAssumption DEF Calls, One
    <3>7. Bound(r)'
      <4>1. \A k \in Models : heard'[r][k] <= IF k = m THEN Calls(v) ELSE IF k \in failed THEN Limit(r) ELSE 0
        BY <1>1, <1>2, <2>1, <3>4, <3>6 DEF One
      <4> QED
        BY <2>1, <3>2, <3>5, <4>1, NumbersAssumption DEF Bound, Waits, Ends
    <3>8. Effect(r, v)
      BY <2>3, <3>1, <3>2, <3>3, <3>4, <3>5, <3>7 DEF Effect, One
    <3> QED
      BY <3>8
  <2>5. CASE /\ req' = [req EXCEPT ![r] = [pc |-> "broken", model |-> m, remain |-> 0,
                                            small |-> FALSE, failed |-> failed]]
             /\ UNCHANGED heard
    <3> DEFINE v == [pc |-> "broken", model |-> m, remain |-> 0, small |-> FALSE, failed |-> failed]
    <3>1. v \in RequestTypeOK
      BY <2>1, NumbersAssumption DEF RequestTypeOK, Ends
    <3>2. req' = [req EXCEPT ![r] = v] /\ req'[r] = v
      BY <1>1, <2>5
    <3>3. \A k \in Models : OnIt(v, k) <=> k = m
      BY DEF OnIt
    <3>4. v.pc = "broken" /\ v.failed = failed
      OBVIOUS
    <3> HIDE DEF v
    <3>5. Bound(r)'
      <4>1. Limit(r) \in Nat
        BY NumbersAssumption DEF Limit
      <4>2. \A k \in Models : heard'[r][k] <= Limit(r)
        BY <1>1, <1>2, <2>5, <4>1
      <4> QED
        BY <3>2, <3>4, <4>2 DEF Bound, Waits, Ends
    <3>6. Effect(r, v)
      BY <1>1, <2>3, <2>5, <3>1, <3>2, <3>3, <3>4, <3>5 DEF Effect, One
    <3> QED
      BY <3>6
  <2> QED
    BY <1>3, <2>4, <2>5 DEF Try
<1>4. ASSUME failed = Models, usage' = u, UNCHANGED heard,
             req' = [req EXCEPT ![r].pc = "failed", ![r].failed = failed]
      PROVE  \E v : Effect(r, v)
  <2> DEFINE ended == [req[r] EXCEPT !.pc = "failed"]
             v == [ended EXCEPT !.failed = failed]
  <2>1. ended \in RequestTypeOK /\ ended.pc = "failed"
    BY <1>1 DEF RequestTypeOK, Ends
  <2>2. v \in RequestTypeOK /\ v.pc = "failed" /\ v.failed = failed
    <3> HIDE DEF ended
    <3> QED
      BY <2>1 DEF RequestTypeOK
  <2>3. req' = [req EXCEPT ![r] = v]
    BY <1>1, <1>4
  <2> HIDE DEF ended, v
  <2>4. req'[r] = v
    BY <1>1, <2>3
  <2>5. Bound(r)'
    BY <1>1, <1>2, <1>4, <2>2, <2>4 DEF Bound, Waits, Ends
  <2>6. \A k \in Models : ~OnIt(v, k)
    BY <2>2 DEF OnIt, Waits
  <2>7. \A k \in Models : usage'[k].inUse = usage[k].inUse - One(OnIt(req[r], k)) + One(OnIt(v, k))
    <3> TAKE k \in Models
    <3>1. usage'[k].inUse \in Int
      BY <1>4 DEF Account
    <3> QED
      BY <1>4, <2>6, <3>1 DEF One
  <2>8. Effect(r, v)
    BY <1>1, <1>4, <2>2, <2>3, <2>5, <2>7 DEF Effect
  <2> QED
    BY <2>8
<1> QED
  BY <1>3, <1>4 DEF NextModel
-----------------------------------------------------------------------------
\* The attempt on a model is given up.
LEMMA GiveUpEffect ==
  ASSUME IInv, NEW r \in Requests, req[r].pc = "sent", GiveUp(r)
  PROVE  \E v : Effect(r, v)
<1> DEFINE m == req[r].model
           once == [usage EXCEPT ![m].penalty = @ + 1]
           u == Blaming(usage, m)
           failed == req[r].failed \cup {m}
<1>1. /\ m \in Models \ req[r].failed /\ req[r].failed \subseteq Models /\ usage \in [Models -> Account]
      /\ \A k \in Models : OnIt(req[r], k) <=> k = m
  BY AtWork DEF Waits, RequestTypeOK
<1>2. /\ once \in [Models -> Account]
      /\ \A k \in Models : once[k].inUse = usage[k].inUse /\ once[k].penalty = usage[k].penalty + One(k = m)
  BY <1>1 DEF Account, One
<1>3. u = [once EXCEPT ![m].inUse = @ - 1]
  BY <1>1 DEF Blaming
<1>4. /\ u \in [Models -> Account]
      /\ \A k \in Models : u[k].inUse = usage[k].inUse - One(OnIt(req[r], k))
      /\ \A k \in Models : u[k].penalty = usage[k].penalty + One(k = m)
  <2> HIDE DEF once, u
  <2> QED
    BY <1>1, <1>2, <1>3 DEF Account, One
<1>5. \A k \in Models : u[k].penalty = usage[k].penalty + One(k \in failed \ req[r].failed)
  BY <1>1, <1>4 DEF One
<1>6. NextModel(r, u, failed) /\ failed \in SUBSET Models
  BY <1>1 DEF GiveUp
<1> HIDE DEF u, failed
<1> QED
  BY <1>4, <1>5, <1>6, NextModelEffect DEF failed

LEMMA StartEffect ==
  ASSUME IInv, NEW r \in Requests, Start(r)
  PROVE  \E v : Effect(r, v)
<1>1. usage \in [Models -> Account] /\ req[r].pc = "new" /\ req[r].failed = {}
  BY DEF IInv, TypeOK, Account, Start, Bound
<1>2. \A m \in Models : ~OnIt(req[r], m)
  BY <1>1 DEF OnIt, Waits
<1>3. /\ \A m \in Models : usage[m].inUse = usage[m].inUse - One(OnIt(req[r], m))
      /\ \A m \in Models : usage[m].penalty = usage[m].penalty + One(m \in {} \ req[r].failed)
  BY <1>1, <1>2 DEF Account, One
<1> QED
  BY <1>1, <1>3, NextModelEffect DEF Start

\* The calls that bring an answer.
LEMMA AnswerEffect ==
  ASSUME IInv, NEW r \in Requests, req[r].pc = "sent", NEW tokens \in Nat,
         usage' = Answering(usage, req[r].model, tokens),
         req' = [req EXCEPT ![r].pc = "answered"], UNCHANGED heard
  PROVE  \E v : Effect(r, v)
<1> DEFINE m == req[r].model
           once == [usage EXCEPT ![m].tokens = @ + tokens]
           v == [req[r] EXCEPT !.pc = "answered"]
<1>1. /\ m \in Models /\ usage \in [Models -> Account] /\ req[r] \in RequestTypeOK
      /\ req \in [Requests -> RequestTypeOK] /\ heard \in [Requests -> [Models -> Nat]]
      /\ \A k \in Models : OnIt(req[r], k) <=> k = m
  BY AtWork DEF Waits
<1>2. /\ once \in [Models -> Account]
      /\ \A k \in Models : once[k].inUse = usage[k].inUse /\ once[k].penalty = usage[k].penalty
  BY <1>1 DEF Account
<1>3. usage' = [once EXCEPT ![m].inUse = @ - 1]
  BY <1>1 DEF Answering
<1>4. v \in RequestTypeOK /\ v.pc = "answered" /\ v.failed = req[r].failed
  BY <1>1 DEF RequestTypeOK, Ends
<1>5. req' = [req EXCEPT ![r] = v] /\ req'[r] = v
  BY <1>1
<1> HIDE DEF once, v
<1>6. /\ usage' \in [Models -> Account]
      /\ \A k \in Models : usage'[k].inUse = usage[k].inUse - One(OnIt(req[r], k))
      /\ \A k \in Models : usage'[k].penalty = usage[k].penalty
  <2>1. usage' \in [Models -> Account]
    <3>1. [once[m] EXCEPT !.inUse = @ - 1] \in Account
      BY <1>1, <1>2 DEF Account
    <3>2. usage' = [once EXCEPT ![m] = [once[m] EXCEPT !.inUse = @ - 1]]
      BY <1>3
    <3> QED
      BY <1>1, <1>2, <3>1, <3>2
  <2>2. \A k \in Models : usage'[k].inUse = once[k].inUse - One(k = m) /\ usage'[k].penalty = once[k].penalty
    BY <1>1, <1>2, <1>3 DEF Account, One
  <2> QED
    BY <1>1, <1>2, <2>1, <2>2 DEF One
<1>7. \A k \in Models : ~OnIt(v, k)
  BY <1>4 DEF OnIt, Waits
<1>8. Bound(r)'
  <2>1. /\ Limit(r) \in Nat /\ Calls(req[r]) \in Int /\ Calls(req[r]) <= Limit(r)
        /\ req[r].pc \notin Ends
    BY AtWork, NumbersAssumption DEF Limit, Calls, One, Waits, Ends, RequestTypeOK
  <2>2. \A k \in Models : heard[r][k] <= Limit(r)
    BY <1>1, <2>1 DEF IInv, Bound
  <2> QED
    BY <1>4, <1>5, <2>2 DEF Bound, Waits, Ends
<1>9. Effect(r, v)
  <2>1. \A k \in Models : usage'[k].inUse = usage[k].inUse - One(OnIt(req[r], k)) + One(OnIt(v, k))
    BY <1>1, <1>6, <1>7 DEF One, Account
  <2>2. \A k \in Models : usage'[k].penalty = usage[k].penalty + One(k \in v.failed \ req[r].failed)
    BY <1>1, <1>4, <1>6 DEF One, Account
  <2> QED
    BY <1>1, <1>4, <1>5, <1>8, <1>6, <2>1, <2>2 DEF Effect
<1> QED
  BY <1>9

\* The steps in which the accounts rest: a retry is prepared or made, the
\* messages are sent again compressed, the caller is cancelled.
LEMMA RestingEffect ==
  ASSUME IInv, NEW r \in Requests, req[r].pc \in Waits, UNCHANGED usage,
         NEW v \in RequestTypeOK, req' = [req EXCEPT ![r] = v],
         v.model = req[r].model, v.failed = req[r].failed, v.pc \in Waits \cup {"cancelled", "broken"},
         heard' \in [Requests -> [Models -> Nat]], \A q \in Requests \ {r} : heard'[q] = heard[q],
         Bound(r)'
  PROVE  Effect(r, v)
<1>1. \A m \in Models : OnIt(req[r], m) <=> OnIt(v, m)
  BY DEF OnIt
<1>2. usage \in [Models -> Account]
  BY AtWork
<1> QED
  BY <1>1, <1>2 DEF Effect, One, Account

\* A call of the model it is on, after which it may have got one more.
LEMMA CallKeepsBound ==
  ASSUME IInv, NEW r \in Requests, req[r].pc \in Waits, Call(r, req[r].model),
         NEW v \in RequestTypeOK, req' = [req EXCEPT ![r] = v],
         v.model = req[r].model, v.failed = req[r].failed, v.pc = "sent",
         v.remain = req[r].remain, v.small => r \in Textual, Calls(v) = Calls(req[r]) + 1
  PROVE  /\ heard' \in [Requests -> [Models -> Nat]] /\ \A q \in Requests \ {r} : heard'[q] = heard[q]
         /\ Bound(r)'
<1>1. /\ heard \in [Requests -> [Models -> Nat]] /\ req[r] \in RequestTypeOK
      /\ req[r].model \in Models \ req[r].failed /\ req[r].remain >= 1 /\ req'[r] = v
  BY AtWork
<1>2. /\ heard' \in [Requests -> [Models -> Nat]] /\ \A q \in Requests \ {r} : heard'[q] = heard[q]
      /\ \A k \in Models : heard'[r][k] = heard[r][k] + One(k = v.model)
  BY <1>1 DEF Call, One
<1>3. Calls(req[r]) \in Int
  BY <1>1, NumbersAssumption DEF Calls, One, RequestTypeOK
<1>4. \A k \in Models :
        heard[r][k] <= IF k = v.model THEN Calls(req[r]) ELSE IF k \in v.failed THEN Limit(r) ELSE 0
  BY <1>1 DEF IInv, Bound, Waits, Ends
<1>5. \A k \in Models :
        heard'[r][k] <= IF k = v.model THEN Calls(v) ELSE IF k \in v.failed THEN Limit(r) ELSE 0
  BY <1>1, <1>2, <1>3, <1>4 DEF One
<1>6. Bound(r)'
  BY <1>1, <1>5 DEF Bound, Waits, Ends
<1> QED
  BY <1>2, <1>6

LEMMA RetryEffect ==
  ASSUME IInv, NEW r \in Requests, Retry(r)
  PROVE  \E v : Effect(r, v)
<1> DEFINE v == [req[r] EXCEPT !.pc = "sent"]
<1>1. req[r].pc = "sleeping" /\ Call(r, req[r].model) /\ UNCHANGED usage
  BY DEF Retry
<1>2. req \in [Requests -> RequestTypeOK] /\ req[r] \in RequestTypeOK /\ (req[r].small => r \in Textual)
  BY <1>1, AtWork DEF Waits
<1>3. /\ v \in RequestTypeOK /\ v.pc = "sent" /\ v.model = req[r].model /\ v.failed = req[r].failed
      /\ v.remain = req[r].remain /\ v.small = req[r].small
  BY <1>2 DEF RequestTypeOK, Waits
<1>4. req' = [req EXCEPT ![r] = v]
  BY <1>2 DEF Retry
<1> HIDE DEF v
<1>5. Calls(v) = Calls(req[r]) + 1
  BY <1>1, <1>2, <1>3, NumbersAssumption DEF Calls, One, RequestTypeOK
<1>6. Effect(r, v)
  BY <1>1, <1>2, <1>3, <1>4, <1>5, CallKeepsBound, RestingEffect DEF Waits
<1> QED
  BY <1>6

\* An end that nobody enters into the accounts.
LEMMA EndEffect ==
  ASSUME IInv, NEW r \in Requests, NEW p \in {"cancelled", "broken"}, req[r].pc \in Waits,
         req' = [req EXCEPT ![r].pc = p], UNCHANGED <<usage, heard>>
  PROVE  \E v : Effect(r, v)
<1> DEFINE v == [req[r] EXCEPT !.pc = p]
<1>1. req[r].pc \in Waits /\ UNCHANGED <<usage, heard>>
  OBVIOUS
<1>2. /\ req \in [Requests -> RequestTypeOK] /\ req[r] \in RequestTypeOK
      /\ heard \in [Requests -> [Models -> Nat]]
  BY <1>1, AtWork
<1>3. v \in RequestTypeOK /\ v.pc = p /\ v.model = req[r].model /\ v.failed = req[r].failed
  BY <1>2 DEF RequestTypeOK, Ends
<1>4. req' = [req EXCEPT ![r] = v] /\ req'[r] = v
  BY <1>2
<1> HIDE DEF v
<1>5. Bound(r)'
  <2>1. /\ Limit(r) \in Nat /\ Calls(req[r]) \in Int /\ Calls(req[r]) <= Limit(r)
        /\ req[r].pc \notin Ends
    BY <1>1, AtWork, NumbersAssumption DEF Limit, Calls, One, Waits, Ends, RequestTypeOK
  <2>2. \A k \in Models : heard[r][k] <= Limit(r)
    BY <1>2, <2>1 DEF IInv, Bound
  <2> QED
    BY <1>1, <1>3, <1>4, <2>2 DEF Bound, Waits, Ends
<1>6. Effect(r, v)
  BY <1>1, <1>2, <1>3, <1>4, <1>5, RestingEffect
<1> QED
  BY <1>6

LEMMA TooLargeEffect ==
  ASSUME IInv, NEW r \in Requests, TooLarge(r)
  PROVE  \E v : Effect(r, v)
<1>1. req[r].pc = "sent" /\ r \in Textual /\ ~req[r].small /\ UNCHANGED usage
  BY DEF TooLarge, CanShrink
<1>2. req \in [Requests -> RequestTypeOK] /\ req[r] \in RequestTypeOK
  BY <1>1, AtWork DEF Waits
<1>3. CASE req' = [req EXCEPT ![r].small = TRUE] /\ Call(r, req[r].model)
  <2> DEFINE v == [req[r] EXCEPT !.small = TRUE]
  <2>1. /\ v \in RequestTypeOK /\ v.pc = "sent" /\ v.model = req[r].model /\ v.failed = req[r].failed
        /\ v.remain = req[r].remain /\ v.small
    BY <1>1, <1>2 DEF RequestTypeOK
  <2>2. req' = [req EXCEPT ![r] = v]
    BY <1>2, <1>3
  <2> HIDE DEF v
  <2>3. Calls(v) = Calls(req[r]) + 1
    BY <1>1, <1>2, <2>1, NumbersAssumption DEF Calls, One, RequestTypeOK
  <2>4. Effect(r, v)
    BY <1>1, <1>2, <1>3, <2>1, <2>2, <2>3, CallKeepsBound, RestingEffect DEF Waits
  <2> QED
    BY <2>4
<1>4. CASE req' = [req EXCEPT ![r].pc = "broken"] /\ UNCHANGED heard
  BY <1>1, <1>4, EndEffect DEF Waits
<1> QED
  BY <1>3, <1>4 DEF TooLarge

\* A transient failure with retries left: the sleep is no call.
LEMMA TransientEffect ==
  ASSUME IInv, NEW r \in Requests, Transient(r)
  PROVE  \E v : Effect(r, v)
<1>1. req[r].pc = "sent"
  BY DEF Transient
<1>2. CASE GiveUp(r)
  BY <1>1, <1>2, GiveUpEffect
<1>3. CASE /\ req[r].remain > 1 /\ UNCHANGED <<usage, heard>>
           /\ req' = [req EXCEPT ![r].pc = "sleeping", ![r].remain = @ - 1]
  <2> DEFINE once == [req[r] EXCEPT !.pc = "sleeping"]
             v == [once EXCEPT !.remain = @ - 1]
  <2>1. /\ req \in [Requests -> RequestTypeOK] /\ req[r] \in RequestTypeOK
        /\ heard \in [Requests -> [Models -> Nat]] /\ req[r].model \in Models \ req[r].failed
        /\ (req[r].small => r \in Textual)
    BY <1>1, AtWork DEF Waits
  <2>2. /\ once \in RequestTypeOK /\ once.pc = "sleeping" /\ once.model = req[r].model
        /\ once.failed = req[r].failed /\ once.remain = req[r].remain /\ once.small = req[r].small
    BY <2>1 DEF RequestTypeOK, Waits
  <2>3. /\ v \in RequestTypeOK /\ v.pc = "sleeping" /\ v.model = req[r].model
        /\ v.failed = req[r].failed /\ v.remain = req[r].remain - 1 /\ v.small = req[r].small
    <3> HIDE DEF once
    <3> QED
      BY <1>3, <2>2, NumbersAssumption DEF RequestTypeOK
  <2>4. req' = [req EXCEPT ![r] = v] /\ req'[r] = v
    BY <1>3, <2>1
  <2> HIDE DEF once, v
  <2>5. Calls(v) = Calls(req[r])
    BY <1>1, <2>1, <2>3, NumbersAssumption DEF Calls, One, RequestTypeOK
  <2>6. Bound(r)'
    <3>1. \A k \in Models :
            heard[r][k] <= IF k = v.model THEN Calls(v) ELSE IF k \in v.failed THEN Limit(r) ELSE 0
      BY <1>1, <2>1, <2>3, <2>5 DEF IInv, Bound, Waits, Ends
    <3>2. v.remain >= 1
      BY <1>3, <2>1, <2>3 DEF RequestTypeOK
    <3> QED
      BY <1>3, <2>1, <2>3, <2>4, <3>1, <3>2 DEF Bound, Waits, Ends
  <2>7. Effect(r, v)
    BY <1>1, <1>3, <2>1, <2>3, <2>4, <2>6, RestingEffect DEF Waits
  <2> QED
    BY <2>7
<1> QED
  BY <1>2, <1>3 DEF Transient

-----------------------------------------------------------------------------
LEMMA NextKeeps == ASSUME IInv, [Next]_vars PROVE IInv'
<1>1. CASE UNCHANGED vars
  BY <1>1 DEF vars, IInv, TypeOK, Charged, Blamed, Working, Abandoned, Bound
<1>2. ASSUME NEW r \in Requests, Start(r) \/ Outcome(r) \/ Retry(r) \/ Cancel(r)
      PROVE  IInv'
  <2>1. CASE Answered(r)
    <3>1. PICK tokens \in {0, Cost} : usage' = Answering(usage, req[r].model, tokens)
      BY <2>1 DEF Answered
    <3>2. tokens \in Nat
      BY NumbersAssumption
    <3>3. \E v : Effect(r, v)
      BY <2>1, <3>1, <3>2, AnswerEffect DEF Answered
    <3> QED
      BY <3>3, EffectKeeps
  <2>2. CASE AnsweredEmpty(r)
    <3>1. \E v : Effect(r, v)
      BY <2>2, AnswerEffect DEF AnsweredEmpty
    <3> QED
      BY <3>1, EffectKeeps
  <2>3. CASE Start(r)
    BY <2>3, StartEffect, EffectKeeps
  <2>4. CASE Transient(r)
    BY <2>4, TransientEffect, EffectKeeps
  <2>5. CASE TooLarge(r)
    BY <2>5, TooLargeEffect, EffectKeeps
  <2>6. CASE HardError(r)
    BY <2>6, GiveUpEffect, EffectKeeps DEF HardError
  <2>7. CASE Retry(r)
    BY <2>7, RetryEffect, EffectKeeps
  <2>8. CASE Cancel(r)
    BY <2>8, EndEffect, EffectKeeps DEF Cancel
  <2> QED
    BY <1>2, <2>1, <2>2, <2>3, <2>4, <2>5, <2>6, <2>7, <2>8 DEF Outcome
<1> QED
  BY <1>1, <1>2 DEF Next

LEMMA InitHolds == Init => IInv
<1> SUFFICES ASSUME Init PROVE IInv
  OBVIOUS
<1>1. TypeOK
  BY NumbersAssumption DEF Init, TypeOK, RequestTypeOK
<1>2. Charged /\ Blamed
  <2>1. \A m \in Models : Working(m) = {} /\ Abandoned(m) = {}
    BY DEF Init, Working, Abandoned, Waits
  <2>2. \A m \in Models : {r \in Requests : m \in req[r].failed} = {}
    BY DEF Init
  <2>3. \A m \in Models : usage[m].inUse = 0 /\ usage[m].penalty = 0
    BY DEF Init
  <2>4. Charged
    BY <2>1, <2>3, FS_EmptySet DEF Charged
  <2>5. Blamed
    BY <2>2, <2>3, FS_EmptySet DEF Blamed
  <2> QED
    BY <2>4, <2>5
<1>3. \A r \in Requests : Bound(r)
  BY DEF Init, Bound, Waits, Ends
<1> QED
  BY <1>1, <1>2, <1>3 DEF IInv

\* The inductive invariant holds in every state.
THEOREM Invariance == Spec => []IInv
BY InitHolds, NextKeeps, PTL DEF Spec

\* The usage penalties balance, however requests overlap, fail over and end.
THEOREM ChargedHolds == Spec => []Charged
<1>1. IInv => Charged
  BY DEF IInv
<1> QED
  BY <1>1, Invariance, PTL

\* The penalties count the requests that gave a model up, each once.
THEOREM BlamedHolds == Spec => []Blamed
<1>1. IInv => Blamed
  BY DEF IInv
<1> QED
  BY <1>1, Invariance, PTL

\* No request bothers a model more often than its retries allow.
THEOREM CallsBoundedHolds == Spec => []CallsBounded
<1>1. IInv => CallsBounded
  <2> SUFFICES ASSUME IInv, NEW r \in Requests, NEW m \in Models PROVE heard[r][m] <= Limit(r)
    BY DEF CallsBounded, Limit
  <2>1. Limit(r) \in Nat /\ heard[r][m] \in Nat /\ Bound(r)
    BY NumbersAssumption DEF Limit, IInv, TypeOK
  <2>2. CASE req[r].pc \in Waits
    <3>1. Calls(req[r]) <= Limit(r) /\ Calls(req[r]) \in Int
      BY <2>2, AtWork, NumbersAssumption DEF Limit, Calls, One, Waits, RequestTypeOK
    <3> QED
      BY <2>1, <2>2, <3>1 DEF Bound
  <2>3. CASE req[r].pc \notin Waits
    BY <2>1, <2>3 DEF Bound
  <2> QED
    BY <2>2, <2>3
<1> QED
  BY <1>1, Invariance, PTL
-----------------------------------------------------------------------------
(* Group turns: the cursor                                                 *)

\* Messages are numbers, which have arrived before they are stored.
Numbered ==
  /\ clock \in Nat /\ cursor \in Int
  /\ transit \cup stored \cup recalled \subseteq 1..clock

SkipInv == Numbered /\ NothingSkipped

LEMMA InitSkipInv == TurnsInit => SkipInv
BY DEF TurnsInit, SkipInv, Numbered, NothingSkipped

LEMMA NumberedStep == Numbered /\ [TurnsNext]_turnVars => Numbered'
<1> SUFFICES ASSUME Numbered, [TurnsNext]_turnVars PROVE Numbered'
  OBVIOUS
<1>0. clock \in Nat /\ cursor \in Int /\ transit \cup stored \cup recalled \subseteq 1..clock
  BY DEF Numbered
<1> USE DEF database, loop, layer1, history
<1>1. CASE Arrive
  <2>1. clock' = clock + 1 /\ transit' = transit \cup {clock'}
    BY <1>1 DEF Arrive
  <2> QED
    BY <1>0, <1>1, <2>1 DEF Arrive, Numbered
<1>2. CASE Store
  <2>1. PICK m \in transit : transit' = transit \ {m} /\ StoreUnlessRecalled(m) /\ Announce(m)
    BY <1>2 DEF Store
  <2>2. cursor' \in Int
    BY <1>0, <2>1 DEF Announce
  <2>3. stored' \subseteq stored \cup {m}
    BY <2>1 DEF StoreUnlessRecalled
  <2> QED
    BY <1>0, <1>2, <2>1, <2>2, <2>3 DEF Store, Numbered
<1>3. CASE Recall
  <2>1. recalled' \subseteq 1..clock
    BY <1>0, <1>3 DEF Recall
  <2> QED
    BY <1>0, <1>3, <2>1 DEF Recall, Numbered
<1>4. CASE Look \/ Buffer
  <2>1. cursor' = cursor \/ cursor' = clock
    BY <1>4 DEF Look, Buffer, Decide, LeftUnread
  <2> QED
    BY <1>0, <1>4, <2>1 DEF Look, Buffer, LoopUnchanged, Numbered
<1>5. CASE Crash
  BY <1>0, <1>5 DEF Crash, Numbered
<1>6. CASE Expire \/ Wake \/ Talk \/ Plan \/ Raise
  BY <1>0, <1>6 DEF Expire, Wake, Talk, Plan, Raise, Numbered
<1>7. CASE Archive
  BY <1>0, <1>7 DEF Archive, Numbered
<1>8. CASE Judge \/ Ingest \/ Save
  BY <1>0, <1>8 DEF Judge, Ingest, Save, Numbered
<1>9. CASE UNCHANGED turnVars
  BY <1>0, <1>9 DEF turnVars, Numbered
<1> QED
  BY <1>1, <1>2, <1>3, <1>4, <1>5, <1>6, <1>7, <1>8, <1>9 DEF TurnsNext, Loop, Background

\* Whatever a turn decides, the cursor passes only what it has seen.
LEMMA DecideSkips ==
  ASSUME SkipInv, pc # "none", Decide(Unread), LoopUnchanged
  PROVE  NothingSkipped'
<1>1. clock \in Int /\ cursor \in Int /\ \A m \in stored : m \in Int
  BY DEF SkipInv, Numbered
<1>2. stored' = stored /\ flagged' = flagged /\ late' = late /\ missed' = missed
  BY DEF LoopUnchanged, database
<1>3. CASE cursor' = cursor /\ seen' = seen
  BY <1>2, <1>3 DEF SkipInv, NothingSkipped
<1>4. CASE cursor' = clock /\ seen' = seen \cup Unread
  <2>1. \A m \in stored : m <= clock => m \in seen' \cup late \cup missed \cup flagged
    BY <1>1, <1>4 DEF SkipInv, NothingSkipped, Unread
  <2> QED
    BY <1>2, <1>4, <2>1 DEF NothingSkipped
<1> QED
  BY <1>3, <1>4 DEF Decide, LeftUnread

LEMMA NextSkipInv == SkipInv /\ [TurnsNext]_turnVars => SkipInv'
<1> SUFFICES ASSUME SkipInv, [TurnsNext]_turnVars PROVE NothingSkipped'
  BY NumberedStep DEF SkipInv
<1>0. NothingSkipped
  BY DEF SkipInv
<1> USE DEF database, loop, layer1, history
<1>1. CASE Store
  <2>1. PICK m \in transit : StoreUnlessRecalled(m) /\ Announce(m)
    BY <1>1 DEF Store
  <2>2. seen' = seen /\ flagged' = flagged /\ stored' \subseteq stored \cup {m}
    BY <1>1, <2>1 DEF Store, StoreUnlessRecalled
  <2>3. CASE pc = "none"
    <3>1. missed' = missed \cup {n \in stored' \ seen : n <= cursor'}
      BY <2>1, <2>3 DEF Announce
    <3> QED
      BY <2>2, <3>1 DEF NothingSkipped
  <2>4. CASE pc # "none"
    <3>1. cursor' = cursor /\ missed' = missed /\ late' = IF m <= cursor THEN late \cup {m} ELSE late
      BY <2>1, <2>4 DEF Announce
    <3> QED
      BY <1>0, <2>2, <2>4, <3>1 DEF NothingSkipped
  <2> QED
    BY <2>3, <2>4
<1>2. CASE Recall
  <2>1. flagged \subseteq flagged'
    BY <1>2 DEF Recall
  <2> QED
    BY <1>0, <1>2, <2>1 DEF Recall, NothingSkipped
<1>3. CASE Look \/ Buffer
  <2>1. Decide(Unread) \/ (cursor' = cursor /\ seen' = seen)
    BY <1>3 DEF Look, Buffer
  <2>2. LoopUnchanged /\ pc # "none"
    BY <1>3 DEF Look, Buffer
  <2>3. CASE cursor' = cursor /\ seen' = seen
    BY <1>0, <2>2, <2>3 DEF LoopUnchanged, NothingSkipped
  <2> QED
    BY <2>1, <2>2, <2>3, DecideSkips
<1>4. CASE Arrive \/ Expire \/ Wake \/ Talk \/ Plan
  BY <1>0, <1>4 DEF Arrive, Expire, Wake, Talk, Plan, NothingSkipped
<1>5. CASE Raise \/ Crash
  BY <1>0, <1>5 DEF Raise, Crash, NothingSkipped
<1>6. CASE Archive
  BY <1>0, <1>6 DEF Archive, NothingSkipped
<1>7. CASE Judge \/ Ingest \/ Save
  BY <1>0, <1>7 DEF Judge, Ingest, Save, NothingSkipped
<1>8. CASE UNCHANGED turnVars
  BY <1>0, <1>8 DEF turnVars, NothingSkipped
<1> QED
  BY <1>1, <1>2, <1>3, <1>4, <1>5, <1>6, <1>7, <1>8 DEF TurnsNext, Loop, Background

\* The cursor of the chat passes no message that a turn was not decided on with,
\* but for recalled ones, those stored after it had passed, and those that the chat
\* found stored when it was made, by the process before this one too.
THEOREM NothingSkippedHolds == TurnsSpec => []NothingSkipped
<1>1. SkipInv => NothingSkipped
  BY DEF SkipInv
<1> QED
  BY <1>1, InitSkipInv, NextSkipInv, PTL DEF TurnsSpec

-----------------------------------------------------------------------------
(* Group turns: recall                                                     *)

Task(t) == t = [turn |-> t.turn, step |-> t.step, list |-> t.list, rest |-> t.rest]

\* What was recalled and stored is marked, and what was recalled and is still in
\* somebody's hands is registered, but for messages whose mark failed.
RecallInv ==
  /\ Numbered
  /\ \A t \in tasks : Task(t)
  /\ recalled \cap stored \subseteq flagged \cup unmarked
  /\ recalled \cap InHand \subseteq registry \cup unmarked
  /\ RecalledNotArchived

LEMMA InitRecallInv == TurnsInit => RecallInv
BY DEF TurnsInit, RecallInv, Numbered, InHand, RecalledNotArchived

\* A step that hands nobody a message he did not have before.
LEMMA HandsKept ==
  ASSUME RecallInv, InHand' \subseteq InHand, Numbered', \A t \in tasks' : Task(t),
         stored' = stored, flagged' = flagged, registry' = registry,
         recalled' = recalled, kept' = kept, unmarked' = unmarked, archive' = archive
  PROVE  RecallInv'
BY DEF RecallInv, RecalledNotArchived, Task

\* A task that goes on keeps its turn.
LEMMA TaskGoesOn ==
  ASSUME NEW t \in tasks, \A s \in tasks : Task(s), NEW u, Task(u), u.turn = t.turn,
         tasks' = (tasks \ {t}) \cup {u}
  PROVE  /\ \A s \in tasks' : Task(s)
         /\ UNION {s.turn : s \in tasks'} = UNION {s.turn : s \in tasks}
<1>1. {s.turn : s \in tasks'} = {s.turn : s \in tasks}
  OBVIOUS
<1> QED
  BY <1>1

LEMMA FeedTasks ==
  ASSUME NEW t \in tasks, \A s \in tasks : Task(s), NEW new, NEW open, Feed(t, new, open)
  PROVE  /\ \A s \in tasks' : Task(s)
         /\ UNION {s.turn : s \in tasks'} = UNION {s.turn : s \in tasks}
<1>1. \E step, list : tasks' = (tasks \ {t}) \cup {[t EXCEPT !.step = step, !.list = list]}
  BY DEF Feed
<1>2. PICK step, list : tasks' = (tasks \ {t}) \cup {[t EXCEPT !.step = step, !.list = list]}
  BY <1>1
<1> DEFINE u == [t EXCEPT !.step = step, !.list = list]
<1>3. u = [turn |-> t.turn, step |-> step, list |-> list, rest |-> t.rest]
  <2>1. Task(t)
    OBVIOUS
  <2> DEFINE v == [t EXCEPT !.step = step]
  <2>2. v = [turn |-> t.turn, step |-> step, list |-> t.list, rest |-> t.rest]
    BY <2>1 DEF Task
  <2>3. u = [v EXCEPT !.list = list]
    OBVIOUS
  <2> HIDE DEF u, v
  <2> QED
    BY <2>2, <2>3
<1>4. Task(u) /\ u.turn = t.turn
  BY <1>3 DEF Task
<1> HIDE DEF u
<1> QED
  BY <1>2, <1>4, TaskGoesOn DEF u

LEMMA NextRecallInv == RecallInv /\ [TurnsNext]_turnVars => RecallInv'
<1> SUFFICES ASSUME RecallInv, [TurnsNext]_turnVars PROVE RecallInv'
  OBVIOUS
<1>n. Numbered'
  BY NumberedStep DEF RecallInv
<1>t. \A t \in tasks : Task(t)
  BY DEF RecallInv
<1> USE DEF database, loop, layer1, history
<1>1. CASE Arrive
  <2>1. InHand' = InHand \cup {clock + 1} /\ clock + 1 \notin recalled
    BY <1>1 DEF Arrive, InHand, RecallInv, Numbered
  <2> QED
    BY <1>1, <1>n, <2>1 DEF Arrive, RecallInv, RecalledNotArchived
<1>2. CASE Store
  <2>1. PICK m \in transit : transit' = transit \ {m} /\ StoreUnlessRecalled(m)
    BY <1>2 DEF Store
  <2>2. /\ flagged' = flagged /\ archive' = archive /\ registry' = registry /\ batch' = batch /\ tasks' = tasks
        /\ recalled' = recalled /\ kept' = kept /\ unmarked' = unmarked
    BY <1>2 DEF Store
  <2>3. InHand' \subseteq InHand /\ m \in InHand
    BY <2>1, <2>2 DEF InHand
  <2>4. recalled \cap stored' \subseteq flagged \cup unmarked
    BY <2>1, <2>3 DEF StoreUnlessRecalled, RecallInv
  <2> QED
    BY <1>n, <2>2, <2>3, <2>4 DEF RecallInv, RecalledNotArchived
<1>3. CASE Recall
  <2>1. PICK m \in 1..clock \ recalled :
          /\ recalled' = recalled \cup {m} /\ registry' = registry \cup {m}
          /\ \/ /\ flagged' = flagged \cup ({m} \cap stored) /\ archive' = archive \ {m}
                /\ kept' = kept /\ unmarked' = unmarked
             \/ /\ archive' = archive \ {m} /\ unmarked' = unmarked \cup {m}
                /\ flagged' = flagged /\ kept' = kept
             \/ /\ kept' = kept \cup {m} /\ flagged' = flagged \cup {m}
                /\ archive' = archive /\ unmarked' = unmarked
    BY <1>3 DEF Recall, Register
  <2>2. stored' = stored /\ InHand' = InHand /\ tasks' = tasks
    BY <1>3 DEF Recall, InHand
  <2>3. recalled' \cap stored' \subseteq flagged' \cup unmarked'
    BY <2>1, <2>2 DEF RecallInv
  <2>4. recalled' \cap InHand' \subseteq registry' \cup unmarked'
    BY <2>1, <2>2 DEF RecallInv
  <2>5. archive' \cap recalled' \subseteq kept' \cup (unmarked' \ registry')
    BY <2>1 DEF RecallInv, RecalledNotArchived
  <2> QED
    BY <1>n, <1>t, <2>2, <2>3, <2>4, <2>5 DEF RecallInv, RecalledNotArchived
<1>4. CASE Expire
  <2>1. PICK m \in registry \ InHand : registry' = registry \ {m}
    BY <1>4 DEF Expire
  <2>2. InHand' = InHand
    BY <1>4 DEF Expire, InHand
  <2> QED
    BY <1>4, <1>n, <2>1, <2>2 DEF Expire, RecallInv, RecalledNotArchived
<1>5. CASE Look \/ Buffer
  <2>1. LoopUnchanged
    BY <1>5 DEF Look, Buffer
  <2>2. batch' = batch \/ batch' = Unread
    BY <1>5 DEF Look, Buffer, Decide, LeftUnread
  <2>3. InHand' \subseteq InHand \cup (stored \ flagged)
    BY <2>1, <2>2 DEF LoopUnchanged, InHand, Unread
  <2> QED
    BY <1>n, <2>1, <2>3 DEF LoopUnchanged, RecallInv, RecalledNotArchived
<1>6. CASE Talk
  <2> DEFINE u == [turn |-> batch, step |-> "new", list |-> <<>>, rest |-> batch]
  <2>1. tasks' = tasks \cup {u} /\ batch' = {} /\ transit' = transit
    BY <1>6 DEF Talk
  <2>2. Task(u) /\ u.turn = batch
    BY DEF Task
  <2> HIDE DEF u
  <2>3. \A t \in tasks' : Task(t)
    BY <1>t, <2>1, <2>2
  <2>4. InHand' \subseteq InHand
    BY <2>1, <2>2 DEF InHand
  <2> QED
    BY <1>6, <1>n, <2>3, <2>4, HandsKept DEF Talk
<1>7. CASE Wake \/ Plan \/ Raise
  <2>1. tasks' = tasks /\ InHand' \subseteq InHand
    BY <1>7 DEF Wake, Plan, Raise, InHand
  <2> QED
    BY <1>7, <1>n, <1>t, <2>1, HandsKept DEF Wake, Plan, Raise
<1>8. CASE Archive
  <2>1. PICK t \in {u \in tasks : u.step = "new"} :
          /\ archive' = archive \cup (t.turn \ registry)
          /\ Feed(t, pending \o InOrder(t.turn \ registry), tail)
    BY <1>8 DEF Archive
  <2>2. /\ \A s \in tasks' : Task(s)
        /\ UNION {s.turn : s \in tasks'} = UNION {s.turn : s \in tasks}
    BY <1>t, <2>1, FeedTasks
  <2>3. /\ transit' = transit /\ batch' = batch /\ stored' = stored /\ flagged' = flagged /\ registry' = registry
        /\ recalled' = recalled /\ kept' = kept /\ unmarked' = unmarked
    BY <1>8 DEF Archive
  <2>4. InHand' = InHand /\ t.turn \subseteq InHand
    BY <2>1, <2>2, <2>3 DEF InHand
  <2>5. RecalledNotArchived'
    BY <2>1, <2>3, <2>4 DEF RecallInv, RecalledNotArchived
  <2> QED
    BY <1>n, <2>2, <2>3, <2>4, <2>5 DEF RecallInv
<1>9. CASE Judge
  <2>1. PICK t \in tasks : \E open : Feed(t, pending, open)
    BY <1>9 DEF Judge
  <2>2. /\ \A s \in tasks' : Task(s)
        /\ UNION {s.turn : s \in tasks'} = UNION {s.turn : s \in tasks}
    BY <1>t, <2>1, FeedTasks
  <2>3. InHand' = InHand
    BY <1>9, <2>2 DEF Judge, InHand
  <2> QED
    BY <1>9, <1>n, <2>2, <2>3, HandsKept DEF Judge
<1>10. CASE Ingest
  <2>1. PICK t \in tasks : \E rest : tasks' = (tasks \ {t}) \cup {[t EXCEPT !.rest = rest]}
    BY <1>10 DEF Ingest
  <2>2. PICK rest : tasks' = (tasks \ {t}) \cup {[t EXCEPT !.rest = rest]}
    BY <2>1
  <2> DEFINE u == [t EXCEPT !.rest = rest]
  <2>3. Task(t)
    BY <1>t
  <2>4. u = [turn |-> t.turn, step |-> t.step, list |-> t.list, rest |-> rest]
    BY <2>3 DEF Task
  <2>5. Task(u) /\ u.turn = t.turn
    BY <2>4 DEF Task
  <2> HIDE DEF u
  <2>6. /\ \A s \in tasks' : Task(s)
        /\ UNION {s.turn : s \in tasks'} = UNION {s.turn : s \in tasks}
    BY <1>t, <2>2, <2>5, TaskGoesOn DEF u
  <2>7. InHand' = InHand
    BY <1>10, <2>6 DEF Ingest, InHand
  <2> QED
    BY <1>10, <1>n, <2>6, <2>7, HandsKept DEF Ingest
<1>11. CASE Save
  <2>1. tasks' \subseteq tasks
    BY <1>11 DEF Save
  <2>2. InHand' \subseteq InHand
    BY <1>11, <2>1 DEF Save, InHand
  <2> QED
    BY <1>11, <1>n, <1>t, <2>1, <2>2, HandsKept DEF Save
<1>12. CASE Crash
  <2>1. InHand' = {}
    BY <1>12 DEF Crash, InHand
  <2> QED
    BY <1>12, <1>n, <2>1 DEF Crash, RecallInv, RecalledNotArchived
<1>13. CASE UNCHANGED turnVars
  <2>1. InHand' = InHand
    BY <1>13 DEF turnVars, InHand
  <2> QED
    BY <1>13, <1>n, <1>t, <2>1, HandsKept DEF turnVars
<1> QED
  BY <1>1, <1>2, <1>3, <1>4, <1>5, <1>6, <1>7, <1>8, <1>9, <1>10, <1>11, <1>12, <1>13
     DEF TurnsNext, Loop, Background

\* What its author took back is not in the archive, at whichever moment the
\* recall came, but for the copies whose deletion failed, and those whose mark
\* failed and was needed after the registry had forgotten them.
THEOREM RecalledNotArchivedHolds == TurnsSpec => []RecalledNotArchived
<1>1. RecallInv => RecalledNotArchived
  BY DEF RecallInv
<1> QED
  BY <1>1, InitRecallInv, NextRecallInv, PTL DEF TurnsSpec
-----------------------------------------------------------------------------
(* Group turns: lists of messages                                          *)

\* A sequence in which no message is twice.
IsList(s) == s \in Seq(Range(s)) /\ IsInjective(s)

LEMMA ListElements ==
  ASSUME NEW S, NEW s \in Seq(S)
  PROVE  /\ s \in Seq(Range(s)) /\ Len(s) \in Nat /\ DOMAIN s = 1..Len(s)
         /\ Range(s) = {s[i] : i \in 1..Len(s)}
<1>1. s \in [1..Len(s) -> S] /\ DOMAIN s = 1..Len(s) /\ Len(s) \in Nat
  BY LenProperties
<1>2. Range(s) = {s[i] : i \in 1..Len(s)}
  BY <1>1 DEF Range
<1>3. s \in [1..Len(s) -> Range(s)]
  BY <1>1, <1>2
<1> QED
  BY <1>1, <1>2, <1>3, SeqDef

LEMMA EmptyList == IsList(<<>>) /\ Range(<<>>) = {} /\ Len(<<>>) = 0
<1>1. <<>> \in Seq({}) /\ Len(<<>>) = 0
  BY EmptySeq
<1>2. <<>> \in Seq(Range(<<>>)) /\ DOMAIN <<>> = 1..0
  BY <1>1, ListElements
<1> QED
  BY <1>1, <1>2 DEF IsList, IsInjective, Range

\* Lists without a message in common make a list.
LEMMA ListConcat ==
  ASSUME NEW s, NEW t, IsList(s), IsList(t), Range(s) \cap Range(t) = {}
  PROVE  IsList(s \o t) /\ Range(s \o t) = Range(s) \cup Range(t)
<1> DEFINE S == Range(s) \cup Range(t)
           c == s \o t
           m == Len(s)
           n == Len(t)
<1>1. s \in Seq(S) /\ t \in Seq(S)
  BY SeqMonotonic DEF IsList
<1>2. /\ DOMAIN s = 1..m /\ m \in Nat /\ \A i \in 1..m : s[i] \in Range(s)
      /\ DOMAIN t = 1..n /\ n \in Nat /\ \A i \in 1..n : t[i] \in Range(t)
  BY <1>1, LenProperties DEF Range
<1>3. c \in Seq(S) /\ Len(c) = m + n /\ \A i \in 1..(m + n) : c[i] = IF i <= m THEN s[i] ELSE t[i - m]
  BY <1>1, ConcatProperties
<1>4. c \in Seq(Range(c)) /\ DOMAIN c = 1..(m + n)
  BY <1>3, ListElements
<1> HIDE DEF c, m, n
<1>5. ASSUME NEW i \in 1..(m + n)
      PROVE  \/ i \in 1..m /\ c[i] = s[i] /\ c[i] \in Range(s)
             \/ i - m \in 1..n /\ c[i] = t[i - m] /\ c[i] \in Range(t)
  <2>1. CASE i <= m
    BY <1>2, <1>3, <2>1
  <2>2. CASE ~ (i <= m)
    <3>1. i - m \in 1..n
      BY <1>2, <2>2
    <3> QED
      BY <1>2, <1>3, <2>2, <3>1
  <2> QED
    BY <2>1, <2>2
<1>6. Range(s) \subseteq Range(c)
  <2> SUFFICES ASSUME NEW i \in 1..m PROVE s[i] \in Range(c)
    BY <1>2 DEF Range
  <2>1. i \in 1..(m + n) /\ i <= m
    BY <1>2
  <2> QED
    BY <1>3, <1>4, <2>1 DEF Range
<1>7. Range(t) \subseteq Range(c)
  <2> SUFFICES ASSUME NEW i \in 1..n PROVE t[i] \in Range(c)
    BY <1>2 DEF Range
  <2>1. i + m \in 1..(m + n) /\ ~ (i + m <= m) /\ (i + m) - m = i
    BY <1>2
  <2>2. c[i + m] = t[i]
    BY <1>3, <2>1
  <2> QED
    BY <1>4, <2>1, <2>2 DEF Range
<1>8. Range(c) \subseteq Range(s) \cup Range(t)
  BY <1>4, <1>5 DEF Range
<1>9. ASSUME NEW i \in 1..(m + n), NEW j \in 1..(m + n), c[i] = c[j]
      PROVE  i = j
  <2>1. CASE i \in 1..m /\ c[i] = s[i] /\ c[i] \in Range(s)
    <3>1. j \in 1..m /\ c[j] = s[j]
      BY <1>5, <1>9, <2>1
    <3> QED
      BY <1>2, <1>9, <2>1, <3>1 DEF IsList, IsInjective
  <2>2. CASE i - m \in 1..n /\ c[i] = t[i - m] /\ c[i] \in Range(t)
    <3>1. j - m \in 1..n /\ c[j] = t[j - m]
      BY <1>5, <1>9, <2>2
    <3>2. i - m = j - m
      BY <1>2, <1>9, <2>2, <3>1 DEF IsList, IsInjective
    <3> QED
      BY <1>2, <3>2
  <2> QED
    BY <1>5, <2>1, <2>2
<1> QED
  BY <1>4, <1>6, <1>7, <1>8, <1>9 DEF IsList, IsInjective, c

\* A part of a list, from one place to another.
LEMMA ListPart ==
  ASSUME NEW s, IsList(s), NEW a \in 1..(Len(s) + 1), NEW b \in 0..Len(s)
  PROVE  IsList(SubSeq(s, a, b)) /\ Range(SubSeq(s, a, b)) = {s[k] : k \in a..b}
<1> DEFINE c == SubSeq(s, a, b)
           n == Len(c)
<1>1. Len(s) \in Nat /\ DOMAIN s = 1..Len(s)
  BY ListElements DEF IsList
<1>2. \A k \in a..b : k \in 1..Len(s) /\ s[k] \in Range(s)
  BY <1>1 DEF Range
<1>3. /\ c \in Seq(Range(s)) /\ n = (IF a <= b THEN b - a + 1 ELSE 0)
      /\ \A i \in 1..(b - a + 1) : c[i] = s[a + i - 1]
  BY <1>1, <1>2, SubSeqProperties
<1>4. c \in Seq(Range(c)) /\ DOMAIN c = 1..n /\ n \in Nat
  BY <1>3, ListElements
<1> HIDE DEF c, n
<1>5. \A i \in 1..n : a + i - 1 \in a..b /\ c[i] = s[a + i - 1]
  BY <1>1, <1>3
<1>6. \A k \in a..b : k - a + 1 \in 1..n /\ c[k - a + 1] = s[k]
  <2> SUFFICES ASSUME NEW k \in a..b PROVE k - a + 1 \in 1..n /\ c[k - a + 1] = s[k]
    OBVIOUS
  <2>1. k - a + 1 \in 1..n /\ k - a + 1 \in 1..(b - a + 1) /\ a + (k - a + 1) - 1 = k
    BY <1>1, <1>3
  <2> QED
    BY <1>3, <2>1
<1>7. Range(c) = {s[k] : k \in a..b}
  <2>1. Range(c) = {c[i] : i \in 1..n}
    BY <1>4 DEF Range
  <2>2. \A i \in 1..n : c[i] \in {s[k] : k \in a..b}
    BY <1>5
  <2>3. \A k \in a..b : s[k] \in {c[i] : i \in 1..n}
    BY <1>6
  <2> QED
    BY <2>1, <2>2, <2>3
<1>8. ASSUME NEW i \in 1..n, NEW j \in 1..n, c[i] = c[j] PROVE i = j
  <2>1. a + i - 1 = a + j - 1
    BY <1>1, <1>2, <1>5, <1>8 DEF IsList, IsInjective
  <2> QED
    BY <1>1, <1>4, <2>1
<1> QED
  BY <1>4, <1>7, <1>8 DEF IsList, IsInjective, c

\* A list is cut in two.
LEMMA ListCut ==
  ASSUME NEW s, IsList(s), NEW n \in 0..Len(s)
  PROVE  /\ IsList(SubSeq(s, 1, n)) /\ IsList(SubSeq(s, n + 1, Len(s)))
         /\ Range(SubSeq(s, 1, n)) \cup Range(SubSeq(s, n + 1, Len(s))) = Range(s)
         /\ Range(SubSeq(s, 1, n)) \cap Range(SubSeq(s, n + 1, Len(s))) = {}
<1>1. Len(s) \in Nat /\ DOMAIN s = 1..Len(s)
  BY ListElements DEF IsList
<1>2. 1 \in 1..(Len(s) + 1) /\ n + 1 \in 1..(Len(s) + 1) /\ Len(s) \in 0..Len(s)
  BY <1>1
<1>3. /\ IsList(SubSeq(s, 1, n)) /\ IsList(SubSeq(s, n + 1, Len(s)))
      /\ Range(SubSeq(s, 1, n)) = {s[k] : k \in 1..n}
      /\ Range(SubSeq(s, n + 1, Len(s))) = {s[k] : k \in (n + 1)..Len(s)}
  BY <1>2, ListPart
<1>4. /\ \A k \in 1..Len(s) : k \in 1..n \/ k \in (n + 1)..Len(s)
      /\ \A k \in 1..n : k \in 1..Len(s)
      /\ \A k \in (n + 1)..Len(s) : k \in 1..Len(s)
      /\ \A i \in 1..n : \A k \in (n + 1)..Len(s) : i # k
  BY <1>1
<1>5. {s[k] : k \in 1..n} \cup {s[k] : k \in (n + 1)..Len(s)} = Range(s)
  BY <1>1, <1>4 DEF Range
<1>6. {s[k] : k \in 1..n} \cap {s[k] : k \in (n + 1)..Len(s)} = {}
  BY <1>1, <1>4 DEF IsList, IsInjective
<1> QED
  BY <1>3, <1>5, <1>6

\* In a list, the messages that the judgement found again are those it meant.
LEMMA SegmentPart ==
  ASSUME NEW s, IsList(s), NEW a \in 1..(Len(s) + 1), NEW b \in 0..Len(s)
  PROVE  Segment(s, a, b) = SubSeq(s, a, b)
<1>1. Len(s) \in Nat /\ DOMAIN s = 1..Len(s)
  BY ListElements DEF IsList
<1>2. CASE a > b
  BY <1>2, SubSeqEmpty DEF Segment
<1>3. CASE ~ (a > b)
  <2>1. a \in 1..Len(s) /\ b \in 1..Len(s)
    BY <1>1, <1>3
  <2>2. ASSUME NEW i \in 1..Len(s) PROVE LastIndex(s, s[i]) = i
    <3>1. {k \in DOMAIN s : s[k] = s[i]} = {i}
      BY <1>1 DEF IsList, IsInjective
    <3>2. LastIndex(s, s[i]) = CHOOSE x \in {i} : \A y \in {i} : x >= y
      BY <3>1 DEF LastIndex, Max
    <3>3. i >= i
      OBVIOUS
    <3> QED
      BY <3>2, <3>3
  <2> QED
    BY <1>3, <2>1, <2>2 DEF Segment
<1> QED
  BY <1>2, <1>3

\* The place of a message among those of a set.
Order(S, m) == Cardinality({n \in S : n <= m})

LEMMA OrderType ==
  ASSUME NEW S \in SUBSET Nat, IsFiniteSet(S), NEW m \in S
  PROVE  Order(S, m) \in 1..Cardinality(S)
<1> DEFINE B == {n \in S : n <= m}
<1>1. B \in SUBSET S /\ B # {}
  OBVIOUS
<1> HIDE DEF B
<1>2. IsFiniteSet(B) /\ Cardinality(B) <= Cardinality(S)
  BY <1>1, FS_Subset
<1>3. Cardinality(B) \in Nat /\ Cardinality(S) \in Nat /\ Cardinality(B) # 0
  BY <1>1, <1>2, FS_CardinalityType, FS_EmptySet
<1> QED
  BY <1>2, <1>3 DEF Order, B

LEMMA OrderGrows ==
  ASSUME NEW S \in SUBSET Nat, IsFiniteSet(S), NEW m \in S, NEW n \in S, m < n
  PROVE  Order(S, m) < Order(S, n)
<1> DEFINE B == {k \in S : k <= m}
           C == {k \in S : k <= n}
<1>1. B \in SUBSET C /\ n \in C /\ n \notin B /\ C \in SUBSET S
  <2>1. \A k \in S : k \in Nat
    OBVIOUS
  <2>2. (\A k \in S : k <= m => k <= n) /\ ~ (n <= m) /\ n <= n
    BY <2>1
  <2> QED
    BY <2>2
<1> HIDE DEF B, C
<1>2. IsFiniteSet(C)
  BY <1>1, FS_Subset
<1>3. IsFiniteSet(B) /\ Cardinality(B) <= Cardinality(C) /\ Cardinality(B) # Cardinality(C)
  BY <1>1, <1>2, FS_Subset
<1>4. Cardinality(B) \in Nat /\ Cardinality(C) \in Nat
  BY <1>2, <1>3, FS_CardinalityType
<1> QED
  BY <1>3, <1>4 DEF Order, B, C

LEMMA OrderInjective ==
  ASSUME NEW S \in SUBSET Nat, IsFiniteSet(S), NEW m \in S, NEW n \in S, Order(S, m) = Order(S, n)
  PROVE  m = n
<1>1. m \in Nat /\ n \in Nat /\ Order(S, m) \in Int /\ Order(S, n) \in Int
  BY OrderType
<1>2. ~ (m < n) /\ ~ (n < m)
  BY <1>1, OrderGrows
<1> QED
  BY <1>1, <1>2

LEMMA OrderOnto ==
  ASSUME NEW S \in SUBSET Nat, IsFiniteSet(S), NEW k \in 1..Cardinality(S)
  PROVE  \E m \in S : Order(S, m) = k
<1> DEFINE n == Cardinality(S)
           f == [m \in S |-> Order(S, m)]
<1>1. n \in Nat
  BY FS_CardinalityType
<1>2. f \in Injection(S, 1..n)
  BY OrderType, OrderInjective DEF Injection, IsInjective
<1>3. IsFiniteSet(1..n) /\ Cardinality(1..n) = n
  BY <1>1, FS_Interval
<1> HIDE DEF f
<1>4. f \in Surjection(S, 1..n)
  BY <1>2, <1>3, FS_Injection
<1> QED
  BY <1>4 DEF Surjection, f

\* A set of messages in their order is a list of them.
LEMMA InOrderList ==
  ASSUME NEW S \in SUBSET Nat, IsFiniteSet(S)
  PROVE  IsList(InOrder(S)) /\ Range(InOrder(S)) = S
<1> DEFINE n == Cardinality(S)
           at(k) == CHOOSE m \in S : Order(S, m) = k
           s == [k \in 1..n |-> at(k)]
<1>1. InOrder(S) = s
  BY DEF InOrder, Order
<1>2. n \in Nat
  BY FS_CardinalityType
<1>3. \A k \in 1..n : at(k) \in S /\ Order(S, at(k)) = k
  <2> SUFFICES ASSUME NEW k \in 1..n PROVE at(k) \in S /\ Order(S, at(k)) = k
    OBVIOUS
  <2>1. \E m \in S : Order(S, m) = k
    BY OrderOnto
  <2> QED
    BY <2>1
<1>4. \A m \in S : Order(S, m) \in 1..n /\ at(Order(S, m)) = m
  <2> SUFFICES ASSUME NEW m \in S PROVE Order(S, m) \in 1..n /\ at(Order(S, m)) = m
    OBVIOUS
  <2>1. Order(S, m) \in 1..n
    BY OrderType
  <2>2. at(Order(S, m)) \in S /\ Order(S, at(Order(S, m))) = Order(S, m)
    OBVIOUS
  <2> QED
    BY <2>1, <2>2, OrderInjective
<1> HIDE DEF at
<1>5. s \in Seq(S)
  <2>1. s \in [1..n -> S]
    BY <1>3
  <2> QED
    BY <1>2, <2>1, SeqDef
<1>6. s \in Seq(Range(s))
  BY <1>5, ListElements
<1>7. IsInjective(s)
  BY <1>3 DEF IsInjective
<1>8. Range(s) = S
  BY <1>3, <1>4 DEF Range
<1> QED
  BY <1>1, <1>6, <1>7, <1>8 DEF IsList

\* A list counts each of its messages once.
LEMMA ListCount ==
  ASSUME NEW s, IsList(s), NEW m
  PROVE  Count(s, m) = IF m \in Range(s) THEN 1 ELSE 0
<1> DEFINE P == {i \in DOMAIN s : s[i] = m}
<1>1. CASE m \in Range(s)
  <2>1. PICK i \in DOMAIN s : s[i] = m
    BY <1>1 DEF Range
  <2>2. P = {i}
    BY <2>1 DEF IsList, IsInjective
  <2>3. Cardinality(P) = 1
    BY <2>2, FS_Singleton
  <2> QED
    BY <1>1, <2>3 DEF Count
<1>2. CASE m \notin Range(s)
  <2>1. P = {}
    BY <1>2 DEF Range
  <2>2. Cardinality(P) = 0
    BY <2>1, FS_EmptySet
  <2> QED
    BY <1>2, <2>2 DEF Count
<1> QED
  BY <1>1, <1>2

\* What one task makes of new messages and the open ones, while it is alone: they
\* are in its list, wait for the next batch, or are open, each in one place.
LEMMA FeedPlaces ==
  ASSUME NEW t \in tasks, \A u \in tasks : u = t, Task(t),
         NEW new, NEW open, IsList(new), IsList(open), Range(new) \cap Range(open) = {},
         Feed(t, new, open)
  PROVE  \E u : /\ tasks' = {u} /\ u.turn = t.turn /\ u.step # "new"
                /\ IsList(u.list) /\ IsList(pending') /\ IsList(tail')
                /\ u.step = "judge" => tail' = <<>>
                /\ u.step # "judge" => u.list = <<>>
                /\ Range(pending') \cap Range(tail') = {} /\ Range(u.list) \cap Range(pending') = {}
                /\ Range(pending') \cup Range(tail') \cup Range(u.list) = Range(new) \cup Range(open)
<1>1. tasks \ {t} = {}
  OBVIOUS
<1>2. CASE Len(new) >= Trigger
  <2> DEFINE list == open \o SubSeq(new, 1, Trigger)
             u == [t EXCEPT !.step = "judge", !.list = list]
             v == [t EXCEPT !.step = "judge"]
  <2>1. pending' = SubSeq(new, Trigger + 1, Len(new)) /\ tail' = <<>> /\ tasks' = {u}
    BY <1>1, <1>2 DEF Feed
  <2>2. Trigger \in 0..Len(new)
    <3>1. Len(new) \in Nat
      BY ListElements DEF IsList
    <3> QED
      BY <1>2, <3>1, TurnsAssumption
  <2>3. /\ IsList(SubSeq(new, 1, Trigger)) /\ IsList(pending')
        /\ Range(SubSeq(new, 1, Trigger)) \cup Range(pending') = Range(new)
        /\ Range(SubSeq(new, 1, Trigger)) \cap Range(pending') = {}
    BY <2>1, <2>2, ListCut
  <2>4. IsList(list) /\ Range(list) = Range(open) \cup Range(SubSeq(new, 1, Trigger))
    BY <2>3, ListConcat
  <2> HIDE DEF list
  <2>5. v = [turn |-> t.turn, step |-> "judge", list |-> t.list, rest |-> t.rest]
    BY DEF Task
  <2>6. u = [v EXCEPT !.list = list]
    OBVIOUS
  <2> HIDE DEF u, v
  <2>7. u = [turn |-> t.turn, step |-> "judge", list |-> list, rest |-> t.rest]
    BY <2>5, <2>6
  <2>8. u.turn = t.turn /\ u.step = "judge" /\ u.list = list
    BY <2>7
  <2>9. IsList(tail') /\ Range(tail') = {}
    BY <2>1, EmptyList
  <2>10. Range(list) \cap Range(pending') = {} /\ Range(pending') \cup Range(list) = Range(new) \cup Range(open)
    BY <2>3, <2>4
  <2> QED
    BY <2>1, <2>3, <2>4, <2>8, <2>9, <2>10
<1>3. CASE ~ (Len(new) >= Trigger)
  <2> DEFINE u == [t EXCEPT !.step = "ingest", !.list = <<>>]
             v == [t EXCEPT !.step = "ingest"]
  <2>1. pending' = new /\ tail' = open /\ tasks' = {u}
    BY <1>1, <1>3 DEF Feed
  <2>2. v = [turn |-> t.turn, step |-> "ingest", list |-> t.list, rest |-> t.rest]
    BY DEF Task
  <2>3. u = [v EXCEPT !.list = <<>>]
    OBVIOUS
  <2> HIDE DEF u, v
  <2>4. u = [turn |-> t.turn, step |-> "ingest", list |-> <<>>, rest |-> t.rest]
    BY <2>2, <2>3
  <2>5. u.turn = t.turn /\ u.step = "ingest" /\ u.list = <<>>
    BY <2>4
  <2> QED
    BY <2>1, <2>5, EmptyList
<1> QED
  BY <1>2, <1>3
-----------------------------------------------------------------------------
(* Group turns: where a message is                                         *)

\* What turns were decided on with has arrived, and the cursor has passed it, or,
\* while there is no chat, all messages on their way are later.
CursorInv ==
  /\ Numbered /\ clock <= Messages
  /\ seen \subseteq 1..clock
  /\ pc # "none" => \A m \in seen : m <= cursor
  /\ pc = "none" => \A m \in transit, n \in seen : n < m

\* Messages in closed topics, of this process or of earlier ones.
Settled == InClosed \cup over

Held == Range(pending) \cup Range(tail) \cup UNION {Range(t.list) : t \in tasks}

\* A task that is to judge has all open messages in its list; one that has not
\* begun has a turn that was nowhere before.
TaskPlaced(t) ==
  /\ t.turn \subseteq seen
  /\ IsList(t.list) /\ Range(t.list) \cap Range(pending) = {}
  /\ t.step = "judge" => tail = <<>>
  /\ t.step # "judge" => t.list = <<>>
  /\ t.step = "new" => t.turn \cap (Held \cup Settled) = {}

\* While no turn overtakes a task: one task at a time, none during the questions
\* of a turn; each message in one list at most; and what the file has is what is
\* open, or all that is left after a restart.
OnePlace ==
  /\ strays = <<>>
  /\ \A t, u \in tasks : t = u
  /\ \A t \in tasks : Task(t) /\ TaskPlaced(t)
  /\ IsList(pending) /\ IsList(tail) /\ IsList(bridge)
  /\ Range(pending) \cap Range(tail) = {}
  /\ Held \cup Settled \cup Range(bridge) \subseteq seen
  /\ \A m \in InClosed : closed[m] = 1 /\ m \notin Held
  /\ over \cap (Held \cup InClosed \cup Range(bridge)) = {}
  /\ given \subseteq Held \cup Settled \cup Range(bridge)
  /\ pc = "talk" => tasks = {} /\ batch \subseteq seen /\ batch \cap (Held \cup Settled) = {}
  /\ bridge # <<>> => /\ tasks = {} /\ pc # "talk"
                      /\ \/ bridge = tail
                         \/ Held = {} /\ InClosed = {}

PlaceInv == CursorInv /\ (~ overlap => OnePlace)

LEMMA InitPlaceInv == TurnsInit => PlaceInv
<1> SUFFICES ASSUME TurnsInit PROVE PlaceInv
  OBVIOUS
<1>1. CursorInv
  BY TurnsAssumption DEF TurnsInit, CursorInv, Numbered
<1>2. Held = {} /\ InClosed = {} /\ over = {}
  BY EmptyList DEF TurnsInit, Held, InClosed
<1>3. OnePlace
  BY <1>2, EmptyList DEF TurnsInit, OnePlace, Settled
<1> QED
  BY <1>1, <1>3 DEF PlaceInv

LEMMA CursorStep == CursorInv /\ [TurnsNext]_turnVars => CursorInv'
<1> SUFFICES ASSUME CursorInv, [TurnsNext]_turnVars PROVE CursorInv'
  OBVIOUS
<1>0. Numbered' /\ clock \in Nat /\ cursor \in Int /\ stored \subseteq 1..clock /\ Messages \in Nat
  BY NumberedStep, TurnsAssumption DEF CursorInv, Numbered
<1> USE DEF database, loop, layer1, history
<1>1. CASE Arrive
  <2>1. clock' = clock + 1 /\ clock' <= Messages /\ seen' = seen /\ pc' = pc /\ cursor' = cursor
    BY <1>0, <1>1 DEF Arrive
  <2>2. seen' \subseteq 1..clock' /\ \A n \in seen : n < clock'
    BY <1>0, <2>1 DEF CursorInv
  <2>3. transit' = transit \cup {clock'}
    BY <1>1 DEF Arrive
  <2>4. pc = "none" => \A m \in transit', n \in seen : n < m
    BY <2>2, <2>3 DEF CursorInv
  <2> QED
    BY <1>0, <2>1, <2>2, <2>4 DEF CursorInv
<1>2. CASE Store
  <2>1. PICK m \in transit : Announce(m)
    BY <1>2 DEF Store
  <2>2. clock' = clock /\ seen' = seen
    BY <1>2 DEF Store
  <2>3. CASE pc = "none"
    <3>1. pc' = "look" /\ cursor' \in (clock - 1)..clock
      BY <2>1, <2>3 DEF Announce
    <3>2. m \in 1..clock /\ \A n \in seen : n \in Int /\ n < m
      BY <2>1, <2>3, <1>0 DEF CursorInv, Numbered
    <3>3. \A n \in seen : n <= cursor'
      BY <1>0, <3>1, <3>2
    <3> QED
      BY <1>0, <2>2, <3>1, <3>3 DEF CursorInv
  <2>4. CASE pc # "none"
    <3>1. cursor' = cursor /\ pc' = pc
      BY <2>1, <2>4 DEF Announce
    <3> QED
      BY <1>0, <2>2, <2>4, <3>1 DEF CursorInv
  <2> QED
    BY <2>3, <2>4
<1>3. CASE Look \/ Buffer
  <2>1. \/ cursor' = cursor /\ seen' = seen
        \/ cursor' = clock /\ seen' = seen \cup Unread
    BY <1>3 DEF Look, Buffer, Decide, LeftUnread
  <2>2. clock' = clock /\ pc # "none" /\ pc' # "none"
    BY <1>3 DEF Look, Buffer, LoopUnchanged, Decide
  <2>3. CASE cursor' = cursor /\ seen' = seen
    BY <1>0, <2>2, <2>3 DEF CursorInv
  <2>4. CASE cursor' = clock /\ seen' = seen \cup Unread
    <3>1. seen' \subseteq 1..clock
      BY <1>0, <2>4 DEF CursorInv, Unread
    <3>2. \A m \in 1..clock : m <= clock
      OBVIOUS
    <3> QED
      BY <1>0, <2>2, <2>4, <3>1, <3>2 DEF CursorInv
  <2> QED
    BY <2>1, <2>3, <2>4
<1>4. CASE Recall \/ Expire \/ Wake \/ Talk \/ Plan
  BY <1>0, <1>4 DEF Recall, Expire, Wake, Talk, Plan, CursorInv
<1>5. CASE Raise \/ Crash
  BY <1>0, <1>5 DEF Raise, LoopRestarts, Crash, CursorInv
<1>6. CASE Archive
  BY <1>0, <1>6 DEF Archive, CursorInv
<1>7. CASE Judge \/ Ingest \/ Save
  BY <1>0, <1>7 DEF Judge, Ingest, Save, CursorInv
<1>8. CASE UNCHANGED turnVars
  BY <1>0, <1>8 DEF turnVars, CursorInv
<1> QED
  BY <1>1, <1>2, <1>3, <1>4, <1>5, <1>6, <1>7, <1>8 DEF TurnsNext, Loop, Background

\* A step that leaves the summarizer, its tasks and the file alone.
LEMMA PlacesRest ==
  ASSUME OnePlace, tasks' = tasks, strays' = strays, pending' = pending, tail' = tail,
         closed' = closed, bridge' = bridge, given' = given, over' = over, seen \subseteq seen',
         pc' = "talk" => pc = "talk" /\ batch' = batch
  PROVE  OnePlace'
<1>1. Held' = Held /\ InClosed' = InClosed /\ Settled' = Settled
  BY DEF Held, InClosed, Settled
<1>2. \A t \in tasks' : Task(t) /\ TaskPlaced(t)'
  BY <1>1 DEF OnePlace, TaskPlaced
<1> QED
  BY <1>1, <1>2 DEF OnePlace

\* A turn begins: it takes what the file has, and its messages are in no list.
LEMMA TurnPlaces ==
  ASSUME CursorInv, OnePlace, pc # "none", tasks = {}, batch' = Unread, RestoreInstead,
         bridge' = <<>>, pc' = "talk", seen' = seen \cup Unread,
         UNCHANGED <<tasks, strays, pending, closed, given, over>>
  PROVE  OnePlace'
<1>1. /\ IsList(tail') /\ Range(tail') \subseteq seen /\ Range(pending) \cap Range(tail') = {}
      /\ \A m \in Settled : m \notin Range(tail')
      /\ given \subseteq Range(pending) \cup Range(tail') \cup Settled
  <2>1. Held = Range(pending) \cup Range(tail)
    BY DEF Held
  <2>2. CASE bridge = <<>> \/ bridge = tail
    <3>1. tail' = tail /\ Range(bridge) \subseteq Range(tail)
      BY <2>2, EmptyList DEF RestoreInstead
    <3> QED
      BY <2>1, <3>1 DEF OnePlace, Settled
  <2>3. CASE ~ (bridge = <<>> \/ bridge = tail)
    <3>1. tail' = bridge
      BY <2>3 DEF RestoreInstead
    <3>2. Held = {} /\ InClosed = {}
      BY <2>3 DEF OnePlace
    <3> QED
      BY <2>1, <3>1, <3>2 DEF OnePlace, Settled
  <2> QED
    BY <2>2, <2>3
<1>2. Held' = Range(pending) \cup Range(tail') /\ InClosed' = InClosed /\ Settled' = Settled
  BY DEF Held, InClosed, Settled
<1>3. Held' \cup Settled' \subseteq seen /\ Range(pending) \subseteq Held
  <2>1. Range(pending) \subseteq Held
    BY DEF Held
  <2> QED
    BY <1>1, <1>2, <2>1 DEF OnePlace
<1>4. Unread \cap seen = {}
  BY DEF CursorInv, Numbered, Unread
<1>5. \A m \in InClosed' : closed'[m] = 1 /\ m \notin Held'
  BY <1>1, <1>2, <1>3 DEF OnePlace, Settled
<1>6. /\ batch' \subseteq seen' /\ batch' \cap (Held' \cup Settled') = {}
  BY <1>3, <1>4
<1>7. IsList(bridge') /\ Range(bridge') = {}
  BY EmptyList
<1>8. IsList(pending') /\ strays' = <<>> /\ tasks' = {}
  BY DEF OnePlace
<1>9. given' \subseteq Held' \cup Settled' /\ Range(pending') \cap Range(tail') = {}
  BY <1>1, <1>2
<1>10. Held' \cup Settled' \cup Range(bridge') \subseteq seen'
  BY <1>3, <1>7
<1>11. over' \cap (Held' \cup InClosed' \cup Range(bridge')) = {}
  BY <1>1, <1>2, <1>3, <1>7 DEF OnePlace, Settled
<1> QED
  BY <1>1, <1>5, <1>6, <1>7, <1>8, <1>9, <1>10, <1>11 DEF OnePlace

\* The only task goes on with what it made of new and open messages.
LEMMA FedPlaces ==
  ASSUME OnePlace, NEW t \in tasks, t.step # "ingest",
         NEW new, NEW open, IsList(new), IsList(open), Range(new) \cap Range(open) = {},
         Range(new) \cup Range(open) \subseteq seen, Feed(t, new, open), strays' = <<>>, bridge' = bridge,
         pc' = pc, batch' = batch, seen' = seen, over' = over, InClosed' \subseteq seen,
         \A m \in InClosed' : closed'[m] = 1 /\ m \notin Range(new) \cup Range(open),
         over \cap (Range(new) \cup Range(open) \cup InClosed') = {},
         given' \subseteq Range(new) \cup Range(open) \cup InClosed' \cup over
  PROVE  OnePlace'
<1>1. Task(t) /\ (\A u \in tasks : u = t) /\ TaskPlaced(t)
  BY DEF OnePlace
<1>2. PICK u : /\ tasks' = {u} /\ u.turn = t.turn /\ u.step # "new"
               /\ IsList(u.list) /\ IsList(pending') /\ IsList(tail')
               /\ u.step = "judge" => tail' = <<>>
               /\ u.step # "judge" => u.list = <<>>
               /\ Range(pending') \cap Range(tail') = {} /\ Range(u.list) \cap Range(pending') = {}
               /\ Range(pending') \cup Range(tail') \cup Range(u.list) = Range(new) \cup Range(open)
  BY <1>1, FeedPlaces
<1>3. Held' = Range(new) \cup Range(open)
  BY <1>2 DEF Held
<1>4. TaskPlaced(u)'
  BY <1>1, <1>2 DEF TaskPlaced
<1>5. \A v \in tasks' : Task(v)
  BY <1>1, FeedTasks DEF OnePlace
<1>6. pc # "talk" /\ bridge = <<>> /\ IsList(bridge) /\ Range(bridge) \subseteq seen
  BY DEF OnePlace
<1>7. (\A v, w \in tasks' : v = w) /\ (\A v \in tasks' : Task(v) /\ TaskPlaced(v)')
  BY <1>2, <1>4, <1>5
<1>8. Held' \cup Settled' \cup Range(bridge') \subseteq seen' /\ given' \subseteq Held' \cup Settled'
  BY <1>3, <1>6 DEF Settled, OnePlace
<1>s. over' \cap (Held' \cup InClosed' \cup Range(bridge')) = {}
  BY <1>3, <1>6 DEF OnePlace
<1>9. \A m \in InClosed' : closed'[m] = 1 /\ m \notin Held'
  BY <1>3
<1> QED
  BY <1>2, <1>6, <1>7, <1>8, <1>9, <1>s DEF OnePlace

LEMMA ArchivePlaces ==
  ASSUME CursorInv, OnePlace, Archive
  PROVE  OnePlace'
<1> USE DEF loop
<1>1. PICK t \in {u \in tasks : u.step = "new"} :
        /\ Feed(t, pending \o InOrder(t.turn \ registry), tail)
        /\ given' = given \cup (t.turn \ registry)
        /\ UNCHANGED <<strays, closed, bridge, loop, seen, over>>
  BY DEF Archive
<1> DEFINE present == t.turn \ registry
           new == pending \o InOrder(present)
<1>2. t \in tasks /\ t.step = "new" /\ TaskPlaced(t)
  BY <1>1 DEF OnePlace
<1>3. present \subseteq seen /\ present \cap (Held \cup Settled) = {}
  BY <1>2 DEF TaskPlaced
<1>4. present \in SUBSET Nat /\ IsFiniteSet(present)
  <2>1. present \in SUBSET (1..clock) /\ clock \in Nat
    BY <1>3 DEF CursorInv, Numbered
  <2>2. IsFiniteSet(1..clock)
    BY <2>1, FS_Interval
  <2> HIDE DEF present
  <2>3. present \in SUBSET Nat
    BY <2>1
  <2>4. IsFiniteSet(present)
    BY <2>1, <2>2, FS_Subset
  <2> QED
    BY <2>3, <2>4
<1> HIDE DEF present
<1>5. IsList(InOrder(present)) /\ Range(InOrder(present)) = present
  BY <1>4, InOrderList
<1>6. Held = Range(pending) \cup Range(tail) /\ Range(pending) \cap Range(tail) = {}
  <2>1. \A u \in tasks : Range(u.list) = {}
    BY <1>2, EmptyList DEF OnePlace, TaskPlaced
  <2> QED
    BY <2>1 DEF Held, OnePlace
<1>7. IsList(new) /\ Range(new) = Range(pending) \cup present
  <2>1. IsList(pending)
    BY DEF OnePlace
  <2> QED
    BY <1>3, <1>5, <1>6, <2>1, ListConcat
<1>8. Feed(t, new, tail)
  BY <1>1 DEF present
<1> HIDE DEF new
<1>9. Range(new) \cap Range(tail) = {} /\ Range(new) \cup Range(tail) \subseteq seen
  BY <1>3, <1>6, <1>7 DEF OnePlace
<1>10. InClosed' = InClosed /\ InClosed \subseteq seen /\ over' = over
  BY <1>1 DEF InClosed, Settled, OnePlace
<1>11. \A m \in InClosed' : closed'[m] = 1 /\ m \notin Range(new) \cup Range(tail)
  BY <1>1, <1>3, <1>6, <1>7, <1>10 DEF OnePlace, Settled
<1>12. given' \subseteq Range(new) \cup Range(tail) \cup InClosed' \cup over
  <2>1. bridge = <<>> /\ Range(bridge) = {}
    BY <1>2, EmptyList DEF OnePlace
  <2> QED
    BY <1>1, <1>6, <1>7, <1>10, <2>1 DEF OnePlace, Settled, present
<1>14. over \cap (Range(new) \cup Range(tail) \cup InClosed') = {}
  BY <1>3, <1>6, <1>7, <1>10 DEF OnePlace, Settled
<1>13. IsList(tail) /\ strays' = <<>> /\ bridge' = bridge /\ pc' = pc /\ batch' = batch /\ seen' = seen
  BY <1>1 DEF OnePlace
<1> QED
  BY <1>2, <1>7, <1>8, <1>9, <1>10, <1>11, <1>12, <1>13, <1>14, FedPlaces

LEMMA JudgePlaces ==
  ASSUME CursorInv, OnePlace, Judge
  PROVE  OnePlace'
<1> USE DEF loop, history
<1>1. PICK t \in {u \in tasks : u.step = "judge"} : \E cut \in 0..Len(t.list) :
        /\ closed' = [m \in Msgs |->
             IF Contains(Segment(t.list, 1, cut), m) THEN closed[m] + 1 ELSE closed[m]]
        /\ strays' = strays \o tail
        /\ Feed(t, pending, Segment(t.list, cut + 1, Len(t.list)))
        /\ UNCHANGED <<bridge, loop, history>>
  BY DEF Judge
<1>2. PICK cut \in 0..Len(t.list) :
        /\ closed' = [m \in Msgs |->
             IF Contains(Segment(t.list, 1, cut), m) THEN closed[m] + 1 ELSE closed[m]]
        /\ strays' = strays \o tail
        /\ Feed(t, pending, Segment(t.list, cut + 1, Len(t.list)))
        /\ UNCHANGED <<bridge, loop, history>>
  BY <1>1
<1> DEFINE list == t.list
           done == Segment(list, 1, cut)
           left == Segment(list, cut + 1, Len(list))
<1>3. /\ t \in tasks /\ t.step = "judge" /\ TaskPlaced(t) /\ tail = <<>>
      /\ IsList(list) /\ Range(list) \cap Range(pending) = {}
  BY <1>1 DEF OnePlace, TaskPlaced
<1>4. Len(list) \in Nat /\ cut \in 0..Len(list)
  BY <1>3, ListElements DEF IsList
<1>5. done = SubSeq(list, 1, cut) /\ left = SubSeq(list, cut + 1, Len(list))
  <2>1. 1 \in 1..(Len(list) + 1) /\ cut + 1 \in 1..(Len(list) + 1) /\ Len(list) \in 0..Len(list)
    BY <1>4
  <2> HIDE DEF list
  <2> QED
    BY <1>3, <1>4, <2>1, SegmentPart
<1>6. closed' = [m \in Msgs |-> IF Contains(done, m) THEN closed[m] + 1 ELSE closed[m]] /\ Feed(t, pending, left)
  BY <1>2
<1> HIDE DEF list, done, left
<1>7. /\ IsList(done) /\ IsList(left)
      /\ Range(done) \cup Range(left) = Range(list) /\ Range(done) \cap Range(left) = {}
  BY <1>3, <1>4, <1>5, ListCut
<1>8. \A m : Contains(done, m) <=> m \in Range(done)
  <2>1. Range(done) = {done[i] : i \in 1..Len(done)}
    BY <1>7, ListElements DEF IsList
  <2> QED
    BY <2>1 DEF Contains
<1>9. Held = Range(pending) \cup Range(list)
  <2>1. \A u \in tasks : u = t
    BY <1>3 DEF OnePlace
  <2>2. Range(tail) = {}
    BY <1>3, EmptyList
  <2> QED
    BY <1>3, <2>1, <2>2 DEF Held, list
<1>10. Range(list) \subseteq Msgs /\ Range(done) \subseteq Msgs /\ Range(list) \subseteq seen
  <2>1. Range(list) \subseteq seen /\ seen \subseteq 1..clock /\ clock \in Nat /\ clock <= Messages
    BY <1>9 DEF OnePlace, CursorInv, Numbered
  <2>2. 1..clock \subseteq Msgs
    BY <2>1, TurnsAssumption DEF Msgs
  <2> QED
    BY <1>7, <2>1, <2>2
<1>11. \A m \in Msgs : m \in Range(done) => closed[m] = 0 /\ closed'[m] = 1
  BY <1>6, <1>7, <1>8, <1>9 DEF OnePlace, InClosed
<1>12. \A m \in Msgs : m \notin Range(done) => closed'[m] = closed[m]
  BY <1>6, <1>8
<1>13. InClosed' = InClosed \cup Range(done)
  BY <1>10, <1>11, <1>12 DEF InClosed
<1>14. \A m \in InClosed' : closed'[m] = 1 /\ m \notin Range(pending) \cup Range(left)
  <2> SUFFICES ASSUME NEW m \in InClosed' PROVE closed'[m] = 1 /\ m \notin Range(pending) \cup Range(left)
    OBVIOUS
  <2>1. m \in Msgs
    BY DEF InClosed
  <2>2. CASE m \in Range(done)
    BY <1>3, <1>7, <1>11, <2>1, <2>2 DEF list
  <2>3. CASE m \notin Range(done)
    <3>1. m \in InClosed /\ closed'[m] = closed[m]
      BY <1>12, <1>13, <2>1, <2>3
    <3> QED
      BY <1>7, <1>9, <3>1 DEF OnePlace
  <2> QED
    BY <2>2, <2>3
<1>15. given' \subseteq Range(pending) \cup Range(left) \cup InClosed' \cup over
  <2>1. bridge = <<>> /\ Range(bridge) = {}
    BY <1>3, EmptyList DEF OnePlace
  <2> QED
    BY <1>2, <1>7, <1>9, <1>13, <2>1 DEF OnePlace, Settled
<1>19. over \cap (Range(pending) \cup Range(left) \cup InClosed') = {}
  BY <1>7, <1>9, <1>13 DEF OnePlace
<1>16. /\ InClosed' \subseteq seen /\ Range(pending) \cup Range(left) \subseteq seen
       /\ Range(pending) \cap Range(left) = {}
  BY <1>3, <1>7, <1>9, <1>10, <1>13 DEF OnePlace, Settled, list
<1>17. strays' = <<>>
  <2>1. <<>> \o <<>> = <<>>
    BY EmptyList, ConcatEmptySeq DEF IsList
  <2> QED
    BY <1>2, <1>3, <2>1 DEF OnePlace
<1>18. IsList(pending) /\ bridge' = bridge /\ pc' = pc /\ batch' = batch /\ seen' = seen /\ over' = over
  BY <1>2 DEF OnePlace
<1> QED
  BY <1>3, <1>6, <1>7, <1>14, <1>15, <1>16, <1>17, <1>18, <1>19, FedPlaces

LEMMA IngestPlaces ==
  ASSUME OnePlace, Ingest
  PROVE  OnePlace'
<1> USE DEF layer1, loop, history
<1>1. PICK t \in {u \in tasks : u.step = "ingest"} : \E rest :
        tasks' = (tasks \ {t}) \cup {[t EXCEPT !.rest = rest]}
  BY DEF Ingest
<1>2. PICK rest : tasks' = (tasks \ {t}) \cup {[t EXCEPT !.rest = rest]}
  BY <1>1
<1> DEFINE u == [t EXCEPT !.rest = rest]
<1>3. t \in tasks /\ t.step = "ingest" /\ Task(t) /\ TaskPlaced(t) /\ \A v \in tasks : v = t
  BY <1>1 DEF OnePlace
<1>4. u = [turn |-> t.turn, step |-> t.step, list |-> t.list, rest |-> rest]
  BY <1>3 DEF Task
<1>5. Task(u) /\ u.turn = t.turn /\ u.step = t.step /\ u.list = t.list
  BY <1>4 DEF Task
<1> HIDE DEF u
<1>6. tasks' = {u}
  BY <1>2, <1>3 DEF u
<1>7. UNCHANGED <<strays, pending, tail, closed, bridge, given, over, seen, pc, batch>>
  BY DEF Ingest
<1>8. Held' = Held /\ InClosed' = InClosed /\ Settled' = Settled
  <2>1. tasks = {t}
    BY <1>3
  <2>2. UNION {Range(v.list) : v \in tasks} = Range(t.list) /\ UNION {Range(v.list) : v \in tasks'} = Range(t.list)
    BY <1>5, <1>6, <2>1
  <2> QED
    BY <1>7, <2>2 DEF Held, InClosed, Settled
<1>9. TaskPlaced(u)'
  BY <1>3, <1>5, <1>7, <1>8 DEF TaskPlaced
<1>10. pc # "talk" /\ bridge = <<>>
  BY <1>3 DEF OnePlace
<1>11. (\A v, w \in tasks' : v = w) /\ (\A v \in tasks' : Task(v) /\ TaskPlaced(v)')
  BY <1>5, <1>6, <1>9
<1> QED
  BY <1>7, <1>8, <1>10, <1>11 DEF OnePlace

LEMMA SavePlaces ==
  ASSUME OnePlace, Save
  PROVE  OnePlace'
<1> USE DEF layer1, loop, history
<1>1. PICK t \in {u \in tasks : u.step = "ingest"} :
        /\ tasks' = tasks \ {t}
        /\ bridge' \in {bridge, strays \o tail, tail, <<>>}
  BY DEF Save
<1>2. t \in tasks /\ t.step = "ingest" /\ TaskPlaced(t) /\ \A v \in tasks : v = t
  BY <1>1 DEF OnePlace
<1>3. tasks' = {} /\ pc # "talk" /\ bridge = <<>> /\ IsList(tail)
  BY <1>1, <1>2 DEF OnePlace
<1>4. strays \o tail = tail
  BY <1>3, ConcatEmptySeq DEF OnePlace, IsList
<1>5. bridge' = tail \/ bridge' = <<>>
  BY <1>1, <1>3, <1>4
<1>6. UNCHANGED <<strays, pending, tail, closed, given, over, seen, pc, batch>>
  BY DEF Save
<1>7. Range(t.list) = {}
  BY <1>2, EmptyList DEF TaskPlaced
<1>8. Held' = Held /\ InClosed' = InClosed /\ Settled' = Settled
  <2>1. UNION {Range(v.list) : v \in tasks} = {} /\ UNION {Range(v.list) : v \in tasks'} = {}
    BY <1>2, <1>3, <1>7
  <2> QED
    BY <1>6, <2>1 DEF Held, InClosed, Settled
<1>9. IsList(bridge') /\ Range(bridge') \subseteq seen /\ over \cap Range(bridge') = {}
  BY <1>3, <1>5, EmptyList DEF OnePlace, Held
<1>10. given \subseteq Held \cup Settled
  BY <1>3, EmptyList DEF OnePlace
<1> QED
  BY <1>3, <1>5, <1>6, <1>8, <1>9, <1>10 DEF OnePlace

LEMMA NextPlaceInv == PlaceInv /\ [TurnsNext]_turnVars => PlaceInv'
<1> SUFFICES ASSUME PlaceInv, [TurnsNext]_turnVars, ~ overlap' PROVE OnePlace'
  BY CursorStep DEF PlaceInv
<1>0. CursorInv /\ (~ overlap => OnePlace)
  BY DEF PlaceInv
<1> USE DEF database, loop, layer1, history
<1>1. CASE Store
  <2>1. PICK m \in transit : Announce(m)
    BY <1>1 DEF Store
  <2>2. pc' = "talk" => pc = "talk"
    BY <2>1 DEF Announce
  <2> QED
    BY <1>0, <1>1, <2>2, PlacesRest DEF Store
<1>2. CASE Look \/ Buffer
  <2>1. LoopUnchanged /\ pc # "none" /\ pc # "talk"
    BY <1>2 DEF Look, Buffer
  <2>2. \/ Decide(Unread)
        \/ pc' # "talk" /\ UNCHANGED <<tail, bridge, seen, overlap>>
    BY <1>2 DEF Look, Buffer
  <2>3. \/ pc' # "talk" /\ UNCHANGED <<tail, bridge, overlap>> /\ seen \subseteq seen'
        \/ /\ pc' = "talk" /\ batch' = Unread /\ seen' = seen \cup Unread
           /\ RestoreInstead /\ bridge' = <<>> /\ overlap' = (overlap \/ tasks # {})
    BY <2>2 DEF Decide, LeftUnread
  <2>4. CASE pc' # "talk" /\ UNCHANGED <<tail, bridge, overlap>> /\ seen \subseteq seen'
    BY <1>0, <2>1, <2>4, PlacesRest DEF LoopUnchanged
  <2>5. CASE /\ pc' = "talk" /\ batch' = Unread /\ seen' = seen \cup Unread
             /\ RestoreInstead /\ bridge' = <<>> /\ overlap' = (overlap \/ tasks # {})
    <3>1. ~ overlap /\ tasks = {}
      BY <2>5
    <3> QED
      BY <1>0, <2>1, <2>5, <3>1, TurnPlaces DEF LoopUnchanged
  <2> QED
    BY <2>3, <2>4, <2>5
<1>3. CASE Talk
  <2> DEFINE task == [turn |-> batch, step |-> "new", list |-> <<>>, rest |-> batch]
  <2>0. tasks' = tasks \cup {task} /\ pc = "talk" /\ pc' = "plan"
    BY <1>3 DEF Talk
  <2>u. PICK u : u = task
    OBVIOUS
  <2>1. tasks' = tasks \cup {u} /\ pc = "talk" /\ pc' = "plan"
    BY <2>0, <2>u
  <2>2. UNCHANGED <<strays, pending, tail, closed, bridge, given, over, seen, overlap>>
    BY <1>3 DEF Talk
  <2>3. OnePlace /\ tasks = {} /\ batch \subseteq seen /\ batch \cap (Held \cup Settled) = {} /\ bridge = <<>>
    BY <1>0, <2>1, <2>2 DEF OnePlace
  <2>4. Task(u) /\ u.turn = batch /\ u.step = "new" /\ u.list = <<>>
    BY <2>u DEF Task
  <2>5. tasks' = {u}
    BY <2>1, <2>3
  <2>6. Held' = Held /\ InClosed' = InClosed /\ Settled' = Settled
    BY <2>2, <2>3, <2>4, <2>5, EmptyList DEF Held, InClosed, Settled
  <2>7. TaskPlaced(u)'
    BY <2>2, <2>3, <2>4, <2>6, EmptyList DEF TaskPlaced
  <2>8. (\A v, w \in tasks' : v = w) /\ (\A v \in tasks' : Task(v) /\ TaskPlaced(v)')
    BY <2>4, <2>5, <2>7
  <2> QED
    BY <2>1, <2>2, <2>3, <2>6, <2>8 DEF OnePlace
<1>4. CASE Crash
  <2>1. /\ tasks' = {} /\ pending' = <<>> /\ tail' = <<>> /\ strays' = <<>> /\ pc' = "none"
        /\ closed' = [m \in Msgs |-> 0] /\ bridge' = bridge /\ seen' = seen
        /\ given' = over' \cup Range(bridge)
    BY <1>4 DEF Crash
  <2>2. Held' = {} /\ InClosed' = {} /\ Settled' = over'
    BY <2>1, EmptyList DEF Held, InClosed, Settled
  <2>3. IsList(bridge) /\ Range(bridge) \cup over' \subseteq seen /\ over' \cap Range(bridge) = {}
    <3>1. CASE overlap
      <4>1. bridge = <<>> /\ over' = {}
        BY <1>4, <3>1 DEF Crash
      <4> QED
        BY <4>1, EmptyList
    <3>2. CASE ~ overlap
      <4>1. over' = over \cup InClosed
        BY <1>4, <3>2 DEF Crash
      <4>2. bridge = <<>> \/ bridge = tail \/ InClosed = {}
        BY <1>0, <3>2 DEF OnePlace
      <4>3. InClosed \cap Range(bridge) = {}
        BY <1>0, <3>2, <4>2, EmptyList DEF OnePlace, Held
      <4> QED
        BY <1>0, <3>2, <4>1, <4>3 DEF OnePlace, Settled
    <3> QED
      BY <3>1, <3>2
  <2> QED
    BY <2>1, <2>2, <2>3, EmptyList DEF OnePlace
<1>5. CASE Arrive \/ Recall \/ Expire \/ Wake \/ Plan
  BY <1>0, <1>5, PlacesRest DEF Arrive, Recall, Expire, Wake, Plan
<1>6. CASE Raise
  BY <1>0, <1>6, PlacesRest DEF Raise, LoopRestarts
<1>7. CASE Archive
  <2>1. overlap' = overlap
    BY <1>7 DEF Archive
  <2> QED
    BY <1>0, <1>7, <2>1, ArchivePlaces
<1>8. CASE Judge
  BY <1>0, <1>8, JudgePlaces DEF Judge
<1>9. CASE Ingest
  <2>1. overlap' = overlap
    BY <1>9 DEF Ingest
  <2> QED
    BY <1>0, <1>9, <2>1, IngestPlaces
<1>10. CASE Save
  BY <1>0, <1>10, SavePlaces DEF Save
<1>11. CASE UNCHANGED turnVars
  BY <1>0, <1>11, PlacesRest DEF turnVars
<1> QED
  BY <1>1, <1>2, <1>3, <1>4, <1>5, <1>6, <1>7, <1>8, <1>9, <1>10, <1>11
     DEF TurnsNext, Loop, Background

\* Counted, the lists and the closed topics have a message once at most.
LEMMA PlacesCount ==
  ASSUME OnePlace, NEW m \in Msgs
  PROVE  /\ m \in Held \cup Settled \cup Range(bridge) => Places(m) = 1
         /\ m \notin Held \cup Settled \cup Range(bridge) => Places(m) = 0
<1> DEFINE lists == pending \o tail \o strays
           judged == {t \in Judged : Contains(t.list, m)}
<1>1. IsList(pending \o tail) /\ Range(pending \o tail) = Range(pending) \cup Range(tail)
  BY ListConcat DEF OnePlace
<1>2. IsList(lists) /\ Range(lists) = Range(pending) \cup Range(tail)
  <2>1. strays = <<>>
    BY DEF OnePlace
  <2>2. (pending \o tail) \o <<>> = pending \o tail
    BY <1>1, ConcatEmptySeq DEF IsList
  <2> QED
    BY <1>1, <2>1, <2>2
<1>3. Count(lists, m) = IF m \in Range(pending) \cup Range(tail) THEN 1 ELSE 0
  BY <1>2, ListCount
<1>4. \A t \in tasks : Contains(t.list, m) <=> m \in Range(t.list)
  <2> SUFFICES ASSUME NEW t \in tasks PROVE Contains(t.list, m) <=> m \in Range(t.list)
    OBVIOUS
  <2>1. IsList(t.list)
    BY DEF OnePlace, TaskPlaced
  <2>2. Range(t.list) = {t.list[i] : i \in 1..Len(t.list)}
    BY <2>1, ListElements DEF IsList
  <2> QED
    BY <2>2 DEF Contains
<1>5. InLists(m) = IF m \in Held THEN 1 ELSE 0
  <2>1. InLists(m) = Count(lists, m) + Cardinality(judged)
    BY DEF InLists
  <2> HIDE DEF lists
  <2>2. CASE \E t \in tasks : m \in Range(t.list)
    <3>1. PICK t \in tasks : m \in Range(t.list)
      BY <2>2
    <3>2. t.step = "judge" /\ tail = <<>> /\ m \notin Range(pending) /\ \A u \in tasks : u = t
      BY <3>1, EmptyList DEF OnePlace, TaskPlaced
    <3>3. judged = {t}
      BY <1>4, <3>1, <3>2 DEF Judged
    <3>4. Cardinality(judged) = 1
      BY <3>3, FS_Singleton
    <3> HIDE DEF judged
    <3>5. m \in Held /\ m \notin Range(tail)
      BY <3>1, <3>2, EmptyList DEF Held
    <3> QED
      BY <1>3, <2>1, <3>2, <3>4, <3>5
  <2>3. CASE ~ \E t \in tasks : m \in Range(t.list)
    <3>1. judged = {}
      BY <1>4, <2>3 DEF Judged
    <3>2. Cardinality(judged) = 0
      BY <3>1, FS_EmptySet
    <3> HIDE DEF judged
    <3>3. m \in Held <=> m \in Range(pending) \cup Range(tail)
      BY <2>3 DEF Held
    <3> QED
      BY <1>3, <2>1, <3>2, <3>3
  <2> QED
    BY <2>2, <2>3
<1>6. InTopics(m) = IF m \in Settled THEN 1 ELSE 0
  <2>1. closed[m] = IF m \in InClosed THEN 1 ELSE 0
    BY DEF OnePlace, InClosed
  <2>2. m \in over => m \notin InClosed
    BY DEF OnePlace
  <2> QED
    BY <2>1, <2>2 DEF InTopics, Settled
<1>7. InFile(m) = IF m \in Range(bridge) \ Held THEN 1 ELSE 0
  <2>1. Count(bridge, m) = IF m \in Range(bridge) THEN 1 ELSE 0
    BY ListCount DEF OnePlace
  <2>2. Range(tail) \subseteq Held /\ (tail # <<>> => Range(tail) # {})
    <3>1. IsList(tail)
      BY DEF OnePlace
    <3>2. Len(tail) \in Nat /\ Range(tail) = {tail[i] : i \in 1..Len(tail)}
      BY <3>1, ListElements DEF IsList
    <3>3. tail # <<>> => Len(tail) # 0
      BY <3>1, EmptySeq DEF IsList
    <3>4. tail # <<>> => tail[1] \in Range(tail)
      BY <3>2, <3>3
    <3> QED
      BY <3>4 DEF Held
  <2>3. m \in Range(bridge) => bridge # <<>>
    BY EmptyList
  <2>4. m \in Range(bridge) => bridge = tail \/ Held = {}
    BY <2>3 DEF OnePlace
  <2>5. CASE tail = <<>>
    BY <2>1, <2>3, <2>4, <2>5 DEF InFile
  <2>6. CASE tail # <<>>
    BY <2>2, <2>4, <2>6 DEF InFile
  <2> QED
    BY <2>5, <2>6
<1>8. m \in Settled => m \notin Held \cup Range(bridge)
  <2>1. bridge = <<>> \/ Range(bridge) \subseteq Held \/ InClosed = {}
    BY DEF OnePlace, Held
  <2> QED
    BY <2>1, EmptyList DEF OnePlace, Settled
<1> QED
  BY <1>5, <1>6, <1>7, <1>8 DEF Places

\* Neither the batches of the judgement nor the hand-over of the open topics
\* through the file, in a process or to the next one, doubles or loses a message
\* that was given to the summarizer, and nothing of a closed topic comes back, while
\* no turn overtakes the archiving of an earlier one.  What a restart loses is what
\* was in the memory and not in the file.
THEOREM SegmentedOnceHolds == TurnsSpec => []SegmentedOnce
<1>1. PlaceInv => SegmentedOnce
  <2> SUFFICES ASSUME OnePlace, NEW m \in Msgs PROVE Places(m) <= 1 /\ (m \in given => Places(m) = 1)
    BY DEF PlaceInv, SegmentedOnce
  <2>1. m \in given => m \in Held \cup Settled \cup Range(bridge)
    BY DEF OnePlace
  <2> QED
    BY <2>1, PlacesCount
<1> QED
  BY <1>1, InitPlaceInv, NextPlaceInv, PTL DEF TurnsSpec
=============================================================================
