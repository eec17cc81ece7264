------------------------------ MODULE Failover ------------------------------
(***************************************************************************)
(* LLMRequest: the models of one task, the choice among them, the retries  *)
(* on a model and the change to another one, when several callers use the  *)
(* object at once.  All of them read and write one table, model_usage.     *)
(*                                                                         *)
(* Everything runs on one event loop.  The code suspends only while a      *)
(* provider works and while it sleeps before a retry: what happens between *)
(* an answer and the next call - the accounts of the old model, the choice *)
(* of the new one - is one step.  A model is the number of its place in    *)
(* model_list; the models of a task have one provider's settings.          *)
(***************************************************************************)
EXTENDS Integers, FiniteSets, FiniteSetsExt

CONSTANTS Requests,   \* the calls made on the object
          Lenient,    \* those with raise_when_empty = False
          Textual,    \* those with messages, which can be compressed
          ModelCount, \* length of model_list
          MaxRetry,   \* max_retry of the provider
          Cost,       \* total_tokens of an answer
          AtRandom    \* selection_strategy is "random", not "balance"

ASSUME RequestsAssumption ==
  /\ IsFiniteSet(Requests) /\ Lenient \subseteq Requests /\ Textual \subseteq Requests
ASSUME NumbersAssumption ==
  /\ ModelCount \in Nat \ {0} /\ MaxRetry \in Nat \ {0} /\ Cost \in Nat
ASSUME StrategyAssumption == AtRandom \in BOOLEAN

Models == 1..ModelCount

VARIABLES
  usage,   \* model_usage: total_tokens, penalty and usage_penalty of each model
  req,     \* each request's locals
  heard    \* history: the calls each model got for each request

vars == <<usage, req, heard>>

Waits == {"sent", "sleeping"}                         \* suspended in an await
Ends  == {"answered", "failed", "cancelled", "broken"}

RequestTypeOK ==
  [pc: {"new"} \cup Waits \cup Ends,
   model: 0..ModelCount,         \* the one it was last made on
   remain: 0..MaxRetry,          \* retry_remain
   small: BOOLEAN,               \* compressed_messages is set
   failed: SUBSET Models]        \* failed_models_this_request

TypeOK ==
  /\ usage \in [Models -> [tokens: Nat, penalty: Nat, inUse: Nat]]
  /\ req \in [Requests -> RequestTypeOK]
  /\ heard \in [Requests -> [Models -> Nat]]

Init ==
  /\ usage = [m \in Models |-> [tokens |-> 0, penalty |-> 0, inUse |-> 0]]
  /\ req = [r \in Requests |->
              [pc |-> "new", model |-> 0, remain |-> 0, small |-> FALSE, failed |-> {}]]
  /\ heard = [r \in Requests |-> [m \in Models |-> 0]]

-----------------------------------------------------------------------------
(* The accounts.                                                           *)

Taken(u, m)    == [u EXCEPT ![m].inUse = @ + 1]
Answering(u, m, tokens) == [u EXCEPT ![m].tokens = @ + tokens, ![m].inUse = @ - 1]
\* Mutation: a failure is not a use that ended.
BlamingOnly(u, m) == [u EXCEPT ![m].penalty = @ + 1]

Blaming(u, m)  == [u EXCEPT ![m].penalty = @ + 1, ![m].inUse = @ - 1]

\* The models that can be chosen with the accounts u: any of those left, or
\* the first among them of the lowest score.
Score(u, m) == u[m].tokens + 300 * u[m].penalty + 1000 * u[m].inUse

Best(u, left) == {m \in left : \A k \in left : \/ Score(u, m) < Score(u, k)
                                               \/ Score(u, m) = Score(u, k) /\ m <= k}

Candidates(u, failed) ==
  LET left == Models \ failed IN IF AtRandom THEN left ELSE Best(u, left)

-----------------------------------------------------------------------------
(* A call of the provider.                                                 *)

Call(r, m) == heard' = [heard EXCEPT ![r][m] = @ + 1]

\* message_factory builds the messages for the client of the chosen model
\* and may raise, for an image the client does not take: that ends the
\* request, on whichever model it is.
Try(r, m, u, failed) ==
  /\ usage' = Taken(u, m)
  /\ \/ /\ req' = [req EXCEPT ![r] = [pc |-> "sent", model |-> m, remain |-> MaxRetry,
                                      small |-> FALSE, failed |-> failed]]
        /\ Call(r, m)
     \/ /\ r \in Textual
        /\ req' = [req EXCEPT ![r] = [pc |-> "broken", model |-> m, remain |-> 0,
                                      small |-> FALSE, failed |-> failed]]
        /\ UNCHANGED heard

\* The loop over the attempts, as many as there are models.
NextModel(r, u, failed) ==
  \/ \E m \in Candidates(u, failed) : Try(r, m, u, failed)
  \/ /\ failed = Models
     /\ usage' = u
     /\ req' = [req EXCEPT ![r].pc = "failed", ![r].failed = failed]
     /\ UNCHANGED heard

Start(r) == req[r].pc = "new" /\ NextModel(r, usage, {})

-----------------------------------------------------------------------------
(* What a call comes to.                                                   *)

\* The attempt on a model is given up (ModelAttemptFailed).
GiveUp(r) ==
  LET m == req[r].model IN NextModel(r, Blaming(usage, m), req[r].failed \cup {m})

Answered(r) ==
  /\ req[r].pc = "sent"
  /\ \E tokens \in {0, Cost} : usage' = Answering(usage, req[r].model, tokens)
  /\ req' = [req EXCEPT ![r].pc = "answered"]
  /\ UNCHANGED heard

\* An empty response, for a caller that takes one.
AnsweredEmpty(r) ==
  /\ req[r].pc = "sent" /\ r \in Lenient
  /\ usage' = Answering(usage, req[r].model, 0)
  /\ req' = [req EXCEPT ![r].pc = "answered"]
  /\ UNCHANGED heard

\* Mutation: a retry is a penalty, too.
TransientBlamed(r) ==
  /\ req[r].pc = "sent"
  /\ \/ /\ req[r].remain = 1
        /\ GiveUp(r)
     \/ /\ req[r].remain > 1
        /\ usage' = [usage EXCEPT ![req[r].model].penalty = @ + 1]
        /\ req' = [req EXCEPT ![r].pc = "sleeping", ![r].remain = @ - 1]
        /\ UNCHANGED heard

\* A failure of the network, of the service (429, 5xx), an empty response.
Transient(r) ==
  /\ req[r].pc = "sent"
  /\ \/ /\ req[r].remain = 1
        /\ GiveUp(r)
     \/ /\ req[r].remain > 1
        /\ req' = [req EXCEPT ![r].pc = "sleeping", ![r].remain = @ - 1]
        /\ UNCHANGED <<usage, heard>>

\* Mutation: a retry waits until it has the model for itself.
RetryAlone(r) ==
  /\ req[r].pc = "sleeping" /\ usage[req[r].model].inUse = 1
  /\ req' = [req EXCEPT ![r].pc = "sent"]
  /\ Call(r, req[r].model)
  /\ UNCHANGED usage

\* The sleep of retry_interval is over.
Retry(r) ==
  /\ req[r].pc = "sleeping"
  /\ req' = [req EXCEPT ![r].pc = "sent"]
  /\ Call(r, req[r].model)
  /\ UNCHANGED usage

\* Mutation: it is not remembered that they are compressed.
CanShrinkAgain(r) == r \in Textual

\* 413: compressed and sent again at once, without a retry being used; an
\* exception of the compression ends the request.
CanShrink(r) == r \in Textual /\ ~req[r].small

TooLarge(r) ==
  /\ req[r].pc = "sent" /\ CanShrink(r)
  /\ \/ req' = [req EXCEPT ![r].small = TRUE] /\ Call(r, req[r].model)
     \/ req' = [req EXCEPT ![r].pc = "broken"] /\ UNCHANGED heard
  /\ UNCHANGED usage

\* Any other status, any other exception.
HardError(r) == req[r].pc = "sent" /\ GiveUp(r)

\* The caller's task is cancelled: the exception passes through.
Cancel(r) ==
  /\ req[r].pc \in Waits
  /\ req' = [req EXCEPT ![r].pc = "cancelled"]
  /\ UNCHANGED <<usage, heard>>

-----------------------------------------------------------------------------
\* Every provider's client is built with a timeout: a call comes to something.
Outcome(r) == Answered(r) \/ AnsweredEmpty(r) \/ Transient(r) \/ TooLarge(r) \/ HardError(r)

Next == \E r \in Requests : Start(r) \/ Outcome(r) \/ Retry(r) \/ Cancel(r)

Spec == Init /\ [][Next]_vars

FairSpec ==
  /\ Spec
  /\ \A r \in Requests : WF_vars(Outcome(r)) /\ WF_vars(Retry(r))

-----------------------------------------------------------------------------
(* Properties.                                                             *)

Working(m)   == {r \in Requests : req[r].model = m /\ req[r].pc \in Waits}
Abandoned(m) == {r \in Requests : req[r].model = m /\ req[r].pc \in {"cancelled", "broken"}}

\* However the requests overlap, fail over and end, the usage penalty of a
\* model is the number of requests at work on it and of those that were
\* cancelled, or whose messages could not be built or compressed, on it: no
\* update is lost or made twice, though it is read before the await and after it.
Charged ==
  \A m \in Models : usage[m].inUse = Cardinality(Working(m)) + Cardinality(Abandoned(m))

\* The penalty of a model counts the requests that gave it up, each once
\* however often it was retried.
Blamed ==
  \A m \in Models : usage[m].penalty = Cardinality({r \in Requests : m \in req[r].failed})

\* A request never bothers a model more often than max_retry allows, but for
\* the one time it is sent again compressed: not when transient failures and
\* the status 413 alternate, and not by coming back to a model it gave up.
CallsBounded ==
  \A r \in Requests, m \in Models : heard[r][m] <= MaxRetry + (IF r \in Textual THEN 1 ELSE 0)

\* A request that was begun ends, whatever the providers do.
Ended == \A r \in Requests : (req[r].pc # "new") ~> (req[r].pc \in Ends)

=============================================================================
