------------------------- MODULE SelfUpdate_proofs -------------------------
(***************************************************************************)
(* Proofs about the update, for all revisions, tags, and numbers of        *)
(* requests, edits, pushes and failures: the checkout is taken only to     *)
(* what was confirmed; a result is that of the last task; and it is true.  *)
(***************************************************************************)
EXTENDS SelfUpdate, TLAPS

\* The counters are numbers.
Counters == requests \in Nat /\ edits \in Nat

\* A plan is that of the last task accepted.
PlanOfLastTask == pending # NoPlan => pending.target = confirmed /\ pending.at = requests

\* A plan is carried out once, from the exit its task has scheduled to its
\* deletion, and has no result before the last step.
OncePerPlan ==
  /\ exit = 43 => pc = "serve" /\ pending # NoPlan /\ result = NoResult
  /\ pc \in Steps => pending # NoPlan
  /\ pc \in Steps \ {"clear"} => result = NoResult

\* What was fetched is merged only if it is the target.
Verified == pc = "merge" => fetched = pending.target

\* What the steps behind the Runner have done, if nobody else did anything.
AtTarget == moved /\ (~touched => IsAncestor(pending.target, head))
Fresh == ~touched => synced = head /\ built = head
Progress ==
  /\ pc \in {"head", "status", "fetch", "verify", "merge"} => ~moved
  /\ pc \in {"sync", "install", "build"} => AtTarget
  /\ pc \in {"install", "build"} => (~touched => synced = head)
  /\ pc \in {"record", "clear"} =>
       /\ outcome = "updated" => Fresh
       /\ outcome \in {"updated", "post_update_failed"} => AtTarget
       /\ outcome \in Cancelled => ~moved

\* The result that waits for the plan's deletion is that of its steps.
ResultOfSteps ==
  pc = "clear" /\ result # NoResult =>
    /\ result.code = outcome
    /\ outcome \in {"updated", "post_update_failed"} => result.target = pending.target

IInv ==
  /\ Counters /\ PlanOfLastTask /\ OncePerPlan /\ Verified
  /\ ResultOfLastTask /\ Progress /\ ResultOfSteps

\* What a step may do to the checkout.
Confirmed == head' # head /\ edits' = edits => head' = confirmed /\ IsAncestor(head, head')
-----------------------------------------------------------------------------
LEMMA InitHolds == Init => IInv
BY DEF Init, IInv, Counters, PlanOfLastTask, OncePerPlan, Verified, ResultOfLastTask, Progress,
       ResultOfSteps, Steps, NoPlan, NoResult, None

\* Users and developers do what they want; the steps of the Worker do not
\* touch what the Runner has in hand.
LEMMA OutsideKeeps == ASSUME IInv, Edit \/ Push \/ SetChannel PROVE IInv' /\ Confirmed
<1>1. CASE Edit
  <2>1. Counters' /\ PlanOfLastTask' /\ OncePerPlan' /\ Verified' /\ ResultOfLastTask' /\ ResultOfSteps'
    BY <1>1 DEF Edit, IInv, Counters, PlanOfLastTask, OncePerPlan, Verified, ResultOfLastTask,
                ResultOfSteps, disk, run
  <2>2. Progress'
    BY <1>1 DEF Edit, IInv, Progress, AtTarget, Fresh, disk, run
  <2>3. Confirmed
    BY <1>1 DEF Edit, IInv, Counters, Confirmed
  <2> QED
    BY <2>1, <2>2, <2>3 DEF IInv
<1>2. CASE Push
  BY <1>2 DEF Push, IInv, Counters, PlanOfLastTask, OncePerPlan, Verified, ResultOfLastTask, Progress,
              AtTarget, Fresh, ResultOfSteps, Confirmed, disk, tree, run, history
<1>3. CASE SetChannel
  BY <1>3 DEF SetChannel, IInv, Counters, PlanOfLastTask, OncePerPlan, Verified, ResultOfLastTask, Progress,
              AtTarget, Fresh, ResultOfSteps, Confirmed, disk, tree, run, bounds, history
<1> QED
  BY <1>1, <1>2, <1>3

\* The steps of the Worker that make a plan.
LEMMA AcceptKeeps == ASSUME IInv, Accept \/ AcceptFails PROVE IInv' /\ Confirmed
<1>1. /\ result' = NoResult /\ pc = "serve" /\ UNCHANGED <<pc, head, edits>> /\ pending = NoPlan
      /\ exit' = 43 => Accept
  <2>1. exit # 43
    BY DEF IInv, OncePerPlan, Accept, AcceptFails, NothingPending
  <2> QED
    BY <2>1 DEF Accept, AcceptFails, NothingPending, ResultCleared, tree
<1>2. CASE UNCHANGED <<pending, requests>> /\ ~ Accept
  BY <1>1, <1>2 DEF IInv, Counters, PlanOfLastTask, OncePerPlan, Verified, ResultOfLastTask, Progress,
                    ResultOfSteps, Confirmed, Steps
<1>3. CASE \E ref \in Refs : /\ Applicable(remote[ref]) /\ pending' = Planned(ref)
                             /\ requests' = requests + 1 /\ confirmed' = request.expected
  <2>1. PICK ref \in Refs : /\ Applicable(remote[ref]) /\ pending' = Planned(ref)
                            /\ requests' = requests + 1 /\ confirmed' = request.expected
    BY <1>3
  <2>2. pending' # NoPlan /\ pending'.at = requests' /\ pending'.target = confirmed' /\ Counters'
    BY <1>1, <2>1 DEF Planned, Applicable, IInv, Counters, NoPlan
  <2>3. PlanOfLastTask' /\ ResultOfLastTask' /\ Verified' /\ Progress' /\ ResultOfSteps' /\ Confirmed
    BY <1>1, <2>2 DEF PlanOfLastTask, ResultOfLastTask, Verified, Progress, ResultOfSteps, Confirmed
  <2>4. OncePerPlan'
    BY <1>1, <2>2 DEF OncePerPlan, Steps
  <2> QED
    BY <2>2, <2>3, <2>4 DEF IInv
<1>4. CASE Accept
  BY <1>3, <1>4 DEF Accept
<1>5. CASE AcceptFails /\ ~ Accept
  BY <1>2, <1>3, <1>5 DEF AcceptFails
<1> QED
  BY <1>4, <1>5

LEMMA WorkKeeps == ASSUME IInv, Work PROVE IInv' /\ Confirmed
<1> USE DEF IInv, Counters, PlanOfLastTask, OncePerPlan, Verified, ResultOfLastTask, Progress,
            AtTarget, Fresh, ResultOfSteps, Confirmed, Steps, disk, tree, run, bounds, history
<1>1. CASE Ask
  BY <1>1 DEF Ask
<1>2. CASE Identify
  BY <1>2 DEF Identify
<1>3. CASE Accept \/ AcceptFails
  BY <1>3, AcceptKeeps
<1>5. CASE Refuse
  BY <1>5 DEF Refuse
<1>6. CASE Restart
  BY <1>6 DEF Restart, Schedule, None
<1> QED
  BY <1>1, <1>2, <1>3, <1>5, <1>6 DEF Work

\* The ends of the processes.
LEMMA EndsKeep == ASSUME IInv, Exit \/ Stop \/ Start PROVE IInv' /\ Confirmed
<1> USE DEF IInv, Counters, PlanOfLastTask, OncePerPlan, Verified, ResultOfLastTask, Progress,
            AtTarget, Fresh, ResultOfSteps, Confirmed, Steps, None, disk, tree, run, bounds, history
<1>1. CASE Exit
  BY <1>1 DEF Exit
<1>2. CASE Stop
  BY <1>2 DEF Stop
<1>3. CASE Start
  BY <1>3 DEF Start
<1> QED
  BY <1>1, <1>2, <1>3
-----------------------------------------------------------------------------
\* What all commands of the Runner leave alone.
LEMMA CommandsKeep ==
  ASSUME IInv, NothingElse, pc \in Steps \ {"clear"}, pc' \in Steps \ {"clear"}
  PROVE  Counters' /\ PlanOfLastTask' /\ OncePerPlan' /\ ResultOfLastTask' /\ ResultOfSteps'
BY DEF IInv, NothingElse, Counters, PlanOfLastTask, OncePerPlan, ResultOfLastTask, ResultOfSteps, Steps, disk

\* The commands that look before anything is moved.
LEMMA LookingKeeps ==
  ASSUME IInv, ReadHead \/ ReadStatus \/ Fetch \/ Verify
  PROVE  IInv' /\ Confirmed
<1>1. NothingElse /\ UNCHANGED <<tree, moved>> /\ pc \in {"head", "status", "fetch", "verify"}
  BY DEF ReadHead, ReadStatus, Fetch, Verify
<1>2. \/ pc' = "record" /\ outcome' \in Cancelled \cup {"command_failed"}
      \/ pc' \in {"status", "fetch", "verify"}
      \/ pc' = "merge" /\ fetched' = pending.target
  BY DEF ReadHead, ReadStatus, Fetch, Verify, Fails, Finish, Continue, Cancelled
<1>3. ~moved'
  BY <1>1 DEF IInv, Progress
<1>4. Progress'
  BY <1>2, <1>3 DEF Progress, Cancelled
<1>5. Verified'
  BY <1>1, <1>2 DEF Verified, NothingElse, disk
<1>6. Counters' /\ PlanOfLastTask' /\ OncePerPlan' /\ ResultOfLastTask' /\ ResultOfSteps'
  <2>1. pc \in Steps \ {"clear"} /\ pc' \in Steps \ {"clear"}
    BY <1>1, <1>2 DEF Steps
  <2> QED
    BY <1>1, <2>1, CommandsKeep
<1>7. Confirmed
  BY <1>1 DEF Confirmed, tree
<1> QED
  BY <1>4, <1>5, <1>6, <1>7 DEF IInv

\* The one command that moves the checkout.
LEMMA MergeKeeps == ASSUME IInv, Merge PROVE IInv' /\ Confirmed
<1>1. NothingElse /\ pc = "merge" /\ fetched = pending.target /\ ~moved /\ UNCHANGED fetched
  BY DEF Merge, IInv, Verified, Progress
<1>2. pending # NoPlan /\ pending.target = confirmed
  BY <1>1 DEF IInv, OncePerPlan, PlanOfLastTask, Steps
<1>3. head' = head \/ (CanAdvance /\ head' = Advanced)
  BY DEF Merge
<1>4. head' # head => head' = confirmed /\ IsAncestor(head, head')
  BY <1>1, <1>2, <1>3 DEF Advanced, CanAdvance
<1>5. \/ pc' = "sync" /\ moved' /\ head' = Advanced
      \/ pc' = "record" /\ outcome' = "command_failed"
  BY DEF Merge, Fails, Finish, Continue
<1>6. Progress'
  <2>1. IsAncestor(fetched, Advanced)
    BY DEF Advanced, IsAncestor
  <2>2. pending' = pending
    BY <1>1 DEF NothingElse, disk
  <2>3. CASE pc' = "sync" /\ moved' /\ head' = Advanced
    BY <1>1, <2>1, <2>2, <2>3 DEF Progress, AtTarget, IsAncestor
  <2>4. CASE pc' = "record" /\ outcome' = "command_failed"
    BY <2>4 DEF Progress, Cancelled
  <2> QED
    BY <1>5, <2>3, <2>4
<1>7. Counters' /\ PlanOfLastTask' /\ OncePerPlan' /\ ResultOfLastTask' /\ ResultOfSteps'
  <2>1. pc \in Steps \ {"clear"} /\ pc' \in Steps \ {"clear"}
    BY <1>1, <1>5 DEF Steps
  <2> QED
    BY <1>1, <2>1, CommandsKeep
<1>8. Verified'
  BY <1>5 DEF Verified
<1> QED
  BY <1>4, <1>6, <1>7, <1>8 DEF IInv, Confirmed

\* The commands after it.
LEMMA FollowUpKeeps == ASSUME IInv, Sync \/ Install \/ Build PROVE IInv' /\ Confirmed
<1>1. /\ NothingElse /\ UNCHANGED <<head, moved>>
      /\ pc \in {"sync", "install", "build"} /\ pc' \in {"install", "build", "record"}
  BY DEF Sync, Install, Build, Fails, Finish, Continue, tree
<1>2. AtTarget'
  BY <1>1 DEF IInv, Progress, AtTarget, NothingElse, disk, IsAncestor
<1>3. Progress'
  <2>1. pc' \in {"install", "build"} => (~touched' => synced' = head')
    BY <1>1 DEF Sync, Install, Build, Fails, Finish, Continue, IInv, Progress, tree, NothingElse
  <2>2. pc' = "record" => outcome' \in {"updated", "post_update_failed"}
    BY DEF Sync, Install, Build, Fails, Finish, Continue
  <2>3. pc' = "record" /\ outcome' = "updated" => Fresh'
    BY <1>1 DEF Sync, Install, Build, Fails, Finish, Continue, IInv, Progress, Fresh, NothingElse
  <2> QED
    BY <1>1, <1>2, <2>1, <2>2, <2>3 DEF Progress, Cancelled
<1>4. Counters' /\ PlanOfLastTask' /\ OncePerPlan' /\ ResultOfLastTask' /\ ResultOfSteps'
  <2>1. pc \in Steps \ {"clear"} /\ pc' \in Steps \ {"clear"}
    BY <1>1 DEF Steps
  <2> QED
    BY <1>1, <2>1, CommandsKeep
<1>5. Verified' /\ Confirmed
  BY <1>1 DEF Verified, Confirmed
<1> QED
  BY <1>3, <1>4, <1>5 DEF IInv

\* An exception leaves the plan, perhaps after the work of its command.
LEMMA EscapeKeeps == ASSUME IInv, Escape PROVE IInv' /\ Confirmed
<1>1. /\ pc \in Commands /\ pc' = "serve" /\ pending # NoPlan /\ exit # 43
      /\ UNCHANGED <<exit, pending, result, requests, edits, confirmed, fetched>>
  BY DEF Escape, Commands, IInv, OncePerPlan, Steps, disk, run
<1>2. head' = head \/ (pc = "merge" /\ CanAdvance /\ head' = Advanced)
  BY DEF Escape
<1>3. pc = "merge" => fetched = confirmed
  BY <1>1 DEF IInv, Verified, PlanOfLastTask
<1>4. Confirmed
  BY <1>2, <1>3 DEF Confirmed, Advanced, CanAdvance
<1>5. Counters' /\ PlanOfLastTask' /\ OncePerPlan' /\ Verified' /\ ResultOfLastTask'
  BY <1>1 DEF IInv, Counters, PlanOfLastTask, OncePerPlan, Verified, ResultOfLastTask, Steps
<1>6. Progress' /\ ResultOfSteps'
  BY <1>1 DEF Progress, ResultOfSteps
<1> QED
  BY <1>4, <1>5, <1>6 DEF IInv

\* The plan's beginning and its two last steps.
LEMMA PlanKeeps == ASSUME IInv, ReadPlan \/ Record \/ Clear PROVE IInv' /\ Confirmed
<1>1. CASE ReadPlan
  <2>1. \/ pc' = "head"
        \/ pc' = "record" /\ outcome' \in {"invalid_plan", "missing_tool"}
    BY <1>1 DEF ReadPlan, Continue, Finish
  <2>2. /\ pc = "read" /\ ~moved'
        /\ UNCHANGED <<exit, pending, result, head, requests, edits, confirmed>>
    BY <1>1 DEF ReadPlan, disk, tree
  <2>3. Progress' /\ Verified' /\ ResultOfSteps'
    BY <2>1, <2>2 DEF Progress, Verified, ResultOfSteps, Cancelled
  <2>4. Counters' /\ PlanOfLastTask' /\ OncePerPlan' /\ ResultOfLastTask' /\ Confirmed
    BY <2>1, <2>2 DEF IInv, Counters, PlanOfLastTask, OncePerPlan, ResultOfLastTask, Confirmed, Steps
  <2> QED
    BY <2>3, <2>4 DEF IInv
<1>2. CASE Record
  <2>1. /\ pc = "record" /\ pc' = "clear"
        /\ UNCHANGED <<exit, pending, head, synced, built, outcome, requests, edits, confirmed, moved, touched>>
    BY <1>2 DEF Record, tree, run, history
  <2>2. \/ result' = result
        \/ result'.of = pending.at /\ result'.code = outcome
           /\ (outcome \in {"updated", "post_update_failed"} => result'.target = pending.target)
    BY <1>2 DEF Record, Outcome
  <2>3. pending # NoPlan /\ pending.at = requests /\ result = NoResult
    BY <2>1 DEF IInv, OncePerPlan, PlanOfLastTask, Steps
  <2>4. Progress' /\ Verified'
    BY <2>1 DEF IInv, Progress, Verified, AtTarget, Fresh, IsAncestor
  <2>5. Counters' /\ PlanOfLastTask' /\ OncePerPlan' /\ Confirmed
    BY <2>1 DEF IInv, Counters, PlanOfLastTask, OncePerPlan, Confirmed, Steps
  <2>6. ResultOfLastTask' /\ ResultOfSteps'
    BY <2>1, <2>2, <2>3 DEF ResultOfLastTask, ResultOfSteps, NoResult
  <2> QED
    BY <2>4, <2>5, <2>6 DEF IInv
<1>3. CASE Clear
  <2>1. /\ pc = "clear" /\ pc' = "serve" /\ pending' \in {NoPlan, pending}
        /\ UNCHANGED <<exit, result, head, requests, edits, confirmed>>
    BY <1>3 DEF Clear, tree
  <2>2. exit # 43
    BY <2>1 DEF IInv, OncePerPlan
  <2> QED
    BY <2>1, <2>2 DEF IInv, Counters, PlanOfLastTask, OncePerPlan, Verified, ResultOfLastTask,
                      Progress, ResultOfSteps, Confirmed, Steps
<1> QED
  BY <1>1, <1>2, <1>3

LEMMA NextKeeps == ASSUME IInv, [Next]_vars PROVE IInv' /\ Confirmed
<1>1. CASE UNCHANGED vars
  BY <1>1 DEF IInv, Counters, PlanOfLastTask, OncePerPlan, Verified, ResultOfLastTask, Progress, AtTarget,
              Fresh, ResultOfSteps, Confirmed, vars, disk, tree, run, bounds, history
<1>2. CASE Next
  BY <1>2, OutsideKeeps, WorkKeeps, EndsKeep, LookingKeeps, MergeKeeps, FollowUpKeeps, PlanKeeps,
     EscapeKeeps DEF Next, Apply
<1> QED
  BY <1>1, <1>2
-----------------------------------------------------------------------------
\* The inductive invariant holds in every state.
THEOREM Invariance == Spec => []IInv
BY InitHolds, NextKeeps, PTL DEF Spec

\* A result on disk is that of the last task accepted, whatever failed and
\* stopped: the plan of an earlier task keeps the next one from being
\* accepted, and an accepted one clears what is there.
THEOREM ResultOfLastTaskHolds == Spec => []ResultOfLastTask
<1>1. IInv => ResultOfLastTask
  BY DEF IInv
<1> QED
  BY <1>1, Invariance, PTL

\* A result says how far the update came.
THEOREM ResultTrueHolds == Spec => []ResultTrue
<1>1. IInv => ResultTrue
  <2> SUFFICES ASSUME IInv, pc = "clear", result.of = pending.at, ~touched
               PROVE  /\ result.code = "updated" => synced = head /\ built = head
                      /\ result.code \in {"updated", "post_update_failed"} => moved /\ IsAncestor(result.target, head)
                      /\ result.code \in Cancelled => ~moved
    BY DEF ResultTrue
  <2>1. pending # NoPlan /\ pending.at = requests
    BY DEF IInv, OncePerPlan, PlanOfLastTask, Steps
  <2>2. CASE result # NoResult
    BY <2>2 DEF IInv, ResultOfSteps, Progress, Fresh, AtTarget
  <2>3. CASE result = NoResult
    BY <2>3 DEF NoResult, Cancelled
  <2> QED
    BY <2>2, <2>3
<1> QED
  BY <1>1, Invariance, PTL

\* The checkout is taken to what the user confirmed and nowhere else, and
\* only forward, though branches, tags and the checkout move at any time.
THEOREM OnlyConfirmedHolds == Spec => OnlyConfirmed
<1>1. IInv /\ [Next]_vars => [Confirmed]_vars
  BY NextKeeps
<1>2. [][Confirmed]_vars => OnlyConfirmed
  BY PTL DEF OnlyConfirmed, Confirmed
<1> QED
  BY <1>1, <1>2, Invariance, PTL DEF Spec
=============================================================================
