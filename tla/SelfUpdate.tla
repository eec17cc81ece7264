----------------------------- MODULE SelfUpdate -----------------------------
(***************************************************************************)
(* The one-click update: the web UI's endpoint that accepts an update task *)
(* (src/src/webui/update_routes.py), the check of the remote that it makes *)
(* (src/src/update_system/service.py), the plan and the result on disk and *)
(* their execution (src/src/update_system/runner.py) by the Runner process *)
(* that supervises the Worker (src/bot.py).                                *)
(*                                                                         *)
(* The Worker serves requests and asks for its own end with an exit code;  *)
(* the Runner waits for it, applies the plan if the code says so, one      *)
(* command of git, uv or bun at a time, and starts a Worker again.  Users  *)
(* change the checkout and developers the remote between any two steps; a  *)
(* command, or a write to the disk, can fail; Runner and Worker can be     *)
(* stopped at any time.  The installation is a checkout of the sources.    *)
(*                                                                         *)
(* A revision is a number.  Nothing descends from a fork but itself;       *)
(* the other revisions descend from each other in their order.             *)
(***************************************************************************)
EXTENDS Integers

CONSTANTS Revisions,    \* commits, numbered
          Forks,        \* commits on a branch of their own
          Tags,         \* number of the newest stable version
          MaxRequests,  \* bound: update tasks accepted
          MaxEdits,     \* bound: changes of the checkout by its user
          MaxPushes,    \* bound: changes of the remote
          MaxFaults     \* bound: commands and writes that fail, stops

ASSUME UpdateAssumption ==
  /\ Revisions \subseteq Nat \ {0} /\ 1 \in Revisions /\ Forks \subseteq Revisions
  /\ {Tags, MaxRequests, MaxEdits, MaxPushes, MaxFaults} \subseteq Nat

Main == -1
Dev == 0
Refs == Main..Tags
None == 0
IsAncestor(r, s) == r = s \/ (r < s /\ r \notin Forks)

VARIABLES
  pc,        \* what the Runner does; "serve" while the Worker runs
  exit,      \* the code of the exit the Worker has scheduled; None if it has not
  channel,   \* the configured channel
  request,   \* the update task being accepted: [step, expected, channel, head, dirty]
  pending,   \* pending.json
  result,    \* result.json
  head,      \* the revision that is checked out
  dirty,     \* whether tracked files are modified
  remote,    \* the revision of each branch and tag, None if it does not exist
  current,   \* the Runner's reading of HEAD
  fetched,   \* FETCH_HEAD
  synced,    \* the revision whose dependencies are installed
  built,     \* the revision whose web UI is built
  outcome,   \* the code of the result to be written
  requests, edits, pushes, faults,
  confirmed, \* history: the revision its user confirmed when the last task was accepted
  moved,     \* history: the checkout was advanced for the plan that is carried out
  touched,   \* history: its user changed the checkout while a plan was carried out
  abandoned  \* history: the plan was left behind by a stop, a restart or an exception

disk == <<pending, result>>
tree == <<head, dirty, synced, built>>
run == <<current, fetched, outcome>>
bounds == <<requests, edits, pushes, faults>>
history == <<confirmed, moved, touched, abandoned>>
vars == <<pc, exit, channel, request, disk, tree, remote, run, bounds, history>>

Fault == faults < MaxFaults /\ faults' = faults + 1
NoRequest == [step |-> "none", expected |-> None, channel |-> "dev", head |-> None, dirty |-> FALSE]
NoPlan == [at |-> 0, ref |-> Dev, current |-> None, target |-> None]
NoResult == [code |-> "none", target |-> None, of |-> 0]

Init ==
  /\ pc = "serve" /\ exit = None /\ channel = "dev" /\ request = NoRequest
  /\ pending = NoPlan /\ result = NoResult
  /\ head = 1 /\ dirty = FALSE /\ synced = 1 /\ built = 1
  /\ remote = [r \in Refs |-> IF r \in {Main, Dev} THEN 1 ELSE None]
  /\ current = None /\ fetched = None /\ outcome = "none"
  /\ requests = 0 /\ edits = 0 /\ pushes = 0 /\ faults = 0
  /\ confirmed = None /\ moved = FALSE /\ touched = FALSE /\ abandoned = FALSE
-----------------------------------------------------------------------------
(* Users and developers                                                    *)

\* A commit, a checkout or an edit by the user of this installation.
Edit ==
  /\ edits < MaxEdits /\ edits' = edits + 1
  /\ head' \in Revisions /\ dirty' \in BOOLEAN
  /\ touched' = (touched \/ pc # "serve")
  /\ UNCHANGED <<pc, exit, channel, request, disk, synced, built, remote, run>>
  /\ UNCHANGED <<requests, pushes, faults, confirmed, moved, abandoned>>

\* Branches and tags move, tags appear; all can be forced.
Push ==
  /\ pushes < MaxPushes /\ pushes' = pushes + 1
  /\ \E r \in Refs, v \in Revisions : remote' = [remote EXCEPT ![r] = v]
  /\ UNCHANGED <<pc, exit, channel, request, disk, tree, run, requests, edits, faults, history>>

\* update_preferences
SetChannel ==
  /\ pc = "serve" /\ channel' \in {"dev", "stable"}
  /\ UNCHANGED <<pc, exit, request, disk, tree, remote, run, bounds, history>>
-----------------------------------------------------------------------------
(* The Worker                                                              *)

\* create_update_task, one at a time under its lock.
Ask ==
  /\ pc = "serve" /\ request = NoRequest /\ requests < MaxRequests
  /\ \E r \in Revisions :
       request' = [NoRequest EXCEPT !.step = "asked", !.expected = r, !.channel = channel]
  /\ UNCHANGED <<pc, exit, channel, disk, tree, remote, run, bounds, history>>

\* detect_build_identity, in a thread.
Identify ==
  /\ pc = "serve" /\ request.step = "asked"
  /\ request' = [request EXCEPT !.step = "identified", !.head = head, !.dirty = dirty]
  /\ UNCHANGED <<pc, exit, channel, disk, tree, remote, run, bounds, history>>

\* The tags that _resolve_target may offer: released from the main branch.
Released == {t \in 1..Tags : remote[t] # None /\ IsAncestor(remote[t], remote[Main])}
Newest(t) == t \in Released /\ \A u \in Released : u <= t

\* The branch or tag that a channel follows.
Follows(c, ref) == IF c = "dev" THEN ref = Dev ELSE Newest(ref)

\* What UpdateService.check and create_update_task require of the target.
Applicable(target) ==
  /\ target # request.head
  /\ target = request.expected
  /\ IsAncestor(request.head, target)
  /\ ~request.dirty

\* No plan is waiting for the Runner already.
NothingPending == pending = NoPlan

\* What an accepted task leaves of the result of an earlier one.
ResultKept == result
ResultCleared == NoResult

\* The first exit that is scheduled is the one that happens.
Schedule(code) == exit' = IF exit = None THEN code ELSE exit

\* The plan of the task that is being accepted.
Planned(ref) == [at |-> requests + 1, ref |-> ref, current |-> request.head, target |-> remote[ref]]

\* The task is accepted: a new plan, and an exit in half a second.
Accept ==
  /\ pc = "serve" /\ request.step = "identified" /\ NothingPending
  /\ \E ref \in Refs :
       /\ Follows(request.channel, ref) /\ Applicable(remote[ref])
       /\ pending' = Planned(ref)
  /\ result' = ResultCleared
  /\ requests' = requests + 1 /\ confirmed' = request.expected /\ abandoned' = FALSE
  /\ Schedule(43) /\ request' = NoRequest
  /\ UNCHANGED <<pc, channel, tree, remote, run, edits, pushes, faults, moved, touched>>

\* The earlier result is cleared, then the plan is not written, or is written and
\* its file mode cannot be set: no exit is scheduled for it.
AcceptFails ==
  /\ pc = "serve" /\ request.step = "identified" /\ NothingPending /\ Fault
  /\ \E ref \in Refs :
       /\ Follows(request.channel, ref) /\ Applicable(remote[ref])
       /\ \/ UNCHANGED <<pending, requests, confirmed, abandoned>>
          \/ /\ pending' = Planned(ref) /\ requests' = requests + 1
             /\ confirmed' = request.expected /\ abandoned' = TRUE
  /\ result' = NoResult /\ request' = NoRequest
  /\ UNCHANGED <<pc, exit, channel, tree, remote, run, edits, pushes, moved, touched>>

\* The task is refused: a condition does not hold, or GitHub does not answer.
Refuse ==
  /\ pc = "serve" /\ request # NoRequest
  /\ request' = NoRequest
  /\ UNCHANGED <<pc, exit, channel, disk, tree, remote, run, bounds, history>>

\* The web UI's restart button (src/src/webui/routers/system.py).
Restart ==
  /\ pc = "serve" /\ exit # 42
  /\ Fault /\ Schedule(42)
  /\ UNCHANGED <<pc, channel, request, disk, tree, remote, run, requests, edits, pushes, history>>

\* The Worker exits; the Runner starts it again or applies the update.
Exit ==
  /\ pc = "serve" /\ exit # None
  /\ exit' = None /\ request' = NoRequest
  /\ pc' = IF exit = 43 THEN "read" ELSE "serve"
  /\ abandoned' = (abandoned \/ (exit = 42 /\ pending # NoPlan))
  /\ UNCHANGED <<channel, disk, tree, remote, run, bounds, confirmed, moved, touched>>
-----------------------------------------------------------------------------
(* The Runner: apply_pending_update, command by command                    *)

\* _finish: the result, then, in a finally, the end of the plan.
Finish(code) == pc' = "record" /\ outcome' = code

Continue(step) == pc' = step /\ UNCHANGED outcome

\* The plan is read and the tools are looked for.
ReadPlan ==
  /\ pc = "read"
  /\ moved' = FALSE /\ touched' = FALSE
  /\ \/ Continue("head") /\ UNCHANGED faults
     \/ Fault /\ \E code \in {"invalid_plan", "missing_tool"} : Finish(code)
  /\ UNCHANGED <<exit, channel, request, disk, tree, remote, current, fetched>>
  /\ UNCHANGED <<requests, edits, pushes, confirmed, abandoned>>

\* A command of git, uv or bun fails, or does not end in its time.
Fails(code) == Fault /\ Finish(code)
NothingElse == UNCHANGED <<exit, channel, request, disk, remote, requests, edits, pushes, confirmed, touched, abandoned>>

ReadHead ==
  /\ pc = "head"
  /\ \/ current' = head /\ Continue("status") /\ UNCHANGED faults
     \/ Fails("command_failed") /\ UNCHANGED current
  /\ UNCHANGED <<tree, fetched, moved>> /\ NothingElse

ReadStatus ==
  /\ pc = "status"
  /\ \/ Fails("command_failed")
     \/ /\ IF current # pending.current THEN Finish("current_revision_changed")
           ELSE IF dirty THEN Finish("dirty_worktree")
           ELSE Continue("fetch")
        /\ UNCHANGED faults
  /\ UNCHANGED <<tree, current, fetched, moved>> /\ NothingElse

Fetch ==
  /\ pc = "fetch"
  /\ \/ /\ remote[pending.ref] # None /\ fetched' = remote[pending.ref]
        /\ Continue("verify") /\ UNCHANGED faults
     \/ Fails("command_failed") /\ UNCHANGED fetched
  /\ UNCHANGED <<tree, current, moved>> /\ NothingElse

VerifyAncestorOnly ==
  /\ pc = "verify"
  /\ IF IsAncestor(current, fetched) THEN Continue("merge") ELSE Finish("command_failed")
  /\ UNCHANGED <<tree, current, fetched, moved, faults>> /\ NothingElse

\* What was fetched is what the plan says, and follows what was checked out.
Verify ==
  /\ pc = "verify"
  /\ \/ /\ IF fetched # pending.target THEN Finish("target_revision_changed")
           ELSE IF ~IsAncestor(current, fetched) THEN Finish("command_failed")
           ELSE Continue("merge")
        /\ UNCHANGED faults
     \/ Fails("command_failed")
  /\ UNCHANGED <<tree, current, fetched, moved>> /\ NothingElse

\* git merge --ff-only: what is ahead of the target already is left alone, what
\* has left its way is refused.
Advanced == IF IsAncestor(fetched, head) THEN head ELSE fetched
CanAdvance == IsAncestor(head, fetched) \/ IsAncestor(fetched, head)

\* The command can be refused for a modified file, and can fail after its work.
Merge ==
  /\ pc = "merge"
  /\ \/ /\ CanAdvance /\ head' = Advanced /\ moved' = TRUE
        /\ Continue("sync") /\ UNCHANGED faults
     \/ CanAdvance /\ head' = Advanced /\ Fails("command_failed") /\ UNCHANGED moved
     \/ (dirty \/ ~CanAdvance) /\ Finish("command_failed") /\ UNCHANGED <<head, moved, faults>>
     \/ Fails("command_failed") /\ UNCHANGED <<head, moved>>
  /\ UNCHANGED <<dirty, synced, built, current, fetched>> /\ NothingElse

\* uv sync
Sync ==
  /\ pc = "sync"
  /\ \/ synced' = head /\ Continue("install") /\ UNCHANGED faults
     \/ Fails("post_update_failed") /\ synced' \in {synced, head}
  /\ UNCHANGED <<head, dirty, built, current, fetched, moved>> /\ NothingElse

\* bun install
Install ==
  /\ pc = "install"
  /\ \/ Continue("build") /\ UNCHANGED faults
     \/ Fails("post_update_failed")
  /\ UNCHANGED <<tree, current, fetched, moved>> /\ NothingElse

BuildUnchecked ==
  /\ pc = "build"
  /\ \/ built' = head /\ Finish("updated") /\ UNCHANGED faults
     \/ Fails("updated") /\ UNCHANGED built
  /\ UNCHANGED <<head, dirty, synced, current, fetched, moved>> /\ NothingElse

\* bun run build
Build ==
  /\ pc = "build"
  /\ \/ built' = head /\ Finish("updated") /\ UNCHANGED faults
     \/ Fails("post_update_failed") /\ built' \in {built, head}
  /\ UNCHANGED <<head, dirty, synced, current, fetched, moved>> /\ NothingElse

Commands == {"read", "head", "status", "fetch", "verify", "merge", "sync", "install", "build"}

\* An exception that the two except clauses do not name, as of an output that cannot
\* be decoded: the command may have done its work; a Worker is started with the
\* plan still on disk and no result (bot.py).
Escape ==
  /\ pc \in Commands /\ Fault
  /\ pc' = "serve" /\ abandoned' = TRUE
  /\ head' \in {head} \cup (IF pc = "merge" /\ CanAdvance THEN {Advanced} ELSE {})
  /\ synced' \in {synced} \cup (IF pc = "sync" THEN {head} ELSE {})
  /\ built' \in {built} \cup (IF pc = "build" THEN {head} ELSE {})
  /\ UNCHANGED <<exit, channel, request, disk, dirty, remote, run, requests, edits, pushes, confirmed, moved, touched>>

Outcome == [code |-> outcome, of |-> pending.at,
            target |-> IF outcome = "invalid_plan" THEN None ELSE pending.target]

\* write_result; its failure, before or after the file is there, does not keep
\* the plan.
Record ==
  /\ pc = "record" /\ pc' = "clear"
  /\ \/ result' = Outcome /\ UNCHANGED faults
     \/ Fault /\ result' \in {result, Outcome}
  /\ UNCHANGED <<exit, channel, request, pending, tree, remote, run, requests, edits, pushes, history>>

ClearOnSuccess ==
  /\ pc = "clear" /\ pc' = "serve"
  /\ pending' = IF outcome = "updated" THEN NoPlan ELSE pending
  /\ UNCHANGED <<exit, channel, request, result, tree, remote, run, bounds, history>>

\* clear_pending, and the Runner starts a Worker.
Clear ==
  /\ pc = "clear" /\ pc' = "serve"
  /\ \/ pending' = NoPlan /\ UNCHANGED <<faults, abandoned>>
     \/ Fault /\ abandoned' = TRUE /\ UNCHANGED pending
  /\ UNCHANGED <<exit, channel, request, result, tree, remote, run, requests, edits, pushes, confirmed, moved, touched>>

\* The Worker ends with another code, and the Runner with it; or both are
\* stopped, by Ctrl+C or by the machine.
Stop ==
  /\ pc # "dead" /\ Fault
  /\ pc' = "dead" /\ exit' = None /\ request' = NoRequest
  /\ abandoned' = (abandoned \/ pending # NoPlan)
  /\ UNCHANGED <<channel, disk, tree, remote, run, requests, edits, pushes, confirmed, moved, touched>>

\* The program is started again.
Start ==
  /\ pc = "dead" /\ pc' = "serve"
  /\ UNCHANGED <<exit, channel, request, disk, tree, remote, run, bounds, history>>
-----------------------------------------------------------------------------
Apply == ReadPlan \/ ReadHead \/ ReadStatus \/ Fetch \/ Verify \/ Merge \/ Sync \/ Install \/ Build \/ Record \/ Clear
Work == Ask \/ Identify \/ Accept \/ AcceptFails \/ Refuse \/ Restart
Next == Edit \/ Push \/ SetChannel \/ Work \/ Exit \/ Apply \/ Escape \/ Stop \/ Start

Spec == Init /\ [][Next]_vars

\* A timer that was set fires, a command ends (each has a time limit), and the
\* Runner goes on.  Nobody has to start the program again or to ask anything.
FairSpec == Spec /\ WF_vars(Exit) /\ WF_vars(Apply)
-----------------------------------------------------------------------------
Steps == {"read", "head", "status", "fetch", "verify", "merge", "sync", "install", "build", "record", "clear"}
Cancelled == {"current_revision_changed", "dirty_worktree", "target_revision_changed"}
Codes == Cancelled \cup {"none", "invalid_plan", "missing_tool", "command_failed", "post_update_failed", "updated"}

\* Types.
TypeOK ==
  /\ pc \in Steps \cup {"serve", "dead"} /\ exit \in {None, 42, 43}
  /\ channel \in {"dev", "stable"}
  /\ request \in [step : {"none", "asked", "identified"}, expected : Revisions \cup {None},
                  channel : {"dev", "stable"}, head : Revisions \cup {None}, dirty : BOOLEAN]
  /\ pending \in [at : 0..MaxRequests, ref : Refs, current : Revisions \cup {None}, target : Revisions \cup {None}]
  /\ result \in [code : Codes, target : Revisions \cup {None}, of : 0..MaxRequests]
  /\ {head, synced, built} \subseteq Revisions /\ dirty \in BOOLEAN
  /\ remote \in [Refs -> Revisions \cup {None}]
  /\ {current, fetched, confirmed} \subseteq Revisions \cup {None} /\ outcome \in Codes
  /\ requests \in 0..MaxRequests /\ edits \in 0..MaxEdits
  /\ pushes \in 0..MaxPushes /\ faults \in 0..MaxFaults
  /\ {moved, touched, abandoned} \subseteq BOOLEAN

\* The Runner takes the checkout only to the revision that a user saw and
\* confirmed, whatever became of the branch or the tag meanwhile, and only
\* forward: no change of the checkout loses a commit (runner.py, README.md).
OnlyConfirmed ==
  [][head' # head /\ edits' = edits => head' = confirmed /\ IsAncestor(head, head')]_vars

\* The result on disk is never that of an earlier task, whatever failed or
\* stopped since: the web UI takes the one it finds for the one it waits for.
ResultOfLastTask == result # NoResult => result.of = requests

\* A result says how far the update came.  Success: the target is checked out,
\* and dependencies and web UI are those of the checkout; a failure after the
\* update: the target is checked out; a cancelled update: nothing was moved.
ResultTrue ==
  (pc = "clear" /\ result.of = pending.at /\ ~touched) =>
    /\ result.code = "updated" => synced = head /\ built = head
    /\ result.code \in {"updated", "post_update_failed"} => moved /\ IsAncestor(result.target, head)
    /\ result.code \in Cancelled => ~moved

\* An accepted task ends, however its commands end: a time-out, a failure or a
\* refusal deletes the plan.  It is left behind, and blocks the next task for ever,
\* if the Runner or the Worker was stopped or restarted under it, if its file could
\* not be deleted or given its mode, and after an exception other than those that
\* apply_pending_update names, as that of an output that cannot be decoded
\* (runner.py, bot.py).
TaskEnds == pending # NoPlan ~> pending = NoPlan \/ abandoned

=============================================================================
