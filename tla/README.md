# A TLA+ model of MaiBot

MaiBot is a chat bot: one Python process, one asyncio event loop, and a memory
that survives restarts. This directory models the parts of it where an order of
events that nobody tried can lose, double or resurrect something: the writes to
two stores that share no transaction and the log that makes them recoverable,
the task that reconciles the stores, the pipeline that turns messages into
memories through a durable outbox, the rebuilding of a vector index while it is
in use, the way of a group message through turns, archive and topics with its
recall at any moment, the sweep and the soft cap that make memories leave, the
cycles of the dream agent, the fail-over between language models, and the update
that the program applies to itself. The modules are checked with TLC on small
instances, and the central safety properties of six of them are proved with
TLAPS for all instances.

All paths below are relative to the repository root; `memory/` stands for
`src/memory/`.

## 1. The system

### Components

| Component | State it keeps | Operations | Hard behaviour |
|---|---|---|---|
| Write-operation log, `memory/write_ops.py` | a JSONL file, numbered archives | log, start, complete, fail, trim, rotate, clean up, replay at start | crash or I/O error between two file operations |
| SQLite store, `memory/store.py` `MemoryStore` | rows of atoms, details, traces | insert, update, archive, delete | its Qdrant half fails after it has committed |
| Vector index, `memory/store.py` `QdrantManager` | points (vector, payload), collections, aliases, migration state | upsert, set payload, delete, list, switch alias | a call that fails may have taken effect; profile changes at run time |
| Memory writer, `memory/layer3_retrieval.py` | none of its own | `write_atom` (SQLite, embed, Qdrant), retrieval | stale fields after the await of an embedding |
| Reconciliation, `memory/reconciliation.py` | forced re-syncs, forced clean-ups, orphan candidates, back-offs, black list; all in memory | a round every 120 s: log pairs, then drift | awaits inside repairs, restarts, permanent failures |
| Conflict arbitration, `memory/conflict_arbitration.py` | conflict observations | keep A, keep B, merge, lower both | an await between its SQLite update and its upsert |
| Forgetting, `memory/forgetting.py`, `memory/feedback.py` | weights, archive table, a flag | decay, archive, purge; feedback | two callers; archive before delete; feedback meanwhile |
| Vector migration, `memory/vector_migration.py`, `services/embedding_profile_monitor.py` | target collection, cursor, state row | batches, verify, activate | changes during embedding; crash around the alias switch |
| Encoding pipeline, `memory/encoding_pipeline.py` | queue of pending writes in memory, outbox table | recover, encode, check, persist, commit, side effects, delete | a crash or an error between any two of them |
| Layer 2: batch encoder, `memory/layer2_encoder.py` | one bounded buffer per stream | ingest, trigger, ask the model, acknowledge | messages come in while the model answers |
| Layers 0 and 1, `memory/layer0_archive.py`, `memory/layer1_summarizer.py` | raw archive; batches, open and closed topics, a hand-over file | archive, judge, save, restore | tasks of several turns at once |
| Group chat, `chat/heart_flow/`, `chat/message_receive/` | read cursor, event, silent turns; recall registry | store, announce, read, decide, talk, archive; recall | a recall anywhere; exceptions; messages stored late |
| Dream agent, `memory/dream_agent.py`, `memory/inspiration_engine.py` | runs, triage status, noise pool; summary atoms | daily, weekly, monthly cycle; triage, recycle, clean; soft cap | failures between writes; windows of time; fixed ids of summaries |
| Language-model requests, `llm_models/utils_model.py` | accounts of the models, shared by all requests | select, attempt, retry, compress, change model | overlapping requests, cancellation |
| Self-update, `update_system/`, `webui/update_routes.py`, `bot.py` | `pending.json`, `result.json`, the checkout | check, accept, exit 43, fetch, verify, merge, install, record | both repositories change meanwhile; every command can fail |
| Task manager, `manager/async_task_manager.py` | running tasks | start, replace, stop | the first exception ends a task |
| Main system, `main.py` | start-up order | start | the sweep runs during the replay, the other writers after it |
| Planner, replyer, plugins, web UI, learner, config, adapters | registries, tokens, files | see `PROJECT.json` | mostly local |

### How they interact

Every write of an atom goes `MemoryWriter -> WriteOperation (log) -> SQLite`,
then awaits an embedding, then `WriteOperation (log) -> Qdrant`. Arbitration,
forgetting and the dream agent write both stores without the log. SQLite is
authoritative: `ReconciliationTask` reads the failed halves from the log, lists
both stores, and repairs Qdrant. At start, `main.py` awaits `replay_failed_ops`
(`main.py:220`) before it creates the pipeline, the dream agent and the
reconciliation, that is all that records operations in the log. The monitor of the
embedding profile and the hourly sweep are registered before it
(`main.py:175,193`) and run at its awaits.

A group message is stored, announced to the loop of its chat, read by a turn and
handed to a background task, which archives it (layer 0), adds it to a batch for
the topics (layer 1) and gives it to the encoder (layer 2, the encoding
pipeline). The dream agent reads the archive again when the chat is idle, makes
candidates of it, and calls the same forgetting sweep as the hourly task. All
calls of a language model go through `LLMRequest`, whose accounts concurrent
requests share. The Worker process accepts an update and exits; the Runner
process applies it and starts the Worker again.

**Where control can change hands.** There is one event loop, and the methods of
the stores and of the log contain no suspension point although they are `async`
(the comment at `memory/layer3_retrieval.py:587-589` relies on it). A task can
therefore be interleaved only at an embedding, a language-model call, a sleep or
a lock; the process can die anywhere. This is what decides the grain of the
actions below.

### What would make each part correct

- Log: an operation that may have reached a store can be found again after a
  crash; trims and rotations drop nothing unfinished; recovery passes nothing over.
- Stores and reconciliation: whatever the reconciliation writes is current; it
  forgets no repair that it owes; the index converges to the active rows; what
  is deleted stays deleted.
- Migration: the alias is switched only to a complete collection; an interrupted
  migration resumes; one bad source does not stop it.
- Encoding: a message leaves a buffer only with the answer it was part of, or as
  the oldest of a full one; what was extracted is held until it is written; a
  record leaves the outbox only after that, and with its side effects executed;
  nothing waits for ever.
- Forgetting and soft cap: what is deleted has been archived; what leaves into a
  summary leaves beside one that is active, indexed and made of it; the cap is kept.
- Group chat: a recalled message reaches no archive; the cursor passes nothing
  unread; each message is in one batch or topic, and considered in the end.
- Dream agent: a message is triaged only with its candidate, a candidate is used
  once, the pool empties, what failed is retried.
- Fail-over: the accounts add up, a model is called no more often than allowed,
  a request ends.
- Self-update: only what was confirmed is checked out, the result that is shown is
  true and that of the last task, a task ends.

The full list of hazards, each with its line and the properties that cover it,
is in `PROJECT.json`.

## 2. The modules

| Module | Models |
|---|---|
| `WriteOps` | the records of the log as data |
| `OpJournal` | what the log promises: while the process lives, recorded operations are kept until finished, never reopened, and only finished ones are forgotten; a death costs the newest records at most |
| `WriteOpLog` | the log file, its rotation, trim and rewriting, `WriteOperation`, the start-up replay, crashes and I/O faults |
| `WriteOpLog_proofs` | theorems about `WriteOpLog` |
| `AtomIndex` | rows and points, the tasks that write them, the reconciliation task, the replay of inserts |
| `AtomIndex_proofs` | theorems about `AtomIndex` |
| `EncodingOutbox` | buffers of messages, the cycle of the encoding pipeline, its queue and outbox, what a write leaves in SQLite and in the log, the side effects, death and start |
| `AtomDelivery` | what the encoding pipeline promises: each message waits until it is answered for, becomes one atom at most, and an accepted atom is kept until it has a row |
| `EncodingOutbox_proofs` | theorems about `EncodingOutbox` |
| `VectorMigration` | one versioned index: collections, alias, persisted state, the rebuild for another embedding profile |
| `VectorMigration_proofs` | theorems about `VectorMigration` |
| `GroupTurns` | the way of a group message: storage, turns, archive, topics, encoder; its recall |
| `Fading` | the sweep, the soft cap and feedback on the atoms of one user |
| `Fading_proofs` | theorems about `Fading` |
| `DreamCycles` | the cycles of the dream agent, the triage of messages, the noise pool |
| `DreamCycles_proofs` | theorems about `DreamCycles` |
| `Failover` | concurrent requests over the models of a task, and their accounts |
| `Chat_proofs` | theorems about `Failover` and `GroupTurns` |
| `SelfUpdate` | Worker, Runner, the files between them, the checkout and the remote |
| `SelfUpdate_proofs` | theorems about `SelfUpdate` |

Three components meet in shared state and are modelled with it in one module
(`AtomIndex`, `GroupTurns`, `Fading`); where one module needs what another one
promises, it takes it as a step and names it: `EncodingOutbox` uses the log as
the set of its unfinished records (`OpJournal`), `DreamCycles` takes the other
phases of a cycle, `Fading` among them, as awaits.

### WriteOpLog

`file` is the log on disk: `lines` (operation to record; at most one line per
operation, in order of creation, which is how `_write_all_ops` leaves it),
`torn` (the file ends in a fragment), `archives` (number to age) and `made`.
`running` holds the operations whose `WriteOperation` body executes, `todo` and
`replaying` the progress of `replay_failed_ops`.

A method of `WriteOpLogger` holds the lock for its whole length, so it is one
step; but inside it there are several file operations, and each can fail or be
the last one before a crash. So each method is an operator that yields the *set
of its outcomes* (`[file, res]`, `res` one of ok, error, crash), and `Then`
chains them: a crash is possible between any two, and, in `CutShort`, between the
truncation of the log (`open(path, "w")`) or its renaming and the end of the writing
that follows, with any first part of the lines written. `RotateLog`, `Overwrite`,
`AppendLine`, `AutoTrim`, `UpdateOp` are `_rotate_log`, `_write_all_ops`,
`_append_op`, `_auto_trim`, `_update_op`, in the code's order, including the
rotation check inside both writes and the trim after both. `Enter` and `Exit`
are the context manager, `Bump` the retry count of the reconciliation,
`ReplayStart`/`ReplayEnd` the two halves of the replay around its dispatch,
`Cleanup` the removal of old finished records.

The constant `Faults` says which I/O faults exist besides death. `BenignFaults` leave
the file as it was (a failed read, append, rename or prune, or a failed rebuild that
is rolled back). The others leave a fragment of a line (`append_torn`, `write_torn`),
or a part of the log after a call that raised and a process that goes on
(`restore_fails`, `rewrite_cut`). Section 5 says which property stands under which.

Abstractions: payloads, times and error texts; an age is an operation number; a
rotation by size may happen at any write, because sizes depend on payloads; the
cross-process lock is taken to work.

### AtomIndex

`row[a]` and `vec[a]` are the SQLite row and the Qdrant point of atom `a`:
content, one other indexed field, status. A point's content stands for its
vector and `embedding_source_hash`. `Deleted` marks a row that once existed, so
that a resurrection can be told from an insert; no action's guard but that of
`Insert` (ids are fresh uuids) tells it from `Absent`.

`jobs` are the writers between their SQLite write and their upsert, each with
the fields it read before the await. `failed`, `retries`, `done` are the insert
records of the log that matter here. `rec` is the control state of the
reconciliation: `work` names the phase of a round (pairs of the log, `sync`,
`cleanup`, `orphan`), `todo` its repairs, and while it awaits an embedding `cur`,
`snap` and `attempt` are the locals of `_sync_sqlite_to_qdrant`. `resync`,
`cleanup`, `suspects`, `backoff` are the attributes of the task.

The outcome-set style of `WriteOpLog` is used again: `SyncStart`, `SyncEmbedded`,
`SyncUpsert`, `AbortForcedResync`, `ResolveForcedCleanup`, `RemoveOrphanVector`
are the methods, from a state `[vec, resync, cleanup, cost, res]` to the set of
states they can leave. `cost` counts failed calls against `MaxFaults`. A failed
call to Qdrant may or may not have changed the point; a failed read of an atom
yields `None`, which the code takes for "not active".

| Code | Actions |
|---|---|
| `write_atom` | `Insert`, `InsertEnd` |
| `_apply_resolution` | `Merge`, `MergeEnd` (MERGE); `Archive` (KEEP_A, KEEP_B); `Reweigh` (BOTH) |
| `archive_atom`, `_archive_faded` | `Archive` |
| `delete_atom`, `force_forget`, `_purge_expired` | `Delete` |
| `_decay_atoms` | `Reweigh` |
| `ReconciliationTask.run` | `RoundBegin`, `Work`, `Embedded` |
| `_reconcile_storage_drift` | `Scan`, `ScanFails`, `NextWork`, `Work`, `Embedded` |
| process death, start of `main.py`, `replay_failed_ops` | `Crash`, `Replay` and `ReplayEmbedded` (before and after the await of an embedding), `Serve` |

Other tasks act only when the reconciliation is idle or at an await; while the replay
awaits, only those that are there already (`Piped`: the pipeline is not). Several
`Work` steps in a row have nothing between them, as in the code.

Abstractions: the black list is the condition `retries < MaxRetries`; the
failed records of one atom and side count as one, with the newest retry count;
completed records may have been trimmed (`RoundBegin` takes any subset of the
pairs); physical point ids are those of the atoms; a back-off is counted in
rounds, any number from 2 (twice the interval) to `MaxBackoff`; `_available` is
true (without the client library the index does not exist).

### VectorMigration

`disk` is what a crash leaves: the collections that exist and their points, the
alias, and `state`, the row of `VectorIndexState`. A point is the text that its
vector stands for and the profile that made it. `conf`, `target` and `search` are
the manager in memory; `job` is the migration task, with the locals of
`_migrate_source` while it awaits an embedding: the text it embeds, the number of
attempts, the profile that it expects (`wants`) and that of the vector it will get
(`gets`). `row` is SQLite as the migration sees it: a text, `Blank`, or `Gone`.

| Code | Definitions and actions |
|---|---|
| `_initialize_versioned_index` | `AdoptAlias`, `Label`, `Prepare`, in this order; `Stages` is what is left when it is cut off |
| start of `main.py`, death | `Start`, `Crash` |
| `reconfigure_embedding`, `_switch_runtime` | `Reconfigure`, with its failure, which restores memory only |
| `upsert_atom_vector`, `delete_atom_vector`, SQLite writes | `Upsert`, `Remove`, `Write` |
| `register_pending_vector_migrations` | `Register` |
| `_run_once`, `_migrate_source` | `RunBatch`, `Source`, `Embedded`, `BatchDone` |
| `_reconcile_and_activate`, `activate_atom_migration` | `RunReconcile`, `Source`, `Embedded`, `ReconcileDone` |
| the handler of `run` | `Fail`, in every action that can raise |

A new installation and an upgrade from a version with one unnamed collection,
empty or full, are the initial states. Writers and `Reconfigure` act only at the
awaits of the task. `Upsert` takes any text: it may be the one of a task that read
its row before its own await. Whatever the migration gets wrong about a single
point after the switch is the reconciliation's (`AtomIndex`); here the question is
which collection is searched.

Abstractions: profiles differ in their model only, not in the dimension, which
makes the collection names (`_versioned_collection_name`) differ just the same;
status is `ready` exactly if the state has no target; counters and error texts;
payloads other than the profile and the text; points without a business id, which
only other programs could write; an `initialize` that raises leaves no client,
hence no search, and is a `Start` that dies.

### EncodingOutbox

`buffer` is `BatchEncoder._buffers`; the next message has the number `next`, and
the atom made of a message has the number of the message. `work` is the list of
atoms that `run_cycle` goes through, `retrying` says whether it is the list of
earlier cycles (the first loop) or the new ones (the last loop). `pending` and
`loaded` are `_pending_writes` and `_pending_loaded`, `outbox` the table
`PendingAtomWrite`, `corrupt` its records that a recovery could not read back. `rows`
and `detailed` are the two tables of `write_atom`, `logged` the unfinished
records in the log, `profiled` the atoms that a profile has seen, `thin` the atoms whose objects come from the outbox. `pc` is the place
where the cycle is:

| `pc` | Code in `run_cycle` and below | Action |
|---|---|---|
| `idle` | the sleep of `EncodingTask`; then recovery of the outbox, take-over of the queue | `Begin` |
| `encode` | the loop over `get_ready_streams` | `Ask`, `Encoded`, `EncodingRaises` |
| `llm` | the await of the model in `encode_batch`; then parsing and `acknowledge` | `Answer`, `EncodingRaises` |
| `check` | building the candidate, the self-refutation check (an await) | `Check` |
| `persist` | `_persist_pending_write` | `Persist` |
| `look` | `get_atom` in `_commit_atom_write`; the log record of `write_atom` | `Look` |
| `write` | the transaction of `write_atom`, the end of the record | `Write` |
| `embed` | the embedding and the upsert, of which nothing is raised | `Embed` |
| `effects` | `update_profile_from_atom` and the trace | `Effects` |
| `delete` | `_delete_pending_write` | `Delete` |
| `down` | the process is dead; then `replay_failed_ops`, the start of the pipeline | `Crash`, `Start` |

`Proceed` is the end of a turn of either loop, with what follows the last turn;
`Keep` is the `except` clause that appends the atom to `_pending_writes`.
`EncodingRaises` is an exception of `encode_batch` outside its `try`
(`layer2_encoder.py:387-390,410-417`), which only `run_cycle` catches
(`encoding_pipeline.py:571`). `Begin` may find records that it cannot read back,
each time at the price of a fault.
Messages come in (`Ingest`) only at the awaits: `idle`, `llm`, `check`, `embed`.
Each call that can raise has a branch with `Fault`; `Crash` is possible anywhere,
and since the log's record is written before the transaction, it leaves an
unfinished record exactly if it happens at `write`.

Abstractions:

- An atom is one with a detail record and one person to profile. An item of the
  model's answer makes at most one atom per message, and the order of the atoms
  of an answer, or of a recovered outbox, is arbitrary.
- `trigger_seconds` and the interval between cycles are both 300 s. A buffer made
  before the previous cycle ended is therefore due for its age; `fresh` are the
  others, which are due at `trigger_count` messages.
- A message that is delivered again while it is in the buffer changes nothing.
- Rows are not deleted here: forgetting, and the index half of a write, are
  `AtomIndex`'s. The log is the set of its unfinished records of earlier tries
  (`WriteOpLog` has the file). A replay of a record may fail and leave it.
- Associations and conflicts, which follow a cycle, hold nothing of it.

### GroupTurns

One chat. A message is the number of its place in the order of arrival, which is
also its time. `transit`, `stored`, `flagged`, `archive` are where it can be;
`registry` is `recall_registry`; `cursor`, `event`, `batch`, `quiet` are the
attributes and the turn of `HeartFChatting`, `pc` where its loop is. `tasks` are
the archiving tasks, which a turn starts and does not await, so that they overlap
with later turns and with each other; each has its turn, the list of messages it
has judged, and what it has still to give to the encoder. `pending`, `tail`,
`strays`, `closed` are the lists of `GroupTopicSummarizer`, `bridge` is
`topic_bridge.json`.

| Code | Actions |
|---|---|
| `process_message`, `store_message`, `get_or_create_heartflow_chat` | `Store` |
| `_handle_message_recall`, `RecallRegistry` | `Recall`, `Expire` |
| `_loopbody`, `decide_group_turn`, the part of `_observe` before its first await | `Look`, `Buffer`, `Wake` |
| the rest of `_observe` | `Talk`, `Plan` |
| `_archive_recent_messages` | `Archive`, `Judge` (once per call of the language model), `Ingest`, `Save` |
| the `except` clause of `_main_chat_loop`; a death of the process | `Raise`, `Crash` |

The threshold of messages, the decision to talk without a mention, the split of a
batch into topics, and what the planner does are arbitrary. The variables after
`faults` are histories that only properties read: `given` and `overlap` of the tasks;
`late`, the messages stored after the cursor had passed their time; `missed`, those
that were stored and unread when a chat object was made, which reads from two
seconds ago (`heartFC_chat.py:110`); `over`, those in topics that earlier processes
have closed. A restart makes `given` what the file has and `over`: the rest of what
the summarizer had was in memory only.

Abstractions: the limit of ten active topics is not reached, and no open topic has
more than the 30 messages that are handed over (§4); open topics that are judged
again are one list, as in `open_topic_messages`, and so are those that are not,
which the file keeps or leaves out together; several closed segments of one
judgement are counted as one; reading and writing the file
succeed; `group_message_buffer_seconds` is positive; the time limit of the
registry covers the way of a message through the program; a message that was in
transit when the process died is not delivered again.

### Fading

The atoms of one user, and the `Summary` that the soft cap makes for that user. A
weight is one of three levels, separated by the archive and the delete threshold;
a row has the weight stored in it and the `age`, the level that
`compute_weight` would give it now. Scores, half-lives and the other factors of
the weight are abstracted to these levels.

| Code | Actions |
|---|---|
| `run_sweep` with `_decay_atoms`, `_archive_faded`, `_purge_expired` | `Sweep`, for either caller |
| an exception in it, `AsyncTask.start_task` | `SweepFails` |
| `_merge_overflowing_user_memories`, `_write_soft_cap_summary` up to its await | `Summarise` |
| the rest of it, `_archive_soft_cap_atoms` | `Absorb`, `CapFails` |
| `apply_usage_feedback`, `reinforce_memory` | `Feedback`, of an atom got by `Retrieve` |

The awaits of a sweep are calls of the stores, which do not suspend: a sweep is one
action, which goes through its loops with the atoms that do not fail (`Through`). The
list of those to delete is read once, after the archiving; an atom whose archive row
(`saved`) or deletion (`gone`) fails is passed over. The soft cap chooses at most
`Batch` atoms of least weight, writes the summary, awaits its embedding, and then
archives the list it had chosen; a sweep or a feedback may come between. `gist` is
what the text of the summary quotes: at most `Snippets` atoms (`atoms[:5]` in the
code), however many are archived. `held` is one reply's atom, with any time between
its retrieval and the feedback.

Abstractions: one user and one summary; points (whose failures `AtomIndex` has);
ageing happens between rounds of the soft cap, not in them.

### DreamCycles

`raw` is the triage status of each archived message with its age; `pool` the
noise candidate made of each item; `since` the time since the last completed run
of each type began, which is what `_determine_cycle_type` compares; `cycle` the
run and its phase. Time goes by in slots (`Tick`); a slot may hold no poll or
several, and a cycle ends in the slot it began in.

| Code | Actions |
|---|---|
| `run`, `_determine_cycle_type`, `_create_dream_run` | `Begin` |
| `_triage_raw_archive`, `_record_raw_candidate_and_mark_triaged` | `Triage` |
| `_query_candidates` | `Recycle` |
| `recycle`, `_write_foreshadowing_insight`, `_delete_noise` | `Resolve` |
| `_promote`, before and after the await of the write | `Promote`, `Confirm` |
| `_clean_noise`, `_finalize_dream_run` | `Clean` |
| the `except` clause of a cycle, a death of the process | `Abort` |

Which candidates are taken, and what becomes of each, depends on significances
and keyword matches and is arbitrary. Abstractions: the summaries, the legacy
clean-up and the consolidation of atoms do not touch this state; the removal of
archived messages by a recall, and of promoted atoms by the sweep, are left out;
awaits between candidates are allowed everywhere.

### Failover

`usage` is `model_usage`, `req` the locals of each request that runs in
`_execute_request`, `heard` a history of the calls of each model. What happens
between an answer and the next call has no await and is one action: it closes
the account of the old model (`Answering`, `Blaming`), chooses a new one
(`Candidates`, by the score of `_select_model` or at random) and opens its
account (`Taken`). `Answered`, `AnsweredEmpty`, `Transient`, `TooLarge`,
`HardError` are the outcomes of a call, `Retry` is the end of the sleep, `Cancel`
the cancellation of the caller's task.

Abstractions: `max_retry` is at least 1; no model is listed twice; the models of a
task have one provider's settings; a message that cannot be built for a client
ends the request (`broken`), as in the code, and so does an exception of
`compress_messages`, which is called in an `except` clause (`utils_model.py:569`).

### SelfUpdate

`pending` and `result` are the two files, `head`, `dirty`, `synced`, `built` the
checkout with its dependencies and its built web UI, `remote` the branches and
tags on GitHub. `IsAncestor` is numbered history with `Forks` beside it. The
user edits the checkout (`Edit`), and developers move, force or add branches and
tags (`Push`), at any moment.

| Code | Actions |
|---|---|
| `update_preferences` | `SetChannel` |
| `create_update_task`, with its awaits | `Ask`, `Identify`, `Accept`, `AcceptFails`, `Refuse` |
| the restart button | `Restart` |
| `run_runner_process` | `Exit`, `Stop`, `Start` |
| `apply_pending_update`, one command each | `ReadPlan`, `ReadHead`, `ReadStatus`, `Fetch`, `Verify`, `Merge`, `Sync`, `Install`, `Build` |
| `_finish` | `Record`, `Clear` |
| the handler of `run_runner_process` for an exception of `apply_pending_update` | `Escape` |

Every command can fail, before or after its work, or raise what the two `except`
clauses of `apply_pending_update` do not name; writing `pending.json` or `result.json`
can fail after the file is there (`os.chmod` after `os.replace`); the Runner can be stopped
anywhere. Abstractions: a time limit is a failure (both give results that mean
the same); the checkout is a git repository and the plan exists when the Runner
reads it; the repeated start of the Runner by `execv` is a start of the Worker.

## 3. Runs that pass

| Run | Question | Size |
|---|---|---|
| `log_safety` | Does the log keep what it promises, with failed appends, renames, rebuilds and prunes, and a death between any two file operations? | 4 operations, limits of 2 entries and 4 lines, 2 archives |
| `index_safety` | Does the reconciliation write only present rows and forget no repair, in any interleaving? Does the index converge when writes and failures stop, beside content that cannot be embedded? | 2 atoms, 2 contents of which one cannot be embedded, 2 field values, 1 repair per round, back-off of 2 or 3 rounds, 3 writes, 2 failures or crashes |
| `enc_safety` | Does the pipeline implement `AtomDelivery`, so that no message is made into an atom twice and no record is dropped that is not written? Does it lose a message or an accepted atom to a failure, or leave one waiting for ever? | 2 streams, 4 messages, buffers and batches of 2, trigger at 2, 3 failures or crashes |
| `mig_safety` | Are searches confined to one profile, and does the alias move only to a complete collection, whatever happens to profiles and sources during a rebuild? Does the rebuild end? | 2 sources, 2 texts, 2 profiles and the legacy collection, batches of 2, 2 attempts, 2 writes, 2 switches, 1 failure or crash |
| `turn_safety` | Does a recall at any moment keep a message out of the archive? Does the cursor of a living chat skip one, or the topics lose or double one? Is each considered in the end? | 3 messages, one of which mentions the bot, batches of 2, 1 recall, 1 exception, failure or crash |
| `llm_safety` | Do the accounts of the models add up, is no model called too often, does every request end, however requests overlap? | 2 requests, of which one can be compressed and one takes an empty answer, 3 models, 2 tries |
| `fade_safety` | Is all that is deleted archived, does the soft cap take nothing without an active, indexed summary that quotes it as far as its text goes, and does what nobody asks for leave in the end? | 2 atoms and the summary, a cap of 1, batches of 2, 1 quoted, 1 failure or restart |
| `dream_safety` | Is a message triaged only with its candidate, is none used twice, does the pool empty even if the chat is rarely idle? | 2 messages, 1 noise, batches of 1, periods of 1, 2 and 3 slots, windows of 1 and 2, 2 failures or stops |
| `upd_safety` | Is only what was confirmed checked out, is the result true and that of the last task, does a task end but in the ways that are named? | 3 revisions of which one is a fork, 1 tag beside two branches, 2 tasks, 1 edit, 2 pushes, 2 failures or stops |

Properties worth reading first: `Journaled`, `Settled`, `JournalSpec` (the
refinement of `OpJournal`) in `WriteOpLog`; `WritesPresentRow`, `ResyncsAreDone`,
`Converges` in `AtomIndex`; `DeliverySpec` (the refinement of `AtomDelivery`),
`NewMessagesKept`, `Drained` in `EncodingOutbox`; `SearchOneSpace`, `SwitchesToExact`, `Opened` in
`VectorMigration`; `RecalledNotArchived`, `SegmentedOnce` in `GroupTurns`;
`RetiredWhenAbsorbed`, `FadedLeaves` in `Fading`; `PromotedOnce`, `PoolDrains` in
`DreamCycles`; `Charged`, `CallsBounded` in `Failover`; `OnlyConfirmed`,
`ResultOfLastTask` in `SelfUpdate`.

**Bounds.** In the log, 4 operations against limits of 2 and 4 make every trim
and rotation happen, with live and finished records on both sides, and more
archives than are kept. In the index, two atoms let one be repaired while
another is written and let one block the other (`MaxRepairs = 1`); 3 writes are
two inserts and a change or removal, or an insert, a change and a removal; 2
faults are a failed call whose repair fails again, or a failure and a crash. The
bounds on writes and faults make the eventual quiet that `Converges` speaks of.
In the pipeline, 4 messages against buffers of 2 let a buffer overflow during the
model's answer, and let one cycle have retries and new atoms of two streams; 3
faults are a record that cannot be persisted, a write that fails and a death, or
the same call failing in the cycle, in its retry and after a restart. In the
migration, two sources with batches of two let a run lose the profile it began
with between its sources; a source that does not exist yet gives a cursor that has
passed one source and not the other; two attempts make "changed again" and "changed too often" happen;
two switches lead from A to B and back in the middle of a rebuild.

In the group chat, three messages with batches of two make one wait while two are
judged, and let two archiving tasks overlap; the mention makes a turn that has to
talk; the one fault is a restart between the turns that hand topics over, an
exception in a turn, or the failure of one half of a recall. In the fail-over,
two requests on three models let one make the other's choice stale, and exhaust
the models of one while the other works. In the sweep, two atoms with a cap of one
make the summary exceed it again, and batches of two with one atom quoted let an
atom be archived that the text leaves out. In the dream agent, the windows are shorter than the periods in the
order of the code (a day, a week, a month; seven and thirty days), so that each
type of cycle starves behind the one before it in some behaviour. In the update,
the fork is a force-push that a merge must refuse, and two tasks let the result
of the first meet the second.

**What the passing runs assume.** `log_safety` has only faults that leave the
file as it was, besides the death of the process anywhere. `mig_safety` has `StateLosses = FALSE` (the state of an index is not
missing where its alias exists) and no `Poison` (a source that the model
refuses); its three safety properties except an index into which a run has written
vectors of another profile than that of its target (`mixed`, set by `Mixes`, the
behaviour of `mig_mixed`). Section 4 says what happens beyond these.

`Converges` holds while the repairs that can never succeed fit into the rounds of a back-off: each round
repairs at most 50 atoms in the order of their ids, and a back-off lasts at most
5 rounds of 120 s, so more than 250 atoms that cannot be embedded, with ids
before those that can, would starve the others. `SwitchesToExact` makes
exceptions of an index without sources and of one that has mixed profiles: a run
verifies the target that it began with, and activates the one of the manager, which
a reconfiguration may have changed meanwhile. Points of the first are not right
under the profile of the second unless they were mixed in, so the verification
fails whenever there is a source, but with none left an empty target is verified
and one with left-over points may be activated.
`HeldUntilWritten` makes an exception of candidates: those of streams that were
answered are lost if a later stream of the cycle raises (§4); `OutboxQueued` and
`Drained` of records that cannot be read back; `NothingSkipped` of what a chat object
made after a restart does not read (`missed`). `SegmentedOnce` speaks of runs in which no turn begins while an archiving task is
unfinished, neither in this process nor in one whose file it still has to read (such
a file can hold a message twice, see §4), and after a restart of what was in the file; `Considered` excepts a message that stays alone after turns without a
reply, for which the code waits on purpose, and the end of the process.

**Fairness.** `AtomIndex!FairSpec`: the reconciliation runs again and again (its task
loops with a sleep), pending writers and the start-up go on.
`EncodingOutbox!FairSpec`: the process is started again and its cycle goes on,
since every await in it returns, if only by a time-out; messages, failures and
deaths are not fair, and bounded. `VectorMigration!FairSpec`: a process that died
is started again, the monitor polls, and the task goes on; switches, writes and
faults are bounded. `GroupTurns!FairTurnsSpec`: a message that arrived is processed, a
wait of the loop ends (it has a time limit), and background tasks go on.
`Failover!FairSpec`: a call of a provider comes to something (every client has a
time limit) and a sleep ends; nothing makes a request begin or be cancelled.
`Fading!FairSpec`: both callers of the sweep come again (the hourly one while it
lives), the soft cap is tried in each cycle of the dream agent, and the embedding of a
summary comes to an end. `DreamCycles!FairSpec`: time passes, *some* cycle
begins when one is due at a poll (so a weekly one may wait for ever behind daily
ones), and a cycle that began goes on. `SelfUpdate!FairSpec`: a scheduled exit
happens, a command ends (each has a time limit), the Runner goes on; nobody has
to start a stopped program again.

`CHECK_DEADLOCK FALSE` appears where all bounds can be used up in a state in which
the program itself just waits for the next message, write or failure: the index,
migration, chat, fail-over, sweep and dream runs. The log, pipeline and update
runs check deadlock.

Each property has a mutant in `PROJECT.json`: an operator placed just before the
one it replaces, with the bug it stands for, under which the run must fail.

## 4. Disagreements

Three runs exhibit a behaviour of the code that its documentation excludes:

| Run | What the code does |
|---|---|
| `index_forgotten` | a deleted atom comes back at the next start, from the log record of a first insert that failed before a retry succeeded |
| `fade_cap` | once a user's summary is archived, the soft cap fails for that user in every cycle: it looks for an active summary, finds none, and cannot create one with the identifier that exists |
| `mig_mixed` | a rebuild writes vectors of one embedding profile into the collection of another: the profile is switched during an embedding, the source is deleted meanwhile and skipped, and the run goes on with the target it began with and the profile in force now (`vector_migration.py:122,178,206`) |

What `mig_mixed` shows can be repaired by the next verification of that
collection. It becomes visible to searches if a restart takes the collection for
verified because the alias names it, or if the verification is that of another
target (see below); `SearchOneSpace` without `~mixed` is violated so.

Others were met while modelling and can be reproduced with the modules by
changing the constants or stating the property; they have no run of their own:

- A process that dies inside a rewrite or a rotation forgets unfinished operations,
  although the comment at `write_ops.py:298` wants the new log to be made durable
  "避免恢复记录丢失" (lest records for the recovery are lost): `_write_all_ops` truncates
  the log before it writes it (`write_ops.py:372`), and after the renaming in
  `_rotate_log` (`write_ops.py:290`) the records are only in an archive, which no start
  reads. The model has these deaths in every run; `OpJournal` says what is left, which
  is that the newest records are lost first, and `Truncates` with `Forgets` in its place
  is violated.
- A torn append (`append_torn`) or write (`write_torn`) joins the fragment and the next
  record in a line that cannot be parsed: `Journaled` is violated.
- Beyond the limit on archives, the one removed can be the newest: archives get
  the smallest free number, and the number 1 is removed (`write_ops.py:320`).
- The replay at start finishes a write with the row of the main table only; the
  outbox then finds the row and skips `write_atom`: the detail record is never
  written (`encoding_pipeline.py:268`). An atom recovered from the outbox has lost
  its detail object, so its effect on the profile never happens
  (`encoding_pipeline.py:154`).
- The streams of a cycle are acknowledged one by one (`layer2_encoder.py:425`), and
  what was extracted is in a local variable of `encode_all_ready` until all are done.
  An exception of `encode_batch` for a later one, outside its `try`
  (`layer2_encoder.py:387-390,410-417`), ends the cycle (`encoding_pipeline.py:571`)
  and loses the atoms of the earlier ones, whose messages have left the buffers: the
  case that the comment at `encoding_pipeline.py:541` wants to exclude for what
  follows (`Dropped` in `HeldUntilWritten`).
- An outbox record that cannot be read back is kept "等待人工处理" (for somebody to look at)
  and tried again by no cycle (`encoding_pipeline.py:249-257`; `corrupt`).
- If the state of an index is missing while its alias exists, an empty collection
  is labelled with the present profile whatever it is (`StateLosses = TRUE`
  violates `SearchOneSpace`); one source that the model refuses keeps a rebuild
  from ever ending (`Poison` violates `Opened`).
- The text of a summary quotes the first five of the atoms that are archived for it
  (`dream_agent.py:1488`, `Snippets` in `RetiredWhenAbsorbed`), and an update replaces
  the text of the round before: the others are in no text any more. An atom that a
  reply found useful while the summary was embedded is archived with the rest
  (`dream_agent.py:1276-1277`).
- An atom archived with a weight between the two thresholds is never weighed again,
  hence never deleted. A failed query ends the hourly sweep until the next start; the
  dream agent's call is what then keeps memories leaving (`FadedLeaves`).
- A message stored after the cursor passed its time is never read
  (`heartFC_chat.py:206`; `late` in `NothingSkipped`), and neither is one that was stored
  and unread when the process died: the chat object made afterwards reads from two
  seconds ago (`heartFC_chat.py:110`; `missed`). What the summarizer has in memory and
  has not saved to the file - the batch in `pending`, a list under judgement, topics opened
  since - is lost at a restart; the messages stay in the archive. An exception in a turn loses
  the batch after the cursor has moved (`heartFC_chat.py:603-606`). Turns that
  overtake an archiving task can move open topics aside (`overlap`), which are
  judged never again; the file then gets both, the next turn restores both beside
  what was aside already, and a save and a restart in between make a message be in
  the open topics twice (4 messages with batches of 1, if `overlap` is cleared by
  `Crash`).
- `save_unclosed_topics` keeps the last 30 messages of a topic
  (`layer1_summarizer.py:1457`), and the next turn of the same process replaces the
  open topic by what was saved (`layer1_summarizer.py:697`): an open topic that got
  longer than that loses its oldest messages without being summarized.
- A cancelled request, or one whose compression raises, leaves its mark in
  `usage_penalty` for ever (`utils_model.py:569,696-702`; `Abandoned` in `Charged`).
- A plan that a restart or a stop leaves behind is never executed and blocks the
  next task (`update_routes.py:144`; `abandoned` in `TaskEnds`). So does one whose
  commands raise what `runner.py:165,176` do not name: output is decoded
  (`text=True`, `runner.py:203`), and output that is no text in the encoding of the
  system raises a `ValueError`, which `bot.py:88-91` logs before it starts a Worker,
  with the plan on disk, no result, and perhaps the checkout advanced (`Escape`). A
  failure of `os.chmod` after the plan was moved to its place (`runner.py:86-87`)
  leaves it there without an exit to follow (`AcceptFails`).
- A message whose triage failed stays pending "for a retry" (`dream_agent.py:838`)
  but is never triaged again: the next daily cycle begins more than 24 hours after
  this one and looks at the last 24 hours (`dream_agent.py:694`; `MissedRetried`
  is violated with one message, one noise item and one failure).
- The daily clean-up deletes a candidate of more than 30 days whether or not a
  weekly or monthly cycle has looked at it (the comment at `dream_agent.py:1845`
  wants recycling to come first), and while daily cycles are due at every poll the
  others do not get their turn.
- The comment at `conflict_arbitration.py:570-571` says that the reconciliation
  never removes the left-over point of an archived atom; it does
  (`reconciliation.py:215-222`, `ResyncsAreDone` and `Converges` depend on it).

## 5. Proofs

All are checked by tlapm from the named assumptions of the modules alone.

**`WriteOpLog_proofs`**, checked by tlapm without assumptions other than
`LogAssumption` (the constants are natural numbers, `Faults` are known faults):

- `LogTypeCorrect`: `Spec => []TypeOK`, for all faults. The lemmas follow the
  operators: each outcome of a file operation is a well-formed file
  (`RotateLogType`, `WriteAllOpsType`, `AppendOpType`, `UpdateOpType`), and each
  action is one of them (`NextType`).
- `RunningJournaled`: `Spec => []Journaled`, if the faults are benign (`Benign`).
- `LogImplementsJournal`: `Spec => JournalSpec`, unless a write that raises leaves a
  part of itself (`Sound`: neither `restore_fails` nor `rewrite_cut`).
- `NothingPassedOver`: `Spec => []Settled`, if besides reading the log does not fail
  (`Sound`, `Readable`).
- `LogTrimmed`: `Spec => TrimBound`, from the same two hypotheses.

All of them include the death of the process between any two file operations. The
faults of `log_safety` satisfy the three hypotheses. Without them the theorems are
false: a fragment swallows the next record (`Journaled`); after a rewrite that was cut
short a living process has forgotten unfinished operations (`JournalSpec`); and if
reading can fail, `_append_op` has written its line when `_auto_trim` fails to read the
log back, so an operation that never runs is left pending, and the log untrimmed.

`Journaled` is not inductive. A replay marks its next operation, and to find it
in the log one needs that what is still to be replayed is unfinished there and
differs from what runs. `JInv` therefore says that of the operations that run, are
replayed or are still to be, those in the log are live; that running operations exist only
while serving and replayed ones only while recovering; that `todo` and `replaying` are
disjoint. `IInv` adds that there is no fragment in the file and that what is still to
be replayed is in the log. The argument has two layers: every file operation that
returns leaves a log that `Forgets` only finished records, one that dies a log that
`Truncates` the one before (`Leaves`), and `UpdateOp` forgets nothing but possibly its
own operation once that is finished. With them each action of the log maps to
`Record`, `Advance` or `Forget` of the journal (`JournalStep`).

`Settled` speaks of the end of a start. Its invariant `SInv` speaks of all of it: what
the log has and is neither running, nor being replayed, nor still to be replayed, is
settled; one operation at most is replayed at a time; it builds on `JInv`. The step from one operation to
the next (`ContinueSInv`) is where it could be lost, since `todo` gets shorter before
the next result is known. `TrimBound` needs that a trim drops the oldest finished
operations first: the records are ranked by their age (`RankType`, `RankInjective`), and
trimming a log that has been trimmed changes nothing because the ranks of what
stays are below the limit.

**`AtomIndex_proofs`**, from `IndexAssumption`: `Disjoint`, `PresentRowWritten`,
`DeletionsStayQueued`, `ResyncsCompleted`, and `Typed` (`Spec => []TypeOK`). A repair is
an operator from a state to the set of states it can end in, and the argument
follows the operators: `Good(s, a)` says what a repair of `a` may have done when it
is at `s` - nothing but to `a`, whose point is the old one, none or the present row,
and which, if its point was deleted or it left the first queue while no call failed,
is accounted for in a queue - and each operator keeps it (`DeleteStaleQueues`,
`AbortGood`, `SyncInactiveGood`, `SyncStartGood`, `SyncUpsertGood`, `EmbeddedGood`,
`CleanupGood`, `OrphanGood`). `RepairStepInv` turns that into a step. `QueuesDisjoint`
is not inductive: a removal whose call fails puts its atom back into the second
queue, which is safe only because the atom was still in it. `StillQueued` says so of
all removals of a round that are still to come; it holds because the repairs of a
round are of one kind and of different atoms (`RecOK`), and only the reconciliation
changes the queues.

**`VectorMigration_proofs`**, from `MigrationAssumption` and `~StateLosses`:
`SearchedOneSpace`, `LabelsTrue`, `SwitchesToRebuilt`. None of the properties is
inductive: each depends on what the state says, on what the collections hold and
on what the manager remembers. `IInv` ties the three. `Owned`: unless a run has
mixed profiles, the collection of a profile has its vectors only; `Labels`: the
state calls no such collection one of another profile, and the legacy collection
one of a profile only while it has no other vectors; `ManagerOK`: without a target,
the state says that the searched collection is of the present profile (`Serves`).
The lemmas follow the initialization call by call (`AdoptKeeps`, `LabelKeeps`,
`InitializedKeeps`), with all the states in which it can be cut off
(`StagesKeep`); `ProceedKeeps` and `FailKeeps` reduce each step of a run to what it
leaves on disk; `UpsertedInv` shows that `mixed` records the only way out of
`Owned`. For the switch, the collection that was verified is the one that is
activated because it has a vector of the present profile (`SwitchStep`), and no
other step moves the alias (`InitializationAlias`, `RunAlias`, `SourceAlias`,
`WriterAlias`). Without `~StateLosses` the first two are false (§4).

**`EncodingOutbox_proofs`**, from `EncodingAssumption` (bounds are natural
numbers):

- `HandsInvariant`: `Spec => []IInv`.
- `OutboxServedHolds`: `Spec => OutboxServed`.
- `HeldUntilWrittenHolds`: `Spec => HeldUntilWritten`, whose only exception is the
  exception of `encode_batch` (`Dropped`, §4).
- `OutboxQueuedHolds`: `Spec => []OutboxQueued`, of the records that can be read back.
- `NewMessagesKeptHolds`: `Spec => NewMessagesKept`.
- `PipelineDelivers`: `Spec => DeliverySpec`, the refinement of `AtomDelivery`.
- `AtomsMadeOnce`: `Spec => []Delivery!Once`.

The first two properties speak of one step and neither follows from the step alone. That
`Delete` takes a written atom out of the outbox needs an invariant that says so
from `Write` or `Look` on, across the await of the embedding; and that `Begin`
loses nothing when it replaces `work` needs to know that a cycle ends with no
work. `IInv` says this: no work at `idle` and `down`, some work wherever an atom
is looked at, that atom in `rows` from `embed` to `delete`; and `work` and
`pending` are sequences, which the lemmas on `Head`, `Tail`, `Append` and `\o`
(`TailRange`, `AppendRange`, `ConcatRange`) ask for. `StepInvariant` has one step
per action and proves the three facts together; the ends of a turn, `Proceed` and
`Keep`, are lemmas of their own.

`OutboxQueued` speaks of the time between two cycles. `QueueInv` says where a record
of the outbox is during a cycle: in the queue or in the hands of the cycle
(`InHands`: its work, or the atom of which the turn is not over), or `corrupt`, which
`Begin` found when it read the outbox and leaves there. `NewMessagesKept`
depends on what `acknowledge` leaves in a buffer that grew during the call.
`Without` is defined by the places that stay and their ranks, so that it can be
reasoned about (`WithoutRange`: it has exactly the other elements); `BufferInv` adds
that a buffer is a sequence within its size, so that the oldest message is what a
full one loses.

The refinement maps the buffers and the batch to what waits, the work of a first
attempt to candidates, and the queue, the work of a retry and the atom in hand to
what is kept. A step that moves a message from one to another is a stutter or
the step of `AtomDelivery` only if nothing else holds the same message. So `LifeInv`
adds to `QueueInv` that each message waits in one place (`WaitInv`), that the queue and the
work have no atom twice or in common (`DistinctInv`), and `Delivery!Once`. `Once`
cannot be had first: that a retry takes back no atom that is in `work` already
rests on `DistinctInv`, which for new atoms rests on `Once`; all are preserved
together (`LifeStep`, `OnceStep`). A cycle that `encode_batch` ends drops candidates
only, which the specification permits (`RaiseWaits`: the batch in question stays in its
buffer, which is no longer than its bound, `BatchBound`).

**`Fading_proofs`**, from `FadingAssumption` (finitely many atoms; a positive cap,
batch and number of quotations): `DeletedKeptHolds`, `RetiredWhenAbsorbedHolds`. A sweep
is one step with many outcomes, so `SweepKeeps` and `SweepFailsKeeps` go through the sets
of atoms at which it can stop or fail: whatever failed for the others, those it deletes
are among those whose archive row it has made sure of (`Deletable`). The soft cap awaits the vector of the summary between making it and
archiving the atoms, and a sweep may run meanwhile. `IInv` says that during this await
the summary's row is active and has age 0, which is why no sweep takes it, and that its
text quotes the whole list or `Snippets` atoms of it (`Quoted`, `SummariseKeeps`);
`AbsorbKeeps` and `FeedbackKeeps` carry that to the step that archives.

**`DreamCycles_proofs`**, from `DreamAssumption` (finite disjoint items, positive
periods): `TriagedKeptHolds`, `ConsumedForGoodHolds`, `PromotedOnceHolds`. The
invariant strengthens `TriagedKept` to an equivalence - a message is triaged if
and only if a candidate was made of it - because that is what keeps a second
triage from making one again; and it says that the candidates in hand exist, and
that no atom is written twice.

**`Chat_proofs`, language-model requests**, from `RequestsAssumption` and
`NumbersAssumption`:
`ChargedHolds`, `BlamedHolds`, `CallsBoundedHolds`, for any finite set of requests.
The accounts are numbers and the properties are cardinalities of sets of requests,
so each action is first shown to have an `Effect`: what the request `r` leaves and
takes, as a change of the accounts by 0 or 1. `DifferInOne` relates the
cardinalities of sets that differ in `r` only, and `EffectKeeps` concludes for all
actions at once. `Bound` counts the calls of a request by the retries it has used,
which is what makes `CallsBounded` inductive.

**`Chat_proofs`, group turns**, from `TurnsAssumption`: `NothingSkippedHolds`,
`RecalledNotArchivedHolds`, `SegmentedOnceHolds`, for any numbers of messages, mentions,
recalls and faults, any batch size and any numbers of silent turns.

`SkipInv` adds to `NothingSkipped` that messages are numbers up to the clock, so
that a turn, which moves the cursor to the clock, passes what it has just read.
`RecalledNotArchived` is about a task that archives a message after its recall, with
a list made before. `RecallInv` says why it sees the recall: what was recalled and
is in somebody's hands (in transit, in a turn, in a task) is registered, and what is
stored is marked, so that no later turn reads it; `Expire` is what could break the
first, and its guard is the time limit of the registry.

`SegmentedOnce` needs the whole life of the summarizer. `PlaceInv` says, while no turn
overtook a task: there is one task at most, and none while a turn asks its questions;
the lists have no message twice or in common, and a closed topic none that is in a
list; a task that has not begun has a turn with messages that are nowhere yet,
because a turn reads beyond the cursor and all that is in a list is before it
(`CursorInv`, which also says that while there is no chat object, all that was read is
older than what is still to be stored); what is closed, in this process or an earlier
one (`Settled`), is in no list; and the file has what is open, or, after a restart, all
that is left of `given` besides what was closed before (`over`), so that restoring it
neither doubles nor loses anything (`TurnPlaces`). What the dead process had only in
memory is no longer in `given`: the theorem says nothing of it (§4). A judgement
finds its segments again by the ids of their ends, which in a list without
repetition are the segments that were meant (`SegmentPart`); `FeedPlaces` follows the
messages through the cut into batches, and `PlacesCount` turns the sets into the
numbers that the property counts. `InOrder` is defined by ranks, as `Without` is.

**`SelfUpdate_proofs`**, from `UpdateAssumption`: `ResultOfLastTaskHolds`,
`ResultTrueHolds`, `OnlyConfirmedHolds`. The invariant follows a plan through the
two processes: it is that of the last task (`PlanOfLastTask`), is carried out once
and has no result before its last step (`OncePerPlan`), and each step knows what
the steps before it have established unless the user touched the checkout
(`Verified`, `Progress`, `ResultOfSteps`). An exception that escapes leaves the plan
without a result of its own (`EscapeKeeps`), which is what these three properties need.

**Only model-checked:** the liveness properties `Converges`, `Drained`,
`Opened`, `Considered`, `Ended`, `FadedLeaves`, `PoolDrains`, `TaskEnds`: liveness under
fairness is beyond tlapm. All invariants and action properties of the passing runs
are proved. No module that is proved about has a recursive operator; where one needs
the order of a set or a part of a sequence, it is defined by ranks, about which the
theorems on finite sets say enough without an induction over data.

## 6. Plan

1. `WriteOpLog`, `OpJournal`, `AtomIndex`, `EncodingOutbox`, `AtomDelivery`,
   `VectorMigration`, `GroupTurns`, `Fading`, `DreamCycles`, `Failover`, `SelfUpdate`:
   modelled, checked and proved.
2. Next: an abstract blue/green index that `VectorMigration` implements.
3. An open topic that outgrows what is handed over (§4), as a bound of `GroupTurns`.
4. Private chats, with their interruption of a reply; the tokens of the web UI's
   sockets; the plugin registry.

## 7. Not modelled, and why

Prompts, planning and generation (answers of a language model); scoring,
ranking and text processing; message conversion in the adapters; request
handlers of the web UI other than those of updates and restarts; the plugin
system (registries, and code that others write); configuration, logging,
telemetry, schema set-up (parsing and I/O). `MemoryWriter.update_atom` and
`batch_write` have no caller, and nothing logs an UPDATE, DELETE, ARCHIVE or
MIGRATE whose replay could run. `AsyncTaskManager` replaces and stops tasks at
start and stop only. Private chats run a loop of the same structure as the group's
without batches, thresholds or topics.

By far the largest part of the repository is of these kinds: the models cover the
code whose result depends on the order of events, which is a small share of all
lines. `PROJECT.json` lists every component with its reason.
