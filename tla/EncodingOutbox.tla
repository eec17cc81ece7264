--------------------------- MODULE EncodingOutbox ---------------------------
(***************************************************************************)
(* From chat messages to memory atoms: the buffers of the batch encoder    *)
(* (src/src/memory/layer2_encoder.py), the cycle of the encoding pipeline  *)
(* with its durable outbox (src/src/memory/encoding_pipeline.py), and what *)
(* a write leaves in SQLite and in the operation log (MemoryWriter,        *)
(* WriteOpLogger).                                                         *)
(*                                                                         *)
(* Everything runs on one event loop: a step goes from one await, or one   *)
(* write to a disk, to the next.  Messages come in at the awaits; the      *)
(* process can die between any two steps and any write can raise.          *)
(*                                                                         *)
(* A message is a number, and the atom the language model makes of a       *)
(* message has the same number.  An atom here is one with a detail record  *)
(* and one person to profile: others take the same way and do less of it.  *)
(***************************************************************************)
EXTENDS Integers, Sequences, FiniteSets, Functions

CONSTANTS Streams,       \* chat streams
          MaxMessages,   \* bound: messages ever received
          MaxFaults,     \* bound: calls that fail, and deaths of the process
          MaxBuffer,     \* EncodingBuffer.max_buffer_size
          MaxBatch,      \* BatchEncoder.max_messages_per_batch
          TriggerCount   \* BatchEncoder.trigger_count

ASSUME EncodingAssumption ==
  /\ {MaxMessages, MaxFaults, MaxBuffer, MaxBatch, TriggerCount} \subseteq Nat
  /\ 0 < MaxBatch /\ 0 < MaxBuffer /\ TriggerCount <= MaxBuffer

VARIABLES
  pc,        \* where the process is; "down" if it is not running
  buffer,    \* the messages waiting in each stream that has a buffer
  fresh,     \* streams whose buffer was made since the last cycle ended
  next,      \* the number of the next message
  todo,      \* streams that this cycle still has to encode
  batch,     \* [stream, messages]: what the language model is asked about
  work,      \* atoms that this cycle still has to write
  retrying,  \* whether work comes from earlier cycles
  pending,   \* _pending_writes: atoms to try again in the next cycle
  loaded,    \* _pending_loaded
  thin,      \* atoms read back from the outbox: their objects lost the details
  outbox,    \* atoms with a PendingAtomWrite record
  corrupt,   \* those whose record a start could not turn back into an atom
  rows,      \* atoms with a row in the main table
  detailed,  \* atoms with a row in the table of details
  logged,    \* atoms with an unfinished record of an earlier INSERT in the log
  profiled,  \* atoms whose detail was brought into the profile of a person
  faults

buffers == <<buffer, fresh, next>>
cycle == <<todo, batch, work, retrying>>
queue == <<pending, loaded, thin>>
stored == <<rows, detailed, logged, profiled>>
vars == <<pc, buffers, cycle, queue, outbox, corrupt, stored, faults>>

NoBatch == [stream |-> CHOOSE s \in Streams : TRUE, messages |-> <<>>]
\* The sequences in which each of these atoms occurs once.
Orders(S) == UNION {Bijection(1..n, S) : n \in 0..MaxMessages}
\* The sequence without the elements of S: its k-th one stands at the k-th place
\* that holds none of them.
Without(seq, S) ==
  LET places == {i \in DOMAIN seq : seq[i] \notin S}
  IN  [k \in 1..Cardinality(places) |->
         seq[CHOOSE i \in places : Cardinality({j \in places : j <= i}) = k]]
Fault == faults < MaxFaults /\ faults' = faults + 1

Init ==
  /\ pc = "idle" /\ loaded = FALSE
  /\ buffer = [s \in {} |-> <<>>] /\ fresh = {} /\ next = 1
  /\ todo = {} /\ batch = NoBatch /\ work = <<>> /\ retrying = FALSE
  /\ pending = <<>> /\ thin = {} /\ outbox = {} /\ corrupt = {}
  /\ rows = {} /\ detailed = {} /\ logged = {} /\ profiled = {}
  /\ faults = 0
-----------------------------------------------------------------------------
(* Buffers                                                                 *)

\* EncodingBuffer.add_message: beyond its size, a buffer drops its oldest
\* message.  (A message that is still in the buffer is not added twice.)
Added(messages, m) ==
  LET all == Append(messages, m)
  IN  IF Len(all) > MaxBuffer THEN Tail(all) ELSE all

AcknowledgedByCount(messages, done) == SubSeq(messages, Len(done) + 1, Len(messages))

\* EncodingBuffer.acknowledge: only the messages of the snapshot leave.
Acknowledged(messages, done) == Without(messages, Range(done))

ReadyByCount == {s \in DOMAIN buffer : Len(buffer[s]) >= TriggerCount /\ Len(buffer[s]) > 0}

\* get_ready_streams.  A cycle follows the one before it after trigger_seconds,
\* so a buffer older than that is due for its age, a newer one for its length.
Ready == {s \in DOMAIN buffer : Len(buffer[s]) > 0 /\ (s \in fresh => Len(buffer[s]) >= TriggerCount)}

Known(s) == s \in DOMAIN buffer

\* BatchEncoder.ingest_message makes the buffer of a stream when it first needs it.
Buffered(s, m) ==
  [t \in DOMAIN buffer \cup {s} |->
     IF t = s THEN Added(IF Known(s) THEN buffer[s] ELSE <<>>, m) ELSE buffer[t]]

\* A message comes in while the cycle awaits something or sleeps.
Ingest(s) ==
  /\ pc \in {"idle", "llm", "check", "embed"} /\ next <= MaxMessages
  /\ next' = next + 1
  /\ buffer' = Buffered(s, next)
  /\ fresh' = IF Known(s) THEN fresh ELSE fresh \cup {s}
  /\ UNCHANGED <<pc, cycle, queue, outbox, corrupt, stored, faults>>
-----------------------------------------------------------------------------
(* One cycle of the pipeline                                               *)

\* The cycle goes on with these atoms; after those of earlier cycles come the
\* streams, after the new ones the next sleep.
Proceed(atoms) ==
  /\ work' = atoms
  /\ IF atoms # <<>>
     THEN pc' = (IF retrying THEN "look" ELSE "check") /\ UNCHANGED <<todo, retrying, fresh>>
     ELSE IF retrying
          THEN pc' = "encode" /\ todo' = Ready /\ retrying' = FALSE /\ UNCHANGED fresh
          ELSE pc' = "idle" /\ fresh' = {} /\ UNCHANGED <<todo, retrying>>

\* The atoms of the outbox that a restart brings back (_load_pending_writes).
Recovered == IF loaded THEN {} ELSE outbox \ (Range(pending) \cup corrupt)

\* The details of an atom are stored beside it, and are not put back on the
\* object (_serialize_pending_write, _deserialize_pending_write).
Restored(atoms) == thin \cup atoms

LoadFailedMarked == ~loaded /\ Fault /\ loaded' = TRUE

\* The outbox cannot be read, and stays to be read by the next cycle.
LoadFailed == ~loaded /\ Fault /\ UNCHANGED loaded

\* run_cycle takes over what is pending, after a restart with the outbox: a
\* record that cannot be turned back into an atom stays there and is not queued.
\* If the outbox cannot be read at all, the cycle ends here.
Begin ==
  /\ pc = "idle"
  /\ \/ /\ loaded' = TRUE
        /\ \E bad \in SUBSET Recovered :
             /\ IF bad = {} THEN UNCHANGED faults ELSE Fault
             /\ corrupt' = corrupt \cup bad
             /\ \E atoms \in Orders(Recovered \ bad) : work' = pending \o atoms
             /\ thin' = Restored(Recovered \ bad)
        /\ pending' = <<>>
        /\ IF work' # <<>>
           THEN pc' = "look" /\ retrying' = TRUE /\ UNCHANGED todo
           ELSE pc' = "encode" /\ todo' = Ready /\ UNCHANGED retrying
        /\ UNCHANGED fresh
     \/ /\ LoadFailed /\ fresh' = {}
        /\ UNCHANGED <<pc, work, todo, retrying, pending, thin, corrupt>>
  /\ UNCHANGED <<buffer, next, batch, outbox, stored>>

Oldest(messages) == SubSeq(messages, 1, IF Len(messages) < MaxBatch THEN Len(messages) ELSE MaxBatch)

\* encode_batch takes the oldest messages of a stream and asks the model.
Ask(s) ==
  /\ pc = "encode" /\ s \in todo
  /\ todo' = todo \ {s}
  /\ batch' = [stream |-> s, messages |-> Oldest(buffer[s])]
  /\ pc' = "llm"
  /\ UNCHANGED <<buffers, work, retrying, queue, outbox, corrupt, stored, faults>>

\* What the model and the validation of its items can make of some messages.
Extractions(messages) == UNION {Orders(kept) : kept \in SUBSET Range(messages)}

\* An answer that can be parsed yields some atoms, perhaps none, and its
\* messages leave the buffer; after any other the buffer stays as it is.
Answer ==
  /\ pc = "llm" /\ pc' = "encode" /\ batch' = NoBatch
  /\ \/ /\ \E atoms \in Extractions(batch.messages) : work' = work \o atoms
        /\ buffer' = [buffer EXCEPT ![batch.stream] = Acknowledged(@, batch.messages)]
        /\ UNCHANGED faults
     \/ Fault /\ UNCHANGED <<work, buffer>>
  /\ UNCHANGED <<fresh, next, todo, retrying, queue, outbox, corrupt, stored>>

\* encode_batch raises, outside its call of the model: as it builds the prompt, or
\* as it names the sources of an answer that it has not yet acknowledged.  What
\* encode_all_ready had from the streams before is gone with its local results,
\* and the cycle is over.
EncodingRaises ==
  /\ \/ pc = "llm"
     \/ pc = "encode" /\ todo # {}
  /\ Fault /\ pc' = "idle" /\ fresh' = {}
  /\ todo' = {} /\ batch' = NoBatch /\ work' = <<>>
  /\ UNCHANGED <<buffer, next, retrying, queue, outbox, corrupt, stored>>

\* All streams are done.
Encoded ==
  /\ pc = "encode" /\ todo = {}
  /\ Proceed(work)
  /\ UNCHANGED <<buffer, next, batch, queue, outbox, corrupt, stored, faults>>
-----------------------------------------------------------------------------
(* One atom                                                                *)

atom == Head(work)

KeepNewOnly ==
  /\ pending' = IF retrying THEN pending ELSE Append(pending, atom)
  /\ Proceed(Tail(work))

\* The atom is kept for the next cycle.
Keep ==
  /\ pending' = Append(pending, atom)
  /\ Proceed(Tail(work))

\* A candidate that cannot be built or checked, or is rejected, is dropped.
Check ==
  /\ pc = "check"
  /\ \/ Proceed(Tail(work))
     \/ pc' = "persist" /\ UNCHANGED <<todo, work, retrying, fresh>>
  /\ UNCHANGED <<buffer, next, batch, queue, outbox, corrupt, stored, faults>>

\* _persist_pending_write
Persist ==
  /\ pc = "persist"
  /\ \/ pc' = "look" /\ outbox' = outbox \cup {atom} /\ UNCHANGED <<fresh, todo, work, retrying, pending, faults>>
     \/ Fault /\ Keep /\ UNCHANGED outbox
  /\ UNCHANGED <<buffer, next, batch, loaded, thin, corrupt, stored>>

WrittenOrLogged(a) == a \in rows \cup logged

\* get_atom finds the row.
Written(a) == a \in rows

\* _commit_atom_write skips the write of an atom that has a row; a read that
\* fails looks like no row.  Otherwise write_atom logs an INSERT, which can
\* raise, perhaps after the record was written.
Look ==
  /\ pc = "look"
  /\ \/ /\ pc' = (IF Written(atom) THEN "effects" ELSE "write")
        /\ UNCHANGED <<fresh, todo, work, retrying, pending, logged, faults>>
     \/ /\ Written(atom) /\ Fault /\ pc' = "write"
        /\ UNCHANGED <<fresh, todo, work, retrying, pending, logged>>
     \/ /\ ~Written(atom) /\ Fault /\ Keep
        /\ logged' \in {logged, logged \cup {atom}}
  /\ UNCHANGED <<buffer, next, batch, loaded, thin, outbox, corrupt, rows, detailed, profiled>>

\* write_atom inserts both rows in one transaction, which fails on an atom that
\* has a row, and closes the record of the log, which can raise too.
Write ==
  /\ pc = "write"
  /\ \/ /\ atom \notin rows /\ rows' = rows \cup {atom} /\ detailed' = detailed \cup {atom}
        /\ \/ /\ pc' = "embed" /\ UNCHANGED <<fresh, todo, work, retrying, pending, logged, faults>>
           \/ /\ Fault /\ logged' = logged \cup {atom} /\ Keep
     \/ /\ IF atom \in rows THEN UNCHANGED faults ELSE Fault
        /\ logged' = logged \cup {atom} /\ Keep /\ UNCHANGED <<rows, detailed>>
  /\ UNCHANGED <<buffer, next, batch, loaded, thin, outbox, corrupt, profiled>>

\* The embedding, and the point in the vector index, of which nothing is raised.
Embed ==
  /\ pc = "embed" /\ pc' = "effects"
  /\ UNCHANGED <<buffers, cycle, queue, outbox, corrupt, stored, faults>>

\* update_profile_from_atom reads the detail that hangs on the atom object, and
\* does nothing without one; what it raises is only logged.
Effects ==
  /\ pc = "effects" /\ pc' = "delete"
  /\ profiled' = profiled \cup ({atom} \ thin)
  /\ UNCHANGED <<buffers, cycle, queue, outbox, corrupt, rows, detailed, logged, faults>>

\* _delete_pending_write
Delete ==
  /\ pc = "delete"
  /\ \/ outbox' = outbox \ {atom} /\ Proceed(Tail(work)) /\ UNCHANGED <<pending, faults>>
     \/ Fault /\ Keep /\ UNCHANGED outbox
  /\ UNCHANGED <<buffer, next, batch, loaded, thin, corrupt, stored>>
-----------------------------------------------------------------------------
\* The process dies; a write it was in leaves its record in the log.
Crash ==
  /\ pc # "down" /\ Fault
  /\ pc' = "down"
  /\ buffer' = [s \in {} |-> <<>>] /\ fresh' = {}
  /\ todo' = {} /\ batch' = NoBatch /\ work' = <<>> /\ retrying' = FALSE
  /\ pending' = <<>> /\ loaded' = FALSE /\ thin' = {}
  /\ logged' = IF pc = "write" THEN logged \cup {atom} ELSE logged
  /\ UNCHANGED <<next, outbox, corrupt, rows, detailed, profiled>>

\* The start replays the records of the log before it makes the pipeline: an
\* atom without a row gets the row that the record holds, which has no detail.
Start ==
  /\ pc = "down" /\ pc' = "idle"
  /\ \E done \in SUBSET logged :
       /\ IF done = logged THEN UNCHANGED faults ELSE Fault
       /\ rows' = rows \cup done /\ logged' = logged \ done
  /\ UNCHANGED <<buffers, cycle, queue, outbox, corrupt, detailed, profiled>>

\* EncodingTask.run, again and again.
Cycle ==
  \/ Begin \/ Answer \/ EncodingRaises \/ Encoded \/ Check \/ Persist \/ Look \/ Write \/ Embed \/ Effects \/ Delete
  \/ \E s \in Streams : Ask(s)

Next == Cycle \/ Crash \/ Start \/ \E s \in Streams : Ingest(s)

Spec == Init /\ [][Next]_vars

\* The process is started again, and its task goes on: every await of a cycle
\* returns, if only by a time-out.
FairSpec == Spec /\ WF_vars(Cycle) /\ WF_vars(Start)
-----------------------------------------------------------------------------
(* Properties                                                              *)

Messages == 1..MaxMessages
Held == Range(pending) \cup Range(work) \cup outbox

TypeOK ==
  /\ pc \in {"down", "idle", "encode", "llm", "check", "persist", "look", "write", "embed", "effects", "delete"}
  /\ DOMAIN buffer \subseteq Streams /\ fresh \subseteq DOMAIN buffer /\ todo \subseteq DOMAIN buffer
  /\ \A s \in DOMAIN buffer : buffer[s] \in Seq(Messages) /\ Len(buffer[s]) <= MaxBuffer
  /\ batch.stream \in Streams /\ batch.messages \in Seq(Messages) /\ Len(batch.messages) <= MaxBatch
  /\ {work, pending} \subseteq Seq(Messages)
  /\ UNION {outbox, corrupt, thin, rows, detailed, logged, profiled} \subseteq Messages
  /\ {retrying, loaded} \subseteq BOOLEAN
  /\ next \in 1..(MaxMessages + 1) /\ faults \in 0..MaxFaults

\* A record leaves the outbox only when its atom has a row, whatever fails and
\* whenever the process dies (run_cycle: commit, then delete).
OutboxServed == [][outbox \ outbox' \subseteq rows]_vars

\* Between two cycles every record of the outbox is in the queue too, but for
\* those that a start could not read, which nothing tries again: no other waits
\* for a restart while the process runs (the except clauses of run_cycle, and
\* _pending_loaded).
OutboxQueued == pc = "idle" /\ loaded => outbox \subseteq Range(pending) \cup corrupt

\* What the model extracted is held somewhere until it has a row, even when the
\* outbox could not take it ("the atom must be kept: its messages have left the
\* buffer", encoding_pipeline.py:541).  Only the death of the process loses it, or
\* the check that rejects it, or an encode_batch that raises: that one takes the
\* candidates of the streams before it along, never an atom that was accepted.
Dropped == IF pc = "check" THEN {atom}
           ELSE IF pc \in {"encode", "llm"} /\ pc' = "idle" THEN Range(work)
           ELSE {}
HeldUntilWritten == [][pc' = "down" \/ Held \ Held' \subseteq rows \cup Dropped]_vars

\* A message leaves a buffer only with the batch that was answered, or as the
\* oldest of a full buffer: not the ones that came in, or moved up, during the
\* call (BatchEncoder.encode_batch takes a snapshot for that).
NewMessagesKept ==
  [][pc' # "down" =>
       \A s \in DOMAIN buffer : \A m \in Range(buffer[s]) \ Range(buffer'[s]) :
          \/ pc = "llm" /\ s = batch.stream /\ m \in Range(batch.messages)
          \/ Len(buffer[s]) = MaxBuffer /\ m = Head(buffer[s])]_vars

\* Where the atom at the head of the work has been accepted.
Accepted == {"persist", "look", "write", "embed", "effects", "delete"}

\* The state of the pipeline as AtomDelivery sees it: a message of the batch that
\* the model is asked about waits, even when a full buffer drops it meanwhile.
Waiting == Range(batch.messages) \cup UNION {Range(buffer[s]) : s \in DOMAIN buffer}
Candidates == IF retrying THEN {} ELSE IF pc \in Accepted THEN Range(Tail(work)) ELSE Range(work)
Kept == Range(pending) \cup IF retrying THEN Range(work) ELSE IF pc \in Accepted THEN {atom} ELSE {}

\* No message is made into an atom twice, however batches, full buffers, failed
\* answers, retries and restarts meet, and an accepted atom is kept until it has
\* a row, in the outbox through any death: see AtomDelivery.
Delivery == INSTANCE AtomDelivery WITH
  received <- next - 1, waiting <- Waiting, candidates <- Candidates,
  kept <- Kept, recorded <- outbox, written <- rows
DeliverySpec == Delivery!Spec

\* Once messages and failures stop, the buffers and the queue get empty, and the
\* outbox but for what no start can read: no stream waits for ever for company,
\* no other record for a restart.
Drained ==
  <>[](outbox \subseteq corrupt /\ pending = <<>> /\ \A s \in DOMAIN buffer : buffer[s] = <<>>)

=============================================================================
