----------------------------- MODULE GroupTurns -----------------------------
(***************************************************************************)
(* The way of a group message: stored and announced (heartflow,            *)
(* MessageStorage), read in turns by the loop of the chat (HeartFChatting, *)
(* ReplyTurnScheduler), archived by a task of the background (layer 0),    *)
(* cut into topics there (GroupTopicSummarizer, UnclosedTopicBridge) and   *)
(* handed to the encoder; and its recall by its author at any moment       *)
(* (MessageBot, RecallRegistry).                                           *)
(*                                                                         *)
(* One chat.  Everything runs on one event loop: an action is what runs    *)
(* between two awaits that suspend.  A message is the number of its place  *)
(* in the order of arrival, which is also its time; it is stored some time *)
(* later.  A turn's task is not awaited by the turn, so that tasks overlap *)
(* with later turns and with each other.                                   *)
(***************************************************************************)
EXTENDS Integers, Sequences, SequencesExt, FiniteSets, FiniteSetsExt

CONSTANTS Messages,     \* number of messages
          Mentions,     \* those that mention the bot
          Trigger,      \* judge_trigger_count
          Hesitant,     \* silent turns after which a lone message may have to wait
          Silent,       \* silent turns after which a lone message has to wait
          MaxRecalls,   \* bound: recalls
          MaxFaults     \* bound: database errors, exceptions, restarts of the process

ASSUME TurnsAssumption ==
  /\ {Messages, Hesitant, Silent, MaxRecalls, MaxFaults} \subseteq Nat
  /\ Trigger \in Nat \ {0} /\ Mentions \subseteq 1..Messages /\ Hesitant <= Silent

Msgs == 1..Messages

VARIABLES
  clock,     \* the time: the messages that have arrived
  transit,   \* messages being processed, not stored yet
  stored,    \* messages in the database
  flagged,   \* those marked as recalled there
  registry,  \* recall_registry
  archive,   \* the raw messages of layer 0
  pc,        \* where the chat's loop is; "none" before the chat exists
  event,     \* _new_message_event
  cursor,    \* last_read_time
  batch,     \* recent_messages_list of the turn
  quiet,     \* consecutive_no_reply_count
  tasks,     \* the archiving tasks: [turn, step, list, rest]
  pending,   \* pending_messages
  tail,      \* open_topic_messages: the open topic's, judged again with the next batch
  strays,    \* messages of the open topics that are not
  closed,    \* in how many closed topics each message is
  bridge,    \* topic_bridge.json
  encoded,   \* how often each message was handed to the encoder
  faults,
  recalled,  \* history: messages whose authors took them back
  seen,      \* history: messages that a turn was decided on with
  late,      \* history: messages stored when the cursor had passed them
  missed,    \* history: messages stored and unread when the chat was made, which
             \* reads from a later time
  kept,      \* history: messages whose archived copy could not be deleted
  unmarked,  \* history: messages that could not be marked in the database
  given,     \* history: messages given to the summarizer; of those of an earlier
             \* process, the ones in the file or in topics that were closed
  over,      \* history: messages in topics that earlier processes closed
  overlap    \* history: a turn began while an archiving task was unfinished, in this
             \* process or in the one that wrote topic_bridge.json

database == <<stored, flagged, archive>>
loop == <<pc, event, cursor, batch, quiet>>
layer1 == <<pending, tail, strays, closed>>
history == <<recalled, seen, late, missed, kept, unmarked, given, over, overlap>>
turnVars == <<clock, transit, database, registry, loop, tasks, layer1, bridge, encoded, faults, history>>

Fault == faults < MaxFaults /\ faults' = faults + 1

\* The set as a list, in the order of time.
InOrder(set) ==
  [i \in 1..Cardinality(set) |-> CHOOSE m \in set : Cardinality({n \in set : n <= m}) = i]

TurnsInit ==
  /\ clock = 0 /\ transit = {} /\ stored = {} /\ flagged = {} /\ archive = {} /\ registry = {}
  /\ pc = "none" /\ event = FALSE /\ cursor = 0 /\ batch = {} /\ quiet = 0
  /\ tasks = {} /\ pending = <<>> /\ tail = <<>> /\ strays = <<>> /\ closed = [m \in Msgs |-> 0]
  /\ bridge = <<>> /\ encoded = [m \in Msgs |-> 0]
  /\ faults = 0
  /\ recalled = {} /\ seen = {} /\ late = {} /\ missed = {} /\ kept = {} /\ unmarked = {}
  /\ given = {} /\ over = {} /\ overlap = FALSE
-----------------------------------------------------------------------------
(* Messages and their recall                                               *)

Arrive ==
  /\ clock < Messages /\ clock' = clock + 1 /\ transit' = transit \cup {clock'}
  /\ UNCHANGED <<database, registry, loop, tasks, layer1, bridge, encoded, faults, history>>

StoreAnyway(m) == stored' = stored \cup {m}

\* store_message: a message that was recalled on its way is not stored.
StoreUnlessRecalled(m) == stored' = stored \cup ({m} \ registry)

\* The first message makes the chat, which reads from two seconds ago: what was
\* stored with an earlier time, by the process before this one too, stays unread.
Announce(m) ==
  /\ event' = TRUE
  /\ IF pc = "none"
     THEN /\ pc' = "look" /\ cursor' \in (clock - 1)..clock
          /\ missed' = missed \cup {n \in stored' \ seen : n <= cursor'}
          /\ UNCHANGED late
     ELSE /\ late' = IF m <= cursor THEN late \cup {m} ELSE late
          /\ UNCHANGED <<pc, cursor, missed>>

\* HeartFCMessageReceiver.process_message
Store ==
  /\ \E m \in transit : transit' = transit \ {m} /\ StoreUnlessRecalled(m) /\ Announce(m)
  /\ UNCHANGED <<clock, flagged, archive, registry, batch, quiet, tasks, layer1, bridge, encoded, faults>>
  /\ UNCHANGED <<recalled, seen, kept, unmarked, given, over, overlap>>

Register(m) == registry' = registry \cup {m}

\* _handle_message_recall: the mark in the database or the deletion of the
\* archived copy may fail, which is logged.
Recall ==
  /\ Cardinality(recalled) < MaxRecalls
  /\ \E m \in 1..clock \ recalled :
       /\ recalled' = recalled \cup {m} /\ Register(m)
       /\ \/ /\ flagged' = flagged \cup ({m} \cap stored) /\ archive' = archive \ {m}
             /\ UNCHANGED <<faults, kept, unmarked>>
          \/ m \in stored /\ Fault /\ archive' = archive \ {m} /\ unmarked' = unmarked \cup {m}
             /\ UNCHANGED <<flagged, kept>>
          \/ m \in archive /\ Fault /\ kept' = kept \cup {m} /\ flagged' = flagged \cup {m}
             /\ UNCHANGED <<archive, unmarked>>
  /\ UNCHANGED <<clock, transit, stored, loop, tasks, layer1, bridge, encoded>>
  /\ UNCHANGED <<seen, late, missed, given, over, overlap>>

\* Messages that some code still holds.
InHand == transit \cup batch \cup UNION {t.turn : t \in tasks}

\* RECALL_TTL_SECONDS: set to cover the way of a message through the program.
Expire ==
  /\ \E m \in registry \ InHand : registry' = registry \ {m}
  /\ UNCHANGED <<clock, transit, database, loop, tasks, layer1, bridge, encoded, faults, history>>
-----------------------------------------------------------------------------
(* Topics: GroupTopicSummarizer and UnclosedTopicBridge                    *)

\* add_messages, up to the next call of the language model: a batch of new
\* messages is judged with the open topics, which are discarded until then.
Feed(task, new, open) ==
  IF Len(new) >= Trigger
  THEN /\ pending' = SubSeq(new, Trigger + 1, Len(new)) /\ tail' = <<>>
       /\ tasks' = (tasks \ {task}) \cup
            {[task EXCEPT !.step = "judge", !.list = open \o SubSeq(new, 1, Trigger)]}
  ELSE /\ pending' = new /\ tail' = open
       /\ tasks' = (tasks \ {task}) \cup {[task EXCEPT !.step = "ingest", !.list = <<>>]}

LastIndex(list, m) == Max({i \in DOMAIN list : list[i] = m})

\* The segment from the i-th to the j-th message, found again by their ids.
Segment(list, i, j) ==
  IF i > j THEN <<>> ELSE SubSeq(list, LastIndex(list, list[i]), LastIndex(list, list[j]))

\* _archive_recent_messages: the archive, one message after the other without a
\* break, then the summarizer.
Archive ==
  \E t \in {u \in tasks : u.step = "new"} :
    LET present == t.turn \ registry IN
    /\ archive' = archive \cup present
    /\ Feed(t, pending \o InOrder(present), tail)
    /\ given' = given \cup present
    /\ UNCHANGED <<clock, transit, stored, flagged, registry, loop, strays, closed, bridge, encoded, faults>>
    /\ UNCHANGED <<recalled, seen, late, missed, kept, unmarked, over, overlap>>

\* _apply_judged_segments: of the language model's or the keywords' segments, all
\* are closed but perhaps the last, which is the open one from now on.  Topics
\* that were made open meanwhile stay as they are.
Judge ==
  \E t \in {u \in tasks : u.step = "judge"} : \E cut \in 0..Len(t.list) :
    LET done == Segment(t.list, 1, cut)
        left == Segment(t.list, cut + 1, Len(t.list)) IN
    /\ closed' = [m \in Msgs |-> IF Contains(done, m) THEN closed[m] + 1 ELSE closed[m]]
    /\ strays' = strays \o tail
    /\ Feed(t, pending, left)
    /\ UNCHANGED <<clock, transit, database, registry, loop, bridge, encoded, faults, history>>

\* pipeline.ingest, message by message.
Ingest ==
  \E t \in {u \in tasks : u.step = "ingest" /\ u.rest # {}} :
    LET m == Min(t.rest) IN
    /\ encoded' = IF m \in registry THEN encoded ELSE [encoded EXCEPT ![m] = @ + 1]
    /\ tasks' = (tasks \ {t}) \cup {[t EXCEPT !.rest = @ \ {m}]}
    /\ UNCHANGED <<clock, transit, database, registry, loop, layer1, bridge, faults, history>>

\* save_unclosed_topics: a topic that was open half an hour ago already is left out.
Save ==
  \E t \in {u \in tasks : u.step = "ingest" /\ u.rest = {}} :
    /\ tasks' = tasks \ {t}
    /\ LET open == strays \o tail IN
       IF open = <<>> /\ \A m \in Msgs : closed[m] = 0 THEN UNCHANGED bridge
       ELSE bridge' \in {open, tail, <<>>}
    /\ UNCHANGED <<clock, transit, database, registry, loop, layer1, encoded, faults, history>>

RestoreBeside == tail' = tail \o bridge

\* restore_topics and restore_unclosed_topics
RestoreInstead == tail' = IF bridge = <<>> THEN tail ELSE bridge

-----------------------------------------------------------------------------
(* The loop of the chat: HeartFChatting                                    *)

\* _get_pending_group_messages
Unread == {m \in stored \ flagged : cursor < m /\ m <= clock}

\* _group_message_threshold
Thresholds == IF quiet >= Silent THEN {2} ELSE IF quiet >= Hesitant THEN {1, 2} ELSE {1}

Forced(read) == IF read \cap Mentions = {} THEN {} ELSE {Max(read \cap Mentions)}

LeftBehind == cursor' = clock /\ UNCHANGED <<batch, tail, bridge, seen, overlap>>

\* Too few messages stay unread.
LeftUnread == UNCHANGED <<cursor, batch, tail, bridge, seen, overlap>>

\* decide_group_turn; _observe up to its first await
Decide(read) ==
  \/ /\ \E n \in Thresholds : Cardinality(read) < n
     /\ pc' = "wait" /\ LeftUnread
  \/ /\ \E n \in Thresholds : Cardinality(read) >= n
     /\ cursor' = clock /\ seen' = seen \cup read
     /\ \/ Mentions \cap read = {} /\ pc' = "wait" /\ UNCHANGED <<batch, tail, bridge, overlap>>
        \/ Forced(read) \cap registry # {} /\ pc' = "look" /\ UNCHANGED <<batch, tail, bridge, overlap>>
        \/ /\ Forced(read) \cap registry = {}
           /\ pc' = "talk" /\ batch' = read
           /\ RestoreInstead /\ bridge' = <<>> /\ overlap' = (overlap \/ tasks # {})

LoopUnchanged ==
  UNCHANGED <<clock, transit, database, registry, quiet, tasks, pending, strays, closed, encoded, faults,
              recalled, late, missed, kept, unmarked, given, over>>

\* _loopbody: the messages are read; when they have just come, more are waited for.
Look ==
  /\ pc = "look"
  /\ IF event /\ Unread # {}
     THEN event' = FALSE /\ pc' = "buffer" /\ UNCHANGED <<cursor, batch, tail, bridge, seen, overlap>>
     ELSE Decide(Unread) /\ UNCHANGED event
  /\ LoopUnchanged

Buffer == pc = "buffer" /\ event' = FALSE /\ Decide(Unread) /\ LoopUnchanged

\* A new message, or the end of the time limit.
Wake ==
  /\ pc = "wait" /\ pc' = "look"
  /\ UNCHANGED <<clock, transit, database, registry, event, cursor, batch, quiet, tasks, layer1, bridge,
                 encoded, faults, history>>

\* The reflection's questions are over; the archiving task starts, then the planner.
Talk ==
  /\ pc = "talk" /\ pc' = "plan" /\ batch' = {}
  /\ tasks' = tasks \cup {[turn |-> batch, step |-> "new", list |-> <<>>, rest |-> batch]}
  /\ UNCHANGED <<clock, transit, database, registry, event, cursor, quiet, layer1, bridge, encoded, faults, history>>

\* The planner's actions are carried out: none, some, or a reply.
Plan ==
  /\ pc = "plan" /\ pc' = "look"
  /\ quiet' \in {0, quiet, quiet + 1} /\ quiet' <= Silent
  /\ UNCHANGED <<clock, transit, database, registry, event, cursor, batch, tasks, layer1, bridge, encoded, faults, history>>

LoopEnds == pc' = "over"

\* _main_chat_loop: after an exception, the loop starts again.
LoopRestarts == pc' = "look"

Raise ==
  /\ pc \in {"talk", "plan"} /\ Fault /\ LoopRestarts /\ batch' = {}
  /\ UNCHANGED <<clock, transit, database, registry, event, cursor, quiet, tasks, layer1, bridge, encoded, history>>

InClosed == {m \in Msgs : closed[m] # 0}

\* The process dies and is started again: of the messages of the summarizer, those
\* in the file are left.
Crash ==
  /\ Fault
  /\ transit' = {} /\ registry' = {} /\ pc' = "none" /\ event' = FALSE /\ batch' = {} /\ quiet' = 0
  /\ tasks' = {} /\ pending' = <<>> /\ tail' = <<>> /\ strays' = <<>> /\ closed' = [m \in Msgs |-> 0]
  /\ over' = (IF overlap THEN {} ELSE over \cup InClosed)
  /\ given' = over' \cup Range(bridge) /\ overlap' = (overlap /\ bridge # <<>>)
  /\ UNCHANGED <<clock, database, cursor, bridge, encoded, recalled, seen, late, missed, kept, unmarked>>
-----------------------------------------------------------------------------
Loop == Look \/ Buffer \/ Wake \/ Talk \/ Plan
Background == Archive \/ Judge \/ Ingest \/ Save
TurnsNext == Arrive \/ Store \/ Recall \/ Expire \/ Loop \/ Background \/ Raise \/ Crash

TurnsSpec == TurnsInit /\ [][TurnsNext]_turnVars

\* A message that arrived is processed, a wait ends, a language model answers or
\* runs into its time limit.
FairTurnsSpec == TurnsSpec /\ WF_turnVars(Store) /\ WF_turnVars(Loop) /\ WF_turnVars(Background)
-----------------------------------------------------------------------------
\* Types.
TurnsTypeOK ==
  /\ clock \in 0..Messages /\ {cursor} \subseteq 0..clock /\ quiet \in 0..Silent
  /\ UNION {transit, stored, registry, batch, recalled, seen, late, missed, given, over} \subseteq 1..clock
  /\ flagged \subseteq stored /\ archive \subseteq stored /\ kept \cup unmarked \subseteq stored
  /\ pc \in {"none", "look", "buffer", "wait", "talk", "plan"} /\ {event, overlap} \subseteq BOOLEAN
  /\ \A t \in tasks : /\ t.turn \subseteq stored /\ t.rest \subseteq t.turn
                      /\ t.step \in {"new", "judge", "ingest"} /\ t.list \in Seq(stored)
  /\ {pending, tail, strays, bridge} \subseteq Seq(stored)
  /\ closed \in [Msgs -> Nat] /\ encoded \in [Msgs -> Nat]
  /\ faults \in 0..MaxFaults

\* What its author took back is not in the archive, at whichever moment of its
\* way through the program the recall came, unless its deletion failed, or its
\* mark did and was needed after the registry had forgotten it
\* (bot.py, recall_registry.py, layer0_archive.py).
RecalledNotArchived == archive \cap recalled \subseteq kept \cup (unmarked \ registry)

\* The cursor passes no message that a turn was not decided on with, but for
\* recalled ones, those that were stored after it had passed, and those that the
\* chat found stored when it was made: whatever a process had stored and not read
\* when it died is never read (heartFC_chat.py).
NothingSkipped ==
  pc # "none" => \A m \in stored : m <= cursor => m \in seen \cup late \cup missed \cup flagged

Count(list, m) == Cardinality({i \in DOMAIN list : list[i] = m})
Judged == {t \in tasks : t.step = "judge"}
InLists(m) == Count(pending \o tail \o strays, m) + Cardinality({t \in Judged : Contains(t.list, m)})
InFile(m) == IF tail = <<>> THEN Count(bridge, m) ELSE 0
InTopics(m) == closed[m] + (IF m \in over THEN 1 ELSE 0)
Places(m) == InLists(m) + InFile(m) + InTopics(m)

\* While turns do not overtake the archiving of earlier ones, each message given
\* to the summarizer is in one place: waiting, judged, open, in a closed topic, or,
\* after a restart, in the file.  A restart loses what was waiting, judged or open
\* and not in the file; what is left is neither lost nor doubled by the hand-over,
\* and nothing of a closed topic comes back (layer1_summarizer.py).
SegmentedOnce ==
  ~overlap => \A m \in Msgs : Places(m) <= 1 /\ (m \in given => Places(m) = 1)

Alone == Cardinality(Unread) = 1 /\ quiet >= Hesitant

\* Each message is considered in the end, unless it is recalled, is alone after
\* turns without a reply, or the chat ended with the process.
Considered ==
  \A m \in Msgs : m \in Unread ~> m \notin Unread \/ Alone \/ pc = "none"

=============================================================================
