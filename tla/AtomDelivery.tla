---------------------------- MODULE AtomDelivery ----------------------------
(***************************************************************************)
(* What the encoding pipeline promises about the messages it is given:     *)
(* each waits until it is answered for, is made into one atom at most, and *)
(* an atom that was accepted is kept until it has a row.  It may be lost   *)
(* only with the process, and not even then once it is recorded in the     *)
(* outbox or in the operation log.  EncodingOutbox is the pipeline that    *)
(* the code implements.                                                    *)
(***************************************************************************)
EXTENDS Integers, FiniteSets

CONSTANT MaxBatch    \* messages that one answer may speak of

VARIABLES
  received,    \* number of messages so far; a message is its number
  waiting,     \* messages that are not answered for
  candidates,  \* atoms that are not checked
  kept,        \* accepted atoms that the process remembers
  recorded,    \* those that a restart finds in the outbox
  logged,      \* those whose row a restart restores from the operation log
  written      \* atoms with a row

vars == <<received, waiting, candidates, kept, recorded, logged, written>>

Init ==
  /\ received = 0
  /\ waiting = {} /\ candidates = {} /\ kept = {} /\ recorded = {} /\ logged = {} /\ written = {}

\* A message is received, at most at the cost of one that waits.
Receive ==
  /\ received' = received + 1
  /\ \E dropped \in SUBSET waiting :
       Cardinality(dropped) <= 1 /\ waiting' = (waiting \ dropped) \cup {received'}
  /\ UNCHANGED <<candidates, kept, recorded, logged, written>>

\* Some messages cease to wait, and some of them become candidates; or all the
\* candidates are lost that nobody has looked at.
Answer ==
  /\ \E batch \in SUBSET waiting :
       /\ Cardinality(batch) <= MaxBatch /\ waiting' = waiting \ batch
       /\ \/ \E atoms \in SUBSET batch : candidates' = candidates \cup atoms
          \/ candidates' = {}
  /\ UNCHANGED <<received, kept, recorded, logged, written>>

Judge(a) ==
  /\ a \in candidates /\ candidates' = candidates \ {a}
  /\ kept' \in {kept, kept \cup {a}}
  /\ UNCHANGED <<received, waiting, recorded, logged, written>>

Record(a) ==
  /\ a \in kept /\ recorded' = recorded \cup {a}
  /\ UNCHANGED <<received, waiting, candidates, kept, logged, written>>

\* An attempt to write, which may fail before or after the row is there.
Write(a) ==
  /\ a \in kept
  /\ written' \in {written, written \cup {a}} /\ logged' \in {logged, logged \cup {a}}
  /\ UNCHANGED <<received, waiting, candidates, kept, recorded>>

\* Only what is written is let go, and then from both places.
Release(a) ==
  /\ a \in kept \cap written
  /\ kept' = kept \ {a} /\ recorded' = recorded \ {a}
  /\ UNCHANGED <<received, waiting, candidates, logged, written>>

\* What is recorded is remembered again.
Recover ==
  /\ \E atoms \in SUBSET recorded : kept' = kept \cup atoms
  /\ UNCHANGED <<received, waiting, candidates, recorded, logged, written>>

\* The process dies, perhaps during an attempt to write.
Die ==
  /\ waiting' = {} /\ candidates' = {} /\ kept' = {}
  /\ \E trace \in SUBSET kept : Cardinality(trace) <= 1 /\ logged' = logged \cup trace
  /\ UNCHANGED <<received, recorded, written>>

\* A start writes what is logged.
Replay ==
  /\ \E atoms \in SUBSET logged : written' = written \cup atoms /\ logged' = logged \ atoms
  /\ UNCHANGED <<received, waiting, candidates, kept, recorded>>

Next ==
  \/ Receive \/ Answer \/ Recover \/ Die \/ Replay
  \/ \E a \in candidates : Judge(a)
  \/ \E a \in kept : Record(a) \/ Write(a) \/ Release(a)

Spec == Init /\ [][Next]_vars

Accepted == kept \cup recorded \cup logged \cup written

\* A message waits, or is a candidate, or is an atom: none is made into an atom
\* a second time, and none that was given up comes back.
Once ==
  /\ waiting \cup candidates \cup Accepted \subseteq 1..received
  /\ waiting \cap candidates = {} /\ (waiting \cup candidates) \cap Accepted = {}
=============================================================================
