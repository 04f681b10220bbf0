------------------------------ MODULE Statistics ------------------------------
(***************************************************************************)
(* The worker that keeps the players and audiences of every stage in the   *)
(* table stage_statistics, from statistics that the broker retains.  It    *)
(* takes messages one at a time on the thread of its client; what the      *)
(* counts are is abstracted to how often they have changed.                *)
(***************************************************************************)
EXTENDS Integers, Sequences, SequencesExt

CONSTANTS
  Slugs,                     \* file locations of stages
  MaxPublished, MaxFaults    \* bounds: changes of a stage's counts, faults

VARIABLES
  retained,   \* retained[s]: the statistics of s at the broker, 0 before any
  wire,       \* what the broker has sent on the worker's connection
  connected,  \* whether there is one
  row,        \* row[s]: the row of s, 0 without one
  unsaved,    \* the stages whose last message failed to be saved
  faults      \* how many faults there were

vars == <<retained, wire, connected, row, unsaved, faults>>

Init == /\ retained = [s \in Slugs |-> 0] /\ row = [s \in Slugs |-> 0]
        /\ wire = <<>> /\ connected = FALSE
        /\ unsaved = {} /\ faults = 0

Message(s, n) == [slug |-> s, count |-> n]

\* A player's browser publishes the counts; the broker sends them on, and keeps them.
Publish(s) ==
  /\ retained[s] < MaxPublished
  /\ retained' = [retained EXCEPT ![s] = @ + 1]
  /\ wire' = IF connected THEN Append(wire, Message(s, retained'[s])) ELSE wire
  /\ UNCHANGED <<connected, row, unsaved, faults>>

\* Mutant: a reconnection forgets the statistics topic.
SubscribedOnce == {<<>>}

\* What on_connect's subscription brings at once, in any order.
Subscribed == SetToSeqs({Message(s, retained[s]) : s \in {t \in Slugs : retained[t] > 0}})

Connect == /\ ~connected
           /\ connected' = TRUE
           /\ wire' \in Subscribed
           /\ UNCHANGED <<retained, row, unsaved, faults>>

\* The connection breaks, or the worker dies: its session at the broker is gone.
Disconnect == /\ connected /\ faults < MaxFaults
              /\ connected' = FALSE /\ wire' = <<>>
              /\ faults' = faults + 1
              /\ UNCHANGED <<retained, row, unsaved>>

\* Mutant: retained messages are passed over, as on_message does with others.
SavedUnlessFirst(m) == IF row[m.slug] = 0 THEN 0 ELSE m.count

\* record_stage_statistics writes the row, or adds it.
SavedCount(m) == m.count

Record ==
  /\ wire # <<>>
  /\ LET m == Head(wire)
     IN /\ row' = [row EXCEPT ![m.slug] = SavedCount(m)]
        /\ unsaved' = unsaved \ {m.slug}
  /\ wire' = Tail(wire)
  /\ UNCHANGED <<retained, connected, faults>>

\* The database refuses: the error is logged, and the message is over.
RecordFails ==
  /\ wire # <<>> /\ faults < MaxFaults
  /\ unsaved' = unsaved \cup {Head(wire).slug}
  /\ wire' = Tail(wire)
  /\ faults' = faults + 1
  /\ UNCHANGED <<retained, connected, row>>

Next == \/ \E s \in Slugs : Publish(s)
        \/ Connect \/ Disconnect \/ Record \/ RecordFails
-------------------------------------------------------------------------------
\* When the counts come to rest so do the rows, and say the same, whatever was published
\* while the worker was away: only a stage whose last message could not be saved
\* keeps an old row.
RowsFollow == <>[](\A s \in Slugs : row[s] = retained[s] \/ s \in unsaved)
===============================================================================
