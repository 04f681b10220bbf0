------------------------------- MODULE EventLog -------------------------------
(***************************************************************************)
(* What the event_archive service promises its readers, without its        *)
(* subscriber, queue, writers or shutdown: every message the broker        *)
(* publishes has one fate, the fate is decided once, and only a message    *)
(* that is worth storing is ever stored.                                   *)
(***************************************************************************)

CONSTANTS Messages,     \* the messages the broker may publish
          Storable      \* those that are live, not statistics, and valid JSON

VARIABLE fate           \* fate[m]: what has become of message m

Fates == {"unsent", "pending", "stored", "lost"}

Init == fate = [m \in Messages |-> "unsent"]

\* The broker publishes m: the archive takes it in hand, or never hears of it.
Publish(m) == /\ fate[m] = "unsent"
              /\ \E f \in {"pending", "lost"} : fate' = [fate EXCEPT ![m] = f]

\* A message in hand becomes one row of the events table.
Store(m) == /\ fate[m] = "pending"
            /\ m \in Storable
            /\ fate' = [fate EXCEPT ![m] = "stored"]

\* Messages in hand are given up: one that is skipped or fails, or all that a
\* disconnection, a shutdown or a crash takes with it.
Lose == \E S \in SUBSET {m \in Messages : fate[m] = "pending"} :
           fate' = [m \in Messages |-> IF m \in S THEN "lost" ELSE fate[m]]

Next == Lose \/ \E m \in Messages : Publish(m) \/ Store(m)

Spec == Init /\ [][Next]_fate
===============================================================================
