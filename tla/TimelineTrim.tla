----------------------------- MODULE TimelineTrim -----------------------------
(***************************************************************************)
(* compress_sorted_times_ms, the loop that gives a duplicated performance  *)
(* its timeline: idle gaps longer than minPause shrink to minPause, and    *)
(* all that follows moves earlier by what was removed so far.              *)
(***************************************************************************)
EXTENDS Integers, Sequences

CONSTANTS Timelines,   \* the sorted event times (ms) it may be given
          Pauses       \* the values of min_pause_ms

ASSUME TimelineAssumption ==
  /\ \A t \in Timelines : /\ t \in Seq(Nat)
                          /\ \A k \in 2..Len(t) : t[k - 1] <= t[k]
  /\ Pauses \subseteq Nat

VARIABLES times, minPause,   \* the arguments
          out,               \* the new times so far
          removal            \* how much earlier they are by now

vars == <<times, minPause, out, removal>>

Init == /\ times \in Timelines
        /\ minPause \in Pauses
        /\ out = IF times = <<>> THEN <<>> ELSE <<times[1]>>
        /\ removal = 0

Gap(t, k) == t[k] - t[k - 1]

\* Mutant: a long gap is removed as a whole.
ExcessAll(k) == IF Gap(times, k) > minPause THEN Gap(times, k) ELSE 0

\* Mutant: the gap is measured from the time already moved.
ExcessMoved(k) == IF times[k] - out[k - 1] > minPause THEN times[k] - out[k - 1] - minPause ELSE 0

\* What the gap before event k has too much.
Excess(k) == IF Gap(times, k) > minPause THEN Gap(times, k) - minPause ELSE 0

\* One turn of the loop, for event Len(out) + 1.
Next == LET k == Len(out) + 1
        IN /\ k <= Len(times)
           /\ removal' = removal + Excess(k)
           /\ out' = Append(out, times[k] - removal')
           /\ UNCHANGED <<times, minPause>>

Spec == Init /\ [][Next]_vars
-------------------------------------------------------------------------------
\* The arguments stay what they were, and no event is dropped.
TypeOK ==
  /\ times \in Timelines /\ minPause \in Pauses
  /\ removal \in Nat
  /\ out \in Seq(Nat) /\ Len(out) <= Len(times)

\* Every pause of the duplicate is the original's or minPause, the shorter of the
\* two: short gaps survive to the millisecond however much was cut before them.
PausesCapped ==
  \A k \in 2..Len(out) :
     Gap(out, k) = IF Gap(times, k) <= minPause THEN Gap(times, k) ELSE minPause

\* The duplicate replays the events in the original order, from the same start and
\* never later than the original.
OrderKept ==
  \A k \in DOMAIN out : /\ out[1] <= out[k] /\ out[k] <= times[k]
                        /\ out[1] = times[1]
                        /\ k > 1 => out[k - 1] <= out[k]

\* What of the original's times a duplicate with trimmed pauses keeps.
TimesHold == PausesCapped /\ OrderKept
===============================================================================
