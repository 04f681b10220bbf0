----------------------------- MODULE VideoPosters -----------------------------
(***************************************************************************)
(* The first frames of videos, extracted by an upload's thread or by the   *)
(* backfill, which may run at the same time.  ffmpeg truncates and then    *)
(* writes the poster; a later writer's file is whole when it ends.         *)
(***************************************************************************)
EXTENDS Naturals

CONSTANTS
  Videos, Extractors,   \* the videos on disk, and who extracts
  Nobody, MaxLost       \* a poster that is not there; bound: extractions that fail

VARIABLES
  poster,   \* poster[v]: who wrote it last, and whether to the end
  doing,    \* what each extractor has looked at or writes
  lost      \* how many extractions failed

vars == <<poster, doing, lost>>

NoPoster == [by |-> Nobody, whole |-> FALSE]
Free == [pc |-> "free", video |-> Nobody]

Init == /\ poster = [v \in Videos |-> NoPoster]
        /\ doing = [x \in Extractors |-> Free]
        /\ lost = 0

\* Mutant: nobody looks whether there is a poster.
PosterNever(v) == FALSE

\* The poster is there, whole or not: extract_first_frame and the backfill pass it by.
HasPoster(v) == poster[v] # NoPoster

Look(x, v) ==
  /\ doing[x] = Free /\ ~HasPoster(v)
  /\ doing' = [doing EXCEPT ![x] = [pc |-> "looked", video |-> v]]
  /\ UNCHANGED <<poster, lost>>

Open(x) ==
  /\ doing[x].pc = "looked"
  /\ poster' = [poster EXCEPT ![doing[x].video] = [by |-> x, whole |-> FALSE]]
  /\ doing' = [doing EXCEPT ![x].pc = "writes"]
  /\ UNCHANGED lost

Finish(x) ==
  /\ doing[x].pc = "writes"
  /\ poster' = [v \in Videos |-> IF v = doing[x].video /\ poster[v].by = x
                                 THEN [by |-> x, whole |-> TRUE] ELSE poster[v]]
  /\ doing' = [doing EXCEPT ![x] = Free]
  /\ UNCHANGED lost

\* After thirty seconds the poster is removed, whoever wrote it.
TimedOut(x) ==
  /\ doing[x].pc = "writes" /\ lost < MaxLost
  /\ poster' = [poster EXCEPT ![doing[x].video] = NoPoster]
  /\ doing' = [doing EXCEPT ![x] = Free]
  /\ lost' = lost + 1

\* ffmpeg fails, or the process is killed: what there is stays.
Breaks(x) ==
  /\ doing[x].pc \in {"looked", "writes"}
  /\ doing' = [doing EXCEPT ![x] = Free]
  /\ UNCHANGED <<poster, lost>>

Next == \E x \in Extractors :
  Open(x) \/ Finish(x) \/ TimedOut(x) \/ Breaks(x) \/ \E v \in Videos : Look(x, v)
-------------------------------------------------------------------------------
\* A whole poster is never written again, so that no run can break it, but by one that
\* looked before another extractor had made it.
WholePostersStay ==
  [][\A v \in Videos : poster[v].whole /\ ~poster'[v].whole =>
       \E x \in Extractors : doing[x].video = v /\ doing[x] # doing'[x] /\ poster[v].by # x]_vars
===============================================================================
