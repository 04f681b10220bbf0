---------------------------- MODULE MCStageAccess ----------------------------
(***************************************************************************)
(* An instance of StageAccess and one of Scenes, which share no state      *)
(* here: a behaviour shows one of the two, and the other rests.            *)
(***************************************************************************)
EXTENDS StageAccess, TLC

CONSTANTS root, ann, bob, s1, s2, b1, b2, dan, solo,
          Owners, Directors, Boards, Titles, Untitled, MaxScene

VARIABLES part, accounts, boards, scenes, top

C == INSTANCE Scenes

MCLists == {<<{ann}, {bob}>>, <<{bob}, {ann}>>, <<{ann, bob}, {ann, bob}>>}

MCInit == part \in {"access", "scenes"} /\ Init /\ C!Init

MCNext == /\ \/ part = "access" /\ Next /\ UNCHANGED <<accounts, boards, scenes, top>>
             \/ part = "scenes" /\ C!Next /\ UNCHANGED vars
          /\ UNCHANGED part

MCSpec == MCInit /\ [][MCNext]_<<part, vars, C!vars>>

\* The property of Scenes, stated there.
ScenesKept == C!ScenesKept

Symmetry == Permutations({ann, bob}) \cup Permutations(Stages) \cup Permutations(Boards)
===============================================================================
