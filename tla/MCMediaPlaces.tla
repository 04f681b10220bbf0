---------------------------- MODULE MCMediaPlaces ----------------------------
(***************************************************************************)
(* Two instances of MediaLibrary in one run, about the items on stages.    *)
(* The variable part says which of them a behaviour is of: two stages and  *)
(* the order of their assignments, or users who go and what they leave.    *)
(* The constants of the module itself cover those of both, and every       *)
(* property is checked of either.                                          *)
(***************************************************************************)
EXTENDS MediaLibrary, TLC

CONSTANTS admin, owen, s1, s2, s3, m1, m2, ph

VARIABLE part

Order == INSTANCE MediaLibrary WITH
  Users <- {admin}, Stages <- {s1, s2},
  Kinds <- {"prop"}, KeptKinds <- {}, SoundKinds <- {}, MaxUsage <- 0

Going == INSTANCE MediaLibrary WITH
  Stages <- {s3}, Exits <- {}, MaxWanted <- 1, MaxLink <- 3

NoLists == {{}}

MCInit == \/ part = "order" /\ Order!Init
          \/ part = "going" /\ Going!Init

MCNext == /\ UNCHANGED part
          /\ \/ part = "order" /\ Order!Next
             \/ part = "going" /\ Going!Next

MCSpec == MCInit /\ [][MCNext]_<<vars, part>>

Symmetry == Permutations({m1, m2}) \cup Permutations({s1, s2})
===============================================================================
