---------------------------- MODULE MCStageEvents ----------------------------
(* Small instances of StageEvents for TLC: two stages, two slugs. The slug under
   is like MY_stage, whose underscore matches the dash of my-stage, the slug dash, when
   letter case is ignored. *)
EXTENDS StageEvents, TLC

CONSTANTS s1, s2, under, dash, m1, m2, m3

MCSlugOf == m1 :> under @@ m2 :> dash @@ m3 :> under
TwoSlugOf == m1 :> under @@ m2 :> dash
MCLike == {<<under, under>>, <<dash, dash>>}
MCILike == MCLike \cup {<<under, dash>>}

StageSymmetry == Permutations({s1, s2})
===============================================================================
