----------------------------- MODULE MCMediaFiles -----------------------------
(***************************************************************************)
(* An instance of MediaFiles: two items, a request that awaits, a stream   *)
(* key; every other request is one step.                                   *)
(***************************************************************************)
EXTENDS MediaFiles, TLC

CONSTANTS m1, m2, f1, f2, key, r1

Symmetry == Permutations({m1, m2})
===============================================================================
