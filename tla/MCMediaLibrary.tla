---------------------------- MODULE MCMediaLibrary ----------------------------
(***************************************************************************)
(* A small instance of MediaLibrary without stages: permissions and the    *)
(* bell.  Items on stages are in MCMediaPlaces.                            *)
(***************************************************************************)
EXTENDS MediaLibrary, TLC

CONSTANTS admin, owen, paula, m1, ph

AllLists == SUBSET Users

UserSymmetry == Permutations({owen, paula})
===============================================================================
