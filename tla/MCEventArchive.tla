---------------------------- MODULE MCEventArchive ----------------------------
(* Small instances of EventArchive for TLC. *)
EXTENDS EventArchive, TLC

CONSTANTS m1, m2, m3, m4, w1, w2

\* The writers are interchangeable, and so are the messages of one kind.
WriterSymmetry == Permutations(Writers)
Symmetry == WriterSymmetry \cup Permutations({m1, m2})
===============================================================================
