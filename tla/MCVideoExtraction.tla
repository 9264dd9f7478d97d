-------------------------- MODULE MCVideoExtraction -------------------------
(***************************************************************************)
(* A small instance of VideoExtraction: the constants are in the .cfg      *)
(* files.  Supervisor slots, authors and request ids are interchangeable,  *)
(* which the safety runs use.                                              *)
(***************************************************************************)
EXTENDS VideoExtraction, TLC

Symmetry == Permutations(Procs) \cup Permutations(RequestIDs) \cup Permutations(Owners)
=============================================================================
