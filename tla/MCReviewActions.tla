--------------------------- MODULE MCReviewActions --------------------------
(***************************************************************************)
(* A small instance of ReviewActions: the constants are in the .cfg files. *)
(***************************************************************************)
EXTENDS ReviewActions, TLC

Symmetry == Permutations(Pages) \cup Permutations(Requests) \cup Permutations(Workers)
=============================================================================
