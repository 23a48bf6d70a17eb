---------------------------- MODULE MCApiRequests ----------------------------
(***************************************************************************)
(* Two requests at a time, which are alike.                                *)
(***************************************************************************)
EXTENDS ApiRequests, TLC

Symmetry == Permutations(Request)
=============================================================================
