----------------------------- MODULE MCPostFeed -----------------------------
(***************************************************************************)
(* Instances of PostFeed for TLC.                                          *)
(***************************************************************************)
EXTENDS PostFeed, TLC

Symmetry == Permutations(Requests) \cup Permutations(Workers)
=============================================================================
