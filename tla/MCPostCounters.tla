--------------------------- MODULE MCPostCounters ---------------------------
(***************************************************************************)
(* Instances of PostCounters for TLC: two requests of one user, which are  *)
(* interchangeable, and one of another.                                    *)
(***************************************************************************)
EXTENDS PostCounters, TLC

CONSTANTS r1, r2, r3, alice, bob

MCOwner == r1 :> alice @@ r2 :> alice @@ r3 :> bob

Symmetry == Permutations({r1, r2})
=============================================================================
