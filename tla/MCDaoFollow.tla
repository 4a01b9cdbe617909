---------------------------- MODULE MCDaoFollow ----------------------------
(***************************************************************************)
(* An instance of DaoFollow for TLC: two requests of the user who founds   *)
(* the first DAO, which are interchangeable, and one of another.           *)
(***************************************************************************)
EXTENDS DaoFollow, TLC

CONSTANTS r1, r2, r3, alice, bob, d1, d2

MCOwner == r1 :> alice @@ r2 :> alice @@ r3 :> bob
MCFounder == d1 :> alice @@ d2 :> bob

Symmetry == Permutations({r1, r2})
=============================================================================
