----------------------------- MODULE MCMessages -----------------------------
(* Two calls, a DAO and an account that send two messages, in two seconds. *)
EXTENDS Messages, TLC

CONSTANTS dao, user

MCKind == (dao :> "dao") @@ (user :> "user")

Symmetry == Permutations(Requests)
=============================================================================
