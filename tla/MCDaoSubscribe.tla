-------------------------- MODULE MCDaoSubscribe --------------------------
(***************************************************************************)
(* Instances of DaoSubscribe for TLC.  Requests are interchangeable, and so*)
(* are Handlers.                                                           *)
(***************************************************************************)
EXTENDS DaoSubscribe, TLC

Symmetry == Permutations(Requests) \cup Permutations(Handlers)
=============================================================================
