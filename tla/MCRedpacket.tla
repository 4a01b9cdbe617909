---------------------------- MODULE MCRedpacket -----------------------------
(***************************************************************************)
(* Redpacket on small instances: two requests in flight, of one user or of *)
(* two.                                                                    *)
(***************************************************************************)
EXTENDS Redpacket, TLC

CONSTANTS s1, s2, u1, u2

OneUser == (s1 :> u1 @@ s2 :> u1)
TwoUsers == (s1 :> u1 @@ s2 :> u2)

\* Deliveries are alike.
Symmetry == Permutations(Handlers)
=============================================================================
