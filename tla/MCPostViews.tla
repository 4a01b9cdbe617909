----------------------------- MODULE MCPostViews ----------------------------
(***************************************************************************)
(* An instance of PostViews for TLC: one block of a kind is a page of      *)
(* blocks, and the viewer blocks two.                                      *)
(***************************************************************************)
EXTENDS PostViews, TLC
=============================================================================
