----------------------------- MODULE MCAccounts -----------------------------
(***************************************************************************)
(* An instance of Accounts for TLC: two requests of one user, of which both*)
(* may delete the account, one make something and the other log in again   *)
(* or change the profile, and a login of another user with the same device.*)
(***************************************************************************)
EXTENDS Accounts, TLC

CONSTANTS r1, r2, r3, alice, bob, phone

MCOwner == r1 :> alice @@ r2 :> alice @@ r3 :> bob
MCCalls == r1 :> {"make", "delete"} @@ r2 :> {"login", "change", "delete"}
           @@ r3 :> {"login"}
=============================================================================
