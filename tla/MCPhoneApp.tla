------------------------------ MODULE MCPhoneApp ------------------------------
(***************************************************************************)
(* A small instance of PhoneApp: one phone that two people log in on.      *)
(***************************************************************************)
EXTENDS PhoneApp, TLC

CONSTANTS alice, bob, a1, a2, a3, a4
=============================================================================
