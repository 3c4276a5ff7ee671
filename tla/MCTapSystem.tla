------------------------------ MODULE MCTapSystem ------------------------------
(***************************************************************************)
(* A small instance of TapSystem.  be340 has an empty users column and is   *)
(* for the class alice is in; be301 has not been uploaded.  What is sent    *)
(* for noise has no end; it may be no UTF-8, or hold a '-'.  A phone        *)
(* without an account sends Blank.  Both locks use the same connections.    *)
(***************************************************************************)
EXTENDS TapSystem, TLC

CONSTANTS alice, noise, be340, be301, cmpe121, c1, c2

MCUpper == [n \in Names \cup Groups |-> n]

MCUploadedRooms == be340 :> [Users |-> << >>, Group |-> <<cmpe121>>]

MCUploadedUsers == alice :> <<cmpe121>>

MCNoAliases == << >>
=============================================================================
