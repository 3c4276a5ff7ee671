----------------------------- MODULE MCLockServer -----------------------------
(***************************************************************************)
(* Small instances of LockServer.  alice is on lists, but not registered    *)
(* herself; bob, and bob1, are registered and share a class with be340;    *)
(* carol is registered without a class; and a phone without an account      *)
(* sends Blank.  In some instances columns are uploaded empty, and locks    *)
(* hang at be400, which is not uploaded, and at e2599, spelt E2-599.         *)
(***************************************************************************)
EXTENDS LockServer, TLC

CONSTANTS
  alice, bob, bob1, carol, be340, be301, be400, e2599, cmpe121, c1, c2

MCUpper == [n \in Names \cup Groups |-> n]

MCOneRoom == be340 :> [Users |-> <<alice>>, Group |-> <<cmpe121>>]

MCTwoRooms == MCOneRoom @@ be301 :> [Users |-> <<alice>>, Group |-> << >>]

MCBobsRooms == [r \in {be340, be301} |-> [Users |-> <<bob>>, Group |-> <<cmpe121>>]]

MCClassRoom == be340 :> [Users |-> << >>, Group |-> <<cmpe121>>]

MCBlankColumns == MCClassRoom @@ be301 :> [Users |-> <<bob>>, Group |-> << >>]

MCUploadedUsers ==
  [u \in Users \ {alice, Blank} |-> IF u \in {bob, bob1} THEN <<cmpe121>> ELSE << >>]

(* The cruzIDs are such that no two visits have the same ID; or one is the  *)
(* other with a 1 appended.                                                *)
MCNoAliases == << >>

MCAliases == [p \in {bob} \X (10..19) |-> <<bob1, p[2] - 10>>]
=============================================================================
