----------------------------- MODULE MCLockSystem -----------------------------
(***************************************************************************)
(* Small instances of LockSystem: one room, which alice may enter by name  *)
(* and bob by his class, and the edits of its lists and files about it.    *)
(***************************************************************************)
EXTENDS LockSystem, TLC

CONSTANTS alice, bob, be340, cmpe121, c1, c2, h1

MCUpper == [n \in Names \cup Groups |-> n]

MCNoAliases == << >>

(* One connection is like another. *)
MCSymmetry == Permutations(Conns)

MCUploadedRooms == be340 :> [Users |-> <<alice>>, Group |-> <<cmpe121>>]

MCUploadedUsers == bob :> <<cmpe121>>

MCRoomFiles == {<<[room |-> be340, lists |-> [Users |-> <<alice>>, Group |-> << >>]]>>}

MCUserFiles == {<<[name |-> alice, classes |-> << >>], [name |-> bob, classes |-> <<cmpe121>>]>>}
=============================================================================
