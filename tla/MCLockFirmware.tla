---------------------------- MODULE MCLockFirmware ----------------------------
(***************************************************************************)
(* A small instance of LockFirmware: alice, whose cruzID is short,          *)
(* maximilian, whose cruzID has ten characters, and maximilianus, whose     *)
(* cruzID begins with these ten.                                           *)
(***************************************************************************)
EXTENDS LockFirmware

CONSTANTS alice, maximilian, maximilianus

MCFirstTen == [id \in LongNames |-> "maximilian"]
=============================================================================
