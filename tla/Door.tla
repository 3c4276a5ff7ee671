--------------------------------- MODULE Door ---------------------------------
(***************************************************************************)
(* What a lock promises, whatever it is built of: it puts one question at   *)
(* a time to the server, turns the bolt only after the answer "allowed" to  *)
(* that very question, and turns it back before it is ready for the next    *)
(* question.  Two things can go wrong: the lock stops waiting for an        *)
(* answer, and its power fails, which leaves the bolt where it is.          *)
(***************************************************************************)
CONSTANTS
  Locks,      (* the locks                                                  *)
  IDs,        (* the texts a lock may ask about                             *)
  NoID        (* no text: what a lock asks about when it asks nothing       *)

VARIABLE door

DoorState ==
  [ask : IDs \cup {NoID}, bolt : {"locked", "unlocked"},
   heard : {"nothing", "allowed", "denied", "failed", "served"}]

DoorInit ==
  door = [l \in Locks |-> [ask |-> NoID, bolt |-> "locked", heard |-> "nothing"]]

Ask(l, id) ==
  /\ door[l].ask = NoID
  /\ door' = [door EXCEPT ![l].ask = id]

Hear(l, answer) ==
  /\ door[l].ask # NoID
  /\ door[l].heard = "nothing"
  /\ door' = [door EXCEPT ![l].heard = answer]

Unlock(l) ==
  /\ door[l].heard = "allowed"
  /\ door' = [door EXCEPT ![l].bolt = "unlocked"]

Relock(l) ==
  /\ door[l].heard = "allowed"
  /\ door[l].bolt = "unlocked"
  /\ door' = [door EXCEPT ![l].bolt = "locked", ![l].heard = "served"]

Finish(l) ==
  /\ door[l].heard \in {"denied", "failed", "served"}
  /\ door' = [door EXCEPT ![l].ask = NoID, ![l].heard = "nothing"]

(* The bolt may be anywhere when the power fails while it is being turned.  *)
Outage(l) ==
  \E b \in {"locked", "unlocked"} :
    /\ b = door[l].bolt \/ door[l].heard = "allowed"
    /\ door' = [door EXCEPT ![l] = [ask |-> NoID, bolt |-> b, heard |-> "nothing"]]

Serve(l) == Unlock(l) \/ Relock(l) \/ Finish(l)

DoorStep(l) ==
  \/ \E id \in IDs : Ask(l, id)
  \/ \E answer \in {"allowed", "denied", "failed"} : Hear(l, answer)
  \/ Serve(l)
  \/ Outage(l)

DoorSafety == DoorInit /\ [][\E l \in Locks : DoorStep(l)]_door

(* A lock that has heard an answer acts on it; nobody has to ask, and       *)
(* nobody to answer.                                                       *)
DoorSpec ==
  /\ DoorSafety
  /\ \A l \in Locks : WF_door(Serve(l))
=============================================================================
