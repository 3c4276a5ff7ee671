------------------------------- MODULE Occupancy -------------------------------
(***************************************************************************)
(* What the lock management system promises about a room: somebody is      *)
(* inside from one accepted tap to the next, and after every tap the       *)
(* published population is brought up to date before the next tap counts.  *)
(***************************************************************************)
EXTENDS Naturals, FiniteSets

CONSTANTS Rooms, Users

VARIABLES
  inside,       (* who is in which room                                     *)
  population,   (* the number of people published for each room             *)
  settling      (* the rooms whose population is about to be published      *)

occupancyVars == <<inside, population, settling>>

In(r) == {u \in Users : <<r, u>> \in inside}

OccupancyInit ==
  /\ inside = {}
  /\ population = [r \in Rooms |-> 0]
  /\ settling = {}

Change(r) ==
  /\ r \notin settling
  /\ settling' = settling \cup {r}
  /\ UNCHANGED population

Enter(r, u) ==
  /\ <<r, u>> \notin inside
  /\ inside' = inside \cup {<<r, u>>}
  /\ Change(r)

Leave(r, u) ==
  /\ <<r, u>> \in inside
  /\ inside' = inside \ {<<r, u>>}
  /\ Change(r)

Publish(r) ==
  /\ r \in settling
  /\ settling' = settling \ {r}
  /\ population' = [population EXCEPT ![r] = Cardinality(In(r))]
  /\ UNCHANGED inside

OccupancyNext ==
  \E r \in Rooms : Publish(r) \/ \E u \in Users : Enter(r, u) \/ Leave(r, u)

(* What may happen ... *)
OccupancySafety == OccupancyInit /\ [][OccupancyNext]_occupancyVars

(* ... and a change is published eventually; nobody has to come or go.     *)
OccupancySpec ==
  /\ OccupancySafety
  /\ \A r \in Rooms : WF_occupancyVars(Publish(r))
=============================================================================
