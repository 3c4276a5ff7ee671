----------------------------- MODULE CapacityReset -----------------------------
(***************************************************************************)
(* The cron job Server/clear_room_capacity.py: it queries all rooms once,  *)
(* then sets to zero, room by room and with a get and a put for each, the  *)
(* Capacity of those whose last login it takes to be old enough.           *)
(***************************************************************************)
EXTENDS Datastore, Integers

CONSTANT MaxResets   (* BOUND: times the job is started in a behaviour *)

ASSUME ResetAssumption == MaxResets \in Nat

VARIABLES
  cron,           (* the job: see CronIdle                                  *)
  resets          (* times it has been started                              *)

resetVars == <<rooms, users, log, now, cron, resets>>

-----------------------------------------------------------------------------
(* current: the minute current_time was taken at; asked, todo: whether the  *)
(* query was made, and what it returned of the rooms not yet looked at;     *)
(* room, entity: the get of reset_room_capacity, before its put.            *)
CronIdle ==
  [current |-> None, asked |-> FALSE, todo |-> {}, room |-> None, entity |-> None]

Distance(a, b) == IF a > b THEN a - b ELSE b - a

(* Minutes of the hour are compared: the second test is meant for a login   *)
(* shortly before the full hour.                                            *)
Due(current, login) ==
  \/ current > login + 5
  \/ 60 - Distance(current, login) > 5

Overdue(entry) == entry[2] # None /\ Due(cron.current, entry[2])

(* The job ends when nothing is left to do. *)
Rest(c) == IF c.todo = {} /\ c.room = None THEN CronIdle ELSE c

StartReset ==
  /\ cron = CronIdle
  /\ resets < MaxResets
  /\ resets' = resets + 1
  /\ cron' = [CronIdle EXCEPT !.current = now]
  /\ UNCHANGED storeVars

QueryRooms ==
  /\ cron.current # None
  /\ ~cron.asked
  /\ cron' = Rest([cron EXCEPT
                     !.asked = TRUE,
                     !.todo = {<<r, rooms[r].Last_Login_time>> : r \in DOMAIN rooms}])
  /\ UNCHANGED <<rooms, users, log, now, resets>>

SkipRoom(entry) ==
  /\ cron.room = None
  /\ ~Overdue(entry)
  /\ cron' = Rest([cron EXCEPT !.todo = @ \ {entry}])
  /\ UNCHANGED <<rooms, users, log, now, resets>>

GetRoom(entry) ==
  /\ cron.room = None
  /\ Overdue(entry)
  /\ entry[1] \in DOMAIN rooms
  /\ cron' = [cron EXCEPT !.todo = @ \ {entry}, !.room = entry[1],
                          !.entity = rooms[entry[1]]]
  /\ UNCHANGED <<rooms, users, log, now, resets>>

(* The room was deleted since the query: the job ends, the rest undone.     *)
GetRoomRaises(entry) ==
  /\ cron.room = None
  /\ Overdue(entry)
  /\ entry[1] \notin DOMAIN rooms
  /\ cron' = CronIdle
  /\ UNCHANGED <<rooms, users, log, now, resets>>

(* Mutant: the entity is made anew, without its lists.                      *)
PutResetFresh ==
  /\ cron.room # None
  /\ rooms' = Put(rooms, cron.room, NewRoom([Users |-> << >>, Group |-> << >>]))
  /\ cron' = Rest([cron EXCEPT !.room = None, !.entity = None])
  /\ UNCHANGED <<users, log, now, resets>>

PutReset ==
  /\ cron.room # None
  /\ rooms' = Put(rooms, cron.room,
                  [cron.entity EXCEPT !.Capacity = 0, !.Last_Login_time = None])
  /\ cron' = Rest([cron EXCEPT !.room = None, !.entity = None])
  /\ UNCHANGED <<users, log, now, resets>>

-----------------------------------------------------------------------------
ResetInit == cron = CronIdle /\ resets = 0

ResetStep ==
  \/ StartReset \/ QueryRooms \/ PutReset
  \/ \E entry \in cron.todo : SkipRoom(entry) \/ GetRoom(entry) \/ GetRoomRaises(entry)

(* The cron job works through entities that are rooms, holding one at most. *)
ResetTypeOK ==
  /\ resets \in 0..MaxResets
  /\ cron.current \in Minutes \cup {None}
  /\ cron.todo # {} => cron.asked
  /\ \A entry \in cron.todo : entry \in Rooms \X (Minutes \cup {None})
  /\ cron.room # None => cron.room \in Rooms /\ cron.entity \in RoomEntity
=============================================================================
