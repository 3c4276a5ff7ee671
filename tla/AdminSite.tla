------------------------------- MODULE AdminSite -------------------------------
(***************************************************************************)
(* The requests to the administrative website that change the Datastore:   *)
(* Website/Administration/__init__.py and dstore.py.  Adding or removing a *)
(* name from a list of a room is a get of the room's entity and, one round *)
(* trip later, a put of the whole entity with the new list.  Requests run  *)
(* in the worker processes of several instances, so two of them overlap.   *)
(*                                                                         *)
(* A request about a room that is not there raises at room['Users'] and    *)
(* changes nothing; it is not an action.                                   *)
(***************************************************************************)
EXTENDS Datastore, SequencesExt

CONSTANTS
  Handlers,       (* requests being served at the same time                 *)
  RoomFiles,      (* rooms.csv files: their rows, one for each room         *)
  UserFiles,      (* users.csv files: their rows                            *)
  MaxEdits        (* BOUND: requests served in a behaviour                  *)

RoomRow == [room : Rooms, lists : [Users : Seq(Names), Group : Seq(Groups)]]

UserRow == [name : Names, classes : Seq(Groups)]

ASSUME FileAssumption ==
  /\ RoomFiles \subseteq Seq(RoomRow)
  /\ \A file \in RoomFiles : \A i, k \in DOMAIN file : file[i].room = file[k].room => i = k
  /\ UserFiles \subseteq Seq(UserRow)
  /\ MaxEdits \in Nat

VARIABLES
  web,            (* what each handler is in the middle of                  *)
  edits           (* requests served so far                                 *)

siteVars == <<rooms, users, log, now, web, edits>>

-----------------------------------------------------------------------------
ListEdits == {"addUser", "addGroup", "removeUser", "removeGroup"}

(* op: the request; room, what: its arguments; entity: the room that was    *)
(* read; rows: the rows of an uploaded file still to be stored.             *)
Idle == [op |-> "idle", room |-> None, what |-> None, entity |-> None, rows |-> << >>]

(* update_room_users, update_room_group, remove_user, remove_group: append  *)
(* at the end, remove the first occurrence if there is one.  Only what is   *)
(* added is brought to upper case.                                          *)
Edited(op, entity, what) ==
  CASE op = "addUser"     -> [entity EXCEPT !.Users = Append(@, Upper[what])]
    [] op = "addGroup"    -> [entity EXCEPT !.Group = Append(@, Upper[what])]
    [] op = "removeUser"  -> [entity EXCEPT !.Users = RemoveFirst(@, what)]
    [] op = "removeGroup" -> [entity EXCEPT !.Group = RemoveFirst(@, what)]

Serves(h, op) ==
  /\ web[h].op = "idle"
  /\ edits < MaxEdits
  /\ edits' = edits + 1

BeginEdit(h, op, r, what) ==
  /\ what \in IF op \in {"addUser", "removeUser"} THEN Names ELSE Groups
  /\ r \in DOMAIN rooms
  /\ Serves(h, op)
  /\ web' = [web EXCEPT ![h] = [Idle EXCEPT !.op = op, !.room = r, !.what = what,
                                            !.entity = rooms[r]]]
  /\ UNCHANGED storeVars

FinishEdit(h) ==
  /\ web[h].op \in ListEdits
  /\ rooms' = Put(rooms, web[h].room, Edited(web[h].op, web[h].entity, web[h].what))
  /\ web' = [web EXCEPT ![h] = Idle]
  /\ UNCHANGED <<users, log, now, edits>>

(* delete_entity of a room, and of a user.  Visits are not deleted.         *)
DeleteRoom(h, r) ==
  /\ Serves(h, "deleteRoom")
  /\ rooms' = Delete(rooms, r)
  /\ UNCHANGED <<users, log, now, web>>

DeleteUser(h, name) ==
  /\ Serves(h, "deleteUser")
  /\ users' = Delete(users, <<"User", Upper[name]>>)
  /\ UNCHANGED <<rooms, log, now, web>>

(* An upload parses the whole file into a dictionary, in which the last row *)
(* about a room wins, then stores that row by row; a room that exists is    *)
(* overwritten, its Capacity and Last_Login_time with it.                   *)
BeginUpload(h, op, file) ==
  /\ op \in {"uploadRooms", "uploadUsers"}
  /\ Serves(h, op)
  /\ web' = [web EXCEPT ![h] = [Idle EXCEPT !.op = op, !.rows = file]]
  /\ UNCHANGED storeVars

PutRow(h) ==
  LET row  == Head(web[h].rows)
      left == Tail(web[h].rows)
  IN
  /\ web[h].rows # << >>
  /\ rooms' = IF web[h].op = "uploadRooms"
              THEN Put(rooms, row.room, NewRoom(row.lists)) ELSE rooms
  /\ users' = IF web[h].op = "uploadUsers"
              THEN Put(users, <<"User", Upper[row.name]>>, NewUser(row.classes)) ELSE users
  /\ web' = [web EXCEPT ![h] =
               IF left = << >> THEN Idle ELSE [@ EXCEPT !.rows = left]]
  /\ UNCHANGED <<log, now, edits>>

-----------------------------------------------------------------------------
SiteInit == web = [h \in Handlers |-> Idle] /\ edits = 0

Begin(h) ==
  \/ \E op \in ListEdits, r \in Rooms, what \in Names \cup Groups : BeginEdit(h, op, r, what)
  \/ \E file \in RoomFiles : BeginUpload(h, "uploadRooms", file)
  \/ \E file \in UserFiles : BeginUpload(h, "uploadUsers", file)
  \/ \E r \in Rooms : DeleteRoom(h, r)
  \/ \E name \in Names : DeleteUser(h, name)

Finish(h) == FinishEdit(h) \/ PutRow(h)

(* The handlers of the website hold rows and entities of the right types.   *)
SiteTypeOK ==
  /\ edits \in 0..MaxEdits
  /\ \A h \in Handlers :
       /\ web[h].op \in ListEdits \cup {"idle", "uploadRooms", "uploadUsers"}
       /\ web[h].op \in ListEdits =>
            web[h].room \in Rooms /\ web[h].entity \in RoomEntity
=============================================================================
