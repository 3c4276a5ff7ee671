------------------------------ MODULE Datastore ------------------------------
(***************************************************************************)
(* The Google Cloud Datastore as the lock server, the administrative       *)
(* website and the capacity cron job use it.  An entity is found by its    *)
(* kind and its ID; client.get returns the entity or None, client.put      *)
(* writes the WHOLE entity (creating it when it is missing) and            *)
(* client.delete removes it.  Each of the three is atomic and nothing in   *)
(* the code puts two of them in a transaction.                             *)
(*                                                                         *)
(* A kind is a partial function from IDs to entities: an ID outside the    *)
(* domain is an entity that get answers with None.                         *)
(***************************************************************************)
EXTENDS Naturals, Sequences, FiniteSets

CONSTANTS
  Names,      (* spellings of a cruzID, in whatever case they are typed    *)
  Users,      (* the upper-case ones: what the server looks up             *)
  Upper,      (* str.upper on Names and Groups                             *)
  Rooms,      (* room numbers                                              *)
  Groups,     (* class names                                               *)
  Blank,      (* the empty string: an empty column of a .csv file, and the *)
              (* cruzID of a phone that nobody is logged into              *)
  Aliases,    (* visits whose IDs are spelt alike: see VisitID             *)
  Minutes,    (* the minutes of the hour that occur in this instance       *)
  None,       (* Python's None                                             *)
  UploadedRooms,  (* the rooms.csv uploaded first: room -> its two lists    *)
  UploadedUsers   (* the users.csv uploaded first: cruzID -> its classes    *)

ASSUME CaseAssumption ==
  /\ Users \subseteq Names
  /\ Upper \in [Names \cup Groups -> Users \cup Groups]
  /\ \A name \in Names : Upper[name] \in Users
  /\ \A g \in Groups : Upper[g] \in Groups
  /\ \A u \in Users : Upper[u] = u

ASSUME BlankAssumption == Blank \notin Groups /\ (Blank \in Names => Blank \in Users)

ASSUME MinuteAssumption == Minutes \subseteq 0..59

ASSUME NoneAssumption == None \notin Rooms /\ None \notin Minutes

ASSUME UploadAssumption ==
  /\ DOMAIN UploadedRooms \subseteq Rooms
  /\ \A r \in DOMAIN UploadedRooms :
       UploadedRooms[r] \in [Users : Seq(Names), Group : Seq(Groups)]
  /\ DOMAIN UploadedUsers \subseteq Users
  /\ \A u \in DOMAIN UploadedUsers : UploadedUsers[u] \in Seq(Groups)

ASSUME AliasAssumption ==
  /\ DOMAIN Aliases \subseteq Users \X Nat
  /\ \A p \in DOMAIN Aliases : Aliases[p] \in Users \X Nat

VARIABLES
  rooms,      (* kind 'Rooms':  room number -> entity                      *)
  users,      (* kinds 'User' and 'Users': <<kind, cruzID>> -> entity      *)
  log,        (* one kind per room: VisitID -> visit                        *)
  now         (* the minute of the hour the wall clocks show               *)

storeVars == <<rooms, users, log, now>>

-----------------------------------------------------------------------------
(* Entities.  Lists are sequences: the website appends to them and removes *)
(* one occurrence at a time.                                               *)

Classes == Groups \cup {Blank}

RoomEntity ==
  [Users : Seq(Names \cup {Blank}), Group : Seq(Classes), Capacity : Nat,
   Last_Login_time : Minutes \cup {None}]

UserEntity == [Group : Seq(Classes), Last_Room : Rooms \cup {None}]

UserKinds == {"User", "Users"}

(* The ID of a visit is 'index_' with cruzID and index written one after    *)
(* the other, so that visit 10 of X has the ID of visit 0 of X1.  Aliases   *)
(* maps every such <<cruzID, index>> to the one that stands for both.       *)
VisitID(r, u, i) ==
  IF <<u, i>> \in DOMAIN Aliases
  THEN <<r, Aliases[<<u, i>>][1], Aliases[<<u, i>>][2]>>
  ELSE <<r, u, i>>

(* Of a visit three things are ever acted on: its cruzID, whether Exit_Time *)
(* is still None, and the whole days in the '24hr_Cumulative_Time' string,  *)
(* which is None until the visit is closed.                                *)
Visit == [user : Users, open : BOOLEAN, days : Nat]
OpenEntry(u) == [user |-> u, open |-> TRUE, days |-> 0]
ClosedEntry(u, days) == [user |-> u, open |-> FALSE, days |-> days]

Put(kind, id, entity) ==
  [k \in DOMAIN kind \cup {id} |-> IF k = id THEN entity ELSE kind[k]]

Delete(kind, id) == [k \in DOMAIN kind \ {id} |-> kind[k]]

Listed(list, x) == \E i \in DOMAIN list : list[i] = x

(* A column of a .csv file as split(" ") reads it: the empty column becomes *)
(* a list of one, the empty string.                                        *)
Split(column) == IF column = << >> THEN <<Blank>> ELSE column

(* A room and a user as the website's upload writes them. *)
NewRoom(lists) ==
  [Users |-> Split(lists.Users), Group |-> Split(lists.Group), Capacity |-> 0,
   Last_Login_time |-> None]

NewUser(classes) == [Group |-> Split(classes), Last_Room |-> None]

(* After the first upload, before the first tap. *)
StoreInit ==
  /\ rooms = [r \in DOMAIN UploadedRooms |-> NewRoom(UploadedRooms[r])]
  /\ users = [k \in {"User"} \X DOMAIN UploadedUsers |-> NewUser(UploadedUsers[k[2]])]
  /\ log = << >>
  /\ now \in Minutes

-----------------------------------------------------------------------------
(* What the stored data says. *)

OpenVisits(r, u) == {k \in DOMAIN log : k[1] = r /\ log[k].user = u /\ log[k].open}

Inside(r) == {u \in Users : OpenVisits(r, u) # {}}

ShareGroup(r, u) ==
  /\ <<"User", u>> \in DOMAIN users
  /\ \E g \in Groups : /\ Listed(rooms[r].Group, g)
                       /\ Listed(users[<<"User", u>>].Group, g)

(* What the access lists are meant to say of u at room r at this moment:    *)
(* the empty string names nobody and no class.                             *)
Authorised(r, u) ==
  /\ r \in DOMAIN rooms
  /\ u # Blank
  /\ Listed(rooms[r].Users, u) \/ ShareGroup(r, u)

(* What they say besides, taken literally: an empty users column lists the  *)
(* person without a name, and empty class columns are a class in common.   *)
EmptyColumns(r, u) ==
  /\ r \in DOMAIN rooms
  /\ \/ u = Blank /\ (Listed(rooms[r].Users, u) \/ ShareGroup(r, u))
     \/ /\ <<"User", u>> \in DOMAIN users
        /\ Listed(rooms[r].Group, Blank)
        /\ Listed(users[<<"User", u>>].Group, Blank)

StoreTypeOK ==
  /\ DOMAIN rooms \subseteq Rooms
  /\ \A r \in DOMAIN rooms : rooms[r] \in RoomEntity
  /\ DOMAIN users \subseteq UserKinds \X Users
  /\ \A k \in DOMAIN users : users[k] \in UserEntity
  /\ DOMAIN log \subseteq Rooms \X Users \X Nat
  /\ \A k \in DOMAIN log : log[k] \in Visit
  /\ now \in Minutes
=============================================================================
