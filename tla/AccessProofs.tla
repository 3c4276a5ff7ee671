----------------------------- MODULE AccessProofs -----------------------------
(***************************************************************************)
(* The server answers what the access lists say.  is_allowed reads them in *)
(* three gets, and between any two of them other threads put whole room     *)
(* entities, lists included, that they have read some time before.  That    *)
(* does no harm as long as nobody edits the lists: every entity a thread    *)
(* holds has the lists that are stored.                                    *)
(***************************************************************************)
EXTENDS LockServerProofs

(* What is_allowed finds in the lists of rs and us, the empty string being  *)
(* a name and a class like any other.                                      *)
ByName(rs, r, u) == r \in DOMAIN rs /\ Listed(rs[r].Users, u)

Common(list, us, u) ==
  LET k == <<"User", u>> IN
  k \in DOMAIN us /\ \E g \in Classes : Listed(list, g) /\ Listed(us[k].Group, g)

Admits(rs, us, r, u) ==
  ByName(rs, r, u) \/ (r \in DOMAIN rs /\ Common(rs[r].Group, us, u))

(* Whom the lists are meant to admit is_allowed finds in them; whom it      *)
(* finds there besides has empty columns to thank.                         *)
LEMMA AdmitsIsAuthorised ==
  ASSUME NEW r, NEW u
  PROVE  /\ Authorised(r, u) => Admits(rooms, users, r, u)
         /\ Admits(rooms, users, r, u) => (Authorised(r, u) \/ EmptyColumns(r, u))
<1>1. Authorised(r, u) => Admits(rooms, users, r, u)
  BY DEF Authorised, ShareGroup, Admits, ByName, Common, Classes
<1>2. Admits(rooms, users, r, u) => (Authorised(r, u) \/ EmptyColumns(r, u))
  BY DEF Authorised, EmptyColumns, ShareGroup, Admits, ByName, Common, Classes
<1> QED BY <1>1, <1>2

(* What a thread has found out, and the entity it holds. *)
Holds(j, rs, r) ==
  /\ r \in DOMAIN rs
  /\ j.entity.Users = rs[r].Users
  /\ j.entity.Group = rs[r].Group

AccessOK(call, j, rs, us) ==
  /\ call \in {"is_users_from_room", "get_room_Group", "get_user_Group", "send_allowed"}
       => j.reply = "none"
  /\ call \in {"get_room_Group", "get_user_Group"} => ~ByName(rs, j.room, j.user)
  /\ call = "get_user_Group" => j.room \in DOMAIN rs /\ j.groups = rs[j.room].Group
  /\ call = "send_allowed" => Admits(rs, us, j.room, j.user)
  /\ j.user # None /\ j.reply = "230 Allowed" => Admits(rs, us, j.room, j.user)
  /\ j.user # None /\ j.reply = "430 Denied" => ~Admits(rs, us, j.room, j.user)
  /\ call = "put_login_time" => Holds(j, rs, j.room)
  /\ call = "put_capacity" => Holds(j, rs, j.at)

(* The lists in rs and us are those in qs and vs. *)
SameLists(rs, us, qs, vs) ==
  /\ DOMAIN qs = DOMAIN rs
  /\ \A r \in DOMAIN rs : qs[r].Users = rs[r].Users /\ qs[r].Group = rs[r].Group
  /\ \A u : LET k == <<"User", u>> IN
       /\ k \in DOMAIN vs <=> k \in DOMAIN us
       /\ k \in DOMAIN us => vs[k].Group = us[k].Group

(* The store after the first upload. *)
UploadedAs ==
  [rooms |-> [r \in DOMAIN UploadedRooms |-> NewRoom(UploadedRooms[r])],
   users |-> [k \in {"User"} \X DOMAIN UploadedUsers |-> NewUser(UploadedUsers[k[2]])]]

AccessInv ==
  /\ SafetyInv
  /\ \A c \in Conns : AccessOK(pc[c], job[c], rooms, users)
  /\ SameLists(UploadedAs.rooms, UploadedAs.users, rooms, users)

(* What the lists say depends on the lists alone. *)
LEMMA SameAccess ==
  ASSUME NEW rs, NEW us, NEW qs, NEW vs, SameLists(rs, us, qs, vs),
         NEW call, NEW j, AccessOK(call, j, rs, us)
  PROVE  AccessOK(call, j, qs, vs)
<1>1. \A r, u : ByName(qs, r, u) <=> ByName(rs, r, u)
  BY DEF SameLists, ByName
<1>2. \A list, u : Common(list, vs, u) <=> Common(list, us, u)
  BY DEF SameLists, Common
<1>3. \A r, u : Admits(qs, vs, r, u) <=> Admits(rs, us, r, u)
  BY <1>1, <1>2 DEF SameLists, Admits
<1>4. \A r : Holds(j, rs, r) => Holds(j, qs, r)
  BY DEF SameLists, Holds
<1> QED BY <1>1, <1>3, <1>4 DEF AccessOK, SameLists

(* Leaving the lists alone twice leaves them alone. *)
LEMMA SameListsTransitive ==
  ASSUME NEW rs, NEW us, NEW qs, NEW vs, NEW ps, NEW ws,
         SameLists(rs, us, qs, vs), SameLists(qs, vs, ps, ws)
  PROVE  SameLists(rs, us, ps, ws)
BY DEF SameLists

(* While the invariant holds, the lists stay what they are.                 *)
LEMMA ListsStay ==
  ASSUME AccessInv, AccessInv'
  PROVE  \A r, u : Admits(rooms', users', r, u) <=> Admits(rooms, users, r, u)
<1>1. SameLists(rooms, users, rooms', users')
  BY DEF AccessInv, SameLists
<1> QED BY <1>1 DEF SameLists, Admits, ByName, Common

-----------------------------------------------------------------------------
(* At the start nothing has been answered. *)
LEMMA InitAccess == ServerInit => AccessInv
<1> SUFFICES ASSUME ServerInit PROVE AccessInv
  OBVIOUS
<1>1. SafetyInv
  BY InitSafety
<1>2. \A c \in Conns : AccessOK(pc[c], job[c], rooms, users)
  BY DEF ServerInit, NewJob, AccessOK
<1>3. SameLists(UploadedAs.rooms, UploadedAs.users, rooms, users)
  BY DEF ServerInit, StoreInit, UploadedAs, SameLists
<1> QED BY <1>1, <1>2, <1>3 DEF AccessInv

(* A step that keeps the lists, of a thread that knows what it should       *)
(* afterwards.                                                             *)
LEMMA GoesAccess ==
  ASSUME AccessInv, SafetyInv', NEW c \in Conns, NEW from, NEW to, NEW j,
         Goes(c, from, to, j), SameLists(rooms, users, rooms', users'),
         AccessOK(to, j, rooms, users)
  PROVE  AccessInv'
<1>1. job \in [Conns -> Job] /\ pc \in [Conns -> Calls \cup Ended]
  BY DEF AccessInv, SafetyInv, ServerTypeOK
<1>2. /\ pc'[c] = to /\ job'[c] = j
      /\ \A d \in Conns \ {c} : pc'[d] = pc[d] /\ job'[d] = job[d]
  BY <1>1 DEF Goes
<1>3. \A d \in Conns : AccessOK(pc'[d], job'[d], rooms, users)
  BY <1>2 DEF AccessInv
<1>4. \A d \in Conns : AccessOK(pc'[d], job'[d], rooms', users')
  BY <1>3, SameAccess
<1>5. SameLists(UploadedAs.rooms, UploadedAs.users, rooms', users')
  BY SameListsTransitive DEF AccessInv
<1> QED BY <1>4, <1>5 DEF AccessInv

(* A step that only reads changes no list. *)
LEMMA ReadsAccess ==
  ASSUME AccessInv, SafetyInv', NEW c \in Conns, NEW from, NEW to, NEW j,
         Reads(c, from, to, j), AccessOK(to, j, rooms, users)
  PROVE  AccessInv'
BY GoesAccess DEF Reads, SameLists

(* Aftermath: the thread stands by its answer, and holds no entity it is    *)
(* about to put.                                                           *)
Aftermath ==
  Calls \ {"is_users_from_room", "get_room_Group", "get_user_Group", "send_allowed",
           "put_login_time", "put_capacity"}

(* What a thread has found out stays right while the lists stay. *)
LEMMA StandsBy ==
  ASSUME AccessInv, NEW c \in Conns, NEW to \in Aftermath \cup Ended, NEW j,
         j.user = job[c].user, j.room = job[c].room, j.reply = job[c].reply
  PROVE  AccessOK(to, j, rooms, users)
<1>1. AccessOK(pc[c], job[c], rooms, users)
  BY DEF AccessInv
<1> QED BY <1>1 DEF AccessOK, Aftermath, Calls, Ended

(* A thread that raises stands by it, too. *)
LEMMA RaisesAccess ==
  ASSUME AccessInv, SafetyInv', NEW c \in Conns, NEW from, Raises(c, from)
  PROVE  AccessInv'
<1>1. /\ Over(job[c]).user = job[c].user /\ Over(job[c]).room = job[c].room
      /\ Over(job[c]).reply = job[c].reply
  BY DEF Over, NewJob
<1>2. AccessOK("died", Over(job[c]), rooms, users)
  BY <1>1, StandsBy DEF Ended
<1> QED BY <1>2, ReadsAccess DEF Raises

-----------------------------------------------------------------------------
(* The decision.                                                           *)
LEMMA DecisionAccess ==
  ASSUME AccessInv, SafetyInv', NEW c \in Conns,
         \/ IsUsersFromRoom(c) \/ GetRoomGroup(c) \/ GetRoomGroupRaises(c)
         \/ GetUserGroup(c) \/ SendDenied(c) \/ SendAllowed(c)
  PROVE  AccessInv'
<1> DEFINE r == job[c].room
           u == job[c].user
<1>1. AccessOK(pc[c], job[c], rooms, users)
  BY DEF AccessInv
<1>2. job[c] \in Job
  BY DEF AccessInv, SafetyInv, ServerTypeOK
<1>3. pc[c] = "get_user_Group" => (GroupMatch(c) <=> Common(rooms[r].Group, users, u))
  BY <1>1 DEF AccessInv, AccessOK, GroupMatch, Common
<1>4. CASE IsUsersFromRoom(c)
  <2>1. /\ pc[c] = "is_users_from_room"
        /\ Reads(c, "is_users_from_room",
                 IF ByName(rooms, r, u) THEN "send_allowed" ELSE "get_room_Group", job[c])
    BY <1>4 DEF IsUsersFromRoom, Reads, Goes, ByName
  <2>2. CASE ByName(rooms, r, u)
    <3>1. AccessOK("send_allowed", job[c], rooms, users)
      BY <1>1, <2>1, <2>2 DEF AccessOK, Admits
    <3> QED BY <2>1, <2>2, <3>1, ReadsAccess
  <2>3. CASE ~ByName(rooms, r, u)
    <3>1. AccessOK("get_room_Group", job[c], rooms, users)
      BY <1>1, <2>1, <2>3 DEF AccessOK
    <3> QED BY <2>1, <2>3, <3>1, ReadsAccess
  <2> QED BY <2>2, <2>3
<1>5. CASE GetRoomGroup(c)
  <2> DEFINE j == [job[c] EXCEPT !.groups = rooms[r].Group]
  <2>1. pc[c] = "get_room_Group" /\ r \in DOMAIN rooms
    BY <1>5 DEF GetRoomGroup, Reads, Goes
  <2>2. /\ j.user = u /\ j.room = r /\ j.reply = job[c].reply
        /\ j.groups = rooms[r].Group
    BY <1>2 DEF Job
  <2>3. AccessOK("get_user_Group", j, rooms, users)
    BY <1>1, <2>1, <2>2 DEF AccessOK
  <2> QED BY <1>5, <2>3, ReadsAccess DEF GetRoomGroup
<1>6. CASE GetRoomGroupRaises(c)
  BY <1>6, RaisesAccess DEF GetRoomGroupRaises
<1>7. CASE GetUserGroup(c)
  <2>1. pc[c] = "get_user_Group" /\ GroupMatch(c)
    BY <1>7 DEF GetUserGroup, Reads, Goes
  <2>2. Admits(rooms, users, r, u)
    BY <1>1, <1>3, <2>1 DEF AccessOK, Admits
  <2>3. AccessOK("send_allowed", job[c], rooms, users)
    BY <1>1, <2>1, <2>2 DEF AccessOK
  <2> QED BY <1>7, <2>3, ReadsAccess DEF GetUserGroup
<1>8. CASE SendDenied(c)
  <2> DEFINE j == Over([job[c] EXCEPT !.reply = "430 Denied"])
  <2>1. pc[c] = "get_user_Group" /\ ~GroupMatch(c)
    BY <1>8 DEF SendDenied, Reads, Goes
  <2>2. ~Admits(rooms, users, r, u)
    BY <1>1, <1>3, <2>1 DEF AccessOK, Admits
  <2>3. j.user = u /\ j.room = r /\ j.reply = "430 Denied"
    BY <1>2 DEF Job, Over, NewJob
  <2>4. AccessOK("closed", j, rooms, users)
    BY <2>2, <2>3 DEF AccessOK
  <2> QED BY <1>8, <2>4, ReadsAccess DEF SendDenied
<1>9. CASE SendAllowed(c)
  <2> DEFINE j == [job[c] EXCEPT !.reply = "230 Allowed"]
  <2>1. pc[c] = "send_allowed"
    BY <1>9 DEF SendAllowed, Reads, Goes
  <2>2. Admits(rooms, users, r, u)
    BY <1>1, <2>1 DEF AccessOK
  <2>3. j.user = u /\ j.room = r /\ j.reply = "230 Allowed"
    BY <1>2 DEF Job
  <2>4. AccessOK("get_current_room", j, rooms, users)
    BY <2>2, <2>3 DEF AccessOK
  <2> QED BY <1>9, <2>4, ReadsAccess DEF SendAllowed
<1> QED BY <1>4, <1>5, <1>6, <1>7, <1>8, <1>9

-----------------------------------------------------------------------------
(* The bookkeeping changes no list. *)
LEMMA ScanAccess ==
  ASSUME AccessInv, SafetyInv', NEW c \in Conns,
         \/ GetCurrentRoom(c)
         \/ \E call \in {"login_room", "logout_room"} : Scan(c, call)
         \/ LoginFree(c) \/ LoginRefused(c) \/ LogoutRaises(c) \/ LogoutFound(c)
         \/ GetPrevious(c) \/ GetPreviousRaises(c)
  PROVE  AccessInv'
<1>1. job[c] \in Job
  BY DEF AccessInv, SafetyInv, ServerTypeOK
<1>2. ASSUME NEW from, NEW to \in Aftermath, NEW j, Reads(c, from, to, j),
             j.user = job[c].user, j.room = job[c].room, j.reply = job[c].reply
      PROVE  AccessInv'
  BY <1>2, ReadsAccess, StandsBy
<1>3. CASE GetCurrentRoom(c)
  <2> DEFINE j == [job[c] EXCEPT !.at = LastRoom(job[c].user), !.task = "move"]
  <2>1. j.user = job[c].user /\ j.room = job[c].room /\ j.reply = job[c].reply
    BY <1>1 DEF Job
  <2> QED BY <1>2, <1>3, <2>1 DEF GetCurrentRoom, Aftermath, Calls
<1>4. CASE \E call \in {"login_room", "logout_room"} : Scan(c, call)
  <2> DEFINE j == [job[c] EXCEPT !.index = @ + 1]
  <2>1. j.user = job[c].user /\ j.room = job[c].room /\ j.reply = job[c].reply
    BY <1>1 DEF Job
  <2>2. PICK call \in {"login_room", "logout_room"} : Reads(c, call, call, j)
    BY <1>4 DEF Scan
  <2>3. call \in Aftermath
    BY DEF Aftermath, Calls
  <2> QED BY <1>2, <2>1, <2>2, <2>3
<1>5. CASE LoginFree(c)
  BY <1>2, <1>5 DEF LoginFree, Aftermath, Calls
<1>6. CASE LoginRefused(c)
  <2> DEFINE j == [job[c] EXCEPT !.index = 0, !.task = "logout"]
  <2>1. j.user = job[c].user /\ j.room = job[c].room /\ j.reply = job[c].reply
    BY <1>1 DEF Job
  <2> QED BY <1>2, <1>6, <2>1 DEF LoginRefused, Aftermath, Calls
<1>7. CASE LogoutFound(c)
  <2> DEFINE j == [job[c] EXCEPT !.carry = 0]
  <2>1. j.user = job[c].user /\ j.room = job[c].room /\ j.reply = job[c].reply
    BY <1>1 DEF Job
  <2> QED BY <1>2, <1>7, <2>1 DEF LogoutFound, Aftermath, Calls
<1>8. CASE GetPrevious(c)
  <2> DEFINE j == [job[c] EXCEPT !.carry = log[Previous(c)].days]
  <2>1. j.user = job[c].user /\ j.room = job[c].room /\ j.reply = job[c].reply
    BY <1>1 DEF Job
  <2> QED BY <1>2, <1>8, <2>1 DEF GetPrevious, Aftermath, Calls
<1>9. CASE LogoutRaises(c) \/ GetPreviousRaises(c)
  BY <1>9, RaisesAccess DEF LogoutRaises, GetPreviousRaises
<1> QED BY <1>3, <1>4, <1>5, <1>6, <1>7, <1>8, <1>9

(* The puts of the server change no list. *)
LEMMA PutAccess ==
  ASSUME AccessInv, SafetyInv', NEW c \in Conns,
         PutLogin(c) \/ PutLogout(c) \/ SetCurrentRoom(c)
  PROVE  AccessInv'
<1>1. SameLists(rooms, users, rooms, users)
  BY DEF SameLists
<1>2. ASSUME NEW from, NEW to \in Aftermath, Goes(c, from, to, job[c]),
             SameLists(rooms, users, rooms', users')
      PROVE  AccessInv'
  BY <1>2, GoesAccess, StandsBy
<1>3. CASE PutLogin(c) \/ PutLogout(c)
  BY <1>1, <1>2, <1>3 DEF PutLogin, PutLogout, Aftermath, Calls
<1>4. CASE SetCurrentRoom(c)
  <2>1. \A u, r : SameLists(rooms, users, rooms, WithCurrentRoom(u, r))
    <3> TAKE u, r
    <3>1. CASE <<"Users", u>> \notin DOMAIN users
      BY <1>1, <3>1 DEF WithCurrentRoom
    <3>2. CASE <<"Users", u>> \in DOMAIN users
      BY <3>2 DEF WithCurrentRoom, Put, SameLists
    <3> QED BY <3>1, <3>2
  <2>2. SameLists(rooms, users, rooms', users')
    BY <1>4, <2>1 DEF SetCurrentRoom
  <2> QED BY <1>2, <1>4, <2>2 DEF SetCurrentRoom, Aftermath, Calls
<1> QED BY <1>3, <1>4

(* Every entity that is put back has the lists of the one that is stored.   *)
LEMMA RoomAccess ==
  ASSUME AccessInv, SafetyInv', NEW c \in Conns,
         GetLoginTime(c) \/ PutLoginTime(c) \/ GetCapacity(c) \/ PutCapacity(c)
  PROVE  AccessInv'
<1>1. job[c] \in Job /\ AccessOK(pc[c], job[c], rooms, users)
  BY DEF AccessInv, SafetyInv, ServerTypeOK
<1>2. ASSUME NEW e, NEW j, j.user = job[c].user, j.room = job[c].room,
             j.at = job[c].at, j.reply = job[c].reply, j.entity = e,
             NEW to \in {"put_login_time", "put_capacity"},
             Holds(j, rooms, IF to = "put_login_time" THEN job[c].room ELSE job[c].at)
      PROVE  AccessOK(to, j, rooms, users)
  BY <1>1, <1>2 DEF AccessOK
<1>3. ASSUME NEW r \in DOMAIN rooms, NEW e,
             e.Users = rooms[r].Users, e.Group = rooms[r].Group
      PROVE  SameLists(rooms, users, Put(rooms, r, e), users)
  BY <1>3 DEF SameLists, Put
<1>4. \A e : LET j == [job[c] EXCEPT !.entity = e] IN
        /\ j.user = job[c].user /\ j.room = job[c].room /\ j.at = job[c].at
        /\ j.reply = job[c].reply /\ j.entity = e
  BY <1>1 DEF Job
<1>5. \A r \in DOMAIN rooms : rooms[r] \in RoomEntity
  BY DEF AccessInv, SafetyInv, ServerTypeOK, StoreTypeOK
<1>6. CASE GetLoginTime(c)
  <2>1. CASE job[c].room \in DOMAIN rooms
    <3> DEFINE e == [rooms[job[c].room] EXCEPT !.Last_Login_time = now]
               j == [job[c] EXCEPT !.entity = e]
    <3>1. e.Users = rooms[job[c].room].Users /\ e.Group = rooms[job[c].room].Group
      BY <1>5, <2>1 DEF RoomEntity
    <3>2. AccessOK("put_login_time", j, rooms, users)
      BY <1>2, <1>4, <2>1, <3>1 DEF Holds
    <3> QED BY <1>6, <2>1, <3>2, ReadsAccess DEF GetLoginTime
  <2>2. CASE job[c].room \notin DOMAIN rooms
    <3>1. AccessOK("get_capacity", job[c], rooms, users)
      BY StandsBy DEF Aftermath, Calls
    <3> QED BY <1>6, <2>2, <3>1, ReadsAccess DEF GetLoginTime
  <2> QED BY <2>1, <2>2
<1>7. CASE GetCapacity(c)
  <2>1. CASE job[c].at \in DOMAIN rooms
    <3> DEFINE j == [job[c] EXCEPT !.entity = rooms[job[c].at]]
    <3>1. AccessOK("put_capacity", j, rooms, users)
      BY <1>2, <1>4, <2>1 DEF Holds
    <3> QED BY <1>7, <2>1, <3>1, ReadsAccess DEF GetCapacity
  <2>2. CASE job[c].at \notin DOMAIN rooms
    BY <1>7, <2>2, RaisesAccess DEF GetCapacity
  <2> QED BY <2>1, <2>2
<1>8. CASE PutLoginTime(c)
  <2> DEFINE j == [job[c] EXCEPT !.entity = None]
  <2>1. Holds(job[c], rooms, job[c].room)
    BY <1>1, <1>8 DEF PutLoginTime, Goes, AccessOK
  <2>2. SameLists(rooms, users, rooms', users')
    BY <1>3, <1>8, <2>1 DEF PutLoginTime, Holds
  <2>3. AccessOK("get_capacity", j, rooms, users)
    BY <1>4, StandsBy DEF Aftermath, Calls
  <2> QED BY <1>8, <2>2, <2>3, GoesAccess DEF PutLoginTime
<1>9. CASE PutCapacity(c)
  <2> DEFINE moved == job[c].task = "move"
             done  == [job[c] EXCEPT !.entity = None]
             next  == [done EXCEPT !.at = job[c].room, !.index = 0, !.task = "login"]
             to    == IF moved THEN "login_room" ELSE "closed"
             j     == IF moved THEN next ELSE Over(done)
             e     == [job[c].entity EXCEPT !.Capacity =
                         NewCapacity(@, job[c].task = "login")]
  <2>1. Holds(job[c], rooms, job[c].at) /\ pc[c] = "put_capacity"
    BY <1>1, <1>9 DEF PutCapacity, Goes, AccessOK
  <2>2. job[c].entity \in RoomEntity
    BY <2>1 DEF AccessInv, SafetyInv, ThreadState, ThreadOK
  <2>3. e.Users = rooms[job[c].at].Users /\ e.Group = rooms[job[c].at].Group
    BY <2>1, <2>2 DEF Holds, RoomEntity
  <2>4. SameLists(rooms, users, rooms', users')
    BY <1>3, <1>9, <2>1, <2>3 DEF PutCapacity, Holds
  <2>5. next.user = job[c].user /\ next.room = job[c].room /\ next.reply = job[c].reply
    BY <1>1 DEF Job
  <2>6. /\ Over(done).user = job[c].user /\ Over(done).room = job[c].room
        /\ Over(done).reply = job[c].reply
    BY <1>4 DEF Over, NewJob
  <2>7. AccessOK(to, j, rooms, users)
    BY <2>5, <2>6, StandsBy DEF Aftermath, Calls, Ended
  <2>8. Goes(c, "put_capacity", to, j)
    BY <1>9 DEF PutCapacity
  <2> QED BY <2>4, <2>7, <2>8, GoesAccess
<1> QED BY <1>6, <1>7, <1>8, <1>9

-----------------------------------------------------------------------------
(* A thread that has just received its frame has found out nothing. *)
LEMMA ReceiveAccess ==
  ASSUME AccessInv, SafetyInv', NEW c \in Conns, Receive(c)
  PROVE  AccessInv'
<1>1. ASSUME NEW to, NEW j, Receives(c, to, j), AccessOK(to, j, rooms, users)
      PROVE  AccessInv'
  <2>1. job \in [Conns -> Job] /\ pc \in [Conns -> Calls \cup Ended]
    BY DEF AccessInv, SafetyInv, ServerTypeOK
  <2> QED BY <1>1, <2>1 DEF Receives, AccessInv
<1>2. \A u, r : AccessOK("is_users_from_room", NewJob(u, r, "none"), rooms, users)
  BY DEF AccessOK, NewJob
<1>3. \A r, reply : AccessOK("closed", NewJob(None, r, reply), rooms, users)
  BY DEF AccessOK, NewJob
<1>4. \A r : AccessOK("died", NewJob(None, r, "none"), rooms, users)
  BY DEF AccessOK, NewJob
<1> QED BY <1>1, <1>2, <1>3, <1>4
        DEF Receive, ReceiveLogin, ReceiveUnsplittable, ReceiveGarbage

(* A call that fails answers nothing new. *)
LEMMA FailureAccess ==
  ASSUME AccessInv, SafetyInv', NEW c \in Conns, CallFails(c)
  PROVE  AccessInv'
<1>1. AccessOK("died", Over(job[c]), rooms, users)
  BY StandsBy DEF Ended, Over, NewJob
<1>2. job \in [Conns -> Job] /\ pc \in [Conns -> Calls \cup Ended]
  BY DEF AccessInv, SafetyInv, ServerTypeOK
<1> QED BY <1>1, <1>2 DEF CallFails, AccessInv

(* Every step of the server preserves the invariant. *)
LEMMA NextAccess == AccessInv /\ [ServerNext]_serverVars => AccessInv'
<1> SUFFICES ASSUME AccessInv, [ServerNext]_serverVars PROVE AccessInv'
  OBVIOUS
<1>1. SafetyInv'
  BY NextSafety DEF AccessInv
<1>2. ASSUME NEW c \in Conns, Run(c) PROVE AccessInv'
  BY <1>1, <1>2, DecisionAccess, ScanAccess, PutAccess, RoomAccess DEF Run
<1>3. ASSUME NEW c \in Conns, Receive(c) \/ CallFails(c) PROVE AccessInv'
  BY <1>1, <1>3, ReceiveAccess, FailureAccess
<1>4. CASE UNCHANGED serverVars
  BY <1>1, <1>4 DEF serverVars, AccessInv
<1> QED BY <1>2, <1>3, <1>4 DEF ServerNext

(* Whatever the threads do to each other, whichever calls fail and whatever  *)
(* is tapped, the empty cruzID of a phone nobody is logged into included:  *)
(* nobody is refused whom the lists are meant to admit, by name or by a    *)
(* class in common, and nobody else is let in but through an empty column. *)
THEOREM AnswersAreRight == ServerSpec => []RightAnswer
<1>1. AccessInv => RightAnswer
  BY AdmitsIsAuthorised DEF AccessInv, AccessOK, RightAnswer
<1> QED BY <1>1, InitAccess, NextAccess, PTL DEF ServerSpec
=============================================================================
