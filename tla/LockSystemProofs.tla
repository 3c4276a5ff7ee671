--------------------------- MODULE LockSystemProofs ---------------------------
(***************************************************************************)
(* Theorems about LockSystem: what the lock server guarantees holds with    *)
(* the website and the cron job beside it, who write the same entities; and *)
(* what the three guarantee together while nobody edits a list that the    *)
(* server or the cron job is at work on.                                   *)
(***************************************************************************)
EXTENDS LockSystem, OccupancyProofs, WellFoundedInduction

Uploads == {"uploadRooms", "uploadUsers"}

Request ==
  [op : ListEdits \cup Uploads \cup {"idle"}, room : Rooms \cup {None},
   what : Names \cup Groups \cup {None}, entity : RoomEntity \cup {None},
   rows : Seq(RoomRow) \cup Seq(UserRow)]

(* A list is edited with a name or a class, as the request asks, of an      *)
(* entity that was read; an upload has rows of its own kind left.          *)
RequestOK(w) ==
  /\ w.op \in ListEdits =>
       /\ w.room \in Rooms /\ w.entity \in RoomEntity
       /\ w.what \in IF w.op \in {"addUser", "removeUser"} THEN Names ELSE Groups
  /\ w.op = "uploadRooms" => w.rows \in Seq(RoomRow)
  /\ w.op = "uploadUsers" => w.rows \in Seq(UserRow)
  /\ w.op \notin Uploads => w.rows = << >>

SiteInv ==
  /\ edits \in 0..MaxEdits
  /\ web \in [Handlers -> Request]
  /\ \A h \in Handlers : RequestOK(web[h])

ResetJob ==
  [current : Minutes \cup {None}, asked : BOOLEAN,
   todo : SUBSET (Rooms \X (Minutes \cup {None})), room : Rooms \cup {None},
   entity : RoomEntity \cup {None}]

CronInv ==
  /\ resets \in 0..MaxResets
  /\ cron \in ResetJob
  /\ cron.todo # {} => cron.asked
  /\ cron.room # None => cron.entity \in RoomEntity

SystemInv == SafetyInv /\ SiteInv /\ CronInv

-----------------------------------------------------------------------------
(* The lists of a room. *)

(* A nonempty set of numbers has a least one. *)
LEMMA LeastNumber ==
  ASSUME NEW S \in SUBSET Nat, S # {}
  PROVE  \E n \in S : \A m \in S : n <= m
<1>1. PICK n \in S : \A m \in S : <<m, n>> \notin OpToRel(<, Nat)
  BY NatLessThanWellFounded, WFMin
<1>2. ASSUME NEW m \in S PROVE n <= m
  <2>1. ~(m < n)
    BY <1>1 DEF OpToRel
  <2> QED BY <2>1
<1> QED BY <1>2

(* Removing the first occurrence of an element leaves a list. *)
LEMMA RemoveFirstType ==
  ASSUME NEW S, NEW list \in Seq(S), NEW x
  PROVE  RemoveFirst(list, x) \in Seq(S)
<1>1. CASE \E i \in 1..Len(list) : list[i] = x
  <2> DEFINE places == {i \in 1..Len(list) : list[i] = x}
             first == SelectInSeq(list, LAMBDA v : v = x)
  <2>1. places # {} /\ places \in SUBSET Nat /\ first = Min(places)
    BY <1>1 DEF SelectInSeq
  <2>2. \E n \in places : \A m \in places : n <= m
    BY <2>1, LeastNumber
  <2>3. first \in places
    BY <2>1, <2>2 DEF Min
  <2>4. first \in 1..Len(list)
    BY <2>3
  <2> HIDE DEF first
  <2>5. SubSeq(list, 1, first - 1) \in Seq(S) /\ SubSeq(list, first + 1, Len(list)) \in Seq(S)
    BY <2>4
  <2>6. RemoveFirst(list, x) = SubSeq(list, 1, first - 1) \o SubSeq(list, first + 1, Len(list))
    BY <1>1 DEF RemoveFirst, RemoveAt, first
  <2> QED BY <2>5, <2>6
<1>2. CASE ~\E i \in 1..Len(list) : list[i] = x
  BY <1>2 DEF RemoveFirst
<1> QED BY <1>1, <1>2

(* An edit of a list of a room makes an entity of a room. *)
LEMMA EditedType ==
  ASSUME NEW op \in ListEdits, NEW entity \in RoomEntity,
         NEW what \in IF op \in {"addUser", "removeUser"} THEN Names ELSE Groups
  PROVE  Edited(op, entity, what) \in RoomEntity
<1>1. CASE op = "addUser"
  <2>1. Append(entity.Users, Upper[what]) \in Seq(Names \cup {Blank})
    BY <1>1, CaseAssumption DEF RoomEntity
  <2> QED BY <1>1, <2>1 DEF Edited, RoomEntity
<1>2. CASE op = "addGroup"
  <2>1. Append(entity.Group, Upper[what]) \in Seq(Classes)
    BY <1>2, CaseAssumption DEF RoomEntity, Classes
  <2> QED BY <1>2, <2>1 DEF Edited, RoomEntity
<1>3. CASE op = "removeUser"
  <2>1. RemoveFirst(entity.Users, what) \in Seq(Names \cup {Blank})
    BY RemoveFirstType DEF RoomEntity
  <2> QED BY <1>3, <2>1 DEF Edited, RoomEntity
<1>4. CASE op = "removeGroup"
  <2>1. RemoveFirst(entity.Group, what) \in Seq(Classes)
    BY RemoveFirstType DEF RoomEntity
  <2> QED BY <1>4, <2>1 DEF Edited, RoomEntity
<1> QED BY <1>1, <1>2, <1>3, <1>4 DEF ListEdits

(* So does a row of an uploaded file, and a row of the other kind of file   *)
(* makes an entity of a user.                                              *)
LEMMA RowTypes ==
  /\ \A row \in RoomRow : NewRoom(row.lists) \in RoomEntity
  /\ \A row \in UserRow : NewUser(row.classes) \in UserEntity
<1>1. ASSUME NEW row \in RoomRow PROVE NewRoom(row.lists) \in RoomEntity
  <2>1. /\ Split(row.lists.Users) \in Seq(Names \cup {Blank})
        /\ Split(row.lists.Group) \in Seq(Groups \cup {Blank})
    BY SplitType DEF RoomRow
  <2> QED BY <2>1 DEF NewRoom, RoomEntity, Classes
<1>2. ASSUME NEW row \in UserRow PROVE NewUser(row.classes) \in UserEntity
  <2>1. Split(row.classes) \in Seq(Groups \cup {Blank})
    BY SplitType DEF UserRow
  <2> QED BY <2>1 DEF NewUser, UserEntity, Classes
<1> QED BY <1>1, <1>2

-----------------------------------------------------------------------------
(* The system keeps what the server guarantees. *)

(* Every step of the server within the system is one of the server. *)
LEMMA StepOfServer == ServerStep => ServerNext /\ UNCHANGED <<web, edits, cron, resets>>
BY DEF ServerStep, ServerNext

(* Who writes entities of the right types, and leaves the threads and the   *)
(* visits alone, does not disturb the server's invariant.                  *)
LEMMA ForeignSafety ==
  ASSUME SafetyInv, StoreTypeOK', UNCHANGED <<log, pc, job, accepted, failures>>
  PROVE  SafetyInv'
BY DEF SafetyInv, ServerTypeOK, ThreadState, ScanState, NoGaps

LEMMA InitSystem == SystemInit => SystemInv
<1> SUFFICES ASSUME SystemInit PROVE SystemInv
  OBVIOUS
<1>1. SafetyInv
  BY InitSafety DEF SystemInit
<1>2. Idle \in Request /\ RequestOK(Idle)
  <2>1. << >> \in Seq(RoomRow)
    OBVIOUS
  <2> QED BY <2>1 DEF Idle, Request, RequestOK, ListEdits, Uploads
<1>3. SiteInv
  BY <1>2, FileAssumption DEF SystemInit, SiteInit, SiteInv
<1>4. CronInv
  BY ResetAssumption DEF SystemInit, ResetInit, CronInv, CronIdle, ResetJob
<1> QED BY <1>1, <1>3, <1>4 DEF SystemInv

(* A step of one handler leaves the other requests as they were. *)
LEMMA HandlerStep ==
  ASSUME SiteInv, NEW h \in Handlers, NEW w \in Request, RequestOK(w),
         web' = [web EXCEPT ![h] = w], edits' \in 0..MaxEdits
  PROVE  SiteInv'
BY DEF SiteInv

LEMMA SiteSafety ==
  ASSUME SystemInv, SiteStep
  PROVE  /\ SystemInv'
         /\ UNCHANGED <<log, pc, job, accepted, failures, cron, resets>>
         /\ \A k \in DOMAIN users' :
              \/ k \in DOMAIN users /\ users'[k] = users[k]
              \/ k[1] = "User" /\ users'[k].Last_Room = None
<1> DEFINE Kept ==
      \A k \in DOMAIN users' :
        \/ k \in DOMAIN users /\ users'[k] = users[k]
        \/ k[1] = "User" /\ users'[k].Last_Room = None
<1>1. PICK h \in Handlers : Begin(h) \/ Finish(h)
  BY DEF SiteStep
<1>2. UNCHANGED <<pc, job, accepted, failures, cron, resets>>
  BY DEF SiteStep
<1>3. StoreTypeOK /\ SiteInv /\ web[h] \in Request /\ RequestOK(web[h])
  BY DEF SystemInv, SafetyInv, ServerTypeOK, SiteInv
<1>4. Idle \in Request /\ RequestOK(Idle)
  <2>1. << >> \in Seq(RoomRow)
    OBVIOUS
  <2> QED BY <2>1 DEF Idle, Request, RequestOK, ListEdits, Uploads
<1>5. ASSUME NEW op, Serves(h, op) PROVE edits' \in 0..MaxEdits
  BY <1>3, <1>5, FileAssumption DEF Serves, SiteInv
<1>6. ASSUME StoreTypeOK', SiteInv', UNCHANGED log
      PROVE  SystemInv'
  BY <1>2, <1>6, ForeignSafety DEF SystemInv, CronInv
<1>7. ASSUME NEW op \in ListEdits, NEW r \in Rooms, NEW what \in Names \cup Groups,
             BeginEdit(h, op, r, what)
      PROVE  SystemInv' /\ UNCHANGED log /\ Kept
  <2> DEFINE w == [Idle EXCEPT !.op = op, !.room = r, !.what = what, !.entity = rooms[r]]
  <2>1. /\ UNCHANGED storeVars /\ web' = [web EXCEPT ![h] = w] /\ rooms[r] \in RoomEntity
        /\ what \in IF op \in {"addUser", "removeUser"} THEN Names ELSE Groups
    BY <1>3, <1>7 DEF BeginEdit, StoreTypeOK
  <2>2. /\ w.op = op /\ w.room = r /\ w.what = what /\ w.entity = rooms[r]
        /\ w.rows = << >>
    BY DEF Idle
  <2>3. w \in Request
    BY <1>4, <2>1 DEF Request
  <2>4. RequestOK(w)
    BY <2>1, <2>2 DEF RequestOK, ListEdits, Uploads
  <2>5. edits' \in 0..MaxEdits
    BY <1>5, <1>7 DEF BeginEdit
  <2> HIDE DEF w
  <2>6. SiteInv'
    BY <1>3, <2>1, <2>3, <2>4, <2>5, HandlerStep
  <2>7. StoreTypeOK' /\ UNCHANGED log /\ Kept
    BY <1>3, <2>1 DEF storeVars, StoreTypeOK
  <2> QED BY <1>6, <2>6, <2>7
<1>8. ASSUME NEW op \in Uploads, NEW file, BeginUpload(h, op, file),
             file \in IF op = "uploadRooms" THEN RoomFiles ELSE UserFiles
      PROVE  SystemInv' /\ UNCHANGED log /\ Kept
  <2> DEFINE w == [Idle EXCEPT !.op = op, !.rows = file]
  <2>1. UNCHANGED storeVars /\ web' = [web EXCEPT ![h] = w]
    BY <1>8 DEF BeginUpload
  <2>2. w.op = op /\ w.rows = file
    BY DEF Idle
  <2>3. /\ op = "uploadRooms" => file \in Seq(RoomRow)
        /\ op = "uploadUsers" => file \in Seq(UserRow)
    BY <1>8, FileAssumption
  <2>4. w \in Request /\ RequestOK(w)
    <3>1. w \in Request
      BY <1>4, <2>3 DEF Request, Uploads
    <3> QED BY <2>2, <2>3, <3>1 DEF RequestOK, ListEdits, Uploads
  <2>5. edits' \in 0..MaxEdits
    BY <1>5, <1>8 DEF BeginUpload
  <2> HIDE DEF w
  <2>6. SiteInv'
    BY <1>3, <2>1, <2>4, <2>5, HandlerStep
  <2>7. StoreTypeOK' /\ UNCHANGED log /\ Kept
    BY <1>3, <2>1 DEF storeVars, StoreTypeOK
  <2> QED BY <1>6, <2>6, <2>7
<1>9. ASSUME NEW r \in Rooms, DeleteRoom(h, r) PROVE SystemInv' /\ UNCHANGED log /\ Kept
  <2>1. edits' \in 0..MaxEdits
    BY <1>5, <1>9 DEF DeleteRoom
  <2>2. SiteInv'
    BY <1>3, <1>9, <2>1 DEF DeleteRoom, SiteInv
  <2>3. StoreTypeOK' /\ UNCHANGED log /\ Kept
    BY <1>3, <1>9 DEF DeleteRoom, Delete, StoreTypeOK
  <2> QED BY <1>6, <2>2, <2>3
<1>10. ASSUME NEW name \in Names, DeleteUser(h, name)
       PROVE  SystemInv' /\ UNCHANGED log /\ Kept
  <2>1. edits' \in 0..MaxEdits
    BY <1>5, <1>10 DEF DeleteUser
  <2>2. SiteInv'
    BY <1>3, <1>10, <2>1 DEF DeleteUser, SiteInv
  <2>3. StoreTypeOK' /\ UNCHANGED log /\ Kept
    BY <1>3, <1>10 DEF DeleteUser, Delete, StoreTypeOK
  <2> QED BY <1>6, <2>2, <2>3
<1>11. CASE FinishEdit(h)
  <2> DEFINE entity == Edited(web[h].op, web[h].entity, web[h].what)
  <2>1. web[h].room \in Rooms /\ entity \in RoomEntity
    BY <1>3, <1>11, EditedType DEF FinishEdit, RequestOK
  <2>2. rooms' = Put(rooms, web[h].room, entity) /\ UNCHANGED <<users, log, now, edits>>
    BY <1>11 DEF FinishEdit
  <2> HIDE DEF entity
  <2>3. StoreTypeOK' /\ Kept
    BY <1>3, <2>1, <2>2 DEF Put, StoreTypeOK
  <2>4. SiteInv'
    <3>1. edits' \in 0..MaxEdits /\ web' = [web EXCEPT ![h] = Idle]
      BY <1>3, <1>11 DEF FinishEdit, SiteInv
    <3> QED BY <1>3, <1>4, <3>1, HandlerStep
  <2> QED BY <1>2, <1>6, <2>2, <2>3, <2>4
<1>12. CASE PutRow(h)
  <2> DEFINE row == Head(web[h].rows)
             left == Tail(web[h].rows)
             w == IF left = << >> THEN Idle ELSE [web[h] EXCEPT !.rows = left]
  <2>1. /\ web[h].rows # << >> /\ web' = [web EXCEPT ![h] = w]
        /\ rooms' = IF web[h].op = "uploadRooms"
                    THEN Put(rooms, row.room, NewRoom(row.lists)) ELSE rooms
        /\ users' = IF web[h].op = "uploadUsers"
                    THEN Put(users, <<"User", Upper[row.name]>>, NewUser(row.classes))
                    ELSE users
        /\ UNCHANGED <<log, now, edits>>
    BY <1>12 DEF PutRow
  <2>2. /\ web[h].op \in Uploads
        /\ web[h].op = "uploadRooms" => row \in RoomRow /\ left \in Seq(RoomRow)
        /\ web[h].op = "uploadUsers" => row \in UserRow /\ left \in Seq(UserRow)
    BY <1>3, <2>1 DEF RequestOK, Uploads
  <2>3. w \in Request /\ RequestOK(w)
    <3>1. CASE left = << >>
      BY <1>4, <3>1
    <3>2. CASE left # << >>
      <4> DEFINE v == [web[h] EXCEPT !.rows = left]
      <4>1. v \in Request /\ v.op = web[h].op /\ v.rows = left
        BY <1>3, <2>2 DEF Request, Uploads
      <4>2. RequestOK(v)
        BY <2>2, <4>1 DEF RequestOK, Uploads, ListEdits
      <4> QED BY <3>2, <4>1, <4>2
    <3> QED BY <3>1, <3>2
  <2> HIDE DEF w
  <2>4. SiteInv'
    BY <1>3, <2>1, <2>3, HandlerStep DEF SiteInv
  <2>5. CASE web[h].op = "uploadRooms"
    <3>1. row.room \in Rooms /\ NewRoom(row.lists) \in RoomEntity
      BY <2>2, <2>5, RowTypes DEF RoomRow
    <3>2. StoreTypeOK' /\ Kept
      BY <1>3, <2>1, <2>5, <3>1 DEF Put, StoreTypeOK
    <3> QED BY <1>2, <1>6, <2>1, <2>4, <3>2
  <2>6. CASE web[h].op = "uploadUsers"
    <3> DEFINE k == <<"User", Upper[row.name]>>
    <3>1. /\ k \in UserKinds \X Users /\ NewUser(row.classes) \in UserEntity
          /\ NewUser(row.classes).Last_Room = None /\ k[1] = "User"
      BY <2>2, <2>6, RowTypes, CaseAssumption DEF UserRow, UserKinds, NewUser
    <3>2. rooms' = rooms /\ users' = Put(users, k, NewUser(row.classes))
      BY <2>1, <2>6
    <3> HIDE DEF k
    <3>3. StoreTypeOK' /\ Kept
      BY <1>3, <2>1, <3>1, <3>2 DEF Put, StoreTypeOK
    <3> QED BY <1>2, <1>6, <2>1, <2>4, <3>3
  <2> QED BY <2>2, <2>5, <2>6 DEF Uploads
<1>13. CASE Begin(h)
  <2>1. CASE \E op \in ListEdits, r \in Rooms, what \in Names \cup Groups :
               BeginEdit(h, op, r, what)
    BY <1>2, <1>7, <2>1
  <2>2. CASE \E file \in RoomFiles : BeginUpload(h, "uploadRooms", file)
    BY <1>2, <1>8, <2>2 DEF Uploads
  <2>3. CASE \E file \in UserFiles : BeginUpload(h, "uploadUsers", file)
    BY <1>2, <1>8, <2>3 DEF Uploads
  <2>4. CASE \E r \in Rooms : DeleteRoom(h, r)
    BY <1>2, <1>9, <2>4
  <2>5. CASE \E name \in Names : DeleteUser(h, name)
    BY <1>2, <1>10, <2>5
  <2> QED BY <1>13, <2>1, <2>2, <2>3, <2>4, <2>5 DEF Begin
<1> QED BY <1>1, <1>11, <1>12, <1>13 DEF Finish

(* The cron job writes entities it has read, and no user. *)
LEMMA CronSafety ==
  ASSUME SystemInv, CronStep
  PROVE  /\ SystemInv'
         /\ UNCHANGED <<users, log, pc, job, accepted, failures, web, edits>>
<1>1. UNCHANGED <<users, log, now, pc, job, accepted, failures, web, edits>>
  BY DEF CronStep, ResetStep, StartReset, QueryRooms, SkipRoom, GetRoom, GetRoomRaises,
         PutReset, storeVars
<1>2. StoreTypeOK /\ CronInv
  BY DEF SystemInv, SafetyInv, ServerTypeOK
<1>3. CronIdle \in ResetJob /\ CronIdle.todo = {} /\ CronIdle.room = None
  BY DEF CronIdle, ResetJob
<1>4. ASSUME NEW j \in ResetJob, cron' = Rest(j), j.todo # {} => j.asked,
             j.room # None => j.entity \in RoomEntity, UNCHANGED resets
      PROVE  CronInv'
  BY <1>2, <1>3, <1>4 DEF CronInv, Rest
<1>5. ASSUME StoreTypeOK', CronInv' PROVE SystemInv'
  BY <1>1, <1>5, ForeignSafety DEF SystemInv, SiteInv
<1>6. CASE StartReset
  <2> DEFINE j == [CronIdle EXCEPT !.current = now]
  <2>1. /\ UNCHANGED storeVars /\ cron' = j
        /\ resets < MaxResets /\ resets' = resets + 1
    BY <1>6 DEF StartReset
  <2>2. j \in ResetJob /\ j.todo = {} /\ j.room = None
    BY <1>2, <1>3 DEF ResetJob, StoreTypeOK
  <2>3. CronInv'
    BY <1>2, <2>1, <2>2, ResetAssumption DEF CronInv
  <2>4. StoreTypeOK'
    BY <1>2, <2>1 DEF storeVars, StoreTypeOK
  <2> QED BY <1>1, <1>5, <2>3, <2>4
<1>7. CASE QueryRooms
  <2> DEFINE found == {<<r, rooms[r].Last_Login_time>> : r \in DOMAIN rooms}
             j == [cron EXCEPT !.asked = TRUE, !.todo = found]
  <2>1. cron' = Rest(j) /\ UNCHANGED <<rooms, users, log, now, resets>>
    BY <1>7 DEF QueryRooms
  <2>2. found \in SUBSET (Rooms \X (Minutes \cup {None}))
    BY <1>2 DEF StoreTypeOK, RoomEntity
  <2> HIDE DEF found
  <2>3. j \in ResetJob /\ j.asked /\ j.room = cron.room /\ j.entity = cron.entity
    BY <1>2, <2>2 DEF CronInv, ResetJob
  <2> HIDE DEF j
  <2>4. CronInv'
    BY <1>2, <1>4, <2>1, <2>3 DEF CronInv
  <2> QED BY <1>1, <1>2, <1>5, <2>1, <2>4 DEF StoreTypeOK
<1>8. ASSUME NEW entry \in cron.todo, SkipRoom(entry) PROVE SystemInv'
  <2> DEFINE j == [cron EXCEPT !.todo = @ \ {entry}]
  <2>1. cron' = Rest(j) /\ UNCHANGED <<rooms, users, log, now, resets>>
    BY <1>8 DEF SkipRoom
  <2>2. /\ j \in ResetJob /\ j.asked = cron.asked /\ j.room = cron.room
        /\ j.entity = cron.entity
    BY <1>2 DEF CronInv, ResetJob
  <2> HIDE DEF j
  <2>3. CronInv'
    BY <1>2, <1>4, <1>8, <2>1, <2>2 DEF CronInv
  <2> QED BY <1>2, <1>5, <2>1, <2>3 DEF StoreTypeOK
<1>9. ASSUME NEW entry \in cron.todo, GetRoom(entry) PROVE SystemInv'
  <2> DEFINE j == [cron EXCEPT !.todo = @ \ {entry}, !.room = entry[1],
                               !.entity = rooms[entry[1]]]
  <2>1. cron' = j /\ UNCHANGED <<rooms, users, log, now, resets>>
        /\ entry[1] \in DOMAIN rooms
    BY <1>9 DEF GetRoom
  <2>2. entry[1] \in Rooms /\ rooms[entry[1]] \in RoomEntity
    BY <1>2, <2>1 DEF StoreTypeOK
  <2>3. j \in ResetJob /\ j.asked = cron.asked /\ j.entity = rooms[entry[1]]
    BY <1>2, <2>2 DEF CronInv, ResetJob
  <2> HIDE DEF j
  <2>4. CronInv'
    BY <1>2, <1>9, <2>1, <2>2, <2>3 DEF CronInv
  <2> QED BY <1>2, <1>5, <2>1, <2>4 DEF StoreTypeOK
<1>10. ASSUME NEW entry \in cron.todo, GetRoomRaises(entry) PROVE SystemInv'
  <2>1. cron' = CronIdle /\ UNCHANGED <<rooms, users, log, now, resets>>
    BY <1>10 DEF GetRoomRaises
  <2>2. CronInv'
    BY <1>2, <1>3, <2>1 DEF CronInv
  <2> QED BY <1>2, <1>5, <2>1, <2>2 DEF StoreTypeOK
<1>11. CASE PutReset
  <2> DEFINE entity == [cron.entity EXCEPT !.Capacity = 0, !.Last_Login_time = None]
             j == [cron EXCEPT !.room = None, !.entity = None]
  <2>1. /\ rooms' = Put(rooms, cron.room, entity) /\ cron' = Rest(j)
        /\ UNCHANGED <<users, log, now, resets>> /\ cron.room # None
    BY <1>11 DEF PutReset
  <2>2. cron.room \in Rooms /\ cron.entity \in RoomEntity
    BY <1>2, <2>1 DEF CronInv, ResetJob
  <2>3. entity \in RoomEntity
    BY <2>2 DEF RoomEntity
  <2>4. j \in ResetJob /\ j.room = None /\ j.todo = cron.todo /\ j.asked = cron.asked
    BY <1>2 DEF CronInv, ResetJob
  <2> HIDE DEF j, entity
  <2>5. CronInv'
    BY <1>2, <1>4, <2>1, <2>4 DEF CronInv
  <2>6. StoreTypeOK'
    BY <1>2, <2>1, <2>2, <2>3 DEF StoreTypeOK, Put
  <2> QED BY <1>1, <1>5, <2>5, <2>6
<1> QED BY <1>1, <1>6, <1>7, <1>8, <1>9, <1>10, <1>11 DEF CronStep, ResetStep

(* Every step of the system preserves the invariant. *)
LEMMA NextSystem == SystemInv /\ [SystemNext]_systemVars => SystemInv'
<1> SUFFICES ASSUME SystemInv, [SystemNext]_systemVars PROVE SystemInv'
  OBVIOUS
<1>1. CASE ServerStep
  <2>1. SafetyInv' /\ UNCHANGED <<web, edits, cron, resets>>
    BY <1>1, StepOfServer, NextSafety DEF SystemInv
  <2> QED BY <2>1 DEF SystemInv, SiteInv, CronInv
<1>2. CASE Tick
  <2>1. StoreTypeOK'
    BY <1>2 DEF Tick, SystemInv, SafetyInv, ServerTypeOK, StoreTypeOK
  <2> QED BY <1>2, <2>1, ForeignSafety DEF Tick, SystemInv, SiteInv, CronInv
<1>3. CASE UNCHANGED systemVars
  <2>1. StoreTypeOK'
    BY <1>3 DEF systemVars, SystemInv, SafetyInv, ServerTypeOK, StoreTypeOK
  <2> QED BY <1>3, <2>1, ForeignSafety DEF systemVars, SystemInv, SiteInv, CronInv
<1> QED BY <1>1, <1>2, <1>3, SiteSafety, CronSafety DEF SystemNext

LEMMA SystemAlways == SystemSpec => []SystemInv
BY InitSystem, NextSystem, PTL DEF SystemSpec

(* Server, website and cron job keep their types, and so does the Datastore *)
(* they share, whoever's put of a room comes first, whatever is deleted     *)
(* between a get and a put, and whichever calls of the server fail.        *)
THEOREM SystemTypes == SystemSpec => []SystemTypeOK
<1>1. ASSUME SystemInv PROVE SystemTypeOK
  <2>1. SiteTypeOK
    BY <1>1 DEF SystemInv, SiteInv, Request, RequestOK, SiteTypeOK, Uploads
  <2>2. ResetTypeOK
    BY <1>1 DEF SystemInv, CronInv, ResetJob, ResetTypeOK
  <2> QED BY <1>1, <2>1, <2>2 DEF SystemInv, SafetyInv, SystemTypeOK
<1> QED BY <1>1, SystemAlways, PTL

(* Neither the website nor the cron job makes a hole in the log. *)
THEOREM SystemLogHasNoGaps == SystemSpec => []NoGaps
<1>1. SystemInv => NoGaps
  BY DEF SystemInv, SafetyInv
<1> QED BY <1>1, SystemAlways, PTL

-----------------------------------------------------------------------------
(* Visits, when the taps are kept apart.  Rooms may be deleted under a       *)
(* thread here, so that not every person who was let in is recorded.       *)
VisitsApart == Apart /\ VisitsInv(Rooms \X Users)

(* The website creates users of kind 'User' without a last room, and the    *)
(* cron job and the clock create none.                                     *)
LEMMA ForeignIsolated ==
  ASSUME VisitsApart, SafetyInv', UNCHANGED <<log, pc, job>>,
         \A k \in DOMAIN users' :
           \/ k \in DOMAIN users /\ users'[k] = users[k]
           \/ k[1] = "User" /\ users'[k].Last_Room = None
  PROVE  VisitsApart'
<1> DEFINE P == Rooms \X Users
<1>1. NobodyMoves'
  BY DEF VisitsApart, VisitsInv, NobodyMoves, Active
<1>2. \A c \in Conns : Here(c, P)' <=> Here(c, P)
  BY DEF Here
<1>3. Alone(P)' /\ Fresh(P)'
  BY <1>2 DEF VisitsApart, VisitsInv, Alone, Active, Fresh
<1>4. LastOpen(P)' /\ OwnVisits(log')
  BY DEF VisitsApart, VisitsInv, LastOpen
<1> HIDE DEF P
<1>5. VisitsInv(P)'
  BY <1>1, <1>3, <1>4 DEF VisitsApart, VisitsInv, P
<1> QED BY <1>5 DEF VisitsApart, Apart, P

(* Every step of the system preserves the invariant of IsolationProofs, and *)
(* writes no visit that is closed.                                         *)
LEMMA NextSystemIsolated ==
  ASSUME SystemInv, VisitsApart, [SystemNext]_systemVars
  PROVE  /\ VisitsApart'
         /\ \A k \in DOMAIN log : ~log[k].open => k \in DOMAIN log' /\ log'[k] = log[k]
<1>1. SafetyInv'
  BY NextSystem DEF SystemInv
<1>2. CASE ServerStep
  <2>1. ServerNext /\ VisitsInv(Rooms \X Users) /\ SafetyInv /\ Apart
    BY <1>2, StepOfServer DEF VisitsApart, SystemInv
  <2>2. VisitsInv(Rooms \X Users)'
    BY <2>1, NextApart
  <2> QED BY <2>1, <2>2, ClosedIsKept, AllVisits DEF VisitsApart, Apart
<1>3. CASE SiteStep
  BY <1>1, <1>3, SiteSafety, ForeignIsolated
<1>4. CASE CronStep
  BY <1>1, <1>4, CronSafety, ForeignIsolated
<1>5. CASE Tick
  BY <1>1, <1>5, ForeignIsolated DEF Tick
<1>6. CASE UNCHANGED systemVars
  BY <1>1, <1>6, ForeignIsolated DEF systemVars
<1> QED BY <1>2, <1>3, <1>4, <1>5, <1>6 DEF SystemNext

LEMMA SystemIsolatedAlways == Apart /\ SystemSpec => [](SystemInv /\ VisitsApart)
<1>1. Apart /\ SystemInit => SystemInv /\ VisitsApart
  BY InitSystem, InitIsolated DEF SystemInit, VisitsApart, IsolatedInv, Apart
<1>2. SystemInv /\ VisitsApart /\ [SystemNext]_systemVars => (SystemInv /\ VisitsApart)'
  BY NextSystem, NextSystemIsolated
<1> QED BY <1>1, <1>2, PTL DEF SystemSpec

(* With taps kept apart a user has at most one visit to a room open, and it *)
(* is the last one, also when rooms and users are deleted or uploaded       *)
(* again between any two calls of a thread: visits are not.                *)
THEOREM SystemOneOpenVisit == Apart /\ SystemSpec => []OpenIsLast
<1>1. VisitsApart => OpenIsLast
  BY AllVisits DEF VisitsApart, VisitsInv, LastOpen, OpenIsLast
<1> QED BY <1>1, SystemIsolatedAlways, PTL

(* Then nobody, neither the website nor the cron job, writes a visit that   *)
(* is over.                                                                *)
THEOREM SystemHistoryIsFinal == Apart /\ SystemSpec => ClosedStaysClosed
<1>1. SystemInv /\ VisitsApart /\ [SystemNext]_systemVars =>
        [\A k \in DOMAIN log :
           ~log[k].open => k \in DOMAIN log' /\ log'[k] = log[k]]_serverVars
  BY NextSystemIsolated
<1> QED BY <1>1, SystemIsolatedAlways, PTL DEF SystemSpec, ClosedStaysClosed

-----------------------------------------------------------------------------
(* Who may enter a room. *)

(* The entity e, read of room r some time ago, has the lists that are       *)
(* stored now.                                                             *)
Unedited(r, e) == r \in DOMAIN rooms /\ Access(rooms)[r] = <<e.Users, e.Group>>

(* What a thread is about to put back. *)
HeldByServer ==
  \A c \in Conns :
    /\ pc[c] = "put_login_time" => Unedited(job[c].room, job[c].entity)
    /\ pc[c] = "put_capacity" => Unedited(job[c].at, job[c].entity)

(* Why nobody puts back a list that was edited: while a request of the      *)
(* website is under way nothing else is, and so the entity it has read is   *)
(* the one that is stored.                                                 *)
QuietInv ==
  /\ Editing = "quiet" /\ SystemInv /\ HeldByServer
  /\ cron.room # None => Unedited(cron.room, cron.entity)
  /\ \A h \in Handlers : web[h].op # "idle" =>
       /\ ServerRests /\ cron = CronIdle
       /\ \A g \in Handlers \ {h} : web[g].op = "idle"
  /\ \A h \in Handlers : web[h].op \in ListEdits =>
       web[h].room \in DOMAIN rooms /\ web[h].entity = rooms[web[h].room]

(* A put of the lists that are stored changes no access. *)
LEMMA PutKeepsAccess ==
  ASSUME NEW r, NEW e, Unedited(r, e), rooms' = Put(rooms, r, e)
  PROVE  Access(rooms') = Access(rooms)
<1>1. DOMAIN rooms' = DOMAIN rooms /\ \A q \in DOMAIN rooms : q # r => rooms'[q] = rooms[q]
  BY DEF Unedited, Put
<1>2. rooms'[r] = e /\ r \in DOMAIN rooms
  BY DEF Unedited, Put
<1>3. e.Users = rooms[r].Users /\ e.Group = rooms[r].Group
  BY <1>2 DEF Unedited, Access
<1>4. \A q \in DOMAIN rooms : rooms'[q].Users = rooms[q].Users /\ rooms'[q].Group = rooms[q].Group
  BY <1>1, <1>2, <1>3
<1> QED BY <1>1, <1>4 DEF Access

(* While the access stays, so does what others hold of it. *)
LEMMA UneditedStays ==
  ASSUME Access(rooms') = Access(rooms), NEW r, NEW e, Unedited(r, e)
  PROVE  /\ r \in DOMAIN rooms' /\ Access(rooms')[r] = <<e.Users, e.Group>>
<1>1. DOMAIN Access(rooms') = DOMAIN rooms' /\ DOMAIN Access(rooms) = DOMAIN rooms
  BY DEF Access
<1> QED BY <1>1 DEF Unedited

(* The server changes no access as long as it holds none that is old. *)
LEMMA ServerKeepsAccess ==
  ASSUME SafetyInv, HeldByServer, ServerNext
  PROVE  Access(rooms') = Access(rooms) /\ HeldByServer'
<1>1. job \in [Conns -> Job] /\ pc \in [Conns -> Calls \cup Ended] /\ StoreTypeOK
      /\ ThreadState
  BY DEF SafetyInv, ServerTypeOK
<1>2. ASSUME NEW c \in Conns, Access(rooms') = Access(rooms),
             \A d \in Conns \ {c} : pc'[d] = pc[d] /\ job'[d] = job[d],
             pc'[c] = "put_login_time" => Unedited(job'[c].room, job'[c].entity),
             pc'[c] = "put_capacity" => Unedited(job'[c].at, job'[c].entity)
      PROVE  HeldByServer'
  <2>1. \A d \in Conns :
          /\ pc'[d] = "put_login_time" => Unedited(job'[d].room, job'[d].entity)
          /\ pc'[d] = "put_capacity" => Unedited(job'[d].at, job'[d].entity)
    BY <1>2 DEF HeldByServer
  <2>2. \A r, e : Unedited(r, e) =>
          r \in DOMAIN rooms' /\ Access(rooms')[r] = <<e.Users, e.Group>>
    BY <1>2, UneditedStays
  <2>3. \A r, e : Unedited(r, e)' <=>
          r \in DOMAIN rooms' /\ Access(rooms')[r] = <<e.Users, e.Group>>
    BY DEF Unedited
  <2> QED BY <2>1, <2>2, <2>3 DEF HeldByServer, Unedited
<1>3. ASSUME NEW c \in Conns, NEW from, NEW to, NEW j, Goes(c, from, to, j)
      PROVE  /\ pc'[c] = to /\ job'[c] = j /\ pc[c] = from
             /\ \A d \in Conns \ {c} : pc'[d] = pc[d] /\ job'[d] = job[d]
  BY <1>1, <1>3 DEF Goes
<1>4. ASSUME NEW c \in Conns, Receive(c) \/ CallFails(c)
      PROVE  Access(rooms') = Access(rooms) /\ HeldByServer'
  <2>1. /\ rooms' = rooms
        /\ pc'[c] \notin {"put_login_time", "put_capacity"}
        /\ \A d \in Conns \ {c} : pc'[d] = pc[d] /\ job'[d] = job[d]
    BY <1>1, <1>4 DEF Receive, ReceiveLogin, ReceiveUnsplittable, ReceiveGarbage, Receives,
                      CallFails
  <2> QED BY <1>2, <2>1
<1>5. ASSUME NEW c \in Conns, Run(c),
             ~GetLoginTime(c), ~PutLoginTime(c), ~GetCapacity(c), ~PutCapacity(c)
      PROVE  Access(rooms') = Access(rooms) /\ HeldByServer'
  <2>1. ASSUME NEW from, NEW to, NEW j, Goes(c, from, to, j), rooms' = rooms,
               to \notin {"put_login_time", "put_capacity"}
        PROVE  Access(rooms') = Access(rooms) /\ HeldByServer'
    BY <1>2, <1>3, <2>1
  <2>2. CASE IsUsersFromRoom(c)
    BY <2>1, <2>2 DEF IsUsersFromRoom, Reads
  <2>3. CASE GetRoomGroup(c)
    BY <2>1, <2>3 DEF GetRoomGroup, Reads
  <2>4. CASE GetUserGroup(c)
    <3>1. Goes(c, "get_user_Group", "send_allowed", job[c]) /\ rooms' = rooms
      BY <2>4 DEF GetUserGroup, Reads
    <3> QED BY <2>1, <3>1
  <2>5. CASE SendAllowed(c)
    <3> DEFINE j == [job[c] EXCEPT !.reply = "230 Allowed"]
    <3>1. Goes(c, "send_allowed", "get_current_room", j) /\ rooms' = rooms
      BY <2>5 DEF SendAllowed, Reads
    <3> HIDE DEF j
    <3> QED BY <2>1, <3>1
  <2>6. CASE SendDenied(c)
    <3> DEFINE j == Over([job[c] EXCEPT !.reply = "430 Denied"])
    <3>1. Goes(c, "get_user_Group", "closed", j) /\ rooms' = rooms
      BY <2>6 DEF SendDenied, Reads
    <3> HIDE DEF j
    <3> QED BY <2>1, <3>1
  <2>7. CASE GetRoomGroupRaises(c)
    BY <2>1, <2>7 DEF GetRoomGroupRaises, Raises, Reads
  <2>8. CASE GetCurrentRoom(c) \/ SetCurrentRoom(c)
    BY <2>1, <2>8 DEF GetCurrentRoom, SetCurrentRoom, Reads
  <2>9. CASE \E call \in {"login_room", "logout_room"} : Scan(c, call)
    BY <2>1, <2>9 DEF Scan, Reads
  <2>10. CASE LoginFree(c) \/ LoginRefused(c) \/ PutLogin(c) \/ LogoutRaises(c)
             \/ LogoutFound(c)
    BY <2>1, <2>10 DEF LoginFree, LoginRefused, PutLogin, LogoutRaises, LogoutFound,
       Raises,
       Reads
  <2>11. CASE GetPrevious(c) \/ GetPreviousRaises(c) \/ PutLogout(c)
    BY <2>1, <2>11 DEF GetPrevious, GetPreviousRaises, PutLogout, Raises, Reads
  <2> QED BY <1>5, <2>2, <2>3, <2>4, <2>5, <2>6, <2>7, <2>8, <2>9, <2>10, <2>11
         DEF Run
<1>6. ASSUME NEW c \in Conns, GetLoginTime(c)
      PROVE  Access(rooms') = Access(rooms) /\ HeldByServer'
  <2> DEFINE r == job[c].room
             entity == [rooms[r] EXCEPT !.Last_Login_time = now]
             j == [job[c] EXCEPT !.entity = entity]
  <2>1. rooms' = rooms
    BY <1>6 DEF GetLoginTime, Reads
  <2>2. CASE r \in DOMAIN rooms
    <3>1. Goes(c, "get_login_time", "put_login_time", j)
      BY <1>6, <2>2 DEF GetLoginTime, Reads
    <3>2. entity.Users = rooms[r].Users /\ entity.Group = rooms[r].Group
      BY <1>1, <2>2 DEF StoreTypeOK, RoomEntity
    <3>3. Unedited(r, entity)
      BY <2>2, <3>2 DEF Unedited, Access
    <3> HIDE DEF entity
    <3>4. j.room = r /\ j.entity = entity
      BY <1>1 DEF Job
    <3> HIDE DEF j, r
    <3>5. /\ pc'[c] = "put_login_time" /\ job'[c] = j
          /\ \A d \in Conns \ {c} : pc'[d] = pc[d] /\ job'[d] = job[d]
      BY <1>3, <3>1
    <3> QED BY <1>2, <2>1, <3>3, <3>4, <3>5
  <2>3. CASE r \notin DOMAIN rooms
    BY <1>2, <1>3, <1>6, <2>1, <2>3 DEF GetLoginTime, Reads
  <2> QED BY <2>2, <2>3
<1>7. ASSUME NEW c \in Conns, GetCapacity(c)
      PROVE  Access(rooms') = Access(rooms) /\ HeldByServer'
  <2> DEFINE r == job[c].at
             j == [job[c] EXCEPT !.entity = rooms[r]]
  <2>1. rooms' = rooms
    BY <1>7 DEF GetCapacity, Raises, Reads
  <2>2. CASE r \in DOMAIN rooms
    <3>1. Goes(c, "get_capacity", "put_capacity", j)
      BY <1>7, <2>2 DEF GetCapacity, Reads
    <3>2. Unedited(r, rooms[r])
      BY <2>2 DEF Unedited, Access
    <3>3. j.at = r /\ j.entity = rooms[r]
      BY <1>1 DEF Job
    <3> HIDE DEF j, r
    <3>4. /\ pc'[c] = "put_capacity" /\ job'[c] = j
          /\ \A d \in Conns \ {c} : pc'[d] = pc[d] /\ job'[d] = job[d]
      BY <1>3, <3>1
    <3> QED BY <1>2, <2>1, <3>2, <3>3, <3>4
  <2>3. CASE r \notin DOMAIN rooms
    BY <1>2, <1>3, <1>7, <2>1, <2>3 DEF GetCapacity, Raises, Reads
  <2> QED BY <2>2, <2>3
<1>8. ASSUME NEW c \in Conns, PutLoginTime(c)
      PROVE  Access(rooms') = Access(rooms) /\ HeldByServer'
  <2>1. pc[c] = "put_login_time" /\ rooms' = Put(rooms, job[c].room, job[c].entity)
    BY <1>8 DEF PutLoginTime, Goes
  <2>2. Access(rooms') = Access(rooms)
    BY <2>1, PutKeepsAccess DEF HeldByServer
  <2> QED BY <1>2, <1>3, <1>8, <2>2 DEF PutLoginTime
<1>9. ASSUME NEW c \in Conns, PutCapacity(c)
      PROVE  Access(rooms') = Access(rooms) /\ HeldByServer'
  <2> DEFINE old == job[c].entity
             new == [old EXCEPT !.Capacity = NewCapacity(@, job[c].task = "login")]
  <2>1. pc[c] = "put_capacity" /\ rooms' = Put(rooms, job[c].at, new)
    BY <1>9 DEF PutCapacity, Goes
  <2>2. old \in RoomEntity
    BY <1>1, <2>1 DEF ThreadState, ThreadOK
  <2>3. new.Users = old.Users /\ new.Group = old.Group
    BY <2>2 DEF RoomEntity
  <2>4. Unedited(job[c].at, new)
    BY <2>1, <2>3 DEF HeldByServer, Unedited
  <2> HIDE DEF new
  <2>5. Access(rooms') = Access(rooms)
    BY <2>1, <2>4, PutKeepsAccess
  <2>6. PICK to \in {"login_room", "closed"} : \E j : Goes(c, "put_capacity", to, j)
    BY <1>9 DEF PutCapacity
  <2> QED BY <1>2, <1>3, <2>5, <2>6
<1> QED BY <1>4, <1>5, <1>6, <1>7, <1>8, <1>9 DEF ServerNext

(* The cron job, too, puts back the lists it has read; and it reads none    *)
(* while a request of the website is under way.                            *)
LEMMA CronKeepsAccess ==
  ASSUME QuietInv, CronStep
  PROVE  /\ Access(rooms') = Access(rooms)
         /\ cron'.room # None => Unedited(cron.room, cron.entity)'
<1>1. cron \in ResetJob /\ StoreTypeOK /\ CronIdle.room = None
      /\ (cron.room # None => cron.entity \in RoomEntity)
  BY DEF QuietInv, SystemInv, CronInv, SafetyInv, ServerTypeOK, CronIdle
<1>2. ASSUME rooms' = rooms,
             \/ cron'.room = None
             \/ cron'.room = cron.room /\ cron'.entity = cron.entity
      PROVE  /\ Access(rooms') = Access(rooms)
             /\ cron'.room # None => Unedited(cron.room, cron.entity)'
  BY <1>2 DEF QuietInv, Unedited
<1>3. ASSUME NEW j, Rest(j).room # None PROVE Rest(j) = j
  BY <1>1, <1>3 DEF Rest
<1>4. CASE StartReset
  <2>1. rooms' = rooms /\ cron'.room = None
    BY <1>1, <1>4 DEF StartReset, storeVars, CronIdle
  <2> QED BY <1>2, <2>1
<1>5. CASE QueryRooms
  <2> DEFINE found == {<<r, rooms[r].Last_Login_time>> : r \in DOMAIN rooms}
             j == [cron EXCEPT !.asked = TRUE, !.todo = found]
  <2>1. rooms' = rooms /\ cron' = Rest(j)
    BY <1>5 DEF QueryRooms
  <2>2. j.room = cron.room /\ j.entity = cron.entity
    BY <1>1 DEF ResetJob
  <2> HIDE DEF j
  <2> QED BY <1>2, <1>3, <2>1, <2>2
<1>6. ASSUME NEW entry \in cron.todo, SkipRoom(entry)
      PROVE  /\ Access(rooms') = Access(rooms)
             /\ cron'.room # None => Unedited(cron.room, cron.entity)'
  <2> DEFINE j == [cron EXCEPT !.todo = @ \ {entry}]
  <2>1. rooms' = rooms /\ cron' = Rest(j)
    BY <1>6 DEF SkipRoom
  <2>2. j.room = cron.room /\ j.entity = cron.entity
    BY <1>1 DEF ResetJob
  <2> HIDE DEF j
  <2> QED BY <1>2, <1>3, <2>1, <2>2
<1>7. ASSUME NEW entry \in cron.todo, GetRoom(entry)
      PROVE  /\ Access(rooms') = Access(rooms)
             /\ cron'.room # None => Unedited(cron.room, cron.entity)'
  <2>1. rooms' = rooms /\ entry[1] \in DOMAIN rooms
    BY <1>7 DEF GetRoom
  <2>2. cron'.room = entry[1] /\ cron'.entity = rooms[entry[1]]
    BY <1>1, <1>7 DEF GetRoom, ResetJob
  <2> QED BY <2>1, <2>2 DEF Unedited, Access
<1>8. ASSUME NEW entry \in cron.todo, GetRoomRaises(entry)
      PROVE  /\ Access(rooms') = Access(rooms)
             /\ cron'.room # None => Unedited(cron.room, cron.entity)'
  BY <1>1, <1>2, <1>8 DEF GetRoomRaises
<1>9. CASE PutReset
  <2> DEFINE entity == [cron.entity EXCEPT !.Capacity = 0, !.Last_Login_time = None]
             j == [cron EXCEPT !.room = None, !.entity = None]
  <2>1. cron.room # None /\ rooms' = Put(rooms, cron.room, entity) /\ cron' = Rest(j)
    BY <1>9 DEF PutReset
  <2>2. entity.Users = cron.entity.Users /\ entity.Group = cron.entity.Group
    BY <1>1, <2>1 DEF RoomEntity
  <2>3. Unedited(cron.room, entity)
    BY <2>1, <2>2 DEF QuietInv, Unedited
  <2>4. j.room = None
    BY <1>1 DEF ResetJob
  <2> HIDE DEF entity, j
  <2>5. Access(rooms') = Access(rooms)
    BY <2>1, <2>3, PutKeepsAccess
  <2>6. cron'.room = None
    BY <1>3, <2>1, <2>4
  <2> QED BY <2>5, <2>6
<1> QED BY <1>4, <1>5, <1>6, <1>7, <1>8, <1>9 DEF CronStep, ResetStep

(* A request finds everybody else at rest. *)
LEMMA OneRequest ==
  ASSUME QuietInv, NEW h \in Handlers,
         \/ Finish(h)
         \/ Begin(h) /\ NobodyEdits /\ ServerRests /\ cron = CronIdle
  PROVE  /\ ServerRests /\ cron = CronIdle
         /\ \A g \in Handlers \ {h} : web[g].op = "idle"
         /\ Finish(h) => web[h].op \in ListEdits \cup Uploads
<1>1. Finish(h) => web[h].op \in ListEdits \cup Uploads
  BY DEF Finish, FinishEdit, PutRow, QuietInv, SystemInv, SiteInv, RequestOK
<1>2. "idle" \notin ListEdits \cup Uploads
  BY DEF ListEdits, Uploads
<1> QED BY <1>1, <1>2 DEF QuietInv, NobodyEdits

(* The website changes the access it was asked to change: the entity that   *)
(* an edit puts back is the one stored, with that edit.                    *)
LEMMA SiteQuiet ==
  ASSUME QuietInv, SystemInv', SiteStep
  PROVE  QuietInv' /\ (Access(rooms') = Access(rooms) \/ AsRequested)
<1>1. PICK h \in Handlers :
        \/ Finish(h)
        \/ Begin(h) /\ NobodyEdits /\ ServerRests /\ cron = CronIdle
  BY DEF SiteStep, QuietInv
<1>2. UNCHANGED <<pc, job, cron>>
  BY DEF SiteStep
<1>3. /\ ServerRests /\ cron = CronIdle
      /\ \A g \in Handlers \ {h} : web[g].op = "idle"
      /\ Finish(h) => web[h].op \in ListEdits \cup Uploads
  BY <1>1, OneRequest
<1>4. /\ web \in [Handlers -> Request] /\ RequestOK(web[h]) /\ CronIdle.room = None
      /\ Idle.op = "idle"
  BY DEF QuietInv, SystemInv, SiteInv, CronIdle, Idle
<1>5. ServerRests' /\ cron' = CronIdle /\ HeldByServer'
  <2>1. ServerRests'
    BY <1>2, <1>3 DEF ServerRests, Active
  <2> QED BY <1>2, <1>3, <2>1 DEF HeldByServer, ServerRests, Active, Calls
(* What is left to show of a request: what it has read is what is stored.   *)
<1>6. ASSUME NEW w, web' = [web EXCEPT ![h] = w],
             w.op \in ListEdits => w.room \in DOMAIN rooms' /\ w.entity = rooms'[w.room]
      PROVE  QuietInv'
  <2>1. /\ web'[h] = w /\ \A g \in Handlers \ {h} : web'[g] = web[g]
    BY <1>4, <1>6
  <2>2. \A g \in Handlers : web'[g].op # "idle" =>
          \A f \in Handlers \ {g} : web'[f].op = "idle"
    BY <1>3, <2>1
  <2>3. \A g \in Handlers : web'[g].op \in ListEdits =>
          web'[g].room \in DOMAIN rooms' /\ web'[g].entity = rooms'[web'[g].room]
    BY <1>3, <1>6, <2>1 DEF ListEdits
  <2> QED BY <1>4, <1>5, <2>2, <2>3 DEF QuietInv
<1>7. ASSUME web[h].op = "idle", web' = web PROVE QuietInv'
  <2>1. web' = [web EXCEPT ![h] = web[h]]
    BY <1>4, <1>7
  <2> QED BY <1>6, <1>7, <2>1 DEF ListEdits
<1>8. ASSUME NEW op \in ListEdits, NEW r \in Rooms, NEW what, BeginEdit(h, op, r, what)
      PROVE  QuietInv' /\ rooms' = rooms
  <2> DEFINE w == [Idle EXCEPT !.op = op, !.room = r, !.what = what, !.entity = rooms[r]]
  <2>1. r \in DOMAIN rooms /\ rooms' = rooms /\ web' = [web EXCEPT ![h] = w]
    BY <1>8 DEF BeginEdit, storeVars
  <2>2. w.room = r /\ w.entity = rooms[r]
    BY DEF Idle
  <2> HIDE DEF w
  <2> QED BY <1>6, <2>1, <2>2
<1>9. ASSUME NEW op \in Uploads, NEW file, BeginUpload(h, op, file)
      PROVE  QuietInv' /\ rooms' = rooms
  <2> DEFINE w == [Idle EXCEPT !.op = op, !.rows = file]
  <2>1. rooms' = rooms /\ web' = [web EXCEPT ![h] = w]
    BY <1>9 DEF BeginUpload, storeVars
  <2>2. w.op \notin ListEdits
    BY DEF Idle, ListEdits, Uploads
  <2> HIDE DEF w
  <2> QED BY <1>6, <2>1, <2>2
<1>10. ASSUME NEW r, DeleteRoom(h, r) PROVE QuietInv' /\ AsRequested
  <2>1. QuietInv'
    BY <1>7, <1>10 DEF DeleteRoom, Serves
  <2>2. web'[h] = web[h] /\ edits' = edits + 1
    BY <1>10 DEF DeleteRoom, Serves
  <2> QED BY <2>1, <2>2 DEF AsRequested
<1>11. ASSUME NEW name, DeleteUser(h, name) PROVE QuietInv' /\ rooms' = rooms
  BY <1>7, <1>11 DEF DeleteUser, Serves
<1>12. CASE FinishEdit(h)
  <2>1. /\ web[h].op \in ListEdits /\ web' = [web EXCEPT ![h] = Idle]
        /\ rooms' = Put(rooms, web[h].room, Edited(web[h].op, web[h].entity, web[h].what))
    BY <1>12 DEF FinishEdit
  <2>2. web[h].room \in DOMAIN rooms /\ web[h].entity = rooms[web[h].room]
    BY <2>1 DEF QuietInv
  <2>3. QuietInv'
    BY <1>4, <1>6, <2>1 DEF ListEdits
  <2>4. web'[h] = Idle
    BY <1>4, <2>1
  <2>5. rooms' = Put(rooms, web[h].room,
                     Edited(web[h].op, rooms[web[h].room], web[h].what))
    BY <2>1, <2>2
  <2>6. AsRequested
    BY <2>1, <2>2, <2>4, <2>5 DEF AsRequested
  <2> QED BY <2>3, <2>6
<1>13. CASE PutRow(h)
  <2> DEFINE left == Tail(web[h].rows)
             w == IF left = << >> THEN Idle ELSE [web[h] EXCEPT !.rows = left]
  <2>1. /\ web[h].op \in Uploads /\ web[h].rows # << >>
        /\ web[h].rows \in Seq(RoomRow) \cup Seq(UserRow)
    BY <1>3, <1>4, <1>13 DEF Finish, PutRow, RequestOK, Uploads, ListEdits
  <2>2. web' = [web EXCEPT ![h] = w]
    BY <1>13 DEF PutRow
  <2>3. web[h] \in Request
    BY <1>4
  <2>4. /\ left # << >> => w.op = web[h].op /\ w.rows = left
        /\ left = << >> => w.op = "idle"
    BY <1>4, <2>3 DEF Request
  <2>5. Len(left) # Len(web[h].rows)
    BY <2>1
  <2> HIDE DEF w
  <2>6. w # web[h]
    BY <2>1, <2>4, <2>5 DEF Uploads
  <2>7. QuietInv'
    BY <1>6, <2>1, <2>2, <2>4 DEF ListEdits, Uploads
  <2>8. CASE web[h].op = "uploadRooms"
    <3>1. web'[h] # web[h]
      BY <1>4, <2>2, <2>6
    <3> QED BY <2>7, <2>8, <3>1 DEF AsRequested
  <2>9. CASE web[h].op # "uploadRooms"
    <3>1. rooms' = rooms
      BY <1>13, <2>9 DEF PutRow
    <3> QED BY <2>7, <3>1
  <2> QED BY <2>8, <2>9
<1>14. CASE Begin(h)
  <2>1. CASE \E op \in ListEdits, r \in Rooms, what \in Names \cup Groups :
               BeginEdit(h, op, r, what)
    BY <1>8, <2>1
  <2>2. CASE \/ \E file \in RoomFiles : BeginUpload(h, "uploadRooms", file)
             \/ \E file \in UserFiles : BeginUpload(h, "uploadUsers", file)
    BY <1>9, <2>2 DEF Uploads
  <2>3. CASE \E r \in Rooms : DeleteRoom(h, r)
    BY <1>10, <2>3
  <2>4. CASE \E name \in Names : DeleteUser(h, name)
    BY <1>11, <2>4
  <2> QED BY <1>14, <2>1, <2>2, <2>3, <2>4 DEF Begin
<1> QED BY <1>1, <1>12, <1>13, <1>14 DEF Finish

(* The server and the cron job begin nothing while a request is under way,  *)
(* and then they are not at work.                                          *)
LEMMA SiteRests ==
  ASSUME QuietInv, ServerStep \/ CronStep
  PROVE  NobodyEdits
<1> SUFFICES ASSUME NEW h \in Handlers, web[h].op # "idle" PROVE FALSE
  BY DEF NobodyEdits
<1>1. ServerRests /\ ~NobodyEdits /\ Editing = "quiet"
  BY DEF QuietInv, NobodyEdits
<1>2. ~CronStep
  BY <1>1 DEF CronStep
<1>3. PICK c \in Conns : Run(c) \/ CallFails(c)
  BY <1>1, <1>2 DEF ServerStep
<1>4. ~Active(c)
  BY <1>1 DEF ServerRests
<1>5. ~CallFails(c)
  BY <1>4 DEF CallFails
<1>6. ~Run(c)
  BY <1>4 DEF Run, IsUsersFromRoom, GetRoomGroup, GetRoomGroupRaises, GetUserGroup,
     SendDenied, SendAllowed, GetCurrentRoom, SetCurrentRoom, Scan, LoginFree, LoginRefused,
     PutLogin, LogoutRaises, LogoutFound, GetPrevious, GetPreviousRaises, PutLogout,
     GetLoginTime, PutLoginTime, GetCapacity, PutCapacity, Raises, Reads, Goes, Active, Calls
<1> QED BY <1>3, <1>5, <1>6

LEMMA NextQuiet ==
  ASSUME QuietInv, [SystemNext]_systemVars
  PROVE  QuietInv' /\ (Access(rooms') = Access(rooms) \/ AsRequested)
<1>1. SystemInv'
  BY NextSystem DEF QuietInv
<1>2. ASSUME Access(rooms') = Access(rooms), NEW r, NEW e, Unedited(r, e)
      PROVE  r \in DOMAIN rooms' /\ Access(rooms')[r] = <<e.Users, e.Group>>
  BY <1>2, UneditedStays
<1>3. "idle" \notin ListEdits
  BY DEF ListEdits
<1>4. CASE ServerStep
  <2>1. NobodyEdits /\ UNCHANGED <<web, cron>>
    BY <1>4, SiteRests, StepOfServer
  <2>2. Access(rooms') = Access(rooms) /\ HeldByServer'
    BY <1>4, StepOfServer, ServerKeepsAccess DEF QuietInv, SystemInv
  <2>3. cron'.room # None => Unedited(cron.room, cron.entity)'
    BY <1>2, <2>1, <2>2 DEF QuietInv, Unedited
  <2> QED BY <1>1, <1>3, <2>1, <2>2, <2>3 DEF QuietInv, NobodyEdits
<1>5. CASE CronStep
  <2>1. NobodyEdits /\ UNCHANGED <<web, pc, job>>
    BY <1>5, SiteRests DEF CronStep
  <2>2. /\ Access(rooms') = Access(rooms)
        /\ cron'.room # None => Unedited(cron.room, cron.entity)'
    BY <1>5, CronKeepsAccess
  <2>3. HeldByServer'
    BY <1>2, <2>1, <2>2 DEF QuietInv, HeldByServer, Unedited
  <2> QED BY <1>1, <1>3, <2>1, <2>2, <2>3 DEF QuietInv, NobodyEdits
<1>6. CASE Tick \/ UNCHANGED systemVars
  <2>1. UNCHANGED <<rooms, pc, job, web, cron>>
    BY <1>6 DEF Tick, systemVars
  <2>2. HeldByServer'
    BY <2>1 DEF QuietInv, HeldByServer, Unedited
  <2>3. ServerRests' <=> ServerRests
    BY <2>1 DEF ServerRests, Active
  <2> QED BY <1>1, <2>1, <2>2, <2>3 DEF QuietInv, Unedited
<1> QED BY <1>1, <1>4, <1>5, <1>6, SiteQuiet DEF SystemNext

LEMMA QuietAlways == Editing = "quiet" /\ SystemSpec => []QuietInv
<1>1. Editing = "quiet" /\ SystemInit => QuietInv
  <2> SUFFICES ASSUME Editing = "quiet", SystemInit PROVE QuietInv
    OBVIOUS
  <2>1. SystemInv
    BY InitSystem
  <2>2. \A c \in Conns : pc[c] = "idle"
    BY DEF SystemInit, ServerInit
  <2>3. \A h \in Handlers : web[h].op = "idle"
    BY DEF SystemInit, SiteInit, Idle
  <2>4. cron.room = None
    BY DEF SystemInit, ResetInit, CronIdle
  <2> QED BY <2>1, <2>2, <2>3, <2>4 DEF QuietInv, HeldByServer, ListEdits
<1>2. QuietInv /\ [SystemNext]_systemVars => QuietInv'
  BY NextQuiet
<1> QED BY <1>1, <1>2, PTL DEF SystemSpec

(* While the website is used only when nothing else is at work, who may     *)
(* enter a room, and that there is one, is changed by requests about that   *)
(* alone, for any number of them: no put of the server or the cron job     *)
(* brings back a list, or a room, that was read before.  Taps need not be  *)
(* kept apart for it, and calls may fail.                                  *)
THEOREM AccessChangesAsRequested == Editing = "quiet" /\ SystemSpec => AccessAsRequested
<1>1. QuietInv /\ [SystemNext]_systemVars =>
        [Access(rooms') = Access(rooms) \/ AsRequested]_systemVars
  BY NextQuiet
<1> QED BY <1>1, QuietAlways, PTL DEF SystemSpec, AccessAsRequested

-----------------------------------------------------------------------------
(* The Capacity of a room, which is set to zero under the people inside. *)

(* The precondition of the theorem below, constant.  Each conjunct is       *)
(* needed: an edit of a list puts back the Capacity of an entity read       *)
(* before; two threads for one lock write its Capacity over each other;     *)
(* a thread that fails after the put of an Exit_Time leaves the Capacity    *)
(* above the number of people.  A stay may last any number of days.         *)
Gently ==
  Editing = "quiet" /\ Isolation = "room" /\ DOMAIN Aliases = {} /\ MaxFailures = 0

(* The Capacity that is shown; a room that is not stored shows none. *)
Stored(r) == IF r \in DOMAIN rooms THEN rooms[r].Capacity ELSE 0

(* A number that is in bounds once the thread has counted its person.       *)
Within(task, n, people) == IF task = "login" THEN n + 1 <= people ELSE n <= people + 1

(* What a thread that settles has stored, or is about to put, is in bounds  *)
(* when it is done; what was reset under it only is lower.                  *)
Capped(r) ==
  LET people == Cardinality(Inside(r)) IN
  /\ (\A c \in Conns : ~Settles(c, r)) => Stored(r) <= people
  /\ \A c \in Conns : Settles(c, r) =>
       /\ Within(job[c].task, Stored(r), people)
       /\ pc[c] \in {"put_login_time", "put_capacity"}
            => Within(job[c].task, job[c].entity.Capacity, people)

CappedInv ==
  /\ Gently /\ QuietInv /\ VisitsApart /\ Serial /\ OwnVisits(log)
  /\ \A c \in Conns : TaskOK(pc[c], job[c])
  /\ \A r \in Rooms : IsFiniteSet(Inside(r)) /\ Capped(r)

LEMMA InitCapped ==
  ASSUME Gently, SystemInit, QuietInv
  PROVE  CappedInv
<1>1. ServerInit /\ Apart /\ \A c \in Conns : pc[c] = "idle"
  BY DEF SystemInit, ServerInit, Gently, Apart
<1>2. VisitsApart
  BY <1>1, InitIsolated DEF VisitsApart, IsolatedInv, Apart
<1>3. \A r : Inside(r) = {}
  BY <1>1, InsideIs DEF ServerInit, StoreInit
<1>4. \A r : Stored(r) = 0
  <2>1. \A r \in DOMAIN rooms : r \in DOMAIN UploadedRooms /\ rooms[r].Capacity = 0
    BY <1>1 DEF ServerInit, StoreInit, NewRoom
  <2> QED BY <2>1 DEF Stored
<1>5. \A c \in Conns : \A r : ~Settles(c, r)
  BY <1>1 DEF Settles, Bookkeeping
<1>6. \A r : IsFiniteSet(Inside(r)) /\ Capped(r)
  BY <1>3, <1>4, <1>5, FS_EmptySet DEF Capped
<1>7. Serial /\ \A c \in Conns : TaskOK(pc[c], job[c])
  BY <1>1 DEF Serial, Active, Calls, TaskOK
<1>8. OwnVisits(log)
  BY <1>1 DEF OwnVisits, ServerInit, StoreInit
<1> QED BY <1>2, <1>6, <1>7, <1>8 DEF CappedInv

(* A number of people is a number, and so is what is stored. *)
LEMMA CappedTypes ==
  ASSUME CappedInv
  PROVE  /\ \A r \in Rooms : Stored(r) \in Nat /\ Cardinality(Inside(r)) \in Nat
         /\ StoreTypeOK /\ ThreadState
         /\ job \in [Conns -> Job] /\ pc \in [Conns -> Calls \cup Ended]
<1>1. /\ StoreTypeOK /\ ThreadState
      /\ job \in [Conns -> Job] /\ pc \in [Conns -> Calls \cup Ended]
  BY DEF CappedInv, VisitsApart, VisitsInv, SafetyInv, ServerTypeOK
<1>2. \A r \in Rooms : Stored(r) \in Nat
  BY <1>1 DEF StoreTypeOK, RoomEntity, Stored
<1>3. \A r \in Rooms : Cardinality(Inside(r)) \in Nat
  BY FS_CardinalityType DEF CappedInv
<1> QED BY <1>1, <1>2, <1>3

(* Website, cron job and clock: a Capacity stays, or is zero. *)
LEMMA ForeignCapped ==
  ASSUME CappedInv, QuietInv', VisitsApart', UNCHANGED <<log, pc, job>>,
         \A r \in Rooms : Stored(r)' \in {Stored(r), 0}
  PROVE  CappedInv'
<1>1. \A r : Inside(r)' = Inside(r)
  BY DEF Inside, OpenVisits
<1>2. \A d \in Conns : \A r : Settles(d, r)' <=> Settles(d, r)
  BY DEF Settles
<1>3. ASSUME NEW r \in Rooms PROVE Capped(r)'
  <2> DEFINE people == Cardinality(Inside(r))
  <2>1. Stored(r) \in Nat /\ people \in Nat /\ Capped(r)
    BY CappedTypes DEF CappedInv
  <2>2. Stored(r)' \in {Stored(r), 0} /\ Cardinality(Inside(r)') = people
    BY <1>1
  <2>3. ASSUME NEW task, Within(task, Stored(r), people)
        PROVE  Within(task, Stored(r)', people)
    BY <2>1, <2>2, <2>3 DEF Within
  <2>4. (\A d \in Conns : ~Settles(d, r)') => Stored(r)' <= people
    BY <1>2, <2>1, <2>2 DEF Capped
  <2>5. \A d \in Conns : Settles(d, r)' =>
          /\ Within(job'[d].task, Stored(r)', people)
          /\ pc'[d] \in {"put_login_time", "put_capacity"}
               => Within(job'[d].task, job'[d].entity.Capacity, people)
    BY <1>2, <2>1, <2>3 DEF Capped
  <2> QED BY <2>2, <2>4, <2>5 DEF Capped
<1>4. Serial' /\ OwnVisits(log') /\ \A c \in Conns : TaskOK(pc'[c], job'[c])
  BY DEF CappedInv, Serial, Active
<1>5. \A r \in Rooms : IsFiniteSet(Inside(r)')
  BY <1>1 DEF CappedInv
<1> QED BY <1>3, <1>4, <1>5 DEF CappedInv, Gently

(* Nobody else settles a room that a thread is at work for. *)
LEMMA SettlesAlone ==
  ASSUME VisitsApart, Serial, NEW c \in Conns, Active(c),
         NEW d \in Conns, d # c
  PROVE  ~Settles(d, job[c].at)
<1>1. job[c].at = job[c].room /\ (Active(d) => job[d].at = job[d].room)
  BY DEF VisitsApart, VisitsInv, NobodyMoves
<1>2. Active(d) => job[d].room # job[c].room
  BY DEF Serial
<1> QED BY <1>1, <1>2 DEF Settles, Bookkeeping, Active, Calls

(* A thread changes one room. *)
LEMMA RoomCapped ==
  ASSUME CappedInv, QuietInv', VisitsApart', Serial', NEW c \in Conns, Active(c),
         \A d \in Conns \ {c} : pc'[d] = pc[d] /\ job'[d] = job[d],
         TaskOK(pc'[c], job'[c]), OwnVisits(log'),
         NEW at \in Rooms, at = job[c].at,
         pc'[c] \in Bookkeeping => job'[c].at = at,
         \A r \in Rooms \ {at} : Inside(r)' = Inside(r) /\ Stored(r)' = Stored(r),
         IsFiniteSet(Inside(at)'),
         NEW people, people = Cardinality(Inside(at)'),
         pc'[c] \notin Bookkeeping => Stored(at)' <= people,
         pc'[c] \in Bookkeeping => Within(job'[c].task, Stored(at)', people),
         pc'[c] \in {"put_login_time", "put_capacity"}
           => Within(job'[c].task, job'[c].entity.Capacity, people)
  PROVE  CappedInv'
<1>1. \A d \in Conns \ {c} : \A r : Settles(d, r)' <=> Settles(d, r)
  BY DEF Settles
<1>2. \A d \in Conns \ {c} : ~Settles(d, at)
  BY SettlesAlone DEF CappedInv
<1>3. Settles(c, at)' <=> pc'[c] \in Bookkeeping
  BY DEF Settles
<1>4. Capped(at)'
  <2>1. \A d \in Conns : Settles(d, at)' => d = c /\ pc'[c] \in Bookkeeping
    BY <1>1, <1>2, <1>3
  <2>2. (\A d \in Conns : ~Settles(d, at)') => Stored(at)' <= people
    BY <1>3
  <2> QED BY <2>1, <2>2 DEF Capped
<1>5. ASSUME NEW r \in Rooms, r # at PROVE Capped(r)'
  <2>1. Capped(r) /\ Inside(r)' = Inside(r) /\ Stored(r)' = Stored(r)
    BY <1>5 DEF CappedInv
  <2>2. ~Settles(c, r) /\ ~Settles(c, r)'
    BY <1>5 DEF Settles
  <2>3. \A d \in Conns : Settles(d, r)' <=> Settles(d, r) /\ d # c
    BY <1>1, <2>2
  <2> QED BY <2>1, <2>2, <2>3 DEF Capped
<1>6. \A r \in Rooms : IsFiniteSet(Inside(r)')
  BY DEF CappedInv
<1>7. \A d \in Conns : TaskOK(pc'[d], job'[d])
  BY DEF CappedInv
<1> QED BY <1>4, <1>5, <1>6, <1>7 DEF CappedInv, Gently

LEMMA UnsettledCapped ==
  ASSUME CappedInv, QuietInv', VisitsApart', Serial', NEW c \in Conns, Unsettled(c)
  PROVE  CappedInv'
<1>1. \A r : Inside(r)' = Inside(r) /\ Stored(r)' = Stored(r)
  BY DEF Inside, OpenVisits, Unsettled, Stored
<1>2. \A d \in Conns : \A r : Settles(d, r)' <=> Settles(d, r)
  BY DEF Settles, Unsettled
<1>3. \A d \in Conns : \A r : Settles(d, r) => pc'[d] = pc[d] /\ job'[d] = job[d]
  BY DEF Settles, Unsettled
<1>4. ASSUME NEW r \in Rooms PROVE Capped(r)'
  <2>1. Capped(r)
    BY DEF CappedInv
  <2> QED BY <1>1, <1>2, <1>3, <2>1 DEF Capped
<1>5. OwnVisits(log') /\ \A d \in Conns : TaskOK(pc'[d], job'[d])
  BY DEF CappedInv, Unsettled
<1>6. \A r \in Rooms : IsFiniteSet(Inside(r)')
  BY <1>1 DEF CappedInv
<1> QED BY <1>4, <1>5, <1>6 DEF CappedInv, Gently

(* The gets of the room, and the put of its Last_Login_time: that put       *)
(* brings back a Capacity that was reset, but none that is too high.       *)
LEMMA BookkeepingCapped ==
  ASSUME CappedInv, QuietInv', VisitsApart', Serial', NEW c \in Conns,
         SetCurrentRoom(c) \/ GetLoginTime(c) \/ PutLoginTime(c) \/ GetCapacity(c)
  PROVE  CappedInv'
<1> PICK j, at, people : j = job[c] /\ at = j.at /\ people = Cardinality(Inside(at))
  OBVIOUS
<1>1. pc[c] \in Bookkeeping /\ Active(c)
  BY DEF SetCurrentRoom, GetLoginTime, PutLoginTime, GetCapacity, Raises, Reads, Goes,
         Bookkeeping, Active, Calls
<1>2. /\ j \in Job /\ at \in Rooms /\ at = j.room /\ ThreadOK(pc[c], j)
      /\ StoreTypeOK
  BY <1>1, CappedTypes DEF CappedInv, VisitsApart, VisitsInv, NobodyMoves, ThreadState,
     ThreadOK, Active
<1>3. /\ Within(j.task, Stored(at), people)
      /\ pc[c] \in {"put_login_time", "put_capacity"}
           => Within(j.task, j.entity.Capacity, people)
  <2>1. Settles(c, at) /\ Capped(at)
    BY <1>1, <1>2 DEF Settles, CappedInv
  <2> QED BY <2>1 DEF Capped
<1>4. people \in Nat /\ Stored(at) \in Nat
  BY <1>2, CappedTypes
<1>5. ASSUME NEW from, NEW to, NEW k, Goes(c, from, to, k), UNCHANGED log,
             \A r \in Rooms \ {at} : Stored(r)' = Stored(r),
             \/ /\ to \in Bookkeeping /\ k.at = at /\ k.task = j.task
                /\ Within(j.task, Stored(at)', people)
                /\ to \in {"put_login_time", "put_capacity"}
                     => Within(j.task, k.entity.Capacity, people)
             \/ to = "died" /\ Stored(at)' <= people
      PROVE  CappedInv'
  <2>1. /\ pc'[c] = to /\ job'[c] = k
        /\ \A d \in Conns \ {c} : pc'[d] = pc[d] /\ job'[d] = job[d]
    BY <1>5, CappedTypes DEF Goes
  <2>2. \A r : Inside(r)' = Inside(r)
    BY <1>5 DEF Inside, OpenVisits
  <2>3. TaskOK(to, k)
    BY <1>5 DEF TaskOK, Bookkeeping
  <2>4. OwnVisits(log') /\ IsFiniteSet(Inside(at)') /\ people = Cardinality(Inside(at)')
    BY <1>2, <1>5, <2>2 DEF CappedInv
  <2>5. "died" \notin Bookkeeping
    BY DEF Bookkeeping
  <2> QED BY <1>1, <1>2, <1>5, <2>1, <2>2, <2>3, <2>4, <2>5, RoomCapped
<1>6. \A x : LET k == [j EXCEPT !.entity = x] IN
             k.at = j.at /\ k.task = j.task /\ k.entity = x
  BY <1>2 DEF Job
<1>7. CASE SetCurrentRoom(c)
  <2>1. PICK to \in {"get_login_time", "get_capacity"} :
          Goes(c, "set_current_room", to, j) /\ UNCHANGED <<rooms, log>>
    BY <1>7 DEF SetCurrentRoom
  <2>2. \A r : Stored(r)' = Stored(r)
    BY <2>1 DEF Stored
  <2>3. to \in Bookkeeping
    BY DEF Bookkeeping
  <2> QED BY <1>3, <1>5, <2>1, <2>2, <2>3
<1>8. CASE GetLoginTime(c)
  <2>1. UNCHANGED <<rooms, log>>
    BY <1>8 DEF GetLoginTime, Reads
  <2>2. \A r : Stored(r)' = Stored(r)
    BY <2>1 DEF Stored
  <2>3. CASE at \in DOMAIN rooms
    <3> DEFINE entity == [rooms[at] EXCEPT !.Last_Login_time = now]
               k == [j EXCEPT !.entity = entity]
    <3>1. Goes(c, "get_login_time", "put_login_time", k)
      BY <1>2, <1>8, <2>3 DEF GetLoginTime, Reads
    <3>2. entity.Capacity = Stored(at)
      BY <1>2, <2>3 DEF StoreTypeOK, RoomEntity, Stored
    <3> HIDE DEF entity
    <3>3. k.at = at /\ k.task = j.task /\ k.entity = entity
      BY <1>6
    <3> HIDE DEF k
    <3> QED BY <1>3, <1>5, <2>1, <2>2, <3>1, <3>2, <3>3 DEF Bookkeeping
  <2>4. CASE at \notin DOMAIN rooms
    <3>1. Goes(c, "get_login_time", "get_capacity", j)
      BY <1>2, <1>8, <2>4 DEF GetLoginTime, Reads
    <3> QED BY <1>3, <1>5, <2>1, <2>2, <3>1 DEF Bookkeeping
  <2> QED BY <2>3, <2>4
<1>9. CASE PutLoginTime(c)
  <2> DEFINE k == [j EXCEPT !.entity = None]
  <2>1. /\ Goes(c, "put_login_time", "get_capacity", k) /\ UNCHANGED log
        /\ rooms' = Put(rooms, at, j.entity) /\ pc[c] = "put_login_time"
    BY <1>2, <1>9 DEF PutLoginTime, Goes
  <2>2. k.at = at /\ k.task = j.task
    BY <1>6
  <2>3. \A r \in Rooms \ {at} : Stored(r)' = Stored(r)
    BY <2>1 DEF Stored, Put
  <2>4. Stored(at)' = j.entity.Capacity
    BY <2>1 DEF Stored, Put
  <2>5. Within(j.task, Stored(at)', people)
    BY <1>3, <2>1, <2>4
  <2> HIDE DEF k
  <2> QED BY <1>5, <2>1, <2>2, <2>3, <2>5 DEF Bookkeeping
<1>10. CASE GetCapacity(c)
  <2>1. UNCHANGED <<rooms, log>>
    BY <1>10 DEF GetCapacity, Raises, Reads
  <2>2. \A r : Stored(r)' = Stored(r)
    BY <2>1 DEF Stored
  <2>3. CASE at \in DOMAIN rooms
    <3> DEFINE k == [j EXCEPT !.entity = rooms[at]]
    <3>1. Goes(c, "get_capacity", "put_capacity", k)
      BY <1>10, <2>3 DEF GetCapacity, Reads
    <3>2. k.at = at /\ k.task = j.task /\ k.entity = rooms[at] /\ Stored(at) = rooms[at].Capacity
      BY <1>6, <2>3 DEF Stored
    <3> HIDE DEF k
    <3> QED BY <1>3, <1>5, <2>1, <2>2, <3>1, <3>2 DEF Bookkeeping
  <2>4. CASE at \notin DOMAIN rooms
    <3>1. PICK k : Goes(c, "get_capacity", "died", k)
      BY <1>10, <2>4 DEF GetCapacity, Raises, Reads
    <3>2. Stored(at) = 0 /\ 0 <= people
      BY <1>4, <2>4 DEF Stored
    <3> QED BY <1>5, <2>1, <2>2, <3>1, <3>2
  <2> QED BY <2>3, <2>4
<1> QED BY <1>7, <1>8, <1>9, <1>10

(* The put of a visit: the Capacity is behind, or one ahead, of the people  *)
(* inside until the thread has put it, too.                                *)
LEMMA LogPutCapped ==
  ASSUME CappedInv, QuietInv', VisitsApart', Serial', NEW c \in Conns,
         NEW to \in {"set_current_room", "get_capacity"},
         NEW at, NEW u, NEW i,
         at = job[c].at /\ u = job[c].user /\ i = job[c].index,
         NEW visit, pc[c] \in {"put_login", "put_logout"},
         Goes(c, pc[c], to, job[c]), UNCHANGED rooms,
         log' = Put(log, <<at, u, i>>, visit),
         visit.user = u, visit.open <=> pc[c] = "put_login"
  PROVE  CappedInv'
<1>1. /\ at \in Rooms /\ OwnVisits(log') /\ Active(c)
      /\ \A r : r # at => Inside(r)' = Inside(r)
      /\ pc[c] = "put_login" => u \notin Inside(at) /\ Inside(at)' = Inside(at) \cup {u}
      /\ pc[c] = "put_logout" => u \in Inside(at) /\ Inside(at)' = Inside(at) \ {u}
  <2>1. VisitsInv(Rooms \X Users) /\ OwnVisits(log) /\ Active(c)
    BY DEF CappedInv, VisitsApart, Active, Calls
  <2>2. Here(c, Rooms \X Users)
    BY <2>1, ActiveHere
  <2>3. OwnVisits(log')
    BY <2>1 DEF Put, OwnVisits
  <2> QED BY <2>1, <2>2, <2>3, VisitMoves
<1>2. /\ pc'[c] = to /\ job'[c] = job[c]
      /\ \A d \in Conns \ {c} : pc'[d] = pc[d] /\ job'[d] = job[d]
  BY CappedTypes DEF Goes
<1>3. \A r : Stored(r)' = Stored(r)
  BY DEF Stored
<1>4. Stored(at) <= Cardinality(Inside(at)) /\ IsFiniteSet(Inside(at))
  <2>1. \A d \in Conns : ~Settles(d, at)
    BY <1>1, SettlesAlone DEF CappedInv, Settles, Bookkeeping
  <2> QED BY <1>1, <2>1 DEF CappedInv, Capped
<1>5. Stored(at) \in Nat /\ Cardinality(Inside(at)) \in Nat
  BY <1>1, CappedTypes
<1>6. PICK people : people = Cardinality(Inside(at)')
  OBVIOUS
<1>7. IsFiniteSet(Inside(at)') /\ Within(job[c].task, Stored(at), people)
  <2>1. CASE pc[c] = "put_login"
    <3>1. job[c].task = "login"
      BY <2>1 DEF CappedInv, TaskOK
    <3>2. IsFiniteSet(Inside(at)') /\ people = Cardinality(Inside(at)) + 1
      BY <1>1, <1>4, <1>6, <2>1, FS_AddElement
    <3> QED BY <1>4, <1>5, <3>1, <3>2 DEF Within
  <2>2. CASE pc[c] = "put_logout"
    <3>1. job[c].task = "logout"
      BY <2>2 DEF CappedInv, TaskOK
    <3>2. IsFiniteSet(Inside(at)') /\ people = Cardinality(Inside(at)) - 1
      BY <1>1, <1>4, <1>6, <2>2, FS_RemoveElement
    <3> QED BY <1>4, <1>5, <3>1, <3>2 DEF Within
  <2> QED BY <2>1, <2>2
<1>8. TaskOK(to, job[c]) /\ to \in Bookkeeping
      /\ to \notin {"put_login_time", "put_capacity"}
  BY DEF TaskOK, Bookkeeping
<1> QED BY <1>1, <1>2, <1>3, <1>6, <1>7, <1>8, RoomCapped

(* The put of the Capacity: the thread has counted its person. *)
LEMMA CapacityPutCapped ==
  ASSUME CappedInv, QuietInv', VisitsApart', Serial', NEW c \in Conns, PutCapacity(c)
  PROVE  CappedInv'
<1> PICK j, at, people, n :
       /\ j = job[c] /\ at = j.at /\ people = Cardinality(Inside(at))
       /\ n = j.entity.Capacity
  OBVIOUS
<1>1. pc[c] = "put_capacity" /\ Active(c)
  BY DEF PutCapacity, Goes, Active, Calls
<1>2. /\ j \in Job /\ at \in Rooms /\ j.task \in {"login", "logout"}
      /\ j.entity \in RoomEntity /\ n \in Nat
  <2>1. /\ j \in Job /\ at \in Rooms /\ j.task # "move" /\ j.entity \in RoomEntity
    BY <1>1, CappedTypes DEF CappedInv, VisitsApart, VisitsInv, NobodyMoves, ThreadState,
       ThreadOK, Active
  <2> QED BY <2>1 DEF Job, RoomEntity
<1> DEFINE k == Over([j EXCEPT !.entity = None])
           entity == [j.entity EXCEPT !.Capacity = NewCapacity(@, j.task = "login")]
<1>3. Goes(c, "put_capacity", "closed", k) /\ rooms' = Put(rooms, at, entity) /\ UNCHANGED log
  BY <1>2 DEF PutCapacity
<1>4. entity.Capacity = NewCapacity(n, j.task = "login")
  BY <1>2 DEF RoomEntity
<1>5. Within(j.task, n, people)
  <2>1. Settles(c, at) /\ Capped(at)
    BY <1>1, <1>2 DEF Settles, Bookkeeping, CappedInv
  <2> QED BY <1>1, <2>1 DEF Capped
<1>6. people \in Nat
  BY <1>2, CappedTypes
<1>7. entity.Capacity <= people
  BY <1>2, <1>4, <1>5, <1>6 DEF Within, NewCapacity
<1> HIDE DEF k, entity
<1>8. /\ pc'[c] = "closed" /\ job'[c] = k
      /\ \A d \in Conns \ {c} : pc'[d] = pc[d] /\ job'[d] = job[d]
  BY <1>3, CappedTypes DEF Goes
<1>9. /\ \A r \in Rooms \ {at} : Stored(r)' = Stored(r)
      /\ Stored(at)' <= people
  BY <1>3, <1>7 DEF Stored, Put
<1>10. \A r : Inside(r)' = Inside(r)
  BY <1>3 DEF Inside, OpenVisits
<1>11. OwnVisits(log') /\ IsFiniteSet(Inside(at)') /\ people = Cardinality(Inside(at)')
  BY <1>2, <1>3, <1>10 DEF CappedInv
<1>12. TaskOK("closed", k)
  BY DEF TaskOK
<1>13. "closed" \notin Bookkeeping
  BY DEF Bookkeeping
<1> QED BY <1>1, <1>2, <1>8, <1>9, <1>10, <1>11, <1>12, <1>13, RoomCapped

(* What website and cron job put into a room, while nobody else is at work, *)
(* has the Capacity that is stored, or none.                               *)
LEMMA ForeignStored ==
  ASSUME QuietInv, SiteStep \/ CronStep
  PROVE  \A r \in Rooms : Stored(r)' \in {Stored(r), 0}
<1>1. ASSUME NEW q, NEW e, rooms' = Put(rooms, q, e), e.Capacity \in {Stored(q), 0}
      PROVE  \A r \in Rooms : Stored(r)' \in {Stored(r), 0}
  BY <1>1 DEF Stored, Put
<1>2. ASSUME rooms' = rooms PROVE \A r \in Rooms : Stored(r)' \in {Stored(r), 0}
  BY <1>2 DEF Stored
<1>3. CASE CronStep
  <2>1. CASE PutReset
    <3> DEFINE e == [cron.entity EXCEPT !.Capacity = 0, !.Last_Login_time = None]
    <3>1. cron.room # None /\ rooms' = Put(rooms, cron.room, e)
      BY <2>1 DEF PutReset
    <3>2. e.Capacity = 0
      BY <3>1 DEF QuietInv, SystemInv, CronInv, RoomEntity
    <3> HIDE DEF e
    <3> QED BY <1>1, <3>1, <3>2
  <2>2. CASE ~PutReset
    <3>1. rooms' = rooms
      BY <1>3, <2>2 DEF CronStep, ResetStep, StartReset, QueryRooms, SkipRoom, GetRoom,
                        GetRoomRaises, storeVars
    <3> QED BY <1>2, <3>1
  <2> QED BY <2>1, <2>2
<1>4. CASE SiteStep
  <2>1. PICK h \in Handlers : Begin(h) \/ Finish(h)
    BY <1>4 DEF SiteStep
  <2>2. CASE FinishEdit(h)
    <3>1. /\ web[h].op \in ListEdits
          /\ rooms' = Put(rooms, web[h].room, Edited(web[h].op, web[h].entity, web[h].what))
      BY <2>2 DEF FinishEdit
    <3>2. /\ web[h].entity \in RoomEntity
          /\ web[h].room \in DOMAIN rooms /\ web[h].entity = rooms[web[h].room]
      BY <3>1 DEF QuietInv, SystemInv, SiteInv, RequestOK
    <3>3. Edited(web[h].op, web[h].entity, web[h].what).Capacity = web[h].entity.Capacity
      BY <3>1, <3>2 DEF Edited, ListEdits, RoomEntity
    <3> QED BY <1>1, <3>1, <3>2, <3>3 DEF Stored
  <2>3. CASE PutRow(h)
    <3> DEFINE row == Head(web[h].rows)
    <3>1. rooms' = rooms \/ rooms' = Put(rooms, row.room, NewRoom(row.lists))
      BY <2>3 DEF PutRow
    <3>2. NewRoom(row.lists).Capacity = 0
      BY DEF NewRoom
    <3> HIDE DEF row
    <3> QED BY <1>1, <1>2, <3>1, <3>2
  <2>4. CASE Begin(h)
    <3>1. ASSUME NEW r, DeleteRoom(h, r) PROVE \A q \in Rooms : Stored(q)' \in {Stored(q), 0}
      BY <3>1 DEF DeleteRoom, Delete, Stored
    <3>2. ASSUME ~\E r \in Rooms : DeleteRoom(h, r) PROVE rooms' = rooms
      BY <2>4, <3>2 DEF Begin, BeginEdit, BeginUpload, DeleteUser, storeVars
    <3> QED BY <1>2, <3>1, <3>2
  <2> QED BY <2>1, <2>2, <2>3, <2>4 DEF Finish
<1> QED BY <1>3, <1>4

(* Every step of the system keeps the Capacities in bounds. *)
LEMMA NextCapped == CappedInv /\ [SystemNext]_systemVars => CappedInv'
<1> SUFFICES ASSUME CappedInv, [SystemNext]_systemVars PROVE CappedInv'
  OBVIOUS
<1>1. QuietInv' /\ VisitsApart'
  BY NextQuiet, NextSystemIsolated DEF CappedInv, QuietInv
<1>2. CASE ServerStep
  <2>1. Serial'
    BY <1>2, StepOfServer, SerialKept DEF CappedInv, VisitsApart, Gently
  <2>2. ASSUME NEW c \in Conns, Unsettled(c) PROVE CappedInv'
    BY <1>1, <2>1, <2>2, UnsettledCapped
  <2>3. ASSUME NEW c \in Conns PROVE ~CallFails(c)
    BY DEF CallFails, CappedInv, Gently, VisitsApart, VisitsInv, SafetyInv, ServerTypeOK
  <2>4. ASSUME NEW c \in Conns, Receive(c) PROVE CappedInv'
    BY <2>2, <2>4, ReceiveUnsettled DEF CappedInv, VisitsApart, VisitsInv
  <2>5. ASSUME NEW c \in Conns, PutLogin(c) PROVE CappedInv'
    <3>1. PICK r, v, i : r = job[c].at /\ v = job[c].user /\ i = job[c].index
      OBVIOUS
    <3>2. /\ pc[c] = "put_login" /\ Goes(c, pc[c], "set_current_room", job[c])
          /\ UNCHANGED rooms /\ log' = Put(log, <<r, v, i>>, OpenEntry(v))
      BY <2>5, <3>1, PlainIDs DEF PutLogin, Goes, CappedInv, Gently
    <3>3. OpenEntry(v).user = v /\ OpenEntry(v).open
      BY DEF OpenEntry
    <3> QED BY <1>1, <2>1, <3>1, <3>2, <3>3, LogPutCapped
  <2>6. ASSUME NEW c \in Conns, PutLogout(c) PROVE CappedInv'
    <3>1. PICK r, v, i : r = job[c].at /\ v = job[c].user /\ i = job[c].index
      OBVIOUS
    <3>2. PICK stay, days : /\ days = job[c].carry + stay
                            /\ log' = Put(log, <<r, v, i>>, ClosedEntry(v, days))
      BY <2>6, <3>1, PlainIDs DEF PutLogout, CappedInv, Gently
    <3>3. ClosedEntry(v, days).user = v /\ ~ClosedEntry(v, days).open
      BY DEF ClosedEntry
    <3>4. /\ pc[c] = "put_logout" /\ UNCHANGED rooms
          /\ \E to \in {"set_current_room", "get_capacity"} : Goes(c, pc[c], to, job[c])
      BY <2>6 DEF PutLogout, Goes
    <3> QED BY <1>1, <2>1, <3>1, <3>2, <3>3, <3>4, LogPutCapped
  <2>7. ASSUME NEW c \in Conns, Run(c) PROVE CappedInv'
    <3>1. VisitsInv(Rooms \X Users) /\ TaskOK(pc[c], job[c])
      BY DEF CappedInv, VisitsApart
    <3> QED BY <1>1, <2>1, <2>2, <2>5, <2>6, <2>7, <3>1, ReadsUnsettled, BookkeepingCapped,
               CapacityPutCapped DEF Run
  <2> QED BY <1>2, <2>3, <2>4, <2>7, StepOfServer DEF ServerNext
<1>3. CASE SiteStep \/ CronStep
  <2>1. UNCHANGED <<log, pc, job>>
    BY <1>3, SiteSafety, CronSafety DEF CappedInv, QuietInv
  <2>2. \A r \in Rooms : Stored(r)' \in {Stored(r), 0}
    BY <1>3, ForeignStored DEF CappedInv
  <2> QED BY <1>1, <2>1, <2>2, ForeignCapped
<1>4. CASE Tick \/ UNCHANGED systemVars
  <2>1. UNCHANGED <<rooms, log, pc, job>>
    BY <1>4 DEF Tick, systemVars
  <2>2. \A r \in Rooms : Stored(r)' \in {Stored(r), 0}
    BY <2>1 DEF Stored
  <2> QED BY <1>1, <2>1, <2>2, ForeignCapped
<1> QED BY <1>2, <1>3, <1>4 DEF SystemNext

LEMMA CappedAlways == Gently /\ SystemSpec => []CappedInv
<1>1. Gently /\ SystemInit /\ QuietInv => CappedInv
  BY InitCapped
<1>2. Gently => Editing = "quiet"
  BY DEF Gently
<1> QED BY <1>1, <1>2, NextCapped, QuietAlways, PTL DEF SystemSpec

(* Resets and uploads set Capacities to zero at any time, also between the  *)
(* get and the put of a thread, and rooms are deleted under the people in   *)
(* them; but when no thread is working for a room, its Capacity never shows *)
(* more people than have a visit to it open.                               *)
THEOREM CapacityNeverAhead == Gently /\ SystemSpec => []NeverOverCounts
<1>1. ASSUME CappedInv PROVE NeverOverCounts
  <2> SUFFICES ASSUME NEW r \in DOMAIN rooms,
                      \A c \in Conns : Active(c) => job[c].room # r
               PROVE  rooms[r].Capacity <= Cardinality(Inside(r))
    BY DEF NeverOverCounts
  <2>1. \A c \in Conns : ~Settles(c, r)
    BY <1>1 DEF Settles, Bookkeeping, CappedInv, VisitsApart, VisitsInv, NobodyMoves,
       Active, Calls
  <2>2. r \in Rooms
    BY <1>1, CappedTypes DEF StoreTypeOK
  <2> QED BY <1>1, <2>1, <2>2 DEF CappedInv, Capped, Stored
<1> QED BY <1>1, CappedAlways, PTL
=============================================================================
