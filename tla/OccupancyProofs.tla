---------------------------- MODULE OccupancyProofs ----------------------------
(***************************************************************************)
(* The Capacity of a room is the number of people in it, whenever nobody   *)
(* is at work for the room, and the server implements Occupancy: when the  *)
(* taps at one lock are kept apart and no call fails, however long people  *)
(* stay.                                                                   *)
(***************************************************************************)
EXTENDS IsolationProofs, FiniteSetTheorems

(* Keeping apart the taps of one person is not enough here: two people at   *)
(* one lock write its Capacity over each other.  Constant, like Apart.     *)
OneByOne == Apart /\ MaxFailures = 0 /\ Isolation = "room"

Serial ==
  \A c, d \in Conns :
    c # d /\ Active(c) /\ Active(d) => job[c].room # job[d].room

(* Which branch of run() a thread is in while it is deciding or scanning. *)
TaskOK(call, j) ==
  /\ call \in {"is_users_from_room", "get_room_Group", "get_user_Group", "send_allowed",
               "get_current_room", "login_room", "put_login"} => j.task = "login"
  /\ call \in {"logout_room", "get_previous", "put_logout"} => j.task = "logout"

(* From the put of the visit to the put of the Capacity. *)
Bookkeeping ==
  {"set_current_room", "get_login_time", "put_login_time", "get_capacity", "put_capacity"}

Settles(c, r) == pc[c] \in Bookkeeping /\ job[c].at = r

(* The Capacity of a room is the number of people inside, or one behind it  *)
(* in the direction in which the thread that settles is about to change it; *)
(* that thread holds the Capacity that is stored.                          *)
Counted(r) ==
  /\ (\A c \in Conns : ~Settles(c, r)) => rooms[r].Capacity = Cardinality(Inside(r))
  /\ \A c \in Conns : Settles(c, r) =>
       /\ job[c].task = "login" => Cardinality(Inside(r)) = rooms[r].Capacity + 1
       /\ job[c].task = "logout" => Cardinality(Inside(r)) + 1 = rooms[r].Capacity
       /\ pc[c] \in {"put_login_time", "put_capacity"}
            => job[c].entity.Capacity = rooms[r].Capacity

CountedInv ==
  /\ OneByOne /\ EverywhereInv /\ Serial
  /\ \A c \in Conns : TaskOK(pc[c], job[c])
  /\ \A r \in Rooms : IsFiniteSet(Inside(r))
  /\ \A r \in DOMAIN rooms : Counted(r)

(* The abstract state of the refinement, as the instance Room has it.       *)
InsideView == {p \in Rooms \X Users : p[2] \in Inside(p[1])}
PopulationView == [r \in Rooms |-> IF r \in DOMAIN rooms THEN rooms[r].Capacity ELSE 0]
SettlingView == {r \in Rooms : Settling(r)}

-----------------------------------------------------------------------------
(* Who is inside, by the entries of the log. *)
LEMMA InsideIs ==
  ASSUME NEW r
  PROVE  Inside(r) = {u \in Users : \E k \in DOMAIN log :
                                      k[1] = r /\ log[k].user = u /\ log[k].open}
BY DEF Inside, OpenVisits

(* A room settles when a thread at work for it settles. *)
LEMMA SettlingIs ==
  ASSUME NEW r
  PROVE  Settling(r) <=> \E c \in Conns : Settles(c, r)
BY DEF Settling, Settles, Bookkeeping

(* Every room starts empty, with a Capacity of 0. *)
LEMMA InitCounted ==
  ASSUME OneByOne, ServerInit
  PROVE  /\ CountedInv
         /\ InsideView = {} /\ PopulationView = [r \in Rooms |-> 0] /\ SettlingView = {}
<1>1. EverywhereInv
  BY InitIsolated DEF EverywhereInv, OneByOne, Apart
<1>2. \A c \in Conns : pc[c] = "idle"
  BY DEF ServerInit
<1>3. \A r : Inside(r) = {}
  BY InsideIs DEF ServerInit, StoreInit
<1>4. \A c \in Conns : \A r : ~Settles(c, r)
  BY <1>2 DEF Settles, Bookkeeping
<1>5. \A r \in DOMAIN rooms : r \in DOMAIN UploadedRooms /\ rooms[r].Capacity = 0
  BY DEF ServerInit, StoreInit, NewRoom
<1>6. \A r \in DOMAIN rooms : Counted(r)
  BY <1>3, <1>4, <1>5, FS_EmptySet DEF Counted
<1>7. Serial /\ \A c \in Conns : TaskOK(pc[c], job[c])
  BY <1>2 DEF Serial, Active, Calls, TaskOK
<1>9. InsideView = {}
  BY <1>3 DEF InsideView
<1>10. PopulationView = [r \in Rooms |-> 0]
  BY <1>5 DEF PopulationView
<1>11. SettlingView = {}
  BY <1>4, SettlingIs DEF SettlingView
<1> QED BY <1>1, <1>3, <1>6, <1>7, <1>9, <1>10, <1>11, FS_EmptySet DEF CountedInv

(* A lock is not tapped while the server works on its previous tap. *)
LEMMA SerialKept ==
  ASSUME VisitsInv(Rooms \X Users), Serial, Isolation = "room", ServerNext
  PROVE  Serial'
<1>1. job \in [Conns -> Job] /\ pc \in [Conns -> Calls \cup Ended]
  BY DEF VisitsInv, SafetyInv, ServerTypeOK
<1>2. ASSUME NEW c \in Conns, Active(c)' => Active(c) /\ job'[c].room = job[c].room,
             \A d \in Conns \ {c} : pc'[d] = pc[d] /\ job'[d] = job[d]
      PROVE  Serial'
  BY <1>2 DEF Serial, Active
<1>3. ASSUME NEW c \in Conns, Run(c) PROVE Serial'
  <2>1. ASSUME NEW from \in Calls, NEW to, NEW j, Goes(c, from, to, j), j.room = job[c].room
        PROVE  Serial'
    <3>1. /\ Active(c) /\ job'[c] = j
          /\ \A d \in Conns \ {c} : pc'[d] = pc[d] /\ job'[d] = job[d]
      BY <1>1, <2>1 DEF Goes, Active
    <3> QED BY <1>2, <2>1, <3>1
  <2>2. \A j : Over(j).room = j.room
    BY DEF Over, NewJob
  <2>3. DOMAIN job[c] = {"user", "room", "at", "index", "carry", "groups", "entity",
                         "task", "reply"}
    BY <1>1 DEF Job
  <2>4. \A x : /\ [job[c] EXCEPT !.groups = x].room = job[c].room
               /\ [job[c] EXCEPT !.reply = x].room = job[c].room
               /\ [job[c] EXCEPT !.entity = x].room = job[c].room
               /\ [job[c] EXCEPT !.carry = x].room = job[c].room
               /\ [job[c] EXCEPT !.at = x, !.task = "move"].room = job[c].room
    BY <2>3
  <2>5. /\ [job[c] EXCEPT !.index = @ + 1].room = job[c].room
        /\ [job[c] EXCEPT !.index = 0, !.task = "logout"].room = job[c].room
    BY <2>3
  <2>6. CASE IsUsersFromRoom(c) \/ GetRoomGroup(c) \/ GetRoomGroupRaises(c)
             \/ GetUserGroup(c) \/ SendDenied(c) \/ SendAllowed(c)
    BY <2>1, <2>2, <2>4, <2>6 DEF IsUsersFromRoom, GetRoomGroup, GetRoomGroupRaises,
       GetUserGroup, SendDenied, SendAllowed, Raises, Reads, Calls
  <2>7. CASE GetCurrentRoom(c) \/ SetCurrentRoom(c)
    BY <2>1, <2>4, <2>7 DEF GetCurrentRoom, SetCurrentRoom, Reads, Calls
  <2>8. CASE \E call \in {"login_room", "logout_room"} : Scan(c, call)
    BY <2>1, <2>5, <2>8 DEF Scan, Reads, Calls
  <2>9. CASE LoginFree(c) \/ LoginRefused(c) \/ PutLogin(c)
             \/ LogoutRaises(c) \/ LogoutFound(c)
    BY <2>1, <2>2, <2>4, <2>5, <2>9 DEF LoginFree, LoginRefused, PutLogin, LogoutRaises,
       LogoutFound, Raises, Reads, Calls
  <2>10. CASE GetPrevious(c) \/ GetPreviousRaises(c) \/ PutLogout(c)
    BY <2>1, <2>2, <2>4, <2>10 DEF GetPrevious, GetPreviousRaises, PutLogout, Raises,
       Reads, Calls
  <2>11. CASE GetLoginTime(c) \/ PutLoginTime(c) \/ GetCapacity(c)
    BY <2>1, <2>2, <2>4, <2>11 DEF GetLoginTime, PutLoginTime, GetCapacity, Raises,
       Reads, Calls
  <2>12. CASE PutCapacity(c)
    <3>1. job[c].task # "move"
      BY <2>12 DEF PutCapacity, Goes, VisitsInv, NobodyMoves, Active, Calls
    <3>2. Goes(c, "put_capacity", "closed", Over([job[c] EXCEPT !.entity = None]))
      BY <2>12, <3>1 DEF PutCapacity
    <3>3. Over([job[c] EXCEPT !.entity = None]).room = job[c].room
      BY <2>2, <2>4
    <3> QED BY <2>1, <3>2, <3>3 DEF Calls
  <2> QED BY <1>3, <2>6, <2>7, <2>8, <2>9, <2>10, <2>11, <2>12 DEF Run
<1>4. ASSUME NEW c \in Conns, Receive(c) PROVE Serial'
  <2>1. /\ \A d \in Conns \ {c} : pc'[d] = pc[d] /\ job'[d] = job[d]
        /\ Active(c)' => \A d \in Conns : Active(d) => job[d].room # job'[c].room
    BY <1>4, Received DEF VisitsInv, Active, MayArrive
  <2> QED BY <2>1 DEF Serial, Active
<1>5. ASSUME NEW c \in Conns, CallFails(c) PROVE Serial'
  <2>1. pc'[c] = "died" /\ \A d \in Conns \ {c} : pc'[d] = pc[d] /\ job'[d] = job[d]
    BY <1>1, <1>5 DEF CallFails
  <2> QED BY <1>2, <2>1 DEF Active, Calls
<1> QED BY <1>3, <1>4, <1>5 DEF ServerNext

-----------------------------------------------------------------------------
(* A thread takes a step that has nothing to do with settling a room. *)
Unsettled(c) ==
  /\ UNCHANGED <<rooms, log>>
  /\ pc[c] \notin Bookkeeping /\ pc'[c] \notin Bookkeeping
  /\ TaskOK(pc'[c], job'[c])
  /\ \A d \in Conns \ {c} : pc'[d] = pc[d] /\ job'[d] = job[d]

(* A step that neither puts a visit nor a Capacity: no room changes, and    *)
(* none begins or stops settling.                                          *)
LEMMA QuietCounted ==
  ASSUME CountedInv, EverywhereInv', Serial', NEW c \in Conns, NEW to, NEW j,
         pc'[c] = to /\ job'[c] = j,
         \A d \in Conns \ {c} : pc'[d] = pc[d] /\ job'[d] = job[d],
         UNCHANGED log, DOMAIN rooms' = DOMAIN rooms,
         \A r \in DOMAIN rooms : rooms'[r].Capacity = rooms[r].Capacity,
         pc[c] \in Bookkeeping <=> to \in Bookkeeping,
         to \in Bookkeeping => j.at = job[c].at /\ j.task = job[c].task,
         to \in {"put_login_time", "put_capacity"} =>
           j.entity.Capacity = rooms[j.at].Capacity,
         TaskOK(to, j)
  PROVE  CountedInv' /\ UNCHANGED <<InsideView, PopulationView, SettlingView>>
<1>1. \A r : Inside(r)' = Inside(r)
  BY DEF Inside, OpenVisits
<1>2. \A d \in Conns : \A r : Settles(d, r)' <=> Settles(d, r)
  BY DEF Settles
<1>3. ASSUME NEW r \in DOMAIN rooms' PROVE Counted(r)'
  <2>1. Counted(r) /\ rooms'[r].Capacity = rooms[r].Capacity
    BY <1>3 DEF CountedInv
  <2>2. ASSUME NEW d \in Conns, Settles(d, r)'
        PROVE  /\ Settles(d, r) /\ job'[d].task = job[d].task
               /\ pc'[d] \in {"put_login_time", "put_capacity"}
                    => job'[d].entity.Capacity = rooms[r].Capacity
    <3>1. Settles(d, r)
      BY <1>2, <2>2
    <3>2. CASE d = c
      BY <2>2, <3>1, <3>2 DEF Settles
    <3>3. CASE d # c
      BY <2>1, <3>1, <3>3 DEF Counted
    <3> QED BY <3>1, <3>2, <3>3
  <2> QED BY <1>1, <1>2, <2>1, <2>2 DEF Counted
<1>4. \A r \in Rooms : IsFiniteSet(Inside(r)')
  BY <1>1 DEF CountedInv
<1>5. \A d \in Conns : TaskOK(pc'[d], job'[d])
  BY DEF CountedInv
<1>6. CountedInv'
  BY <1>3, <1>4, <1>5 DEF CountedInv
<1>7. InsideView' = InsideView
  BY <1>1 DEF InsideView
<1>8. PopulationView' = PopulationView
  BY DEF PopulationView
<1>9. \A r : Settling(r)' <=> Settling(r)
  <2>1. \A r : Settling(r)' <=> \E d \in Conns : Settles(d, r)'
    BY DEF Settling, Settles, Bookkeeping
  <2> QED BY <1>2, <2>1, SettlingIs
<1>10. SettlingView' = SettlingView
  BY <1>9 DEF SettlingView
<1> QED BY <1>6, <1>7, <1>8, <1>10

(* Such a step, in particular. *)
LEMMA UnsettledCounted ==
  ASSUME CountedInv, EverywhereInv', Serial', NEW c \in Conns, Unsettled(c)
  PROVE  CountedInv' /\ UNCHANGED <<InsideView, PopulationView, SettlingView>>
<1> DEFINE to == pc'[c]
           j == job'[c]
<1>1. /\ UNCHANGED <<rooms, log>> /\ TaskOK(to, j)
      /\ pc[c] \notin Bookkeeping /\ to \notin Bookkeeping
      /\ \A d \in Conns \ {c} : pc'[d] = pc[d] /\ job'[d] = job[d]
  BY DEF Unsettled
<1>2. to \notin {"put_login_time", "put_capacity"}
  BY <1>1 DEF Bookkeeping
<1>3. pc'[c] = to /\ job'[c] = j
  OBVIOUS
<1> HIDE DEF to, j
<1> QED BY <1>1, <1>2, <1>3, QuietCounted

(* Receiving a frame changes no room. *)
LEMMA ReceiveUnsettled ==
  ASSUME SafetyInv, NEW c \in Conns, Receive(c)
  PROVE  Unsettled(c)
<1>1. ASSUME NEW to \in {"is_users_from_room", "died", "closed"}, NEW u, NEW r, NEW reply,
             Receives(c, to, NewJob(u, r, reply))
      PROVE  Unsettled(c)
  <2> DEFINE k == NewJob(u, r, reply)
  <2>1. /\ pc'[c] = to /\ job'[c] = k /\ UNCHANGED <<rooms, log>> /\ pc[c] \in Ended
        /\ \A d \in Conns \ {c} : pc'[d] = pc[d] /\ job'[d] = job[d]
    BY <1>1 DEF SafetyInv, ServerTypeOK, Receives
  <2>2. k.task = "login"
    BY DEF NewJob
  <2> HIDE DEF k
  <2>3. TaskOK(to, k) /\ to \notin Bookkeeping /\ pc[c] \notin Bookkeeping
    BY <2>1, <2>2 DEF TaskOK, Bookkeeping, Ended
  <2> QED BY <2>1, <2>3 DEF Unsettled
<1> QED BY <1>1 DEF Receive, ReceiveLogin, ReceiveUnsplittable, ReceiveGarbage

(* Deciding and scanning. *)
LEMMA ReadsUnsettled ==
  ASSUME VisitsInv(Rooms \X Users), NEW c \in Conns, TaskOK(pc[c], job[c]),
         \/ IsUsersFromRoom(c) \/ GetRoomGroup(c) \/ GetRoomGroupRaises(c)
         \/ GetUserGroup(c) \/ SendDenied(c) \/ SendAllowed(c)
         \/ GetCurrentRoom(c)
         \/ \E call \in {"login_room", "logout_room"} : Scan(c, call)
         \/ LoginFree(c) \/ LoginRefused(c) \/ LogoutRaises(c) \/ LogoutFound(c)
         \/ GetPrevious(c) \/ GetPreviousRaises(c)
  PROVE  Unsettled(c)
<1> DEFINE j == job[c]
           Entering == {"is_users_from_room", "get_room_Group", "get_user_Group",
                        "send_allowed", "get_current_room", "login_room", "put_login"}
           Leaving == {"logout_room", "get_previous", "put_logout"}
<1>1. j \in Job /\ TaskOK(pc[c], j)
  BY DEF VisitsInv, SafetyInv, ServerTypeOK
<1>2. ASSUME NEW from \in Entering \cup Leaving,
             NEW to \in Entering \cup Leaving \cup Ended, NEW k,
             Reads(c, from, to, k), TaskOK(to, k)
      PROVE  Unsettled(c)
  <2>1. /\ pc'[c] = to /\ job'[c] = k /\ UNCHANGED <<rooms, log>> /\ pc[c] = from
        /\ \A d \in Conns \ {c} : pc'[d] = pc[d] /\ job'[d] = job[d]
    BY <1>2 DEF VisitsInv, SafetyInv, ServerTypeOK, Reads, Goes
  <2>2. to \notin Bookkeeping /\ pc[c] \notin Bookkeeping
    BY <2>1 DEF Bookkeeping, Ended
  <2> QED BY <1>2, <2>1, <2>2 DEF Unsettled
<1>3. ASSUME NEW from \in Entering, NEW to \in Entering \cup Ended, NEW k,
             Reads(c, from, to, k), k.task = j.task
      PROVE  Unsettled(c)
  <2>1. pc[c] = from
    BY <1>3 DEF Reads, Goes
  <2>2. TaskOK(to, k)
    BY <1>1, <1>3, <2>1 DEF TaskOK, Ended
  <2> QED BY <1>2, <1>3, <2>2
<1>4. ASSUME NEW from \in Leaving, NEW to \in Leaving \cup Ended, NEW k,
             Reads(c, from, to, k), k.task = j.task
      PROVE  Unsettled(c)
  <2>1. pc[c] = from
    BY <1>4 DEF Reads, Goes
  <2>2. TaskOK(to, k)
    BY <1>1, <1>4, <2>1 DEF TaskOK, Ended
  <2> QED BY <1>2, <1>4, <2>2
<1>5. ASSUME NEW from \in Entering \cup Leaving, NEW to \in Ended, NEW k,
             Reads(c, from, to, k)
      PROVE  Unsettled(c)
  <2>1. TaskOK(to, k)
    BY DEF TaskOK, Ended
  <2> QED BY <1>2, <1>5, <2>1
<1>6. \A x : /\ [j EXCEPT !.groups = x].task = j.task
             /\ [j EXCEPT !.reply = x].task = j.task
             /\ [j EXCEPT !.carry = x].task = j.task
  BY <1>1 DEF Job
<1>7. CASE IsUsersFromRoom(c)
  BY <1>3, <1>7 DEF IsUsersFromRoom
<1>8. CASE GetRoomGroup(c)
  BY <1>3, <1>6, <1>8 DEF GetRoomGroup
<1>9. CASE GetRoomGroupRaises(c) \/ SendDenied(c)
  BY <1>5, <1>9 DEF GetRoomGroupRaises, SendDenied, Raises, Ended
<1>10. CASE GetUserGroup(c) \/ LoginFree(c)
  BY <1>3, <1>10 DEF GetUserGroup, LoginFree
<1>11. CASE SendAllowed(c)
  BY <1>3, <1>6, <1>11 DEF SendAllowed
<1>12. CASE GetCurrentRoom(c)
  <2>1. LastRoom(j.user) = None
    BY DEF VisitsInv, NobodyMoves, LastRoom
  <2>2. Reads(c, "get_current_room", "login_room", j)
    BY <1>12, <2>1 DEF GetCurrentRoom
  <2> QED BY <1>3, <2>2
<1>13. ASSUME NEW call \in {"login_room", "logout_room"}, Scan(c, call)
       PROVE  Unsettled(c)
  <2>1. [j EXCEPT !.index = @ + 1].task = j.task
    BY <1>1 DEF Job
  <2>2. Reads(c, call, call, [j EXCEPT !.index = @ + 1])
    BY <1>13 DEF Scan
  <2> QED BY <1>3, <1>4, <2>1, <2>2
<1>14. CASE LoginRefused(c)
  <2> DEFINE k == [j EXCEPT !.index = 0, !.task = "logout"]
  <2>1. k.task = "logout"
    BY <1>1 DEF Job
  <2>2. TaskOK("logout_room", k)
    BY <2>1 DEF TaskOK
  <2> HIDE DEF k
  <2> QED BY <1>2, <1>14, <2>2 DEF LoginRefused, k
<1>15. CASE LogoutRaises(c) \/ GetPreviousRaises(c)
  BY <1>5, <1>15 DEF LogoutRaises, GetPreviousRaises, Raises, Ended
<1>16. CASE LogoutFound(c)
  BY <1>4, <1>6, <1>16 DEF LogoutFound
<1>17. CASE GetPrevious(c)
  BY <1>4, <1>6, <1>17 DEF GetPrevious
<1> QED BY <1>7, <1>8, <1>9, <1>10, <1>11, <1>12, <1>13, <1>14, <1>15, <1>16, <1>17

(* The gets of the room, and the put of its Last_Login_time, which writes   *)
(* the whole entity: nobody else has changed the Capacity meanwhile.       *)
LEMMA BookkeepingCounted ==
  ASSUME CountedInv, EverywhereInv', Serial', NEW c \in Conns,
         SetCurrentRoom(c) \/ GetLoginTime(c) \/ PutLoginTime(c) \/ GetCapacity(c)
  PROVE  CountedInv' /\ UNCHANGED <<InsideView, PopulationView, SettlingView>>
<1> DEFINE j == job[c]
<1>1. /\ j \in Job /\ StoreTypeOK
      /\ pc[c] \in Bookkeeping
  BY DEF CountedInv, EverywhereInv, IsolatedInv, VisitsInv, SafetyInv, ServerTypeOK,
     SetCurrentRoom,
         GetLoginTime, PutLoginTime, GetCapacity, Raises, Reads, Goes, Bookkeeping
<1>2. j.at = j.room /\ j.room \in DOMAIN rooms
  BY <1>1 DEF CountedInv, EverywhereInv, IsolatedInv, VisitsInv, NobodyMoves, Active,
     Calls,
              Admitted, AdmittedOK, Bookkeeping
<1>3. ASSUME NEW from \in Bookkeeping, NEW to \in Bookkeeping, NEW k,
             Goes(c, from, to, k), UNCHANGED log, DOMAIN rooms' = DOMAIN rooms,
             \A r \in DOMAIN rooms : rooms'[r].Capacity = rooms[r].Capacity,
             k.at = j.at, k.task = j.task,
             to \in {"put_login_time", "put_capacity"} =>
               k.entity.Capacity = rooms[j.at].Capacity
      PROVE  CountedInv' /\ UNCHANGED <<InsideView, PopulationView, SettlingView>>
  <2>1. /\ pc'[c] = to /\ job'[c] = k /\ pc[c] = from
        /\ \A d \in Conns \ {c} : pc'[d] = pc[d] /\ job'[d] = job[d]
    BY <1>3 DEF CountedInv, EverywhereInv, IsolatedInv, VisitsInv, SafetyInv,
       ServerTypeOK, Goes
  <2>2. TaskOK(to, k)
    BY DEF TaskOK, Bookkeeping
  <2> QED BY <1>3, <2>1, <2>2, QuietCounted
<1>4. \A x : LET k == [j EXCEPT !.entity = x] IN
             k.at = j.at /\ k.task = j.task /\ k.entity = x
  BY <1>1 DEF Job
<1>5. CASE SetCurrentRoom(c)
  BY <1>3, <1>5 DEF SetCurrentRoom, Bookkeeping
<1>6. CASE GetLoginTime(c)
  <2> DEFINE entity == [rooms[j.room] EXCEPT !.Last_Login_time = now]
             k == [j EXCEPT !.entity = entity]
  <2>1. Reads(c, "get_login_time", "put_login_time", k)
    BY <1>2, <1>6 DEF GetLoginTime
  <2>2. entity.Capacity = rooms[j.room].Capacity
    BY <1>1, <1>2 DEF StoreTypeOK, RoomEntity
  <2> HIDE DEF entity
  <2>3. k.at = j.at /\ k.task = j.task /\ k.entity = entity
    BY <1>4
  <2> HIDE DEF k
  <2> QED BY <1>2, <1>3, <2>1, <2>2, <2>3 DEF Reads, Bookkeeping
<1>7. CASE PutLoginTime(c)
  <2>1. /\ Goes(c, "put_login_time", "get_capacity", [j EXCEPT !.entity = None])
        /\ rooms' = Put(rooms, j.room, j.entity) /\ UNCHANGED log
        /\ pc[c] = "put_login_time"
    BY <1>7 DEF PutLoginTime, Goes
  <2>2. Settles(c, j.room)
    BY <1>1, <1>2 DEF Settles
  <2>3. j.entity.Capacity = rooms[j.room].Capacity
    BY <1>2, <2>1, <2>2 DEF CountedInv, Counted
  <2>4. /\ DOMAIN rooms' = DOMAIN rooms
        /\ \A r \in DOMAIN rooms : rooms'[r].Capacity = rooms[r].Capacity
    BY <1>2, <2>1, <2>3 DEF Put
  <2> QED BY <1>3, <1>4, <2>1, <2>4 DEF Bookkeeping
<1>8. CASE GetCapacity(c)
  <2>1. Reads(c, "get_capacity", "put_capacity", [j EXCEPT !.entity = rooms[j.at]])
    BY <1>2, <1>8 DEF GetCapacity
  <2> QED BY <1>2, <1>3, <1>4, <2>1 DEF Reads, Bookkeeping
<1> QED BY <1>5, <1>6, <1>7, <1>8

-----------------------------------------------------------------------------
HasOpen(lg, r, u) == \E k \in DOMAIN lg : k[1] = r /\ lg[k].user = u /\ lg[k].open

(* The put of one visit is no business of anybody else's, or of any other   *)
(* room's.                                                                 *)
LEMMA OthersUnmoved ==
  ASSUME NEW P, VisitsInv(P), NEW at, NEW u, NEW i, NEW visit,
         log' = Put(log, <<at, u, i>>, visit), visit.user = u
  PROVE  \A r, v : r # at \/ v # u => (v \in Inside(r)' <=> v \in Inside(r))
<1> DEFINE e == <<at, u, i>>
<1>1. /\ DOMAIN log' = DOMAIN log \cup {e} /\ log'[e] = visit
      /\ \A k \in DOMAIN log \ {e} : log'[k] = log[k]
  BY DEF Put
<1>2. e[1] = at /\ (e \in DOMAIN log => log[e].user = u)
  BY DEF VisitsInv, OwnVisits
<1> HIDE DEF e
<1>3. ASSUME NEW r, NEW v, r # at \/ v # u
      PROVE  HasOpen(log', r, v) <=> HasOpen(log, r, v)
  <2>1. ASSUME NEW k \in DOMAIN log, k[1] = r, log[k].user = v, log[k].open
        PROVE  k \in DOMAIN log' /\ log'[k].user = v /\ log'[k].open
    BY <1>1, <1>2, <1>3, <2>1
  <2>2. ASSUME NEW k \in DOMAIN log', k[1] = r, log'[k].user = v, log'[k].open
        PROVE  k \in DOMAIN log /\ log[k].user = v /\ log[k].open
    BY <1>1, <1>2, <1>3, <2>2
  <2> QED BY <2>1, <2>2 DEF HasOpen
<1>4. \A r : /\ Inside(r) = {v \in Users : HasOpen(log, r, v)}
             /\ Inside(r)' = {v \in Users : HasOpen(log', r, v)}
  BY DEF Inside, OpenVisits, HasOpen
<1> QED BY <1>3, <1>4

(* The put of a visit: one person goes in or out, and nobody moves in any   *)
(* other room.                                                             *)
LEMMA VisitMoves ==
  ASSUME NEW P, VisitsInv(P), NEW c \in Conns, Here(c, P),
         NEW at, NEW u, NEW i,
         at = job[c].at /\ u = job[c].user /\ i = job[c].index,
         NEW visit, pc[c] \in {"put_login", "put_logout"},
         log' = Put(log, <<at, u, i>>, visit),
         visit.user = u, visit.open <=> pc[c] = "put_login"
  PROVE  /\ at \in Rooms /\ u \in Users
         /\ \A r : r # at => Inside(r)' = Inside(r)
         /\ pc[c] = "put_login" => u \notin Inside(at) /\ Inside(at)' = Inside(at) \cup {u}
         /\ pc[c] = "put_logout" => u \in Inside(at) /\ Inside(at)' = Inside(at) \ {u}
<1> DEFINE j == job[c]
           e == <<at, u, i>>
<1>1. /\ at \in Rooms /\ u \in Users /\ i \in Nat /\ j.room = at
      /\ ThreadOK(pc[c], j) /\ ScanOK(pc[c], j, DOMAIN log) /\ FreshOK(pc[c], j, log)
  <2>1. /\ j \in Job /\ Active(c)
        /\ ThreadOK(pc[c], j) /\ ScanOK(pc[c], j, DOMAIN log) /\ FreshOK(pc[c], j, log)
    BY DEF VisitsInv, SafetyInv, ServerTypeOK, ThreadState, ScanState, Fresh, Active, Calls
  <2>2. j.room = at
    BY <2>1 DEF VisitsInv, NobodyMoves
  <2> QED BY <2>1, <2>2 DEF ThreadOK, Active, Job
<1>2. /\ DOMAIN log' = DOMAIN log \cup {e} /\ log'[e] = visit
      /\ \A k \in DOMAIN log \ {e} : log'[k] = log[k]
  BY DEF Put
<1>3. ASSUME NEW k \in DOMAIN log, k[1] = at, log[k].user = u, k # e PROVE ~log[k].open
  <2>1. k \in Rooms \X Users \X Nat /\ k[2] = u
    BY <1>3 DEF OwnVisits, VisitsInv, SafetyInv, ServerTypeOK, StoreTypeOK
  <2>2. k = <<at, u, k[3]>> /\ k[3] # i
    BY <1>3, <2>1
  <2>3. CASE k[3] < i
    <3>1. k[3] \in 0..(i - 1)
      BY <1>1, <2>1, <2>3
    <3> QED BY <1>1, <2>2, <3>1 DEF FreshOK
  <2>4. CASE k[3] > i
    <3>1. \A n \in 0..(k[3] - 1) : <<at, u, n>> \in DOMAIN log
      BY <2>1, <2>2 DEF VisitsInv, SafetyInv, NoGaps
    <3>2. i \in 0..(k[3] - 1)
      BY <1>1, <2>1, <2>4
    <3>3. e \in DOMAIN log
      BY <3>1, <3>2
    <3>4. pc[c] = "put_logout" /\ log[e].open
      BY <1>1, <3>3 DEF FreshOK
    <3>5. <<at, u, i + 1>> \notin DOMAIN log
      <4>1. <<e[1], e[2]>> \in P
        BY <1>1 DEF Here
      <4> QED BY <3>3, <3>4, <4>1 DEF VisitsInv, LastOpen
    <3>6. i + 1 \in 0..(k[3] - 1) \/ k[3] = i + 1
      BY <1>1, <2>1, <2>4
    <3> QED BY <2>2, <3>1, <3>5, <3>6
  <2> QED BY <1>1, <2>1, <2>2, <2>3, <2>4
<1>4. /\ pc[c] = "put_login" => e \notin DOMAIN log
      /\ pc[c] = "put_logout" => e \in DOMAIN log /\ log[e].open /\ log[e].user = u
  <2>1. pc[c] = "put_login" => e \notin DOMAIN log
    BY <1>1 DEF FreshOK
  <2>2. VisitID(at, u, i) = e
    BY DEF VisitsInv, VisitID
  <2>3. pc[c] = "put_logout" => e \in DOMAIN log /\ log[e].open
    BY <1>1, <2>2 DEF FreshOK, ScanOK
  <2> QED BY <2>1, <2>3 DEF VisitsInv, OwnVisits
<1>5. \A r : /\ Inside(r) = {v \in Users : HasOpen(log, r, v)}
             /\ Inside(r)' = {v \in Users : HasOpen(log', r, v)}
  BY DEF Inside, OpenVisits, HasOpen
<1> HIDE DEF e
<1>6. \A r, v : r # at \/ v # u => (v \in Inside(r)' <=> v \in Inside(r))
  BY OthersUnmoved
<1>7. \A r : r # at => Inside(r)' = Inside(r)
  BY <1>5, <1>6
<1>8. pc[c] = "put_login" => u \notin Inside(at) /\ Inside(at)' = Inside(at) \cup {u}
  <2> SUFFICES ASSUME pc[c] = "put_login"
               PROVE  u \notin Inside(at) /\ Inside(at)' = Inside(at) \cup {u}
    OBVIOUS
  <2>1. ~HasOpen(log, at, u)
    BY <1>3, <1>4 DEF HasOpen
  <2>2. HasOpen(log', at, u)
    <3>1. e \in DOMAIN log' /\ e[1] = at /\ log'[e].user = u /\ log'[e].open
      BY <1>2 DEF e
    <3> QED BY <3>1 DEF HasOpen
  <2> QED BY <1>1, <1>5, <1>6, <2>1, <2>2
<1>9. pc[c] = "put_logout" => u \in Inside(at) /\ Inside(at)' = Inside(at) \ {u}
  <2> SUFFICES ASSUME pc[c] = "put_logout"
               PROVE  u \in Inside(at) /\ Inside(at)' = Inside(at) \ {u}
    OBVIOUS
  <2>1. HasOpen(log, at, u)
    <3>1. e[1] = at
      BY DEF e
    <3> QED BY <1>4, <3>1 DEF HasOpen
  <2>2. ~HasOpen(log', at, u)
    BY <1>2, <1>3 DEF HasOpen
  <2> QED BY <1>1, <1>5, <1>6, <2>1, <2>2
<1> QED BY <1>1, <1>7, <1>8, <1>9

(* The put of a visit: one person goes in or out, and the room, for which   *)
(* nobody else is at work, begins to settle.                               *)
LEMMA LogPutCounted ==
  ASSUME CountedInv, EverywhereInv', Serial', NEW c \in Conns,
         NEW to \in {"set_current_room", "get_capacity"},
         NEW at, NEW u, NEW i,
         at = job[c].at /\ u = job[c].user /\ i = job[c].index,
         NEW visit, pc[c] \in {"put_login", "put_logout"},
         Goes(c, pc[c], to, job[c]), UNCHANGED rooms,
         log' = Put(log, <<at, u, i>>, visit),
         visit.user = u, visit.open <=> pc[c] = "put_login"
  PROVE  /\ CountedInv'
         /\ at \in Rooms /\ u \in Users
         /\ at \notin SettlingView /\ SettlingView' = SettlingView \cup {at}
         /\ PopulationView' = PopulationView
         /\ pc[c] = "put_login" =>
              <<at, u>> \notin InsideView /\ InsideView' = InsideView \cup {<<at, u>>}
         /\ pc[c] = "put_logout" =>
              <<at, u>> \in InsideView /\ InsideView' = InsideView \ {<<at, u>>}
<1> DEFINE j == job[c]
<1>1. /\ at \in Rooms /\ u \in Users /\ Active(c)
      /\ \A r : r # at => Inside(r)' = Inside(r)
      /\ pc[c] = "put_login" => u \notin Inside(at) /\ Inside(at)' = Inside(at) \cup {u}
      /\ pc[c] = "put_logout" => u \in Inside(at) /\ Inside(at)' = Inside(at) \ {u}
  <2>1. VisitsInv(Rooms \X Users)
    BY DEF CountedInv, EverywhereInv, IsolatedInv
  <2>2. Active(c)
    BY DEF Active, Calls
  <2>3. Here(c, Rooms \X Users)
    BY <2>1, <2>2, ActiveHere
  <2> QED BY <2>1, <2>2, <2>3, VisitMoves
<1>2. /\ pc'[c] = to /\ job'[c] = j
      /\ \A d \in Conns \ {c} : pc'[d] = pc[d] /\ job'[d] = job[d]
  BY DEF CountedInv, EverywhereInv, IsolatedInv, VisitsInv, SafetyInv, ServerTypeOK, Goes
<1>3. j.room = at /\ at \in DOMAIN rooms
  BY <1>1 DEF CountedInv, EverywhereInv, IsolatedInv, VisitsInv, NobodyMoves, Admitted,
     AdmittedOK, Active, Calls
(* Nobody else is at work for the room. *)
<1>4. ASSUME NEW d \in Conns, d # c PROVE ~Settles(d, at) /\ ~Settles(d, at)'
  <2>1. Active(d) => job[d].room # at /\ job[d].at = job[d].room
    BY <1>1, <1>3, <1>4 DEF CountedInv, Serial, EverywhereInv, IsolatedInv, VisitsInv,
       NobodyMoves
  <2> QED BY <1>2, <1>4, <2>1 DEF Settles, Bookkeeping, Active, Calls
<1>5. /\ ~Settles(c, at) /\ Settles(c, at)'
       /\ \A r : r # at => ~Settles(c, r) /\ ~Settles(c, r)'
  BY <1>2 DEF Settles, Bookkeeping
<1>6. \A d \in Conns \ {c} : \A r : Settles(d, r)' <=> Settles(d, r)
  BY <1>2 DEF Settles
<1>7. Counted(at)'
  <2>1. rooms[at].Capacity = Cardinality(Inside(at)) /\ IsFiniteSet(Inside(at))
    BY <1>1, <1>3, <1>4, <1>5 DEF CountedInv, Counted
  <2>2. Cardinality(Inside(at)) \in Nat
    BY <2>1, FS_CardinalityType
  <2>3. pc[c] = "put_login" => Cardinality(Inside(at)') = rooms[at].Capacity + 1
    BY <1>1, <2>1, FS_AddElement
  <2>4. pc[c] = "put_logout" => Cardinality(Inside(at)') + 1 = rooms[at].Capacity
    <3>1. IsFiniteSet(Inside(at) \ {u})
          /\ (u \in Inside(at) =>
                Cardinality(Inside(at) \ {u}) = Cardinality(Inside(at)) - 1)
      BY <2>1, FS_RemoveElement
    <3>2. pc[c] = "put_logout" =>
            Cardinality(Inside(at)') = Cardinality(Inside(at)) - 1
      BY <1>1, <3>1
    <3> QED BY <2>1, <2>2, <3>2
  <2>5. /\ pc[c] = "put_login" => j.task = "login"
        /\ pc[c] = "put_logout" => j.task = "logout"
    BY DEF CountedInv, TaskOK
  <2> QED BY <1>2, <1>4, <1>5, <2>3, <2>4, <2>5 DEF Counted
<1>8. ASSUME NEW r \in DOMAIN rooms, r # at PROVE Counted(r)'
  <2>1. Counted(r) /\ Inside(r)' = Inside(r)
    BY <1>1, <1>8 DEF CountedInv
  <2>2. \A d \in Conns : Settles(d, r)' <=> Settles(d, r) /\ d # c
    BY <1>5, <1>6, <1>8
  <2>3. \A d \in Conns : Settles(d, r) => d # c
    BY <1>5, <1>8
  <2> QED BY <1>2, <2>1, <2>2, <2>3 DEF Counted
<1>9. \A r \in Rooms : IsFiniteSet(Inside(r)')
  <2>1. IsFiniteSet(Inside(at))
    BY <1>1 DEF CountedInv
  <2>2. IsFiniteSet(Inside(at) \cup {u}) /\ IsFiniteSet(Inside(at) \ {u})
    BY <2>1, FS_AddElement, FS_RemoveElement
  <2>3. IsFiniteSet(Inside(at)')
    BY <1>1, <2>2
  <2> QED BY <1>1, <2>3 DEF CountedInv
<1>10. \A d \in Conns : TaskOK(pc'[d], job'[d])
  <2>1. TaskOK(to, j)
    BY DEF TaskOK
  <2> QED BY <1>2, <2>1 DEF CountedInv
<1>11. CountedInv'
  BY <1>1, <1>7, <1>8, <1>9, <1>10 DEF CountedInv
<1>12. \A r : Settling(r)' <=> Settling(r) \/ r = at
  <2>1. \A r : Settling(r)' <=> \E d \in Conns : Settles(d, r)'
    BY DEF Settling, Settles, Bookkeeping
  <2> QED BY <1>5, <1>6, <2>1, SettlingIs
<1>13. at \notin SettlingView /\ SettlingView' = SettlingView \cup {at}
  <2>1. ~Settling(at)
    BY <1>4, <1>5, SettlingIs
  <2> QED BY <1>1, <1>12, <2>1 DEF SettlingView
<1>14. PopulationView' = PopulationView
  BY DEF PopulationView
<1>15. /\ pc[c] = "put_login" =>
            <<at, u>> \notin InsideView /\ InsideView' = InsideView \cup {<<at, u>>}
       /\ pc[c] = "put_logout" =>
            <<at, u>> \in InsideView /\ InsideView' = InsideView \ {<<at, u>>}
  BY <1>1 DEF InsideView
<1> QED BY <1>1, <1>11, <1>13, <1>14, <1>15

(* The put of the Capacity publishes the number of people inside. *)
LEMMA CapacityPutCounted ==
  ASSUME CountedInv, EverywhereInv', Serial', NEW c \in Conns, PutCapacity(c),
         NEW at, at = job[c].at
  PROVE  /\ CountedInv' /\ at \in SettlingView
         /\ SettlingView' = SettlingView \ {at}
         /\ PopulationView' = [PopulationView EXCEPT ![at] = Cardinality(Inside(at))]
         /\ InsideView' = InsideView
<1> DEFINE j == job[c]
<1>1. /\ j \in Job /\ StoreTypeOK /\ ThreadOK(pc[c], j)
      /\ pc[c] = "put_capacity" /\ Active(c)
  BY DEF CountedInv, EverywhereInv, IsolatedInv, VisitsInv, SafetyInv, ServerTypeOK,
     ThreadState,
         PutCapacity, Goes, Active, Calls
<1>2. j.room = at /\ j.task \in {"login", "logout"} /\ at \in DOMAIN rooms /\ at \in Rooms
  BY <1>1 DEF CountedInv, EverywhereInv, IsolatedInv, VisitsInv, NobodyMoves, Admitted,
     AdmittedOK, Active,
              Calls, Job, StoreTypeOK
<1> DEFINE k == Over([j EXCEPT !.entity = None])
           entity == [j.entity EXCEPT !.Capacity = NewCapacity(@, j.task = "login")]
<1>3. /\ Goes(c, "put_capacity", "closed", k)
      /\ rooms' = Put(rooms, at, entity) /\ UNCHANGED log
  BY <1>2 DEF PutCapacity
<1>4. /\ j.entity \in RoomEntity
      /\ entity.Capacity = NewCapacity(j.entity.Capacity, j.task = "login")
  BY <1>1 DEF ThreadOK, RoomEntity
<1>5. Settles(c, at)
  BY <1>1 DEF Settles, Bookkeeping
<1>6. /\ j.task = "login" => Cardinality(Inside(at)) = rooms[at].Capacity + 1
      /\ j.task = "logout" => Cardinality(Inside(at)) + 1 = rooms[at].Capacity
      /\ j.entity.Capacity = rooms[at].Capacity
      /\ Cardinality(Inside(at)) \in Nat /\ rooms[at].Capacity \in Nat
  <2>1. IsFiniteSet(Inside(at)) /\ Counted(at) /\ rooms[at] \in RoomEntity
    BY <1>1, <1>2 DEF CountedInv, StoreTypeOK
  <2> QED BY <1>1, <1>5, <2>1, FS_CardinalityType DEF Counted, RoomEntity
<1>7. entity.Capacity = Cardinality(Inside(at))
  BY <1>2, <1>4, <1>6 DEF NewCapacity
<1> HIDE DEF k, entity
<1>8. /\ pc'[c] = "closed" /\ job'[c] = k
      /\ \A d \in Conns \ {c} : pc'[d] = pc[d] /\ job'[d] = job[d]
  BY <1>3 DEF CountedInv, EverywhereInv, IsolatedInv, VisitsInv, SafetyInv, ServerTypeOK,
     Goes
<1>9. /\ DOMAIN rooms' = DOMAIN rooms /\ rooms'[at] = entity
      /\ \A r \in DOMAIN rooms \ {at} : rooms'[r] = rooms[r]
  BY <1>2, <1>3 DEF Put
<1>10. \A r : Inside(r)' = Inside(r)
  BY <1>3 DEF Inside, OpenVisits
<1>11. ASSUME NEW d \in Conns, d # c PROVE ~Settles(d, at) /\ ~Settles(d, at)'
  <2>1. Active(d) => job[d].room # at /\ job[d].at = job[d].room
    BY <1>1, <1>2, <1>11 DEF CountedInv, Serial, EverywhereInv, IsolatedInv, VisitsInv,
       NobodyMoves
  <2> QED BY <1>8, <1>11, <2>1 DEF Settles, Bookkeeping, Active, Calls
<1>12. \A r : ~Settles(c, r)' /\ (r # at => ~Settles(c, r))
  BY <1>8 DEF Settles, Bookkeeping
<1>13. \A d \in Conns \ {c} : \A r : Settles(d, r)' <=> Settles(d, r)
  BY <1>8 DEF Settles
<1>14. Counted(at)'
  <2>1. \A d \in Conns : ~Settles(d, at)'
    BY <1>11, <1>12
  <2>2. rooms'[at].Capacity = Cardinality(Inside(at)')
    BY <1>7, <1>9, <1>10
  <2> QED BY <2>1, <2>2 DEF Counted
<1>15. ASSUME NEW r \in DOMAIN rooms, r # at PROVE Counted(r)'
  <2>1. Counted(r) /\ Inside(r)' = Inside(r) /\ rooms'[r] = rooms[r]
    BY <1>9, <1>10, <1>15 DEF CountedInv
  <2>2. \A d \in Conns : Settles(d, r)' <=> Settles(d, r) /\ d # c
    BY <1>12, <1>13
  <2>3. \A d \in Conns : Settles(d, r) => d # c
    BY <1>12, <1>15
  <2> QED BY <1>8, <2>1, <2>2, <2>3 DEF Counted
<1>16. \A r \in Rooms : IsFiniteSet(Inside(r)')
  BY <1>10 DEF CountedInv
<1>17. \A d \in Conns : TaskOK(pc'[d], job'[d])
  BY <1>8 DEF CountedInv, TaskOK
<1>18. CountedInv'
  <2>1. \A r \in DOMAIN rooms' : Counted(r)'
    BY <1>9, <1>14, <1>15
  <2> QED BY <1>16, <1>17, <2>1 DEF CountedInv
<1>19. \A r : Settling(r)' <=> Settling(r) /\ r # at
  <2>1. \A r : Settling(r)' <=> \E d \in Conns : Settles(d, r)'
    BY DEF Settling, Settles, Bookkeeping
  <2> QED BY <1>11, <1>12, <1>13, <2>1, SettlingIs
<1>20. at \in SettlingView /\ SettlingView' = SettlingView \ {at}
  <2>1. Settling(at)
    BY <1>5, SettlingIs
  <2> QED BY <1>2, <1>19, <2>1 DEF SettlingView
<1>21. PopulationView' = [PopulationView EXCEPT ![at] = Cardinality(Inside(at))]
  BY <1>2, <1>7, <1>9 DEF PopulationView
<1>22. InsideView' = InsideView
  BY <1>10 DEF InsideView
<1> QED BY <1>18, <1>20, <1>21, <1>22

-----------------------------------------------------------------------------
(* Occupancy counts the way this module does. *)
LEMMA SameCardinality == \A S : Room!Cardinality(S) = Cardinality(S)
BY Zenon DEF Room!Cardinality, Cardinality

(* Every step preserves the invariant and is one of Occupancy, or none. *)
LEMMA NextCounted ==
  ASSUME CountedInv, [ServerNext]_serverVars
  PROVE  CountedInv' /\ [Room!OccupancyNext]_<<InsideView, PopulationView, SettlingView>>
<1> DEFINE Step ==
             /\ CountedInv'
             /\ [Room!OccupancyNext]_<<InsideView, PopulationView, SettlingView>>
<1>1. EverywhereInv'
  BY NextEverywhere DEF CountedInv
<1>2. CASE UNCHANGED serverVars
  <2>1. \A r : Inside(r)' = Inside(r)
    BY <1>2 DEF serverVars, Inside, OpenVisits
  <2>2. \A d \in Conns : \A r : Settles(d, r)' <=> Settles(d, r)
    BY <1>2 DEF serverVars, Settles
  <2>3. /\ Serial' /\ \A r \in Rooms : IsFiniteSet(Inside(r)')
        /\ \A d \in Conns : TaskOK(pc'[d], job'[d])
    BY <1>2, <2>1 DEF serverVars, CountedInv, Serial, Active
  <2>4. \A r \in DOMAIN rooms' : Counted(r)'
    BY <1>2, <2>1, <2>2 DEF serverVars, CountedInv, Counted
  <2>5. CountedInv'
    BY <1>1, <2>3, <2>4 DEF CountedInv
  <2>6. UNCHANGED <<InsideView, PopulationView, SettlingView>>
    <3>1. SettlingView' = SettlingView
      BY <1>2 DEF serverVars, SettlingView, Settling
    <3>2. PopulationView' = PopulationView
      BY <1>2 DEF serverVars, PopulationView
    <3>3. InsideView' = InsideView
      BY <2>1 DEF InsideView
    <3> QED BY <3>1, <3>2, <3>3
  <2> QED BY <2>5, <2>6
<1>3. CASE ServerNext
  <2>1. Serial'
    BY <1>3, SerialKept DEF CountedInv, EverywhereInv, IsolatedInv, OneByOne
  <2>2. ASSUME NEW c \in Conns, PutLogin(c) PROVE Step
    <3>1. PICK r, v, i : r = job[c].at /\ v = job[c].user /\ i = job[c].index
      OBVIOUS
    <3>2. /\ pc[c] = "put_login" /\ Goes(c, pc[c], "set_current_room", job[c])
          /\ UNCHANGED rooms /\ log' = Put(log, <<r, v, i>>, OpenEntry(v))
      BY <2>2, <3>1, PlainIDs DEF PutLogin, Goes, CountedInv, OneByOne, Apart
    <3>3. OpenEntry(v).user = v /\ OpenEntry(v).open
      BY DEF OpenEntry
    <3>4. /\ CountedInv' /\ r \in Rooms /\ v \in Users
          /\ r \notin SettlingView /\ SettlingView' = SettlingView \cup {r}
          /\ PopulationView' = PopulationView
          /\ <<r, v>> \notin InsideView /\ InsideView' = InsideView \cup {<<r, v>>}
      BY <1>1, <2>1, <3>1, <3>2, <3>3, LogPutCounted
    <3>5. Room!Enter(r, v)
      BY <3>4 DEF Room!Enter, Room!Change, InsideView, PopulationView, SettlingView
    <3> QED BY <3>4, <3>5 DEF Room!OccupancyNext
  <2>3. ASSUME NEW c \in Conns, PutLogout(c) PROVE Step
    <3>1. PICK r, v, i : r = job[c].at /\ v = job[c].user /\ i = job[c].index
      OBVIOUS
    <3>2. PICK stay, days : /\ days = job[c].carry + stay
                            /\ log' = Put(log, <<r, v, i>>, ClosedEntry(v, days))
      BY <2>3, <3>1, PlainIDs DEF PutLogout, CountedInv, OneByOne, Apart
    <3>3. ClosedEntry(v, days).user = v /\ ~ClosedEntry(v, days).open
      BY DEF ClosedEntry
    <3>4. /\ pc[c] = "put_logout" /\ UNCHANGED rooms
          /\ \E to \in {"set_current_room", "get_capacity"} : Goes(c, pc[c], to, job[c])
      BY <2>3 DEF PutLogout, Goes
    <3>5. /\ CountedInv' /\ r \in Rooms /\ v \in Users
          /\ r \notin SettlingView /\ SettlingView' = SettlingView \cup {r}
          /\ PopulationView' = PopulationView
          /\ <<r, v>> \in InsideView /\ InsideView' = InsideView \ {<<r, v>>}
      BY <1>1, <2>1, <3>1, <3>2, <3>3, <3>4, LogPutCounted
    <3>6. Room!Leave(r, v)
      BY <3>5 DEF Room!Leave, Room!Change, InsideView, PopulationView, SettlingView
    <3> QED BY <3>5, <3>6 DEF Room!OccupancyNext
  <2>4. ASSUME NEW c \in Conns, PutCapacity(c) PROVE Step
    <3>1. PICK r : r = job[c].at
      OBVIOUS
    <3>2. /\ CountedInv' /\ r \in SettlingView
          /\ SettlingView' = SettlingView \ {r}
          /\ PopulationView' = [PopulationView EXCEPT ![r] = Cardinality(Inside(r))]
          /\ InsideView' = InsideView
      BY <1>1, <2>1, <2>4, <3>1, CapacityPutCounted
    <3>3. r \in Rooms
      BY <3>2 DEF SettlingView
    <3>4. Room!In(r) = Inside(r)
      BY <3>3 DEF Room!In, Inside
    <3>5. Room!Publish(r)
      BY <3>2, <3>4, SameCardinality
      DEF Room!Publish, InsideView, PopulationView, SettlingView
    <3> QED BY <3>2, <3>3, <3>5 DEF Room!OccupancyNext
  <2>5. ASSUME NEW c \in Conns PROVE ~CallFails(c)
    BY DEF CallFails, CountedInv, OneByOne, EverywhereInv, IsolatedInv, VisitsInv,
       SafetyInv,
           ServerTypeOK
  <2>6. ASSUME NEW c \in Conns, Receive(c) PROVE Step
    <3>1. Unsettled(c)
      BY <2>6, ReceiveUnsettled DEF CountedInv, EverywhereInv, IsolatedInv, VisitsInv
    <3> QED BY <1>1, <2>1, <3>1, UnsettledCounted
  <2>7. ASSUME NEW c \in Conns, Unsettled(c) PROVE Step
    BY <1>1, <2>1, <2>7, UnsettledCounted
  <2>8. ASSUME NEW c \in Conns, Run(c) PROVE Step
    <3>1. VisitsInv(Rooms \X Users) /\ TaskOK(pc[c], job[c])
      BY DEF CountedInv, EverywhereInv, IsolatedInv
    <3> QED BY <1>1, <2>1, <2>2, <2>3, <2>4, <2>7, <2>8, <3>1, ReadsUnsettled,
               BookkeepingCounted DEF Run
  <2> QED BY <1>3, <2>5, <2>6, <2>8 DEF ServerNext
<1> QED BY <1>2, <1>3

(* The invariant holds of every behaviour. *)
LEMMA CountedAlways == OneByOne /\ ServerSpec => []CountedInv
<1>1. OneByOne /\ ServerInit => CountedInv
  BY InitCounted
<1>2. CountedInv /\ [ServerNext]_serverVars => CountedInv'
  BY NextCounted
<1> QED BY <1>1, <1>2, PTL DEF ServerSpec

(* A room without a thread at work is not settling. *)
LEMMA CountedIsSettled == CountedInv => CapacitySettled
<1> SUFFICES ASSUME CountedInv, NEW r \in DOMAIN rooms,
                    \A c \in Conns : Active(c) => job[c].room # r
             PROVE  rooms[r].Capacity = Cardinality(Inside(r))
  BY DEF CapacitySettled
<1>1. \A c \in Conns : ~Settles(c, r)
  BY DEF Settles, Bookkeeping, CountedInv, EverywhereInv, IsolatedInv, VisitsInv,
     NobodyMoves,
         Active, Calls
<1> QED BY <1>1 DEF CountedInv, Counted

(* When the taps at one lock are kept apart and no call fails, the Capacity *)
(* of a room for which no thread is working is the number of people whose  *)
(* visit to it is open; also when a total of two days keeps one open.      *)
THEOREM CapacityIsExact == OneByOne /\ ServerSpec => []CapacitySettled
<1>1. CountedInv => CapacitySettled
  BY CountedIsSettled
<1> QED BY <1>1, CountedAlways, PTL

(* Then every step of the server is a step of Occupancy or none: somebody   *)
(* enters or leaves, and the new number is published before the next       *)
(* change.                                                                 *)
THEOREM ServerKeepsOccupancy == OneByOne /\ ServerSpec => Room!OccupancySafety
<1>1. OneByOne /\ ServerInit => Room!OccupancyInit
  BY InitCounted DEF Room!OccupancyInit, InsideView, PopulationView, SettlingView
<1>2. CountedInv /\ [ServerNext]_serverVars
        => [Room!OccupancyNext]_(Room!occupancyVars)
  BY NextCounted DEF Room!occupancyVars, InsideView, PopulationView, SettlingView
<1> QED BY <1>1, <1>2, CountedAlways, PTL DEF ServerSpec, Room!OccupancySafety

-----------------------------------------------------------------------------
(* From the first call after the answer to the put of the visit. *)
Recording ==
  {"get_current_room", "login_room", "put_login", "logout_room", "get_previous", "put_logout"}

(* A step of the thread of c, which works for u at r, records the tap of u  *)
(* if it goes from a call in Recording to another: then u is inside r       *)
(* exactly if u was not before, unless two days in the room end the thread. *)
(* Nothing else changes who is inside; and the answer that starts it all is *)
(* "230 Allowed".                                                          *)
Records(c, r, u, alone) ==
  /\ \A s, v : s # r \/ v # u => (v \in Inside(s)' <=> v \in Inside(s))
  /\ alone /\ ~TwoDays(c) /\ pc[c] \in Recording /\ pc'[c] \notin Recording
       => (u \in Inside(r)' <=> u \notin Inside(r))
  /\ pc[c] \notin Recording \/ pc'[c] \in Recording
       => (u \in Inside(r)' <=> u \in Inside(r))
  /\ pc'[c] \in Recording => pc[c] \in Recording \cup {"send_allowed"}
  /\ pc[c] = "send_allowed" => pc'[c] \in Recording
  /\ job'[c].reply = "230 Allowed" <=> pc[c] = "send_allowed" \/ job[c].reply = "230 Allowed"
  /\ pc'[c] \in Deciding => pc[c] \in Deciding

(* A thread that has let somebody in, and works for that person alone,      *)
(* never leaves Recording but by the put of a visit.                       *)
LEMMA RunRecords ==
  ASSUME NEW P, IsolatedInv(P), NEW c \in Conns, Run(c),
         NEW r, NEW u, r = job[c].room, u = job[c].user
  PROVE  Records(c, r, u, Here(c, P))
<1> DEFINE j == job[c]
<1>1. /\ j \in Job /\ j.room = r /\ j.user = u
      /\ pc[c] \in Calls => j.at = r /\ j.task # "move"
      /\ pc[c] \in Deciding => j.reply = "none"
      /\ job \in [Conns -> Job] /\ pc \in [Conns -> Calls \cup Ended]
  BY DEF IsolatedInv, VisitsInv, SafetyInv, ServerTypeOK, NobodyMoves, Active, Admitted,
     AdmittedOK,
         Deciding
<1>2. ASSUME NEW from, NEW to, NEW k, Goes(c, from, to, k), UNCHANGED log,
             k.reply = j.reply,
             \/ from \in Deciding \ {"send_allowed"} /\ to \in (Deciding \cup Ended)
             \/ from \in Recording /\ to \in Recording
             \/ from \in Bookkeeping /\ to \in (Bookkeeping \cup Ended)
             \/ from \in Recording /\ to \in Ended /\ (Here(c, P) => TwoDays(c))
      PROVE  Records(c, r, u, Here(c, P))
  <2>1. pc[c] = from /\ pc'[c] = to /\ job'[c] = k
    BY <1>1, <1>2 DEF Goes
  <2>2. from # "send_allowed"
    BY <1>2 DEF Recording, Bookkeeping
  <2>3. \A s : Inside(s)' = Inside(s)
    BY <1>2 DEF Inside, OpenVisits
  <2>4. /\ to \in Recording => from \in Recording
        /\ from \in Recording /\ to \notin Recording => (Here(c, P) => TwoDays(c))
        /\ to \in Deciding => from \in Deciding
    BY <1>2 DEF Recording, Deciding, Bookkeeping, Ended
  <2> QED BY <1>2, <2>1, <2>2, <2>3, <2>4 DEF Records
<1>3. Over(j).reply = j.reply
  BY DEF Over, NewJob
<1>4. \A x : /\ [j EXCEPT !.groups = x].reply = j.reply
             /\ [j EXCEPT !.carry = x].reply = j.reply
             /\ [j EXCEPT !.entity = x].reply = j.reply
  BY <1>1 DEF Job
<1>5. CASE IsUsersFromRoom(c) \/ GetRoomGroup(c) \/ GetRoomGroupRaises(c) \/ GetUserGroup(c)
  BY <1>2, <1>3, <1>4, <1>5 DEF IsUsersFromRoom, GetRoomGroup, GetRoomGroupRaises,
     GetUserGroup, Raises, Reads, Deciding, Ended
<1>6. CASE SendDenied(c) \/ SendAllowed(c)
  <2>1. PICK to, k : /\ Reads(c, pc[c], to, k)
                     /\ \/ pc[c] = "get_user_Group" /\ to = "closed" /\ k.reply = "430 Denied"
                        \/ /\ pc[c] = "send_allowed" /\ to = "get_current_room"
                           /\ k.reply = "230 Allowed"
    <3>1. CASE SendDenied(c)
      <4>1. /\ Reads(c, "get_user_Group", "closed", Over([j EXCEPT !.reply = "430 Denied"]))
            /\ pc[c] = "get_user_Group"
        BY <3>1 DEF SendDenied, Reads, Goes
      <4>2. Over([j EXCEPT !.reply = "430 Denied"]).reply = "430 Denied"
        BY <1>1 DEF Over, NewJob, Job
      <4> QED BY <4>1, <4>2
    <3>2. CASE SendAllowed(c)
      <4>1. /\ Reads(c, "send_allowed", "get_current_room", [j EXCEPT !.reply = "230 Allowed"])
            /\ pc[c] = "send_allowed"
        BY <3>2 DEF SendAllowed, Reads, Goes
      <4>2. [j EXCEPT !.reply = "230 Allowed"].reply = "230 Allowed"
        BY <1>1 DEF Job
      <4> QED BY <4>1, <4>2
    <3> QED BY <1>6, <3>1, <3>2
  <2>2. pc'[c] = to /\ job'[c] = k /\ UNCHANGED log
    BY <1>1, <2>1 DEF Reads, Goes
  <2>3. \A s : Inside(s)' = Inside(s)
    BY <2>2 DEF Inside, OpenVisits
  <2>4. j.reply = "none"
    BY <1>1, <2>1 DEF Deciding
  <2> QED BY <2>1, <2>2, <2>3, <2>4 DEF Records, Recording, Deciding
<1>7. CASE GetCurrentRoom(c)
  <2>1. LastRoom(j.user) = None
    BY DEF IsolatedInv, VisitsInv, NobodyMoves, LastRoom
  <2>2. Reads(c, "get_current_room", "login_room", j)
    BY <1>7, <2>1 DEF GetCurrentRoom
  <2> QED BY <1>2, <2>2 DEF Reads, Recording
<1>8. CASE \E call \in {"login_room", "logout_room"} : Scan(c, call)
  <2>1. PICK call \in {"login_room", "logout_room"} :
          Reads(c, call, call, [j EXCEPT !.index = @ + 1])
    BY <1>8 DEF Scan
  <2>2. [j EXCEPT !.index = @ + 1].reply = j.reply
    BY <1>1 DEF Job
  <2> QED BY <1>2, <2>1, <2>2 DEF Reads, Recording
<1>9. CASE LoginFree(c) \/ LoginRefused(c) \/ LogoutFound(c) \/ GetPrevious(c)
  <2>1. [j EXCEPT !.index = 0, !.task = "logout"].reply = j.reply
    BY <1>1 DEF Job
  <2> QED BY <1>2, <1>4, <1>9, <2>1 DEF LoginFree, LoginRefused, LogoutFound, GetPrevious,
             Reads, Recording
<1>10. CASE SetCurrentRoom(c) \/ GetLoginTime(c) \/ PutLoginTime(c) \/ GetCapacity(c)
  BY <1>2, <1>3, <1>4, <1>10 DEF SetCurrentRoom, GetLoginTime, PutLoginTime, GetCapacity,
     Raises, Reads, Bookkeeping, Ended
<1>11. CASE PutCapacity(c)
  <2>1. j.task # "move"
    BY <1>1, <1>11 DEF PutCapacity, Goes, Calls
  <2>2. Goes(c, "put_capacity", "closed", Over([j EXCEPT !.entity = None])) /\ UNCHANGED log
    BY <1>11, <2>1 DEF PutCapacity
  <2>3. Over([j EXCEPT !.entity = None]).reply = j.reply
    BY <1>4 DEF Over, NewJob
  <2> QED BY <1>2, <2>2, <2>3 DEF Bookkeeping, Ended
<1>12. CASE PutLogin(c) \/ PutLogout(c)
  <2>1. PICK i : i = j.index /\ Entry(c) = <<r, u, i>> /\ j.at = r
    <3>1. pc[c] \in Calls
      BY <1>12 DEF PutLogin, PutLogout, Goes, Calls
    <3> QED BY <1>1, <3>1, PlainIDs DEF IsolatedInv, VisitsInv
  <2>2. PICK visit : /\ log' = Put(log, <<r, u, i>>, visit)
                     /\ visit.user = u /\ (visit.open <=> pc[c] = "put_login")
    <3>1. CASE PutLogin(c)
      BY <1>1, <2>1, <3>1 DEF PutLogin, OpenEntry, Goes
    <3>2. CASE PutLogout(c)
      <4>1. PICK days : log' = Put(log, <<r, u, i>>, ClosedEntry(u, days))
        BY <1>1, <2>1, <3>2 DEF PutLogout
      <4> QED BY <3>2, <4>1 DEF PutLogout, ClosedEntry, Goes
    <3> QED BY <1>12, <3>1, <3>2
  <2>3. /\ pc[c] \in {"put_login", "put_logout"} /\ job'[c] = j
        /\ pc'[c] \in {"set_current_room", "get_capacity"}
    BY <1>1, <1>12 DEF PutLogin, PutLogout, Goes
  <2>4. \A s, v : s # r \/ v # u => (v \in Inside(s)' <=> v \in Inside(s))
    BY <2>2, OthersUnmoved DEF IsolatedInv
  <2>5. Here(c, P) =>
          /\ pc[c] = "put_login" => u \notin Inside(r) /\ Inside(r)' = Inside(r) \cup {u}
          /\ pc[c] = "put_logout" => u \in Inside(r) /\ Inside(r)' = Inside(r) \ {u}
    BY <1>1, <2>1, <2>2, <2>3, VisitMoves DEF IsolatedInv
  <2>6. Here(c, P) => (u \in Inside(r)' <=> u \notin Inside(r))
    BY <2>3, <2>5
  <2> QED BY <2>3, <2>4, <2>6 DEF Records, Recording, Deciding
<1>13. CASE LogoutRaises(c) \/ GetPreviousRaises(c)
  <2>1. Here(c, P) => TwoDays(c)
    BY <1>13, AdmittedGoesOn
  <2> QED BY <1>2, <1>3, <1>13, <2>1 DEF LogoutRaises, GetPreviousRaises, Raises, Reads,
             Recording, Ended
<1> QED BY <1>5, <1>6, <1>7, <1>8, <1>9, <1>10, <1>11, <1>12, <1>13 DEF Run
=============================================================================
