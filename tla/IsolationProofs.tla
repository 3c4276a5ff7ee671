---------------------------- MODULE IsolationProofs ----------------------------
(***************************************************************************)
(* What the server guarantees about the taps of one person at one lock     *)
(* when they are kept apart, so that no two threads work for that person    *)
(* at that lock: whatever else is tapped meanwhile, whichever calls fail,   *)
(* and wherever threads die.  Either kind of isolation keeps everybody's   *)
(* taps apart at every lock.                                               *)
(***************************************************************************)
EXTENDS LockServerProofs

(* The precondition of the theorems below; it is constant. *)
Apart == Isolation # "none" /\ DOMAIN Aliases = {}

(* set_current_room finds no entity of kind 'Users', so that Last_Room      *)
(* stays None and no thread ever leaves one room to enter another.         *)
NobodyMoves ==
  /\ \A k \in DOMAIN users : k[1] = "User" /\ users[k].Last_Room = None
  /\ \A c \in Conns : Active(c) => job[c].at = job[c].room /\ job[c].task # "move"

(* A thread answers at send_allowed and not before, and only for a room     *)
(* that is stored.                                                         *)
Deciding == {"is_users_from_room", "get_room_Group", "get_user_Group", "send_allowed"}

AdmittedOK(call, j, stored) ==
  /\ call \in Deciding => j.reply = "none"
  /\ call \in Calls \ {"is_users_from_room", "get_room_Group"} => j.room \in stored

Admitted == \A c \in Conns : AdmittedOK(pc[c], job[c], DOMAIN rooms)

(* A visit is stored under the cruzID it belongs to. *)
OwnVisits(lg) == \A k \in DOMAIN lg : lg[k].user = k[2]

(* From here on P is the set of pairs of a room and a person that are kept  *)
(* apart.  A thread that works for such a pair works for it alone.         *)
Here(c, P) == <<job[c].room, job[c].user>> \in P

Alone(P) ==
  \A c, d \in Conns :
    c # d /\ Active(c) /\ Active(d) /\ Here(c, P)
      => job[c].room # job[d].room \/ job[c].user # job[d].user

(* What a scan has seen is still so when its put comes: the visits it       *)
(* passed are closed, the one it is to write is missing or open.  The open *)
(* visit that sends a thread to log out is still ahead of that scan.       *)
FreshOK(call, j, lg) ==
  /\ call \in {"login_room", "put_login", "logout_room", "get_previous", "put_logout"}
       => \A i \in 0..(j.index - 1) : ~lg[<<j.at, j.user, i>>].open
  /\ call = "put_login" => <<j.at, j.user, j.index>> \notin DOMAIN lg
  /\ call = "logout_room" =>
       \E i \in Nat : i >= j.index /\ <<j.at, j.user, i>> \in DOMAIN lg
                      /\ lg[<<j.at, j.user, i>>].open
  /\ call \in {"get_previous", "put_logout"} => lg[<<j.at, j.user, j.index>>].open
  /\ call = "get_previous" => j.index > 0

Fresh(P) == \A c \in Conns : Here(c, P) => FreshOK(pc[c], job[c], log)

LastOpen(P) ==
  \A k \in DOMAIN log :
    <<k[1], k[2]>> \in P /\ log[k].open => <<k[1], k[2], k[3] + 1>> \notin DOMAIN log

(* What keeps the visits in order; and, as long as no room is deleted, what *)
(* keeps the threads that have let somebody in at work.                    *)
VisitsInv(P) ==
  /\ DOMAIN Aliases = {} /\ SafetyInv /\ NobodyMoves /\ OwnVisits(log)
  /\ Alone(P) /\ Fresh(P) /\ LastOpen(P)

IsolatedInv(P) == VisitsInv(P) /\ Admitted

-----------------------------------------------------------------------------
(* Before the first tap nobody is anywhere. *)
LEMMA InitIsolated ==
  ASSUME NEW P, DOMAIN Aliases = {}, ServerInit
  PROVE  IsolatedInv(P)
<1>1. \A c \in Conns : pc[c] = "idle" /\ pc[c] \notin Calls
  BY DEF ServerInit, Calls
<1>2. NobodyMoves
  BY <1>1 DEF NobodyMoves, Active, ServerInit, StoreInit, NewUser
<1>3. Alone(P) /\ Fresh(P)
  BY <1>1 DEF Alone, Fresh, FreshOK, Active
<1>4. LastOpen(P) /\ OwnVisits(log)
  BY DEF LastOpen, OwnVisits, ServerInit, StoreInit
<1>5. Admitted
  BY <1>1 DEF Admitted, AdmittedOK, Deciding
<1> QED BY <1>2, <1>3, <1>4, <1>5, InitSafety DEF IsolatedInv, VisitsInv

(* The IDs of visits are what they look like. *)
LEMMA PlainIDs ==
  ASSUME DOMAIN Aliases = {}, NEW c \in Conns
  PROVE  /\ Entry(c) = <<job[c].at, job[c].user, job[c].index>>
         /\ \A i \in Nat : VisitID(job[c].at, job[c].user, i) = <<job[c].at, job[c].user, i>>
BY DEF Entry, VisitID

(* A working thread that goes on for the same person at the same lock,      *)
(* and writes only visits of that person there, leaves all other threads   *)
(* what they have seen.                                                    *)
LEMMA OthersFresh ==
  ASSUME NEW P, VisitsInv(P), NEW c \in Conns, Active(c), NEW to, NEW j,
         pc'[c] = to /\ job'[c] = j,
         \A d \in Conns \ {c} : pc'[d] = pc[d] /\ job'[d] = job[d],
         j.user = job[c].user /\ j.room = job[c].room,
         to \in Calls => j.at = j.room /\ j.task # "move",
         users' = users,
         \A r, u, i : r # job[c].room \/ u # job[c].user =>
           /\ <<r, u, i>> \in DOMAIN log' <=> <<r, u, i>> \in DOMAIN log
           /\ <<r, u, i>> \in DOMAIN log => log'[<<r, u, i>>] = log[<<r, u, i>>],
         Here(c, P) => FreshOK(to, j, log')
  PROVE  NobodyMoves' /\ Alone(P)' /\ Fresh(P)'
<1>1. NobodyMoves'
  BY DEF VisitsInv, NobodyMoves, Active
<1>2. \A d \in Conns : Here(d, P)' <=> Here(d, P)
  BY DEF Here
<1>3. Alone(P)'
  BY <1>2 DEF VisitsInv, Alone, Active
<1>4. ASSUME NEW d \in Conns, Here(d, P) PROVE FreshOK(pc'[d], job'[d], log')
  <2>1. CASE d = c
    BY <1>4, <2>1
  <2>2. CASE d # c /\ ~Active(d)
    BY <2>2 DEF Active, Calls, FreshOK
  <2>3. CASE d # c /\ Active(d)
    <3> DEFINE k == job[d]
    <3>1. /\ FreshOK(pc[d], k, log) /\ ScanOK(pc[d], k, DOMAIN log)
          /\ k.index \in Nat
          /\ \A i \in Nat : VisitID(k.at, k.user, i) = <<k.at, k.user, i>>
      BY <1>4, PlainIDs DEF VisitsInv, SafetyInv, ServerTypeOK, ScanState, Fresh, Job
    <3>2. k.at # job[c].room \/ k.user # job[c].user
      BY <1>4, <2>3 DEF VisitsInv, NobodyMoves, Alone
    <3>3. \A i : /\ <<k.at, k.user, i>> \in DOMAIN log' <=> <<k.at, k.user, i>> \in DOMAIN log
                 /\ <<k.at, k.user, i>> \in DOMAIN log =>
                      log'[<<k.at, k.user, i>>] = log[<<k.at, k.user, i>>]
      BY <3>2
    <3>4. pc'[d] = pc[d] /\ job'[d] = k
      BY <2>3
    <3> HIDE DEF k
    <3>5. FreshOK(pc[d], k, log')
      BY <3>1, <3>3 DEF FreshOK, ScanOK
    <3> QED BY <3>4, <3>5
  <2> QED BY <2>1, <2>2, <2>3
<1> QED BY <1>1, <1>2, <1>3, <1>4 DEF Fresh

(* A step that writes neither a visit nor a user. *)
LEMMA QuietIsolated ==
  ASSUME NEW P, VisitsInv(P), SafetyInv', NEW c \in Conns, NEW from \in Calls,
         NEW to \in Calls \cup Ended, NEW j \in Job,
         Goes(c, from, to, j), UNCHANGED <<users, log>>,
         j.user = job[c].user /\ j.room = job[c].room,
         to \in Calls => j.at = j.room /\ j.task # "move",
         Here(c, P) => FreshOK(to, j, log)
  PROVE  VisitsInv(P)'
<1>1. /\ Active(c)
      /\ pc'[c] = to /\ job'[c] = j
      /\ \A d \in Conns \ {c} : pc'[d] = pc[d] /\ job'[d] = job[d]
  BY GoesFacts DEF VisitsInv, SafetyInv, Active, Goes
<1>2. NobodyMoves' /\ Alone(P)' /\ Fresh(P)'
  BY <1>1, OthersFresh
<1>3. LastOpen(P)' /\ OwnVisits(log')
  BY DEF VisitsInv, LastOpen, OwnVisits
<1> QED BY <1>2, <1>3 DEF VisitsInv

(* A thread that ends takes nothing with it. *)
LEMMA EndIsolated ==
  ASSUME NEW P, VisitsInv(P), SafetyInv', NEW c \in Conns, NEW from \in Calls,
         NEW to \in Ended, NEW reply \in Replies,
         Reads(c, from, to, Over([job[c] EXCEPT !.reply = reply]))
  PROVE  VisitsInv(P)'
<1> DEFINE j == Over([job[c] EXCEPT !.reply = reply])
<1>1. job[c] \in Job
  BY DEF VisitsInv, SafetyInv, ServerTypeOK
<1>2. j \in Job /\ j.user = job[c].user /\ j.room = job[c].room
  BY <1>1 DEF Over, NewJob, Job
<1>3. to \notin Calls /\ FreshOK(to, j, log)
  BY DEF Ended, Calls, FreshOK
<1> HIDE DEF j
<1>4. Goes(c, from, to, j) /\ UNCHANGED <<rooms, users, log>>
  BY DEF Reads, j
<1> QED BY <1>2, <1>3, <1>4, QuietIsolated

(* An exception ends the thread. *)
LEMMA RaisesIsolated ==
  ASSUME NEW P, VisitsInv(P), SafetyInv', NEW c \in Conns, NEW from \in Calls,
         Raises(c, from)
  PROVE  VisitsInv(P)'
<1>1. job[c] \in Job
  BY DEF VisitsInv, SafetyInv, ServerTypeOK
<1>2. job[c].reply \in Replies /\ Over(job[c]) = Over([job[c] EXCEPT !.reply = job[c].reply])
  BY <1>1 DEF Job, Over, NewJob
<1> QED BY <1>2, EndIsolated DEF Raises, Ended

-----------------------------------------------------------------------------
(* The steps, one by one. *)

(* A frame gives a thread a first call, and nothing to remember. *)
LEMMA Received ==
  ASSUME SafetyInv, NEW c \in Conns, Receive(c)
  PROVE  /\ UNCHANGED <<rooms, users, log>>
         /\ \A d \in Conns \ {c} : pc'[d] = pc[d] /\ job'[d] = job[d]
         /\ pc'[c] \in Calls =>
              /\ pc'[c] = "is_users_from_room" /\ job'[c].reply = "none"
              /\ job'[c].at = job'[c].room /\ job'[c].task = "login"
              /\ MayArrive(job'[c].user, job'[c].room)
<1>1. ASSUME NEW to, NEW k, Receives(c, to, k)
      PROVE  /\ pc'[c] = to /\ job'[c] = k /\ UNCHANGED <<rooms, users, log>>
             /\ \A d \in Conns \ {c} : pc'[d] = pc[d] /\ job'[d] = job[d]
  BY <1>1 DEF SafetyInv, ServerTypeOK, Receives
<1>2. CASE \E name \in Names, r \in Rooms : ReceiveLogin(c, name, r)
  <2>1. PICK name \in Names, r \in Rooms : ReceiveLogin(c, name, r)
    BY <1>2
  <2> DEFINE k == NewJob(Upper[name], r, "none")
  <2>2. Receives(c, "is_users_from_room", k) /\ MayArrive(Upper[name], r)
    BY <2>1 DEF ReceiveLogin
  <2>3. k.user = Upper[name] /\ k.room = r /\ k.at = r /\ k.task = "login" /\ k.reply = "none"
    BY DEF NewJob
  <2> HIDE DEF k
  <2> QED BY <1>1, <2>2, <2>3
<1>3. CASE \E name \in Names, r \in Rooms : ReceiveUnsplittable(c, name, r)
  BY <1>1, <1>3 DEF ReceiveUnsplittable, Calls
<1>4. CASE \E reply \in {"430 Denied", "404 Command not found"} : ReceiveGarbage(c, reply)
  BY <1>1, <1>4 DEF ReceiveGarbage, Calls
<1> QED BY <1>2, <1>3, <1>4 DEF Receive

(* Where taps are kept apart, a thread is only given a frame when no other  *)
(* works for that person at that lock.                                     *)
LEMMA ArrivesAlone ==
  ASSUME NEW P, Apart, VisitsInv(P), NEW c \in Conns, Receive(c)
  PROVE  Alone(P)'
<1>1. /\ \A d \in Conns \ {c} : pc'[d] = pc[d] /\ job'[d] = job[d]
      /\ Active(c)' => MayArrive(job'[c].user, job'[c].room)
  BY Received DEF VisitsInv, Active
<1>2. Isolation \in {"user", "room"}
  BY RequestAssumption DEF Apart
<1>3. ASSUME NEW d \in Conns, d # c, Active(c)', Active(d)
      PROVE  job'[c].room # job[d].room \/ job'[c].user # job[d].user
  BY <1>1, <1>2, <1>3 DEF MayArrive
<1>4. \A d \in Conns \ {c} : (Active(d)' <=> Active(d)) /\ (Here(d, P)' <=> Here(d, P))
  BY <1>1 DEF Active, Here
<1> QED BY <1>1, <1>3, <1>4 DEF VisitsInv, Alone

(* A frame is received. *)
LEMMA ReceiveIsolated ==
  ASSUME NEW P, VisitsInv(P), SafetyInv', NEW c \in Conns, Receive(c), Alone(P)'
  PROVE  VisitsInv(P)'
<1>1. /\ UNCHANGED <<rooms, users, log>>
      /\ \A d \in Conns \ {c} : pc'[d] = pc[d] /\ job'[d] = job[d]
      /\ pc'[c] \in Calls =>
           /\ pc'[c] = "is_users_from_room" /\ job'[c].reply = "none"
           /\ job'[c].at = job'[c].room /\ job'[c].task = "login"
  BY Received DEF VisitsInv
<1>2. NobodyMoves'
  BY <1>1 DEF VisitsInv, NobodyMoves, Active
<1>3. Fresh(P)'
  <2>1. FreshOK(pc'[c], job'[c], log)
    BY <1>1 DEF FreshOK, Calls
  <2> QED BY <1>1, <2>1 DEF VisitsInv, Fresh, Here
<1>4. LastOpen(P)' /\ OwnVisits(log')
  BY <1>1 DEF VisitsInv, LastOpen, OwnVisits
<1> QED BY <1>2, <1>3, <1>4 DEF VisitsInv

(* A call that fails ends the thread. *)
LEMMA FailureIsolated ==
  ASSUME NEW P, VisitsInv(P), SafetyInv', NEW c \in Conns, CallFails(c)
  PROVE  VisitsInv(P)'
<1>1. /\ UNCHANGED <<rooms, users, log>>
      /\ \A d \in Conns \ {c} : pc'[d] = pc[d] /\ job'[d] = job[d]
      /\ pc'[c] = "died"
  BY DEF VisitsInv, SafetyInv, ServerTypeOK, CallFails
<1>2. NobodyMoves' /\ Alone(P)'
  BY <1>1 DEF VisitsInv, NobodyMoves, Alone, Here, Active, Calls
<1>3. Fresh(P)'
  <2>1. FreshOK("died", job'[c], log)
    BY DEF FreshOK
  <2> QED BY <1>1, <2>1 DEF VisitsInv, Fresh, Here
<1>4. LastOpen(P)' /\ OwnVisits(log')
  BY <1>1 DEF VisitsInv, LastOpen, OwnVisits
<1> QED BY <1>2, <1>3, <1>4 DEF VisitsInv

(* is_allowed and the answer. *)
LEMMA DecisionIsolated ==
  ASSUME NEW P, VisitsInv(P), SafetyInv', NEW c \in Conns,
         \/ IsUsersFromRoom(c) \/ GetRoomGroup(c) \/ GetRoomGroupRaises(c)
         \/ GetUserGroup(c) \/ SendDenied(c) \/ SendAllowed(c)
  PROVE  VisitsInv(P)'
<1> DEFINE j == job[c]
<1>1. j \in Job /\ StoreTypeOK
  BY DEF VisitsInv, SafetyInv, ServerTypeOK
<1>2. Active(c) => j.at = j.room /\ j.task # "move"
  BY DEF VisitsInv, NobodyMoves
<1>3. ASSUME NEW from \in Calls,
             NEW to \in {"send_allowed", "get_room_Group", "get_user_Group", "get_current_room"},
             NEW k \in Job, Reads(c, from, to, k),
             k.user = j.user, k.room = j.room, k.at = j.at, k.task = j.task
      PROVE  VisitsInv(P)'
  <2>1. Goes(c, from, to, k) /\ UNCHANGED <<rooms, users, log>> /\ Active(c)
    BY <1>3 DEF Reads, Goes, Active
  <2>2. FreshOK(to, k, log)
    BY DEF FreshOK
  <2> QED BY <1>2, <1>3, <2>1, <2>2, QuietIsolated DEF Calls
<1>4. CASE IsUsersFromRoom(c)
  <2>1. PICK to \in {"send_allowed", "get_room_Group"} :
          Reads(c, "is_users_from_room", to, j)
    BY <1>4 DEF IsUsersFromRoom
  <2> QED BY <1>1, <1>3, <2>1 DEF Calls
<1>5. CASE GetRoomGroup(c)
  <2> DEFINE k == [j EXCEPT !.groups = rooms[j.room].Group]
  <2>1. /\ rooms[j.room].Group \in Seq(Classes)
        /\ Reads(c, "get_room_Group", "get_user_Group", k)
    BY <1>1, <1>5 DEF GetRoomGroup, StoreTypeOK, RoomEntity
  <2>2. /\ k \in Job
        /\ k.user = j.user /\ k.room = j.room /\ k.at = j.at /\ k.task = j.task
    BY <1>1, <2>1 DEF Job
  <2> HIDE DEF k
  <2> QED BY <1>3, <2>1, <2>2 DEF Calls
<1>6. CASE GetUserGroup(c)
  BY <1>1, <1>3, <1>6 DEF GetUserGroup, Calls
<1>7. CASE SendAllowed(c)
  <2> DEFINE k == [j EXCEPT !.reply = "230 Allowed"]
  <2>1. /\ k \in Job
        /\ k.user = j.user /\ k.room = j.room /\ k.at = j.at /\ k.task = j.task
    BY <1>1 DEF Job, Replies
  <2>2. Reads(c, "send_allowed", "get_current_room", k)
    BY <1>7 DEF SendAllowed
  <2> HIDE DEF k
  <2> QED BY <1>3, <2>1, <2>2 DEF Calls
<1>8. CASE SendDenied(c)
  BY <1>8, EndIsolated DEF SendDenied, Calls, Ended, Replies
<1>9. CASE GetRoomGroupRaises(c)
  BY <1>9, RaisesIsolated DEF GetRoomGroupRaises, Calls
<1> QED BY <1>4, <1>5, <1>6, <1>7, <1>8, <1>9

(* A step that only reads on behalf of a scan. *)
LEMMA ScanReadIsolated ==
  ASSUME NEW P, VisitsInv(P), SafetyInv', NEW c \in Conns,
         NEW from \in Calls,
         NEW to \in {"login_room", "put_login", "logout_room", "get_previous", "put_logout"},
         NEW j \in Job, Reads(c, from, to, j),
         j.user = job[c].user /\ j.room = job[c].room /\ j.at = job[c].at,
         j.task \in {job[c].task, "logout"},
         Here(c, P) => FreshOK(to, j, log)
  PROVE  VisitsInv(P)'
<1>1. Goes(c, from, to, j) /\ UNCHANGED <<users, log>> /\ Active(c)
  BY DEF Reads, Goes, Active
<1>2. j.at = j.room /\ j.task # "move"
  BY <1>1 DEF VisitsInv, NobodyMoves
<1> QED BY <1>1, <1>2, QuietIsolated DEF Calls

(* The reads of get_current_room, login_room and logout_room. *)
LEMMA ScanIsolated ==
  ASSUME NEW P, VisitsInv(P), SafetyInv', NEW c \in Conns,
         \/ GetCurrentRoom(c)
         \/ \E call \in {"login_room", "logout_room"} : Scan(c, call)
         \/ LoginFree(c) \/ LoginRefused(c) \/ LogoutRaises(c) \/ LogoutFound(c)
         \/ GetPrevious(c) \/ GetPreviousRaises(c)
  PROVE  VisitsInv(P)'
<1> DEFINE j == job[c]
           e == <<j.at, j.user, j.index>>
<1>1. /\ j \in Job /\ StoreTypeOK /\ ThreadOK(pc[c], j)
      /\ Here(c, P) => FreshOK(pc[c], j, log)
      /\ Entry(c) = e
  BY PlainIDs DEF VisitsInv, SafetyInv, ServerTypeOK, ThreadState, Fresh
<1>2. CASE GetCurrentRoom(c)
  <2>1. LastRoom(j.user) = None
    BY DEF VisitsInv, NobodyMoves, LastRoom
  <2>2. Reads(c, "get_current_room", "login_room", j) /\ pc[c] = "get_current_room"
    BY <1>2, <2>1 DEF GetCurrentRoom, Reads, Goes
  <2>3. j.index = 0
    BY <1>1, <2>2 DEF ThreadOK
  <2>4. FreshOK("login_room", j, log)
    BY <2>3 DEF FreshOK
  <2> QED BY <1>1, <2>2, <2>4, ScanReadIsolated DEF Calls
<1>3. ASSUME NEW call \in {"login_room", "logout_room"}, Scan(c, call)
      PROVE  VisitsInv(P)'
  <2> DEFINE k == [j EXCEPT !.index = @ + 1]
  <2>0. Reads(c, call, call, k) /\ ~log[Entry(c)].open
    BY <1>3 DEF Scan
  <2>a. Entry(c) = e
    BY <1>1
  <2>b. pc[c] = call
    BY <2>0 DEF Reads, Goes
  <2>c. ~log[e].open
    <3> HIDE DEF k, e
    <3> QED BY <2>0, <2>a
  <2>1. Reads(c, call, call, k) /\ pc[c] = call /\ ~log[e].open
    <3> HIDE DEF k, e
    <3> QED BY <2>0, <2>b, <2>c
  <2>2. /\ k \in Job /\ k.user = j.user /\ k.room = j.room /\ k.at = j.at
        /\ k.task = j.task /\ k.index = j.index + 1 /\ j.index \in Nat
    <3>1. j \in Job
      BY <1>1
    <3>2. j.index \in Nat /\ j.index + 1 \in Nat
      BY <3>1 DEF Job
    <3> HIDE DEF j, e
    <3> QED BY <3>1, <3>2 DEF Job
  <2>3. \A i \in 0..(k.index - 1) : i \in 0..(j.index - 1) \/ i = j.index
    BY <2>2
  <2> HIDE DEF k
  <2>4. ASSUME Here(c, P), call = "logout_room"
        PROVE  \E i \in Nat : i >= k.index /\ <<k.at, k.user, i>> \in DOMAIN log
                              /\ log[<<k.at, k.user, i>>].open
    <3>1. PICK i \in Nat : i >= j.index /\ <<j.at, j.user, i>> \in DOMAIN log
                           /\ log[<<j.at, j.user, i>>].open
      BY <1>1, <2>1, <2>4 DEF FreshOK
    <3>2. i # j.index
      BY <2>1, <3>1
    <3>3. i >= k.index
      BY <2>2, <3>1, <3>2
    <3> QED BY <2>2, <3>1, <3>3
  <2>5. Here(c, P) => FreshOK(call, k, log)
    BY <1>1, <2>1, <2>2, <2>3, <2>4 DEF FreshOK
  <2> QED BY <2>1, <2>2, <2>5, ScanReadIsolated DEF Calls
<1>4. CASE LoginFree(c)
  <2>1. Reads(c, "login_room", "put_login", j) /\ pc[c] = "login_room"
    BY <1>4 DEF LoginFree, Reads, Goes
  <2>2. Here(c, P) => FreshOK("put_login", j, log)
    BY <1>1, <1>4, <2>1 DEF FreshOK, LoginFree
  <2> QED BY <1>1, <2>1, <2>2, ScanReadIsolated DEF Calls
<1>5. CASE LoginRefused(c)
  <2> DEFINE k == [j EXCEPT !.index = 0, !.task = "logout"]
  <2>1. Reads(c, "login_room", "logout_room", k) /\ e \in DOMAIN log /\ log[e].open
    BY <1>1, <1>5 DEF LoginRefused
  <2>2. /\ k \in Job /\ k.user = j.user /\ k.room = j.room /\ k.at = j.at
        /\ k.task = "logout" /\ k.index = 0 /\ j.index \in Nat
    BY <1>1 DEF Job
  <2> HIDE DEF k
  <2>3. j.index >= k.index /\ <<k.at, k.user, j.index>> = e
    BY <2>2
  <2>4. FreshOK("logout_room", k, log)
    BY <2>1, <2>2, <2>3 DEF FreshOK
  <2> QED BY <2>1, <2>2, <2>4, ScanReadIsolated DEF Calls
<1>6. CASE LogoutFound(c)
  <2> DEFINE k == [j EXCEPT !.carry = 0]
             to == IF j.index > 0 THEN "get_previous" ELSE "put_logout"
  <2>1. Reads(c, "logout_room", to, k) /\ pc[c] = "logout_room" /\ log[e].open
    BY <1>1, <1>6 DEF LogoutFound, Reads, Goes
  <2>2. /\ k \in Job /\ k.user = j.user /\ k.room = j.room /\ k.at = j.at
        /\ k.task = j.task /\ k.index = j.index
    BY <1>1 DEF Job
  <2>3. to \in {"get_previous", "put_logout"} /\ (to = "get_previous" => j.index > 0)
    OBVIOUS
  <2> HIDE DEF k, to
  <2>4. Here(c, P) => FreshOK(to, k, log)
    BY <1>1, <2>1, <2>2, <2>3 DEF FreshOK
  <2> QED BY <2>1, <2>2, <2>3, <2>4, ScanReadIsolated DEF Calls
<1>7. CASE GetPrevious(c)
  <2> DEFINE k == [j EXCEPT !.carry = log[Previous(c)].days]
  <2>1. /\ Reads(c, "get_previous", "put_logout", k) /\ pc[c] = "get_previous"
        /\ Previous(c) \in DOMAIN log
    BY <1>7 DEF GetPrevious, Parses, Reads, Goes
  <2>2. log[Previous(c)].days \in Nat
    BY <1>1, <2>1 DEF StoreTypeOK, Visit
  <2>3. /\ k \in Job /\ k.user = j.user /\ k.room = j.room /\ k.at = j.at
        /\ k.task = j.task /\ k.index = j.index
    BY <1>1, <2>2 DEF Job
  <2> HIDE DEF k
  <2>4. Here(c, P) => FreshOK("put_logout", k, log)
    BY <1>1, <2>1, <2>3 DEF FreshOK
  <2> QED BY <2>1, <2>3, <2>4, ScanReadIsolated DEF Calls
<1>8. CASE LogoutRaises(c)
  BY <1>8, RaisesIsolated DEF LogoutRaises, Calls
<1>9. CASE GetPreviousRaises(c)
  BY <1>9, RaisesIsolated DEF GetPreviousRaises, Calls
<1> QED BY <1>2, <1>3, <1>4, <1>5, <1>6, <1>7, <1>8, <1>9

(* The puts to the log: a new visit takes the place after closed ones, and  *)
(* the visit that is closed is still the open one.                         *)
LEMMA LogPutIsolated ==
  ASSUME NEW P, VisitsInv(P), SafetyInv', NEW c \in Conns, PutLogin(c) \/ PutLogout(c)
  PROVE  /\ VisitsInv(P)'
         /\ \A k \in DOMAIN log :
              <<k[1], k[2]>> \in P /\ ~log[k].open => k \in DOMAIN log' /\ log'[k] = log[k]
<1> DEFINE j == job[c]
           e == <<j.at, j.user, j.index>>
<1>1. /\ j \in Job /\ StoreTypeOK /\ (Here(c, P) => FreshOK(pc[c], j, log))
      /\ ScanOK(pc[c], j, DOMAIN log)
      /\ Entry(c) = e
      /\ \A i \in Nat : VisitID(j.at, j.user, i) = <<j.at, j.user, i>>
  BY PlainIDs DEF VisitsInv, SafetyInv, ServerTypeOK, ScanState, Fresh
<1>2. PICK to \in {"set_current_room", "get_capacity"} :
        Goes(c, pc[c], to, j) /\ UNCHANGED <<rooms, users>>
  BY DEF PutLogin, PutLogout, Goes
<1>3. /\ DOMAIN log' = DOMAIN log \cup {e}
      /\ \A k \in DOMAIN log \ {e} : log'[k] = log[k]
      /\ log'[e].user = j.user
      /\ \/ pc[c] = "put_login"
         \/ pc[c] = "put_logout" /\ log'[e].open = FALSE
  <2>1. ASSUME NEW visit, log' = Put(log, e, visit)
        PROVE  /\ DOMAIN log' = DOMAIN log \cup {e}
               /\ \A k \in DOMAIN log \ {e} : log'[k] = log[k]
               /\ log'[e] = visit
    BY <2>1 DEF Put
  <2>2. CASE PutLogin(c)
    <3>1. log' = Put(log, e, OpenEntry(j.user)) /\ pc[c] = "put_login"
      BY <1>1, <2>2 DEF PutLogin, Goes
    <3>2. OpenEntry(j.user).user = j.user
      BY DEF OpenEntry
    <3> HIDE DEF e
    <3> QED BY <2>1, <3>1, <3>2
  <2>3. CASE PutLogout(c)
    <3>1. PICK stay \in StayDays :
            log' = Put(log, e, ClosedEntry(j.user, j.carry + stay))
      BY <1>1, <2>3 DEF PutLogout
    <3>2. /\ ClosedEntry(j.user, j.carry + stay).open = FALSE
          /\ ClosedEntry(j.user, j.carry + stay).user = j.user
      BY DEF ClosedEntry
    <3>3. pc[c] = "put_logout"
      BY <2>3 DEF PutLogout, Goes
    <3> HIDE DEF e
    <3>4. log'[e].open = FALSE /\ log'[e].user = j.user
      BY <2>1, <3>1, <3>2
    <3> QED BY <2>1, <3>1, <3>3, <3>4
  <2> QED BY <2>2, <2>3
<1>4. Here(c, P) /\ pc[c] = "put_login" => e \notin DOMAIN log
  BY <1>1 DEF FreshOK
<1>5. Here(c, P) /\ pc[c] = "put_logout" => e \in DOMAIN log /\ log[e].open
  BY <1>1 DEF FreshOK, ScanOK, Job
<1>6. Active(c) /\ j.at = j.room /\ j.task # "move"
  BY <1>3 DEF VisitsInv, NobodyMoves, Active, Calls
<1>7. /\ pc'[c] = to /\ job'[c] = j
      /\ \A d \in Conns \ {c} : pc'[d] = pc[d] /\ job'[d] = job[d]
  BY <1>2 DEF VisitsInv, SafetyInv, ServerTypeOK, Goes
<1>8. \A r, u, i : r # j.room \/ u # j.user =>
        /\ <<r, u, i>> \in DOMAIN log' <=> <<r, u, i>> \in DOMAIN log
        /\ <<r, u, i>> \in DOMAIN log => log'[<<r, u, i>>] = log[<<r, u, i>>]
  BY <1>3, <1>6
<1>9. NobodyMoves' /\ Alone(P)' /\ Fresh(P)'
  <2>1. FreshOK(to, j, log')
    BY DEF FreshOK
  <2> QED BY <1>2, <1>6, <1>7, <1>8, <2>1, OthersFresh
<1>10. <<e[1], e[2]>> \in P => Here(c, P)
  BY <1>6 DEF Here
<1>11. LastOpen(P)'
  <2> SUFFICES ASSUME NEW k \in DOMAIN log', <<k[1], k[2]>> \in P, log'[k].open,
                      <<k[1], k[2], k[3] + 1>> \in DOMAIN log'
               PROVE  FALSE
    BY DEF LastOpen
  <2> DEFINE n == <<k[1], k[2], k[3] + 1>>
  <2>1. k \in Rooms \X Users \X Nat
    BY DEF SafetyInv, ServerTypeOK, StoreTypeOK
  <2>2. CASE k = e
    <3>1. pc[c] = "put_login" /\ n # e /\ n \in DOMAIN log
      BY <1>1, <1>2, <1>3, <2>1, <2>2 DEF Job
    <3>2. k[3] \in 0..(n[3] - 1) /\ k = <<n[1], n[2], k[3]>>
      BY <2>1
    <3>3. k \in DOMAIN log
      BY <3>1, <3>2 DEF VisitsInv, SafetyInv, NoGaps
    <3> QED BY <1>4, <1>10, <2>2, <3>1, <3>3
  <2>3. CASE k # e /\ n = e
    <3>1. k \in DOMAIN log /\ log[k].open
      BY <1>3, <2>3
    <3>2. k = <<j.at, j.user, j.index - 1>> /\ j.index - 1 \in 0..(j.index - 1)
      BY <1>1, <2>1, <2>3 DEF Job
    <3>3. Here(c, P)
      BY <1>10, <2>3
    <3> QED BY <1>1, <1>3, <3>1, <3>2, <3>3 DEF FreshOK
  <2>4. CASE k # e /\ n # e
    BY <1>3, <2>4 DEF VisitsInv, LastOpen
  <2> QED BY <2>2, <2>3, <2>4
<1>12. ASSUME NEW k \in DOMAIN log, <<k[1], k[2]>> \in P, ~log[k].open
       PROVE  k \in DOMAIN log' /\ log'[k] = log[k]
  BY <1>3, <1>4, <1>5, <1>10, <1>12
<1>13. OwnVisits(log')
  <2>1. e[2] = j.user
    OBVIOUS
  <2> HIDE DEF e
  <2> QED BY <1>3, <2>1 DEF OwnVisits, VisitsInv
<1> QED BY <1>9, <1>11, <1>12, <1>13 DEF VisitsInv

(* The bookkeeping of the room, after the visit has been put.  The room may *)
(* be missing by now.                                                      *)
LEMMA RoomIsolated ==
  ASSUME NEW P, VisitsInv(P), SafetyInv', NEW c \in Conns,
         \/ SetCurrentRoom(c) \/ GetLoginTime(c) \/ PutLoginTime(c)
         \/ GetCapacity(c) \/ PutCapacity(c)
  PROVE  VisitsInv(P)'
<1> DEFINE j == job[c]
<1>1. j \in Job /\ StoreTypeOK
  BY DEF VisitsInv, SafetyInv, ServerTypeOK
<1>2. Active(c) /\ j.at = j.room /\ j.task # "move"
  <2>1. pc[c] \in {"set_current_room", "get_login_time", "put_login_time",
                   "get_capacity", "put_capacity"}
    BY DEF SetCurrentRoom, GetLoginTime, PutLoginTime, GetCapacity, PutCapacity,
           Raises, Reads, Goes
  <2> QED BY <2>1 DEF VisitsInv, NobodyMoves, Active, Calls
<1>3. ASSUME NEW from \in Calls,
             NEW to \in {"get_login_time", "put_login_time", "get_capacity", "put_capacity"},
             NEW k \in Job, Goes(c, from, to, k), UNCHANGED <<users, log>>,
             k.user = j.user, k.room = j.room, k.at = j.at, k.task = j.task
      PROVE  VisitsInv(P)'
  <2>1. FreshOK(to, k, log)
    BY DEF FreshOK
  <2> QED BY <1>2, <1>3, <2>1, QuietIsolated DEF Calls
<1>4. CASE SetCurrentRoom(c)
  <2>1. <<"Users", j.user>> \notin DOMAIN users
    BY DEF VisitsInv, NobodyMoves
  <2>2. UNCHANGED <<rooms, users, log>>
    BY <1>4, <2>1 DEF SetCurrentRoom, WithCurrentRoom
  <2>3. PICK to \in {"get_login_time", "get_capacity"} : Goes(c, "set_current_room", to, j)
    BY <1>4 DEF SetCurrentRoom
  <2> QED BY <1>1, <1>3, <2>2, <2>3 DEF Calls
<1>5. ASSUME NEW entity \in RoomEntity \cup {None}
      PROVE  LET k == [j EXCEPT !.entity = entity] IN
             k \in Job /\ k.user = j.user /\ k.room = j.room /\ k.at = j.at /\ k.task = j.task
  BY <1>1 DEF Job
<1>6. CASE GetLoginTime(c) /\ j.room \in DOMAIN rooms
  <2> DEFINE entity == [rooms[j.room] EXCEPT !.Last_Login_time = now]
             k == [j EXCEPT !.entity = entity]
  <2>1. entity \in RoomEntity
    BY <1>1, <1>6 DEF StoreTypeOK, RoomEntity
  <2>2. Goes(c, "get_login_time", "put_login_time", k) /\ UNCHANGED <<rooms, users, log>>
    BY <1>2, <1>6 DEF GetLoginTime, Reads
  <2> HIDE DEF entity
  <2>3. k \in Job /\ k.user = j.user /\ k.room = j.room /\ k.at = j.at /\ k.task = j.task
    BY <1>5, <2>1
  <2> QED BY <1>3, <2>2, <2>3 DEF Calls
<1>7. CASE PutLoginTime(c)
  <2>1. /\ Goes(c, "put_login_time", "get_capacity", [j EXCEPT !.entity = None])
        /\ UNCHANGED <<users, log>>
    BY <1>7 DEF PutLoginTime
  <2> QED BY <1>3, <1>5, <2>1 DEF Calls
<1>8. CASE GetCapacity(c) /\ j.room \in DOMAIN rooms
  <2>1. rooms[j.at] \in RoomEntity
    BY <1>1, <1>2, <1>8 DEF StoreTypeOK
  <2>2. /\ Goes(c, "get_capacity", "put_capacity", [j EXCEPT !.entity = rooms[j.at]])
        /\ UNCHANGED <<rooms, users, log>>
    BY <1>2, <1>8 DEF GetCapacity, Reads
  <2> QED BY <1>3, <1>5, <2>1, <2>2 DEF Calls
<1>9. CASE PutCapacity(c)
  <2> DEFINE k == Over([j EXCEPT !.entity = None])
  <2>1. /\ Goes(c, "put_capacity", "closed", k)
        /\ UNCHANGED <<users, log>>
    BY <1>2, <1>9 DEF PutCapacity
  <2>2. k \in Job
    BY <1>5, OverType
  <2>3. k.user = j.user /\ k.room = j.room
    BY <1>1 DEF Over, NewJob, Job
  <2>4. "closed" \notin Calls /\ FreshOK("closed", k, log)
    BY DEF Calls, FreshOK
  <2> HIDE DEF k
  <2> QED BY <2>1, <2>2, <2>3, <2>4, QuietIsolated DEF Calls, Ended
<1>10. CASE GetLoginTime(c) /\ j.room \notin DOMAIN rooms
  <2>1. Goes(c, "get_login_time", "get_capacity", j) /\ UNCHANGED <<users, log>>
    BY <1>10 DEF GetLoginTime, Reads
  <2> QED BY <1>1, <1>3, <2>1 DEF Calls
<1>11. CASE GetCapacity(c) /\ j.room \notin DOMAIN rooms
  BY <1>2, <1>11, RaisesIsolated DEF GetCapacity, Calls
<1> QED BY <1>4, <1>6, <1>7, <1>8, <1>9, <1>10, <1>11

-----------------------------------------------------------------------------
(* Every step of the server preserves the invariant that starts no second   *)
(* thread for a pair in P.                                                 *)
LEMMA NextVisits ==
  ASSUME NEW P, VisitsInv(P), [ServerNext]_serverVars,
         \A c \in Conns : Receive(c) => Alone(P)'
  PROVE  VisitsInv(P)'
<1>1. SafetyInv'
  BY NextSafety DEF VisitsInv
<1>2. ASSUME NEW c \in Conns, Run(c) PROVE VisitsInv(P)'
  BY <1>1, <1>2, DecisionIsolated, ScanIsolated, LogPutIsolated, RoomIsolated DEF Run
<1>3. ASSUME NEW c \in Conns, Receive(c) \/ CallFails(c) PROVE VisitsInv(P)'
  BY <1>1, <1>3, ReceiveIsolated, FailureIsolated
<1>4. CASE UNCHANGED serverVars
  <2>1. NobodyMoves' /\ OwnVisits(log')
    BY <1>4 DEF serverVars, VisitsInv, NobodyMoves, Active
  <2>2. Alone(P)' /\ Fresh(P)' /\ LastOpen(P)'
    BY <1>4 DEF serverVars, VisitsInv, Alone, Active, Here, Fresh, LastOpen
  <2> QED BY <1>1, <2>1, <2>2 DEF VisitsInv
<1> QED BY <1>2, <1>3, <1>4 DEF ServerNext

(* With isolation no step starts a second thread for anybody. *)
LEMMA NextApart ==
  ASSUME NEW P, Apart, VisitsInv(P), [ServerNext]_serverVars
  PROVE  VisitsInv(P)'
BY ArrivesAlone, NextVisits

(* A step of a thread is for the lock and the person it was for before.     *)
LEMMA RunKeepsRoom ==
  ASSUME SafetyInv, NEW c \in Conns, Run(c)
  PROVE  /\ pc[c] \in Calls
         /\ \A d \in Conns \ {c} : pc'[d] = pc[d] /\ job'[d] = job[d]
         /\ job'[c].room = job[c].room /\ job'[c].user = job[c].user
<1> DEFINE Same(k) == k.room = job[c].room /\ k.user = job[c].user
<1>1. job \in [Conns -> Job] /\ pc \in [Conns -> Calls \cup Ended]
  BY DEF SafetyInv, ServerTypeOK
<1>2. ASSUME NEW from \in Calls, NEW to, NEW k, Goes(c, from, to, k), Same(k)
      PROVE  /\ pc[c] \in Calls
             /\ \A d \in Conns \ {c} : pc'[d] = pc[d] /\ job'[d] = job[d]
             /\ job'[c].room = job[c].room /\ job'[c].user = job[c].user
  BY <1>1, <1>2 DEF Goes
<1>3. ASSUME NEW from \in Calls, NEW to, NEW k, Reads(c, from, to, k), Same(k)
      PROVE  /\ pc[c] \in Calls
             /\ \A d \in Conns \ {c} : pc'[d] = pc[d] /\ job'[d] = job[d]
             /\ job'[c].room = job[c].room /\ job'[c].user = job[c].user
  BY <1>2, <1>3 DEF Reads
<1>4. job[c] \in Job /\ Same(job[c]) /\ Same(Over(job[c]))
  BY <1>1 DEF Over, NewJob
<1>5. CASE IsUsersFromRoom(c) \/ GetRoomGroup(c) \/ GetRoomGroupRaises(c) \/ GetUserGroup(c)
  <2>1. Same([job[c] EXCEPT !.groups = rooms[job[c].room].Group])
    BY <1>4 DEF Job
  <2> QED BY <1>3, <1>4, <1>5, <2>1 DEF Calls, IsUsersFromRoom, GetRoomGroup,
             GetRoomGroupRaises, GetUserGroup, Raises
<1>6. CASE SendDenied(c) \/ SendAllowed(c)
  <2>1. /\ Same([job[c] EXCEPT !.reply = "230 Allowed"])
        /\ Same(Over([job[c] EXCEPT !.reply = "430 Denied"]))
    BY <1>4 DEF Job, Over, NewJob
  <2> QED BY <1>3, <1>6, <2>1 DEF Calls, SendDenied, SendAllowed
<1>7. CASE GetCurrentRoom(c) \/ SetCurrentRoom(c)
  <2>1. Same([job[c] EXCEPT !.at = LastRoom(job[c].user), !.task = "move"])
    BY <1>4 DEF Job
  <2> QED BY <1>2, <1>3, <1>7, <2>1 DEF Calls, GetCurrentRoom, SetCurrentRoom
<1>8. CASE \E call \in {"login_room", "logout_room"} : Scan(c, call)
  <2>1. Same([job[c] EXCEPT !.index = @ + 1])
    BY <1>4 DEF Job
  <2>2. PICK call \in {"login_room", "logout_room"} : Scan(c, call)
    BY <1>8
  <2>3. call \in Calls /\ Reads(c, call, call, [job[c] EXCEPT !.index = @ + 1])
    BY <2>2 DEF Scan, Calls
  <2> QED BY <1>3, <2>1, <2>3
<1>9. CASE LoginFree(c) \/ LoginRefused(c) \/ PutLogin(c) \/ LogoutRaises(c) \/ LogoutFound(c)
  <2>1. /\ Same([job[c] EXCEPT !.index = 0, !.task = "logout"])
        /\ Same([job[c] EXCEPT !.carry = 0])
    BY <1>4 DEF Job
  <2> QED BY <1>2, <1>3, <1>4, <1>9, <2>1 DEF Calls, LoginFree, LoginRefused, PutLogin,
             LogoutRaises, LogoutFound, Raises
<1>10. CASE GetPrevious(c) \/ GetPreviousRaises(c) \/ PutLogout(c)
  <2>1. Same([job[c] EXCEPT !.carry = log[Previous(c)].days])
    BY <1>4 DEF Job
  <2> QED BY <1>2, <1>3, <1>4, <1>10, <2>1 DEF Calls, GetPrevious, GetPreviousRaises,
             PutLogout, Raises
<1>11. \A e : Same([job[c] EXCEPT !.entity = e])
  BY <1>4 DEF Job
<1>12. CASE GetLoginTime(c) \/ PutLoginTime(c) \/ GetCapacity(c)
  BY <1>2, <1>3, <1>4, <1>11, <1>12 DEF Calls, GetLoginTime, PutLoginTime, GetCapacity,
             Raises
<1>13. CASE PutCapacity(c)
  <2> DEFINE done == [job[c] EXCEPT !.entity = None]
  <2>1. /\ Same([done EXCEPT !.at = job[c].room, !.index = 0, !.task = "login"])
        /\ Same(Over(done))
    BY <1>4 DEF Job, Over, NewJob
  <2> QED BY <1>2, <1>13, <2>1 DEF Calls, PutCapacity
<1> QED BY <1>5, <1>6, <1>7, <1>8, <1>9, <1>10, <1>12, <1>13 DEF Run

(* The server deletes no room. *)
LEMMA RoomsStay ==
  ASSUME NEW c \in Conns, Run(c)
  PROVE  DOMAIN rooms \subseteq DOMAIN rooms'
<1>1. CASE PutLoginTime(c) \/ PutCapacity(c)
  BY <1>1 DEF PutLoginTime, PutCapacity, Put
<1>2. CASE ~PutLoginTime(c) /\ ~PutCapacity(c)
  <2>1. UNCHANGED rooms
    BY <1>2 DEF Run, IsUsersFromRoom, GetRoomGroup, GetRoomGroupRaises, GetUserGroup,
       SendDenied, SendAllowed, GetCurrentRoom, SetCurrentRoom, Scan, LoginFree,
       LoginRefused, PutLogin, LogoutRaises, LogoutFound, GetPrevious, GetPreviousRaises,
       PutLogout, GetLoginTime, GetCapacity, Raises, Reads
  <2> QED BY <2>1
<1> QED BY <1>1, <1>2

(* A thread answers once, and goes on for a room that is stored. *)
LEMMA RunAdmitted ==
  ASSUME SafetyInv, Admitted, NEW c \in Conns, Run(c)
  PROVE  Admitted'
<1> DEFINE j == job[c]
<1>1. /\ pc[c] \in Calls /\ AdmittedOK(pc[c], j, DOMAIN rooms)
      /\ \A d \in Conns \ {c} : pc'[d] = pc[d] /\ job'[d] = job[d]
      /\ job'[c].room = j.room
  BY RunKeepsRoom DEF Admitted
<1>2. DOMAIN rooms \subseteq DOMAIN rooms'
  BY RoomsStay
<1>3. ASSUME NEW from, NEW to, NEW k, Goes(c, from, to, k) \/ Reads(c, from, to, k)
      PROVE  pc[c] = from /\ pc'[c] = to /\ job'[c] = k
  BY <1>3 DEF Goes, Reads, SafetyInv, ServerTypeOK
<1>4. AdmittedOK(pc'[c], job'[c], DOMAIN rooms')
  <2>1. CASE IsUsersFromRoom(c)
    <3>1. PICK to \in {"send_allowed", "get_room_Group"} :
            /\ Reads(c, "is_users_from_room", to, j)
            /\ to = "send_allowed" => j.room \in DOMAIN rooms
      BY <2>1 DEF IsUsersFromRoom
    <3>2. pc[c] = "is_users_from_room" /\ pc'[c] = to /\ job'[c] = j
      BY <1>3, <3>1
    <3> QED BY <1>1, <1>2, <3>1, <3>2 DEF AdmittedOK, Deciding
  <2>2. CASE GetRoomGroup(c)
    <3> DEFINE k == [j EXCEPT !.groups = rooms[j.room].Group]
    <3>1. Reads(c, "get_room_Group", "get_user_Group", k) /\ j.room \in DOMAIN rooms
      BY <2>2 DEF GetRoomGroup
    <3>2. k.reply = j.reply
      BY DEF SafetyInv, ServerTypeOK, Job
    <3> HIDE DEF k
    <3>3. pc[c] = "get_room_Group" /\ pc'[c] = "get_user_Group" /\ job'[c] = k
      BY <1>3, <3>1
    <3> QED BY <1>1, <1>2, <3>1, <3>2, <3>3 DEF AdmittedOK, Deciding
  <2>3. CASE GetUserGroup(c)
    <3>1. pc[c] = "get_user_Group" /\ pc'[c] = "send_allowed" /\ job'[c] = j
      BY <1>3, <2>3 DEF GetUserGroup
    <3> QED BY <1>1, <1>2, <3>1 DEF AdmittedOK, Deciding, Calls
  <2>4. CASE GetRoomGroupRaises(c) \/ SendDenied(c)
    <3>1. pc'[c] \in {"died", "closed"}
      BY <1>3, <2>4 DEF GetRoomGroupRaises, SendDenied, Raises
    <3> QED BY <3>1 DEF AdmittedOK, Deciding, Calls
  <2>5. ASSUME ~IsUsersFromRoom(c), ~GetRoomGroup(c), ~GetUserGroup(c),
               ~GetRoomGroupRaises(c), ~SendDenied(c)
        PROVE  pc[c] \notin {"is_users_from_room", "get_room_Group"} /\ pc'[c] \notin Deciding
    <3>1. ASSUME NEW from, NEW to, NEW k, Goes(c, from, to, k) \/ Reads(c, from, to, k),
                 from \notin {"is_users_from_room", "get_room_Group"}, to \notin Deciding
          PROVE  pc[c] \notin {"is_users_from_room", "get_room_Group"} /\ pc'[c] \notin Deciding
      BY <1>3, <3>1
    <3>2. CASE SendAllowed(c) \/ GetCurrentRoom(c) \/ SetCurrentRoom(c)
      <4>1. CASE SendAllowed(c)
        <5>1. PICK k : Reads(c, "send_allowed", "get_current_room", k)
          BY <4>1 DEF SendAllowed
        <5> QED BY <3>1, <5>1 DEF Deciding
      <4>2. CASE GetCurrentRoom(c)
        <5>1. PICK to \in {"login_room", "logout_room"} :
                \E k : Reads(c, "get_current_room", to, k)
          BY <4>2 DEF GetCurrentRoom
        <5> QED BY <3>1, <5>1 DEF Deciding
      <4>3. CASE SetCurrentRoom(c)
        <5>1. PICK to \in {"get_login_time", "get_capacity"} :
                Goes(c, "set_current_room", to, j)
          BY <4>3 DEF SetCurrentRoom
        <5> QED BY <3>1, <5>1 DEF Deciding
      <4> QED BY <3>2, <4>1, <4>2, <4>3
    <3>3. CASE \/ \E call \in {"login_room", "logout_room"} : Scan(c, call)
               \/ LoginFree(c) \/ LoginRefused(c) \/ PutLogin(c)
      BY <3>1, <3>3 DEF Scan, LoginFree, LoginRefused, PutLogin, Deciding
    <3>4. CASE LogoutRaises(c) \/ LogoutFound(c) \/ GetPrevious(c) \/ GetPreviousRaises(c)
               \/ PutLogout(c)
      BY <3>1, <3>4 DEF LogoutRaises, LogoutFound, GetPrevious, GetPreviousRaises,
         PutLogout, Raises, Deciding
    <3>5. CASE GetLoginTime(c) \/ PutLoginTime(c) \/ GetCapacity(c) \/ PutCapacity(c)
      BY <3>1, <3>5 DEF GetLoginTime, PutLoginTime, GetCapacity, PutCapacity, Raises,
         Deciding
    <3> QED BY <2>5, <3>2, <3>3, <3>4, <3>5 DEF Run
  <2>6. ASSUME pc[c] \notin {"is_users_from_room", "get_room_Group"}, pc'[c] \notin Deciding
        PROVE  AdmittedOK(pc'[c], job'[c], DOMAIN rooms')
    BY <1>1, <1>2, <2>6 DEF AdmittedOK
  <2> QED BY <2>1, <2>2, <2>3, <2>4, <2>5, <2>6
<1>5. \A d \in Conns \ {c} : AdmittedOK(pc'[d], job'[d], DOMAIN rooms')
  BY <1>1, <1>2 DEF Admitted, AdmittedOK
<1> QED BY <1>4, <1>5 DEF Admitted

(* So it is after every step of the server. *)
LEMMA NextAdmitted ==
  ASSUME NEW P, IsolatedInv(P), [ServerNext]_serverVars
  PROVE  Admitted'
<1>1. SafetyInv /\ Admitted
  BY DEF IsolatedInv, VisitsInv
<1>2. ASSUME NEW c \in Conns, Run(c) PROVE Admitted'
  BY <1>1, <1>2, RunAdmitted
<1>3. ASSUME NEW c \in Conns, Receive(c) PROVE Admitted'
  <2>1. AdmittedOK(pc'[c], job'[c], DOMAIN rooms)
    BY <1>1, <1>3, Received DEF AdmittedOK, Deciding, Calls
  <2> QED BY <1>1, <1>3, <2>1, Received DEF Admitted
<1>4. ASSUME NEW c \in Conns, CallFails(c) PROVE Admitted'
  <2>1. /\ UNCHANGED rooms /\ pc'[c] = "died"
        /\ \A d \in Conns \ {c} : pc'[d] = pc[d] /\ job'[d] = job[d]
    BY <1>1, <1>4 DEF SafetyInv, ServerTypeOK, CallFails
  <2>2. AdmittedOK("died", job'[c], DOMAIN rooms)
    BY DEF AdmittedOK, Deciding, Calls
  <2> QED BY <1>1, <2>1, <2>2 DEF Admitted
<1>5. CASE UNCHANGED serverVars
  BY <1>1, <1>5 DEF serverVars, Admitted
<1> QED BY <1>2, <1>3, <1>4, <1>5 DEF ServerNext

(* Both together: every step of the server that starts no second thread.    *)
LEMMA NextIsolated ==
  ASSUME NEW P, IsolatedInv(P), [ServerNext]_serverVars,
         \A c \in Conns : Receive(c) => Alone(P)'
  PROVE  IsolatedInv(P)'
BY NextVisits, NextAdmitted DEF IsolatedInv

(* A step that is not the put of a visit leaves the log alone; one that is  *)
(* writes no visit that is closed.                                         *)
LEMMA ClosedIsKept ==
  ASSUME NEW P, VisitsInv(P), [ServerNext]_serverVars
  PROVE  \A k \in DOMAIN log :
           <<k[1], k[2]>> \in P /\ ~log[k].open => k \in DOMAIN log' /\ log'[k] = log[k]
<1>1. SafetyInv'
  BY NextSafety DEF VisitsInv
<1>2. ASSUME NEW c \in Conns, PutLogin(c) \/ PutLogout(c)
      PROVE  \A k \in DOMAIN log :
               <<k[1], k[2]>> \in P /\ ~log[k].open => k \in DOMAIN log' /\ log'[k] = log[k]
  BY <1>1, <1>2, LogPutIsolated
<1>3. ASSUME NEW c \in Conns, Run(c), ~PutLogin(c), ~PutLogout(c) PROVE UNCHANGED log
  BY <1>3 DEF Run, IsUsersFromRoom, GetRoomGroup, GetRoomGroupRaises, GetUserGroup,
         SendDenied, SendAllowed, GetCurrentRoom, SetCurrentRoom, Scan, LoginFree,
         LoginRefused, LogoutRaises, LogoutFound, GetPrevious, GetPreviousRaises,
         GetLoginTime, PutLoginTime, GetCapacity, PutCapacity, Raises, Reads
<1>4. ASSUME NEW c \in Conns, Receive(c) \/ CallFails(c) PROVE UNCHANGED log
  BY <1>4 DEF Receive, ReceiveLogin, ReceiveUnsplittable, ReceiveGarbage, Receives,
         CallFails
<1>5. CASE UNCHANGED serverVars
  BY <1>5 DEF serverVars
<1> QED BY <1>2, <1>3, <1>4, <1>5 DEF ServerNext

-----------------------------------------------------------------------------
(* From here on everybody's taps are kept apart at every lock. *)
EverywhereInv == Apart /\ IsolatedInv(Rooms \X Users)

(* The visits in the log are visits of users to rooms. *)
LEMMA AllVisits ==
  ASSUME SafetyInv
  PROVE  \A k \in DOMAIN log : <<k[1], k[2]>> \in Rooms \X Users
BY DEF SafetyInv, ServerTypeOK, StoreTypeOK

(* Every thread at work is at work for such a pair. *)
LEMMA ActiveHere ==
  ASSUME NEW P, VisitsInv(P), NEW c \in Conns, Active(c)
  PROVE  Here(c, Rooms \X Users)
<1>1. job[c] \in Job /\ ThreadOK(pc[c], job[c]) /\ job[c].at = job[c].room
  BY DEF VisitsInv, SafetyInv, ServerTypeOK, ThreadState, NobodyMoves
<1> QED BY <1>1 DEF Here, Job, ThreadOK, Active

(* Every step preserves the invariant. *)
LEMMA NextEverywhere ==
  ASSUME EverywhereInv, [ServerNext]_serverVars
  PROVE  EverywhereInv'
<1>1. IsolatedInv(Rooms \X Users)'
  BY NextApart, NextAdmitted DEF EverywhereInv, IsolatedInv
<1> QED BY <1>1 DEF EverywhereInv, Apart

(* The invariant holds of every behaviour. *)
LEMMA EverywhereAlways == Apart /\ ServerSpec => []EverywhereInv
<1>1. Apart /\ ServerInit => EverywhereInv
  BY InitIsolated DEF EverywhereInv, Apart
<1>2. EverywhereInv /\ [ServerNext]_serverVars => EverywhereInv'
  BY NextEverywhere
<1> QED BY <1>1, <1>2, PTL DEF ServerSpec

(* When taps are kept apart, a user has at most one visit to a room open,   *)
(* and it is the last: for any number of people, locks, threads and taps,  *)
(* and whichever calls fail.                                               *)
THEOREM OneOpenVisit == Apart /\ ServerSpec => []OpenIsLast
<1>1. EverywhereInv => OpenIsLast
  BY AllVisits DEF EverywhereInv, IsolatedInv, VisitsInv, LastOpen, OpenIsLast
<1> QED BY <1>1, EverywhereAlways, PTL

(* Then, too, the record of a visit that is over is never written again.   *)
THEOREM HistoryIsFinal == Apart /\ ServerSpec => ClosedStaysClosed
<1>1. EverywhereInv /\ [ServerNext]_serverVars =>
        [\A k \in DOMAIN log :
           ~log[k].open => k \in DOMAIN log' /\ log'[k] = log[k]]_serverVars
  BY ClosedIsKept, AllVisits DEF EverywhereInv, IsolatedInv, VisitsInv
<1> QED BY <1>1, EverywhereAlways, PTL DEF ServerSpec, ClosedStaysClosed

-----------------------------------------------------------------------------
(* What a thread for a pair in P cannot meet: the end of the log, since the *)
(* open visit that sent it to log out is still ahead of its scan; and a     *)
(* cumulative time it cannot read, but for one of two days.                *)
LEMMA AdmittedGoesOn ==
  ASSUME NEW P, IsolatedInv(P), NEW c \in Conns, Here(c, P)
  PROVE  ~LogoutRaises(c) /\ (GetPreviousRaises(c) => TwoDays(c))
<1> DEFINE j == job[c]
           e == <<j.at, j.user, j.index>>
<1>1. /\ j \in Job
      /\ FreshOK(pc[c], j, log) /\ ScanOK(pc[c], j, DOMAIN log)
      /\ Entry(c) = e
      /\ \A i \in Nat : VisitID(j.at, j.user, i) = <<j.at, j.user, i>>
  BY PlainIDs DEF IsolatedInv, VisitsInv, SafetyInv, ServerTypeOK, ScanState, Fresh
<1>2. ~LogoutRaises(c)
  <2> SUFFICES ASSUME LogoutRaises(c) PROVE FALSE
    OBVIOUS
  <2>1. pc[c] = "logout_room" /\ e \notin DOMAIN log /\ j.index \in Nat
    BY <1>1 DEF LogoutRaises, Raises, Reads, Goes, Job
  <2>2. PICK i \in Nat : i >= j.index /\ <<j.at, j.user, i>> \in DOMAIN log
    BY <1>1, <2>1 DEF FreshOK
  <2> DEFINE n == <<j.at, j.user, i>>
  <2>3. i # j.index
    BY <2>1, <2>2
  <2>4. j.index \in 0..(n[3] - 1) /\ e = <<n[1], n[2], j.index>>
    BY <2>1, <2>2, <2>3
  <2>5. e \in DOMAIN log
    BY <2>2, <2>4 DEF IsolatedInv, VisitsInv, SafetyInv, NoGaps
  <2> QED BY <2>1, <2>5
<1>3. GetPreviousRaises(c) => TwoDays(c)
  <2> SUFFICES ASSUME GetPreviousRaises(c) PROVE TwoDays(c)
    OBVIOUS
  <2>1. pc[c] = "get_previous" /\ ~Parses(Previous(c))
    BY DEF GetPreviousRaises, Raises, Reads, Goes
  <2>2. j.index \in Nat /\ j.index > 0
    BY <1>1, <2>1 DEF FreshOK, Job
  <2>3. j.index - 1 \in Nat /\ j.index - 1 \in 0..(j.index - 1)
    BY <2>2
  <2>4. Previous(c) = <<j.at, j.user, j.index - 1>>
    BY <1>1, <2>3 DEF Previous
  <2>5. Previous(c) \in DOMAIN log
    BY <1>1, <2>1, <2>3 DEF ScanOK, Previous
  <2>6. ~log[Previous(c)].open
    BY <1>1, <2>1, <2>3, <2>4 DEF FreshOK
  <2>7. log[Previous(c)].days \in Nat
    BY <2>5 DEF IsolatedInv, VisitsInv, SafetyInv, ServerTypeOK, StoreTypeOK, Visit
  <2> QED BY <2>1, <2>5, <2>6, <2>7 DEF Parses, TwoDays
<1> QED BY <1>2, <1>3

(* Which steps of a thread end it. *)
LEMMA RunDies ==
  ASSUME NEW P, IsolatedInv(P), NEW c \in Conns, Run(c), pc'[c] = "died"
  PROVE  GetRoomGroupRaises(c) \/ LogoutRaises(c) \/ GetPreviousRaises(c)
<1>1. job[c] \in Job /\ pc \in [Conns -> Calls \cup Ended]
  BY DEF IsolatedInv, VisitsInv, SafetyInv, ServerTypeOK
<1>2. ASSUME NEW from, NEW to, NEW k, Goes(c, from, to, k) \/ Reads(c, from, to, k),
             to # "died"
      PROVE  FALSE
  BY <1>1, <1>2 DEF Reads, Goes
<1>3. GetCapacity(c) => job[c].at \in DOMAIN rooms
  BY DEF GetCapacity, Raises, Reads, Goes, IsolatedInv, VisitsInv, NobodyMoves, Active,
     Calls,
         Admitted, AdmittedOK
<1>4. ~GetCapacity(c)
  BY <1>2, <1>3 DEF GetCapacity
<1>5. ~IsUsersFromRoom(c) /\ ~GetRoomGroup(c) /\ ~GetUserGroup(c) /\ ~SendDenied(c)
      /\ ~SendAllowed(c) /\ ~GetCurrentRoom(c) /\ ~SetCurrentRoom(c)
  BY <1>2 DEF IsUsersFromRoom, GetRoomGroup, GetUserGroup, SendDenied, SendAllowed,
     GetCurrentRoom, SetCurrentRoom
<1>6. /\ \A call \in {"login_room", "logout_room"} : ~Scan(c, call)
      /\ ~LoginFree(c) /\ ~LoginRefused(c) /\ ~PutLogin(c) /\ ~LogoutFound(c)
      /\ ~GetPrevious(c) /\ ~PutLogout(c)
  BY <1>2 DEF Scan, LoginFree, LoginRefused, PutLogin, LogoutFound, GetPrevious, PutLogout
<1>7. ~GetLoginTime(c) /\ ~PutLoginTime(c) /\ ~PutCapacity(c)
  BY <1>2 DEF GetLoginTime, PutLoginTime, PutCapacity
<1> QED BY <1>4, <1>5, <1>6, <1>7 DEF Run

(* When taps are kept apart, whoever has been told "230 Allowed" has a      *)
(* thread that dies of a failing call, or of a cumulative time of two days, *)
(* and of nothing else: no scan of it runs off the log, and no room or     *)
(* visit it counts on is missing.                                          *)
THEOREM AdmittedCarriedThrough == Apart /\ ServerSpec => CarriedThrough
<1> DEFINE Dies(c) == Active(c) /\ job[c].reply = "230 Allowed" /\ pc'[c] = "died"
           Excused(c) == failures' # failures \/ TwoDays(c)
<1>1. ASSUME EverywhereInv, ServerNext, NEW c \in Conns, Dies(c)
      PROVE  Excused(c)
  <2>1. IsolatedInv(Rooms \X Users) /\ Active(c) /\ pc'[c] # pc[c]
    BY <1>1 DEF EverywhereInv, Active, Calls
  <2>2. pc \in [Conns -> Calls \cup Ended] /\ failures \in Nat
    BY <2>1 DEF IsolatedInv, VisitsInv, SafetyInv, ServerTypeOK
  <2>3. ASSUME NEW d \in Conns, Receive(d) PROVE FALSE
    <3>1. d # c
      BY <1>1, <2>3 DEF Receive, ReceiveLogin, ReceiveUnsplittable, ReceiveGarbage,
         Receives,
             Active, Calls, Ended
    <3> QED BY <2>1, <2>3, <3>1, Received DEF IsolatedInv, VisitsInv
  <2>4. ASSUME NEW d \in Conns, CallFails(d) PROVE Excused(c)
    BY <2>2, <2>4 DEF CallFails
  <2>5. ASSUME NEW d \in Conns, Run(d) PROVE Excused(c)
    <3>1. d = c
      <4>1. PICK from, to, k : Goes(d, from, to, k)
        BY <2>5 DEF Run, IsUsersFromRoom, GetRoomGroup, GetRoomGroupRaises, GetUserGroup,
           SendDenied, SendAllowed, GetCurrentRoom, SetCurrentRoom, Scan, LoginFree,
           LoginRefused, PutLogin, LogoutRaises, LogoutFound, GetPrevious,
           GetPreviousRaises, PutLogout, GetLoginTime, PutLoginTime, GetCapacity,
           PutCapacity, Raises, Reads
      <4> QED BY <2>1, <2>2, <4>1 DEF Goes
    <3>2. GetRoomGroupRaises(c) \/ LogoutRaises(c) \/ GetPreviousRaises(c)
      BY <1>1, <2>1, <2>5, <3>1, RunDies
    <3>3. ~GetRoomGroupRaises(c)
      BY <1>1, <2>1 DEF GetRoomGroupRaises, Raises, Reads, Goes, IsolatedInv, VisitsInv,
         Admitted,
         AdmittedOK, Deciding
    <3>4. Here(c, Rooms \X Users)
      BY <2>1 DEF IsolatedInv, VisitsInv, SafetyInv, ThreadState, ThreadOK, Active, Here
    <3> QED BY <2>1, <3>2, <3>3, <3>4, AdmittedGoesOn
  <2> QED BY <1>1, <2>3, <2>4, <2>5 DEF ServerNext
<1>2. EverywhereInv /\ [ServerNext]_serverVars =>
        [\A c \in Conns : Dies(c) => Excused(c)]_serverVars
  BY <1>1
<1> QED BY <1>2, EverywhereAlways, PTL DEF ServerSpec, CarriedThrough
=============================================================================
