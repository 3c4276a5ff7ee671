--------------------------- MODULE LockServerProofs ---------------------------
(***************************************************************************)
(* Theorems about LockServer, for every set of users, rooms and threads    *)
(* and with no assumption on which taps the environment keeps apart.       *)
(***************************************************************************)
EXTENDS LockServer, TLAPS

SafetyInv == ServerTypeOK /\ ThreadState /\ NoGaps /\ ScanState

-----------------------------------------------------------------------------
(* A column of the upload splits into a list of its names, or of one blank. *)
LEMMA SplitType ==
  ASSUME NEW S, NEW column \in Seq(S)
  PROVE  Split(column) \in Seq(S \cup {Blank})
<1>1. <<Blank>> \in Seq(S \cup {Blank}) /\ column \in Seq(S \cup {Blank})
  OBVIOUS
<1> QED BY <1>1 DEF Split

(* The uploaded Datastore, with every thread idle, satisfies the invariant. *)
LEMMA InitSafety == ServerInit => SafetyInv
<1> SUFFICES ASSUME ServerInit PROVE SafetyInv
  OBVIOUS
<1> USE DEF ServerInit, StoreInit
<1>1. StoreTypeOK
  <2>1. ASSUME NEW r \in DOMAIN UploadedRooms
        PROVE  NewRoom(UploadedRooms[r]) \in RoomEntity
    <3>1. /\ Split(UploadedRooms[r].Users) \in Seq(Names \cup {Blank})
          /\ Split(UploadedRooms[r].Group) \in Seq(Groups \cup {Blank})
      BY UploadAssumption, SplitType
    <3> QED BY <3>1 DEF NewRoom, RoomEntity, Classes
  <2>2. ASSUME NEW u \in DOMAIN UploadedUsers
        PROVE  NewUser(UploadedUsers[u]) \in UserEntity
    <3>1. Split(UploadedUsers[u]) \in Seq(Groups \cup {Blank})
      BY UploadAssumption, SplitType
    <3> QED BY <3>1 DEF NewUser, UserEntity, Classes
  <2> QED BY <2>1, <2>2, UploadAssumption DEF StoreTypeOK, UserKinds
<1>2. NewJob(None, None, "none") \in Job
  BY SMT DEF NewJob, Job, Replies
<1>3. ServerTypeOK
  BY <1>1, <1>2, RequestAssumption DEF ServerTypeOK, Ended
<1>4. ThreadState /\ ScanState
  BY DEF ThreadState, ThreadOK, ScanState, ScanOK, Calls
<1>5. NoGaps
  BY DEF NoGaps
<1> QED BY <1>3, <1>4, <1>5 DEF SafetyInv

-----------------------------------------------------------------------------
(* One thread takes a step: its own entry of pc and job changes, and the    *)
(* invariant about it is what remains to be shown.                          *)
LEMMA GoesFacts ==
  ASSUME ServerTypeOK, NEW c \in Conns, NEW from, NEW to \in Calls \cup Ended,
         NEW j \in Job, Goes(c, from, to, j)
  PROVE  /\ pc' \in [Conns -> Calls \cup Ended]
         /\ job' \in [Conns -> Job]
         /\ accepted' \in 0..MaxRequests /\ failures' \in 0..MaxFailures
         /\ now' \in Minutes
         /\ pc'[c] = to /\ job'[c] = j
         /\ \A d \in Conns \ {c} : pc'[d] = pc[d] /\ job'[d] = job[d]
BY DEF ServerTypeOK, StoreTypeOK, Goes

(* IDs are never deleted by the server, so what other threads have found    *)
(* stays found.                                                             *)
LEMMA OthersKeep ==
  ASSUME SafetyInv, NEW c \in Conns, NEW to, NEW j,
         pc'[c] = to /\ job'[c] = j,
         \A d \in Conns \ {c} : pc'[d] = pc[d] /\ job'[d] = job[d],
         DOMAIN log \subseteq DOMAIN log',
         ThreadOK(to, j), ScanOK(to, j, DOMAIN log')
  PROVE  ThreadState' /\ ScanState'
<1>1. ThreadState'
  BY DEF SafetyInv, ThreadState
<1>2. ASSUME NEW d \in Conns PROVE ScanOK(pc'[d], job'[d], DOMAIN log')
  <2>1. CASE d = c
    BY <2>1
  <2>2. CASE d # c
    <3>1. ScanOK(pc[d], job[d], DOMAIN log)
      BY DEF SafetyInv, ScanState
    <3> QED BY <2>2, <3>1 DEF ScanOK
  <2> QED BY <2>1, <2>2
<1> QED BY <1>1, <1>2 DEF ScanState

(* The name of a log entry is a room, a user and a number, also where two   *)
(* cruzIDs share it.                                                        *)
LEMMA VisitIDType ==
  ASSUME NEW r \in Rooms, NEW u \in Users, NEW i \in Nat
  PROVE  VisitID(r, u, i) \in Rooms \X Users \X Nat
<1>1. CASE <<u, i>> \in DOMAIN Aliases
  <2>1. Aliases[<<u, i>>] \in Users \X Nat
    BY <1>1, AliasAssumption
  <2> QED BY <1>1, <2>1 DEF VisitID
<1>2. CASE <<u, i>> \notin DOMAIN Aliases
  BY <1>2 DEF VisitID
<1> QED BY <1>1, <1>2

(* A step that only reads the Datastore. *)
LEMMA ReadsSafety ==
  ASSUME SafetyInv, NEW c \in Conns, NEW from, NEW to \in Calls \cup Ended,
         NEW j \in Job, Reads(c, from, to, j),
         ThreadOK(to, j), ScanOK(to, j, DOMAIN log)
  PROVE  SafetyInv'
<1>1. UNCHANGED <<rooms, users, log>> /\ Goes(c, from, to, j)
  BY DEF Reads
<1>2. ServerTypeOK'
  BY <1>1, GoesFacts DEF SafetyInv, ServerTypeOK, StoreTypeOK
<1>3. ThreadState' /\ ScanState'
  BY <1>1, GoesFacts, OthersKeep DEF SafetyInv
<1>4. NoGaps'
  BY <1>1 DEF SafetyInv, NoGaps
<1> QED BY <1>2, <1>3, <1>4 DEF SafetyInv

(* The locals of a thread that has ended. *)
LEMMA OverType ==
  ASSUME NEW j \in Job
  PROVE  Over(j) \in Job
BY DEF Over, NewJob, Job

(* An exception ends the thread and touches no entity. *)
LEMMA RaisesSafety ==
  ASSUME SafetyInv, NEW c \in Conns, NEW from, Raises(c, from)
  PROVE  SafetyInv'
<1>1. job[c] \in Job
  BY DEF SafetyInv, ServerTypeOK
<1>2. ThreadOK("died", Over(job[c])) /\ ScanOK("died", Over(job[c]), DOMAIN log)
  BY DEF ThreadOK, ScanOK, Calls
<1> QED BY <1>1, <1>2, OverType, ReadsSafety DEF Raises, Ended

-----------------------------------------------------------------------------
(* The steps, one by one. *)

(* A frame that arrives starts a thread at the first call of is_allowed. *)
LEMMA ReceiveSafety ==
  ASSUME SafetyInv, NEW c \in Conns, Receive(c)
  PROVE  SafetyInv'
<1>1. ASSUME NEW to \in Calls \cup Ended, NEW j \in Job, Receives(c, to, j),
             ThreadOK(to, j), ScanOK(to, j, DOMAIN log)
      PROVE  SafetyInv'
  <2>1. /\ UNCHANGED <<rooms, users, log, now, failures>>
        /\ pc' \in [Conns -> Calls \cup Ended] /\ job' \in [Conns -> Job]
        /\ pc'[c] = to /\ job'[c] = j
        /\ \A d \in Conns \ {c} : pc'[d] = pc[d] /\ job'[d] = job[d]
    BY <1>1 DEF Receives, SafetyInv, ServerTypeOK
  <2>2. accepted' \in 0..MaxRequests
    BY <1>1, RequestAssumption DEF Receives, SafetyInv, ServerTypeOK
  <2>3. ServerTypeOK'
    BY <2>1, <2>2 DEF SafetyInv, ServerTypeOK, StoreTypeOK
  <2>4. ThreadState' /\ ScanState'
    BY <1>1, <2>1, OthersKeep
  <2>5. NoGaps'
    BY <2>1 DEF SafetyInv, NoGaps
  <2> QED BY <2>3, <2>4, <2>5 DEF SafetyInv
<1>2. ASSUME NEW u \in Users \cup {None}, NEW r \in Rooms \cup {None}, NEW reply \in Replies
      PROVE  NewJob(u, r, reply) \in Job
  BY DEF NewJob, Job
<1>3. ASSUME NEW name \in Names, NEW r \in Rooms, ReceiveLogin(c, name, r)
      PROVE  SafetyInv'
  <2> DEFINE j == NewJob(Upper[name], r, "none")
  <2>1. Upper[name] \in Users
    BY CaseAssumption
  <2>2. j \in Job
    BY <1>2, <2>1 DEF Replies
  <2>3. ThreadOK("is_users_from_room", j) /\ ScanOK("is_users_from_room", j, DOMAIN log)
    BY <2>1 DEF ThreadOK, ScanOK, NewJob
  <2> QED BY <1>1, <1>3, <2>2, <2>3 DEF ReceiveLogin, Calls
<1>4. ASSUME NEW name \in Names, NEW r \in Rooms, ReceiveUnsplittable(c, name, r)
      PROVE  SafetyInv'
  <2> DEFINE j == NewJob(None, r, "none")
  <2>1. j \in Job
    BY <1>2 DEF Replies
  <2>2. ThreadOK("died", j) /\ ScanOK("died", j, DOMAIN log)
    BY DEF ThreadOK, ScanOK, Calls
  <2> QED BY <1>1, <1>4, <2>1, <2>2 DEF ReceiveUnsplittable, Ended
<1>5. ASSUME NEW reply \in {"430 Denied", "404 Command not found"}, ReceiveGarbage(c, reply)
      PROVE  SafetyInv'
  <2> DEFINE j == NewJob(None, None, reply)
  <2>1. j \in Job
    BY <1>2 DEF Replies
  <2>2. ThreadOK("closed", j) /\ ScanOK("closed", j, DOMAIN log)
    BY DEF ThreadOK, ScanOK, Calls
  <2> QED BY <1>1, <1>5, <2>1, <2>2 DEF ReceiveGarbage, Ended
<1> QED BY <1>3, <1>4, <1>5 DEF Receive

(* A call that fails ends the thread. *)
LEMMA FailureSafety ==
  ASSUME SafetyInv, NEW c \in Conns, CallFails(c)
  PROVE  SafetyInv'
<1> DEFINE k == Over(job[c])
<1>1. k \in Job
  BY OverType DEF SafetyInv, ServerTypeOK
<1> HIDE DEF k
<1>2. /\ pc' \in [Conns -> Calls \cup Ended] /\ job' \in [Conns -> Job]
      /\ pc'[c] = "died" /\ job'[c] = k
      /\ \A d \in Conns \ {c} : pc'[d] = pc[d] /\ job'[d] = job[d]
  <2>1. pc' = [pc EXCEPT ![c] = "died"] /\ job' = [job EXCEPT ![c] = k]
    BY DEF CallFails, k
  <2> QED BY <1>1, <2>1 DEF SafetyInv, ServerTypeOK, Ended
<1>3. UNCHANGED <<rooms, users, log, now, accepted>> /\ failures' \in 0..MaxFailures
  BY RequestAssumption DEF CallFails, SafetyInv, ServerTypeOK
<1>4. ServerTypeOK'
  BY <1>2, <1>3 DEF SafetyInv, ServerTypeOK, StoreTypeOK
<1>5. ThreadOK("died", k) /\ ScanOK("died", k, DOMAIN log')
  BY DEF ThreadOK, ScanOK, Calls
<1>6. ThreadState' /\ ScanState'
  BY <1>2, <1>3, <1>5, OthersKeep
<1>7. NoGaps'
  BY <1>3 DEF SafetyInv, NoGaps
<1> QED BY <1>4, <1>6, <1>7 DEF SafetyInv

(* is_allowed and the answer. *)
LEMMA DecisionSafety ==
  ASSUME SafetyInv, NEW c \in Conns,
         \/ IsUsersFromRoom(c) \/ GetRoomGroup(c) \/ GetRoomGroupRaises(c)
         \/ GetUserGroup(c) \/ SendDenied(c) \/ SendAllowed(c)
  PROVE  SafetyInv'
<1> DEFINE j == job[c]
<1>1. /\ j \in Job /\ ThreadOK(pc[c], j)
  BY DEF SafetyInv, ServerTypeOK, ThreadState
<1>2. CASE IsUsersFromRoom(c)
  <2> DEFINE to == IF j.room \in DOMAIN rooms /\ Listed(rooms[j.room].Users, j.user)
                   THEN "send_allowed" ELSE "get_room_Group"
  <2>1. Reads(c, "is_users_from_room", to, j)
    BY <1>2 DEF IsUsersFromRoom
  <2>2. to \in {"send_allowed", "get_room_Group"} /\ pc[c] = "is_users_from_room"
    BY <2>1 DEF Reads, Goes
  <2> HIDE DEF to
  <2>3. ThreadOK(to, j) /\ ScanOK(to, j, DOMAIN log) /\ to \in Calls
    BY <1>1, <2>2 DEF ThreadOK, ScanOK, Calls
  <2> QED BY <1>1, <2>1, <2>3, ReadsSafety
<1>3. CASE GetRoomGroup(c)
  <2> DEFINE k == [j EXCEPT !.groups = rooms[j.room].Group]
  <2>1. j.room \in DOMAIN rooms /\ Reads(c, "get_room_Group", "get_user_Group", k)
        /\ pc[c] = "get_room_Group"
    BY <1>3 DEF GetRoomGroup, Reads, Goes
  <2>2. rooms[j.room] \in RoomEntity
    BY <2>1 DEF SafetyInv, ServerTypeOK, StoreTypeOK
  <2>3. k \in Job
    BY <1>1, <2>2 DEF Job, RoomEntity
  <2>4. ThreadOK("get_user_Group", k) /\ ScanOK("get_user_Group", k, DOMAIN log)
    BY <1>1, <2>1 DEF ThreadOK, ScanOK, Calls, Job
  <2> QED BY <2>1, <2>3, <2>4, ReadsSafety DEF Calls
<1>4. CASE GetRoomGroupRaises(c)
  BY <1>4, RaisesSafety DEF GetRoomGroupRaises
<1>5. CASE GetUserGroup(c)
  <2>1. Reads(c, "get_user_Group", "send_allowed", j) /\ pc[c] = "get_user_Group"
    BY <1>5 DEF GetUserGroup, Reads, Goes
  <2>2. ThreadOK("send_allowed", j) /\ ScanOK("send_allowed", j, DOMAIN log)
    BY <1>1, <2>1 DEF ThreadOK, ScanOK, Calls
  <2> QED BY <1>1, <2>1, <2>2, ReadsSafety DEF Calls
<1>6. CASE SendDenied(c)
  <2> DEFINE k == Over([j EXCEPT !.reply = "430 Denied"])
  <2>1. Reads(c, "get_user_Group", "closed", k)
    BY <1>6 DEF SendDenied
  <2>2. k \in Job
    <3>1. [j EXCEPT !.reply = "430 Denied"] \in Job
      BY <1>1 DEF Job, Replies
    <3> QED BY <3>1, OverType
  <2>3. ThreadOK("closed", k) /\ ScanOK("closed", k, DOMAIN log)
    BY DEF ThreadOK, ScanOK, Calls
  <2> QED BY <2>1, <2>2, <2>3, ReadsSafety DEF Ended
<1>7. CASE SendAllowed(c)
  <2> DEFINE k == [j EXCEPT !.reply = "230 Allowed"]
  <2>1. Reads(c, "send_allowed", "get_current_room", k) /\ pc[c] = "send_allowed"
    BY <1>7 DEF SendAllowed, Reads, Goes
  <2>2. k \in Job
    BY <1>1 DEF Job, Replies
  <2>3. ThreadOK("get_current_room", k) /\ ScanOK("get_current_room", k, DOMAIN log)
    BY <1>1, <2>1 DEF ThreadOK, ScanOK, Calls, Job
  <2> QED BY <2>1, <2>2, <2>3, ReadsSafety DEF Calls
<1> QED BY <1>2, <1>3, <1>4, <1>5, <1>6, <1>7

(* The calls of login_room, logout_room and their bookkeeping that only     *)
(* read, or raise.                                                          *)
LEMMA ScanSafety ==
  ASSUME SafetyInv, NEW c \in Conns,
         \/ GetCurrentRoom(c)
         \/ \E call \in {"login_room", "logout_room"} : Scan(c, call)
         \/ LoginFree(c) \/ LoginRefused(c) \/ LogoutRaises(c) \/ LogoutFound(c)
         \/ GetPrevious(c) \/ GetPreviousRaises(c)
  PROVE  SafetyInv'
<1> DEFINE j == job[c]
<1>1. /\ j \in Job /\ ThreadOK(pc[c], j) /\ ScanOK(pc[c], j, DOMAIN log)
      /\ StoreTypeOK
  BY DEF SafetyInv, ServerTypeOK, ThreadState, ScanState
<1>2. ASSUME NEW from, Raises(c, from) PROVE SafetyInv'
  BY <1>2, RaisesSafety
<1>3. CASE GetCurrentRoom(c)
  <2> DEFINE last  == LastRoom(j.user)
             moves == last \notin {None, j.room}
             to    == IF moves THEN "logout_room" ELSE "login_room"
             k     == IF moves THEN [j EXCEPT !.at = last, !.task = "move"] ELSE j
  <2>1. Reads(c, "get_current_room", to, k) /\ pc[c] = "get_current_room"
    BY <1>3 DEF GetCurrentRoom, Reads, Goes
  <2>2. last \in Rooms \cup {None}
    BY <1>1 DEF LastRoom, StoreTypeOK, UserEntity
  <2>3. to \in {"logout_room", "login_room"}
    OBVIOUS
  <2>4. k \in Job /\ k.at \in Rooms /\ k.user = j.user /\ k.room = j.room /\ k.index = j.index
    BY <1>1, <2>1, <2>2 DEF Job, ThreadOK, Calls
  <2>5. j.index = 0
    BY <1>1, <2>1 DEF ThreadOK
  <2> HIDE DEF to, k
  <2>6. ThreadOK(to, k) /\ ScanOK(to, k, DOMAIN log) /\ to \in Calls
    BY <1>1, <2>1, <2>3, <2>4, <2>5 DEF ThreadOK, ScanOK, Calls, Job
  <2> QED BY <2>1, <2>4, <2>6, ReadsSafety
<1>4. ASSUME NEW call \in {"login_room", "logout_room"}, Scan(c, call) PROVE SafetyInv'
  <2> DEFINE k == [j EXCEPT !.index = @ + 1]
  <2>1. Reads(c, call, call, k) /\ pc[c] = call /\ VisitID(j.at, j.user, j.index) \in DOMAIN log
    BY <1>4 DEF Scan, Reads, Goes, Entry
  <2>2. /\ k \in Job /\ j.index \in Nat /\ k.index = j.index + 1
        /\ k.at = j.at /\ k.user = j.user /\ k.room = j.room
    BY <1>1 DEF Job
  <2>3. \A i \in 0..(k.index - 1) : i \in 0..(j.index - 1) \/ i = j.index
    BY <2>2
  <2>4. \A i \in 0..(j.index - 1) : VisitID(j.at, j.user, i) \in DOMAIN log
    BY <1>1, <2>1 DEF ScanOK
  <2> HIDE DEF k
  <2>5. ThreadOK(call, k) /\ ScanOK(call, k, DOMAIN log) /\ call \in Calls
    BY <1>1, <2>1, <2>2, <2>3, <2>4 DEF ThreadOK, ScanOK, Calls
  <2> QED BY <2>1, <2>2, <2>5, ReadsSafety
<1>5. CASE LoginFree(c)
  <2>1. Reads(c, "login_room", "put_login", j) /\ pc[c] = "login_room"
    BY <1>5 DEF LoginFree, Reads, Goes
  <2>2. ThreadOK("put_login", j) /\ ScanOK("put_login", j, DOMAIN log)
    BY <1>1, <2>1 DEF ThreadOK, ScanOK, Calls
  <2> QED BY <1>1, <2>1, <2>2, ReadsSafety DEF Calls
<1>6. CASE LoginRefused(c)
  <2> DEFINE k == [j EXCEPT !.index = 0, !.task = "logout"]
  <2>1. Reads(c, "login_room", "logout_room", k) /\ pc[c] = "login_room"
    BY <1>6 DEF LoginRefused, Reads, Goes
  <2>2. k \in Job /\ k.index = 0 /\ k.at = j.at /\ k.user = j.user /\ k.room = j.room
    BY <1>1 DEF Job
  <2> HIDE DEF k
  <2>3. ThreadOK("logout_room", k) /\ ScanOK("logout_room", k, DOMAIN log)
    BY <1>1, <2>1, <2>2 DEF ThreadOK, ScanOK, Calls
  <2> QED BY <2>1, <2>2, <2>3, ReadsSafety DEF Calls
<1>7. CASE LogoutRaises(c)
  BY <1>2, <1>7 DEF LogoutRaises
<1>8. CASE LogoutFound(c)
  <2> DEFINE to == IF j.index > 0 THEN "get_previous" ELSE "put_logout"
             k  == [j EXCEPT !.carry = 0]
  <2>1. /\ Reads(c, "logout_room", to, k) /\ pc[c] = "logout_room"
        /\ VisitID(j.at, j.user, j.index) \in DOMAIN log
    BY <1>8 DEF LogoutFound, Reads, Goes, Entry
  <2>2. /\ k \in Job /\ k.index = j.index
        /\ k.at = j.at /\ k.user = j.user /\ k.room = j.room
    BY <1>1 DEF Job
  <2>3. to \in {"get_previous", "put_logout"}
    OBVIOUS
  <2> HIDE DEF k, to
  <2>4. ThreadOK(to, k) /\ ScanOK(to, k, DOMAIN log) /\ to \in Calls
    BY <1>1, <2>1, <2>2, <2>3 DEF ThreadOK, ScanOK, Calls
  <2> QED BY <2>1, <2>2, <2>4, ReadsSafety
<1>9. CASE GetPrevious(c)
  <2> DEFINE k == [j EXCEPT !.carry = log[Previous(c)].days]
  <2>1. /\ Reads(c, "get_previous", "put_logout", k) /\ pc[c] = "get_previous"
        /\ Previous(c) \in DOMAIN log
    BY <1>9 DEF GetPrevious, Reads, Goes, Parses
  <2>2. log[Previous(c)].days \in Nat
    BY <1>1, <2>1 DEF StoreTypeOK, Visit
  <2>3. /\ k \in Job /\ k.index = j.index
        /\ k.at = j.at /\ k.user = j.user /\ k.room = j.room
    BY <1>1, <2>2 DEF Job
  <2> HIDE DEF k
  <2>4. ThreadOK("put_logout", k) /\ ScanOK("put_logout", k, DOMAIN log)
    BY <1>1, <2>1, <2>3 DEF ThreadOK, ScanOK, Calls
  <2> QED BY <2>1, <2>3, <2>4, ReadsSafety DEF Calls
<1>10. CASE GetPreviousRaises(c)
  BY <1>2, <1>10 DEF GetPreviousRaises
<1> QED BY <1>3, <1>4, <1>5, <1>6, <1>7, <1>8, <1>9, <1>10

(* The puts to the log: the entry that is written extends the scanned       *)
(* prefix, or replaces an entry that was found.                             *)
LEMMA LogPutSafety ==
  ASSUME SafetyInv, NEW c \in Conns, PutLogin(c) \/ PutLogout(c)
  PROVE  SafetyInv'
<1> DEFINE j == job[c]
<1>1. PICK to \in {"set_current_room", "get_capacity"}, visit \in Visit :
        /\ pc[c] \in {"put_login", "put_logout"}
        /\ Goes(c, pc[c], to, j)
        /\ log' = Put(log, Entry(c), visit)
        /\ UNCHANGED <<rooms, users>>
  <2>1. j.carry \in Nat
    BY DEF SafetyInv, ServerTypeOK, Job
  <2>2. /\ OpenEntry(j.user) \in Visit
        /\ \A days \in Nat : ClosedEntry(j.user, days) \in Visit
    <3>1. j.user \in Users
      BY DEF SafetyInv, ThreadState, ThreadOK, Calls, PutLogin, PutLogout, Goes
    <3> QED BY <3>1 DEF OpenEntry, ClosedEntry, Visit
  <2> HIDE DEF j
  <2>5. \A stay \in StayDays : j.carry + stay \in Nat
    BY <2>1, RequestAssumption
  <2>3. CASE PutLogin(c)
    BY <2>2, <2>3 DEF PutLogin, Goes, j
  <2>4. CASE PutLogout(c)
    BY <2>2, <2>4, <2>5 DEF PutLogout, Goes, j
  <2> QED BY <2>3, <2>4
<1>2. /\ j \in Job /\ ThreadOK(pc[c], j) /\ ScanOK(pc[c], j, DOMAIN log)
      /\ StoreTypeOK
  BY DEF SafetyInv, ServerTypeOK, ThreadState, ScanState
<1>3. Entry(c) \in Rooms \X Users \X Nat
  <2>1. j.at \in Rooms /\ j.user \in Users /\ j.index \in Nat
    BY <1>1, <1>2 DEF ThreadOK, Calls, Job
  <2> QED BY <2>1, VisitIDType DEF Entry
<1>4. /\ DOMAIN log' = DOMAIN log \cup {Entry(c)}
      /\ log'[Entry(c)] = visit
      /\ \A k \in DOMAIN log \ {Entry(c)} : log'[k] = log[k]
  BY <1>1 DEF Put
<1>5. StoreTypeOK'
  BY <1>1, <1>2, <1>3, <1>4 DEF StoreTypeOK, Goes
<1>6. ServerTypeOK'
  BY <1>1, <1>2, <1>5, GoesFacts DEF SafetyInv, ServerTypeOK, Calls
<1>7. ThreadOK(to, j) /\ ScanOK(to, j, DOMAIN log')
  BY <1>1, <1>2 DEF ThreadOK, ScanOK, Calls
<1>8. ThreadState' /\ ScanState'
  <2>1. /\ pc'[c] = to /\ job'[c] = j
        /\ \A d \in Conns \ {c} : pc'[d] = pc[d] /\ job'[d] = job[d]
    BY <1>1, <1>2, GoesFacts DEF SafetyInv, Calls
  <2> QED BY <1>4, <1>7, <2>1, OthersKeep
<1>9. NoGaps'
  <2> SUFFICES ASSUME DOMAIN Aliases = {}, NEW k \in DOMAIN log', NEW i \in 0..(k[3] - 1)
               PROVE  <<k[1], k[2], i>> \in DOMAIN log'
    BY DEF NoGaps
  <2>1. CASE k \in DOMAIN log
    BY <1>4, <2>1 DEF SafetyInv, NoGaps
  <2>2. CASE k = Entry(c)
    <3>1. \A n \in Nat : VisitID(j.at, j.user, n) = <<j.at, j.user, n>>
      BY DEF VisitID
    <3>2. k = <<j.at, j.user, j.index>> /\ j.index \in Nat
      BY <1>2, <2>2, <3>1 DEF Entry, Job
    <3> QED BY <1>1, <1>2, <1>4, <3>1, <3>2 DEF ScanOK
  <2> QED BY <1>4, <2>1, <2>2
<1> QED BY <1>6, <1>8, <1>9 DEF SafetyInv

(* The puts to the room, and set_current_room. *)
LEMMA RoomPutSafety ==
  ASSUME SafetyInv, NEW c \in Conns,
         \/ SetCurrentRoom(c) \/ GetLoginTime(c) \/ PutLoginTime(c)
         \/ GetCapacity(c) \/ PutCapacity(c)
  PROVE  SafetyInv'
<1> DEFINE j == job[c]
<1>1. /\ j \in Job /\ ThreadOK(pc[c], j) /\ StoreTypeOK
  BY DEF SafetyInv, ServerTypeOK, ThreadState
(* A step that leaves the log alone and the other two kinds well typed.     *)
<1>2. ASSUME NEW from, NEW to \in Calls \cup Ended, NEW k \in Job,
             Goes(c, from, to, k), ThreadOK(to, k), ScanOK(to, k, DOMAIN log),
             UNCHANGED log, StoreTypeOK'
      PROVE  SafetyInv'
  <2>1. ServerTypeOK'
    BY <1>2, GoesFacts DEF SafetyInv, ServerTypeOK
  <2>2. ThreadState' /\ ScanState'
    BY <1>2, GoesFacts, OthersKeep DEF SafetyInv
  <2>3. NoGaps'
    BY <1>2 DEF SafetyInv, NoGaps
  <2> QED BY <2>1, <2>2, <2>3 DEF SafetyInv
<1>3. ASSUME NEW r \in Rooms, NEW e \in RoomEntity,
             rooms' = Put(rooms, r, e), UNCHANGED <<users, log, now>>
      PROVE  StoreTypeOK'
  <2>1. /\ DOMAIN rooms' = DOMAIN rooms \cup {r} /\ rooms'[r] = e
        /\ \A q \in DOMAIN rooms \ {r} : rooms'[q] = rooms[q]
    BY <1>3 DEF Put
  <2> QED BY <1>1, <1>3, <2>1 DEF StoreTypeOK
<1>4. CASE SetCurrentRoom(c)
  <2> DEFINE to == IF j.task = "login" THEN "get_login_time" ELSE "get_capacity"
             r  == IF j.task = "login" THEN j.room ELSE None
  <2>1. /\ Goes(c, "set_current_room", to, j) /\ pc[c] = "set_current_room"
        /\ users' = WithCurrentRoom(j.user, r)
        /\ UNCHANGED <<rooms, log, now>>
    BY <1>4 DEF SetCurrentRoom, Goes
  <2>2. r \in Rooms \cup {None} /\ j.user \in Users
    BY <1>1, <2>1 DEF ThreadOK, Calls
  <2>3. to \in {"get_login_time", "get_capacity"}
    OBVIOUS
  <2> HIDE DEF to, r
  <2>4. StoreTypeOK'
    <3> DEFINE k == <<"Users", j.user>>
    <3>1. CASE k \in DOMAIN users
      <4> DEFINE e == [users[k] EXCEPT !.Last_Room = r]
      <4>1. users' = Put(users, k, e)
        BY <2>1, <3>1 DEF WithCurrentRoom
      <4>2. e \in UserEntity
        BY <1>1, <2>2, <3>1 DEF StoreTypeOK, UserEntity
      <4>3. /\ DOMAIN users' = DOMAIN users /\ users'[k] = e
            /\ \A q \in DOMAIN users \ {k} : users'[q] = users[q]
        BY <3>1, <4>1 DEF Put
      <4> HIDE DEF e
      <4> QED BY <1>1, <2>1, <4>2, <4>3 DEF StoreTypeOK
    <3>2. CASE k \notin DOMAIN users
      BY <1>1, <2>1, <3>2 DEF WithCurrentRoom, StoreTypeOK
    <3> QED BY <3>1, <3>2
  <2>5. ThreadOK(to, j) /\ ScanOK(to, j, DOMAIN log) /\ to \in Calls
    BY <1>1, <2>1, <2>3 DEF ThreadOK, ScanOK, Calls
  <2> QED BY <1>1, <1>2, <2>1, <2>4, <2>5
<1>5. CASE GetLoginTime(c)
  <2>1. CASE j.room \in DOMAIN rooms
    <3> DEFINE e == [rooms[j.room] EXCEPT !.Last_Login_time = now]
               k == [j EXCEPT !.entity = e]
    <3>1. Reads(c, "get_login_time", "put_login_time", k) /\ pc[c] = "get_login_time"
      BY <1>5, <2>1 DEF GetLoginTime, Reads, Goes
    <3>2. e \in RoomEntity
      <4>1. rooms[j.room] \in RoomEntity /\ now \in Minutes
        BY <1>1, <2>1 DEF StoreTypeOK
      <4> QED BY <4>1 DEF RoomEntity
    <3> HIDE DEF e
    <3>3. /\ k \in Job /\ k.entity \in RoomEntity
          /\ k.at = j.at /\ k.user = j.user /\ k.room = j.room
      BY <1>1, <3>2 DEF Job
    <3> HIDE DEF k
    <3>4. ThreadOK("put_login_time", k) /\ ScanOK("put_login_time", k, DOMAIN log)
      BY <1>1, <3>1, <3>3 DEF ThreadOK, ScanOK, Calls
    <3> QED BY <3>1, <3>3, <3>4, ReadsSafety DEF Calls
  <2>2. CASE j.room \notin DOMAIN rooms
    <3>1. Reads(c, "get_login_time", "get_capacity", j) /\ pc[c] = "get_login_time"
      BY <1>5, <2>2 DEF GetLoginTime, Reads, Goes
    <3>2. ThreadOK("get_capacity", j) /\ ScanOK("get_capacity", j, DOMAIN log)
      BY <1>1, <3>1 DEF ThreadOK, ScanOK, Calls
    <3> QED BY <1>1, <3>1, <3>2, ReadsSafety DEF Calls
  <2> QED BY <2>1, <2>2
<1>6. CASE PutLoginTime(c)
  <2> DEFINE k == [j EXCEPT !.entity = None]
  <2>1. /\ Goes(c, "put_login_time", "get_capacity", k) /\ pc[c] = "put_login_time"
        /\ rooms' = Put(rooms, j.room, j.entity)
        /\ UNCHANGED <<users, log, now>>
    BY <1>6 DEF PutLoginTime, Goes
  <2>2. j.entity \in RoomEntity /\ j.room \in Rooms
    BY <1>1, <2>1 DEF ThreadOK, Calls
  <2>4. k \in Job /\ k.at = j.at /\ k.user = j.user /\ k.room = j.room
    BY <1>1 DEF Job
  <2> HIDE DEF k
  <2>5. ThreadOK("get_capacity", k) /\ ScanOK("get_capacity", k, DOMAIN log)
    BY <1>1, <2>1, <2>4 DEF ThreadOK, ScanOK, Calls
  <2>6. StoreTypeOK'
    BY <1>3, <2>1, <2>2
  <2> QED BY <1>2, <2>1, <2>4, <2>5, <2>6 DEF Calls
<1>7. CASE GetCapacity(c) /\ j.at \in DOMAIN rooms
  <2> DEFINE k == [j EXCEPT !.entity = rooms[j.at]]
  <2>1. /\ Reads(c, "get_capacity", "put_capacity", k) /\ pc[c] = "get_capacity"
        /\ rooms[j.at] \in RoomEntity
    BY <1>1, <1>7 DEF GetCapacity, Reads, Goes, StoreTypeOK
  <2>2. /\ k \in Job /\ k.entity \in RoomEntity
        /\ k.at = j.at /\ k.user = j.user /\ k.room = j.room
    BY <1>1, <2>1 DEF Job
  <2> HIDE DEF k
  <2>3. ThreadOK("put_capacity", k) /\ ScanOK("put_capacity", k, DOMAIN log)
    BY <1>1, <2>1, <2>2 DEF ThreadOK, ScanOK, Calls
  <2> QED BY <2>1, <2>2, <2>3, ReadsSafety DEF Calls
<1>8. CASE GetCapacity(c) /\ j.at \notin DOMAIN rooms
  BY <1>8, RaisesSafety DEF GetCapacity
<1>9. CASE PutCapacity(c)
  <2> DEFINE moved == j.task = "move"
             done  == [j EXCEPT !.entity = None]
             to    == IF moved THEN "login_room" ELSE "closed"
             k     == IF moved
                      THEN [done EXCEPT !.at = j.room, !.index = 0, !.task = "login"]
                      ELSE Over(done)
             n     == NewCapacity(j.entity.Capacity, j.task = "login")
             e     == [j.entity EXCEPT !.Capacity = n]
  <2>1. /\ Goes(c, "put_capacity", to, k) /\ pc[c] = "put_capacity"
        /\ rooms' = Put(rooms, j.at, e)
        /\ UNCHANGED <<users, log, now>>
    BY <1>9 DEF PutCapacity, Goes
  <2>2. j.entity \in RoomEntity /\ j.at \in Rooms /\ j.room \in Rooms /\ j.user \in Users
    BY <1>1, <2>1 DEF ThreadOK, Calls
  <2>3. n \in Nat
    <3>1. j.entity.Capacity \in Nat
      BY <2>2 DEF RoomEntity
    <3>2. \A m \in Nat, b \in BOOLEAN : NewCapacity(m, b) \in Nat
      BY DEF NewCapacity
    <3> QED BY <3>1, <3>2
  <2>4. e \in RoomEntity
    <3> HIDE DEF n
    <3> QED BY <2>2, <2>3 DEF RoomEntity
  <2>5. done \in Job /\ done.user = j.user /\ done.room = j.room
    BY <1>1 DEF Job
  <2>6. CASE moved
    <3> DEFINE m == [done EXCEPT !.at = j.room, !.index = 0, !.task = "login"]
    <3>1. m \in Job /\ m.index = 0 /\ m.at = j.room /\ m.user = j.user /\ m.room = j.room
      BY <2>2, <2>5 DEF Job
    <3>2. k = m /\ to = "login_room"
      BY <2>6
    <3> HIDE DEF m, k, to, done
    <3>3. ThreadOK(to, k) /\ ScanOK(to, k, DOMAIN log) /\ to \in Calls /\ k \in Job
      BY <2>2, <3>1, <3>2 DEF ThreadOK, ScanOK, Calls
    <3>4. StoreTypeOK'
      BY <1>3, <2>1, <2>2, <2>4
    <3> QED BY <1>2, <2>1, <3>3, <3>4
  <2>7. CASE ~moved
    <3>1. k = Over(done) /\ to = "closed" /\ Over(done) \in Job
      BY <2>5, <2>7, OverType
    <3> HIDE DEF k, to, done
    <3>2. ThreadOK(to, k) /\ ScanOK(to, k, DOMAIN log) /\ to \in Ended /\ k \in Job
      BY <2>5, <3>1 DEF ThreadOK, ScanOK, Calls, Ended
    <3>3. StoreTypeOK'
      BY <1>3, <2>1, <2>2, <2>4
    <3> QED BY <1>2, <2>1, <3>2, <3>3
  <2> QED BY <2>6, <2>7
<1> QED BY <1>4, <1>5, <1>6, <1>7, <1>8, <1>9

-----------------------------------------------------------------------------
(* Every step of the server preserves the invariant. *)
LEMMA NextSafety == SafetyInv /\ [ServerNext]_serverVars => SafetyInv'
<1> SUFFICES ASSUME SafetyInv, [ServerNext]_serverVars PROVE SafetyInv'
  OBVIOUS
<1>1. ASSUME NEW c \in Conns, Receive(c) PROVE SafetyInv'
  BY <1>1, ReceiveSafety
<1>2. ASSUME NEW c \in Conns, Run(c) PROVE SafetyInv'
  BY <1>2, DecisionSafety, ScanSafety, LogPutSafety, RoomPutSafety DEF Run
<1>3. ASSUME NEW c \in Conns, CallFails(c) PROVE SafetyInv'
  BY <1>3, FailureSafety
<1>4. CASE UNCHANGED serverVars
  BY <1>4 DEF serverVars, SafetyInv, ServerTypeOK, StoreTypeOK, NoGaps,
              ThreadState, ThreadOK, ScanState, ScanOK
<1> QED BY <1>1, <1>2, <1>3, <1>4 DEF ServerNext

(* The inductive invariant holds throughout: types, what each thread knows  *)
(* of its scan, and a log without holes.                                    *)
THEOREM ServerSafety == ServerSpec => []SafetyInv
BY InitSafety, NextSafety, PTL DEF ServerSpec

(* The variables of the server and of the store keep their types: in        *)
(* particular a put never writes anything but a whole entity, because the   *)
(* get before it found one.                                                 *)
THEOREM ServerTypes == ServerSpec => []ServerTypeOK
<1>1. SafetyInv => ServerTypeOK
  BY DEF SafetyInv
<1> QED BY <1>1, ServerSafety, PTL

(* However the threads interleave, the visits of a user to a room stay      *)
(* numbered without a hole.                                                 *)
THEOREM LogHasNoGaps == ServerSpec => []NoGaps
<1>1. SafetyInv => NoGaps
  BY DEF SafetyInv
<1> QED BY <1>1, ServerSafety, PTL
=============================================================================
