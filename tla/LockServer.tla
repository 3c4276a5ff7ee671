------------------------------ MODULE LockServer ------------------------------
(***************************************************************************)
(* The lock server: Server/lock_server.py and Server/cloudFunctions.py.    *)
(*                                                                         *)
(* A lock opens a TCP connection per tap and sends one frame,              *)
(* "\login-<cruzID>-<room>".  The accept loop starts a thread per          *)
(* connection; the thread decides, ANSWERS the lock, and only then brings  *)
(* the Datastore up to date with a series of gets and puts.  Every get and *)
(* every put is a step of its own here, so that the threads interleave     *)
(* wherever they can; what a thread computes between two of them belongs   *)
(* to the step before.  pc names the call that comes next.                 *)
(*                                                                         *)
(* An exception ends only the thread that raises it: pc becomes "died".    *)
(***************************************************************************)
EXTENDS Datastore, Integers

CONSTANTS
  Conns,          (* connection threads alive at the same time              *)
  Hyphenated,     (* cruzIDs and room numbers with a '-', such as E2-599    *)
  StayDays,       (* whole days by which a visit may raise the cumulative   *)
                  (* time, with the hours that earlier visits left over     *)
  MaxRequests,    (* BOUND: connections accepted in a behaviour             *)
  MaxFailures,    (* BOUND: Datastore and socket calls that raise           *)
  Isolation       (* which requests the environment keeps apart:            *)
                  (*   "room"  a lock is not tapped again before the server *)
                  (*           has finished with its previous tap           *)
                  (*   "user"  nobody taps again before the server has      *)
                  (*           finished with that person's previous tap     *)
                  (*   "none"  nothing: a tap may overtake any other        *)

ASSUME RequestAssumption ==
  /\ Hyphenated \subseteq Names \cup Rooms
  /\ StayDays \subseteq Nat
  /\ MaxRequests \in Nat
  /\ MaxFailures \in Nat
  /\ Isolation \in {"none", "user", "room"}

VARIABLES
  pc,             (* the next call of each connection's thread              *)
  job,            (* the locals of its run() and of the call it is in       *)
  accepted,       (* connections accepted so far                            *)
  failures        (* calls that have failed so far                          *)

serverVars == <<rooms, users, log, now, pc, job, accepted, failures>>

-----------------------------------------------------------------------------
Ended == {"idle", "closed", "died"}

Calls ==
  {"is_users_from_room", "get_room_Group", "get_user_Group", "send_allowed",
   "get_current_room", "login_room", "put_login", "logout_room",
   "get_previous", "put_logout", "set_current_room",
   "get_login_time", "put_login_time", "get_capacity", "put_capacity"}

Replies == {"none", "230 Allowed", "430 Denied", "404 Command not found"}

(* user, room: the parsed frame, cruzId upper-cased.  at, index: the room   *)
(* and the scan index of the current call.  carry: days of the previous     *)
(* visit's cumulative time.  groups, entity: results of earlier gets.       *)
(* task: the branch of run() being executed.                                *)
Job ==
  [user : Users \cup {None}, room : Rooms \cup {None}, at : Rooms \cup {None},
   index : Nat, carry : Nat, groups : Seq(Classes), entity : RoomEntity \cup {None},
   task : {"login", "logout", "move"}, reply : Replies]

NewJob(u, r, reply) ==
  [user |-> u, room |-> r, at |-> r, index |-> 0, carry |-> 0, groups |-> << >>,
   entity |-> None, task |-> "login", reply |-> reply]

Active(c) == pc[c] \in Calls

(* The thread of c goes from one call to another with locals j ...         *)
Goes(c, from, to, j) ==
  /\ pc[c] = from
  /\ pc' = [pc EXCEPT ![c] = to]
  /\ job' = [job EXCEPT ![c] = j]
  /\ UNCHANGED <<now, accepted, failures>>

(* ... having only read the Datastore; or having raised an exception.      *)
Reads(c, from, to, j) == Goes(c, from, to, j) /\ UNCHANGED <<rooms, users, log>>

(* When the thread ends, its frame and its answer are all that matters.     *)
Over(j) == NewJob(j.user, j.room, j.reply)

Raises(c, from) == Reads(c, from, "died", Over(job[c]))

(* The next call does not reach the Datastore, or the lock, and raises; a   *)
(* put that is carried out although it raises is the call after it failing. *)
(* When the process is restarted this happens to every thread.              *)
CallFails(c) ==
  /\ Active(c)
  /\ failures < MaxFailures
  /\ failures' = failures + 1
  /\ pc' = [pc EXCEPT ![c] = "died"]
  /\ job' = [job EXCEPT ![c] = Over(@)]
  /\ UNCHANGED <<rooms, users, log, now, accepted>>

-----------------------------------------------------------------------------
(* Receiving a frame. *)

MayArrive(u, r) ==
  /\ Isolation = "user" => \A d \in Conns : Active(d) => job[d].user # u
  /\ Isolation = "room" => \A d \in Conns : Active(d) => job[d].room # r

Receives(c, to, j) ==
  /\ pc[c] \in Ended
  /\ accepted < MaxRequests
  /\ accepted' = accepted + 1
  /\ pc' = [pc EXCEPT ![c] = to]
  /\ job' = [job EXCEPT ![c] = j]
  /\ UNCHANGED <<rooms, users, log, now, failures>>

ReceiveLogin(c, name, r) ==
  /\ {name, r} \cap Hyphenated = {}
  /\ MayArrive(Upper[name], r)
  /\ Receives(c, "is_users_from_room", NewJob(Upper[name], r, "none"))

(* The frame has the command but does not split into three at '-': the     *)
(* unpacking raises before anything is sent.                               *)
ReceiveUnsplittable(c, name, r) ==
  /\ {name, r} \cap Hyphenated # {}
  /\ Receives(c, "died", NewJob(None, r, "none"))

(* Bytes that are not UTF-8 (the lock does not always terminate the ID it  *)
(* sends), and text without the command (nothing, when the peer just closes). *)
ReceiveGarbage(c, reply) == Receives(c, "closed", NewJob(None, None, reply))

-----------------------------------------------------------------------------
(* is_allowed: three reads, an early return after each. *)

IsUsersFromRoom(c) ==
  LET r == job[c].room IN
  Reads(c, "is_users_from_room",
        IF r \in DOMAIN rooms /\ Listed(rooms[r].Users, job[c].user)
        THEN "send_allowed" ELSE "get_room_Group", job[c])

GetRoomGroup(c) ==
  /\ job[c].room \in DOMAIN rooms
  /\ Reads(c, "get_room_Group", "get_user_Group",
           [job[c] EXCEPT !.groups = rooms[job[c].room].Group])

(* room['Group'] of a room that is not there. *)
GetRoomGroupRaises(c) ==
  /\ job[c].room \notin DOMAIN rooms
  /\ Raises(c, "get_room_Group")

(* Mutant: being registered is enough.                                     *)
GroupMatchRegistered(c) == <<"User", job[c].user>> \in DOMAIN users

(* A user who is not registered has no groups. *)
GroupMatch(c) ==
  LET k == <<"User", job[c].user>> IN
  /\ k \in DOMAIN users
  /\ \E g \in Classes : Listed(job[c].groups, g) /\ Listed(users[k].Group, g)

GetUserGroup(c) ==
  /\ GroupMatch(c)
  /\ Reads(c, "get_user_Group", "send_allowed", job[c])

SendDenied(c) ==
  /\ ~GroupMatch(c)
  /\ Reads(c, "get_user_Group", "closed", Over([job[c] EXCEPT !.reply = "430 Denied"]))

(* The answer goes out, and the socket is closed, before any bookkeeping.  *)
SendAllowed(c) ==
  Reads(c, "send_allowed", "get_current_room", [job[c] EXCEPT !.reply = "230 Allowed"])

-----------------------------------------------------------------------------
(* The room the user is still logged into is left first. *)

LastRoom(u) ==
  LET k == <<"User", u>> IN
  IF k \in DOMAIN users THEN users[k].Last_Room ELSE None

GetCurrentRoom(c) ==
  LET last  == LastRoom(job[c].user)
      moves == last \notin {None, job[c].room}
  IN  Reads(c, "get_current_room", IF moves THEN "logout_room" ELSE "login_room",
            IF moves THEN [job[c] EXCEPT !.at = last, !.task = "move"] ELSE job[c])

(* set_current_room looks for the user among the entities of kind 'Users'. *)
WithCurrentRoom(u, r) ==
  LET k == <<"Users", u>> IN
  IF k \in DOMAIN users
  THEN Put(users, k, [users[k] EXCEPT !.Last_Room = r])
  ELSE users

SetCurrentRoom(c) ==
  LET entering == job[c].task = "login" IN
  /\ Goes(c, "set_current_room",
          IF entering THEN "get_login_time" ELSE "get_capacity", job[c])
  /\ users' = WithCurrentRoom(job[c].user, IF entering THEN job[c].room ELSE None)
  /\ UNCHANGED <<rooms, log>>

-----------------------------------------------------------------------------
Entry(c) == VisitID(job[c].at, job[c].user, job[c].index)

(* Mutants: whether the visit is over is not looked at; the index is not    *)
(* advanced; it is advanced twice.                                         *)
ScanPastOpen(c, call) ==
  /\ Entry(c) \in DOMAIN log
  /\ Reads(c, call, call, [job[c] EXCEPT !.index = @ + 1])

ScanStuck(c, call) ==
  /\ Entry(c) \in DOMAIN log
  /\ ~log[Entry(c)].open
  /\ Reads(c, call, call, [job[c] EXCEPT !.carry = 1 - @])

ScanSkips(c, call) ==
  /\ Entry(c) \in DOMAIN log
  /\ ~log[Entry(c)].open
  /\ Reads(c, call, call, [job[c] EXCEPT !.index = @ + 2])

(* login_room and logout_room read the visits of the user in the room one  *)
(* by one, from index 0, while Exit_Time is set.                           *)
Scan(c, call) ==
  /\ call \in {"login_room", "logout_room"}
  /\ Entry(c) \in DOMAIN log
  /\ ~log[Entry(c)].open
  /\ Reads(c, call, call, [job[c] EXCEPT !.index = @ + 1])

(* Mutant: the entry is taken without looking whether one is there.        *)
LoginFreeUnchecked(c) == Reads(c, "login_room", "put_login", job[c])

LoginFree(c) ==
  /\ Entry(c) \notin DOMAIN log
  /\ Reads(c, "login_room", "put_login", job[c])

(* Mutant: a tap of somebody who is inside is ignored.                     *)
LoginRefusedOnly(c) ==
  /\ Entry(c) \in DOMAIN log
  /\ log[Entry(c)].open
  /\ Reads(c, "login_room", "closed", Over(job[c]))

(* False: a visit is still open, so this tap is the way out. *)
LoginRefused(c) ==
  /\ Entry(c) \in DOMAIN log
  /\ log[Entry(c)].open
  /\ Reads(c, "login_room", "logout_room", [job[c] EXCEPT !.index = 0, !.task = "logout"])

PutLogin(c) ==
  /\ Goes(c, "put_login", "set_current_room", job[c])
  /\ log' = Put(log, Entry(c), OpenEntry(job[c].user))
  /\ UNCHANGED <<rooms, users>>

(* Running off the end of the log: check_['Exit_Time'] of None. *)
LogoutRaises(c) ==
  /\ Entry(c) \notin DOMAIN log
  /\ Raises(c, "logout_room")

(* Nothing deletes a visit, so the second read of the entry finds it; only  *)
(* its Enter_Time is used of that.                                         *)
LogoutFound(c) ==
  /\ Entry(c) \in DOMAIN log
  /\ log[Entry(c)].open
  /\ Reads(c, "logout_room", IF job[c].index > 0 THEN "get_previous" ELSE "put_logout",
           [job[c] EXCEPT !.carry = 0])

Previous(c) == VisitID(job[c].at, job[c].user, job[c].index - 1)

(* Mutant: only the format with a day is tried.                            *)
ParsesDay(k) == k \in DOMAIN log /\ ~log[k].open /\ log[k].days = 1

(* strptime knows "H:M:S" and "1 day, H:M:S"; str(timedelta) says          *)
(* "2 days, H:M:S" from two days on, and an open visit has None there.     *)
Parses(k) == k \in DOMAIN log /\ ~log[k].open /\ log[k].days < 2

(* c is about to read a cumulative time of two days or more, which is the   *)
(* sum over all visits to the room up to that one.                         *)
TwoDays(c) ==
  /\ pc[c] = "get_previous"
  /\ Previous(c) \in DOMAIN log
  /\ log[Previous(c)].days >= 2

GetPrevious(c) ==
  /\ Parses(Previous(c))
  /\ Reads(c, "get_previous", "put_logout", [job[c] EXCEPT !.carry = log[Previous(c)].days])

GetPreviousRaises(c) ==
  /\ ~Parses(Previous(c))
  /\ Raises(c, "get_previous")

PutLogout(c) ==
  /\ Goes(c, "put_logout",
          IF job[c].task = "move" THEN "get_capacity" ELSE "set_current_room", job[c])
  /\ \E stay \in StayDays :
       log' = Put(log, Entry(c), ClosedEntry(job[c].user, job[c].carry + stay))
  /\ UNCHANGED <<rooms, users>>

-----------------------------------------------------------------------------
(* set_login_time and change_room_capacity: get the room's entity, change  *)
(* one field, put the whole entity back.                                   *)

GetLoginTime(c) ==
  LET r == job[c].room IN
  IF r \in DOMAIN rooms
  THEN Reads(c, "get_login_time", "put_login_time",
             [job[c] EXCEPT !.entity = [rooms[r] EXCEPT !.Last_Login_time = now]])
  ELSE Reads(c, "get_login_time", "get_capacity", job[c])

PutLoginTime(c) ==
  /\ Goes(c, "put_login_time", "get_capacity", [job[c] EXCEPT !.entity = None])
  /\ rooms' = Put(rooms, job[c].room, job[c].entity)
  /\ UNCHANGED <<users, log>>

(* room_entity["Capacity"] raises when the room was deleted meanwhile.      *)
GetCapacity(c) ==
  IF job[c].at \in DOMAIN rooms
  THEN Reads(c, "get_capacity", "put_capacity", [job[c] EXCEPT !.entity = rooms[job[c].at]])
  ELSE Raises(c, "get_capacity")

(* Mutants: off by one; without the test for zero; only ever counting up.  *)
NewCapacityFromTwo(n, entering) == IF entering THEN n + 1 ELSE IF n > 1 THEN n - 1 ELSE n
NewCapacityUnchecked(n, entering) == IF entering THEN n + 1 ELSE n - 1
NewCapacityUp(n, entering) == IF entering THEN n + 1 ELSE n

NewCapacity(n, entering) == IF entering THEN n + 1 ELSE IF n > 0 THEN n - 1 ELSE n

(* After leaving the last room the thread goes on to log into this one.    *)
PutCapacity(c) ==
  LET moved == job[c].task = "move"
      done  == [job[c] EXCEPT !.entity = None]
  IN  /\ Goes(c, "put_capacity", IF moved THEN "login_room" ELSE "closed",
              IF moved
              THEN [done EXCEPT !.at = job[c].room, !.index = 0, !.task = "login"]
              ELSE Over(done))
      /\ rooms' = Put(rooms, job[c].at, [job[c].entity EXCEPT !.Capacity =
                        NewCapacity(@, job[c].task = "login")])
      /\ UNCHANGED <<users, log>>

-----------------------------------------------------------------------------
Receive(c) ==
  \/ \E name \in Names, r \in Rooms :
       ReceiveLogin(c, name, r) \/ ReceiveUnsplittable(c, name, r)
  \/ \E reply \in {"430 Denied", "404 Command not found"} : ReceiveGarbage(c, reply)

Run(c) ==
  \/ IsUsersFromRoom(c) \/ GetRoomGroup(c) \/ GetRoomGroupRaises(c)
  \/ GetUserGroup(c) \/ SendDenied(c) \/ SendAllowed(c)
  \/ GetCurrentRoom(c) \/ SetCurrentRoom(c)
  \/ \E call \in {"login_room", "logout_room"} : Scan(c, call)
  \/ LoginFree(c) \/ LoginRefused(c) \/ PutLogin(c)
  \/ LogoutRaises(c) \/ LogoutFound(c)
  \/ GetPrevious(c) \/ GetPreviousRaises(c) \/ PutLogout(c)
  \/ GetLoginTime(c) \/ PutLoginTime(c)
  \/ GetCapacity(c) \/ PutCapacity(c)

ServerInit ==
  /\ StoreInit
  /\ pc = [c \in Conns |-> "idle"]
  /\ job = [c \in Conns |-> NewJob(None, None, "none")]
  /\ accepted = 0
  /\ failures = 0

ServerNext == \E c \in Conns : Receive(c) \/ Run(c) \/ CallFails(c)

(* The operating system schedules every thread; nobody has to tap. *)
ServerFairness == \A c \in Conns : WF_serverVars(Run(c))

ServerSpec == ServerInit /\ [][ServerNext]_serverVars /\ ServerFairness

-----------------------------------------------------------------------------
(* Properties. *)

(* The fields of the entities keep their types, and every thread a known     *)
(* call, whatever the gets return and whatever call raises.                *)
ServerTypeOK ==
  /\ StoreTypeOK
  /\ pc \in [Conns -> Calls \cup Ended]
  /\ job \in [Conns -> Job]
  /\ accepted \in 0..MaxRequests
  /\ failures \in 0..MaxFailures

(* The visits of a user to a room are numbered without a hole, whatever    *)
(* the threads do to each other.  login_room stops at the first index it   *)
(* does not find and logout_room raises there: behind a hole a visit would *)
(* be out of reach of both, its user inside for ever.  (IDs that are alike *)
(* leave such holes: the visits of X go on behind those of X1.)            *)
NoGaps ==
  DOMAIN Aliases = {} =>
    \A k \in DOMAIN log : \A j \in 0..(k[3] - 1) : <<k[1], k[2], j>> \in DOMAIN log

(* What makes NoGaps and the type invariant inductive.  A thread that is    *)
(* working has parsed its frame and, between get and put of a room, holds   *)
(* an entity; a thread that is scanning has found every index it passed,    *)
(* and found the visit it is about to close.                                *)
ThreadOK(call, j) ==
  /\ call \in Calls => j.user \in Users /\ j.room \in Rooms /\ j.at \in Rooms
  /\ call \in {"put_login_time", "put_capacity"} => j.entity \in RoomEntity
  /\ call \in {"is_users_from_room", "get_room_Group", "get_user_Group",
               "send_allowed", "get_current_room"} => j.index = 0

ScanOK(call, j, ids) ==
  /\ call \in {"login_room", "put_login", "logout_room", "get_previous", "put_logout"}
       => \A i \in 0..(j.index - 1) : VisitID(j.at, j.user, i) \in ids
  /\ call \in {"get_previous", "put_logout"} => VisitID(j.at, j.user, j.index) \in ids

ThreadState == \A c \in Conns : ThreadOK(pc[c], job[c])

ScanState == \A c \in Conns : ScanOK(pc[c], job[c], DOMAIN log)

(* A user has at most one visit to a room open, and it is the last one:    *)
(* what makes "the first visit that is not closed" the current one, in     *)
(* login_room and in logout_room.                                          *)
OpenIsLast ==
  \A k \in DOMAIN log : log[k].open => <<k[1], k[2], k[3] + 1>> \notin DOMAIN log

(* The record of a visit that is over is never written again: a put is     *)
(* based on a scan made some calls earlier, and the put of a login that    *)
(* comes late would erase the visit that was recorded there meanwhile.     *)
ClosedStaysClosed ==
  [][\A k \in DOMAIN log : ~log[k].open => k \in DOMAIN log' /\ log'[k] = log[k]]_serverVars

(* Whenever no thread is working for a room, the Capacity that website and *)
(* phone show is the number of people whose visit to it is open.  The two  *)
(* are written by different puts, the second after two more round trips.   *)
CapacitySettled ==
  \A r \in DOMAIN rooms :
    (\A c \in Conns : Active(c) => job[c].room # r)
      => rooms[r].Capacity = Cardinality(Inside(r))

(* A thread that has let somebody in finishes the bookkeeping: of all the   *)
(* calls after send(ALLOWED_IN) only the parse of a cumulative time of two  *)
(* days raises.  Anywhere else the user would be through the door with the  *)
(* log, or the capacity, saying the opposite.                              *)
CarriedThrough ==
  [][\A c \in Conns :
       (Active(c) /\ job[c].reply = "230 Allowed" /\ pc'[c] = "died")
         => (failures' # failures \/ TwoDays(c))]_serverVars

(* While nobody edits the lists, is_allowed answers what they say, by cruzID *)
(* or by a class in common, though it reads them in three separate gets.   *)
(* Nobody else is let in, but for what empty columns make of the lists.    *)
RightAnswer ==
  \A c \in Conns : job[c].user # None =>
    LET r == job[c].room
        u == job[c].user
    IN  /\ job[c].reply = "230 Allowed" => (Authorised(r, u) \/ EmptyColumns(r, u))
        /\ job[c].reply = "430 Denied" => ~Authorised(r, u)

(* Every connection is finished with, however the scans of different       *)
(* threads and the puts that lengthen the log under them interleave.       *)
Finishes == \A c \in Conns : Active(c) ~> ~Active(c)

(* A tap that is let in turns inside into outside and outside into inside, *)
(* but for the way out of somebody who has spent two days in the room.     *)
TapToggles ==
  \A r \in Rooms, u \in Users :
    LET theirs(c) == job[c].room = r /\ job[c].user = u
        admitted  == \E c \in Conns : theirs(c) /\ pc[c] = "send_allowed"
        stuck     == \E c \in Conns : theirs(c) /\ TwoDays(c)
    IN  /\ (admitted /\ u \in Inside(r)) ~> (u \notin Inside(r) \/ stuck)
        /\ (admitted /\ u \notin Inside(r)) ~> (u \in Inside(r))

(* The server implements Occupancy, the abstract room of this project: a   *)
(* visit that is open is a person inside, and a room settles from the put  *)
(* of the log entry to the put of its new capacity.                        *)
Settling(r) ==
  \E c \in Conns :
    /\ job[c].at = r
    /\ pc[c] \in {"set_current_room", "get_login_time", "put_login_time",
                  "get_capacity", "put_capacity"}

Room == INSTANCE Occupancy WITH
  inside     <- {p \in Rooms \X Users : p[2] \in Inside(p[1])},
  population <- [r \in Rooms |-> IF r \in DOMAIN rooms THEN rooms[r].Capacity ELSE 0],
  settling   <- {r \in Rooms : Settling(r)}

ImplementsOccupancy == Room!OccupancySpec

(* What the code says of itself and does not keep: three runs find the      *)
(* counterexamples.                                                        *)

(* A thread that has let somebody in finishes the bookkeeping.             *)
AdmittedNeverDies ==
  \A c \in Conns : pc[c] = "died" => job[c].reply # "230 Allowed"

(* lock_server.py:56 leaves the last room before entering the next, so that *)
(* a user nobody is working for is in one room at most.                    *)
OneRoomAtATime ==
  \A u \in Users :
    (\A c \in Conns : Active(c) => job[c].user # u)
      => Cardinality({r \in Rooms : u \in Inside(r)}) <= 1

(* logout_room closes the current session of the user it is called for.     *)
OwnVisit == \A c \in Conns : pc[c] = "put_logout" => log[Entry(c)].user = job[c].user
=============================================================================
