------------------------------- MODULE TapProofs -------------------------------
(***************************************************************************)
(* What holds of locks and lock server together, however late the server   *)
(* answers, whoever else taps meanwhile, and whatever fails on either side:  *)
(* a door opens only for somebody the lists admit, and the log agrees with *)
(* the door about everybody whose taps there were answered in time and      *)
(* worked through one after the other.                                     *)
(***************************************************************************)
EXTENDS TapSystem, AccessProofs, OccupancyProofs

-----------------------------------------------------------------------------
(* A connection whose question is under way has no thread at work.          *)
TapInv ==
  /\ SafetyInv
  /\ frame \in [Conns -> [room : Rooms, text : Names] \cup {None}]
  /\ \A c \in Conns : frame[c] # None => pc[c] \in Ended

-----------------------------------------------------------------------------
(* Initially nothing is under way. *)
LEMMA InitTap == TapInit => TapInv
<1> SUFFICES ASSUME TapInit PROVE TapInv
  OBVIOUS
<1>1. \A c \in Conns : frame[c] = None
  BY DEF TapInit
<1>2. SafetyInv
  BY InitSafety DEF TapInit
<1>3. frame \in [Conns -> [room : Rooms, text : Names] \cup {None}]
  BY DEF TapInit
<1> QED BY <1>1, <1>2, <1>3 DEF TapInv

(* A question delivered is one received. *)
LEMMA DeliverReceives ==
  ASSUME TapInv, NEW c \in Conns, Deliver(c)
  PROVE  Receive(c)
<1>1. frame[c] \in [room : Rooms, text : Names]
  BY DEF TapInv, Deliver
<1> QED BY <1>1 DEF Deliver, Receive

(* What the locks do leaves the server alone.                              *)
LEMMA LockLeavesServer ==
  ASSUME NEW r \in Rooms,
         \/ \E text \in Names, c \in Conns : AskServer(r, text, c)
         \/ HearAnswer(r) \/ HangUp(r) \/ Act(r) \/ Outage(r)
  PROVE  UNCHANGED serverVars
BY DEF AskServer, HearAnswer, HangUp, Act, Relock, Outage

(* Every step is one the server may take by itself. *)
LEMMA NextIsServers ==
  ASSUME TapInv, [TapNext]_systemVars
  PROVE  [ServerNext]_serverVars
<1>1. ASSUME NEW c \in Conns, Deliver(c) \/ ServerRuns(c) \/ ServerFails(c)
      PROVE  ServerNext
  BY <1>1, DeliverReceives DEF ServerRuns, ServerFails, ServerNext
<1>2. CASE UNCHANGED systemVars
  BY <1>2 DEF systemVars
<1> QED BY <1>1, <1>2, LockLeavesServer DEF TapNext

-----------------------------------------------------------------------------
(* What loses questions only, and leaves the server alone, keeps TapInv.    *)
LEMMA LosingKeeps ==
  ASSUME TapInv, UNCHANGED serverVars,
         frame' = frame \/ \E c : frame' = [frame EXCEPT ![c] = None]
  PROVE  TapInv'
<1>1. SafetyInv'
  BY NextSafety DEF TapInv
<1>2. /\ frame' \in [Conns -> [room : Rooms, text : Names] \cup {None}]
      /\ \A c \in Conns : frame'[c] \in {frame[c], None}
  BY DEF TapInv
<1>3. UNCHANGED pc
  BY DEF serverVars
<1> QED BY <1>1, <1>2, <1>3 DEF TapInv

(* A lock asks on a connection nobody uses. *)
LEMMA AskKeeps ==
  ASSUME TapInv, NEW r \in Rooms, NEW text \in Names, NEW c \in Conns, AskServer(r, text, c)
  PROVE  TapInv'
<1>1. UNCHANGED serverVars /\ UNCHANGED <<pc, job>>
  BY DEF AskServer, serverVars
<1>2. SafetyInv'
  BY <1>1, NextSafety DEF TapInv
<1>3. /\ frame' \in [Conns -> [room : Rooms, text : Names] \cup {None}]
      /\ \A d \in Conns \ {c} : frame'[d] = frame[d]
  BY DEF TapInv, AskServer
<1>4. \A d \in Conns : frame'[d] # None => pc'[d] \in Ended
  BY <1>1, <1>3 DEF TapInv, AskServer, Free
<1> QED BY <1>2, <1>3, <1>4 DEF TapInv

(* A question received is a thread at work, or one that has ended.          *)
LEMMA DeliverKeeps ==
  ASSUME TapInv, NEW c \in Conns, Deliver(c)
  PROVE  TapInv'
<1>1. SafetyInv'
  BY DeliverReceives, NextSafety DEF TapInv, ServerNext
<1>2. /\ frame' \in [Conns -> [room : Rooms, text : Names] \cup {None}]
      /\ frame'[c] = None
      /\ \A d \in Conns \ {c} : frame'[d] = frame[d]
  BY DEF TapInv, Deliver
<1>3. pc \in [Conns -> Calls \cup Ended]
  BY DEF TapInv, SafetyInv, ServerTypeOK
<1>4. \A d \in Conns \ {c} : pc'[d] = pc[d]
  BY <1>3 DEF Deliver, ReceiveGarbage, ReceiveLogin, ReceiveUnsplittable, Receives
<1> QED BY <1>1, <1>2, <1>4 DEF TapInv

(* A thread at work has been received. *)
LEMMA ThreadKeeps ==
  ASSUME TapInv, NEW c \in Conns, ServerRuns(c) \/ ServerFails(c)
  PROVE  TapInv'
<1>1. SafetyInv'
  BY NextSafety DEF TapInv, ServerRuns, ServerFails, ServerNext
<1>2. pc \in [Conns -> Calls \cup Ended]
  BY DEF TapInv, SafetyInv, ServerTypeOK
<1>3. frame' = frame
  BY DEF ServerRuns, ServerFails
<1>4. pc[c] \in Calls /\ \A d \in Conns \ {c} : pc'[d] = pc[d]
  <2>1. CASE ServerRuns(c)
    BY <2>1, RunKeepsRoom DEF TapInv, ServerRuns
  <2>2. CASE ServerFails(c)
    BY <1>2, <2>2 DEF ServerFails, CallFails, Active
  <2> QED BY <2>1, <2>2
<1>5. frame[c] = None
  BY <1>4 DEF TapInv, Calls, Ended
<1> QED BY <1>1, <1>3, <1>4, <1>5 DEF TapInv

(* Every step of the system preserves the invariant. *)
LEMMA NextTap == TapInv /\ [TapNext]_systemVars => TapInv'
<1> SUFFICES ASSUME TapInv, [TapNext]_systemVars PROVE TapInv'
  OBVIOUS
<1>1. ASSUME NEW r \in Rooms, NEW text \in Names, NEW c \in Conns, AskServer(r, text, c)
      PROVE  TapInv'
  BY <1>1, AskKeeps
<1>2. ASSUME NEW r \in Rooms, HearAnswer(r) \/ HangUp(r) \/ Act(r) \/ Outage(r)
      PROVE  TapInv'
  <2>1. UNCHANGED serverVars
    BY <1>2, LockLeavesServer
  <2>2. CASE HearAnswer(r) \/ Act(r)
    BY <2>1, <2>2, LosingKeeps, Zenon DEF HearAnswer, Act, Relock
  <2>3. CASE HangUp(r) \/ Outage(r)
    <3>1. Closes(r)
      BY <2>3 DEF HangUp, Outage
    <3>2. frame' = frame \/ \E c : frame' = [frame EXCEPT ![c] = None]
      BY <3>1 DEF Closes
    <3> QED BY <2>1, <3>2, LosingKeeps
  <2> QED BY <1>2, <2>2, <2>3
<1>3. ASSUME NEW c \in Conns, Deliver(c) \/ ServerRuns(c) \/ ServerFails(c) PROVE TapInv'
  BY <1>3, DeliverKeeps, ThreadKeeps
<1>4. CASE UNCHANGED systemVars
  BY <1>4, LosingKeeps DEF systemVars, tapVars
<1> QED BY <1>1, <1>2, <1>3, <1>4 DEF TapNext

-----------------------------------------------------------------------------
(* What the lock d, the question f on the line it waits at, and the thread  *)
(* there (its call, its locals j) have to do with each other: the question  *)
(* is the lock's; once it is received, the thread works for the lock's room *)
(* and for the person it asks about.                                       *)
AskedBy(d, r, f, call, j) ==
  /\ d.heard = "nothing"
  /\ f # None => f.room = r /\ f.text = d.ask
  /\ f = None /\ (call \in Calls \/ j.reply = "230 Allowed") =>
       j.room = r /\ d.ask \in Names /\ j.user = Upper[d.ask]

LineState ==
  \A r \in Rooms : line[r] # None =>
    AskedBy(door[r], r, frame[line[r]], pc[line[r]], job[line[r]])

(* The lock d of r hears answers to questions only, and has heard "allowed" *)
(* only about somebody the lists admit.                                    *)
Opens(d, r, rs, us) ==
  /\ d.ask = None => d.heard = "nothing"
  /\ d.heard = "allowed" =>
       d.ask \in Names /\ Admits(rs, us, r, Upper[d.ask])

DoorInv ==
  /\ TapInv /\ AccessInv
  /\ line \in [Rooms -> Conns \cup {None}]
  /\ door \in [Rooms -> Lock!DoorState]
  /\ LineState
  /\ \A r \in Rooms : Opens(door[r], r, rooms, users)

(* At the start no lock has heard anything. *)
LEMMA InitDoor == TapInit => DoorInv
<1> SUFFICES ASSUME TapInit PROVE DoorInv
  OBVIOUS
<1>1. TapInv /\ AccessInv
  BY InitTap, InitAccess DEF TapInit
<1>2. \A r \in Rooms : /\ line[r] = None
                       /\ door[r] = [ask |-> None, bolt |-> "locked", heard |-> "nothing"]
  BY DEF TapInit, Lock!DoorInit
<1>3. line \in [Rooms -> Conns \cup {None}] /\ door \in [Rooms -> Lock!DoorState]
  BY DEF TapInit, Lock!DoorInit, Lock!DoorState
<1> QED BY <1>1, <1>2, <1>3 DEF DoorInv, LineState, Opens

(* The steps of the server leave the locks as they are.                     *)
LEMMA ServerStepKeepsDoors ==
  ASSUME DoorInv, [TapNext]_systemVars, UNCHANGED <<door, line>>, LineState'
  PROVE  DoorInv'
<1>1. TapInv' /\ AccessInv'
  BY NextTap, NextIsServers, NextAccess DEF DoorInv
<1>2. \A r \in Rooms : Opens(door'[r], r, rooms', users')
  BY <1>1, ListsStay DEF DoorInv, Opens
<1> QED BY <1>1, <1>2 DEF DoorInv

(* A question received becomes a thread that asks is_allowed about what the *)
(* lock has asked, or one that has ended; it has not let anybody in.        *)
LEMMA Delivered ==
  ASSUME DoorInv, NEW c \in Conns, Deliver(c)
  PROVE  /\ UNCHANGED <<door, line>> /\ frame[c] # None
         /\ frame'[c] = None /\ \A d \in Conns \ {c} : frame'[d] = frame[d]
         /\ \A d \in Conns \ {c} : pc'[d] = pc[d] /\ job'[d] = job[d]
         /\ job'[c].reply # "230 Allowed"
         /\ pc'[c] \in {"closed", "died", "is_users_from_room"}
         /\ pc'[c] \in Calls => /\ frame[c].text \in Names
                                /\ job'[c].room = frame[c].room
                                /\ job'[c].user = Upper[frame[c].text]
<1>1. UNCHANGED <<door, line>> /\ frame[c] # None
  BY DEF Deliver
<1>2. /\ frame \in [Conns -> [room : Rooms, text : Names] \cup {None}]
      /\ job \in [Conns -> Job] /\ pc \in [Conns -> Calls \cup Ended]
  BY DEF DoorInv, TapInv, SafetyInv, ServerTypeOK
<1>3. frame'[c] = None /\ \A d \in Conns \ {c} : frame'[d] = frame[d]
  BY <1>2 DEF Deliver
<1>4. ASSUME NEW to, NEW j, Receives(c, to, j)
      PROVE  /\ pc'[c] = to /\ job'[c] = j
             /\ \A d \in Conns \ {c} : pc'[d] = pc[d] /\ job'[d] = job[d]
  BY <1>2, <1>4 DEF Receives
<1>5. \A d \in Conns \ {c} : pc'[d] = pc[d] /\ job'[d] = job[d]
  BY <1>4 DEF Deliver, ReceiveGarbage, ReceiveLogin, ReceiveUnsplittable
<1>6. /\ job'[c].reply # "230 Allowed"
      /\ pc'[c] \in {"closed", "died", "is_users_from_room"}
      /\ pc'[c] \in Calls => /\ frame[c].text \in Names
                             /\ job'[c].room = frame[c].room
                             /\ job'[c].user = Upper[frame[c].text]
  <2>1. CASE ReceiveGarbage(c, "430 Denied")
    <3>1. pc'[c] = "closed" /\ job'[c] = NewJob(None, None, "430 Denied")
      BY <1>4, <2>1 DEF ReceiveGarbage
    <3>2. pc'[c] \notin Calls
      BY <3>1 DEF Calls
    <3>3. \A v : job'[c] = NewJob(None, None, v) => job'[c].reply = v
      BY DEF NewJob
    <3>4. job'[c].reply # "230 Allowed"
      BY <3>1, <3>3
    <3> QED BY <3>1, <3>2, <3>4
  <2>2. CASE ReceiveLogin(c, frame[c].text, frame[c].room)
    <3>1. /\ pc'[c] = "is_users_from_room"
          /\ job'[c] = NewJob(Upper[frame[c].text], frame[c].room, "none")
      BY <1>4, <2>2 DEF ReceiveLogin
    <3> QED BY <1>1, <1>2, <3>1 DEF NewJob
  <2>3. CASE ReceiveUnsplittable(c, frame[c].text, frame[c].room)
    <3>1. pc'[c] = "died" /\ job'[c] = NewJob(None, frame[c].room, "none")
      BY <1>4, <2>3 DEF ReceiveUnsplittable
    <3> QED BY <3>1 DEF NewJob, Calls
  <2> QED BY <2>1, <2>2, <2>3 DEF Deliver
<1> QED BY <1>1, <1>3, <1>5, <1>6

(* A question reaches the server. *)
LEMMA DeliverKeepsDoors ==
  ASSUME DoorInv, NEW c \in Conns, Deliver(c)
  PROVE  DoorInv'
<1>1. /\ UNCHANGED <<door, line>> /\ frame[c] # None
      /\ frame'[c] = None /\ \A d \in Conns \ {c} : frame'[d] = frame[d]
      /\ \A d \in Conns \ {c} : pc'[d] = pc[d] /\ job'[d] = job[d]
      /\ job'[c].reply # "230 Allowed"
      /\ pc'[c] \in Calls => /\ frame[c].text \in Names
                             /\ job'[c].room = frame[c].room
                             /\ job'[c].user = Upper[frame[c].text]
  BY Delivered
<1>2. LineState'
  <2> SUFFICES ASSUME NEW r \in Rooms, line[r] # None
      PROVE AskedBy(door[r], r, frame'[line[r]], pc'[line[r]], job'[line[r]])
    BY <1>1 DEF LineState
  <2>1. line[r] \in Conns
    BY DEF DoorInv
  <2>2. AskedBy(door[r], r, frame[line[r]], pc[line[r]], job[line[r]])
    BY DEF DoorInv, LineState
  <2>3. CASE line[r] = c
    BY <1>1, <2>2, <2>3 DEF AskedBy
  <2>4. CASE line[r] # c
    BY <1>1, <2>1, <2>2, <2>4 DEF AskedBy
  <2> QED BY <2>3, <2>4
<1> QED BY <1>1, <1>2, ServerStepKeepsDoors DEF TapNext

(* A thread of the server takes a step or fails. *)
LEMMA ThreadKeepsDoors ==
  ASSUME DoorInv, NEW c \in Conns, ServerRuns(c) \/ ServerFails(c)
  PROVE  DoorInv'
<1>1. UNCHANGED <<door, line, frame>>
  BY DEF ServerRuns, ServerFails
<1>2. job \in [Conns -> Job] /\ pc \in [Conns -> Calls \cup Ended]
  BY DEF DoorInv, TapInv, SafetyInv, ServerTypeOK
<1>3. /\ Active(c)
      /\ \A d \in Conns \ {c} : pc'[d] = pc[d] /\ job'[d] = job[d]
      /\ job'[c].room = job[c].room /\ job'[c].user = job[c].user
  <2>1. CASE ServerRuns(c)
    BY <2>1, RunKeepsRoom DEF DoorInv, TapInv, ServerRuns, Active
  <2>2. CASE ServerFails(c)
    BY <1>2, <2>2 DEF ServerFails, CallFails, Over, NewJob
  <2> QED BY <2>1, <2>2
<1>4. LineState'
  <2> SUFFICES ASSUME NEW r \in Rooms, line[r] # None
      PROVE AskedBy(door[r], r, frame[line[r]], pc'[line[r]], job'[line[r]])
    BY <1>1 DEF LineState
  <2>1. AskedBy(door[r], r, frame[line[r]], pc[line[r]], job[line[r]]) /\ line[r] \in Conns
    BY DEF DoorInv, LineState
  <2>2. CASE line[r] = c
    BY <1>3, <2>1, <2>2 DEF AskedBy, Active
  <2>3. CASE line[r] # c
    BY <1>3, <2>1, <2>3 DEF AskedBy, Active
  <2> QED BY <2>2, <2>3
<1> QED BY <1>1, <1>4, ServerStepKeepsDoors DEF TapNext

(* The steps of the lock of r leave the other locks alone.  What it waits   *)
(* for, if anything, is still its own question.                            *)
LEMMA LockStepKeepsDoors ==
  ASSUME DoorInv, [TapNext]_systemVars, UNCHANGED serverVars, NEW r \in Rooms, NEW d,
         d \in Lock!DoorState, door' = [door EXCEPT ![r] = d],
         line' \in [Rooms -> Conns \cup {None}],
         \A s \in Rooms \ {r} : line'[s] # None =>
           line'[s] = line[s] /\ frame'[line[s]] = frame[line[s]],
         line'[r] # None =>
           AskedBy(d, r, frame'[line'[r]], pc[line'[r]], job[line'[r]]),
         Opens(d, r, rooms, users)
  PROVE  DoorInv'
<1>1. TapInv' /\ AccessInv'
  BY NextTap, NextIsServers, NextAccess DEF DoorInv
<1>2. UNCHANGED <<pc, job, rooms, users>>
  BY DEF serverVars
<1>3. /\ door' \in [Rooms -> Lock!DoorState]
      /\ door'[r] = d /\ \A s \in Rooms \ {r} : door'[s] = door[s]
  BY DEF DoorInv
<1>4. LineState'
  <2> SUFFICES ASSUME NEW s \in Rooms, line'[s] # None
      PROVE AskedBy(door'[s], s, frame'[line'[s]], pc'[line'[s]], job'[line'[s]])
    BY DEF LineState
  <2>1. CASE s = r
    BY <1>2, <1>3, <2>1
  <2>2. CASE s # r
    <3>1. /\ line'[s] = line[s] /\ frame'[line[s]] = frame[line[s]]
          /\ AskedBy(door[s], s, frame[line[s]], pc[line[s]], job[line[s]])
      BY <2>2 DEF DoorInv, LineState
    <3> QED BY <1>2, <1>3, <2>2, <3>1
  <2> QED BY <2>1, <2>2
<1>5. \A s \in Rooms : Opens(door'[s], s, rooms', users')
  BY <1>2, <1>3 DEF DoorInv
<1> QED BY <1>1, <1>3, <1>4, <1>5 DEF DoorInv

(* A lock asks. *)
LEMMA AskKeepsDoors ==
  ASSUME DoorInv, NEW r \in Rooms, NEW text \in Names, NEW c \in Conns, AskServer(r, text, c)
  PROVE  DoorInv'
<1> DEFINE d == [door[r] EXCEPT !.ask = text]
           question == [room |-> r, text |-> text]
<1>1. /\ line \in [Rooms -> Conns \cup {None}]
      /\ frame \in [Conns -> [room : Rooms, text : Names] \cup {None}]
      /\ door[r] \in Lock!DoorState
      /\ door[r].ask = None => door[r].heard = "nothing"
  BY DEF DoorInv, TapInv, Opens
<1>2. /\ UNCHANGED serverVars /\ Free(c)
      /\ door[r].ask = None /\ door' = [door EXCEPT ![r] = d]
      /\ line' = [line EXCEPT ![r] = c] /\ frame' = [frame EXCEPT ![c] = question]
  BY DEF AskServer, Lock!Ask
<1>3. d \in Lock!DoorState /\ d.ask = text /\ d.heard = "nothing"
  BY <1>1, <1>2 DEF Lock!DoorState
<1>4. question # None /\ text # None /\ c # None
  BY TapAssumption
<1>5. \A s \in Rooms \ {r} : line'[s] # None => line'[s] = line[s] /\ frame'[line[s]] = frame[line[s]]
  BY <1>1, <1>2 DEF Free
<1>6. line' \in [Rooms -> Conns \cup {None}] /\ line'[r] = c /\ frame'[c] = question
  BY <1>1, <1>2
<1>7. AskedBy(d, r, question, pc[c], job[c])
  BY <1>3, <1>4 DEF AskedBy
<1>8. Opens(d, r, rooms, users)
  BY <1>3, <1>4 DEF Opens
<1>9. [TapNext]_systemVars
  BY DEF TapNext
<1> HIDE DEF d, question
<1> QED BY <1>2, <1>3, <1>5, <1>6, <1>7, <1>8, <1>9, LockStepKeepsDoors

(* A lock hears its answer. *)
LEMMA HearKeepsDoors ==
  ASSUME DoorInv, NEW r \in Rooms, HearAnswer(r)
  PROVE  DoorInv'
<1> DEFINE c == line[r]
<1>1. /\ line \in [Rooms -> Conns \cup {None}] /\ c \in Conns
      /\ door[r] \in Lock!DoorState
  BY DEF DoorInv, HearAnswer
<1>2. PICK answer \in {"allowed", "denied", "failed"} :
        /\ answer = "allowed" <=> job[c].reply = "230 Allowed"
        /\ Lock!Hear(r, answer)
  BY DEF HearAnswer
<1> DEFINE d == [door[r] EXCEPT !.heard = answer]
<1>3. /\ UNCHANGED <<serverVars, frame>> /\ frame[c] = None
      /\ door[r].ask # None /\ door' = [door EXCEPT ![r] = d]
      /\ line' = [line EXCEPT ![r] = None]
  BY <1>2 DEF HearAnswer, Answered, Lock!Hear
<1>4. d \in Lock!DoorState /\ d.ask = door[r].ask /\ d.heard = answer
  BY <1>1 DEF Lock!DoorState
<1>5. answer = "allowed" =>
        d.ask \in Names /\ Admits(rooms, users, r, Upper[d.ask])
  <2> SUFFICES ASSUME answer = "allowed"
      PROVE d.ask \in Names /\ Admits(rooms, users, r, Upper[d.ask])
    OBVIOUS
  <2>1. AskedBy(door[r], r, frame[c], pc[c], job[c])
    BY <1>1 DEF DoorInv, LineState, HearAnswer
  <2>2. job[c].room = r /\ d.ask \in Names /\ job[c].user = Upper[d.ask]
    BY <1>2, <1>3, <1>4, <2>1 DEF AskedBy
  <2>3. job[c].user # None
    BY <2>2, CaseAssumption, TapAssumption
  <2>4. AccessOK(pc[c], job[c], rooms, users)
    BY <1>1 DEF DoorInv, AccessInv
  <2> QED BY <1>2, <2>2, <2>3, <2>4 DEF AccessOK
<1>6. Opens(d, r, rooms, users)
  BY <1>3, <1>4, <1>5 DEF Opens
<1>7. /\ line' \in [Rooms -> Conns \cup {None}] /\ line'[r] = None
      /\ \A s \in Rooms \ {r} : line'[s] = line[s]
  BY <1>1, <1>3
<1>8. [TapNext]_systemVars
  BY DEF TapNext
<1> QED BY <1>3, <1>4, <1>6, <1>7, <1>8, LockStepKeepsDoors

(* A lock that stops waiting loses at most its own question. *)
LEMMA LosesItsOwn ==
  ASSUME DoorInv, NEW r \in Rooms, Closes(r)
  PROVE  /\ line' \in [Rooms -> Conns \cup {None}] /\ line'[r] = None
         /\ \A d \in Conns : frame'[d] = frame[d] \/ (d = line[r] /\ frame'[d] = None)
         /\ \A s \in Rooms \ {r} : line'[s] = line[s]
         /\ \A s \in Rooms \ {r} : line[s] # None => frame'[line[s]] = frame[line[s]]
<1>1. /\ line \in [Rooms -> Conns \cup {None}]
      /\ frame \in [Conns -> [room : Rooms, text : Names] \cup {None}]
  BY DEF DoorInv, TapInv
<1>2. /\ line' \in [Rooms -> Conns \cup {None}] /\ line'[r] = None
      /\ \A s \in Rooms \ {r} : line'[s] = line[s]
  BY <1>1 DEF Closes
<1>3. \A d \in Conns : frame'[d] = frame[d] \/ (d = line[r] /\ frame'[d] = None)
  BY <1>1 DEF Closes
<1>4. ASSUME NEW s \in Rooms \ {r}, line[s] # None PROVE frame'[line[s]] = frame[line[s]]
  <2>1. CASE line[s] = line[r] /\ frame[line[s]] # None
    <3>1. /\ AskedBy(door[s], s, frame[line[s]], pc[line[s]], job[line[s]])
          /\ AskedBy(door[r], r, frame[line[s]], pc[line[s]], job[line[s]])
      BY <1>4, <2>1 DEF DoorInv, LineState
    <3> QED BY <2>1, <3>1 DEF AskedBy
  <2> QED BY <1>1, <1>3, <1>4, <2>1
<1> QED BY <1>2, <1>3, <1>4

(* A lock gives up, or loses power. *)
LEMMA GiveUpKeepsDoors ==
  ASSUME DoorInv, NEW r \in Rooms, HangUp(r) \/ Outage(r)
  PROVE  DoorInv'
<1>1. door[r] \in Lock!DoorState /\ line \in [Rooms -> Conns \cup {None}]
  BY DEF DoorInv
<1>2. UNCHANGED serverVars /\ [TapNext]_systemVars
  BY DEF HangUp, Outage, TapNext
<1>3. /\ line' \in [Rooms -> Conns \cup {None}] /\ line'[r] = None
      /\ \A s \in Rooms \ {r} : line'[s] # None =>
           line'[s] = line[s] /\ frame'[line[s]] = frame[line[s]]
  BY LosesItsOwn DEF HangUp, Outage
<1>4. \E d \in Lock!DoorState : /\ door' = [door EXCEPT ![r] = d]
                               /\ Opens(d, r, rooms, users)
  <2>1. CASE HangUp(r)
    <3> DEFINE d == [door[r] EXCEPT !.heard = "failed"]
    <3>1. door[r].ask # None /\ door' = [door EXCEPT ![r] = d]
      BY <2>1 DEF HangUp, Lock!Hear
    <3>2. d \in Lock!DoorState /\ d.ask = door[r].ask /\ d.heard = "failed"
      BY <1>1 DEF Lock!DoorState
    <3> QED BY <3>1, <3>2 DEF Opens
  <2>2. CASE Outage(r)
    <3>1. PICK b \in {"locked", "unlocked"} :
            door' = [door EXCEPT ![r] = [ask |-> None, bolt |-> b, heard |-> "nothing"]]
      BY <2>2 DEF Outage, Lock!Outage
    <3>2. [ask |-> None, bolt |-> b, heard |-> "nothing"] \in Lock!DoorState
      BY DEF Lock!DoorState
    <3> QED BY <3>1, <3>2 DEF Opens
  <2> QED BY <2>1, <2>2
<1> QED BY <1>2, <1>3, <1>4, LockStepKeepsDoors

(* A lock that acts on an answer waits for none. *)
LEMMA ActKeepsDoors ==
  ASSUME DoorInv, NEW r \in Rooms, Act(r)
  PROVE  DoorInv'
<1>1. door[r] \in Lock!DoorState /\ Opens(door[r], r, rooms, users)
  BY DEF DoorInv
<1>2. UNCHANGED <<serverVars, line, frame>> /\ [TapNext]_systemVars
  BY DEF Act, Relock, TapNext
<1>3. line[r] = None /\ line \in [Rooms -> Conns \cup {None}]
  BY DEF Act, Relock, Lock!Unlock, Lock!Relock, Lock!Finish, DoorInv, LineState, AskedBy
<1>4. \E d \in Lock!DoorState : /\ door' = [door EXCEPT ![r] = d]
                               /\ Opens(d, r, rooms, users)
  <2>1. CASE Lock!Unlock(r)
    <3> DEFINE d == [door[r] EXCEPT !.bolt = "unlocked"]
    <3>1. door' = [door EXCEPT ![r] = d]
      BY <2>1 DEF Lock!Unlock
    <3>2. d \in Lock!DoorState /\ d.ask = door[r].ask /\ d.heard = door[r].heard
      BY <1>1 DEF Lock!DoorState
    <3> QED BY <1>1, <3>1, <3>2 DEF Opens
  <2>2. CASE Lock!Relock(r)
    <3> DEFINE d == [door[r] EXCEPT !.bolt = "locked", !.heard = "served"]
    <3>1. door' = [door EXCEPT ![r] = d] /\ door[r].heard = "allowed"
      BY <2>2 DEF Lock!Relock
    <3>2. d \in Lock!DoorState /\ d.ask = door[r].ask /\ d.heard = "served"
      BY <1>1 DEF Lock!DoorState
    <3> QED BY <1>1, <3>1, <3>2 DEF Opens
  <2>3. CASE Lock!Finish(r)
    <3> DEFINE d == [door[r] EXCEPT !.ask = None, !.heard = "nothing"]
    <3>1. door' = [door EXCEPT ![r] = d]
      BY <2>3 DEF Lock!Finish
    <3>2. d \in Lock!DoorState /\ d.ask = None /\ d.heard = "nothing"
      BY <1>1 DEF Lock!DoorState
    <3> QED BY <3>1, <3>2 DEF Opens
  <2> QED BY <2>1, <2>2, <2>3 DEF Act, Relock
<1> QED BY <1>2, <1>3, <1>4, LockStepKeepsDoors

(* Every step of the system preserves the invariant about the doors. *)
LEMMA NextDoor == DoorInv /\ [TapNext]_systemVars => DoorInv'
<1> SUFFICES ASSUME DoorInv, [TapNext]_systemVars PROVE DoorInv'
  OBVIOUS
<1>1. ASSUME NEW r \in Rooms, NEW text \in Names, NEW c \in Conns, AskServer(r, text, c)
      PROVE  DoorInv'
  BY <1>1, AskKeepsDoors
<1>2. ASSUME NEW r \in Rooms, HearAnswer(r) \/ HangUp(r) \/ Act(r) \/ Outage(r)
      PROVE  DoorInv'
  BY <1>2, HearKeepsDoors, GiveUpKeepsDoors, ActKeepsDoors
<1>3. ASSUME NEW c \in Conns, Deliver(c) \/ ServerRuns(c) \/ ServerFails(c) PROVE DoorInv'
  BY <1>3, DeliverKeepsDoors, ThreadKeepsDoors
<1>4. CASE UNCHANGED systemVars
  <2>1. LineState'
    BY <1>4 DEF systemVars, tapVars, serverVars, DoorInv, LineState
  <2> QED BY <1>4, <2>1, ServerStepKeepsDoors DEF systemVars, tapVars
<1> QED BY <1>1, <1>2, <1>3, <1>4 DEF TapNext

(* No lock ever opens for somebody its room does not admit, unless empty    *)
(* columns do, whatever is answered late, on whichever connection, after    *)
(* whichever timeout, power cut or failure, and however little time the    *)
(* server is given: for any number of locks, people and connections.       *)
THEOREM LocksOpenForAuthorised == TapSpec => []OpensForAuthorised
<1>1. DoorInv => OpensForAuthorised
  BY AdmitsIsAuthorised DEF DoorInv, Opens, OpensForAuthorised
<1> QED BY <1>1, InitDoor, NextDoor, PTL DEF TapSpec

-----------------------------------------------------------------------------
(* Whoever is asked for is a user of the server. *)
LEMMA TapIsTyped ==
  ASSUME NEW r \in Rooms
  PROVE  Tap(r) \subseteq Rooms \X Users
BY CaseAssumption DEF Tap

(* A thread at work is for a room and a user. *)
LEMMA WorkIsTyped ==
  ASSUME DoorInv, NEW c \in Conns, ServerRuns(c) \/ ServerFails(c)
  PROVE  job[c].room \in Rooms /\ job[c].user \in Users
<1>1. pc[c] \in Calls
  BY RunKeepsRoom DEF ServerRuns, ServerFails, CallFails, Active, DoorInv, TapInv
<1> QED BY <1>1 DEF DoorInv, TapInv, SafetyInv, ThreadState, ThreadOK

(* The locks, the questions and what is remembered of the taps keep their   *)
(* types, whatever happens to locks, connections and threads.              *)
THEOREM TapTypes == TapSpec => []TapTypeOK
<1> DEFINE Pairs == visits \subseteq Rooms \X Users /\ doubt \subseteq Rooms \X Users
           Waiting == patient \subseteq {r \in Rooms : line[r] # None}
           Counter == asked \in 0..MaxRequests
           Inv == DoorInv /\ Pairs /\ Waiting /\ Counter
<1>1. Inv => TapTypeOK
  BY DEF DoorInv, TapInv, TapTypeOK
<1>2. TapInit => Inv
  BY InitDoor, RequestAssumption DEF TapInit
<1>3. DoorInv /\ Pairs /\ Waiting /\ Counter /\ [TapNext]_systemVars
        => Pairs' /\ Waiting' /\ Counter'
  <2> SUFFICES ASSUME DoorInv, Pairs, Waiting, Counter, [TapNext]_systemVars
      PROVE Pairs' /\ Waiting' /\ Counter'
    OBVIOUS
  <2>0. line \in [Rooms -> Conns \cup {None}]
    BY DEF DoorInv
  <2>1. ASSUME NEW r \in Rooms, NEW text \in Names, NEW c \in Conns, AskServer(r, text, c)
        PROVE  Pairs' /\ Waiting' /\ Counter'
    <3>1. Pairs'
      BY <2>1, CaseAssumption DEF AskServer
    <3>2. Waiting'
      BY <2>0, <2>1, TapAssumption DEF AskServer
    <3>3. Counter'
      BY <2>1, RequestAssumption DEF AskServer
    <3> QED BY <3>1, <3>2, <3>3
  <2>2. ASSUME NEW r \in Rooms, HearAnswer(r) \/ HangUp(r) \/ Act(r) \/ Outage(r)
        PROVE  Pairs' /\ Waiting' /\ Counter'
    <3>1. Pairs'
      BY <2>2, TapIsTyped DEF HearAnswer, HangUp, Act, Relock, Outage
    <3>2. Waiting'
      BY <2>0, <2>2 DEF HearAnswer, HangUp, Act, Relock, Outage, Closes
    <3>3. Counter'
      BY <2>2 DEF HearAnswer, HangUp, Act, Relock, Outage
    <3> QED BY <3>1, <3>2, <3>3
  <2>3. ASSUME NEW c \in Conns, Deliver(c) \/ ServerRuns(c) \/ ServerFails(c)
        PROVE  Pairs' /\ Waiting' /\ Counter'
    <3>1. UNCHANGED <<line, patient, asked, visits>>
      BY <2>3 DEF Deliver, ServerRuns, ServerFails
    <3>2. CASE Deliver(c)
      BY <3>1, <3>2 DEF Deliver
    <3>3. CASE ServerRuns(c) \/ ServerFails(c)
      <4>1. <<job[c].room, job[c].user>> \in Rooms \X Users
        BY <3>3, WorkIsTyped
      <4>2. doubt' \subseteq doubt \cup {<<job[c].room, job[c].user>>}
        BY <3>3 DEF ServerRuns, ServerFails
      <4> QED BY <3>1, <4>1, <4>2
    <3> QED BY <2>3, <3>2, <3>3
  <2>4. CASE UNCHANGED systemVars
    BY <2>4 DEF systemVars, tapVars
  <2> QED BY <2>1, <2>2, <2>3, <2>4 DEF TapNext
<1>4. Inv /\ [TapNext]_systemVars => Inv'
  BY <1>3, NextDoor
<1> QED BY <1>1, <1>2, <1>4, PTL DEF TapSpec

-----------------------------------------------------------------------------
(***************************************************************************)
(* The log and the doors.  A tap on which nothing goes wrong changes twice  *)
(* who is inside: in the log, when its thread puts the visit, and at the    *)
(* door, when the bolt turns back.  Either may come first, and the door is  *)
(* usually unlocked before the visit is put.  Between the two the tap is    *)
(* accounted for by what the lock still owes and what the thread still has  *)
(* to record.  The server keeps nobody's taps apart; those of a person at a *)
(* lock are apart all the same as long as the pair is not in doubt, and     *)
(* that is what IsolationProofs needs of this pair alone.                  *)
(***************************************************************************)

(* The lock of r has let u in, or is about to hear that it may, and has not *)
(* turned its bolt back yet.                                               *)
Owed(r, u) ==
  /\ door[r].ask \in Names /\ Upper[door[r].ask] = u
  /\ \/ door[r].heard = "allowed"
     \/ line[r] # None /\ Answered(line[r]) /\ job[line[r]].reply = "230 Allowed"

(* A thread that has let u in at r has not put the visit yet.              *)
Working(r, u) ==
  \E c \in Conns : pc[c] \in Recording /\ job[c].room = r /\ job[c].user = u

(* At most one question or thread for u at r. *)
Single(r, u) == \A c, d \in Conns : Busy(c, r, u) /\ Busy(d, r, u) => c = d

Unmixed(r, u) == <<r, u>> \notin doubt => Single(r, u) /\ IsolatedInv({<<r, u>>})

(* The question of c, or the thread that has not answered it yet, is for u  *)
(* at r: the lock of r waits for it, unless something has gone wrong.       *)
WaitedFor(c, r, u) == <<r, u>> \in doubt \/ line[r] = c

Awaited(c) ==
  /\ frame[c] # None => WaitedFor(c, frame[c].room, Upper[frame[c].text])
  /\ pc[c] \in Deciding => WaitedFor(c, job[c].room, job[c].user)

Waits == \A c \in Conns : Awaited(c)

Balance(r, u) ==
  <<r, u>> \notin doubt =>
    ((u \in Inside(r) <=> <<r, u>> \in visits) <=> (Owed(r, u) <=> Working(r, u)))

Balanced == \A r \in Rooms, u \in Users : Balance(r, u)

MatchInv ==
  /\ DoorInv /\ IsolatedInv({})
  /\ \A r \in Rooms, u \in Users : Unmixed(r, u)
  /\ Waits /\ Balanced

(* A door that owes something on its line has its own question answered     *)
(* there; and one that has heard something has no line.                    *)
LEMMA OwedOnLine ==
  ASSUME DoorInv, NEW r \in Rooms
  PROVE  /\ line[r] # None => line[r] \in Conns /\ door[r].heard = "nothing"
         /\ \A u : Owed(r, u) /\ line[r] # None =>
              frame[line[r]] = None /\ job[line[r]].room = r /\ job[line[r]].user = u
<1>1. line[r] # None =>
        line[r] \in Conns /\ AskedBy(door[r], r, frame[line[r]], pc[line[r]], job[line[r]])
  BY DEF DoorInv, LineState
<1> QED BY <1>1 DEF AskedBy, Owed, Answered

(* The steps of the locks leave the log alone: the doors stay in balance if *)
(* they owe something more, or less, exactly when a visit is turned round.  *)
LEMMA LockBalances ==
  ASSUME Balanced, UNCHANGED serverVars, doubt \subseteq doubt',
         \A r \in Rooms, u \in Users : <<r, u>> \notin doubt' =>
           ((<<r, u>> \in visits' <=> <<r, u>> \in visits) <=> (Owed(r, u)' <=> Owed(r, u)))
  PROVE  Balanced'
<1>1. UNCHANGED <<log, pc, job>>
  BY DEF serverVars
<1>2. ASSUME NEW r \in Rooms, NEW u \in Users
      PROVE  (u \in Inside(r)' <=> u \in Inside(r)) /\ (Working(r, u)' <=> Working(r, u))
  BY <1>1 DEF Inside, OpenVisits, Working
<1>3. ASSUME NEW r \in Rooms, NEW u \in Users PROVE Balance(r, u)'
  <2>1. Balance(r, u)
    BY DEF Balanced
  <2> QED BY <1>2, <2>1 DEF Balance
<1> QED BY <1>3 DEF Balanced

(* What a lock owes does not change while its door, its line and what is    *)
(* answered there do not.                                                  *)
LEMMA OwedElsewhere ==
  ASSUME NEW r, NEW u, door'[r] = door[r], line'[r] = line[r],
         line[r] # None => /\ frame'[line[r]] = None <=> frame[line[r]] = None
                           /\ job'[line[r]].reply = job[line[r]].reply
  PROVE  Owed(r, u)' <=> Owed(r, u)
BY DEF Owed, Answered

(* Nothing is known of a person at a door at rest that nobody works for.    *)
LEMMA NothingOwed ==
  ASSUME DoorInv, NEW r \in Rooms, door[r].ask = None, NEW u
  PROVE  ~Owed(r, u)
BY TapAssumption DEF Owed

(* A thread, or a question, that is under way is for a room and a user.     *)
LEMMA UnderWay ==
  ASSUME DoorInv, NEW c \in Conns
  PROVE  /\ frame[c] # None => frame[c].room \in Rooms /\ pc[c] \notin Calls
         /\ pc[c] \in Deciding \cup Recording => pc[c] \in Calls
         /\ pc[c] \in Calls => /\ frame[c] = None
                               /\ job[c].room \in Rooms /\ job[c].user \in Users
<1>1. /\ frame \in [Conns -> [room : Rooms, text : Names] \cup {None}]
      /\ frame[c] # None => pc[c] \in Ended
      /\ ThreadOK(pc[c], job[c])
  BY DEF DoorInv, TapInv, SafetyInv, ThreadState
<1>2. pc[c] \in Deciding \cup Recording => pc[c] \in Calls
  BY DEF Deciding, Recording, Calls
<1>3. pc[c] \in Ended => pc[c] \notin Calls
  BY DEF Ended, Calls
<1> QED BY <1>1, <1>2, <1>3 DEF ThreadOK

(* What is in doubt stays in doubt. *)
LEMMA DoubtStays == [TapNext]_systemVars => doubt \subseteq doubt'
<1> SUFFICES ASSUME [TapNext]_systemVars PROVE doubt \subseteq doubt'
  OBVIOUS
<1>1. ASSUME NEW r \in Rooms,
             \/ \E text \in Names, c \in Conns : AskServer(r, text, c)
             \/ HearAnswer(r) \/ HangUp(r) \/ Act(r) \/ Outage(r)
      PROVE  doubt \subseteq doubt'
  BY <1>1 DEF AskServer, HearAnswer, HangUp, Act, Relock, Outage
<1>2. ASSUME NEW c \in Conns, Deliver(c) \/ ServerRuns(c) \/ ServerFails(c)
      PROVE  doubt \subseteq doubt'
  BY <1>2 DEF Deliver, ServerRuns, ServerFails
<1>3. CASE UNCHANGED systemVars
  BY <1>3 DEF systemVars, tapVars
<1> QED BY <1>1, <1>2, <1>3 DEF TapNext

(* A person's taps at a lock follow each other: one that comes while the    *)
(* server is busy with the one before puts the pair in doubt.               *)
LEMMA NextSingle ==
  ASSUME DoorInv, [TapNext]_systemVars, NEW r \in Rooms, NEW u \in Users,
         <<r, u>> \notin doubt', Single(r, u)
  PROVE  Single(r, u)'
<1>1. ASSUME \A d \in Conns : Busy(d, r, u)' => Busy(d, r, u) PROVE Single(r, u)'
  BY <1>1 DEF Single
<1>2. /\ frame \in [Conns -> [room : Rooms, text : Names] \cup {None}]
      /\ \A d \in Conns : frame[d] # None => pc[d] \in Ended
      /\ job \in [Conns -> Job] /\ pc \in [Conns -> Calls \cup Ended]
  BY DEF DoorInv, TapInv, SafetyInv, ServerTypeOK
<1>3. ASSUME NEW s \in Rooms, NEW text \in Names, NEW c \in Conns, AskServer(s, text, c)
      PROVE  Single(r, u)'
  <2> DEFINE question == [room |-> s, text |-> text]
  <2>1. UNCHANGED <<pc, job>> /\ frame' = [frame EXCEPT ![c] = question]
    BY <1>3 DEF AskServer, serverVars
  <2>2. question.room = s /\ question.text = text
    OBVIOUS
  <2>3. frame'[c] = question /\ \A d \in Conns \ {c} : frame'[d] = frame[d]
    BY <1>2, <2>1
  <2> HIDE DEF question
  <2>4. \A d \in Conns \ {c} : Busy(d, r, u)' => Busy(d, r, u)
    BY <2>1, <2>3 DEF Busy, Active
  <2>5. ~Active(c)'
    BY <1>3, <2>1 DEF AskServer, Free, Active, Calls, Ended
  <2>6. Busy(c, r, u)' => s = r /\ Upper[text] = u
    BY <2>2, <2>3, <2>5 DEF Busy
  <2>7. s = r /\ Upper[text] = u => \A d \in Conns : ~Busy(d, r, u)
    BY <1>3 DEF AskServer
  <2> QED BY <2>4, <2>6, <2>7 DEF Single
<1>4. ASSUME NEW s \in Rooms, HearAnswer(s) \/ HangUp(s) \/ Act(s) \/ Outage(s)
      PROVE  Single(r, u)'
  <2>1. UNCHANGED <<pc, job>>
    BY <1>4, LockLeavesServer DEF serverVars
  <2>2. \A d \in Conns : frame'[d] = frame[d] \/ frame'[d] = None
    <3>1. CASE HearAnswer(s) \/ Act(s)
      BY <3>1 DEF HearAnswer, Act, Relock
    <3>2. CASE HangUp(s) \/ Outage(s)
      BY <3>2, LosesItsOwn DEF HangUp, Outage
    <3> QED BY <1>4, <3>1, <3>2
  <2> QED BY <1>1, <2>1, <2>2 DEF Busy, Active
<1>5. ASSUME NEW c \in Conns, Deliver(c) PROVE Single(r, u)'
  <2>1. /\ frame[c] # None
        /\ frame'[c] = None /\ \A d \in Conns \ {c} : frame'[d] = frame[d]
        /\ \A d \in Conns \ {c} : pc'[d] = pc[d] /\ job'[d] = job[d]
        /\ pc'[c] \in Calls => /\ job'[c].room = frame[c].room
                               /\ job'[c].user = Upper[frame[c].text]
    BY <1>5, Delivered
  <2> QED BY <1>1, <2>1 DEF Busy, Active
<1>6. ASSUME NEW c \in Conns, ServerRuns(c) \/ ServerFails(c) PROVE Single(r, u)'
  <2>1. UNCHANGED frame
    BY <1>6 DEF ServerRuns, ServerFails
  <2>2. /\ pc[c] \in Calls
        /\ \A d \in Conns \ {c} : pc'[d] = pc[d] /\ job'[d] = job[d]
        /\ job'[c].room = job[c].room /\ job'[c].user = job[c].user
    <3>1. CASE ServerRuns(c)
      BY <3>1, RunKeepsRoom DEF DoorInv, TapInv, ServerRuns
    <3>2. CASE ServerFails(c)
      BY <1>2, <3>2 DEF ServerFails, CallFails, Active, Over, NewJob
    <3> QED BY <1>6, <3>1, <3>2
  <2> QED BY <1>1, <2>1, <2>2 DEF Busy, Active
<1>7. CASE UNCHANGED systemVars
  BY <1>1, <1>7 DEF systemVars, tapVars, serverVars, Busy, Active
<1> QED BY <1>3, <1>4, <1>5, <1>6, <1>7 DEF TapNext

(* One question or thread at a time is what the server's isolation asks for. *)
LEMMA SingleIsAlone ==
  ASSUME NEW r \in Rooms, NEW u \in Users, Single(r, u)'
  PROVE  Alone({<<r, u>>})'
<1> SUFFICES ASSUME NEW c \in Conns, NEW d \in Conns, c # d, Active(c)', Active(d)',
                    Here(c, {<<r, u>>})', job'[c].room = job'[d].room,
                    job'[c].user = job'[d].user
    PROVE FALSE
  BY DEF Alone
<1>1. job'[c].room = r /\ job'[c].user = u
  BY DEF Here
<1> QED BY <1>1 DEF Single, Busy

(* Every step keeps the pairs unmixed. *)
LEMMA NextUnmixed ==
  ASSUME MatchInv, [TapNext]_systemVars
  PROVE  IsolatedInv({})' /\ \A r \in Rooms, u \in Users : Unmixed(r, u)'
<1>1. [ServerNext]_serverVars
  BY NextIsServers DEF MatchInv, DoorInv
<1>2. Alone({})'
  BY DEF Alone, Here
<1>3. IsolatedInv({})'
  BY <1>1, <1>2, NextIsolated DEF MatchInv
<1>4. ASSUME NEW r \in Rooms, NEW u \in Users, <<r, u>> \notin doubt'
      PROVE  Single(r, u)' /\ IsolatedInv({<<r, u>>})'
  <2>1. Single(r, u) /\ IsolatedInv({<<r, u>>})
    BY <1>4, DoubtStays DEF MatchInv, Unmixed
  <2>2. Single(r, u)'
    BY <1>4, <2>1, NextSingle DEF MatchInv
  <2>3. Alone({<<r, u>>})'
    BY <2>2, SingleIsAlone
  <2>4. IsolatedInv({<<r, u>>})'
    BY <1>1, <2>1, <2>3, NextIsolated
  <2> QED BY <2>2, <2>4
<1> QED BY <1>3, <1>4 DEF Unmixed

(* A lock asks: it has waited for nothing.                                  *)
LEMMA AskMatches ==
  ASSUME MatchInv, NEW r \in Rooms, NEW text \in Names, NEW c \in Conns, AskServer(r, text, c)
  PROVE  Waits' /\ Balanced'
<1> DEFINE question == [room |-> r, text |-> text]
<1>1. /\ line \in [Rooms -> Conns \cup {None}]
      /\ frame \in [Conns -> [room : Rooms, text : Names] \cup {None}]
      /\ door \in [Rooms -> Lock!DoorState]
      /\ door[r].ask = None => door[r].heard = "nothing"
  BY DEF MatchInv, DoorInv, TapInv, Opens
<1>2. /\ UNCHANGED <<serverVars, visits>> /\ Free(c)
      /\ door[r].ask = None /\ door' = [door EXCEPT ![r].ask = text]
      /\ line' = [line EXCEPT ![r] = c] /\ frame' = [frame EXCEPT ![c] = question]
      /\ doubt \subseteq doubt'
  BY DEF AskServer, Lock!Ask
<1>3. UNCHANGED <<pc, job>>
  BY <1>2 DEF serverVars
<1>4. question # None /\ question.room = r /\ question.text = text
  BY TapAssumption
<1>5. /\ line'[r] = c /\ \A s \in Rooms \ {r} : line'[s] = line[s] /\ line[s] # c
      /\ frame'[c] = question /\ \A d \in Conns \ {c} : frame'[d] = frame[d]
      /\ door'[r].heard = "nothing" /\ \A s \in Rooms \ {r} : door'[s] = door[s]
  BY <1>1, <1>2 DEF Free, Lock!DoorState
<1> HIDE DEF question
<1>6. ASSUME NEW d \in Conns PROVE Awaited(d)'
  <2>1. CASE d = c
    <3>1. pc[d] \notin Deciding
      BY <1>2, <2>1 DEF Free, Ended, Deciding
    <3> QED BY <1>3, <1>4, <1>5, <2>1, <3>1 DEF Awaited, WaitedFor
  <2>2. CASE d # c
    <3>1. /\ frame[d] # None => /\ frame[d].room \in Rooms /\ frame[d].text \in Names
                                /\ pc[d] \notin Deciding
          /\ pc[d] \in Deciding => /\ pc[d] \in Calls /\ frame[d] = None
                                   /\ job[d].room \in Rooms
      BY <1>1, UnderWay DEF MatchInv
    <3>2. line[r] = d => frame[d] = None /\ pc[d] \notin Deciding
      <4> SUFFICES ASSUME line[r] = d PROVE frame[d] = None /\ pc[d] \notin Deciding
        OBVIOUS
      <4>1. d # None /\ None \notin Names
        BY TapAssumption
      <4>2. AskedBy(door[r], r, frame[d], pc[d], job[d])
        BY <4>1 DEF MatchInv, DoorInv, LineState
      <4> QED BY <1>2, <3>1, <4>1, <4>2 DEF AskedBy
    <3>3. frame'[d] = frame[d] /\ Awaited(d)
      BY <1>5, <2>2 DEF MatchInv, Waits
    <3> QED BY <1>2, <1>3, <1>5, <3>1, <3>2, <3>3 DEF Awaited, WaitedFor
  <2> QED BY <2>1, <2>2
<1>7. ASSUME NEW s \in Rooms, NEW u \in Users PROVE Owed(s, u)' <=> Owed(s, u)
  <2>1. CASE s = r
    <3>1. ~Owed(r, u)
      BY <1>2, NothingOwed DEF MatchInv
    <3>2. ~Owed(r, u)'
      BY <1>4, <1>5 DEF Owed, Answered
    <3> QED BY <2>1, <3>1, <3>2
  <2>2. CASE s # r
    <3>1. line[s] # None => line[s] \in Conns \ {c}
      BY <1>1, <1>5, <2>2
    <3> QED BY <1>3, <1>5, <2>2, <3>1, OwedElsewhere
  <2> QED BY <2>1, <2>2
<1> QED BY <1>2, <1>6, <1>7, LockBalances DEF MatchInv, Waits

(* A lock hears its answer: it owes what its line owed.                     *)
LEMMA HearMatches ==
  ASSUME MatchInv, NEW r \in Rooms, HearAnswer(r)
  PROVE  Waits' /\ Balanced'
<1>1. PICK c \in Conns : line[r] = c
  BY DEF HearAnswer, MatchInv, DoorInv
<1>2. PICK answer \in {"allowed", "denied", "failed"} :
        /\ answer = "allowed" <=> job[c].reply = "230 Allowed"
        /\ Lock!Hear(r, answer)
  BY <1>1 DEF HearAnswer
<1>3. /\ UNCHANGED <<serverVars, frame, visits, doubt>> /\ Answered(c)
      /\ door[r].heard = "nothing" /\ door' = [door EXCEPT ![r].heard = answer]
      /\ line' = [line EXCEPT ![r] = None]
  BY <1>1, <1>2 DEF HearAnswer, Lock!Hear
<1>4. UNCHANGED <<pc, job, frame, doubt>>
  BY <1>3 DEF serverVars
<1>5. /\ line'[r] = None /\ \A s \in Rooms \ {r} : line'[s] = line[s]
      /\ door'[r].heard = answer /\ door'[r].ask = door[r].ask
      /\ \A s \in Rooms \ {r} : door'[s] = door[s]
  BY <1>3 DEF MatchInv, DoorInv, Lock!DoorState
<1>6. ASSUME NEW d \in Conns PROVE Awaited(d)'
  <2>1. CASE d = c
    <3>1. AdmittedOK(pc[c], job[c], DOMAIN rooms)
      BY DEF MatchInv, IsolatedInv, VisitsInv, Admitted
    <3>2. frame[c] = None /\ pc[c] \notin Deciding
      BY <1>3, <3>1 DEF Answered, AdmittedOK, Deciding
    <3> QED BY <1>4, <2>1, <3>2 DEF Awaited
  <2>2. CASE d # c
    <3>1. /\ frame[d] # None => frame[d].room \in Rooms
          /\ pc[d] \in Deciding => job[d].room \in Rooms
          /\ Awaited(d)
      BY UnderWay DEF MatchInv, Waits
    <3>2. \A s \in Rooms : line[s] = d => line'[s] = d
      BY <1>1, <1>5, <2>2
    <3> QED BY <1>4, <3>1, <3>2 DEF Awaited, WaitedFor
  <2> QED BY <2>1, <2>2
<1>7. ASSUME NEW s \in Rooms, NEW u \in Users PROVE Owed(s, u)' <=> Owed(s, u)
  <2>1. CASE s = r
    BY <1>1, <1>2, <1>3, <1>5, <2>1, TapAssumption DEF Owed
  <2>2. CASE s # r
    BY <1>4, <1>5, <2>2, OwedElsewhere
  <2> QED BY <2>1, <2>2
<1> QED BY <1>3, <1>6, <1>7, LockBalances DEF MatchInv, Waits

(* A lock gives up or loses power: whatever it owed, or waited for, is in   *)
(* doubt from now on.                                                      *)
LEMMA GiveUpMatches ==
  ASSUME MatchInv, NEW r \in Rooms, HangUp(r) \/ Outage(r)
  PROVE  Waits' /\ Balanced'
<1>1. /\ line \in [Rooms -> Conns \cup {None}]
      /\ frame \in [Conns -> [room : Rooms, text : Names] \cup {None}]
      /\ door \in [Rooms -> Lock!DoorState]
      /\ \A s \in Rooms : line[s] # None =>
           AskedBy(door[s], s, frame[line[s]], pc[line[s]], job[line[s]])
  BY DEF MatchInv, DoorInv, TapInv, LineState
<1>2. UNCHANGED <<serverVars, visits>> /\ doubt \subseteq doubt'
  BY DEF HangUp, Outage
<1>3. UNCHANGED <<pc, job>>
  BY <1>2 DEF serverVars
<1>4. /\ line'[r] = None /\ \A s \in Rooms \ {r} : line'[s] = line[s]
      /\ \A d \in Conns : frame'[d] = frame[d] \/ (d = line[r] /\ frame'[d] = None)
      /\ \A s \in Rooms \ {r} : line[s] # None => frame'[line[s]] = frame[line[s]]
      /\ door'[r].heard # "allowed" /\ \A s \in Rooms \ {r} : door'[s] = door[s]
  <2>1. /\ line'[r] = None /\ \A s \in Rooms \ {r} : line'[s] = line[s]
        /\ \A d \in Conns : frame'[d] = frame[d] \/ (d = line[r] /\ frame'[d] = None)
        /\ \A s \in Rooms \ {r} : line[s] # None => frame'[line[s]] = frame[line[s]]
    BY LosesItsOwn DEF HangUp, Outage, MatchInv
  <2>2. CASE HangUp(r)
    <3>1. door' = [door EXCEPT ![r].heard = "failed"]
      BY <2>2 DEF HangUp, Lock!Hear
    <3>2. door'[r].heard = "failed"
      BY <1>1, <3>1 DEF Lock!DoorState
    <3> QED BY <1>1, <2>1, <3>1, <3>2
  <2>3. CASE Outage(r)
    <3>1. PICK b \in {"locked", "unlocked"} :
            door' = [door EXCEPT ![r] = [ask |-> None, bolt |-> b, heard |-> "nothing"]]
      BY <2>3 DEF Outage, Lock!Outage
    <3>2. door'[r].heard = "nothing"
      BY <1>1, <3>1
    <3> QED BY <1>1, <2>1, <3>1, <3>2
  <2> QED BY <2>2, <2>3
<1>5. /\ Tap(r) \subseteq doubt' \/ (door[r].heard = "served" /\ line[r] = None)
  BY <1>1 DEF HangUp, Outage, AskedBy
<1>6. ASSUME door[r].ask \in Names, line[r] # None PROVE <<r, Upper[door[r].ask]>> \in doubt'
  BY <1>5, <1>6 DEF Tap
<1>7. ASSUME NEW d \in Conns PROVE Awaited(d)'
  <2>1. CASE d = line[r]
    <3>1. /\ AskedBy(door[r], r, frame[d], pc[d], job[d]) /\ d # None
          /\ frame[d] # None => frame[d].text \in Names
      BY <1>1, <2>1, TapAssumption
    <3>2. frame[d] # None => pc[d] \notin Deciding
      BY UnderWay DEF MatchInv
    <3>3. pc[d] \in Deciding => pc[d] \in Calls
      BY UnderWay DEF MatchInv
    <3>4. CASE frame'[d] # None
      BY <1>3, <1>4, <1>6, <2>1, <3>1, <3>2, <3>4 DEF AskedBy, Awaited, WaitedFor
    <3>5. CASE pc[d] \in Deciding
      BY <1>3, <1>4, <1>6, <2>1, <3>1, <3>2, <3>3, <3>5 DEF AskedBy, Awaited, WaitedFor
    <3> QED BY <1>3, <3>4, <3>5 DEF Awaited
  <2>2. CASE d # line[r]
    <3>1. /\ frame[d] # None => frame[d].room \in Rooms
          /\ pc[d] \in Deciding => job[d].room \in Rooms
          /\ Awaited(d)
      BY UnderWay DEF MatchInv, Waits
    <3>2. frame'[d] = frame[d] /\ \A s \in Rooms : line[s] = d => line'[s] = d
      BY <1>4, <2>2
    <3> QED BY <1>2, <1>3, <3>1, <3>2 DEF Awaited, WaitedFor
  <2> QED BY <2>1, <2>2
<1>8. ASSUME NEW s \in Rooms, NEW u \in Users, <<s, u>> \notin doubt'
      PROVE  Owed(s, u)' <=> Owed(s, u)
  <2>1. CASE s = r
    <3>1. ~Owed(r, u)'
      BY <1>4 DEF Owed
    <3>2. ~Owed(r, u)
      <4>1. CASE Tap(r) \subseteq doubt'
        BY <1>8, <2>1, <4>1 DEF Owed, Tap
      <4>2. CASE door[r].heard = "served" /\ line[r] = None
        BY <4>2 DEF Owed
      <4> QED BY <1>5, <4>1, <4>2
    <3> QED BY <2>1, <3>1, <3>2
  <2>2. CASE s # r
    <3>1. line'[s] = line[s] /\ door'[s] = door[s]
      BY <1>4, <2>2
    <3>2. line[s] # None => frame'[line[s]] = frame[line[s]]
      BY <1>4, <2>2
    <3> QED BY <1>3, <3>1, <3>2, OwedElsewhere
  <2> QED BY <2>1, <2>2
<1> QED BY <1>2, <1>7, <1>8, LockBalances DEF MatchInv, Waits

(* A lock acts on an answer: what it owes is settled when the bolt turns    *)
(* back, and the visit turned round.                                       *)
LEMMA ActMatches ==
  ASSUME MatchInv, NEW r \in Rooms, Act(r)
  PROVE  Waits' /\ Balanced'
<1>1. /\ door \in [Rooms -> Lock!DoorState] /\ Opens(door[r], r, rooms, users)
      /\ line[r] # None => door[r].heard = "nothing"
  BY OwedOnLine DEF MatchInv, DoorInv
<1>2. UNCHANGED <<serverVars, line, frame, doubt>>
  BY DEF Act, Relock
<1>3. UNCHANGED <<pc, job>>
  BY <1>2 DEF serverVars
<1>4. line[r] = None
  BY <1>1 DEF Act, Relock, Lock!Unlock, Lock!Relock, Lock!Finish
<1>5. \A s \in Rooms \ {r} : door'[s] = door[s]
  BY <1>1 DEF Act, Relock, Lock!Unlock, Lock!Relock, Lock!Finish
<1>6. ASSUME NEW d \in Conns PROVE Awaited(d)'
  BY <1>2, <1>3 DEF MatchInv, Waits, Awaited, WaitedFor
<1>7. ASSUME NEW u \in Users
      PROVE  (<<r, u>> \in visits' <=> <<r, u>> \in visits) <=> (Owed(r, u)' <=> Owed(r, u))
  <2>1. CASE Lock!Unlock(r)
    <3>1. visits' = visits
      BY <2>1 DEF Act, Relock, Lock!Unlock, Lock!Relock, Lock!DoorState, MatchInv, DoorInv
    <3>2. door'[r].ask = door[r].ask /\ door'[r].heard = door[r].heard
      BY <1>1, <2>1 DEF Lock!Unlock, Lock!DoorState
    <3> QED BY <1>2, <1>4, <3>1, <3>2 DEF Owed
  <2>2. CASE Relock(r)
    <3>1. door[r].heard = "allowed" /\ door'[r].heard = "served"
      BY <1>1, <2>2 DEF Relock, Lock!Relock, Lock!DoorState
    <3>2. ~Owed(r, u)'
      BY <1>2, <1>4, <3>1 DEF Owed
    <3>3. Owed(r, u) <=> Upper[door[r].ask] = u
      BY <1>1, <3>1 DEF Owed, Opens
    <3>4. Tap(r) = {<<r, Upper[door[r].ask]>>}
      BY <1>1, <3>1 DEF Tap, Opens
    <3> QED BY <2>2, <3>2, <3>3, <3>4 DEF Relock
  <2>3. CASE Lock!Finish(r)
    <3>1. visits' = visits
      BY <2>3 DEF Act, Relock, Lock!Finish, Lock!Relock
    <3>2. door[r].heard # "allowed" /\ door'[r].heard = "nothing"
      BY <1>1, <2>3 DEF Lock!Finish, Lock!DoorState
    <3> QED BY <1>2, <1>4, <3>1, <3>2 DEF Owed
  <2> QED BY <2>1, <2>2, <2>3 DEF Act
<1>8. ASSUME NEW s \in Rooms \ {r}, NEW u \in Users
      PROVE  (<<s, u>> \in visits' <=> <<s, u>> \in visits) /\ (Owed(s, u)' <=> Owed(s, u))
  <2>1. <<s, u>> \in visits' <=> <<s, u>> \in visits
    BY DEF Act, Relock, Tap
  <2> QED BY <1>2, <1>3, <1>5, <2>1, OwedElsewhere
<1> QED BY <1>2, <1>6, <1>7, <1>8, LockBalances DEF MatchInv, Waits

(* A question reaches the server: nobody is let in yet.                     *)
LEMMA DeliverMatches ==
  ASSUME MatchInv, NEW c \in Conns, Deliver(c)
  PROVE  Waits' /\ Balanced'
<1>1. /\ UNCHANGED <<door, line>> /\ frame[c] # None
      /\ frame'[c] = None /\ \A d \in Conns \ {c} : frame'[d] = frame[d]
      /\ \A d \in Conns \ {c} : pc'[d] = pc[d] /\ job'[d] = job[d]
      /\ job'[c].reply # "230 Allowed"
      /\ pc'[c] \in {"closed", "died", "is_users_from_room"}
      /\ pc'[c] \in Calls => /\ frame[c].text \in Names
                             /\ job'[c].room = frame[c].room
                             /\ job'[c].user = Upper[frame[c].text]
  BY Delivered DEF MatchInv
<1>2. UNCHANGED <<log, visits, doubt>>
  BY DEF Deliver, ReceiveGarbage, ReceiveLogin, ReceiveUnsplittable, Receives
<1>3. pc[c] \notin Recording /\ pc'[c] \notin Recording
  BY <1>1, UnderWay DEF MatchInv, Recording
<1>4. ASSUME NEW d \in Conns PROVE Awaited(d)'
  <2>1. Awaited(d)
    BY DEF MatchInv, Waits
  <2>2. CASE d = c
    <3>1. pc'[c] \in Deciding => pc'[c] \in Calls
      BY DEF Deciding, Calls
    <3> QED BY <1>1, <1>2, <2>1, <2>2, <3>1 DEF Awaited, WaitedFor
  <2>3. CASE d # c
    BY <1>1, <1>2, <2>1, <2>3 DEF Awaited, WaitedFor
  <2> QED BY <2>2, <2>3
<1>5. ASSUME NEW r \in Rooms, NEW u \in Users PROVE Balance(r, u)'
  <2>1. u \in Inside(r)' <=> u \in Inside(r)
    BY <1>2 DEF Inside, OpenVisits
  <2>2. Working(r, u)' <=> Working(r, u)
    BY <1>1, <1>3 DEF Working
  <2>3. Owed(r, u)' <=> Owed(r, u)
    <3>1. line[r] # None => line[r] \in Conns /\ door[r].heard = "nothing"
      BY OwedOnLine DEF MatchInv
    <3>2. CASE line[r] = c
      BY <1>1, <3>1, <3>2, TapAssumption DEF Owed, Answered
    <3>3. CASE line[r] # c
      BY <1>1, <3>1, <3>3, OwedElsewhere
    <3> QED BY <3>2, <3>3
  <2> QED BY <1>2, <2>1, <2>2, <2>3 DEF MatchInv, Balanced, Balance
<1> QED BY <1>4, <1>5 DEF Waits, Balanced

(* What a thread records, whoever it works for; and that it records the tap *)
(* of a pair that is not in doubt.                                         *)
LEMMA ThreadRecords ==
  ASSUME MatchInv, NEW c \in Conns, Run(c), NEW r \in Rooms, NEW u \in Users,
         r = job[c].room, u = job[c].user
  PROVE  Records(c, r, u, <<r, u>> \notin doubt)
<1>1. Records(c, r, u, Here(c, {}))
  BY RunRecords DEF MatchInv
<1>2. CASE <<r, u>> \in doubt
  BY <1>1, <1>2 DEF Records
<1>3. CASE <<r, u>> \notin doubt
  <2>1. IsolatedInv({<<r, u>>})
    BY <1>3 DEF MatchInv, Unmixed
  <2>2. Records(c, r, u, Here(c, {<<r, u>>}))
    BY <2>1, RunRecords
  <2>3. Here(c, {<<r, u>>})
    BY DEF Here
  <2> QED BY <1>3, <2>2, <2>3 DEF Records
<1> QED BY <1>2, <1>3

(* A thread takes a step.  Between the answer and the put of the visit it   *)
(* has something to record; the lock has something to serve once it has     *)
(* been answered, and it is this lock that waits.                          *)
LEMMA RunMatches ==
  ASSUME MatchInv, NEW c \in Conns, ServerRuns(c), NEW r, NEW u,
         r = job[c].room, u = job[c].user
  PROVE  Waits' /\ Balanced'
<1>1. /\ UNCHANGED <<door, line, frame, visits>> /\ doubt \subseteq doubt'
      /\ TwoDays(c) => <<r, u>> \in doubt'
      /\ pc[c] \in Calls /\ frame[c] = None /\ r \in Rooms /\ u \in Users
      /\ \A d \in Conns \ {c} : pc'[d] = pc[d] /\ job'[d] = job[d]
      /\ job'[c].room = r /\ job'[c].user = u
  <2>1. /\ UNCHANGED <<door, line, frame, visits>> /\ doubt \subseteq doubt'
        /\ TwoDays(c) => <<r, u>> \in doubt'
    BY DEF ServerRuns
  <2>2. /\ pc[c] \in Calls
        /\ \A d \in Conns \ {c} : pc'[d] = pc[d] /\ job'[d] = job[d]
        /\ job'[c].room = r /\ job'[c].user = u
    BY RunKeepsRoom DEF MatchInv, DoorInv, TapInv, ServerRuns
  <2> QED BY <2>1, <2>2, UnderWay DEF MatchInv
<1>2. Records(c, r, u, <<r, u>> \notin doubt)
  BY <1>1, ThreadRecords DEF ServerRuns
<1>3. /\ \A s, v : s # r \/ v # u => (v \in Inside(s)' <=> v \in Inside(s))
      /\ <<r, u>> \notin doubt' /\ pc[c] \in Recording /\ pc'[c] \notin Recording
           => (u \in Inside(r)' <=> u \notin Inside(r))
      /\ pc[c] \notin Recording \/ pc'[c] \in Recording
           => (u \in Inside(r)' <=> u \in Inside(r))
  BY <1>1, <1>2 DEF Records
<1>4. /\ pc'[c] \in Recording => pc[c] \in Recording \cup {"send_allowed"}
      /\ pc[c] = "send_allowed" => pc'[c] \in Recording
      /\ job'[c].reply = "230 Allowed" <=>
           pc[c] = "send_allowed" \/ job[c].reply = "230 Allowed"
      /\ pc'[c] \in Deciding => pc[c] \in Deciding
  BY <1>2 DEF Records
<1>5. ASSUME NEW d \in Conns PROVE Awaited(d)'
  <2>1. Awaited(d) /\ UNCHANGED <<frame, line>> /\ doubt \subseteq doubt'
    BY <1>1 DEF MatchInv, Waits
  <2>2. CASE d = c
    <3>1. /\ pc'[d] \in Deciding => pc[d] \in Deciding
          /\ job'[d].room = job[d].room /\ job'[d].user = job[d].user
      BY <1>1, <1>4, <2>2
    <3> QED BY <2>1, <3>1 DEF Awaited, WaitedFor
  <2>3. CASE d # c
    <3>1. pc'[d] = pc[d] /\ job'[d] = job[d]
      BY <1>1, <2>3
    <3> QED BY <2>1, <3>1 DEF Awaited, WaitedFor
  <2> QED BY <2>2, <2>3
<1>6. ASSUME NEW s \in Rooms, line[s] = c
      PROVE  /\ s = r /\ door[s].ask \in Names /\ Upper[door[s].ask] = u
             /\ door[s].heard = "nothing" /\ c # None
  BY <1>1, <1>6, TapAssumption DEF MatchInv, DoorInv, LineState, AskedBy
<1>7. ASSUME NEW s \in Rooms, line[s] # c, NEW v PROVE Owed(s, v)' <=> Owed(s, v)
  <2>1. line[s] # None => line[s] \in Conns \ {c}
    BY <1>7, OwedOnLine DEF MatchInv
  <2> QED BY <1>1, <2>1, OwedElsewhere
<1>8. ASSUME NEW s \in Rooms, NEW v \in Users, s # r \/ v # u PROVE Balance(s, v)'
  <2>1. Working(s, v)' <=> Working(s, v)
    BY <1>1, <1>8 DEF Working
  <2>2. Owed(s, v)' <=> Owed(s, v)
    <3>1. CASE line[s] = c
      BY <1>1, <1>6, <1>8, <3>1 DEF Owed
    <3> QED BY <1>7, <3>1
  <2>3. v \in Inside(s)' <=> v \in Inside(s)
    BY <1>3, <1>8
  <2> QED BY <1>1, <2>1, <2>2, <2>3 DEF MatchInv, Balanced, Balance
<1>9. Balance(r, u)'
  <2> SUFFICES ASSUME <<r, u>> \notin doubt' PROVE Balance(r, u)'
    BY DEF Balance
  <2>0. <<r, u>> \notin doubt /\ Single(r, u)
    BY <1>1 DEF MatchInv, Unmixed
  <2>1. /\ Working(r, u) <=> pc[c] \in Recording
        /\ Working(r, u)' <=> pc'[c] \in Recording
    <3>1. ASSUME NEW d \in Conns \ {c}, pc[d] \in Recording
          PROVE  job[d].room # r \/ job[d].user # u
      <4>1. Busy(c, r, u) /\ (job[d].room = r /\ job[d].user = u => Busy(d, r, u))
        BY <1>1, <3>1, UnderWay DEF MatchInv, Busy, Active
      <4> QED BY <2>0, <4>1 DEF Single
    <3> QED BY <1>1, <3>1 DEF Working
  <2>2. CASE pc[c] = "send_allowed"
    <3>1. pc[c] \in Deciding /\ pc[c] \notin Recording
      BY <2>2 DEF Deciding, Recording
    <3>2. job[c].reply = "none"
      BY <3>1 DEF MatchInv, IsolatedInv, VisitsInv, Admitted, AdmittedOK
    <3>3. job'[c].reply = "230 Allowed"
      BY <1>4, <2>2
    <3>4. line[r] = c
      BY <2>0, <3>1 DEF MatchInv, Waits, Awaited, WaitedFor
    <3>5. line[r] = c => ~Owed(r, u) /\ Owed(r, u)'
      BY <1>1, <1>6, <3>2, <3>3 DEF Owed, Answered
    <3> QED BY <1>1, <1>3, <1>4, <2>1, <2>2, <3>1, <3>4, <3>5 DEF MatchInv, Balanced, Balance
  <2>3. CASE pc[c] # "send_allowed"
    <3>1. Owed(r, u)' <=> Owed(r, u)
      <4>1. CASE line[r] = c
        BY <1>1, <1>4, <1>6, <2>3, <4>1 DEF Owed, Answered
      <4> QED BY <1>1, <1>7, <4>1
    <3> QED BY <1>1, <1>3, <1>4, <2>1, <2>3, <3>1 DEF MatchInv, Balanced, Balance
  <2> QED BY <2>2, <2>3
<1> QED BY <1>5, <1>8, <1>9 DEF Waits, Balanced

(* A call fails: the tap is in doubt. *)
LEMMA FailureMatches ==
  ASSUME MatchInv, NEW c \in Conns, ServerFails(c), NEW r, NEW u,
         r = job[c].room, u = job[c].user
  PROVE  Waits' /\ Balanced'
<1>1. /\ UNCHANGED <<log, door, line, frame, visits>> /\ doubt' = doubt \cup {<<r, u>>}
      /\ pc[c] \in Calls /\ pc' = [pc EXCEPT ![c] = "died"]
      /\ job' = [job EXCEPT ![c] = Over(job[c])]
  BY DEF ServerFails, CallFails, Active
<1>2. /\ job \in [Conns -> Job] /\ pc \in [Conns -> Calls \cup Ended] /\ frame[c] = None
  BY <1>1, UnderWay DEF MatchInv, DoorInv, TapInv, SafetyInv, ServerTypeOK
<1>3. /\ \A d \in Conns \ {c} : pc'[d] = pc[d] /\ job'[d] = job[d]
      /\ pc'[c] = "died" /\ job'[c].reply = job[c].reply
  BY <1>1, <1>2 DEF Over, NewJob
<1>4. "died" \notin Deciding \cup Recording
  BY DEF Deciding, Recording
<1>5. ASSUME NEW d \in Conns PROVE Awaited(d)'
  BY <1>1, <1>2, <1>3, <1>4 DEF MatchInv, Waits, Awaited, WaitedFor
<1>6. ASSUME NEW s \in Rooms, NEW v \in Users, <<s, v>> \notin doubt' PROVE Balance(s, v)'
  <2>1. s # r \/ v # u
    BY <1>1, <1>6
  <2>2. Working(s, v)' <=> Working(s, v)
    BY <1>3, <1>4, <2>1 DEF Working
  <2>3. line[s] # None => line[s] \in Conns
    BY OwedOnLine DEF MatchInv
  <2>4. Owed(s, v)' <=> Owed(s, v)
    BY <1>1, <1>3, <2>3, OwedElsewhere
  <2>5. v \in Inside(s)' <=> v \in Inside(s)
    BY <1>1 DEF Inside, OpenVisits
  <2> QED BY <1>1, <2>2, <2>4, <2>5 DEF MatchInv, Balanced, Balance
<1>7. \A s \in Rooms, v \in Users : <<s, v>> \in doubt' => Balance(s, v)'
  BY DEF Balance
<1> QED BY <1>5, <1>6, <1>7 DEF Waits, Balanced

(* At the start nobody is inside, nobody has tapped, nothing is owed.       *)
LEMMA InitMatch == DOMAIN Aliases = {} /\ TapInit => MatchInv
<1> SUFFICES ASSUME DOMAIN Aliases = {}, TapInit PROVE MatchInv
  OBVIOUS
<1>1. DoorInv
  BY InitDoor
<1>2. \A P : IsolatedInv(P)
  BY InitIsolated DEF TapInit
<1>3. \A r : Inside(r) = {}
  BY DEF TapInit, ServerInit, StoreInit, Inside, OpenVisits
<1>4. \A c \in Conns : /\ pc[c] = "idle" /\ frame[c] = None
                       /\ pc[c] \notin Deciding \cup Recording
  BY DEF TapInit, ServerInit, Deciding, Recording
<1>5. Waits
  BY <1>4 DEF Waits, Awaited
<1>6. ASSUME NEW r \in Rooms, NEW u \in Users PROVE Balance(r, u)
  <2>1. ~Owed(r, u)
    BY <1>1, NothingOwed DEF TapInit, Lock!DoorInit
  <2>2. ~Working(r, u)
    BY <1>4 DEF Working
  <2> QED BY <1>3, <2>1, <2>2 DEF Balance, TapInit
<1>7. \A r \in Rooms, u \in Users : Unmixed(r, u)
  BY <1>2, <1>4 DEF Unmixed, Single, Busy, Active, Calls
<1> QED BY <1>1, <1>2, <1>5, <1>6, <1>7 DEF MatchInv, Balanced

(* Every step of the system keeps log and doors in balance. *)
LEMMA NextMatch == MatchInv /\ [TapNext]_systemVars => MatchInv'
<1> SUFFICES ASSUME MatchInv, [TapNext]_systemVars PROVE MatchInv'
  OBVIOUS
<1>1. DoorInv'
  BY NextDoor DEF MatchInv
<1>2. IsolatedInv({})' /\ \A r \in Rooms, u \in Users : Unmixed(r, u)'
  BY NextUnmixed
<1>3. Waits' /\ Balanced'
  <2>1. ASSUME NEW r \in Rooms, NEW text \in Names, NEW c \in Conns, AskServer(r, text, c)
        PROVE  Waits' /\ Balanced'
    BY <2>1, AskMatches
  <2>2. ASSUME NEW r \in Rooms, HearAnswer(r) \/ HangUp(r) \/ Act(r) \/ Outage(r)
        PROVE  Waits' /\ Balanced'
    BY <2>2, HearMatches, GiveUpMatches, ActMatches
  <2>3. ASSUME NEW c \in Conns, Deliver(c) \/ ServerRuns(c) \/ ServerFails(c)
        PROVE  Waits' /\ Balanced'
    BY <2>3, DeliverMatches, RunMatches, FailureMatches
  <2>4. CASE UNCHANGED systemVars
    <3>1. UNCHANGED <<log, pc, job, door, line, frame, visits, doubt>>
      BY <2>4 DEF systemVars, serverVars, tapVars
    <3>2. Waits'
      BY <3>1 DEF MatchInv, Waits, Awaited, WaitedFor
    <3>3. UNCHANGED serverVars /\ \A r, u : Owed(r, u)' <=> Owed(r, u)
      BY <2>4, <3>1 DEF Owed, Answered, systemVars
    <3> QED BY <3>1, <3>2, <3>3, LockBalances DEF MatchInv
  <2> QED BY <2>1, <2>2, <2>3, <2>4 DEF TapNext
<1> QED BY <1>1, <1>2, <1>3 DEF MatchInv

(* When nothing is under way for a pair there is nothing to account for.    *)
LEMMA BalanceAtRest == MatchInv => DoorMatchesLog
<1> SUFFICES ASSUME MatchInv, NEW r \in Rooms, NEW u \in Users, AtRest(r, u),
                    <<r, u>> \notin doubt
    PROVE u \in Inside(r) <=> <<r, u>> \in visits
  BY DEF DoorMatchesLog
<1>1. ~Owed(r, u)
  BY DEF AtRest, Tap, Owed
<1>2. ~Working(r, u)
  BY UnderWay DEF MatchInv, AtRest, Working, Busy, Active
<1> QED BY <1>1, <1>2 DEF MatchInv, Balanced, Balance

(* A door agrees with the log about everybody at rest there none of whose   *)
(* taps was given up by the lock, ended by a failing call or by two days in *)
(* the room, or came while the server was busy with that person's tap       *)
(* before: for any number of locks, people and connections, whoever else   *)
(* taps at the same time, and whatever fails for them.  The exceptions are *)
(* facts about that person's own taps, and no assumption is made about the *)
(* time the server takes.  (Room numbers and cruzIDs are assumed to give    *)
(* every visit an ID of its own.)                                          *)
THEOREM DoorsMatchLog == DOMAIN Aliases = {} /\ TapSpec => []DoorMatchesLog
BY InitMatch, NextMatch, BalanceAtRest, PTL DEF TapSpec
===============================================================================
