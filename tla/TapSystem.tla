------------------------------- MODULE TapSystem -------------------------------
(***************************************************************************)
(* Locks and lock server together.  A lock is what Door promises (and the   *)
(* firmware is shown to keep); every room has one.  Between them are TCP    *)
(* connections: a question may still be under way, or lost, when its lock   *)
(* has given up waiting (empty.c: three seconds), and the server, which     *)
(* writes nothing to a lock but the answer, never learns whether the lock   *)
(* was still there to hear it.                                             *)
(*                                                                         *)
(* A lock asks one question at a time and sleeps between two of them, but   *)
(* nothing makes it wait for the bookkeeping of the server, which goes on   *)
(* after the answer: the server is LockServer without any isolation.        *)
(***************************************************************************)
EXTENDS LockServer

CONSTANTS
  Unterminated    (* cruzIDs that a lock sent without an end: what follows   *)
                  (* may be any bytes                                        *)

ASSUME TapAssumption ==
  /\ Unterminated \subseteq Names
  /\ None \notin Names \cup Conns
  /\ None \notin [room : Rooms, text : Names]

VARIABLES
  door,           (* the locks, as in Door                                  *)
  line,           (* the connection a lock waits at for an answer           *)
  patient,        (* the locks that wait without a timeout                  *)
  frame,          (* the question on a connection that is not received yet  *)
  asked,          (* questions so far; BOUND: MaxRequests, as for the server *)
  visits,         (* history: <<room, user>> whose last door opening was in *)
  doubt           (* history: <<room, user>> after a tap that went wrong    *)

tapVars == <<door, line, patient, frame, asked, visits, doubt>>
systemVars == <<serverVars, tapVars>>

Lock == INSTANCE Door WITH Locks <- Rooms, IDs <- Names, NoID <- None

-----------------------------------------------------------------------------
(* The connection carries a question of r about u, or a thread works on one. *)
Busy(c, r, u) ==
  \/ frame[c] # None /\ frame[c].room = r /\ Upper[frame[c].text] = u
  \/ Active(c) /\ job[c].room = r /\ job[c].user = u

(* A connection nobody uses any more. *)
Free(c) ==
  /\ pc[c] \in Ended
  /\ frame[c] = None
  /\ \A r \in Rooms : line[r] # c

(* The tap at the lock of r, if there is one, as room and person.           *)
Tap(r) == {<<r, Upper[name]>> : name \in {n \in Names : door[r].ask = n}}

(* The lock of r closes its connection.  A question on it that has not been *)
(* received may get lost with it.                                          *)
Closes(r) ==
  /\ line' = [line EXCEPT ![r] = None]
  /\ patient' = patient \ {r}
  /\ IF line[r] = None
     THEN UNCHANGED frame
     ELSE frame' \in {frame, [frame EXCEPT ![line[r]] = None]}

(* That the timeout of the socket cannot be set is printed, no more.  A tap *)
(* of somebody whose last tap here the server is still busy with is one     *)
(* that may go wrong.                                                      *)
AskServer(r, text, c) ==
  /\ Lock!Ask(r, text)
  /\ Free(c)
  /\ asked < MaxRequests
  /\ asked' = asked + 1
  /\ line' = [line EXCEPT ![r] = c]
  /\ patient' \in {patient, patient \cup {r}}
  /\ frame' = [frame EXCEPT ![c] = [room |-> r, text |-> text]]
  /\ doubt' = doubt \cup
       {p \in {<<r, Upper[text]>>} : \E d \in Conns : Busy(d, r, Upper[text])}
  /\ UNCHANGED <<serverVars, visits>>

(* The accept loop: a thread of its own for every connection.  Bytes that   *)
(* follow a cruzID without an end may be no UTF-8; if they are, they belong *)
(* to the cruzID that is looked up.                                        *)
Deliver(c) ==
  /\ frame[c] # None
  /\ \/ ReceiveLogin(c, frame[c].text, frame[c].room)
     \/ ReceiveUnsplittable(c, frame[c].text, frame[c].room)
     \/ frame[c].text \in Unterminated /\ ReceiveGarbage(c, "430 Denied")
  /\ frame' = [frame EXCEPT ![c] = None]
  /\ UNCHANGED <<door, line, patient, asked, visits, doubt>>

(* Mutant: whatever was answered on the connection before is heard.         *)
AnsweredEarly(c) == job[c].reply # "none"

(* The question of the connection has been answered; what a thread answered *)
(* earlier went to a connection that is closed.                            *)
Answered(c) == frame[c] = None /\ job[c].reply # "none"

(* Mutant: what was received is not compared with ALLOWED and DENIED.       *)
HearText(r) ==
  /\ line[r] # None
  /\ Answered(line[r])
  /\ Lock!Hear(r, job[line[r]].reply)
  /\ line' = [line EXCEPT ![r] = None]
  /\ patient' = patient \ {r}
  /\ UNCHANGED <<serverVars, frame, asked, visits, doubt>>

HearAnswer(r) ==
  /\ line[r] # None
  /\ Answered(line[r])
  /\ \E answer \in {"allowed", "denied", "failed"} :
       /\ answer = "allowed" <=> job[line[r]].reply = "230 Allowed"
       /\ answer = "denied" <=> job[line[r]].reply = "430 Denied"
       /\ Lock!Hear(r, answer)
  /\ line' = [line EXCEPT ![r] = None]
  /\ patient' = patient \ {r}
  /\ UNCHANGED <<serverVars, frame, asked, visits, doubt>>

(* Mutant: a server that has received the question is waited for.           *)
HangUpUnlessReceived(r) ==
  /\ line[r] # None
  /\ frame[line[r]] # None
  /\ Lock!Hear(r, "failed")
  /\ Closes(r)
  /\ doubt' = doubt \cup Tap(r)
  /\ UNCHANGED <<serverVars, asked, visits>>

(* The lock gives up: the timeout of recv, or an error of connect, send or  *)
(* recv.  The last attempt to send is given up even when it has succeeded.  *)
HangUp(r) ==
  /\ line[r] # None
  /\ Lock!Hear(r, "failed")
  /\ Closes(r)
  /\ doubt' = doubt \cup Tap(r)
  /\ UNCHANGED <<serverVars, asked, visits>>

(* The bolt turns back behind a person: on the way in if that person's last *)
(* passage was not, on the way out otherwise.                              *)
Relock(r) ==
  /\ Lock!Relock(r)
  /\ visits' = (visits \cup Tap(r)) \ (visits \cap Tap(r))
  /\ UNCHANGED <<serverVars, line, patient, frame, asked, doubt>>

Act(r) ==
  \/ /\ Lock!Unlock(r) \/ Lock!Finish(r)
     /\ UNCHANGED <<serverVars, line, patient, frame, asked, visits, doubt>>
  \/ Relock(r)

(* The power of a lock fails. *)
Outage(r) ==
  /\ Lock!Outage(r)
  /\ Closes(r)
  /\ doubt' = IF door[r].heard = "served" THEN doubt ELSE doubt \cup Tap(r)
  /\ UNCHANGED <<serverVars, asked, visits>>

(* The way out of somebody who has spent two days in the room raises.       *)
ServerRuns(c) ==
  /\ Run(c)
  /\ doubt' = doubt \cup {p \in {<<job[c].room, job[c].user>>} : TwoDays(c)}
  /\ UNCHANGED <<door, line, patient, frame, asked, visits>>

ServerFails(c) ==
  /\ CallFails(c)
  /\ doubt' = doubt \cup {<<job[c].room, job[c].user>>}
  /\ UNCHANGED <<door, line, patient, frame, asked, visits>>

-----------------------------------------------------------------------------
TapInit ==
  /\ ServerInit
  /\ Lock!DoorInit
  /\ line = [r \in Rooms |-> None]
  /\ patient = {}
  /\ frame = [c \in Conns |-> None]
  /\ asked = 0
  /\ visits = {}
  /\ doubt = {}

TapNext ==
  \/ \E r \in Rooms :
       \/ \E text \in Names, c \in Conns : AskServer(r, text, c)
       \/ HearAnswer(r) \/ HangUp(r) \/ Act(r) \/ Outage(r)
  \/ \E c \in Conns : Deliver(c) \/ ServerRuns(c) \/ ServerFails(c)

(* A lock that waits hears the answer that is there, or its timeout if that *)
(* is set, and acts on what it has heard.  Nobody has to tap, no network    *)
(* has to deliver, and nothing is asked of the server's threads.           *)
TapFairness ==
  \A r \in Rooms :
    /\ WF_tapVars(HearAnswer(r) \/ (r \notin patient /\ HangUp(r)))
    /\ WF_tapVars(Act(r))

TapSpec == TapInit /\ [][TapNext]_systemVars /\ TapFairness

-----------------------------------------------------------------------------
(* Properties. *)

(* The variables between locks and server keep their types.                 *)
TapTypeOK ==
  /\ door \in [Rooms -> Lock!DoorState]
  /\ line \in [Rooms -> Conns \cup {None}]
  /\ patient \subseteq {r \in Rooms : line[r] # None}
  /\ frame \in [Conns -> [room : Rooms, text : Names] \cup {None}]
  /\ asked \in 0..MaxRequests
  /\ visits \subseteq Rooms \X Users
  /\ doubt \subseteq Rooms \X Users

(* Whenever no lock and no thread is dealing with a tap of u at r, the log   *)
(* has u inside exactly if the door's last opening for u was on the way in, *)
(* whoever else taps there at the same time.  The server logs a visit       *)
(* whether or not the door opened, so this is so only while none of u's     *)
(* taps went wrong: none was given up by the lock or by the server, and     *)
(* none came while the server was busy with the one before, and the stays   *)
(* do not add up to the two days after which nobody is recorded leaving.   *)
(* After such a tap the two may disagree, and further taps keep them so.    *)
AtRest(r, u) ==
  /\ <<r, u>> \notin Tap(r)
  /\ \A c \in Conns : ~Busy(c, r, u)

DoorMatchesLog ==
  \A r \in Rooms, u \in Users :
    (AtRest(r, u) /\ <<r, u>> \notin doubt) => (u \in Inside(r) <=> <<r, u>> \in visits)

(* A lock opens only for somebody the access lists admit to its own room,   *)
(* whatever was answered late on the connections it used before, to itself  *)
(* or to another lock; or else for somebody whom empty columns let in.      *)
(* (The lists are not edited in this system.)                              *)
OpensForAuthorised ==
  \A r \in Rooms :
    door[r].heard = "allowed" =>
      /\ door[r].ask \in Names
      /\ \/ Authorised(r, Upper[door[r].ask])
         \/ EmptyColumns(r, Upper[door[r].ask])

(* A lock always comes back to waiting for a tap, whatever becomes of the   *)
(* server and of what is sent, unless the server is silent for ever and the *)
(* lock waits without a timeout.                                           *)
LocksComeBack ==
  \A r \in Rooms :
    \/ []<>(door[r].ask = None)
    \/ <>[](r \in patient /\ line[r] # None /\ ~Answered(line[r]))
=============================================================================
