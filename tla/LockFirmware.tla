----------------------------- MODULE LockFirmware -----------------------------
(***************************************************************************)
(* A lock: the main thread of empty.c, the Wi-Fi events it depends on, and  *)
(* the motor.  The thread works off at most one tap and then hibernates,    *)
(* which loses the memory: it wakes up in main().  pc names what the        *)
(* thread does next; the driver calls it makes are steps of Pn532.          *)
(***************************************************************************)
EXTENDS Pn532

CONSTANTS
  LongNames,      (* cruzIDs of ten characters and more                     *)
  FirstTen,       (* the first ten characters of each of them               *)
  FramePolls,     (* reads of the phone's answer before the tap is dropped  *)
  MAXATTEMPS      (* the retries of IsAllowed, spelt as in empty.h          *)

ASSUME FirmwareAssumption ==
  /\ LongNames \subseteq Names
  /\ DOMAIN FirstTen = LongNames
  /\ FramePolls \in Nat \ {0}
  /\ MAXATTEMPS \in Nat

VARIABLES
  pc,             (* the next statement of mainThread                       *)
  Status,         (* app_CB.Status: the bits that are set                   *)
  net,            (* the network processor: its Wi-Fi link, and its role,   *)
                  (* which it keeps without power                           *)
  cruzID,         (* cruzIDInputToCloud                                     *)
  count,          (* the loop counter that is live: timer or attempts       *)
  sock,           (* limited: the receive timeout is set; link: connected   *)
  sent,           (* the frame with the question has gone out               *)
  mail,           (* what there is to receive                               *)
  verdict,        (* what IsAllowed returned: 1, 0 or -1                    *)
  motor, bolt, light

wifiVars == <<Status, net>>
askVars == <<cruzID, count, sock, sent, mail, verdict>>
boltVars == <<motor, bolt, light>>
mainVars == <<pc, wifiVars, askVars, boltVars>>
lockVars == <<readerVars, mainVars>>

-----------------------------------------------------------------------------
(* The driver call made at each of these places. *)
Calling == [test |-> "test", sam |-> "ConfigureSAM", version |-> "GetFirmwareVersion",
            detect |-> "DetectPassiveTarget", phone |-> "InDataExchange"]

Places ==
  {"asleep", "boot", "await", "frame", "socket", "connect", "send", "resend", "recv",
   "returned", "unlocking", "open", "locking", "pause", "halted"} \cup DOMAIN Calling

NetState == [link : {"off", "connecting", "connected"}, role : {"STA", "AP"}]
SocketState == [limited : BOOLEAN, link : BOOLEAN]
NoSocket == [limited |-> FALSE, link |-> FALSE]

(* Without power nothing is left of the memory, and nothing moves. *)
Off ==
  /\ pc' = "asleep"
  /\ Status' = {}
  /\ net' = [net EXCEPT !.link = "off"]
  /\ cruzID' = Nothing
  /\ count' = 0
  /\ sock' = NoSocket
  /\ sent' = FALSE
  /\ mail' = "none"
  /\ verdict' = "none"
  /\ motor' = "off"
  /\ light' = "off"
  /\ drv' = Idle
  /\ UNCHANGED <<chip, field, presented>>

(* The LEDs go out and Power_shutdown(0, 3000) hibernates. *)
Hibernate ==
  /\ pc = "pause"
  /\ Off
  /\ UNCHANGED bolt

(* The battery is empty, or is changed; a bolt that is moving stops.        *)
PowerFails ==
  /\ pc # "asleep"
  /\ Off
  /\ bolt' \in IF motor = "off" THEN {bolt} ELSE {"locked", "unlocked"}

(* Pins and variables get their first values; the motor is not run.         *)
WakeUp ==
  /\ pc = "asleep"
  /\ pc' = "boot"
  /\ presented' = {}
  /\ UNCHANGED <<chip, field, drv, wifiVars, askVars, boltVars>>

(* StartWiFi: without a thread for the host driver it loops for ever; a     *)
(* network processor that cannot be configured is only reported.  It is     *)
(* made a station first if it is none, and may fail after that.             *)
StartWiFi ==
  /\ pc = "boot"
  /\ \/ pc' = "halted" /\ UNCHANGED net
     \/ pc' = "await" /\ net' = [link |-> "connecting", role |-> "STA"]
     \/ pc' = "await" /\ net' \in [link : {"off"}, role : {net.role, "STA"}]
  /\ UNCHANGED <<readerVars, Status, askVars, boltVars>>

(* SimpleLinkWlanEventHandler, in the thread of the host driver.  The one   *)
(* sl_WlanConnect is not repeated after a disconnect.                      *)
WlanConnect ==
  /\ net.link = "connecting"
  /\ net' = [net EXCEPT !.link = "connected"]
  /\ Status' = Status \cup {"CONNECTION"}
  /\ UNCHANGED <<readerVars, pc, askVars, boltVars>>

WlanDisconnect ==
  /\ net.link \in {"connecting", "connected"}
  /\ net' = [net EXCEPT !.link = "off"]
  /\ Status' = Status \ {"CONNECTION", "IP_ACQUIRED", "IPV6_ACQUIRED"}
  /\ UNCHANGED <<readerVars, pc, askVars, boltVars>>

(* while(Status != STATUS_BIT_IP_LEASED): the number of a bit is compared   *)
(* with the word of all bits, and 2, the number of IP_LEASED, is the word   *)
(* in which CONNECTION alone is set.                                       *)
Connected ==
  /\ pc = "await"
  /\ Status = {"CONNECTION"}
  /\ pc' = "test"
  /\ UNCHANGED <<readerVars, wifiVars, askVars, boltVars>>

-----------------------------------------------------------------------------
(* The reader.  What the three calls that set it up return is printed when  *)
(* all of them fail, and does not matter otherwise.                        *)

CallDriver ==
  /\ pc \in DOMAIN Calling
  /\ Invoke(Calling[pc])
  /\ UNCHANGED mainVars

Found == drv.result = "SUCCESS" /\ drv.read.body = "card"

(* Mutant: an error code is taken for the number of a card.                 *)
AfterCallUnchecked ==
  CASE pc = "test"    -> "sam"
    [] pc = "sam"     -> "version"
    [] pc = "version" -> "detect"
    [] pc = "detect"  -> "phone"
    [] pc = "phone"   -> IF drv.result = "SUCCESS" THEN "frame" ELSE "pause"

(* Every case of the switch that does not lead to another one leads, by the *)
(* end of the loop, to hibernation.                                        *)
AfterCall ==
  CASE pc = "test"    -> "sam"
    [] pc = "sam"     -> "version"
    [] pc = "version" -> "detect"
    [] pc = "detect"  -> IF Found THEN "phone" ELSE "pause"
    [] pc = "phone"   -> IF drv.result = "SUCCESS" THEN "frame" ELSE "pause"

ReturnFromDriver ==
  /\ pc \in DOMAIN Calling
  /\ drv.at = "returned"
  /\ pc' = AfterCall
  /\ drv' = Idle
  /\ UNCHANGED <<chip, field, presented, wifiVars, askVars, boltVars>>

(* What is sent for one of these may be the other.                          *)
Alike(id, other) ==
  id = other \/ ({id, other} \subseteq LongNames /\ FirstTen[id] = FirstTen[other])

(* Ten characters are copied, or fewer when a '!' comes before.  Without it  *)
(* the text goes on until memory happens to hold a zero: at once, which     *)
(* makes it somebody's whose cruzID these ten characters are, after what is *)
(* the rest of somebody's cruzID, or after what belongs to none.            *)
Copied(text) ==
  IF text \in LongNames
  THEN {other \in LongNames : Alike(text, other)} \cup {Garbage}
  ELSE {text}

(* CORRECTFRAME reads, ready or not, until there is an answer to the data   *)
(* exchange.  The error code in the answer is not looked at.               *)
FrameRead ==
  /\ pc = "frame"
  /\ FrameCheck(chip.ready, "INDATAEXCHANGE")
  /\ chip' = Taken
  /\ cruzID' \in Copied(chip.ready.body)
  /\ pc' = "socket"
  /\ count' = 0
  /\ UNCHANGED <<field, presented, drv, wifiVars, sock, sent, mail, verdict, boltVars>>

(* Nothing was ready, or something else was, or the transfer failed. *)
FrameMissed ==
  /\ pc = "frame"
  /\ chip' \in {chip} \cup (IF FrameCheck(chip.ready, "INDATAEXCHANGE") THEN {} ELSE {Taken})
  /\ IF count + 1 < FramePolls
     THEN count' = count + 1 /\ UNCHANGED pc
     ELSE count' = 0 /\ pc' = "pause"
  /\ UNCHANGED <<field, presented, drv, wifiVars, cruzID, sock, sent, mail, verdict, boltVars>>

-----------------------------------------------------------------------------
(* The question: the case INTERNET, and IsAllowed. *)

(* Without a socket mainThread returns, and nothing else would ever act.  A *)
(* receive timeout that cannot be set is only reported.                    *)
OpenSocket ==
  /\ pc = "socket"
  /\ \/ pc' = "halted" /\ UNCHANGED sock
     \/ /\ pc' = "connect"
        /\ \E limited \in BOOLEAN : sock' = [NoSocket EXCEPT !.limited = limited]
  /\ UNCHANGED <<readerVars, wifiVars, cruzID, count, sent, mail, verdict, boltVars>>

(* IsAllowed closes the socket and returns. *)
Return(answer) ==
  /\ pc' = "returned"
  /\ verdict' = answer
  /\ count' = 0
  /\ sock' = NoSocket

(* Only "already connecting" is tried again; after any other error the      *)
(* frame is sent all the same.                                             *)
Connect ==
  /\ pc = "connect"
  /\ IF count > MAXATTEMPS
     THEN Return("failed")
     ELSE /\ \/ pc' = "connect" /\ count' = count + 1 /\ UNCHANGED sock
             \/ /\ pc' = "send" /\ count' = 0
                /\ \E link \in BOOLEAN : sock' = [sock EXCEPT !.link = link]
          /\ UNCHANGED verdict
  /\ UNCHANGED <<readerVars, wifiVars, cruzID, sent, mail, boltVars>>

Send ==
  /\ pc = "send"
  /\ sent' \in {FALSE, sock.link}
  /\ pc' = IF sent' THEN "recv" ELSE "resend"
  /\ UNCHANGED <<readerVars, wifiVars, cruzID, count, sock, mail, verdict, boltVars>>

(* Mutant: the attempts are counted down.                                  *)
ResendCountsDown ==
  /\ pc = "resend"
  /\ sent' \in {FALSE, sock.link}
  /\ IF count < -MAXATTEMPS
     THEN Return("failed")
     ELSE /\ pc' = IF sent' THEN "recv" ELSE "resend"
          /\ count' = count - 1
          /\ UNCHANGED <<sock, verdict>>
  /\ UNCHANGED <<readerVars, wifiVars, cruzID, mail, boltVars>>

(* The attempts are counted after the send: the last of them is given up    *)
(* even when it has succeeded.                                             *)
Resend ==
  /\ pc = "resend"
  /\ sent' \in {FALSE, sock.link}
  /\ IF count > MAXATTEMPS
     THEN Return("failed")
     ELSE /\ pc' = IF sent' THEN "recv" ELSE "resend"
          /\ count' = count + 1
          /\ UNCHANGED <<sock, verdict>>
  /\ UNCHANGED <<readerVars, wifiVars, cruzID, mail, boltVars>>

(* The server answers, or closes the connection without a word.             *)
MailArrives ==
  /\ pc = "recv"
  /\ mail = "none"
  /\ mail' \in {"230 Allowed", "430 Denied", "other"}
  /\ UNCHANGED <<readerVars, pc, wifiVars, cruzID, count, sock, sent, verdict, boltVars>>

(* Mutant: the receive timeout is not used.                                 *)
RecvPatient ==
  /\ pc = "recv"
  /\ mail # "none"
  /\ Return(CASE mail = "230 Allowed" -> "allowed"
              [] mail = "430 Denied"  -> "denied"
              [] OTHER                -> "failed")
  /\ UNCHANGED <<readerVars, wifiVars, cruzID, sent, mail, boltVars>>

(* Any text that is neither of the two counts as no answer, and so does the *)
(* end of the receive timeout.                                             *)
Recv ==
  /\ pc = "recv"
  /\ mail # "none" \/ sock.limited
  /\ Return(CASE mail = "230 Allowed" -> "allowed"
              [] mail = "430 Denied"  -> "denied"
              [] OTHER                -> "failed")
  /\ UNCHANGED <<readerVars, wifiVars, cruzID, sent, mail, boltVars>>

(* The connection breaks. *)
RecvFails ==
  /\ pc = "recv"
  /\ Return("failed")
  /\ UNCHANGED <<readerVars, wifiVars, cruzID, sent, mail, boltVars>>

-----------------------------------------------------------------------------
(* The answer is acted on: MotorControl runs the motor for a second. *)

Judge ==
  /\ pc = "returned"
  /\ IF verdict = "allowed"
     THEN pc' = "unlocking" /\ light' = "green" /\ motor' = "ccw"
     ELSE pc' = "pause" /\ light' = "red" /\ UNCHANGED motor
  /\ UNCHANGED <<readerVars, wifiVars, askVars, bolt>>

(* Mutant: the second MotorControl is left out.                             *)
TurnOnce(from, to, b) ==
  /\ pc = from
  /\ pc' = "pause"
  /\ motor' = "off"
  /\ bolt' = b
  /\ UNCHANGED <<readerVars, wifiVars, askVars, light>>

Turn(from, to, b) ==
  /\ pc = from
  /\ pc' = to
  /\ motor' = "off"
  /\ bolt' = b
  /\ UNCHANGED <<readerVars, wifiVars, askVars, light>>

StartLocking ==
  /\ pc = "open"
  /\ pc' = "locking"
  /\ motor' = "cw"
  /\ UNCHANGED <<readerVars, wifiVars, askVars, bolt, light>>

-----------------------------------------------------------------------------
MainThread ==
  \/ StartWiFi \/ Connected
  \/ CallDriver \/ (DriverStep /\ UNCHANGED mainVars) \/ ReturnFromDriver
  \/ FrameRead \/ FrameMissed
  \/ OpenSocket \/ Connect \/ Send \/ Resend \/ Recv
  \/ Judge \/ Turn("unlocking", "open", "unlocked")
  \/ StartLocking \/ Turn("locking", "pause", "locked")
  \/ Hibernate

Surroundings ==
  \/ WakeUp \/ PowerFails
  \/ WlanConnect \/ WlanDisconnect \/ MailArrives \/ RecvFails
  \/ (HoldSomething \/ ChipAnswers) /\ UNCHANGED mainVars

LockInit ==
  /\ ReaderInit
  /\ pc = "asleep"
  /\ Status = {}
  /\ net \in [link : {"off"}, role : {"STA", "AP"}]
  /\ cruzID = Nothing
  /\ count = 0
  /\ sock = NoSocket
  /\ sent = FALSE
  /\ mail = "none"
  /\ verdict = "none"
  /\ motor = "off"
  /\ bolt = "locked"
  /\ light = "off"

LockNext == MainThread \/ Surroundings

(* The only thread of the application runs whenever it can.  Phones, access *)
(* point, server and chip may stay silent for ever, and the power may last. *)
LockSpec == LockInit /\ [][LockNext]_lockVars /\ WF_lockVars(MainThread)

-----------------------------------------------------------------------------
(* Properties. *)

(* The variables of the lock keep their types.                              *)
LockTypeOK ==
  /\ ReaderTypeOK
  /\ pc \in Places
  /\ Status \subseteq {"CONNECTION"}
  /\ net \in NetState
  /\ cruzID \in Texts \cup {Nothing}
  /\ count \in Nat
  /\ sock \in SocketState
  /\ sent \in BOOLEAN
  /\ mail \in {"none", "230 Allowed", "430 Denied", "other"}
  /\ verdict \in {"none", "allowed", "denied", "failed"}
  /\ motor \in {"off", "ccw", "cw"}
  /\ bolt \in {"locked", "unlocked"}
  /\ light \in {"off", "green", "red"}

(* The lock asks for nobody whose phone has not been held to it since it    *)
(* woke up: although the chip keeps answers across a restart, although no   *)
(* acknowledgement is ever rejected, and whichever transfers fail, an       *)
(* answer left over from an earlier person never becomes the question.  It  *)
(* may be somebody else's whose cruzID begins with the same ten characters. *)
AsksForWhoIsThere ==
  sent /\ cruzID \in Names => \E id \in presented : Alike(cruzID, id)

(* Every wake-up ends in hibernation, with four exceptions, in which the    *)
(* lock is dead until its power is cycled: Wi-Fi that does not come, or     *)
(* went away before it was noticed; a main thread that has ended; a reader  *)
(* that does not acknowledge while the counter meant to end the wait was    *)
(* never initialised; a silent server when the timeout could not be set.    *)
Stuck ==
  \/ pc = "halted"
  \/ pc = "await" /\ Status = {}
  \/ pc = "phone" /\ drv.at = "wait_ack" /\ drv.timer = Forever /\ chip.ready = NoFrame
  \/ pc = "recv" /\ ~sock.limited /\ mail = "none"

SleepsAgain == []<>(pc = "asleep") \/ <>[]Stuck

(* The lock as Door sees it: what it waits for, hears and does about it.    *)
Heard ==
  IF ~sent \/ pc = "returned" \/ verdict = "none" THEN "nothing"
  ELSE IF pc = "pause" /\ verdict = "allowed" THEN "served" ELSE verdict

DoorView ==
  [l \in {"lock"} |->
     [ask |-> IF sent THEN cruzID ELSE Nothing, bolt |-> bolt, heard |-> Heard]]

Promise == INSTANCE Door WITH
  Locks <- {"lock"}, IDs <- Texts, NoID <- Nothing, door <- DoorView

(* The firmware is a Door: it opens only on the answer "allowed" to the     *)
(* question it has just sent, and relocks before anything else.            *)
ImplementsDoor == Promise!DoorSpec
=============================================================================
