-------------------------- MODULE LockFirmwareProofs --------------------------
(***************************************************************************)
(* What a lock does whatever transfers, commands, sockets and batteries     *)
(* fail, for any people, names, timeouts and numbers of attempts.          *)
(***************************************************************************)
EXTENDS LockFirmware, TLAPS

USE DEF Forever

(* Answers of the chip to a data exchange hold what a phone said.           *)
ReadyOK == chip.ready.cmd = "INDATAEXCHANGE" => chip.ready.body \in Texts

(* The answer that is ready, if it is one to a data exchange, was given     *)
(* since the lock woke up.                                                 *)
Fresh(ch, pr) == ch.ready.cmd = "INDATAEXCHANGE" => ch.ready.body \in pr

(* A driver call that has been made is the one of this place.               *)
DriverOK == drv = Idle \/ (pc \in DOMAIN Calling /\ drv.fn = Calling[pc])

(* Finding a card takes an answer from the chip, and with it whatever was   *)
(* left over from before.                                                  *)
LeftoversGone ==
  \/ pc \in {"phone", "frame"}
  \/ pc = "detect" /\ drv.at = "returned" /\ drv.result = "SUCCESS"
  => Fresh(chip, presented)

(* The text that is asked about; nothing of it survives a sleep.            *)
TextOK ==
  /\ pc = "asleep" => cruzID = Nothing
  /\ cruzID \in Names => \E id \in presented : Alike(cruzID, id)
  /\ pc \in {"socket", "connect", "send", "resend", "recv"} => cruzID \in Texts
  /\ sent => cruzID \in Texts

(* What IsAllowed has returned is acted on, and forgotten in the sleep; the *)
(* bolt is out, and the motor turns, only on the answer "allowed" to a      *)
(* question that was sent.                                                  *)
OutcomeOK ==
  /\ sent => pc \in {"recv", "returned", "unlocking", "open", "locking", "pause"}
  /\ pc = "recv" => sent
  /\ verdict # "none" => pc \in {"returned", "unlocking", "open", "locking", "pause"}
  /\ verdict \in {"none", "failed"} \/ sent
  /\ pc = "returned" \/ (pc = "pause" /\ sent) => verdict # "none"
  /\ pc \in {"unlocking", "open", "locking"} => verdict = "allowed"
  /\ pc \in {"open", "locking"} => bolt = "unlocked"
  /\ motor # "off" => pc \in {"unlocking", "locking"}

FirmwareInv ==
  /\ LockTypeOK
  /\ ReadyOK /\ DriverOK /\ LeftoversGone /\ TextOK /\ OutcomeOK

-----------------------------------------------------------------------------
(* The frames the driver handles. *)
LEMMA FrameTypes ==
  /\ NoFrame \in Frame /\ Ack \in Frame
  /\ \A cmd \in Commands, body \in Texts \cup {Nothing, "card", "small"} :
       Answer(cmd, body) \in Frame
  /\ Idle \in Driver
BY DEF NoFrame, Ack, Answer, Frame, Idle, Driver, Commands

(* Where the main thread can be. *)
LEMMA PlaceNames ==
  /\ DOMAIN Calling = {"test", "sam", "version", "detect", "phone"}
  /\ Places = {"asleep", "boot", "await", "frame", "socket", "connect", "send", "resend",
               "recv", "returned", "unlocking", "open", "locking", "pause", "halted",
               "test", "sam", "version", "detect", "phone"}
BY DEF Calling, Places

(* At the start the lock sleeps and its driver is idle. *)
LEMMA InitFirmware == LockInit => FirmwareInv
<1> SUFFICES ASSUME LockInit PROVE FirmwareInv
  OBVIOUS
<1>1. ReaderTypeOK
  BY FrameTypes DEF LockInit, ReaderInit, ReaderTypeOK
<1>2. LockTypeOK
  BY <1>1, PlaceNames DEF LockInit, LockTypeOK, NetState, SocketState, NoSocket
<1>3. ReadyOK /\ DriverOK /\ LeftoversGone /\ TextOK /\ OutcomeOK
  BY ReaderAssumption DEF LockInit, ReaderInit, ReadyOK, DriverOK, LeftoversGone, TextOK,
     OutcomeOK, NoFrame
<1> QED BY <1>2, <1>3 DEF FirmwareInv

(* The reader's steps leave the rest of the lock alone. *)
LEMMA MainStays ==
  ASSUME UNCHANGED mainVars, LockTypeOK, ReaderTypeOK'
  PROVE  /\ LockTypeOK' /\ UNCHANGED <<pc, cruzID, sent>>
         /\ OutcomeOK => OutcomeOK'
<1>1. /\ UNCHANGED <<pc, Status, net, cruzID, count, sock>>
      /\ UNCHANGED <<sent, mail, verdict, motor, bolt, light>>
  BY DEF mainVars, wifiVars, askVars, boltVars
<1>2. ReaderTypeOK' => LockTypeOK'
  BY <1>1 DEF LockTypeOK, ReaderTypeOK
<1>3. OutcomeOK => OutcomeOK'
  BY <1>1 DEF OutcomeOK
<1> QED BY <1>1, <1>2, <1>3

(* The chip answers, or something is held to it. *)
LEMMA ChipSteps ==
  ASSUME FirmwareInv, HoldSomething \/ ChipAnswers, UNCHANGED mainVars
  PROVE  FirmwareInv'
<1>1. CASE HoldSomething
  <2>1. ReaderTypeOK'
    BY <1>1 DEF HoldSomething, FirmwareInv, LockTypeOK, ReaderTypeOK
  <2>2. LockTypeOK' /\ OutcomeOK' /\ UNCHANGED <<pc, cruzID, sent>>
    BY <2>1, MainStays DEF FirmwareInv
  <2> QED BY <1>1, <2>2 DEF HoldSomething, FirmwareInv, ReadyOK, DriverOK, LeftoversGone,
             TextOK
<1>2. CASE ChipAnswers
  <2>1. PICK body \in Bodies :
          /\ chip' = [cmd |-> "none", ready |-> Answer(chip.cmd, body)]
          /\ presented' = IF chip.cmd = "INDATAEXCHANGE" THEN presented \cup {body} ELSE presented
    BY <1>2 DEF ChipAnswers
  <2>2. chip.cmd \in Commands
    BY <1>2 DEF ChipAnswers, FirmwareInv, LockTypeOK, ReaderTypeOK
  <2>3. /\ body \in Texts \cup {Nothing, "card", "small"}
        /\ chip.cmd = "INDATAEXCHANGE" => body \in Texts
    BY <2>2, ReaderAssumption DEF Bodies, Commands, Texts, FirmwareInv, LockTypeOK, ReaderTypeOK
  <2>8. Answer(chip.cmd, body) \in Frame
    BY <2>2, <2>3, FrameTypes
  <2>9. ReaderTypeOK'
    BY <1>2, <2>1, <2>3, <2>8 DEF FirmwareInv, LockTypeOK, ReaderTypeOK, ChipAnswers
  <2>4. LockTypeOK' /\ OutcomeOK' /\ UNCHANGED <<pc, cruzID, sent>>
    BY <2>9, MainStays DEF FirmwareInv
  <2>5. /\ chip'.ready.cmd = chip.cmd /\ chip'.ready.body = body
        /\ presented \subseteq presented' /\ (chip.cmd = "INDATAEXCHANGE" => body \in presented')
    BY <2>1 DEF Answer
  <2>6. ReadyOK' /\ LeftoversGone'
    BY <2>3, <2>5 DEF ReadyOK, LeftoversGone, Fresh
  <2>7. DriverOK' /\ TextOK'
    BY <1>2, <2>4, <2>5 DEF ChipAnswers, FirmwareInv, DriverOK, TextOK
  <2> QED BY <2>4, <2>6, <2>7 DEF FirmwareInv
<1> QED BY <1>1, <1>2

-----------------------------------------------------------------------------
(* The driver. *)
LEMMA ChipTypes ==
  ASSUME ReaderTypeOK
  PROVE  /\ Taken \in [cmd : Commands \cup {"none"}, ready : Frame]
         /\ Taken.ready = NoFrame
         /\ Limit \in Nat
         /\ Tick(drv.timer) \in Nat \cup {Forever}
BY FrameTypes, ReaderAssumption DEF ReaderTypeOK, Taken, Limit, Driver, Tick

(* The main loop calls the driver. *)
LEMMA CallStep ==
  ASSUME FirmwareInv, CallDriver
  PROVE  FirmwareInv'
<1>1. pc \in DOMAIN Calling /\ Calling[pc] \in DOMAIN Functions
  BY DEF CallDriver, Calling, Functions
<1>2. PICK t \in IF Calling[pc] = "InDataExchange" THEN {Forever} \cup 0..WaitTimeout ELSE {0} :
        drv' = [Idle EXCEPT !.fn = Calling[pc], !.at = "written", !.timer = t]
  BY DEF CallDriver, Invoke
<1>3. t \in Nat \cup {Forever}
  BY <1>2, ReaderAssumption
<1>4. drv' \in Driver /\ drv'.fn = Calling[pc] /\ drv'.at = "written"
  BY <1>1, <1>2, <1>3, FrameTypes DEF Driver, Idle
<1>5. /\ chip' \in {chip, [cmd |-> Functions[Calling[pc]], ready |-> Ack]}
      /\ UNCHANGED <<field, presented>>
  BY DEF CallDriver, Invoke
<1>6. Functions[Calling[pc]] \in Commands
  BY <1>1 DEF Functions, Commands
<1>7. chip' \in [cmd : Commands \cup {"none"}, ready : Frame]
  <2>1. chip \in [cmd : Commands \cup {"none"}, ready : Frame]
    BY DEF FirmwareInv, LockTypeOK, ReaderTypeOK
  <2>2. [cmd |-> Functions[Calling[pc]], ready |-> Ack]
          \in [cmd : Commands \cup {"none"}, ready : Frame]
    BY <1>6, FrameTypes
  <2> QED BY <1>5, <2>1, <2>2
<1>8. LockTypeOK' /\ OutcomeOK' /\ UNCHANGED <<pc, cruzID, sent>>
  BY <1>4, <1>5, <1>7, MainStays DEF CallDriver, FirmwareInv, LockTypeOK, ReaderTypeOK
<1>9. ReadyOK' /\ LeftoversGone'
  BY <1>4, <1>5, <1>8 DEF FirmwareInv, ReadyOK, LeftoversGone, Fresh, Ack
<1>10. DriverOK' /\ TextOK'
  BY <1>1, <1>4, <1>5, <1>8 DEF FirmwareInv, DriverOK, TextOK
<1> QED BY <1>8, <1>9, <1>10 DEF FirmwareInv

(* A step of the driver keeps the chip as it is or takes the frame from it, *)
(* and only an answer to the command that was sent is a success.            *)
LEMMA DriverStepKeeps ==
  ASSUME LockTypeOK, DriverOK, DriverStep
  PROVE  /\ ReaderTypeOK'
         /\ UNCHANGED <<field, presented>>
         /\ pc \in DOMAIN Calling /\ drv.fn = Calling[pc] /\ drv'.fn = drv.fn
         /\ chip' \in {chip, Taken}
         /\ (pc = "detect" /\ drv'.at = "returned" /\ drv'.result = "SUCCESS") => chip' = Taken
<1>1. ReaderTypeOK
  BY DEF LockTypeOK
<1>2. drv # Idle
  <2>1. drv.at \in {"written", "wait_ack", "wait_answer"}
    BY DEF DriverStep, FirstPoll, Poll, ReadAck, ReadAnswer
  <2> QED BY <2>1 DEF Idle
<1>3. pc \in DOMAIN Calling /\ drv.fn = Calling[pc]
  BY <1>2 DEF DriverOK
<1>4. CASE FirstPoll
  <2>1. PICK s \in StatusByte : drv' = [drv EXCEPT !.at = "wait_ack", !.seen = s]
    BY <1>4 DEF FirstPoll
  <2>2. s \in BOOLEAN
    BY <1>1, <2>1 DEF StatusByte, ReaderTypeOK, Driver
  <2>3. drv' \in Driver /\ drv'.fn = drv.fn /\ drv'.at = "wait_ack"
    BY <1>1, <2>1, <2>2 DEF ReaderTypeOK, Driver
  <2> QED BY <1>1, <1>3, <1>4, <2>3 DEF FirstPoll, ReaderTypeOK
<1>5. CASE Poll
  <2>1. CASE Tick(drv.timer) > Limit
    <3>1. drv' = [drv EXCEPT !.at = "returned", !.result = "error", !.read = NoFrame]
      BY <1>5, <2>1 DEF Poll, Returns
    <3>2. drv' \in Driver /\ drv'.fn = drv.fn /\ drv'.result = "error"
      BY <1>1, <3>1, FrameTypes DEF ReaderTypeOK, Driver
    <3> QED BY <1>1, <1>3, <1>5, <3>2 DEF Poll, ReaderTypeOK
  <2>2. CASE ~(Tick(drv.timer) > Limit)
    <3>1. PICK s \in StatusByte : drv' = [drv EXCEPT !.timer = Tick(drv.timer), !.seen = s]
      BY <1>5, <2>2 DEF Poll
    <3>2. s \in BOOLEAN
      BY <1>1, <3>1 DEF StatusByte, ReaderTypeOK, Driver
    <3>3. drv' \in Driver /\ drv'.fn = drv.fn /\ drv'.at = drv.at
      BY <1>1, <3>1, <3>2, ChipTypes DEF ReaderTypeOK, Driver
    <3>4. drv'.at # "returned"
      BY <1>5, <3>3 DEF Poll
    <3> QED BY <1>1, <1>3, <1>5, <3>3, <3>4 DEF Poll, ReaderTypeOK
  <2> QED BY <2>1, <2>2
<1>6. CASE ReadAck
  <2>1. chip' \in {chip, Taken} /\ UNCHANGED <<field, presented>>
    BY <1>6 DEF ReadAck
  <2>2. chip' \in [cmd : Commands \cup {"none"}, ready : Frame]
    BY <1>1, <2>1, ChipTypes DEF ReaderTypeOK
  <2>3. CASE drv.fn = "InDataExchange"
    <3>1. drv' = [drv EXCEPT !.at = "returned", !.result = "SUCCESS", !.read = NoFrame]
      BY <1>6, <2>3 DEF ReadAck, Returns
    <3>2. drv' \in Driver /\ drv'.fn = drv.fn
      BY <1>1, <3>1, FrameTypes DEF ReaderTypeOK, Driver
    <3>3. pc = "phone"
      BY <1>3, <2>3 DEF Calling
    <3> QED BY <1>1, <1>3, <2>1, <2>2, <3>2, <3>3 DEF ReaderTypeOK
  <2>4. CASE drv.fn # "InDataExchange"
    <3>1. PICK ok \in BOOLEAN :
            drv' = [drv EXCEPT !.at = "wait_answer", !.timer = 0, !.seen = ~ok]
      BY <1>6, <2>4 DEF ReadAck
    <3>2. drv' \in Driver /\ drv'.fn = drv.fn /\ drv'.at = "wait_answer"
      BY <1>1, <3>1 DEF ReaderTypeOK, Driver
    <3> QED BY <1>1, <1>3, <2>1, <2>2, <3>2 DEF ReaderTypeOK
  <2> QED BY <2>3, <2>4
<1>7. CASE ReadAnswer
  <2>1. chip' \in {chip, Taken} /\ UNCHANGED <<field, presented>>
    BY <1>7 DEF ReadAnswer
  <2>2. chip' \in [cmd : Commands \cup {"none"}, ready : Frame]
    BY <1>1, <2>1, ChipTypes DEF ReaderTypeOK
  <2>3. chip.ready \in Frame
    BY <1>1 DEF ReaderTypeOK
  <2>4. PICK r \in {"SUCCESS", "error"}, f \in Frame :
          drv' = [drv EXCEPT !.at = "returned", !.result = r, !.read = f]
    BY <1>7, <2>3, FrameTypes DEF ReadAnswer, Returns
  <2>5. drv' \in Driver /\ drv'.fn = drv.fn
    BY <1>1, <2>4 DEF ReaderTypeOK, Driver
  <2>6. pc = "detect" => drv.fn # "test"
    BY <1>3 DEF Calling
  <2>7. drv.fn # "test" =>
          chip' = Taken \/ drv' = [drv EXCEPT !.at = "returned", !.result = "error",
                                              !.read = NoFrame]
    BY <1>7 DEF ReadAnswer, Returns
  <2>8. pc = "detect" /\ drv'.result = "SUCCESS" => chip' = Taken
    BY <1>1, <2>6, <2>7 DEF ReaderTypeOK, Driver
  <2> QED BY <1>1, <1>3, <2>1, <2>2, <2>5, <2>8 DEF ReaderTypeOK
<1> QED BY <1>4, <1>5, <1>6, <1>7 DEF DriverStep

(* The driver goes on. *)
LEMMA DriverSteps ==
  ASSUME FirmwareInv, DriverStep, UNCHANGED mainVars
  PROVE  FirmwareInv'
<1>1. LockTypeOK /\ DriverOK
  BY DEF FirmwareInv
<1>2. /\ ReaderTypeOK'
      /\ UNCHANGED <<field, presented>>
      /\ pc \in DOMAIN Calling /\ drv.fn = Calling[pc] /\ drv'.fn = drv.fn
      /\ chip' \in {chip, Taken}
      /\ (pc = "detect" /\ drv'.at = "returned" /\ drv'.result = "SUCCESS") => chip' = Taken
  BY <1>1, DriverStepKeeps
<1>3. LockTypeOK' /\ OutcomeOK' /\ UNCHANGED <<pc, cruzID, sent>>
  BY <1>1, <1>2, MainStays DEF FirmwareInv
<1>4. Taken.ready = NoFrame
  BY <1>1, ChipTypes DEF LockTypeOK
<1>5. ReadyOK'
  BY <1>2, <1>4 DEF FirmwareInv, ReadyOK, NoFrame
<1>6. LeftoversGone'
  <2>1. CASE chip' = Taken
    BY <1>4, <2>1 DEF LeftoversGone, Fresh, NoFrame
  <2>2. CASE chip' = chip /\ chip' # Taken
    BY <1>2, <1>3, <2>2 DEF FirmwareInv, LeftoversGone, Fresh
  <2> QED BY <1>2, <2>1, <2>2
<1>7. DriverOK' /\ TextOK'
  BY <1>2, <1>3 DEF FirmwareInv, DriverOK, TextOK
<1> QED BY <1>3, <1>5, <1>6, <1>7 DEF FirmwareInv
-----------------------------------------------------------------------------
(* The main thread.  Most of its steps leave the reader alone and change a  *)
(* few of the variables: what is left to show of them is their types.       *)
LEMMA ReaderStays ==
  ASSUME UNCHANGED readerVars, ReaderTypeOK
  PROVE  ReaderTypeOK' /\ UNCHANGED <<chip, field, presented, drv>>
<1>1. UNCHANGED <<chip, field, presented, drv>>
  BY DEF readerVars
<1> QED BY <1>1 DEF ReaderTypeOK

(* Waking up, hibernating and losing power. *)
LEMMA SleepSteps ==
  ASSUME FirmwareInv, Hibernate \/ PowerFails \/ WakeUp
  PROVE  FirmwareInv'
<1> USE DEF FirmwareInv
<1>1. CASE Hibernate \/ PowerFails
  <2>1. Off /\ bolt' \in {"locked", "unlocked"}
    BY <1>1 DEF Hibernate, PowerFails, LockTypeOK
  <2>2. /\ pc' = "asleep" /\ Status' = {} /\ cruzID' = Nothing /\ count' = 0
        /\ sock' = NoSocket /\ sent' = FALSE /\ mail' = "none" /\ verdict' = "none"
        /\ motor' = "off" /\ light' = "off" /\ drv' = Idle
        /\ net' = [net EXCEPT !.link = "off"]
        /\ chip' = chip /\ field' = field /\ presented' = presented
    BY <2>1 DEF Off
  <2>3. ReaderTypeOK'
    BY <2>2, FrameTypes DEF ReaderTypeOK, LockTypeOK
  <2>4. net' \in NetState
    BY <2>2 DEF LockTypeOK, NetState
  <2>5. LockTypeOK'
    BY <2>1, <2>2, <2>3, <2>4, PlaceNames DEF LockTypeOK, SocketState, NoSocket
  <2>6. ReadyOK' /\ DriverOK' /\ LeftoversGone'
    BY <2>2 DEF ReadyOK, DriverOK, LeftoversGone
  <2>7. TextOK' /\ OutcomeOK'
    BY <2>2, ReaderAssumption DEF TextOK, OutcomeOK
  <2> QED BY <2>5, <2>6, <2>7
<1>2. CASE WakeUp
  <2>1. /\ pc = "asleep" /\ pc' = "boot" /\ presented' = {}
        /\ UNCHANGED <<chip, field, drv, Status, net, cruzID, count, sock>>
        /\ UNCHANGED <<sent, mail, verdict, motor, bolt, light>>
    BY <1>2 DEF WakeUp, wifiVars, askVars, boltVars
  <2>5. ReaderTypeOK'
    BY <2>1 DEF LockTypeOK, ReaderTypeOK
  <2>2. LockTypeOK'
    BY <2>1, <2>5, PlaceNames DEF LockTypeOK
  <2>3. ReadyOK' /\ DriverOK' /\ LeftoversGone'
    BY <2>1 DEF ReadyOK, DriverOK, LeftoversGone, Calling
  <2>4. TextOK' /\ OutcomeOK'
    BY <2>1, ReaderAssumption DEF TextOK, OutcomeOK
  <2> QED BY <2>2, <2>3, <2>4
<1> QED BY <1>1, <1>2

(* The Wi-Fi is brought up, or lost. *)
LEMMA WifiSteps ==
  ASSUME FirmwareInv, StartWiFi \/ WlanConnect \/ WlanDisconnect \/ Connected
  PROVE  FirmwareInv'
<1> USE DEF FirmwareInv
<1>1. /\ UNCHANGED readerVars
      /\ UNCHANGED <<cruzID, count, sock, sent, mail, verdict, motor, bolt, light>>
  BY DEF StartWiFi, WlanConnect, WlanDisconnect, Connected, askVars, boltVars
<1>2. ReaderTypeOK' /\ UNCHANGED <<chip, field, presented, drv>>
  BY <1>1, ReaderStays DEF LockTypeOK
<1>3. \/ pc' = pc
      \/ pc = "boot" /\ pc' \in {"halted", "await"}
      \/ pc = "await" /\ pc' = "test"
  BY DEF StartWiFi, WlanConnect, WlanDisconnect, Connected
<1>4. net' \in NetState
  <2>1. CASE StartWiFi
    <3>1. net \in NetState /\ net.role \in {"STA", "AP"}
      BY DEF LockTypeOK, NetState
    <3>2. CASE net' = net
      BY <3>1, <3>2
    <3>3. CASE net' = [link |-> "connecting", role |-> "STA"]
      BY <3>3 DEF NetState
    <3>4. CASE net' \in [link : {"off"}, role : {net.role, "STA"}]
      BY <3>1, <3>4 DEF NetState
    <3> QED BY <2>1, <3>2, <3>3, <3>4 DEF StartWiFi
  <2>2. CASE WlanConnect
    BY <2>2 DEF WlanConnect, LockTypeOK, NetState
  <2>3. CASE WlanDisconnect
    BY <2>3 DEF WlanDisconnect, LockTypeOK, NetState
  <2>4. CASE Connected
    BY <2>4 DEF Connected, wifiVars, LockTypeOK
  <2> QED BY <2>1, <2>2, <2>3, <2>4
<1>5. Status' \subseteq {"CONNECTION"}
  BY DEF StartWiFi, WlanConnect, WlanDisconnect, Connected, wifiVars, LockTypeOK
<1>9. pc' \in Places
  BY <1>3, PlaceNames DEF LockTypeOK
<1>6. LockTypeOK'
  BY <1>1, <1>2, <1>4, <1>5, <1>9 DEF LockTypeOK
<1>7. ReadyOK' /\ DriverOK' /\ LeftoversGone'
  BY <1>2, <1>3 DEF ReadyOK, DriverOK, LeftoversGone, Calling, Fresh
<1>8. TextOK' /\ OutcomeOK'
  BY <1>1, <1>2, <1>3 DEF TextOK, OutcomeOK
<1> QED BY <1>6, <1>7, <1>8

(* The main loop takes the result of the driver. *)
LEMMA ReturnStep ==
  ASSUME FirmwareInv, ReturnFromDriver
  PROVE  FirmwareInv'
<1> USE DEF FirmwareInv
<1>1. /\ pc \in {"test", "sam", "version", "detect", "phone"} /\ drv' = Idle
      /\ UNCHANGED <<chip, field, presented, Status, net, cruzID, count, sock>>
      /\ UNCHANGED <<sent, mail, verdict, motor, bolt, light>>
  BY DEF ReturnFromDriver, Calling, wifiVars, askVars, boltVars
<1>2. /\ pc' \in {"sam", "version", "detect", "phone", "frame", "pause"}
      /\ pc' = "phone" => pc = "detect" /\ drv.at = "returned" /\ drv.result = "SUCCESS"
      /\ pc' = "frame" => pc = "phone"
  <2>1. pc' = AfterCall /\ drv.at = "returned"
    BY DEF ReturnFromDriver
  <2>2. CASE pc = "test"
    BY <2>1, <2>2 DEF AfterCall
  <2>3. CASE pc = "sam"
    BY <2>1, <2>3 DEF AfterCall
  <2>4. CASE pc = "version"
    BY <2>1, <2>4 DEF AfterCall
  <2>5. CASE pc = "detect"
    BY <2>1, <2>5 DEF AfterCall, Found
  <2>6. CASE pc = "phone"
    BY <2>1, <2>6 DEF AfterCall
  <2> QED BY <1>1, <2>2, <2>3, <2>4, <2>5, <2>6
<1>7. ReaderTypeOK'
  BY <1>1, FrameTypes DEF LockTypeOK, ReaderTypeOK
<1>8. pc' \in Places
  BY <1>2, PlaceNames
<1>3. LockTypeOK'
  BY <1>1, <1>7, <1>8 DEF LockTypeOK
<1>4. ReadyOK' /\ DriverOK'
  BY <1>1 DEF ReadyOK, DriverOK
<1>5. LeftoversGone'
  BY <1>1, <1>2, FrameTypes DEF LeftoversGone, Fresh, Idle
<1>6. TextOK' /\ OutcomeOK'
  BY <1>1, <1>2 DEF TextOK, OutcomeOK
<1> QED BY <1>3, <1>4, <1>5, <1>6

(* The frame with the cruzID is read, or is not there. *)
LEMMA FrameSteps ==
  ASSUME FirmwareInv, FrameRead \/ FrameMissed
  PROVE  FirmwareInv'
<1> USE DEF FirmwareInv
<1>1. /\ pc = "frame" /\ pc' \in {"frame", "socket", "pause"}
      /\ chip' \in {chip, Taken} /\ count' \in Nat
      /\ UNCHANGED <<field, presented, drv, Status, net, sock>>
      /\ UNCHANGED <<sent, mail, verdict, motor, bolt, light>>
  <2>1. CASE FrameRead
    BY <2>1 DEF FrameRead, wifiVars, boltVars
  <2>2. CASE FrameMissed
    <3>1. chip' \in {chip, Taken} /\ count' \in {0, count + 1}
      BY <2>2 DEF FrameMissed
    <3>3. count \in Nat
      BY DEF LockTypeOK
    <3>2. count' \in Nat
      BY <3>1, <3>3
    <3> QED BY <2>2, <3>1, <3>2 DEF FrameMissed, wifiVars, boltVars
  <2> QED BY <2>1, <2>2
<1>2. /\ chip' \in [cmd : Commands \cup {"none"}, ready : Frame]
      /\ chip'.ready \in {chip.ready, NoFrame}
  BY <1>1, ChipTypes DEF LockTypeOK, ReaderTypeOK
<1>3. /\ cruzID' \in Texts \cup {Nothing}
      /\ cruzID' \in Names => \E id \in presented : Alike(cruzID', id)
      /\ pc' = "socket" => cruzID' \in Texts
  <2>1. CASE FrameRead
    <3>1. chip.ready.cmd = "INDATAEXCHANGE" /\ cruzID' \in Copied(chip.ready.body)
      BY <2>1 DEF FrameRead, FrameCheck
    <3>2. chip.ready.body \in Texts /\ chip.ready.body \in presented
      BY <1>1, <3>1 DEF ReadyOK, LeftoversGone, Fresh
    <3>3. /\ cruzID' \in LongNames \cup {chip.ready.body, Garbage}
          /\ cruzID' = Garbage \/ Alike(cruzID', chip.ready.body)
      BY <3>1 DEF Copied, Alike
    <3> QED BY <3>2, <3>3, ReaderAssumption, FirmwareAssumption DEF Texts
  <2>2. CASE FrameMissed
    BY <2>2 DEF FrameMissed, LockTypeOK, TextOK
  <2> QED BY <2>1, <2>2
<1>4. ReaderTypeOK'
  BY <1>1, <1>2 DEF LockTypeOK, ReaderTypeOK
<1>5. pc' \in Places
  BY <1>1, PlaceNames
<1>6. LockTypeOK'
  BY <1>1, <1>3, <1>4, <1>5 DEF LockTypeOK
<1>7. ReadyOK' /\ LeftoversGone'
  BY <1>1, <1>2 DEF ReadyOK, LeftoversGone, Fresh, NoFrame
<1>8. DriverOK'
  BY <1>1, PlaceNames DEF DriverOK
<1>9. TextOK' /\ OutcomeOK'
  BY <1>1, <1>3 DEF TextOK, OutcomeOK
<1> QED BY <1>6, <1>7, <1>8, <1>9

(* No call of the driver is under way while the server is asked.            *)
LEMMA DriverRests ==
  ASSUME LockTypeOK, DriverOK, UNCHANGED <<chip, field, presented, drv>>,
         pc \notin DOMAIN Calling, pc' \notin DOMAIN Calling \cup {"frame"},
         ReadyOK
  PROVE  ReaderTypeOK' /\ ReadyOK' /\ DriverOK' /\ LeftoversGone'
<1>1. drv = Idle
  BY DEF DriverOK
<1>2. ReaderTypeOK'
  BY DEF LockTypeOK, ReaderTypeOK
<1> QED BY <1>1, <1>2, PlaceNames DEF ReadyOK, DriverOK, LeftoversGone

(* The question goes out and its answer comes in. *)
LEMMA AskSteps ==
  ASSUME FirmwareInv,
         OpenSocket \/ Connect \/ Send \/ Resend \/ MailArrives \/ Recv \/ RecvFails
  PROVE  FirmwareInv'
<1> USE DEF FirmwareInv
<1>1. /\ UNCHANGED <<chip, field, presented, drv, Status, net, cruzID, motor, bolt, light>>
  BY DEF OpenSocket, Connect, Send, Resend, MailArrives, Recv, RecvFails, readerVars,
     wifiVars, boltVars
<1>2. /\ pc \in {"socket", "connect", "send", "resend", "recv"}
      /\ pc' \in {"connect", "send", "resend", "recv", "returned", "halted"}
      /\ pc = "recv" => pc' \in {"recv", "returned"} /\ sent' = sent
      /\ pc' = "recv" => sent' = TRUE
      /\ pc # "recv" /\ sent' => pc' \in {"recv", "returned"}
      /\ sent' \in BOOLEAN
      /\ pc' # "returned" => verdict' = verdict
      /\ pc' = "returned" => verdict' \in {"allowed", "denied", "failed"}
      /\ pc' = "returned" => verdict' = "failed" \/ (pc = "recv" /\ sent)
  <2>1. CASE OpenSocket
    BY <2>1 DEF OpenSocket, LockTypeOK, OutcomeOK
  <2>2. CASE Connect
    BY <2>2 DEF Connect, Return, LockTypeOK, OutcomeOK
  <2>3. CASE Send
    BY <2>3 DEF Send, LockTypeOK, OutcomeOK, SocketState
  <2>4. CASE Resend
    BY <2>4 DEF Resend, Return, LockTypeOK, OutcomeOK, SocketState
  <2>5. CASE MailArrives
    BY <2>5 DEF MailArrives, LockTypeOK, OutcomeOK
  <2>6. CASE Recv
    BY <2>6 DEF Recv, Return, LockTypeOK, OutcomeOK
  <2>7. CASE RecvFails
    BY <2>7 DEF RecvFails, Return, LockTypeOK, OutcomeOK
  <2> QED BY <2>1, <2>2, <2>3, <2>4, <2>5, <2>6, <2>7
<1>3. mail' \in {"none", "230 Allowed", "430 Denied", "other"}
  BY DEF OpenSocket, Connect, Send, Resend, MailArrives, Recv, RecvFails, LockTypeOK
<1>4. count' \in Nat
  <2>1. count' \in {count, 0, count + 1}
    BY DEF OpenSocket, Connect, Send, Resend, MailArrives, Recv, RecvFails, Return
  <2>2. count \in Nat
    BY DEF LockTypeOK
  <2> QED BY <2>1, <2>2
<1>5. sock' \in SocketState
  <2>1. \E b \in BOOLEAN : sock' \in {sock, NoSocket, [NoSocket EXCEPT !.limited = b],
                                     [sock EXCEPT !.link = b]}
    <3>1. CASE OpenSocket
      BY <3>1 DEF OpenSocket
    <3>2. CASE Connect
      BY <3>2 DEF Connect, Return
    <3>3. CASE Send \/ MailArrives
      BY <3>3 DEF Send, MailArrives
    <3>4. CASE Resend \/ Recv \/ RecvFails
      BY <3>4 DEF Resend, Recv, RecvFails, Return
    <3> QED BY <3>1, <3>2, <3>3, <3>4
  <2>2. PICK b \in BOOLEAN : sock' \in {sock, NoSocket, [NoSocket EXCEPT !.limited = b],
                                       [sock EXCEPT !.link = b]}
    BY <2>1
  <2>3. sock \in SocketState
    BY DEF LockTypeOK
  <2>4. NoSocket \in SocketState
    BY DEF NoSocket, SocketState
  <2>5. [NoSocket EXCEPT !.limited = b] \in SocketState
    BY <2>4 DEF SocketState
  <2>6. [sock EXCEPT !.link = b] \in SocketState
    BY <2>3 DEF SocketState
  <2> QED BY <2>2, <2>3, <2>4, <2>5, <2>6
<1>6. /\ pc \notin DOMAIN Calling /\ pc' \notin DOMAIN Calling \cup {"frame"}
      /\ pc' \in Places
  BY <1>2, PlaceNames
<1>7. ReaderTypeOK' /\ ReadyOK' /\ DriverOK' /\ LeftoversGone'
  BY <1>1, <1>6, DriverRests
<1>8. verdict' \in {"none", "allowed", "denied", "failed"}
  BY <1>2 DEF LockTypeOK
<1>9. LockTypeOK'
  BY <1>1, <1>2, <1>3, <1>4, <1>5, <1>6, <1>7, <1>8 DEF LockTypeOK
<1>10. TextOK'
  BY <1>1, <1>2 DEF TextOK
<1>11. OutcomeOK'
  BY <1>1, <1>2 DEF OutcomeOK
<1> QED BY <1>7, <1>9, <1>10, <1>11

(* The bolt is turned, and turned back. *)
LEMMA ActSteps ==
  ASSUME FirmwareInv,
         \/ Judge \/ Turn("unlocking", "open", "unlocked")
         \/ StartLocking \/ Turn("locking", "pause", "locked")
  PROVE  FirmwareInv'
<1> USE DEF FirmwareInv
<1>1. /\ UNCHANGED <<chip, field, presented, drv, Status, net>>
      /\ UNCHANGED <<cruzID, count, sock, sent, mail, verdict>>
  BY DEF Judge, Turn, StartLocking, readerVars, wifiVars, askVars
<1>2. \/ /\ pc = "returned" /\ bolt' = bolt
         /\ \/ verdict = "allowed" /\ pc' = "unlocking" /\ motor' = "ccw" /\ light' = "green"
            \/ verdict # "allowed" /\ pc' = "pause" /\ motor' = motor /\ light' = "red"
      \/ /\ pc = "unlocking" /\ pc' = "open" /\ motor' = "off" /\ bolt' = "unlocked"
         /\ light' = light
      \/ /\ pc = "open" /\ pc' = "locking" /\ motor' = "cw" /\ bolt' = bolt /\ light' = light
      \/ /\ pc = "locking" /\ pc' = "pause" /\ motor' = "off" /\ bolt' = "locked"
         /\ light' = light
  <2>1. CASE Judge
    BY <2>1 DEF Judge
  <2>2. CASE Turn("unlocking", "open", "unlocked")
    BY <2>2 DEF Turn
  <2>3. CASE StartLocking
    BY <2>3 DEF StartLocking
  <2>4. CASE Turn("locking", "pause", "locked")
    BY <2>4 DEF Turn
  <2> QED BY <2>1, <2>2, <2>3, <2>4
<1>3. /\ pc \notin DOMAIN Calling /\ pc' \notin DOMAIN Calling \cup {"frame"}
      /\ pc' \in Places
  BY <1>2, PlaceNames
<1>4. ReaderTypeOK' /\ ReadyOK' /\ DriverOK' /\ LeftoversGone'
  BY <1>1, <1>3, DriverRests
<1>7. /\ motor' \in {"off", "ccw", "cw"} /\ bolt' \in {"locked", "unlocked"}
      /\ light' \in {"off", "green", "red"}
  BY <1>2 DEF LockTypeOK
<1>5. LockTypeOK'
  BY <1>1, <1>3, <1>4, <1>7 DEF LockTypeOK
<1>6. TextOK' /\ OutcomeOK'
  BY <1>1, <1>2 DEF TextOK, OutcomeOK
<1> QED BY <1>4, <1>5, <1>6

(* Nothing happens. *)
LEMMA StutterKeeps ==
  ASSUME FirmwareInv, UNCHANGED lockVars
  PROVE  FirmwareInv'
<1>1. UNCHANGED readerVars /\ UNCHANGED mainVars
  BY DEF lockVars
<1>2. ReaderTypeOK' /\ UNCHANGED <<chip, field, presented, drv>>
  BY <1>1, ReaderStays DEF FirmwareInv, LockTypeOK
<1>3. LockTypeOK' /\ OutcomeOK' /\ UNCHANGED <<pc, cruzID, sent>>
  BY <1>1, <1>2, MainStays DEF FirmwareInv
<1> QED BY <1>2, <1>3 DEF FirmwareInv, ReadyOK, DriverOK, LeftoversGone, TextOK, Fresh

(* Every step of the lock preserves the invariant. *)
LEMMA NextFirmware == FirmwareInv /\ [LockNext]_lockVars => FirmwareInv'
<1> SUFFICES ASSUME FirmwareInv, [LockNext]_lockVars PROVE FirmwareInv'
  OBVIOUS
<1>1. CASE StartWiFi \/ WlanConnect \/ WlanDisconnect \/ Connected
  BY <1>1, WifiSteps
<1>2. CASE CallDriver
  BY <1>2, CallStep
<1>3. CASE DriverStep /\ UNCHANGED mainVars
  BY <1>3, DriverSteps
<1>4. CASE ReturnFromDriver
  BY <1>4, ReturnStep
<1>5. CASE FrameRead \/ FrameMissed
  BY <1>5, FrameSteps
<1>6. CASE OpenSocket \/ Connect \/ Send \/ Resend \/ MailArrives \/ Recv \/ RecvFails
  BY <1>6, AskSteps
<1>7. CASE \/ Judge \/ Turn("unlocking", "open", "unlocked")
           \/ StartLocking \/ Turn("locking", "pause", "locked")
  BY <1>7, ActSteps
<1>8. CASE Hibernate \/ PowerFails \/ WakeUp
  BY <1>8, SleepSteps
<1>9. CASE (HoldSomething \/ ChipAnswers) /\ UNCHANGED mainVars
  BY <1>9, ChipSteps
<1>10. CASE UNCHANGED lockVars
  BY <1>10, StutterKeeps
<1> QED BY <1>1, <1>2, <1>3, <1>4, <1>5, <1>6, <1>7, <1>8, <1>9, <1>10
        DEF LockNext, MainThread, Surroundings

(* The invariant holds of every behaviour. *)
LEMMA FirmwareInvariant == LockSpec => []FirmwareInv
BY InitFirmware, NextFirmware, PTL DEF LockSpec

(* The variables of the lock keep their types, the counters of its waits    *)
(* and retries included.                                                   *)
THEOREM LockTypes == LockSpec => []LockTypeOK
<1>1. FirmwareInv => LockTypeOK
  BY DEF FirmwareInv
<1> QED BY <1>1, FirmwareInvariant, PTL

(* A lock asks only for somebody whose phone was held to it since it woke   *)
(* up, or whose cruzID begins with the same ten characters as that of one,  *)
(* whatever the chip kept from before and whichever transfers fail.         *)
THEOREM AsksOnlyForPresent == LockSpec => []AsksForWhoIsThere
<1>1. FirmwareInv => AsksForWhoIsThere
  BY DEF FirmwareInv, TextOK, AsksForWhoIsThere
<1> QED BY <1>1, FirmwareInvariant, PTL

-----------------------------------------------------------------------------
(* The refinement.  A lock seen as a Door is one row.                       *)
Row(ask, b, heard) == [l \in {"lock"} |-> [ask |-> ask, bolt |-> b, heard |-> heard]]

Asked == IF sent THEN cruzID ELSE Nothing

(* A change of one field of the one door. *)
LEMMA RowUpdates ==
  \A a, b, h, v, w :
         /\ Row(a, b, h)["lock"].ask = a
         /\ Row(a, b, h)["lock"].bolt = b
         /\ Row(a, b, h)["lock"].heard = h
         /\ [Row(a, b, h) EXCEPT !["lock"].ask = v] = Row(v, b, h)
         /\ [Row(a, b, h) EXCEPT !["lock"].bolt = v] = Row(a, v, h)
         /\ [Row(a, b, h) EXCEPT !["lock"].heard = v] = Row(a, b, v)
         /\ [Row(a, b, h) EXCEPT !["lock"].bolt = v, !["lock"].heard = w] = Row(a, v, w)
         /\ [Row(a, b, h) EXCEPT !["lock"].ask = v, !["lock"].heard = w] = Row(v, b, w)
         /\ [Row(a, b, h) EXCEPT !["lock"] = [ask |-> v, bolt |-> b, heard |-> w]] = Row(v, b, w)
<1> TAKE a, b, h, v, w
<1> DEFINE R == [ask |-> a, bolt |-> b, heard |-> h]
<1>1. Row(a, b, h) = [l \in {"lock"} |-> R] /\ Row(a, b, h)["lock"] = R
  BY DEF Row
<1>2. /\ [R EXCEPT !.ask = v] = [ask |-> v, bolt |-> b, heard |-> h]
      /\ [R EXCEPT !.bolt = v] = [ask |-> a, bolt |-> v, heard |-> h]
      /\ [R EXCEPT !.heard = v] = [ask |-> a, bolt |-> b, heard |-> v]
  OBVIOUS
<1>3. [Row(a, b, h) EXCEPT !["lock"].ask = v] = Row(v, b, h)
  BY <1>1, <1>2 DEF Row
<1>4. [Row(a, b, h) EXCEPT !["lock"].bolt = v] = Row(a, v, h)
  BY <1>1, <1>2 DEF Row
<1>5. [Row(a, b, h) EXCEPT !["lock"].heard = v] = Row(a, b, v)
  BY <1>1, <1>2 DEF Row
<1>6. [Row(a, b, h) EXCEPT !["lock"].bolt = v, !["lock"].heard = w] = Row(a, v, w)
  <2>1. [Row(a, v, h) EXCEPT !["lock"].heard = w] = Row(a, v, w)
    BY DEF Row
  <2>2. [Row(a, b, h) EXCEPT !["lock"].bolt = v, !["lock"].heard = w]
          = [[Row(a, b, h) EXCEPT !["lock"].bolt = v] EXCEPT !["lock"].heard = w]
    OBVIOUS
  <2> QED BY <1>4, <2>1, <2>2
<1>7. [Row(a, b, h) EXCEPT !["lock"].ask = v, !["lock"].heard = w] = Row(v, b, w)
  <2>1. [Row(v, b, h) EXCEPT !["lock"].heard = w] = Row(v, b, w)
    BY DEF Row
  <2>2. [Row(a, b, h) EXCEPT !["lock"].ask = v, !["lock"].heard = w]
          = [[Row(a, b, h) EXCEPT !["lock"].ask = v] EXCEPT !["lock"].heard = w]
    OBVIOUS
  <2> QED BY <1>3, <2>1, <2>2
<1>8. [Row(a, b, h) EXCEPT !["lock"] = [ask |-> v, bolt |-> b, heard |-> w]] = Row(v, b, w)
  BY <1>1, <1>2 DEF Row
<1> QED BY <1>1, <1>3, <1>4, <1>5, <1>6, <1>7, <1>8

(* What Door sees of the lock is a single door. *)
LEMMA ViewIsRow ==
  DoorView = Row(Asked, bolt, Heard) /\ DoorView' = Row(Asked', bolt', Heard')
BY DEF DoorView, Row, Asked

(* What a change of the row has to be for a step of Door, or none.          *)
LEMMA RowSteps ==
  ASSUME \/ Asked' = Asked /\ bolt' = bolt /\ Heard' = Heard
         \/ Asked = Nothing /\ Asked' \in Texts /\ bolt' = bolt /\ Heard' = Heard
         \/ /\ Asked # Nothing /\ Asked' = Asked /\ bolt' = bolt
            /\ Heard = "nothing" /\ Heard' \in {"allowed", "denied", "failed"}
         \/ Asked' = Asked /\ bolt' = "unlocked" /\ Heard = "allowed" /\ Heard' = Heard
         \/ /\ Asked' = Asked /\ bolt = "unlocked" /\ bolt' = "locked"
            /\ Heard = "allowed" /\ Heard' = "served"
         \/ /\ Asked' = Nothing /\ bolt' = bolt
            /\ Heard \in {"denied", "failed", "served"} /\ Heard' = "nothing"
         \/ /\ Asked' = Nothing /\ Heard' = "nothing" /\ bolt' \in {"locked", "unlocked"}
            /\ bolt' = bolt \/ Heard = "allowed"
  PROVE  (\E l \in {"lock"} : Promise!DoorStep(l)) \/ UNCHANGED DoorView
<1>1. /\ DoorView["lock"].ask = Asked /\ DoorView["lock"].bolt = bolt
      /\ DoorView["lock"].heard = Heard
  BY ViewIsRow DEF Row
<1>2. CASE Asked' = Asked /\ bolt' = bolt /\ Heard' = Heard
  BY <1>2, ViewIsRow
<1>3. CASE Asked = Nothing /\ Asked' \in Texts /\ bolt' = bolt /\ Heard' = Heard
  <2>1. DoorView' = [DoorView EXCEPT !["lock"].ask = Asked']
    <3>1. [Row(Asked, bolt, Heard) EXCEPT !["lock"].ask = Asked'] = Row(Asked', bolt, Heard)
      BY RowUpdates
    <3> QED BY <1>3, <3>1, ViewIsRow
  <2> QED BY <1>1, <1>3, <2>1 DEF Promise!DoorStep, Promise!Ask
<1>4. CASE /\ Asked # Nothing /\ Asked' = Asked /\ bolt' = bolt
           /\ Heard = "nothing" /\ Heard' \in {"allowed", "denied", "failed"}
  <2>1. DoorView' = [DoorView EXCEPT !["lock"].heard = Heard']
    <3>1. [Row(Asked, bolt, Heard) EXCEPT !["lock"].heard = Heard'] = Row(Asked, bolt, Heard')
      BY RowUpdates
    <3> QED BY <1>4, <3>1, ViewIsRow
  <2> QED BY <1>1, <1>4, <2>1 DEF Promise!DoorStep, Promise!Hear
<1>5. CASE Asked' = Asked /\ bolt' = "unlocked" /\ Heard = "allowed" /\ Heard' = Heard
  <2>1. DoorView' = [DoorView EXCEPT !["lock"].bolt = "unlocked"]
    <3>1. [Row(Asked, bolt, Heard) EXCEPT !["lock"].bolt = "unlocked"] = Row(Asked, "unlocked", Heard)
      BY RowUpdates
    <3> QED BY <1>5, <3>1, ViewIsRow
  <2> QED BY <1>1, <1>5, <2>1 DEF Promise!DoorStep, Promise!Serve, Promise!Unlock
<1>6. CASE /\ Asked' = Asked /\ bolt = "unlocked" /\ bolt' = "locked"
           /\ Heard = "allowed" /\ Heard' = "served"
  <2>1. DoorView' = [DoorView EXCEPT !["lock"].bolt = "locked", !["lock"].heard = "served"]
    <3>1. [Row(Asked, bolt, Heard) EXCEPT !["lock"].bolt = "locked", !["lock"].heard = "served"] = Row(Asked, "locked", "served")
      BY RowUpdates
    <3> QED BY <1>6, <3>1, ViewIsRow
  <2> QED BY <1>1, <1>6, <2>1 DEF Promise!DoorStep, Promise!Serve, Promise!Relock
<1>7. CASE /\ Asked' = Nothing /\ bolt' = bolt
           /\ Heard \in {"denied", "failed", "served"} /\ Heard' = "nothing"
  <2>1. DoorView' = [DoorView EXCEPT !["lock"].ask = Nothing, !["lock"].heard = "nothing"]
    <3>1. [Row(Asked, bolt, Heard) EXCEPT !["lock"].ask = Nothing, !["lock"].heard = "nothing"] = Row(Nothing, bolt, "nothing")
      BY RowUpdates
    <3> QED BY <1>7, <3>1, ViewIsRow
  <2> QED BY <1>1, <1>7, <2>1 DEF Promise!DoorStep, Promise!Serve, Promise!Finish
<1>8. CASE /\ Asked' = Nothing /\ Heard' = "nothing" /\ bolt' \in {"locked", "unlocked"}
           /\ bolt' = bolt \/ Heard = "allowed"
  <2>1. DoorView' = [DoorView EXCEPT !["lock"] =
                       [ask |-> Nothing, bolt |-> bolt', heard |-> "nothing"]]
    BY <1>8, ViewIsRow DEF Row
  <2> QED BY <1>1, <1>8, <2>1 DEF Promise!DoorStep, Promise!Outage
<1> QED BY <1>2, <1>3, <1>4, <1>5, <1>6, <1>7, <1>8

(* A lock that has sent nothing asks nothing and hears nothing ... *)
LEMMA NotAsking == sent = FALSE => Asked = Nothing /\ Heard = "nothing"
BY DEF Asked, Heard

(* ... after a step as well. *)
LEMMA NotAskingNext == sent' = FALSE => Asked' = Nothing /\ Heard' = "nothing"
BY DEF Asked, Heard

(* What a lock that has sent its question asks and hears. *)
LEMMA Asking ==
  ASSUME FirmwareInv, sent
  PROVE  /\ Asked = cruzID /\ Asked \in Texts /\ Asked # Nothing
         /\ pc = "recv" => Heard = "nothing"
         /\ pc = "returned" => Heard = "nothing"
         /\ pc \in {"unlocking", "open", "locking"} => Heard = "allowed"
         /\ pc = "pause" => Heard \in {"denied", "failed", "served"}
<1>1. Asked = cruzID /\ cruzID \in Texts
  BY DEF Asked, FirmwareInv, TextOK
<1>2. Nothing \notin Texts
  BY ReaderAssumption DEF Texts
<1>3. pc = "recv" => Heard = "nothing"
  BY DEF Heard, FirmwareInv, OutcomeOK
<1>4. pc = "returned" => Heard = "nothing"
  BY DEF Heard
<1>5. pc \in {"unlocking", "open", "locking"} => Heard = "allowed"
  BY DEF Heard, FirmwareInv, OutcomeOK
<1>6. pc = "pause" => Heard \in {"denied", "failed", "served"}
  BY DEF Heard, FirmwareInv, OutcomeOK, LockTypeOK
<1> QED BY <1>1, <1>2, <1>3, <1>4, <1>5, <1>6

(* A step that changes nothing Door sees. *)
LEMMA SameView ==
  ASSUME UNCHANGED <<pc, cruzID, sent, verdict, bolt>>
  PROVE  UNCHANGED DoorView
<1>1. Asked' = Asked /\ Heard' = Heard
  BY DEF Asked, Heard
<1> QED BY <1>1, ViewIsRow

(* While the lock sleeps or looks for a phone it asks nothing. *)
LEMMA NothingAsked ==
  ASSUME sent = FALSE, sent' = FALSE, bolt' = bolt
  PROVE  UNCHANGED DoorView
BY NotAsking, NotAskingNext, ViewIsRow

(* Every step of the lock is a step of Door, or none. *)
LEMMA ViewSteps ==
  ASSUME FirmwareInv, FirmwareInv', [LockNext]_lockVars
  PROVE  (\E l \in {"lock"} : Promise!DoorStep(l)) \/ UNCHANGED DoorView
<1>1. sent \in BOOLEAN /\ sent' \in BOOLEAN /\ bolt' \in {"locked", "unlocked"}
  BY DEF FirmwareInv, LockTypeOK
<1>2. CASE \/ WlanConnect \/ WlanDisconnect \/ MailArrives
           \/ CallDriver \/ (DriverStep /\ UNCHANGED mainVars)
           \/ (HoldSomething \/ ChipAnswers) /\ UNCHANGED mainVars
           \/ UNCHANGED lockVars
  <2>1. UNCHANGED <<pc, cruzID, sent, verdict, bolt>>
    BY <1>2 DEF WlanConnect, WlanDisconnect, MailArrives, CallDriver, lockVars, mainVars,
       wifiVars, askVars, boltVars
  <2> QED BY <2>1, SameView
<1>3. CASE \/ StartWiFi \/ Connected \/ WakeUp \/ ReturnFromDriver
           \/ FrameRead \/ FrameMissed \/ OpenSocket \/ Connect
  <2>1. /\ pc \in {"boot", "await", "asleep", "frame", "socket", "connect"} \cup DOMAIN Calling
        /\ sent' = sent /\ bolt' = bolt
    BY <1>3 DEF StartWiFi, Connected, WakeUp, ReturnFromDriver, FrameRead, FrameMissed,
       OpenSocket, Connect, askVars, boltVars
  <2>2. sent = FALSE
    BY <1>1, <2>1, PlaceNames DEF FirmwareInv, OutcomeOK
  <2> QED BY <2>1, <2>2, NothingAsked
<1>4. CASE Send \/ Resend
  <2>1. /\ pc \in {"send", "resend"} /\ bolt' = bolt
        /\ pc' = "returned" \/ verdict' = verdict
    BY <1>4 DEF Send, Resend, Return, boltVars
  <2>2. sent = FALSE /\ verdict = "none"
    BY <1>1, <2>1 DEF FirmwareInv, OutcomeOK
  <2>3. CASE sent' = FALSE
    BY <2>1, <2>2, <2>3, NothingAsked
  <2>4. CASE sent' = TRUE
    <3>1. Asked = Nothing /\ Heard = "nothing"
      BY <2>2, NotAsking
    <3>2. Asked' \in Texts
      BY <2>4 DEF Asked, FirmwareInv, TextOK
    <3>3. Heard' = "nothing"
      BY <2>1, <2>2 DEF Heard
    <3> QED BY <2>1, <3>1, <3>2, <3>3, RowSteps
  <2> QED BY <1>1, <2>3, <2>4
<1>5. CASE Recv \/ RecvFails
  <2>1. /\ pc = "recv" /\ pc' = "returned" /\ UNCHANGED <<sent, cruzID, bolt>>
    BY <1>5 DEF Recv, RecvFails, Return, boltVars
  <2>2. sent /\ Heard = "nothing"
    BY <2>1, Asking DEF FirmwareInv, OutcomeOK
  <2>3. Asked' = Asked /\ Heard' = "nothing"
    BY <2>1 DEF Asked, Heard
  <2> QED BY <2>1, <2>2, <2>3, RowSteps
<1>6. CASE Judge
  <2>1. /\ pc = "returned" /\ UNCHANGED <<sent, cruzID, bolt, verdict>>
        /\ IF verdict = "allowed" THEN pc' = "unlocking" ELSE pc' = "pause"
    BY <1>6 DEF Judge, askVars
  <2>2. CASE sent = FALSE
    BY <2>1, <2>2, NothingAsked
  <2>3. CASE sent = TRUE
    <3>1. Asked # Nothing /\ Heard = "nothing" /\ Asked' = Asked
      BY <2>1, <2>3, Asking DEF Asked
    <3>2. verdict \in {"allowed", "denied", "failed"}
      BY <2>1 DEF FirmwareInv, LockTypeOK, OutcomeOK
    <3>3. Heard' \in {"allowed", "denied", "failed"}
      BY <2>1, <2>3, <3>2 DEF Heard
    <3> QED BY <2>1, <3>1, <3>3, RowSteps
  <2> QED BY <1>1, <2>2, <2>3
<1>7. CASE Turn("unlocking", "open", "unlocked") \/ StartLocking
  <2>1. /\ UNCHANGED <<sent, cruzID, verdict>>
        /\ \/ pc = "unlocking" /\ pc' = "open" /\ bolt' = "unlocked"
           \/ pc = "open" /\ pc' = "locking" /\ bolt' = bolt
    BY <1>7 DEF Turn, StartLocking, askVars
  <2>2. sent /\ verdict = "allowed"
    BY <2>1 DEF FirmwareInv, OutcomeOK
  <2>3. Asked' = Asked /\ Heard = "allowed" /\ Heard' = "allowed"
    BY <2>1, <2>2 DEF Asked, Heard
  <2> QED BY <2>1, <2>3, RowSteps
<1>8. CASE Turn("locking", "pause", "locked")
  <2>1. /\ UNCHANGED <<sent, cruzID, verdict>>
        /\ pc = "locking" /\ pc' = "pause" /\ bolt' = "locked"
    BY <1>8 DEF Turn, askVars
  <2>2. sent /\ verdict = "allowed" /\ bolt = "unlocked"
    BY <2>1 DEF FirmwareInv, OutcomeOK
  <2>3. Asked' = Asked /\ Heard = "allowed" /\ Heard' = "served"
    BY <2>1, <2>2 DEF Asked, Heard
  <2> QED BY <2>1, <2>2, <2>3, RowSteps
<1>9. CASE Hibernate
  <2>1. pc = "pause" /\ sent' = FALSE /\ bolt' = bolt
    BY <1>9 DEF Hibernate, Off
  <2>2. CASE sent = FALSE
    BY <2>1, <2>2, NothingAsked
  <2>3. CASE sent = TRUE
    BY <2>1, <2>3, Asking, NotAskingNext, RowSteps
  <2> QED BY <1>1, <2>2, <2>3
<1>10. CASE PowerFails
  <2>1. sent' = FALSE /\ (bolt' = bolt \/ motor # "off")
    BY <1>10 DEF PowerFails, Off
  <2>2. motor # "off" => sent /\ Heard = "allowed"
    BY Asking DEF FirmwareInv, OutcomeOK
  <2> QED BY <1>1, <2>1, <2>2, NotAskingNext, RowSteps
<1> QED BY <1>2, <1>3, <1>4, <1>5, <1>6, <1>7, <1>8, <1>9, <1>10
        DEF LockNext, MainThread, Surroundings

(* A lock is a Door: whatever fails, it turns the bolt only on the answer   *)
(* "allowed" to the one question it has sent, and turns it back, or loses   *)
(* its power, before it asks again.                                        *)
THEOREM FirmwareIsADoor == LockSpec => Promise!DoorSafety
<1>1. LockInit => Promise!DoorInit
  <2> SUFFICES ASSUME LockInit PROVE Promise!DoorInit
    OBVIOUS
  <2>1. sent = FALSE /\ bolt = "locked"
    BY DEF LockInit
  <2>2. Asked = Nothing /\ Heard = "nothing"
    BY <2>1, NotAsking
  <2> QED BY <2>1, <2>2, ViewIsRow DEF Promise!DoorInit, Row
<1>2. FirmwareInv /\ FirmwareInv' /\ [LockNext]_lockVars
        => [\E l \in {"lock"} : Promise!DoorStep(l)]_DoorView
  BY ViewSteps
<1> QED BY <1>1, <1>2, FirmwareInvariant, PTL DEF LockSpec, Promise!DoorSafety
=============================================================================
