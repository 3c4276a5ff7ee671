--------------------------------- MODULE Pn532 ---------------------------------
(***************************************************************************)
(* The NFC reader of a lock: the chip, and its driver PN532.c.  The driver  *)
(* writes a command frame over SPI, reads the chip's status byte until an   *)
(* acknowledgement is ready, reads that, reads the status byte again until  *)
(* the answer is ready, and reads the answer.  Every SPI transfer may fail; *)
(* the result of a transfer is never looked at, so that a failed read       *)
(* leaves the caller's buffer as it was and a failed write is not noticed.  *)
(*                                                                         *)
(* The chip has power of its own: it keeps what it is doing, and what it    *)
(* has ready, when the microcontroller hibernates and starts afresh.        *)
(***************************************************************************)
EXTENDS Integers

CONSTANTS
  Names,          (* the cruzIDs on the phones that are held to the reader  *)
  Blank,          (* what a phone without an account amounts to             *)
  Garbage,        (* bytes that are nobody's cruzID                         *)
  Nothing,        (* no frame, no body, no phone                            *)
  WaitTimeout,    (* WAITTIMEOUT: status reads before a wait is given up    *)
  TestTimeout     (* TIMEOUTTEST: the same, for a card to be found          *)

ASSUME ReaderAssumption ==
  /\ WaitTimeout \in Nat /\ TestTimeout \in Nat
  /\ Blank \notin Names /\ Garbage \notin Names \cup {Blank}
  /\ Nothing \notin Names \cup {Blank, Garbage}

VARIABLES
  chip,           (* the command it executes and the frame it has ready     *)
  field,          (* what is held to the antenna, by what it would answer   *)
  presented,      (* the texts phones have handed over since the lock woke  *)
  drv             (* the driver function being executed and its locals      *)

readerVars == <<chip, field, presented, drv>>

-----------------------------------------------------------------------------
Commands ==
  {"GETFIRMWAREVERSION", "SAMCONFIGURATION", "INLISTPASSIVETARGET", "INDATAEXCHANGE"}

(* The driver's functions, by the command each of them sends.  "test" is    *)
(* the bare SendCommandAndACK of the main thread, which reads no answer.    *)
Functions ==
  [test                |-> "GETFIRMWAREVERSION",
   ConfigureSAM        |-> "SAMCONFIGURATION",
   GetFirmwareVersion  |-> "GETFIRMWAREVERSION",
   DetectPassiveTarget |-> "INLISTPASSIVETARGET",
   InDataExchange      |-> "INDATAEXCHANGE"]

Texts == Names \cup {Blank, Garbage}

(* An acknowledgement has no command; an answer names the command it is to. *)
Frame == [cmd : Commands \cup {"ACK", "none"}, body : Texts \cup {Nothing, "card", "small"}]
NoFrame == [cmd |-> "none", body |-> Nothing]
Ack == [cmd |-> "ACK", body |-> Nothing]
Answer(cmd, body) == [cmd |-> cmd, body |-> body]

(* An uninitialised counter may be so far below zero that it never gets to  *)
(* a timeout.                                                              *)
Forever == -1
Tick(t) == IF t = Forever THEN t ELSE t + 1

(* fn, at: the function and the wait it is in; timer, seen: its counter and *)
(* whether the status byte read last, or what is in its place in the        *)
(* buffer, says "ready"; result: what it returned, and what it had read.    *)
Idle == [fn |-> "none", at |-> "idle", timer |-> 0, seen |-> FALSE,
         result |-> "none", read |-> NoFrame]

Driver ==
  [fn : DOMAIN Functions \cup {"none"},
   at : {"idle", "written", "wait_ack", "wait_answer", "returned"},
   timer : Nat \cup {Forever}, seen : BOOLEAN,
   result : {"none", "SUCCESS", "error"}, read : Frame]

Command == Functions[drv.fn]

-----------------------------------------------------------------------------
(* The chip and the people in front of it. *)

HoldSomething == /\ field' \in (Texts \cup {Nothing}) \ {field}
                 /\ UNCHANGED <<chip, presented, drv>>

(* The answer to a command.  A card is found when there is one; asked for   *)
(* data, the phone says its text, and if it has been taken away the frame   *)
(* holds an error code that nobody looks at and ends there.                 *)
Bodies ==
  {body \in Texts \cup {Nothing, "card", "small"} :
     /\ chip.cmd = "INLISTPASSIVETARGET" => field # Nothing /\ body \in {"card", "small"}
     /\ chip.cmd = "INDATAEXCHANGE" => body = IF field = Nothing THEN Garbage ELSE field
     /\ chip.cmd \in {"GETFIRMWAREVERSION", "SAMCONFIGURATION"} => body = Nothing}

ChipAnswers ==
  /\ chip.cmd # "none"
  /\ chip.ready = NoFrame
  /\ \E body \in Bodies :
       /\ chip' = [cmd |-> "none", ready |-> Answer(chip.cmd, body)]
       /\ presented' = IF chip.cmd = "INDATAEXCHANGE"
                       THEN presented \cup {body} ELSE presented
  /\ UNCHANGED <<field, drv>>

-----------------------------------------------------------------------------
(* One SPI transfer each. *)

Returns(result, frame) ==
  drv' = [drv EXCEPT !.at = "returned", !.result = result, !.read = frame]

(* WriteFramePN532: the chip gives up what it was doing.  Where a function  *)
(* waits with a counter of its own, the counter has no initial value.       *)
Invoke(fn) ==
  /\ drv = Idle
  /\ \E t \in IF fn = "InDataExchange" THEN {Forever} \cup 0..WaitTimeout ELSE {0} :
       drv' = [Idle EXCEPT !.fn = fn, !.at = "written", !.timer = t]
  /\ chip' \in {chip, [cmd |-> Functions[fn], ready |-> Ack]}
  /\ UNCHANGED <<field, presented>>

(* What a status read leaves in the buffer. *)
StatusByte == {drv.seen, chip.ready # NoFrame}

FirstPoll ==
  /\ drv.at = "written"
  /\ \E s \in StatusByte : drv' = [drv EXCEPT !.at = "wait_ack", !.seen = s]
  /\ UNCHANGED <<chip, field, presented>>

Limit ==
  IF drv.at = "wait_answer" /\ Command = "INLISTPASSIVETARGET" THEN TestTimeout ELSE WaitTimeout

(* The counter is tested before the status byte just read: a wait that ends *)
(* with the last read allowed has timed out.                                *)
Poll ==
  LET t == Tick(drv.timer) IN
  /\ drv.at \in {"wait_ack", "wait_answer"}
  /\ ~drv.seen
  /\ IF t > Limit
     THEN Returns("error", NoFrame)
     ELSE \E s \in StatusByte : drv' = [drv EXCEPT !.timer = t, !.seen = s]
  /\ UNCHANGED <<chip, field, presented>>

(* Reading a frame takes it from the chip. *)
Taken == [chip EXCEPT !.ready = NoFrame]

(* CheckACK returns ERROR, which is not zero, for anything that is not an   *)
(* acknowledgement, and its callers test for zero: whatever was read will   *)
(* do.  The wait for the answer starts with what this read left in the      *)
(* place of the status byte.                                                *)
ReadAck ==
  /\ drv.at = "wait_ack"
  /\ drv.seen
  /\ \E ok \in BOOLEAN :
       /\ chip' = IF ok THEN Taken ELSE chip
       /\ IF drv.fn = "InDataExchange"
          THEN Returns("SUCCESS", NoFrame)
          ELSE drv' = [drv EXCEPT !.at = "wait_answer", !.timer = 0, !.seen = ~ok]
  /\ UNCHANGED <<field, presented>>

(* frameCheck: the frame is an answer to the command.                       *)
FrameCheck(frame, cmd) == frame.cmd = cmd

ReadAnswer ==
  /\ drv.at = "wait_answer"
  /\ drv.seen
  /\ IF drv.fn = "test"
     THEN Returns("SUCCESS", NoFrame) /\ UNCHANGED chip
     ELSE \/ /\ chip' = Taken
             /\ IF FrameCheck(chip.ready, Command)
                THEN Returns("SUCCESS", chip.ready)
                ELSE Returns("error", NoFrame)
          \/ UNCHANGED chip /\ Returns("error", NoFrame)
  /\ UNCHANGED <<field, presented>>

DriverStep == FirstPoll \/ Poll \/ ReadAck \/ ReadAnswer

ReaderInit ==
  /\ chip = [cmd |-> "none", ready |-> NoFrame]
  /\ field = Nothing
  /\ presented = {}
  /\ drv = Idle

(* The reader's variables keep their types.                                *)
ReaderTypeOK ==
  /\ chip \in [cmd : Commands \cup {"none"}, ready : Frame]
  /\ field \in Texts \cup {Nothing}
  /\ presented \subseteq Texts
  /\ drv \in Driver
=============================================================================
