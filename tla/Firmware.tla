------------------------------- MODULE Firmware ------------------------------
(***************************************************************************)
(* The rev2 server firmware: Storage and Tape on one main loop.  The tape  *)
(* asks the storage component before every step whether it may touch the   *)
(* card (accessible() in mpsi_tape.c), and the storage component's         *)
(* hand-over relies on the board's hooks to bring the tape to rest         *)
(* (mpsi_storage.h, lines 13 and 14): hp_quiescent answers for the tape    *)
(* too, and hp_prepare opens the cassette anew.  The main loop and its     *)
(* queue are not in the repository; here the loop takes any captured       *)
(* request up next, general and printer requests through Storage and tape  *)
(* requests through Tape, and a tape request waits while the command       *)
(* before it is unanswered.                                                *)
(***************************************************************************)
EXTENDS Integers

CONSTANTS
  MaxU32,                               \* as in Storage
  Budget, MaxI32, Bytes, BOF, Images    \* as in Tape

ASSUME FirmwareAssumption == MaxU32 \in Nat

VARIABLES
  mode, mounted, usb_owned, block_count, pc, hp_run, fs, usb, ejected,
  cache, staged, transfer,              \* as in Storage
  request,   \* a general or printer request is captured and unanswered
  position, scan, command, control, byte, active, cells, tape, present,
  writable, response,                   \* as in Tape
  queued     \* the tape request captured and not begun, or NoRequest

Card == INSTANCE Storage

Cassette == INSTANCE Tape WITH serving <- Card!ServesFiles

cardVars == <<mode, mounted, usb_owned, block_count, pc, hp_run, fs, usb, ejected,
              cache, staged, transfer, request>>
tapeVars == <<position, scan, command, control, byte, active, cells, tape, present,
              writable, response>>
vars     == <<cardVars, tapeVars, queued>>

NoRequest == [code |-> 8, control |-> FALSE, byte |-> 0]

Init ==
  /\ Card!Init
  /\ Cassette!Init
  /\ queued = NoRequest

-----------------------------------------------------------------------------
(* HP_RUN low makes the CPLD forget what it has captured.                  *)
CapturedTape == queued' = IF hp_run' THEN queued ELSE NoRequest

(* Mutant: hp_quiescent answers for the general requests alone.            *)
EnterMscTapeBusy ==
  /\ Card!EnterMsc
  /\ UNCHANGED <<tapeVars, queued>>

(* hp_quiescent: no request, no queued work, no command under way.         *)
EnterMsc ==
  /\ queued = NoRequest /\ ~active
  /\ Card!EnterMsc
  /\ UNCHANGED <<tapeVars, queued>>

(* Mutant: preparing leaves the tape as it was.                            *)
PrepareKeepsTape ==
  /\ Card!Prepare
  /\ UNCHANGED <<tapeVars, queued>>

(* hp_prepare resets the queues and stages the data: the selected cassette *)
(* is opened and mpsi_tape_init called.                                    *)
Prepare ==
  /\ Card!Prepare
  /\ IF pc' = "run" THEN Cassette!TapeInit ELSE UNCHANGED tapeVars
  /\ UNCHANGED queued

(* The other steps of an operation.  After a loss of power nothing looks   *)
(* at the tape's record before Prepare has written it.                     *)
Transition ==
  /\ \/ \E count \in Card!U32 : Card!StorageInit(count)
     \/ Card!LeaveMsc
     \/ Card!Mount \/ Card!Run \/ Card!Ready
     \/ Card!HpOff \/ Card!FlushClose \/ Card!Sync \/ Card!Unmount
     \/ Card!UsbAttach \/ Card!UsbStart \/ Card!Detach \/ Card!UsbStop
     \/ Card!Fail
     \/ Card!PowerLoss
  /\ CapturedTape
  /\ UNCHANGED tapeVars

General ==
  /\ Card!General
  /\ UNCHANGED <<tapeVars, queued>>

-----------------------------------------------------------------------------
(* Mutant: general requests always go first.                               *)
TapeBeginLast ==
  /\ pc = "idle"
  /\ queued # NoRequest /\ ~request
  /\ UNCHANGED cardVars
  /\ Cassette!Begin(queued)
  /\ queued' = NoRequest

(* mpsi_tape_begin; while it refuses, the request stays queued.            *)
TapeBegin ==
  /\ pc = "idle"
  /\ queued # NoRequest
  /\ UNCHANGED cardVars
  /\ Cassette!Begin(queued)
  /\ queued' = NoRequest

(* A poll; write_cell leaves dirty data in the card's cache.               *)
TapePoll ==
  /\ pc = "idle"
  /\ \/ /\ UNCHANGED cardVars
        /\ \/ Cassette!PollStop \/ Cassette!PollRewind \/ Cassette!PollNoCassette
           \/ Cassette!PollWriteRefused
           \/ Cassette!PollFound \/ Cassette!PollEnd \/ Cassette!PollMore
           \/ UNCHANGED tape /\ Cassette!PollWriteFails
     \/ /\ Card!CellWrite
        /\ Cassette!PollWrite \/ Cassette!PollWriteFails
  /\ UNCHANGED queued

-----------------------------------------------------------------------------
HpGeneral ==
  /\ Card!HpRequest
  /\ UNCHANGED <<tapeVars, queued>>

HpTape ==
  /\ hp_run
  /\ queued = NoRequest
  /\ queued' \in Cassette!Requests
  /\ UNCHANGED <<cardVars, tapeVars>>

UsbHost ==
  /\ Card!Host
  /\ UNCHANGED <<tapeVars, queued>>

Operator ==
  /\ UNCHANGED <<cardVars, queued>>
  /\ Cassette!Operator

Next ==
  \/ EnterMsc \/ Prepare \/ Transition
  \/ General
  \/ TapeBegin \/ TapePoll
  \/ HpGeneral \/ HpTape
  \/ UsbHost
  \/ Operator

Spec == Init /\ [][Next]_vars

(* The main loop runs: callbacks return, requests are taken up, and a      *)
(* polled command comes on (see Progress in Tape).                         *)
TapeProgress ==
  /\ TapePoll
  /\ Cassette!Answers \/ (active' /\ scan' = Cassette!At(Budget))

Continue == Prepare \/ (Transition /\ Card!Continue)

Fairness ==
  /\ WF_vars(Continue)
  /\ WF_vars(General)
  /\ WF_vars(TapeBegin)
  /\ WF_vars(TapeProgress)

FairSpec == Spec /\ Fairness

-----------------------------------------------------------------------------
(***************************************************************************)
(* Properties.                                                             *)
(***************************************************************************)

(* A tape command never outlives the card it was meant for: none is under  *)
(* way when the USB host has the card, so none resumes on data the host    *)
(* has rewritten; and none is left over when the HP is put on the line, so *)
(* no answer goes to a request of the session before a fault.              *)
NoStaleCommand == usb \/ pc \in {"run", "ready"} => ~active

(* Whenever the tape component moves, finds, writes or answers, the local  *)
(* file system has the card and, but for opening the cassette, the HP is   *)
(* on the line to take the answer.                                         *)
TapeOnlyOnOwnCard ==
  [][<<position, scan, tape, response>>' # <<position, scan, tape, response>>
       => fs /\ ~usb /\ (hp_run \/ pc = "prepare")]_vars

(* A tape request once captured is begun and a command begun is answered,  *)
(* unless a fault or the loss of power takes the HP off the line.  The     *)
(* operator's hand-over cuts off no command under way, only a request      *)
(* captured between its quiescence check and HP_RUN low.                   *)
TapeRequestsNotDropped ==
  [][ /\ queued # NoRequest /\ queued' = NoRequest
           => (~active /\ active') \/ mode' = "FAULT" \/ pc' = "reset" \/ pc = "hp_off"
      /\ active /\ ~active' /\ hp_run => Cassette!Answers
      /\ active /\ hp_run /\ ~hp_run' => mode' = "FAULT" \/ pc' = "reset" ]_vars

(* Whatever else the main loop has to do, a tape request is begun and      *)
(* answered, or its line goes down with HP_RUN.                            *)
TapeRequestEnds ==
  /\ queued # NoRequest ~> queued = NoRequest
  /\ active ~> (~active \/ ~hp_run)

=============================================================================
