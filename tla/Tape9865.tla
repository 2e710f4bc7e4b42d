-------------------------------- MODULE Tape9865 --------------------------------
(***************************************************************************)
(* tp9865: the command loop of software/tp9830/main.c over the drive       *)
(* routines for the 9865 adapter, t98_65.c.                                *)
(*                                                                         *)
(* The adapter is outside the repository.  It passes commands and bytes to *)
(* the drive and holds its status and last byte; the controller exchanges  *)
(* both in one transfer, which is over before the next cell has passed.    *)
(* The controller is told of nothing: it polls a line that is low while a  *)
(* byte is ready, the tape is in leader or there is no cassette.           *)
(***************************************************************************)
EXTENDS Cp, TapeDeck

CONSTANTS
  Lines,      \* what the user types
  Images,     \* what commands on the buffer may leave in it
  Blank,      \* what the cells of a cassette hold
  MaxCommands, MaxCuts  \* bounds on the lines typed and on users cutting in

Byte == 0 .. 255

ASSUME CellsAssumption == Cells \in Nat
ASSUME DataAssumption ==
  /\ Blank \in [1 .. Cells -> Byte] /\ Images \subseteq Seq(Byte)
  /\ \A word \in DOMAIN Numeral : Numeral[word] \in Int

VARIABLES
  tape,     \* the values of the cells
  writing,  \* the drive writes
  ready,    \* DRDY: a byte was read, or can be taken for writing
  overrun,  \* DORN: a byte passed while the one before was still ready
  cell,     \* the byte read last
  out,      \* the byte to be written
  pc,       \* where the controller is
  call,     \* the drive command it is doing, and its locals
  bf,       \* the image buffer
  Attn,     \* the user's interrupt
  expired,  \* the timeout of the wait is over
  commands, \* how many lines were typed
  cuts      \* how often users cut in

adapterVars == <<tape, writing, ready, overrun, cell, out>>
ctlVars     == <<pc, call, bf, Attn, expired, commands, cuts>>
vars        == <<deckVars, adapterVars, ctlVars>>

Idle == [op |-> "none", stat |-> {}, size |-> 0, next |-> 0]

-----------------------------------------------------------------------------
(* The adapter.                                                            *)

Flags == DeckStatus \cup {f \in {"DRDY", "DORN"} : IF f = "DRDY" THEN ready ELSE overrun}

(* The exception line, low: EXCP.                                          *)
Exception == ready \/ Leader \/ ~present

(* T98__Transfer; the status received is that of before.  T98_Cmd, with    *)
(* the execute bit, reaches the drive and begins anew; the auto-respond    *)
(* bit takes the byte.                                                     *)
T98_Cmd(cmd) ==
  /\ Execute(cmd)
  /\ writing' = IF cmd = "CONT" THEN writing ELSE cmd = "WFN"
  /\ ready' = FALSE /\ overrun' = FALSE /\ out' = 0
  /\ UNCHANGED <<pos, present, writable, tape, cell>>

Respond(byte) ==
  /\ ready' = FALSE /\ out' = byte
  /\ UNCHANGED <<deckVars, tape, writing, overrun, cell>>

AdapterKeeps == UNCHANGED <<deckVars, adapterVars>>

(* A cell passes under the head.                                           *)
TapePasses ==
  /\ Passes
  /\ IF pos' \in 1 .. Cells
       THEN /\ ready' = TRUE /\ overrun' = (overrun \/ ready)
            /\ IF ~writing THEN cell' = tape[pos'] /\ UNCHANGED tape
               ELSE /\ tape' = IF writable THEN [tape EXCEPT ![pos'] = out] ELSE tape
                    /\ UNCHANGED cell
       ELSE UNCHANGED <<ready, overrun, cell, tape>>
  /\ UNCHANGED <<present, writable, writing, out, ctlVars>>

(* The drive writes bytes in leader too, and asks for the next.            *)
LeaderByte ==
  /\ writing /\ motion = "fwd" /\ Leader
  /\ ready' = TRUE /\ overrun' = (overrun \/ ready)
  /\ UNCHANGED <<deckVars, tape, writing, cell, out, ctlVars>>

-----------------------------------------------------------------------------
(* T98_Read and T98_Write.                                                 *)

At(place, c) == pc' = place /\ call' = c
Waits(place, c) == At(place, c) /\ expired' = FALSE

(* fin: the drive is stopped.  Mutant: only what went wrong stops it.      *)
FinCarelessly ==
  /\ pc = "fin"
  /\ IF call.stat = {} \/ call.op = "rewind" THEN AdapterKeeps ELSE T98_Cmd("STOP")
  /\ At("prompt", call) /\ Attn' = FALSE
  /\ UNCHANGED <<bf, expired, commands, cuts>>

Fin ==
  /\ pc = "fin"
  /\ T98_Cmd("STOP")
  /\ At("prompt", call) /\ Attn' = FALSE
  /\ UNCHANGED <<bf, expired, commands, cuts>>

Fails(stat) == At("fin", [call EXCEPT !.stat = stat])

Goes == UNCHANGED <<Attn, commands, cuts>>

(* Before looking for data ensure the exception has cleared; the buffer is *)
(* emptied then.  Mutant: the time is not looked at.                       *)
ClearTimeless ==
  /\ pc = "clear"
  /\ ~Exception
  /\ At("byte", [call EXCEPT !.op = "read"])
  /\ bf' = <<>>
  /\ AdapterKeeps /\ Goes /\ UNCHANGED expired

Clear ==
  /\ pc = "clear"
  /\ \/ /\ ~Exception
        /\ At("byte", [call EXCEPT !.op = "read"])
        /\ bf' = <<>>
     \/ Exception /\ expired /\ Fails({"TIMEOUTCLR"}) /\ UNCHANGED bf
  /\ AdapterKeeps /\ Goes /\ UNCHANGED expired

(* Mutant: an overrun is not looked at.                                    *)
ReadByteOverrun ==
  LET wrong == Flags \cap {"NOCASS", "LDR"} IN
    /\ pc = "byte"
    /\ Respond(0)
    /\ \/ wrong # {} /\ Fails(wrong) /\ UNCHANGED <<bf, expired>>
       \/ wrong = {} /\ ready /\ Len(bf) = call.size /\ Fails({"BUFFULL"}) /\ UNCHANGED <<bf, expired>>
       \/ /\ wrong = {} /\ (ready => Len(bf) < call.size)
          /\ bf' = IF ready THEN Append(bf, cell) ELSE bf
          /\ Waits("exception", call)
    /\ Goes

ReadByte ==
  LET wrong == Flags \cap {"NOCASS", "LDR", "DORN"} IN
    /\ pc = "byte"
    /\ Respond(0)
    /\ \/ wrong # {} /\ Fails(wrong) /\ UNCHANGED <<bf, expired>>
       \/ wrong = {} /\ ready /\ Len(bf) = call.size /\ Fails({"BUFFULL"}) /\ UNCHANGED <<bf, expired>>
       \/ /\ wrong = {} /\ (ready => Len(bf) < call.size)
          /\ bf' = IF ready THEN Append(bf, cell) ELSE bf
          /\ Waits("exception", call)
    /\ Goes

(* T98__WaitForException; after the last byte written its cause is not     *)
(* looked at.                                                              *)
Polled ==
  IF call.op = "read" THEN At("byte", call)
  ELSE IF call.next > Len(bf) THEN At("fin", call)
  ELSE At("data", call)

WaitForException ==
  /\ pc = "exception"
  /\ \/ Exception /\ Polled
     \/ ~Exception /\ expired /\ Fails({"TIMEOUTDRDY"})
     \/ ~Exception /\ ~expired /\ Attn /\ Fails({"INTR"})
  /\ AdapterKeeps /\ Goes /\ UNCHANGED <<bf, expired>>

(* T98_Write waits till the tape has left the leader ...                   *)
OutOfLeader ==
  LET wrong == Flags \cap {"NOCASS", "NOWRITE"} IN
    \/ wrong # {} /\ Fails(wrong)
    \/ wrong = {} /\ ~Leader /\ At(IF bf = <<>> THEN "fin" ELSE "data", [call EXCEPT !.next = 1])
    \/ wrong = {} /\ Leader /\ expired /\ Fails({"TIMEOUTCLR"})
    \/ wrong = {} /\ Leader /\ ~expired /\ At("leader", call)

StartWriting ==
  /\ pc = "write"
  /\ T98_Cmd("WFN")
  /\ OutOfLeader
  /\ Goes /\ UNCHANGED <<bf, expired>>

InLeader ==
  /\ pc = "leader"
  /\ AdapterKeeps
  /\ OutOfLeader
  /\ Goes /\ UNCHANGED <<bf, expired>>

(* ... and sends byte after byte.  Mutant: also into leader.               *)
WriteByteLeader ==
  LET wrong == Flags \cap {"NOCASS", "DORN"} IN
    /\ pc = "data"
    /\ Respond(bf[call.next])
    /\ \/ wrong # {} /\ Fails(wrong) /\ UNCHANGED expired
       \/ wrong = {} /\ Waits("exception", [call EXCEPT !.next = @ + 1])
    /\ Goes /\ UNCHANGED bf

WriteByte ==
  LET wrong == Flags \cap {"NOCASS", "LDR", "DORN"} IN
    /\ pc = "data"
    /\ Respond(bf[call.next])
    /\ \/ wrong # {} /\ Fails(wrong) /\ UNCHANGED expired
       \/ wrong = {} /\ Waits("exception", [call EXCEPT !.next = @ + 1])
    /\ Goes /\ UNCHANGED bf

-----------------------------------------------------------------------------
(* The drive commands of main.c.                                           *)

Drive(cmd) ==
  /\ T98_Cmd(cmd)
  /\ At("prompt", [Idle EXCEPT !.op = "cmd"])
  /\ UNCHANGED <<bf, expired>>

(* rimage, with the buffer cut to the size asked for.                      *)
ReadImage(fast, maxBytes) ==
  LET cut == SubSeq(bf, 1, Min({maxBytes, Len(bf)}))
      c   == [op |-> "start", stat |-> {}, size |-> maxBytes, next |-> 0]
  IN /\ T98_Cmd(IF fast THEN "RFH" ELSE "RFN")
     /\ bf' = cut
     /\ IF present THEN Waits("clear", c)
        ELSE At("fin", [c EXCEPT !.stat = {"NOCASS"}]) /\ UNCHANGED expired

WriteImage == AdapterKeeps /\ Waits("write", [Idle EXCEPT !.op = "write"]) /\ UNCHANGED bf

(* rewind: till the tape is out of leader, or stopped when time is up.     *)
StartRewind == AdapterKeeps /\ Waits("rewind", [Idle EXCEPT !.op = "rewind"]) /\ UNCHANGED bf

Rewind ==
  /\ pc = "rewind"
  /\ T98_Cmd("RRH")
  /\ \/ ~Leader /\ At("prompt", call) /\ Attn' = FALSE
     \/ Leader /\ expired /\ At("fin", call) /\ UNCHANGED Attn
     \/ Leader /\ ~expired /\ At("rewind", call) /\ UNCHANGED Attn
  /\ UNCHANGED <<bf, expired, commands, cuts>>

Stays == AdapterKeeps /\ UNCHANGED <<pc, call, expired>>

DriveWords == <<"RFN", "RFH", "RRN", "RRH", "WFN", "STOP", "CONT">>

(* An interrupt at the prompt is kept for the command; Cp_Cmd forgets what *)
(* came before it.                                                         *)
Interactive(line) ==
  LET d == Cp_Cmd(line, Len(bf)) IN
    /\ pc = "prompt" /\ commands < MaxCommands /\ commands' = commands + 1
    /\ \/ d.cmd = "rimage" /\ ReadImage(d.nums[1] = 1, d.nums[3])
       \/ d.cmd = "wimage" /\ WriteImage
       \/ d.cmd = "rewind" /\ StartRewind
       \/ d.cmd = "status" /\ Drive("CONT")
       \/ d.cmd = "stop" /\ Drive("STOP")
       \/ d.cmd = "drive" /\ Drive(DriveWords[d.nums[1]])
       \/ /\ d.cmd \in {"open", "mark", "load", "cleanup", "truncate", "zeroes", "bset"}
          /\ bf' \in Images
          /\ At("prompt", Idle) /\ AdapterKeeps /\ UNCHANGED expired
       \/ /\ d.cmd \in {"save", "buf", "list", "store", "help", "?", "number", "refused"}
          /\ Stays /\ UNCHANGED bf
       \/ d.cmd = "quit" /\ At("quit", call) /\ AdapterKeeps /\ UNCHANGED <<bf, expired>>
    /\ Attn' = (Attn /\ pc' # "prompt") /\ UNCHANGED cuts

-----------------------------------------------------------------------------
(* Users and time.                                                         *)

Attn__handler ==
  /\ cuts < MaxCuts /\ cuts' = cuts + 1
  /\ Attn' = TRUE
  /\ AdapterKeeps /\ UNCHANGED <<pc, call, bf, expired, commands>>

Eject ==
  /\ present /\ cuts < MaxCuts /\ cuts' = cuts + 1
  /\ present' = FALSE /\ writable' = FALSE /\ motion' = "stop"
  /\ UNCHANGED <<pos, adapterVars, pc, call, bf, Attn, expired, commands>>

Clock ==
  /\ pc \in {"clear", "exception", "leader", "rewind"} /\ ~expired /\ expired' = TRUE
  /\ AdapterKeeps /\ UNCHANGED <<pc, call, bf, Attn, commands, cuts>>

(* T98_Open has stopped the drive.                                         *)
Init ==
  /\ DeckInit
  /\ tape = Blank /\ writing = FALSE /\ ready = FALSE /\ overrun = FALSE
  /\ cell = 0 /\ out = 0
  /\ pc = "prompt" /\ call = Idle /\ bf = <<>>
  /\ Attn = FALSE /\ expired = FALSE /\ commands = 0 /\ cuts = 0

Controller ==
  \/ Clear \/ ReadByte \/ WaitForException
  \/ StartWriting \/ InLeader \/ WriteByte
  \/ Fin \/ Rewind

Next ==
  \/ Controller
  \/ \E line \in Lines : Interactive(line)
  \/ TapePasses \/ LeaderByte
  \/ Attn__handler \/ Eject \/ Clock

Spec == Init /\ [][Next]_vars

(* The program runs, a moving tape moves on, and time passes.              *)
FairSpec == Spec /\ WF_vars(Controller) /\ WF_vars(TapePasses) /\ WF_vars(Clock)

-----------------------------------------------------------------------------
(* Properties.                                                             *)

RunOfTape(s, at) == \A i \in DOMAIN s : at + i \in 1 .. Cells /\ s[i] = tape[at + i]

(* What a read has put into the buffer are the bytes of cells that follow  *)
(* each other, however late the controller polls (t98_65.c lines 190 to    *)
(* 205): a byte that was missed ends the read.                             *)
ReadFaithful == call.op = "read" => \E at \in 0 .. Cells : RunOfTape(bf, at)

(* When a write returns no error the image is on the tape (t98_65.c lines  *)
(* 244 to 256), also when the controller was late; but for the last byte,  *)
(* if tape or cassette came to an end just then.                           *)
WriteFaithful ==
  pc = "prompt" /\ call.op = "write" /\ call.stat = {} =>
    LET safe == IF Leader \/ ~present THEN Len(bf) - 1 ELSE Len(bf) IN
      \E at \in 0 .. Cells : RunOfTape(SubSeq(bf, 1, safe), at)

(* A read or write, however it ended, leaves the drive stopped (t98_65.c   *)
(* lines 207 and 258), and a rewind does not leave it pulling at a tape    *)
(* that is wound up (main.c lines 304 to 313).                             *)
AtRest ==
  pc = "prompt" =>
    /\ call.op \in {"start", "read", "write"} => motion = "stop"
    /\ call.op = "rewind" => ~(pos = 0 /\ motion = "rev")

(* A line typed at the prompt, its words written out or as short as they   *)
(* may be, does what the help text says of it, but for two kinds of line   *)
(* that are refused: clean with zeroes written out, and rimage with full   *)
(* before fast (helpdoc.txt lines 151 and 203).  What the code takes in    *)
(* their place does what was meant, and a line with a word too many, too   *)
(* few or too short is refused (cp.c, util.c lines 208 to 262, and the     *)
(* table and argument parsing of main.c).                                  *)
FormsHold  == ToldHolds(2, {"f"}) /\ TakenHolds(2, {"f"})

(* Every drive command comes back to the prompt: each wait has its time.   *)
CommandEnds == pc # "prompt" ~> pc \in {"prompt", "quit"}

=============================================================================
