--------------------------------- MODULE Relay ---------------------------------
(***************************************************************************)
(* The tape controller of tp9830 (software/tp9830/t98_mpsi.c under the     *)
(* drive commands of main.c) and the MTAPE relay it talks to, a program    *)
(* that runs on the HP (software/machine/mbb.s), with the interface        *)
(* between them and the HP's own cassette drive.                           *)
(*                                                                         *)
(* The controller sends a directive, waits for a request, which carries    *)
(* the reply, and fetches it.  The relay posts a reply, which clears the   *)
(* acknowledge bit, and polls that bit for the next directive.  The user   *)
(* may interrupt the wait at one side and stop the relay at the other.     *)
(*                                                                         *)
(* A byte that is read stands for itself by the number of its cell.        *)
(***************************************************************************)
EXTENDS MpsiPld, TapeDeck, SequencesExt, FiniteSets

CONSTANTS
  MaxByte,    \* 255; a greater value in an image is a BOF
  BufferMax,  \* BUFFER_MAXBYTES, 6000
  Oks,        \* replies out of leader before a read begins, 5
  Sizes,      \* sizes of the buffer for a read
  Images,     \* what may be written
  MaxCommands, MaxCuts,  \* bounds on the commands and on the users' cutting in
  Garbled     \* what the relay may read from a register that shifts

VARIABLES
  pc,       \* where the controller is in T98__Exec
  dir,      \* the directive it sends
  sr,       \* the reply it has fetched
  call,     \* what it is doing: the caller of T98__Exec and its locals
  bf,       \* cells the command has read
  image,    \* the image it writes
  Attn,     \* the user's interrupt
  expired,  \* the caller's timeout is over
  relay,    \* where the relay is
  reply,    \* what it will post
  stack,    \* bytes pushed, oldest first
  latched,  \* the cell whose byte the drive has ready, or 0
  tape,     \* the values of the cells
  executed, \* how often the directive now sent has been executed
  upset,    \* "no", or why controller and relay may be out of step
  commands, \* how many commands the user has given
  cuts      \* how often users cut in

ctlVars   == <<pc, dir, sr, call, bf, image, Attn, expired, upset, commands, cuts>>
relayVars == <<relay, reply, stack, latched, tape, executed>>
vars      == <<pldVars, ceo, deckVars, ctlVars, relayVars>>

Cmd(c)     == [kind |-> "cmd", cmd |-> c, wait |-> FALSE]
AwaitByte  == [kind |-> "cmd", cmd |-> "CONT", wait |-> TRUE]
Push(byte) == [kind |-> "push", byte |-> byte]
Write(sub) == [kind |-> "write", sub |-> sub]
Nothing    == [kind |-> "none"]

Result(flags, cell) == [dev |-> "general", stat |-> flags, cell |-> cell]
Idle == [op |-> "none", oks |-> 0, stat |-> {}, size |-> 0, seg |-> 0, left |-> 0]

(* T98_Open sends a stop; MTAPE may be running by then or not.             *)
Init ==
  /\ PldInit /\ ack = 1 /\ out = [flags |-> {}, dir |-> Nothing]
  /\ DeckInit
  /\ pc = "send" /\ dir = Cmd("STOP") /\ sr = NoWord
  /\ call = [Idle EXCEPT !.op = "cmd"]
  /\ bf = <<>> /\ image = <<>> /\ Attn = FALSE /\ expired = FALSE
  /\ \/ relay = "off" /\ reply = NoWord
     \/ relay = "post" /\ reply = Result({}, 0)
  /\ stack = <<>> /\ latched = 0
  /\ tape = [p \in 1 .. Cells |-> 0]
  /\ executed = 0 /\ upset = "start" /\ commands = 0 /\ cuts = 0

-----------------------------------------------------------------------------
(* T98__Exec and MPSI_Transfer: CTL falls, the word shifts, CTL rises.     *)

CtlKeeps == UNCHANGED <<ceo, deckVars, relayVars>>

Send ==
  /\ pc = "send"
  /\ CtlFalls
  /\ pc' = "sending"
  /\ CtlKeeps /\ UNCHANGED <<dir, sr, call, bf, image, Attn, expired, upset, commands, cuts>>

Sent ==
  /\ pc = "sending"
  /\ CtlRises([flags |-> {"ACK"}, dir |-> dir])
  /\ pc' = "wait"
  /\ executed' = 0
  /\ UNCHANGED <<ceo, deckVars, dir, sr, call, bf, image, Attn, expired, upset, commands, cuts>>
  /\ UNCHANGED <<relay, reply, stack, latched, tape>>

(* Mutant: the reply is fetched without a wait.                            *)
FetchAtOnce ==
  /\ pc = "wait"
  /\ sr' = IF data_av THEN ir ELSE Result({}, 0)
  /\ CtlFalls
  /\ pc' = "fetching"
  /\ CtlKeeps /\ UNCHANGED <<dir, call, bf, image, Attn, expired, upset, commands, cuts>>

(* The request is there, and with it the reply.                            *)
Fetch ==
  /\ pc = "wait" /\ data_av
  /\ sr' = ir
  /\ CtlFalls
  /\ pc' = "fetching"
  /\ CtlKeeps /\ UNCHANGED <<dir, call, bf, image, Attn, expired, upset, commands, cuts>>

-----------------------------------------------------------------------------
(* The callers of T98__Exec, as continuations of a result.                 *)

Exec(op, d, c) ==
  /\ call' = [c EXCEPT !.op = op] /\ dir' = d /\ pc' = "send"
  /\ expired' = (expired /\ op \in {"start", "rewind"}) /\ UNCHANGED Attn

(* Back at the prompt, Cp_Cmd forgets an interrupt.                        *)
Prompt(c) ==
  /\ call' = [Idle EXCEPT !.op = c.op, !.stat = c.stat]
  /\ pc' = "prompt" /\ UNCHANGED dir
  /\ Attn' = FALSE /\ expired' = FALSE

(* Mutant: a read that fails does not stop the drive.                      *)
StoppingNot(flags) == Prompt([call EXCEPT !.stat = flags])

Stopping(flags) == Exec("fin", Cmd("STOP"), [call EXCEPT !.stat = flags])

CmdReturns(stat) ==
  /\ call.op = "cmd"
  /\ Prompt([call EXCEPT !.stat = stat])
  /\ UNCHANGED bf

(* main.c: rewind, until the tape is out of the leader or time is up.      *)
(* Mutant: the time is not looked at.                                      *)
RewindTimeless(stat) ==
  /\ call.op = "rewind"
  /\ IF "LDR" \in stat THEN Exec("rewind", dir, call)
     ELSE Prompt([call EXCEPT !.stat = stat])
  /\ UNCHANGED bf

RewindReturns(stat) ==
  /\ call.op = "rewind"
  /\ \/ "LDR" \notin stat /\ Prompt([call EXCEPT !.stat = stat])
     \/ "LDR" \in stat /\ expired /\ Exec("cmd", Cmd("STOP"), call)
     \/ "LDR" \in stat /\ ~expired /\ Exec("rewind", dir, call)
  /\ UNCHANGED bf

(* T98_Read: get out of the leader ...                                     *)
StartReturns(stat) ==
  LET wrong == stat \ {"NOWRITE"}
      oks   == IF wrong = {} THEN call.oks + 1 ELSE 0
  IN /\ call.op = "start"
     /\ \/ wrong \notin {{}, {"LDR"}} /\ Stopping(wrong)
        \/ wrong = {} /\ oks >= Oks /\ Exec("byte", AwaitByte, call)
        \/ /\ wrong \in {{}, {"LDR"}} /\ oks < Oks
           /\ IF expired THEN Stopping({"TIMEOUTCLR"})
              ELSE Exec("start", dir, [call EXCEPT !.oks = oks])
     /\ UNCHANGED bf

(* ... then byte after byte ...                                            *)
(* Mutant: whatever comes is a byte.                                       *)
ByteUnchecked(stat, cell) ==
  /\ call.op = "byte"
  /\ IF stat \ {"NOWRITE"} # {} THEN Stopping(stat) ELSE Exec("byte", dir, call)
  /\ bf' = IF Len(bf) < call.size THEN Append(bf, cell) ELSE bf

ByteReturns(stat, cell) ==
  LET wrong == stat \ {"NOWRITE"} IN
    /\ call.op = "byte"
    /\ \/ wrong # {} /\ Stopping(wrong) /\ UNCHANGED bf
       \/ wrong = {} /\ Len(bf) = call.size /\ Stopping({"BUFFULL"}) /\ UNCHANGED bf
       \/ /\ wrong = {} /\ Len(bf) < call.size
          /\ bf' = Append(bf, cell)
          /\ Exec("byte", dir, call)

(* ... and stop the drive.                                                 *)
FinReturns ==
  /\ call.op = "fin"
  /\ Prompt(call)
  /\ UNCHANGED bf

(* T98_Write: a segment ends before the next BOF, or with the image.       *)
Bofs(img, s)   == {j \in s + 1 .. Len(img) : img[j] > MaxByte}
SegEnd(img, s) == IF Bofs(img, s) = {} THEN Len(img) ELSE Min(Bofs(img, s)) - 1
After(img, s)  == IF Bofs(img, s) = {} THEN Len(img) ELSE Min(Bofs(img, s))

SubDirective(img, s) ==
  {IF s = 0 THEN "CLRLDR" ELSE "FBOF"} \cup IF After(img, s) < Len(img) THEN {"WBOF"} ELSE {}

(* Its bytes go last to first, then the segment is written.                *)
Pushing(img, c) ==
  IF c.left > c.seg THEN Exec("push", Push(img[c.left]), [c EXCEPT !.left = @ - 1])
  ELSE Exec("write", Write(SubDirective(img, c.seg)), c)

(* Mutant: an odd segment is written as it is.                             *)
SegmentOdd(img, s) ==
  LET c == [Idle EXCEPT !.seg = s, !.left = SegEnd(img, s)] IN
    IF c.left - s > BufferMax THEN Prompt([c EXCEPT !.op = "write", !.stat = {"SEGTOOLARGE"}])
    ELSE Pushing(img, c)

Segment(img, s) ==
  LET c == [Idle EXCEPT !.seg = s, !.left = SegEnd(img, s)] IN
    IF c.left - s > BufferMax THEN Prompt([c EXCEPT !.op = "write", !.stat = {"SEGTOOLARGE"}])
    ELSE IF (c.left - s) % 2 # 0 THEN Exec("push", Push(0), c)
    ELSE Pushing(img, c)

PushReturns == call.op = "push" /\ Pushing(image, call) /\ UNCHANGED bf

WriteReturns(stat) ==
  /\ call.op = "write"
  /\ IF stat # {} \/ After(image, call.seg) >= Len(image)
       THEN Prompt([call EXCEPT !.stat = stat])
       ELSE Segment(image, After(image, call.seg))
  /\ UNCHANGED bf

Returns(stat, cell) ==
  /\ \/ CmdReturns(stat) \/ RewindReturns(stat)
     \/ StartReturns(stat) \/ ByteReturns(stat, cell) \/ FinReturns
     \/ PushReturns \/ WriteReturns(stat)
  /\ sr' = NoWord /\ UNCHANGED image

(* The reply is in, if it is one of the relay's; or the wait was cut off.  *)
Fetched ==
  /\ pc = "fetching"
  /\ CtlRises([flags |-> {}, dir |-> Nothing])
  /\ Returns(IF sr.dev = "general" THEN sr.stat ELSE {"ERRPROTOCOL"}, sr.cell)
  /\ CtlKeeps /\ UNCHANGED <<upset, commands, cuts>>

Interrupted ==
  /\ pc = "wait" /\ ~data_av /\ Attn
  /\ Returns({"INTR"}, 0)
  /\ upset' = IF upset = "no" THEN "interrupt" ELSE upset
  /\ CtlKeeps /\ UNCHANGED <<pldVars, commands, cuts>>

-----------------------------------------------------------------------------
(* The commands of main.c.                                                 *)

(* The relay is back where it waits, and holds nothing.                    *)
InStep == relay = "await" /\ ack = 0 /\ stack = <<>>

Command ==
  /\ pc = "prompt"
  /\ upset' = IF InStep THEN "no" ELSE upset
  /\ commands < MaxCommands /\ commands' = commands + 1
  /\ CtlKeeps /\ UNCHANGED <<pldVars, sr, cuts>>

DriveCommand(cmd) ==
  /\ Command
  /\ Exec("cmd", Cmd(cmd), Idle)
  /\ bf' = <<>> /\ image' = <<>>

Rewind ==
  /\ Command
  /\ Exec("rewind", Cmd("RRH"), Idle)
  /\ bf' = <<>> /\ image' = <<>>

ReadImage(size) ==
  /\ Command
  /\ Exec("start", Cmd("RFN"), [Idle EXCEPT !.size = size])
  /\ bf' = <<>> /\ image' = <<>>

WriteImage(img) ==
  /\ Command
  /\ Segment(img, 0)
  /\ bf' = <<>> /\ image' = img

Controller == Send \/ Sent \/ Fetch \/ Fetched \/ Interrupted

Operator ==
  \/ \E cmd \in Commands : DriveCommand(cmd)
  \/ Rewind
  \/ \E size \in Sizes : ReadImage(size)
  \/ \E img \in Images : WriteImage(img)

(* SIGINT; at the prompt it is kept for the next command.                  *)
Attn__handler ==
  /\ cuts < MaxCuts /\ cuts' = cuts + 1
  /\ Attn' = TRUE
  /\ CtlKeeps /\ UNCHANGED <<pldVars, pc, dir, sr, call, bf, image, expired, upset, commands>>

Clock ==
  /\ pc # "prompt" /\ call.op \in {"start", "rewind"} /\ expired' = TRUE
  /\ CtlKeeps /\ UNCHANGED <<pldVars, pc, dir, sr, call, bf, image, Attn, upset, commands, cuts>>

-----------------------------------------------------------------------------
(* The relay.                                                              *)

RelayKeeps == UNCHANGED <<ceo, dir, sr, call, bf, image, Attn, expired, pc>>

(* _DirLoop: CEO with the reply.                                           *)
Post ==
  /\ relay = "post"
  /\ CeoRises(reply)
  /\ relay' = "await" /\ reply' = NoWord
  /\ RelayKeeps /\ UNCHANGED <<cfi, deckVars, stack, latched, tape, executed, upset, commands, cuts>>

Replies(flags, cell) == reply' = Result(flags, cell) /\ relay' = "post"

(* _DirCmd: without a wait the status goes back as it is at once; every    *)
(* command empties the stack.                                              *)
CommandDirective(d) ==
  /\ d.kind = "cmd"
  /\ Execute(d.cmd)
  /\ latched' = 0
  /\ IF d.wait THEN relay' = "drive" /\ UNCHANGED <<reply, stack>>
     ELSE Replies(DeckStatus, 0) /\ stack' = <<>>
  /\ UNCHANGED <<pos, tape>>

(* _DirPushByt: the reply is whatever the word on the stack looks like.    *)
PushByte(d) ==
  /\ d.kind = "push"
  /\ stack' = Append(stack, d.byte)
  /\ \E junk \in {{}, {"LDR", "NOCASS", "NOWRITE"}} : Replies(junk, 0)
  /\ UNCHANGED <<pos, motion, latched, tape>>

(* _DirWrite: the tape starts forward to get out of the leader ...         *)
WriteClear(d) ==
  /\ d.kind = "write" /\ "CLRLDR" \in d.sub
  /\ Execute("RFN")
  /\ relay' = IF "WBOF" \in d.sub THEN "leader_bof" ELSE "leader"
  /\ UNCHANGED <<pos, reply, stack, latched, tape>>

(* The bytes as they come off the stack, two to a word, the low one first. *)
Popped == (IF Len(stack) % 2 = 0 THEN <<>> ELSE <<0>>) \o Reverse(stack)

(* ... the buffer goes to the cells behind the head, then the mark and the *)
(* zeroes; what comes to the leader is lost.                               *)
WriteCells(at, bof) ==
  LET cells == Popped \o IF bof THEN <<MaxByte + 1, 0>> ELSE <<>>
      end   == Min({at + Len(cells), Cells + 1})
  IN /\ tape' = [p \in 1 .. Cells |-> IF p \in at + 1 .. end THEN cells[p - at] ELSE tape[p]]
     /\ pos' = end

(* _w_FIN: the drive stops, and the stack is empty again.                  *)
WriteEnds ==
  /\ UNCHANGED <<present, writable>>
  /\ motion' = "stop" /\ stack' = <<>>
  /\ Replies(DeckStatus', 0)

WriteBuffer ==
  /\ relay \in {"leader", "leader_bof"}
  /\ IF present /\ writable THEN ~Leader /\ WriteCells(pos, relay = "leader_bof")
     ELSE UNCHANGED <<pos, tape>>
  /\ WriteEnds
  /\ RelayKeeps /\ UNCHANGED <<pldVars, latched, executed, upset, commands, cuts>>

(* ... or goes back over a BOF, stops, and reads forward to it.            *)
Marks == {p \in 1 .. Min({pos - 1, Cells}) : tape[p] > MaxByte}

WriteAfterMark(d) ==
  LET back == IF ~present \/ Leader THEN pos ELSE IF Marks = {} THEN 0 ELSE Max(Marks) - 1 IN
    /\ d.kind = "write" /\ "FBOF" \in d.sub
    /\ IF present /\ writable /\ back \in 1 .. Cells THEN WriteCells(back + 1, "WBOF" \in d.sub)
       ELSE pos' = back /\ UNCHANGED tape
    /\ WriteEnds
    /\ UNCHANGED latched

Directive(d) ==
  /\ \/ CommandDirective(d) \/ PushByte(d) \/ WriteClear(d) \/ WriteAfterMark(d)
     \/ d.kind = "none" /\ relay' = "off" /\ stack' = <<>>
        /\ Execute("STOP") /\ UNCHANGED <<pos, reply, latched, tape>>
  /\ executed' = IF executed < 2 THEN executed + 1 ELSE 2
  /\ UNCHANGED <<present, writable>>
  /\ RelayKeeps /\ UNCHANGED <<pldVars, upset, commands, cuts>>

(* _waitForDir: the acknowledge bit says that there is a directive; while  *)
(* the register shifts it can look like any.                               *)
Take ==
  /\ relay = "await" /\ ack = 1
  /\ \E d \in IF out = NoWord THEN Garbled ELSE {out.dir} : Directive(d)

(* _cmd_waitLoop: until a byte is there, or the drive has an exception.    *)
DriveReady ==
  /\ relay = "drive"
  /\ latched # 0 \/ Leader \/ ~present
  /\ Replies(DeckStatus, latched)
  /\ stack' = <<>>
  /\ RelayKeeps /\ UNCHANGED <<pldVars, deckVars, latched, tape, executed, upset, commands, cuts>>

(* The drive.  It has a byte ready for a relay that waits for one.         *)
TapePasses ==
  /\ Passes
  /\ latched' = IF relay = "drive" /\ latched = 0 /\ pos' \in 1 .. Cells THEN pos' ELSE latched
  /\ UNCHANGED <<present, writable>>
  /\ RelayKeeps /\ UNCHANGED <<pldVars, relay, reply, stack, tape, executed, upset, commands, cuts>>

(* The user of the HP: the stop key ends the relay, MTAPE starts it.       *)
StopKey ==
  /\ relay \in {"await", "drive"}
  /\ relay' = "off" /\ stack' = <<>>
  /\ Execute("STOP")
  /\ cuts < MaxCuts /\ cuts' = cuts + 1 /\ UNCHANGED commands
  /\ upset' = "stopped"
  /\ UNCHANGED <<pos, present, writable>>
  /\ RelayKeeps /\ UNCHANGED <<pldVars, reply, latched, tape, executed>>

Start ==
  /\ relay = "off"
  /\ Replies({}, 0)
  /\ UNCHANGED <<stack, latched, tape, executed, upset, commands, cuts>>
  /\ RelayKeeps /\ UNCHANGED <<pldVars, deckVars>>

RelayNext == Post \/ Take \/ WriteBuffer \/ DriveReady

Next ==
  \/ Controller \/ Operator \/ Attn__handler \/ Clock
  \/ RelayNext \/ TapePasses \/ StopKey \/ Start

Spec == Init /\ [][Next]_vars

(* The operation goes on by itself where no user interferes, and the drive *)
(* runs.                                                                   *)
FairSpec ==
  /\ Spec
  /\ WF_vars(Controller) /\ WF_vars(RelayNext) /\ WF_vars(TapePasses) /\ WF_vars(Clock)

-----------------------------------------------------------------------------
(* Properties.                                                             *)

Directives ==
  {Cmd(c) : c \in Commands} \cup {AwaitByte, Nothing} \cup {Push(b) : b \in 0 .. MaxByte}
    \cup {Write(sub) : sub \in SUBSET {"CLRLDR", "FBOF", "WBOF"}}

(* A register that is not shifting tells its directive from NoWord; a read *)
(* waits for the drive to be out of the leader more than once (t98_mpsi.c  *)
(* line 163): the first reply may be a late one to an earlier directive.   *)
ASSUME RelayAssumption ==
  /\ Cells \in Nat /\ Oks \in Nat /\ Oks >= 2
  /\ \A d \in Directives : NoWord # [flags |-> {"ACK"}, dir |-> d]

ASSUME ImagesAssumption == MaxByte \in Nat /\ Images \subseteq Seq(Nat)

(* A directive, garbled or not, has eight bits for a byte to push.         *)
ASSUME TypesAssumption ==
  /\ Sizes \subseteq Nat
  /\ \A d \in Garbled : d.kind = "push" => d.byte \in 0 .. MaxByte

(* The places of controller and relay, the directive, and the tape.        *)
TypeOK ==
  /\ pc \in {"send", "sending", "wait", "fetching", "prompt"}
  /\ dir \in Directives
  /\ relay \in {"off", "post", "await", "drive", "leader", "leader_bof"}
  /\ motion \in {"stop", "fwd", "rev"} /\ pos \in 0 .. Cells + 1
  /\ tape \in [1 .. Cells -> 0 .. MaxByte + 1]
  /\ pc # "prompt" => Len(bf) <= call.size
  /\ upset \in {"no", "start", "interrupt", "stopped"}

(* What the controller fetches is the answer to the directive it sent, and *)
(* the relay has executed that once (t98_mpsi.c lines 71 to 76 against the *)
(* polling of _waitForDir), unless a user cut in since both were in step.  *)
OncePerDirective == pc = "fetching" /\ upset = "no" => executed = 1

(* The cells that a read gives are cells of the tape, in their order and   *)
(* none twice (t98_mpsi.c lines 172 to 183), also when the wait was cut    *)
(* off and the relay answers late: only a relay started anew makes one up. *)
ReadInOrder ==
  \/ upset \in {"stopped", "start"}
  \/ \A i \in DOMAIN bf : bf[i] \in 1 .. Cells /\ (i > 1 => bf[i - 1] < bf[i])

(* A read or a write that got to the drive and is over has stopped it      *)
(* (t98_mpsi.c line 185 and _w_FIN), and a rewind, or the stop that ends   *)
(* it, does not leave it pulling at tape that is wound up (main.c lines    *)
(* 304 to 313), unless a user cut in.                                      *)
Over == call.op \in {"start", "byte", "fin", "write"} /\ call.stat # {"SEGTOOLARGE"}
Rewound == call.op = "rewind" \/ (call.op = "cmd" /\ dir = Cmd("STOP"))
DriveAtRest ==
  pc = "prompt" /\ upset = "no" =>
    /\ Over => motion = "stop"
    /\ Rewound => ~(pos = 0 /\ motion = "rev")

(* t98_mpsi.c line 185, "stop drive": a read however it ended leaves the   *)
(* drive to stop before the next command, as long as nobody stops the      *)
(* relay and the relay does not leave by itself.                           *)
ReadStopsDrive ==
  pc = "prompt" /\ call.op = "fin" ~> motion = "stop" \/ pc # "prompt" \/ relay = "off"

(* After a write that reports no error the tape holds the image (t98_mpsi.c*)
(* lines 211 to 243): each cell in its place behind the head, a zero more  *)
(* after every odd segment before it, and every BOF but a last one.        *)
OddBefore(img, j) ==
  Cardinality({b \in 1 .. j :
    /\ img[b] > MaxByte
    /\ (b - 1 - Max({0} \cup {a \in 1 .. b - 1 : img[a] > MaxByte})) % 2 # 0})
Holds(img, at) ==
  \A j \in DOMAIN img :
    img[j] <= MaxByte \/ j < Len(img) =>
      /\ at + j + OddBefore(img, j) \in 1 .. Cells
      /\ tape[at + j + OddBefore(img, j)] = Min({img[j], MaxByte + 1})
WriteFaithful ==
  pc = "prompt" /\ call.op = "write" /\ call.stat = {} /\ upset = "no" =>
    \E at \in 0 .. Cells : Holds(image, at)

(* Every command comes back to the prompt: what it loops for comes, or its *)
(* time is up (t98_mpsi.c lines 155 to 183, main.c line 309); unless users *)
(* cut in, or the relay writes and sees the tape end in leader, where its  *)
(* loop _w_ldrLoop has no way out.                                         *)
CommandEnds ==
  pc # "prompt" ~> \/ pc = "prompt" \/ upset # "no"
                   \/ relay \in {"leader", "leader_bof"} /\ pos = Cells + 1

=============================================================================
