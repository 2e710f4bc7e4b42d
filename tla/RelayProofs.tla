------------------------------ MODULE RelayProofs ------------------------------
(***************************************************************************)
(* Proofs about Relay, for every tape, every buffer and any number of      *)
(* commands and interferences.                                             *)
(*                                                                         *)
(* InPhase says what OncePerDirective needs: as long as no user has cut    *)
(* in, the relay waits while the controller does not, and a directive that *)
(* is out is either not looked at yet, or being executed, or executed and  *)
(* answered.  Driven adds what an executed directive has done to the drive *)
(* by then (DriveAtRest), and Reading that from the second reply of a read *)
(* on controller and relay are in step whatever came before (ReadInOrder). *)
(* Filling follows an image from the controller over the stack to the      *)
(* tape (WriteFaithful), and CtlTypes and RelayTypes hold whoever cuts in. *)
(***************************************************************************)
EXTENDS Relay, FiniteSetsExt, WellFoundedInduction, FiniteSetTheorems, TLAPS

-----------------------------------------------------------------------------
(* Least and greatest members of sets of numbers, be they finite or not.   *)

LEMMA LeastExists ==
  ASSUME NEW S \in SUBSET Nat, S # {}
  PROVE  Min(S) \in S /\ \A y \in S : Min(S) <= y
<1> DEFINE R == OpToRel(<, Nat)
<1>1. PICK x \in S : \A y \in S : ~(<<y, x>> \in R)
  BY NatLessThanWellFounded, WFMin
<1>2. ASSUME NEW y \in S, y < x PROVE <<y, x>> \in R
  <2>1. <<y, x>> \in Nat \X Nat
    OBVIOUS
  <2>2. <<y, x>>[1] < <<y, x>>[2]
    BY <1>2
  <2>3. QED
    BY <2>1, <2>2, Zenon DEF OpToRel
<1> HIDE DEF R
<1>3. ASSUME NEW y \in S PROVE ~(y < x)
  BY <1>1, <1>2, Zenon
<1>4. \A y \in S : x <= y
  BY <1>3
<1>5. QED
  BY <1>4 DEF Min

LEMMA GreatestExists ==
  ASSUME NEW top \in Int, NEW S \in SUBSET Int, S # {}, \A x \in S : x <= top
  PROVE  Max(S) \in S /\ \A y \in S : Max(S) >= y
<1> DEFINE T == {top - x : x \in S}
<1>1. T # {}
  OBVIOUS
<1>2. \A x \in S : x \in Int /\ top - x \in Nat
  OBVIOUS
<1>3. T \in SUBSET Nat
  BY <1>2
<1>4. Min(T) \in T /\ \A y \in T : Min(T) <= y
  BY <1>1, <1>3, LeastExists
<1>5. PICK x \in S : Min(T) = top - x
  BY <1>4
<1>6. \A y \in S : x >= y
  BY <1>4, <1>5
<1>7. QED
  BY <1>6 DEF Max

-----------------------------------------------------------------------------
(* Controller and relay, in phase.                                         *)

Waiting == relay = "await" /\ ack = 0

InPhase ==
  upset = "no" =>
    /\ pc \in {"prompt", "send", "sending"} => Waiting
    /\ pc = "sending" => ~data_av
    /\ pc = "fetching" => Waiting /\ executed = 1
    /\ pc = "wait" =>
         /\ ctl = 1
         /\ \/ ~data_av /\ executed = 0 /\ relay = "await" /\ ack = 1
            \/ ~data_av /\ executed = 1 /\ relay # "await"
            \/ data_av /\ executed = 1 /\ Waiting

Locations ==
  /\ pc \in {"prompt", "send", "sending", "wait", "fetching"}
  /\ relay = "post" => reply.dev = "general"
  /\ upset \in {"no", "start", "interrupt", "stopped"}

IInv == Locations /\ InPhase

-----------------------------------------------------------------------------
(* What follows a result is the next directive or the prompt.              *)
LEMMA ReturnsWhere ==
  ASSUME NEW stat, NEW cell, Returns(stat, cell)
  PROVE  pc' \in {"send", "prompt"}
<1>1. ASSUME NEW op, NEW d, NEW c, Exec(op, d, c) PROVE pc' = "send"
  BY <1>1 DEF Exec
<1>2. ASSUME NEW c, Prompt(c) PROVE pc' = "prompt"
  BY <1>2 DEF Prompt
<1>3. ASSUME NEW flags, Stopping(flags) PROVE pc' = "send"
  BY <1>1, <1>3 DEF Stopping
<1>4. ASSUME NEW img, NEW c, Pushing(img, c) PROVE pc' = "send"
  BY <1>1, <1>4 DEF Pushing
<1>5. ASSUME NEW img, NEW s, Segment(img, s) PROVE pc' \in {"send", "prompt"}
  BY <1>1, <1>2, <1>4, <1>5 DEF Segment
<1>6. CASE CmdReturns(stat)
  BY <1>2, <1>6 DEF CmdReturns
<1>7. CASE RewindReturns(stat)
  BY <1>1, <1>2, <1>7 DEF RewindReturns
<1>8. CASE StartReturns(stat)
  BY <1>1, <1>3, <1>8 DEF StartReturns
<1>9. CASE ByteReturns(stat, cell)
  BY <1>1, <1>3, <1>9 DEF ByteReturns
<1>10. CASE FinReturns
  BY <1>2, <1>10 DEF FinReturns
<1>11. CASE PushReturns
  BY <1>4, <1>11 DEF PushReturns
<1>12. CASE WriteReturns(stat)
  BY <1>2, <1>5, <1>12 DEF WriteReturns
<1>13. QED
  BY <1>6, <1>7, <1>8, <1>9, <1>10, <1>11, <1>12 DEF Returns

LEMMA InitHolds == Init => IInv
BY DEF Init, Result, IInv, Locations, InPhase

-----------------------------------------------------------------------------
(* The controller.                                                         *)

LEMMA ControllerHolds == IInv /\ Controller => IInv'
<1> SUFFICES ASSUME IInv, Controller PROVE IInv'
  OBVIOUS
<1> USE DEF IInv, Locations, InPhase, Waiting
<1>1. CASE Send
  BY <1>1 DEF Send, CtlFalls, CtlKeeps, relayVars
<1>2. CASE Sent
  <2>1. ack' = 1 /\ ctl' = 1 /\ data_av' = data_av
    BY <1>2 DEF Sent, CtlRises
  <2>2. QED
    BY <1>2, <2>1 DEF Sent
<1>3. CASE Fetch
  BY <1>3 DEF Fetch, CtlFalls, CtlKeeps, relayVars
<1>4. CASE Fetched
  <2>1. pc' \in {"send", "prompt"}
    BY <1>4, ReturnsWhere DEF Fetched
  <2>2. ack' = 0
    BY <1>4 DEF Fetched, CtlRises
  <2>3. QED
    BY <1>4, <2>1, <2>2 DEF Fetched, CtlKeeps, relayVars
<1>5. CASE Interrupted
  <2>1. pc' \in {"send", "prompt"}
    BY <1>5, ReturnsWhere DEF Interrupted
  <2>2. upset' # "no"
    BY <1>5 DEF Interrupted
  <2>3. QED
    BY <1>5, <2>1, <2>2 DEF Interrupted, CtlKeeps, relayVars
<1>6. QED
  BY <1>1, <1>2, <1>3, <1>4, <1>5 DEF Controller

LEMMA OperatorHolds == IInv /\ Operator => IInv'
<1> SUFFICES ASSUME IInv, Operator PROVE IInv'
  OBVIOUS
<1>1. Command
  BY DEF Operator, DriveCommand, Rewind, ReadImage, WriteImage
<1>2. pc' \in {"send", "prompt"}
  <2>1. ASSUME NEW op, NEW d, NEW c, Exec(op, d, c) PROVE pc' = "send"
    BY <2>1 DEF Exec
  <2>2. ASSUME NEW c, Prompt(c) PROVE pc' = "prompt"
    BY <2>2 DEF Prompt
  <2>3. ASSUME NEW img, Segment(img, 0) PROVE pc' \in {"send", "prompt"}
    BY <2>1, <2>2, <2>3 DEF Segment, Pushing
  <2>4. QED
    BY <2>1, <2>3 DEF Operator, DriveCommand, Rewind, ReadImage, WriteImage
<1>3. upset' = IF InStep THEN "no" ELSE upset
  BY <1>1 DEF Command
<1>4. QED
  BY <1>1, <1>2, <1>3 DEF Command, InStep, CtlKeeps, relayVars, pldVars, IInv, Locations,
     InPhase, Waiting

-----------------------------------------------------------------------------
(* The relay.                                                              *)

(* A directive leaves the relay busy, and it has an answer when it posts.  *)
LEMMA DirectiveBusy ==
  ASSUME NEW d, Directive(d), relay = "await"
  PROVE  relay' # "await" /\ (relay' = "post" => reply'.dev = "general")
<1>1. ASSUME NEW flags, NEW cell, Replies(flags, cell)
      PROVE  relay' = "post" /\ reply'.dev = "general"
  BY <1>1 DEF Replies, Result
<1>2. CASE CommandDirective(d)
  BY <1>1, <1>2 DEF CommandDirective
<1>3. CASE PushByte(d)
  BY <1>1, <1>3 DEF PushByte
<1>4. CASE WriteClear(d)
  BY <1>4 DEF WriteClear
<1>5. CASE WriteAfterMark(d)
  BY <1>1, <1>5 DEF WriteAfterMark, WriteEnds
<1>6. QED
  BY <1>2, <1>3, <1>4, <1>5 DEF Directive

LEMMA RelayHolds == IInv /\ (RelayNext \/ Start) => IInv'
<1> SUFFICES ASSUME IInv, RelayNext \/ Start PROVE IInv'
  OBVIOUS
<1> USE DEF IInv, Locations, InPhase, Waiting
<1>1. pc' = pc /\ upset' = upset /\ ctl' = ctl
  BY DEF RelayNext, Start, Post, Take, WriteBuffer, DriveReady, Directive, RelayKeeps,
     CeoRises, pldVars
<1>2. CASE Post
  <2>1. /\ relay = "post" /\ relay' = "await" /\ executed' = executed
        /\ ack' = 0 /\ data_av' = (data_av \/ ctl = 1)
    BY <1>2 DEF Post, CeoRises
  <2>2. QED
    BY <1>1, <2>1
<1>3. CASE Take
  <2>1. relay = "await" /\ ack = 1 /\ UNCHANGED <<ack, data_av>>
    BY <1>3 DEF Take, Directive, pldVars
  <2>2. PICK d : Directive(d)
    BY <1>3 DEF Take
  <2>3. relay' # "await" /\ (relay' = "post" => reply'.dev = "general")
    BY <2>1, <2>2, DirectiveBusy
  <2>4. executed' = IF executed < 2 THEN executed + 1 ELSE 2
    BY <2>2 DEF Directive
  <2>5. QED
    BY <1>1, <2>1, <2>3, <2>4
<1>4. ASSUME WriteBuffer \/ DriveReady \/ Start
      PROVE  /\ relay # "await" /\ relay' = "post" /\ reply'.dev = "general"
             /\ UNCHANGED <<ack, data_av, executed>>
  BY <1>4 DEF WriteBuffer, WriteEnds, DriveReady, Start, Replies, Result, pldVars
<1>5. QED
  BY <1>1, <1>2, <1>3, <1>4 DEF RelayNext

LEMMA OthersHold ==
  IInv /\ (Attn__handler \/ Clock \/ TapePasses \/ StopKey \/ UNCHANGED vars) => IInv'
<1> SUFFICES ASSUME IInv, Attn__handler \/ Clock \/ TapePasses \/ StopKey \/ UNCHANGED vars
             PROVE  IInv'
  OBVIOUS
<1> USE DEF IInv, Locations, InPhase, Waiting
<1>1. CASE StopKey
  BY <1>1 DEF StopKey, RelayKeeps
<1>2. CASE UNCHANGED <<pc, relay, reply, upset, ack, ctl, data_av, executed>>
  BY <1>2
<1>3. QED
  BY <1>1, <1>2 DEF Attn__handler, Clock, TapePasses, RelayKeeps, CtlKeeps, relayVars,
     pldVars, vars, ctlVars

LEMMA NextHolds == IInv /\ [Next]_vars => IInv'
BY ControllerHolds, OperatorHolds, RelayHolds, OthersHold DEF Next

-----------------------------------------------------------------------------
(* What the controller fetches answers the directive it sent, and the      *)
(* relay has executed that exactly once (t98_mpsi.c lines 71 to 76),       *)
(* unless a user cut in since the two were in step.                        *)
THEOREM DirectivesAnswered == Spec => []OncePerDirective
<1>1. IInv => OncePerDirective
  BY DEF IInv, InPhase, OncePerDirective
<1>2. QED
  BY <1>1, InitHolds, NextHolds, PTL DEF Spec

-----------------------------------------------------------------------------
(* The drive at rest.  A directive that was executed has had its effect on *)
(* the drive by the time its answer is on the way: a stop and a write stop *)
(* it, and a rewind that starts in the leader says so in the answer.       *)

Writes  == {Write(sub) : sub \in SUBSET {"CLRLDR", "FBOF", "WBOF"}}
Answer  == IF pc = "fetching" THEN sr ELSE IF data_av THEN ir ELSE reply
Wound   == pos = 0 /\ motion = "rev"
Settled == relay \in {"post", "await"}

Effects ==
  /\ Settled => Answer.dev = "general"
  /\ dir = Cmd("STOP") => motion = "stop"
  /\ dir \in Writes => \/ relay \in {"leader", "leader_bof"}
                       \/ Settled /\ motion = "stop"
  /\ dir = Cmd("RRH") => Settled /\ ("LDR" \in Answer.stat \/ ~Wound)

Purpose ==
  /\ call.op = "fin" => dir = Cmd("STOP")
  /\ call.op = "rewind" => dir = Cmd("RRH")
  /\ call.op = "write" => dir \in Writes

Driven ==
  upset = "no" =>
    /\ pc = "prompt" => call.op \notin {"start", "byte"} /\ DriveAtRest
    /\ pc = "wait" => out = [flags |-> {"ACK"}, dir |-> dir]
    /\ pc = "fetching" \/ (pc = "wait" /\ executed = 1) => Effects

IsCall(c) ==
  c = [op |-> c.op, oks |-> c.oks, stat |-> c.stat, size |-> c.size, seg |-> c.seg,
       left |-> c.left]

Items(s) == {s[i] : i \in DOMAIN s}

RestInv ==
  /\ pos \in Nat /\ stack \in Seq(Items(stack))
  /\ IsCall(call)
  /\ pc # "prompt" => Purpose
  /\ Driven

(* Sequences, and where a write leaves the head.                           *)

LEMMA OwnItems ==
  ASSUME NEW S, NEW s \in Seq(S) PROVE s \in Seq(Items(s))
BY DEF Items

LEMMA AppendedItems ==
  ASSUME NEW s, s \in Seq(Items(s)), NEW e PROVE Append(s, e) \in Seq(Items(Append(s, e)))
<1> DEFINE S == Items(s) \cup {e}
<1>1. s \in Seq(S)
  <2>1. Items(s) \subseteq S
    OBVIOUS
  <2> HIDE DEF S
  <2>2. QED
    BY <2>1
<1>2. Append(s, e) \in Seq(S)
  <2> e \in S
    OBVIOUS
  <2> HIDE DEF S
  <2>2. QED
    BY <1>1
<1>3. QED
  BY <1>2, OwnItems

LEMMA LeastOfTwo ==
  ASSUME NEW a \in Int, NEW b \in Int
  PROVE  Min({a, b}) \in {a, b} /\ Min({a, b}) <= a
<1> DEFINE S == {a, b}
<1>1. PICK x \in S : x <= a /\ \A y \in S : x <= y
  OBVIOUS
<1> HIDE DEF S
<1>2. Min(S) \in S /\ \A y \in S : Min(S) <= y
  BY <1>1 DEF Min
<1>3. QED
  BY <1>2 DEF S

LEMMA PoppedIsLong ==
  ASSUME stack \in Seq(Items(stack)), NEW bof \in BOOLEAN
  PROVE  Len(Popped \o IF bof THEN <<MaxByte + 1, 0>> ELSE <<>>) \in Nat
<1> DEFINE S == Items(stack) \cup {0, MaxByte + 1}
<1>1. stack \in Seq(S)
  <2>1. Items(stack) \subseteq S
    OBVIOUS
  <2> HIDE DEF S
  <2>2. QED
    BY <2>1
<1>2. 0 \in S /\ MaxByte + 1 \in S
  OBVIOUS
<1> HIDE DEF S
<1>3. Reverse(stack) \in Seq(S)
  BY <1>1 DEF Reverse
<1>4. Popped \in Seq(S)
  BY <1>2, <1>3 DEF Popped
<1>5. (IF bof THEN <<MaxByte + 1, 0>> ELSE <<>>) \in Seq(S)
  BY <1>2
<1>6. QED
  BY <1>4, <1>5

LEMMA HeadAfterWrite ==
  ASSUME stack \in Seq(Items(stack)), NEW at \in Nat, NEW bof \in BOOLEAN, WriteCells(at, bof)
  PROVE  pos' \in Nat
<1> DEFINE len == Len(Popped \o IF bof THEN <<MaxByte + 1, 0>> ELSE <<>>)
<1>1. pos' = Min({at + len, Cells + 1})
  BY DEF WriteCells
<1>2. len \in Nat
  BY PoppedIsLong
<1> HIDE DEF len
<1>3. /\ at + len \in Int /\ Cells + 1 \in Int
      /\ at + len \in Nat /\ Cells + 1 \in Nat
  BY <1>2, RelayAssumption
<1>4. pos' \in {at + len, Cells + 1}
  BY <1>1, <1>3, LeastOfTwo
<1>5. QED
  BY <1>3, <1>4

LEMMA LastMark ==
  ASSUME pos \in Nat, Marks # {} PROVE Max(Marks) - 1 \in Nat
<1> DEFINE top == Min({pos - 1, Cells})
<1>1. CASE pos = 0
  <2>1. pos - 1 \in Int /\ Cells \in Int
    BY RelayAssumption
  <2>2. top \in {pos - 1, Cells} /\ top <= pos - 1
    BY <2>1, LeastOfTwo
  <2> HIDE DEF top
  <2>3. 1 .. top = {}
    BY <2>1, <2>2, <1>1
  <2>4. QED
    BY <2>3 DEF Marks, top
<1>2. CASE pos # 0
  <2>1. pos - 1 \in Nat /\ Cells \in Nat
    BY <1>2, RelayAssumption
  <2>2. top \in Nat
    <3>1. pos - 1 \in Int /\ Cells \in Int
      BY <2>1
    <3>2. top \in {pos - 1, Cells}
      BY <3>1, LeastOfTwo
    <3>3. QED
      BY <2>1, <3>2
  <2>3. Marks \subseteq 1 .. top
    BY DEF Marks
  <2> HIDE DEF top
  <2>4. Marks \in SUBSET Int /\ top \in Int /\ \A x \in Marks : x <= top
    BY <2>2, <2>3
  <2>5. Max(Marks) \in Marks
    BY <2>4, GreatestExists
  <2>6. \A x \in Marks : x - 1 \in Nat
    BY <2>2, <2>3
  <2>7. QED
    BY <2>5, <2>6
<1>3. QED
  BY <1>1, <1>2

LEMMA HeadHolds ==
  ASSUME pos \in Nat, stack \in Seq(Items(stack)), [Next]_vars
  PROVE  pos' \in Nat /\ stack' \in Seq(Items(stack'))
<1>1. <<>> \in Seq(Items(<<>>))
  OBVIOUS
<1>2. CASE UNCHANGED <<pos, stack>>
  BY <1>2
<1>3. CASE TapePasses
  <2>1. pos' \in Nat
    BY <1>3 DEF TapePasses, Passes
  <2>2. QED
    BY <1>3, <2>1 DEF TapePasses
<1>4. CASE WriteBuffer
  <2>1. stack' = <<>>
    BY <1>4 DEF WriteBuffer, WriteEnds
  <2>2. WriteCells(pos, relay = "leader_bof") \/ pos' = pos
    BY <1>4 DEF WriteBuffer
  <2>3. QED
    BY <1>1, <2>1, <2>2, HeadAfterWrite
<1>5. ASSUME NEW d, Directive(d) PROVE pos' \in Nat /\ stack' \in Seq(Items(stack'))
  <2>1. CASE PushByte(d)
    BY <2>1, AppendedItems DEF PushByte
  <2>2. CASE WriteAfterMark(d)
    <3> DEFINE back == IF ~present \/ Leader THEN pos
                       ELSE IF Marks = {} THEN 0 ELSE Max(Marks) - 1
    <3>1. back \in Nat
      BY LastMark
    <3>2. \/ back \in 1 .. Cells /\ WriteCells(back + 1, "WBOF" \in d.sub)
          \/ pos' = back
      BY <2>2 DEF WriteAfterMark
    <3> HIDE DEF back
    <3>3. ASSUME WriteCells(back + 1, "WBOF" \in d.sub) PROVE pos' \in Nat
      <4>1. back + 1 \in Nat /\ ("WBOF" \in d.sub) \in BOOLEAN
        BY <3>1
      <4>2. QED
        BY <3>3, <4>1, HeadAfterWrite
    <3>4. stack' = <<>>
      BY <2>2 DEF WriteAfterMark, WriteEnds
    <3>5. QED
      BY <1>1, <3>1, <3>2, <3>3, <3>4
  <2>3. CASE CommandDirective(d) \/ WriteClear(d) \/ d.kind = "none"
    BY <1>1, <1>5, <2>1, <2>2, <2>3 DEF Directive, CommandDirective, WriteClear
  <2>4. QED
    BY <1>5, <2>1, <2>2, <2>3 DEF Directive
<1>6. CASE Take
  BY <1>5, <1>6 DEF Take
<1>7. CASE DriveReady \/ StopKey
  BY <1>1, <1>7 DEF DriveReady, StopKey, deckVars
<1>8. CASE Controller \/ Operator
  BY <1>2, <1>8 DEF Controller, Send, Sent, Fetch, Fetched, Interrupted, Operator, DriveCommand,
     Rewind, ReadImage, WriteImage, Command, CtlKeeps, relayVars, deckVars
<1>9. CASE Attn__handler \/ Clock \/ Post \/ Start \/ UNCHANGED vars
  BY <1>2, <1>9 DEF Attn__handler, Clock, Post, Start, CtlKeeps, relayVars, deckVars, vars
<1>10. QED
  BY <1>3, <1>4, <1>6, <1>7, <1>8, <1>9 DEF Next, RelayNext

(* What the callers of T98__Exec do next.                                  *)
LEMMA ExecCall ==
  ASSUME NEW op, NEW d, NEW c, IsCall(c), Exec(op, d, c)
  PROVE  /\ IsCall(call') /\ call'.op = op /\ call'.oks = c.oks
         /\ dir' = d /\ pc' = "send"
<1>1. call' = [c EXCEPT !.op = op]
  BY DEF Exec
<1>2. call' = [op |-> op, oks |-> c.oks, stat |-> c.stat, size |-> c.size, seg |-> c.seg,
               left |-> c.left]
  BY <1>1 DEF IsCall
<1>3. QED
  BY <1>2 DEF IsCall, Exec

LEMMA PromptCall ==
  ASSUME NEW c, Prompt(c)
  PROVE  /\ IsCall(call') /\ call'.op = c.op /\ call'.stat = c.stat /\ call'.oks = 0
         /\ dir' = dir /\ pc' = "prompt"
<1>1. call' = [op |-> c.op, oks |-> 0, stat |-> c.stat, size |-> 0, seg |-> 0, left |-> 0]
  BY DEF Prompt, Idle
<1>2. IsCall(call')
  BY <1>1 DEF IsCall
<1>3. call'.op = c.op /\ call'.stat = c.stat /\ call'.oks = 0
  BY <1>1
<1>4. QED
  BY <1>2, <1>3 DEF Prompt

LEMMA IdleCall ==
  ASSUME NEW s, NEW l PROVE IsCall([Idle EXCEPT !.seg = s, !.left = l])
<1> DEFINE c == [Idle EXCEPT !.seg = s]
<1>1. IsCall(c)
  BY DEF IsCall, Idle
<1>2. [Idle EXCEPT !.seg = s, !.left = l] = [c EXCEPT !.left = l]
  BY DEF Idle
<1> HIDE DEF c
<1>3. IsCall([c EXCEPT !.left = l])
  BY <1>1 DEF IsCall
<1>4. QED
  BY <1>2, <1>3

Pushes == pc' = "send" /\ call'.op \in {"push", "write"} /\ Purpose'

LEMMA PushingCall ==
  ASSUME NEW img, NEW c, IsCall(c), Pushing(img, c)
  PROVE  IsCall(call') /\ Pushes /\ call'.oks = c.oks
<1>1. CASE c.left > c.seg
  <2> DEFINE e == [c EXCEPT !.left = @ - 1]
  <2>1. Exec("push", Push(img[c.left]), e)
    BY <1>1 DEF Pushing
  <2>2. IsCall(e) /\ e.oks = c.oks
    BY DEF IsCall
  <2> HIDE DEF e
  <2>3. QED
    BY <2>1, <2>2, ExecCall DEF Pushes, Purpose
<1>2. CASE ~(c.left > c.seg)
  <2>1. Exec("write", Write(SubDirective(img, c.seg)), c)
    BY <1>2 DEF Pushing
  <2>2. Write(SubDirective(img, c.seg)) \in Writes
    BY DEF Writes, SubDirective
  <2>3. QED
    BY <2>1, <2>2, ExecCall DEF Pushes, Purpose
<1>3. QED
  BY <1>1, <1>2

TooLarge == pc' = "prompt" /\ call'.op = "write" /\ call'.stat = {"SEGTOOLARGE"}

LEMMA SegmentCall ==
  ASSUME NEW img, NEW s, Segment(img, s)
  PROVE  IsCall(call') /\ (Pushes \/ TooLarge) /\ call'.oks = 0
<1> DEFINE c == [Idle EXCEPT !.seg = s, !.left = SegEnd(img, s)]
<1>1. IsCall(c) /\ c.oks = 0
  BY IdleCall DEF Idle
<1>2. CASE c.left - s > BufferMax
  <2> DEFINE e == [c EXCEPT !.op = "write", !.stat = {"SEGTOOLARGE"}]
  <2>1. Prompt(e)
    BY <1>2 DEF Segment
  <2>2. e.op = "write" /\ e.stat = {"SEGTOOLARGE"}
    BY DEF Idle
  <2> HIDE DEF e
  <2>3. QED
    BY <2>1, <2>2, PromptCall DEF TooLarge
<1>3. CASE ~(c.left - s > BufferMax) /\ (c.left - s) % 2 # 0
  <2>1. Exec("push", Push(0), c)
    BY <1>3 DEF Segment
  <2> HIDE DEF c
  <2>2. QED
    BY <1>1, <2>1, ExecCall DEF Pushes, Purpose
<1>4. CASE ~(c.left - s > BufferMax) /\ (c.left - s) % 2 = 0
  <2>1. Pushing(img, c)
    BY <1>4 DEF Segment
  <2> HIDE DEF c
  <2>2. QED
    BY <1>1, <2>1, PushingCall
<1>5. QED
  BY <1>2, <1>3, <1>4

(* At the prompt the directive is the last one sent.                       *)
Concludes(stat) ==
  /\ pc' = "prompt" /\ dir' = dir
  /\ call'.op = call.op /\ call.op \in {"cmd", "rewind", "fin", "write"}
  /\ call.op = "rewind" => "LDR" \notin stat

LEMMA ReturnsCall ==
  ASSUME NEW stat, NEW cell, IsCall(call), Purpose, Returns(stat, cell)
  PROVE  /\ IsCall(call')
         /\ (pc' = "send" /\ Purpose') \/ Concludes(stat) \/ TooLarge
<1>1. ASSUME NEW flags, Stopping(flags) PROVE IsCall(call') /\ pc' = "send" /\ Purpose'
  <2>1. IsCall([call EXCEPT !.stat = flags])
    BY DEF IsCall
  <2>2. QED
    BY <1>1, <2>1, ExecCall DEF Stopping, Purpose
<1>2. ASSUME NEW flags, Prompt([call EXCEPT !.stat = flags])
      PROVE  IsCall(call') /\ pc' = "prompt" /\ dir' = dir /\ call'.op = call.op
  <2> DEFINE c == [call EXCEPT !.stat = flags]
  <2>1. c.op = call.op
    BY DEF IsCall
  <2> HIDE DEF c
  <2>2. Prompt(c)
    BY <1>2 DEF c
  <2>3. QED
    BY <2>1, <2>2, PromptCall
<1>3. ASSUME CmdReturns(stat) PROVE IsCall(call') /\ Concludes(stat)
  BY <1>2, <1>3 DEF CmdReturns, Concludes
<1>4. ASSUME RewindReturns(stat)
      PROVE  IsCall(call') /\ ((pc' = "send" /\ Purpose') \/ Concludes(stat))
  <2>1. CASE "LDR" \notin stat /\ Prompt([call EXCEPT !.stat = stat])
    BY <1>2, <1>4, <2>1 DEF RewindReturns, Concludes
  <2>2. CASE Exec("cmd", Cmd("STOP"), call)
    BY <2>2, ExecCall DEF Purpose
  <2>3. CASE Exec("rewind", dir, call)
    BY <1>4, <2>3, ExecCall DEF RewindReturns, Purpose
  <2>4. QED
    BY <1>4, <2>1, <2>2, <2>3 DEF RewindReturns
<1>5. ASSUME StartReturns(stat) PROVE IsCall(call') /\ pc' = "send" /\ Purpose'
  <2>1. ASSUME NEW oks, Exec("start", dir, [call EXCEPT !.oks = oks])
        PROVE  IsCall(call') /\ pc' = "send" /\ Purpose'
    <3>1. IsCall([call EXCEPT !.oks = oks])
      BY DEF IsCall
    <3>2. QED
      BY <2>1, <3>1, ExecCall DEF Purpose
  <2>2. CASE Exec("byte", AwaitByte, call)
    BY <2>2, ExecCall DEF Purpose
  <2>3. QED
    BY <1>1, <1>5, <2>1, <2>2 DEF StartReturns
<1>6. ASSUME ByteReturns(stat, cell) PROVE IsCall(call') /\ pc' = "send" /\ Purpose'
  <2>1. CASE Exec("byte", dir, call)
    BY <2>1, ExecCall DEF Purpose
  <2>2. QED
    BY <1>1, <1>6, <2>1 DEF ByteReturns
<1>7. ASSUME FinReturns PROVE IsCall(call') /\ Concludes(stat)
  BY <1>7, PromptCall DEF FinReturns, Concludes
<1>8. ASSUME PushReturns PROVE IsCall(call') /\ pc' = "send" /\ Purpose'
  BY <1>8, PushingCall DEF PushReturns, Pushes
<1>9. ASSUME WriteReturns(stat)
      PROVE  IsCall(call') /\ ((pc' = "send" /\ Purpose') \/ Concludes(stat) \/ TooLarge)
  <2>1. CASE Prompt([call EXCEPT !.stat = stat])
    BY <1>2, <1>9, <2>1 DEF WriteReturns, Concludes
  <2>2. CASE Segment(image, After(image, call.seg))
    BY <2>2, SegmentCall DEF Pushes
  <2>3. QED
    BY <1>9, <2>1, <2>2 DEF WriteReturns
<1>10. QED
  BY <1>3, <1>4, <1>5, <1>6, <1>7, <1>8, <1>9 DEF Returns

LEMMA RestInit == Init => RestInv
<1> SUFFICES ASSUME Init PROVE RestInv
  OBVIOUS
<1>1. pos \in Nat
  BY RelayAssumption DEF Init, DeckInit
<1>2. IsCall(call)
  <2>1. call = [op |-> "cmd", oks |-> 0, stat |-> {}, size |-> 0, seg |-> 0, left |-> 0]
    BY DEF Init, Idle
  <2>2. QED
    BY <2>1 DEF IsCall
<1>3. stack \in Seq(Items(stack))
  BY DEF Init
<1>4. Purpose /\ Driven
  BY DEF Init, Driven, Purpose, Idle
<1>5. QED
  BY <1>1, <1>2, <1>3, <1>4 DEF RestInv

Commanded == IsCall(call) /\ (pc # "prompt" => Purpose) /\ Driven

LEMMA ControllerRests == IInv /\ RestInv /\ Controller => Commanded'
<1> SUFFICES ASSUME IInv, RestInv, Controller PROVE Commanded'
  OBVIOUS
<1> USE DEF RestInv, Commanded
<1>1. CASE Send
  <2>1. /\ pc = "send" /\ pc' = "sending"
        /\ UNCHANGED <<call, dir, upset>>
    BY <1>1 DEF Send
  <2>2. QED
    BY <2>1 DEF Driven, Purpose, IsCall
<1>2. CASE Sent
  <2>1. /\ pc = "sending" /\ pc' = "wait" /\ executed' = 0
        /\ out' = [flags |-> {"ACK"}, dir |-> dir]
        /\ UNCHANGED <<call, dir, upset>>
    BY <1>2 DEF Sent, CtlRises
  <2>2. QED
    BY <2>1 DEF Driven, Purpose, IsCall
<1>3. CASE Fetch
  <2>1. /\ pc = "wait" /\ pc' = "fetching" /\ data_av /\ sr' = ir
        /\ UNCHANGED <<call, dir, upset, relay, pos, motion>>
    BY <1>3 DEF Fetch, CtlKeeps, relayVars, deckVars
  <2>2. upset = "no" => executed = 1
    BY <2>1 DEF IInv, InPhase
  <2>3. Answer' = Answer
    BY <2>1 DEF Answer
  <2>4. upset = "no" => Effects
    BY <2>1, <2>2 DEF Driven
  <2>5. upset = "no" => Effects'
    BY <2>1, <2>3, <2>4 DEF Effects, Settled, Wound
  <2>6. QED
    BY <2>1, <2>5 DEF Driven, Purpose, IsCall
<1>4. CASE Fetched
  <2> DEFINE stat == IF sr.dev = "general" THEN sr.stat ELSE {"ERRPROTOCOL"}
  <2>1. /\ pc = "fetching" /\ Returns(stat, sr.cell)
        /\ UNCHANGED <<upset, relay, pos, motion>>
    BY <1>4 DEF Fetched, CtlKeeps, relayVars, deckVars
  <2>2. /\ IsCall(call')
        /\ (pc' = "send" /\ Purpose') \/ Concludes(stat) \/ TooLarge
    BY <2>1, ReturnsCall
  <2>3. CASE upset = "no"
    <3>1. Purpose /\ Effects /\ Answer = sr
      BY <2>1, <2>3 DEF Driven, Answer
    <3>2. Settled /\ sr.dev = "general"
      BY <2>1, <2>3, <3>1 DEF IInv, InPhase, Waiting, Settled, Effects
    <3>3. CASE Concludes(stat)
      <4>1. stat = Answer.stat
        BY <3>1, <3>2
      <4>2. /\ call.op = "cmd" /\ dir = Cmd("STOP") => motion = "stop"
            /\ call.op \in {"fin", "write"} => motion = "stop"
            /\ call.op = "rewind" => ~Wound
        BY <3>1, <3>2, <3>3, <4>1 DEF Purpose, Effects, Concludes, Settled
      <4>3. DriveAtRest'
        BY <2>1, <3>3, <4>2 DEF DriveAtRest, Over, Rewound, Concludes, Wound
      <4>4. QED
        BY <2>2, <3>3, <4>3 DEF Driven, Concludes
    <3>4. CASE TooLarge
      BY <2>2, <3>4 DEF TooLarge, Driven, DriveAtRest, Over, Rewound
    <3>5. CASE pc' = "send" /\ Purpose'
      BY <2>2, <3>5 DEF Driven
    <3>6. QED
      BY <2>2, <3>3, <3>4, <3>5
  <2>4. CASE upset # "no"
    BY <2>1, <2>2, <2>4 DEF Driven, Concludes, TooLarge
  <2>5. QED
    BY <2>3, <2>4
<1>5. CASE Interrupted
  <2>1. pc = "wait" /\ Returns({"INTR"}, 0) /\ upset' # "no"
    BY <1>5 DEF Interrupted
  <2>2. /\ IsCall(call')
        /\ (pc' = "send" /\ Purpose') \/ Concludes({"INTR"}) \/ TooLarge
    BY <2>1, ReturnsCall
  <2>3. QED
    BY <2>1, <2>2 DEF Driven, Concludes, TooLarge
<1>6. QED
  BY <1>1, <1>2, <1>3, <1>4, <1>5 DEF Controller

LEMMA OperatorRests == IInv /\ RestInv /\ Operator => Commanded'
<1> SUFFICES ASSUME Operator PROVE Commanded'
  OBVIOUS
<1> USE DEF Commanded
<1>1. IsCall(Idle) /\ \A size : IsCall([Idle EXCEPT !.size = size])
  BY DEF IsCall, Idle
<1>2. ASSUME NEW op, NEW d, NEW c, IsCall(c), Exec(op, d, c),
             op \in {"cmd", "start"} \/ (op = "rewind" /\ d = Cmd("RRH"))
      PROVE  Commanded'
  BY <1>2, ExecCall DEF Driven, Purpose
<1>3. CASE (\E cmd \in Commands : DriveCommand(cmd)) \/ Rewind
  BY <1>1, <1>2, <1>3 DEF DriveCommand, Rewind
<1>4. CASE \E size \in Sizes : ReadImage(size)
  BY <1>1, <1>2, <1>4 DEF ReadImage
<1>5. CASE \E img \in Images : WriteImage(img)
  <2>1. IsCall(call') /\ (Pushes \/ TooLarge)
    BY <1>5, SegmentCall DEF WriteImage
  <2>2. CASE Pushes
    BY <2>1, <2>2 DEF Pushes, Driven
  <2>3. CASE TooLarge
    BY <2>1, <2>3 DEF TooLarge, Driven, DriveAtRest, Over, Rewound
  <2>4. QED
    BY <2>1, <2>2, <2>3
<1>6. QED
  BY <1>3, <1>4, <1>5 DEF Operator

-----------------------------------------------------------------------------
(* What a directive does to the drive, and the relay's other steps.        *)
LEMMA DirectiveEffect ==
  ASSUME NEW d, Directive(d), relay = "await"
  PROVE  /\ d = Cmd("STOP") => motion' = "stop"
         /\ d \in Writes => \/ relay' \in {"leader", "leader_bof"}
                            \/ relay' = "post" /\ motion' = "stop"
         /\ d = Cmd("RRH") => relay' = "post" /\ ("LDR" \in reply'.stat \/ ~Wound')
<1>1. ASSUME NEW c \in Commands, d = Cmd(c)
      PROVE  Execute(c) /\ relay' = "post" /\ reply' = Result(DeckStatus, 0) /\ pos' = pos
  BY <1>1 DEF Directive, CommandDirective, PushByte, WriteClear, WriteAfterMark, Cmd, Replies
<1>2. d = Cmd("STOP") => motion' = "stop"
  BY <1>1 DEF Execute, Moves, Commands
<1>3. ASSUME d = Cmd("RRH") PROVE relay' = "post" /\ ("LDR" \in reply'.stat \/ ~Wound')
  <2>1. relay' = "post" /\ reply' = Result(DeckStatus, 0) /\ pos' = pos
    BY <1>1, <1>3 DEF Commands
  <2>2. pos = 0 => "LDR" \in DeckStatus
    BY DEF DeckStatus, Leader
  <2>3. QED
    BY <2>1, <2>2 DEF Result, Wound
<1>4. ASSUME d \in Writes
      PROVE  relay' \in {"leader", "leader_bof"} \/ (relay' = "post" /\ motion' = "stop")
  <2>1. d.kind = "write"
    BY <1>4 DEF Writes, Write
  <2>2. WriteClear(d) \/ WriteAfterMark(d)
    BY <2>1 DEF Directive, CommandDirective, PushByte
  <2>3. QED
    BY <2>2 DEF WriteClear, WriteAfterMark, WriteEnds, Replies
<1>5. QED
  BY <1>2, <1>3, <1>4

LEMMA RelayRests == IInv /\ RestInv /\ (RelayNext \/ Start) => Commanded'
<1> SUFFICES ASSUME IInv, RestInv, RelayNext \/ Start PROVE Commanded'
  OBVIOUS
<1> USE DEF RestInv, Commanded
<1>1. UNCHANGED <<pc, dir, sr, call, upset, out, ctl>>
  BY DEF RelayNext, Start, Post, Take, WriteBuffer, DriveReady, Directive, RelayKeeps,
     CeoRises, pldVars
<1>2. IsCall(call)' /\ (pc # "prompt" => Purpose)'
  BY <1>1 DEF Purpose, IsCall
<1>3. ASSUME upset = "no"
      PROVE  pc = "wait" /\ (executed' = 1 => Effects')
  <2>1. pc = "wait" /\ out = [flags |-> {"ACK"}, dir |-> dir]
    BY <1>3 DEF IInv, Locations, InPhase, Waiting, RelayNext, Start, Post, Take, WriteBuffer,
       DriveReady, Driven
  <2>2. /\ ctl = 1
        /\ \/ ~data_av /\ executed = 0 /\ relay = "await" /\ ack = 1
           \/ ~data_av /\ executed = 1 /\ relay # "await"
           \/ data_av /\ executed = 1 /\ relay = "await" /\ ack = 0
    BY <1>3, <2>1 DEF IInv, InPhase, Waiting
  <2>3. executed = 1 => Effects
    BY <1>3, <2>1 DEF Driven
  <2>4. CASE Post
    <3>1. /\ relay = "post" /\ relay' = "await" /\ ir' = reply /\ data_av'
          /\ UNCHANGED <<executed, pos, motion>>
      BY <2>2, <2>4 DEF Post, CeoRises, deckVars
    <3>2. Effects /\ Answer = reply /\ Answer' = reply
      BY <1>1, <2>1, <2>2, <2>3, <3>1 DEF Answer
    <3>3. QED
      BY <1>1, <2>1, <3>1, <3>2 DEF Effects, Settled, Wound
  <2>5. CASE Take
    <3>1. relay = "await" /\ ack = 1 /\ UNCHANGED data_av
      BY <2>5 DEF Take, Directive, pldVars
    <3>2. PICK d : Directive(d) /\ (out # NoWord => d = out.dir)
      BY <2>5 DEF Take
    <3>3. relay' # "await" /\ (relay' = "post" => reply'.dev = "general")
      BY <3>1, <3>2, DirectiveBusy
    <3>4. Answer' = reply'
      BY <1>1, <2>1, <2>2, <3>1 DEF Answer
    <3>5. ASSUME dir \in Writes \cup {Cmd("STOP"), Cmd("RRH")} PROVE d = dir
      <4>1. dir \in Directives
        BY <3>5 DEF Directives, Writes, Commands
      <4>2. QED
        BY <2>1, <3>2, <4>1, RelayAssumption
    <3>6. /\ dir = Cmd("STOP") => motion' = "stop"
          /\ dir \in Writes => \/ relay' \in {"leader", "leader_bof"}
                               \/ relay' = "post" /\ motion' = "stop"
          /\ dir = Cmd("RRH") => relay' = "post" /\ ("LDR" \in reply'.stat \/ ~Wound')
      BY <3>1, <3>2, <3>5, DirectiveEffect
    <3>7. QED
      BY <1>1, <2>1, <3>3, <3>4, <3>6 DEF Effects, Settled
  <2>6. CASE WriteBuffer
    <3>1. /\ relay' = "post" /\ reply'.dev = "general" /\ motion' = "stop"
          /\ UNCHANGED data_av /\ relay # "await"
      BY <2>6 DEF WriteBuffer, WriteEnds, Replies, Result, pldVars
    <3>2. Answer' = reply'
      BY <1>1, <2>1, <2>2, <3>1 DEF Answer
    <3>3. QED
      BY <1>1, <2>1, <3>1, <3>2 DEF Effects, Settled, Wound
  <2>7. CASE DriveReady \/ Start
    <3>1. /\ relay \in {"drive", "off"} /\ relay' = "post" /\ reply'.dev = "general"
          /\ UNCHANGED <<data_av, executed, pos, motion>>
      BY <2>7 DEF DriveReady, Start, Replies, Result, pldVars, deckVars
    <3>2. Answer' = reply' /\ Effects
      BY <1>1, <2>1, <2>2, <2>3, <3>1 DEF Answer
    <3>3. QED
      BY <1>1, <2>1, <3>1, <3>2 DEF Effects, Settled
  <2>8. QED
    BY <2>1, <2>4, <2>5, <2>6, <2>7 DEF RelayNext
<1>4. Driven'
  BY <1>1, <1>3 DEF Driven
<1>5. QED
  BY <1>2, <1>4

LEMMA OthersRest ==
  IInv /\ RestInv /\ (Attn__handler \/ Clock \/ TapePasses \/ StopKey \/ UNCHANGED vars)
    => Commanded'
<1> SUFFICES ASSUME RestInv,
                    Attn__handler \/ Clock \/ TapePasses \/ StopKey \/ UNCHANGED vars
             PROVE  Commanded'
  OBVIOUS
<1> USE DEF RestInv, Commanded
<1>1. UNCHANGED <<pc, dir, sr, call, out, ir, data_av, executed, reply>>
  BY DEF Attn__handler, Clock, TapePasses, StopKey, CtlKeeps, relayVars, RelayKeeps, pldVars,
     vars, ctlVars
<1>2. IsCall(call)' /\ (pc # "prompt" => Purpose)'
  BY <1>1 DEF Purpose, IsCall
<1>3. Answer' = Answer
  BY <1>1 DEF Answer
<1>4. CASE StopKey
  BY <1>2, <1>4 DEF StopKey, Driven
<1>5. CASE UNCHANGED <<relay, upset, pos, motion>>
  <2>1. Effects' = Effects /\ DriveAtRest' = DriveAtRest
    BY <1>1, <1>3, <1>5 DEF Effects, Settled, Wound, DriveAtRest, Over, Rewound
  <2>2. QED
    BY <1>1, <1>2, <1>5, <2>1 DEF Driven
<1>6. CASE TapePasses
  <2>1. UNCHANGED <<relay, upset>> /\ motion # "stop" /\ (Wound' => Wound)
    BY <1>6 DEF TapePasses, Passes, RelayKeeps, Wound
  <2>2. Effects => Effects'
    BY <1>1, <1>3, <2>1 DEF Effects, Settled
  <2>3. DriveAtRest => DriveAtRest'
    BY <1>1, <2>1 DEF DriveAtRest, Over, Rewound, Wound
  <2>4. QED
    BY <1>1, <1>2, <2>1, <2>2, <2>3 DEF Driven
<1>7. QED
  BY <1>4, <1>5, <1>6 DEF Attn__handler, Clock, CtlKeeps, relayVars, deckVars, vars, ctlVars

LEMMA RestHolds == IInv /\ RestInv /\ [Next]_vars => RestInv'
<1> SUFFICES ASSUME IInv, RestInv, [Next]_vars PROVE RestInv'
  OBVIOUS
<1>1. (pos \in Nat /\ stack \in Seq(Items(stack)))'
  BY HeadHolds DEF RestInv
<1>2. Commanded'
  BY ControllerRests, OperatorRests, RelayRests, OthersRest DEF Next
<1>3. QED
  BY <1>1, <1>2 DEF RestInv, Commanded

(* A read or a write that is over has stopped the drive, and a rewind does *)
(* not leave it pulling at tape that is wound up (t98_mpsi.c line 185,     *)
(* main.c lines 304 to 313), unless a user cut in.                         *)
THEOREM DriveComesToRest == Spec => []DriveAtRest
<1>1. IInv /\ RestInv => DriveAtRest
  BY DEF RestInv, Driven, DriveAtRest
<1>2. QED
  BY <1>1, InitHolds, NextHolds, RestInit, RestHolds, PTL DEF Spec

-----------------------------------------------------------------------------
(* The order of what is read.  A reply that comes late after an interrupt  *)
(* answers a later directive, but such an exchange leaves the relay where  *)
(* it waits, so the next is in step: that the drive be out of the leader   *)
(* for two replies (Oks) makes sure that it goes forward when bytes are    *)
(* read, and from then on every byte comes from a later cell.              *)

Cutless  == upset \in {"no", "interrupt"}
Done     == pc = "fetching" \/ (pc = "wait" /\ executed = 1)
Tracking == pc # "prompt" /\ (call.op = "byte" \/ (call.op = "start" /\ call.oks >= 1))

Aligned ==
  /\ pc \in {"send", "sending"} => Waiting
  /\ pc = "wait" =>
       /\ out = [flags |-> {"ACK"}, dir |-> dir]
       /\ \/ ~data_av /\ executed = 0 /\ relay = "await" /\ ack = 1
          \/ ~data_av /\ executed = 1 /\ relay \in {"drive", "post"}
          \/ data_av /\ executed = 1

Fresh(cell) == cell \in 1 .. Cells /\ cell <= pos /\ \A i \in DOMAIN bf : bf[i] < cell

Ordered ==
  /\ bf \in Seq(1 .. Cells)
  /\ \A i \in DOMAIN bf : i > 1 => bf[i - 1] < bf[i]

AtByte ==
  /\ motion # "rev"
  /\ \A i \in DOMAIN bf : bf[i] <= pos
  /\ Done /\ relay = "drive" /\ latched # 0 => Fresh(latched)
  /\ Done /\ Settled /\ Answer.stat \ {"NOWRITE"} = {} => Fresh(Answer.cell)

Plan ==
  pc # "prompt" =>
    /\ call.op = "start" => dir = Cmd("RFN") /\ bf = <<>>
    /\ call.op = "byte" => dir = AwaitByte

Lines ==
  /\ pc \in {"sending", "fetching"} => ctl = 0 /\ ~data_av
  /\ pc = "wait" => ctl = 1

Reading ==
  Cutless =>
    /\ pc = "fetching" \/ (pc = "wait" /\ data_av) => Waiting
    /\ Ordered
    /\ Tracking => /\ Aligned
                   /\ Done /\ Settled => Answer.dev = "general"
                   /\ Done => motion # "rev"
    /\ pc # "prompt" /\ call.op = "byte" => AtByte

ReadInv == call.oks \in Nat /\ Plan /\ Lines /\ Reading

LEMMA ReadInit == Init => ReadInv
BY DEF Init, Idle, ReadInv, Plan, Lines, Reading, Cutless

LEMMA StartNext ==
  ASSUME NEW stat, IsCall(call), call.oks \in Nat, StartReturns(stat)
  PROVE  /\ pc' = "send" /\ call'.oks \in Nat /\ bf' = bf
         /\ \/ call'.op = "fin"
            \/ call'.op = "byte" /\ dir' = AwaitByte /\ call.oks >= 1 /\ stat # {"INTR"}
            \/ call'.op = "start" /\ dir' = dir /\ stat # {"INTR"}
<1>1. ASSUME NEW flags, Stopping(flags)
      PROVE  pc' = "send" /\ call'.oks \in Nat /\ call'.op = "fin"
  <2>1. IsCall([call EXCEPT !.stat = flags]) /\ [call EXCEPT !.stat = flags].oks = call.oks
    BY DEF IsCall
  <2>2. QED
    BY <1>1, <2>1, ExecCall DEF Stopping
<1>2. ASSUME NEW oks \in Nat, Exec("start", dir, [call EXCEPT !.oks = oks])
      PROVE  pc' = "send" /\ call'.oks \in Nat /\ call'.op = "start" /\ dir' = dir
  <2>1. IsCall([call EXCEPT !.oks = oks]) /\ [call EXCEPT !.oks = oks].oks = oks
    BY DEF IsCall
  <2>2. QED
    BY <1>2, <2>1, ExecCall
<1> DEFINE wrong == stat \ {"NOWRITE"}
           oks   == IF wrong = {} THEN call.oks + 1 ELSE 0
<1>3. /\ bf' = bf
      /\ \/ wrong \notin {{}, {"LDR"}} /\ Stopping(wrong)
         \/ wrong = {} /\ oks >= Oks /\ Exec("byte", AwaitByte, call)
         \/ /\ wrong \in {{}, {"LDR"}} /\ oks < Oks
            /\ \/ Stopping({"TIMEOUTCLR"})
               \/ Exec("start", dir, [call EXCEPT !.oks = oks])
  BY DEF StartReturns
<1>4. oks \in Nat
  OBVIOUS
<1>5. stat = {"INTR"} => wrong \notin {{}, {"LDR"}}
  <2>1. stat = {"INTR"} => "INTR" \in wrong
    OBVIOUS
  <2>2. QED
    BY <2>1
<1>6. wrong = {} => oks = call.oks + 1
  OBVIOUS
<1> HIDE DEF wrong, oks
<1>7. CASE wrong = {} /\ oks >= Oks /\ Exec("byte", AwaitByte, call)
  <2>1. pc' = "send" /\ call'.oks = call.oks /\ call'.op = "byte" /\ dir' = AwaitByte
    BY <1>7, ExecCall
  <2>2. QED
    BY <1>3, <1>5, <1>6, <1>7, <2>1, RelayAssumption
<1>8. QED
  BY <1>1, <1>2, <1>3, <1>4, <1>5, <1>7

LEMMA ByteNext ==
  ASSUME NEW stat, NEW cell, IsCall(call), call.oks \in Nat, ByteReturns(stat, cell)
  PROVE  /\ pc' = "send" /\ call'.oks \in Nat
         /\ \/ call'.op = "fin" /\ bf' = bf
            \/ /\ call'.op = "byte" /\ dir' = dir
               /\ stat \ {"NOWRITE"} = {} /\ bf' = Append(bf, cell)
<1>1. ASSUME NEW flags, Stopping(flags)
      PROVE  pc' = "send" /\ call'.oks \in Nat /\ call'.op = "fin"
  <2>1. IsCall([call EXCEPT !.stat = flags]) /\ [call EXCEPT !.stat = flags].oks = call.oks
    BY DEF IsCall
  <2>2. QED
    BY <1>1, <2>1, ExecCall DEF Stopping
<1>2. QED
  BY <1>1, ExecCall DEF ByteReturns

LEMMA OtherNext ==
  ASSUME NEW stat, NEW cell, IsCall(call), call.oks \in Nat, Returns(stat, cell),
         call.op \notin {"start", "byte"}
  PROVE  /\ bf' = bf /\ call'.oks \in Nat
         /\ pc' = "send" => call'.op \notin {"start", "byte"}
<1>1. ASSUME NEW c, Prompt(c) PROVE call'.oks \in Nat /\ pc' = "prompt"
  BY <1>1, PromptCall
<1>2. CASE CmdReturns(stat)
  BY <1>1, <1>2 DEF CmdReturns
<1>3. CASE RewindReturns(stat)
  BY <1>1, <1>3, ExecCall DEF RewindReturns
<1>4. CASE FinReturns
  BY <1>1, <1>4 DEF FinReturns
<1>5. CASE PushReturns
  BY <1>5, PushingCall DEF PushReturns, Pushes
<1>6. CASE WriteReturns(stat)
  BY <1>1, <1>6, SegmentCall DEF WriteReturns, Pushes, TooLarge
<1>7. QED
  BY <1>2, <1>3, <1>4, <1>5, <1>6 DEF Returns, StartReturns, ByteReturns

LEMMA SequenceFacts ==
  ASSUME NEW S, NEW s \in Seq(S)
  PROVE  /\ Len(s) \in Nat /\ DOMAIN s = 1 .. Len(s)
         /\ \A i \in DOMAIN s : s[i] \in S
OBVIOUS

LEMMA AppendFacts ==
  ASSUME NEW S, NEW s \in Seq(S), NEW e \in S
  PROVE  /\ DOMAIN Append(s, e) = 1 .. Len(s) + 1
         /\ \A i \in 1 .. Len(s) : Append(s, e)[i] = s[i]
         /\ Append(s, e)[Len(s) + 1] = e
OBVIOUS

LEMMA AppendedOrdered ==
  ASSUME Ordered, NEW cell, Fresh(cell), bf' = Append(bf, cell)
  PROVE  Ordered' /\ \A i \in DOMAIN bf' : bf'[i] <= cell
<1>1. bf \in Seq(1 .. Cells) /\ cell \in 1 .. Cells
  BY DEF Ordered, Fresh
<1>2. bf' \in Seq(1 .. Cells)
  BY <1>1
<1>3. /\ DOMAIN bf = 1 .. Len(bf) /\ Len(bf) \in Nat
      /\ DOMAIN bf' = 1 .. Len(bf) + 1
      /\ \A i \in 1 .. Len(bf) : bf'[i] = bf[i] /\ bf[i] \in 1 .. Cells
      /\ bf'[Len(bf) + 1] = cell
  <2>1. /\ Len(bf) \in Nat /\ DOMAIN bf = 1 .. Len(bf)
        /\ \A i \in DOMAIN bf : bf[i] \in 1 .. Cells
    BY <1>1, SequenceFacts
  <2>2. /\ DOMAIN Append(bf, cell) = 1 .. Len(bf) + 1
        /\ \A i \in 1 .. Len(bf) : Append(bf, cell)[i] = bf[i]
        /\ Append(bf, cell)[Len(bf) + 1] = cell
    BY <1>1, AppendFacts
  <2>3. QED
    BY <2>1, <2>2, Zenon
<1>4. \A i \in 1 .. Len(bf) : bf[i] < cell /\ (i > 1 => bf[i - 1] < bf[i])
  BY <1>3 DEF Ordered, Fresh
<1>5. \A i \in DOMAIN bf' : bf'[i] <= cell /\ (i > 1 => bf'[i - 1] < bf'[i])
  BY <1>1, <1>3, <1>4, RelayAssumption
<1>6. QED
  BY <1>2, <1>5 DEF Ordered

LEMMA ControllerReads == RestInv /\ ReadInv /\ Controller => ReadInv'
<1> SUFFICES ASSUME RestInv, ReadInv, Controller PROVE ReadInv'
  OBVIOUS
<1> USE DEF ReadInv
<1>1. CASE Send
  <2>1. /\ pc = "send" /\ pc' = "sending" /\ ctl' = 0 /\ ~data_av'
        /\ UNCHANGED <<dir, call, bf, upset, relay, ack, motion, pos>>
    BY <1>1 DEF Send, CtlFalls, CtlKeeps, relayVars, deckVars
  <2>2. Plan' /\ Lines' /\ Ordered' = Ordered
    BY <2>1 DEF Plan, Lines, Ordered
  <2>3. QED
    BY <2>1, <2>2 DEF Reading, Cutless, Tracking, Aligned, Waiting, Done, AtByte
<1>2. CASE Sent
  <2>1. /\ pc = "sending" /\ pc' = "wait" /\ ctl' = 1 /\ ack' = 1 /\ executed' = 0
        /\ out' = [flags |-> {"ACK"}, dir |-> dir]
        /\ UNCHANGED <<dir, call, bf, upset, relay, data_av, motion, pos>>
    BY <1>2 DEF Sent, CtlRises, deckVars
  <2>2. ~data_av
    BY <2>1 DEF Lines
  <2>3. Plan' /\ Lines' /\ Ordered' = Ordered
    BY <2>1 DEF Plan, Lines, Ordered
  <2>4. QED
    BY <2>1, <2>2, <2>3 DEF Reading, Cutless, Tracking, Aligned, Waiting, Done, AtByte
<1>3. CASE Fetch
  <2>1. /\ pc = "wait" /\ data_av /\ pc' = "fetching" /\ ctl' = 0 /\ ~data_av' /\ sr' = ir
        /\ UNCHANGED <<dir, call, bf, upset, relay, ack, motion, pos, latched>>
    BY <1>3 DEF Fetch, CtlFalls, CtlKeeps, relayVars, deckVars
  <2>2. Plan' /\ Lines' /\ Ordered' = Ordered /\ Answer' = Answer
    BY <2>1 DEF Plan, Lines, Ordered, Answer
  <2>3. Cutless /\ Tracking => Done
    BY <2>1 DEF Reading, Aligned, Done
  <2>4. \A cell : Fresh(cell)' = Fresh(cell)
    BY <2>1 DEF Fresh
  <2>5. Cutless' = Cutless /\ Tracking' = Tracking /\ Settled' = Settled /\ Waiting' = Waiting
    BY <2>1 DEF Cutless, Tracking, Settled, Waiting
  <2>6. Aligned'
    BY <2>1 DEF Aligned
  <2>7. Cutless /\ call.op = "byte" => AtByte'
    <3>1. Cutless /\ call.op = "byte" => AtByte /\ Done
      BY <2>1, <2>3 DEF Reading, Tracking
    <3>2. Answer'.stat = Answer.stat /\ (Fresh(Answer.cell))' = Fresh(Answer.cell)
      BY <2>1, <2>2 DEF Fresh
    <3>3. (Fresh(latched))' = Fresh(latched)
      BY <2>1 DEF Fresh
    <3>4. QED
      BY <2>1, <2>5, <3>1, <3>2, <3>3 DEF AtByte
  <2>8. QED
    BY <2>1, <2>2, <2>3, <2>5, <2>6, <2>7 DEF Reading
<1>4. CASE Fetched
  <2> DEFINE stat == IF sr.dev = "general" THEN sr.stat ELSE {"ERRPROTOCOL"}
  <2>1. /\ pc = "fetching" /\ Returns(stat, sr.cell) /\ ack' = 0
        /\ UNCHANGED <<upset, relay, pos, motion>>
    BY <1>4 DEF Fetched, CtlRises, CtlKeeps, relayVars, deckVars
  <2>2. IsCall(call) /\ call.oks \in Nat /\ Done
    BY <2>1 DEF RestInv, Done
  <2>3. pc' \in {"send", "prompt"}
    BY <2>1, ReturnsWhere
  <2>4. Lines' /\ Cutless' = Cutless /\ (Cutless => Waiting' /\ Waiting)
    BY <2>1, <2>3 DEF Lines, Cutless, Reading, Waiting
  <2>5. Cutless => Aligned'
    BY <2>3, <2>4 DEF Aligned
  <2>6. Cutless => Ordered
    BY DEF Reading
  <2>7. CASE call.op \notin {"start", "byte"}
    <3>1. /\ bf' = bf /\ call'.oks \in Nat
          /\ pc' = "send" => call'.op \notin {"start", "byte"}
      BY <2>1, <2>2, <2>7, OtherNext
    <3>2. Plan' /\ ~Tracking' /\ Ordered' = Ordered
      BY <2>3, <3>1 DEF Plan, Tracking, Ordered
    <3>3. QED
      BY <2>3, <2>4, <2>6, <3>1, <3>2 DEF Reading
  <2>8. CASE call.op = "start"
    <3>1. StartReturns(stat)
      BY <2>1, <2>8 DEF Returns, CmdReturns, RewindReturns, ByteReturns, FinReturns,
         PushReturns, WriteReturns
    <3>2. /\ pc' = "send" /\ call'.oks \in Nat /\ bf' = bf
          /\ \/ call'.op = "fin"
             \/ call'.op = "byte" /\ dir' = AwaitByte /\ call.oks >= 1
             \/ call'.op = "start" /\ dir' = dir
      BY <2>2, <3>1, StartNext
    <3>3. dir = Cmd("RFN") /\ bf = <<>>
      BY <2>1, <2>8 DEF Plan
    <3>4. Plan' /\ Ordered' = Ordered /\ ~Done'
      BY <3>2, <3>3 DEF Plan, Ordered, Done
    <3>5. Cutless /\ call'.op = "byte" => AtByte'
      <4>1. Cutless /\ call'.op = "byte" => motion # "rev"
        BY <2>1, <2>2, <2>8, <3>2 DEF Reading, Tracking
      <4>2. QED
        BY <2>1, <3>2, <3>3, <3>4, <4>1 DEF AtByte
    <3>6. QED
      BY <2>3, <2>4, <2>5, <2>6, <3>2, <3>4, <3>5 DEF Reading
  <2>9. CASE call.op = "byte"
    <3>1. ByteReturns(stat, sr.cell)
      BY <2>1, <2>9 DEF Returns, CmdReturns, RewindReturns, StartReturns, FinReturns,
         PushReturns, WriteReturns
    <3>2. /\ pc' = "send" /\ call'.oks \in Nat
          /\ \/ call'.op = "fin" /\ bf' = bf
             \/ /\ call'.op = "byte" /\ dir' = dir
                /\ stat \ {"NOWRITE"} = {} /\ bf' = Append(bf, sr.cell)
      BY <2>2, <3>1, ByteNext
    <3>3. Plan' /\ ~Done'
      BY <2>1, <2>9, <3>2 DEF Plan, Done
    <3>4. CASE Cutless
      <4>1. AtByte /\ Settled /\ Answer = sr /\ sr.dev = "general"
        BY <2>1, <2>2, <2>4, <2>9, <3>4 DEF Reading, Tracking, Settled, Waiting, Answer
      <4>2. CASE call'.op = "byte"
        <5>1. Fresh(sr.cell) /\ bf' = Append(bf, sr.cell)
          BY <2>2, <3>2, <4>1, <4>2 DEF AtByte
        <5>2. Ordered' /\ \A i \in DOMAIN bf' : bf'[i] <= sr.cell
          BY <2>6, <3>4, <5>1, AppendedOrdered
        <5>3. \A i \in DOMAIN bf' : bf'[i] <= pos
          <6>1. \A i \in DOMAIN bf' : bf'[i] \in 1 .. Cells
            BY <5>2, SequenceFacts DEF Ordered
          <6>2. QED
            BY <5>1, <5>2, <6>1, RelayAssumption DEF Fresh, RestInv
        <5>4. AtByte'
          BY <2>1, <3>3, <4>1, <5>3 DEF AtByte
        <5>5. QED
          BY <2>3, <2>4, <2>5, <3>2, <3>3, <5>2, <5>4 DEF Reading
      <4>3. CASE call'.op = "fin" /\ bf' = bf
        <5>1. Ordered' /\ ~Tracking'
          BY <2>6, <3>4, <4>3 DEF Ordered, Tracking
        <5>2. QED
          BY <2>3, <2>4, <3>2, <3>3, <4>3, <5>1 DEF Reading
      <4>4. QED
        BY <3>2, <4>2, <4>3
    <3>5. CASE ~Cutless
      BY <2>4, <3>2, <3>3, <3>5 DEF Reading
    <3>6. QED
      BY <3>4, <3>5
  <2>10. QED
    BY <2>7, <2>8, <2>9
<1>5. CASE Interrupted
  <2>1. /\ pc = "wait" /\ Returns({"INTR"}, 0)
        /\ upset' = IF upset = "no" THEN "interrupt" ELSE upset
    BY <1>5 DEF Interrupted
  <2>2. IsCall(call) /\ call.oks \in Nat
    BY DEF RestInv
  <2>3. pc' \in {"send", "prompt"}
    BY <2>1, ReturnsWhere
  <2>4. /\ bf' = bf /\ call'.oks \in Nat
        /\ pc' = "send" => call'.op \notin {"start", "byte"}
    <3>1. CASE call.op \notin {"start", "byte"}
      BY <2>1, <2>2, <3>1, OtherNext
    <3>2. CASE call.op = "start"
      <4>1. StartReturns({"INTR"})
        BY <2>1, <3>2 DEF Returns, CmdReturns, RewindReturns, ByteReturns, FinReturns,
           PushReturns, WriteReturns
      <4>2. QED
        BY <2>2, <4>1, StartNext
    <3>3. CASE call.op = "byte"
      <4>1. ByteReturns({"INTR"}, 0)
        BY <2>1, <3>3 DEF Returns, CmdReturns, RewindReturns, StartReturns, FinReturns,
           PushReturns, WriteReturns
      <4>2. {"INTR"} \ {"NOWRITE"} # {}
        OBVIOUS
      <4>3. QED
        BY <2>2, <4>1, <4>2, ByteNext
    <3>4. QED
      BY <3>1, <3>2, <3>3
  <2>5. Plan' /\ Lines' /\ ~Tracking' /\ Ordered' = Ordered /\ (Cutless' => Cutless)
    BY <2>1, <2>3, <2>4 DEF Plan, Lines, Tracking, Ordered, Cutless
  <2>6. QED
    BY <2>3, <2>4, <2>5 DEF Reading
<1>6. QED
  BY <1>1, <1>2, <1>3, <1>4, <1>5 DEF Controller

LEMMA OperatorReads == Operator => ReadInv'
<1> SUFFICES ASSUME Operator PROVE ReadInv'
  OBVIOUS
<1>1. IsCall(Idle) /\ Idle.oks = 0
      /\ \A size : IsCall([Idle EXCEPT !.size = size]) /\ [Idle EXCEPT !.size = size].oks = 0
  BY DEF IsCall, Idle
<1>2. /\ pc' \in {"send", "prompt"} /\ bf' = <<>> /\ call'.oks = 0
      /\ pc' = "send" => /\ call'.op # "byte"
                         /\ call'.op = "start" => dir' = Cmd("RFN")
  <2>1. CASE (\E cmd \in Commands : DriveCommand(cmd)) \/ Rewind
    BY <1>1, <2>1, ExecCall DEF DriveCommand, Rewind
  <2>2. ASSUME NEW size \in Sizes, ReadImage(size)
        PROVE  /\ pc' = "send" /\ bf' = <<>> /\ dir' = Cmd("RFN")
               /\ call'.oks = 0 /\ call'.op = "start"
    <3> DEFINE c == [Idle EXCEPT !.size = size]
    <3>1. IsCall(c) /\ c.oks = 0
      BY <1>1
    <3>2. Exec("start", Cmd("RFN"), c) /\ bf' = <<>>
      BY <2>2 DEF ReadImage
    <3> HIDE DEF c
    <3>3. QED
      BY <3>1, <3>2, ExecCall
  <2>3. CASE \E img \in Images : WriteImage(img)
    BY <2>3, SegmentCall DEF WriteImage, Pushes, TooLarge
  <2>4. QED
    BY <2>1, <2>2, <2>3 DEF Operator
<1>3. Plan' /\ Lines' /\ ~Tracking' /\ Ordered'
  BY <1>2 DEF Plan, Lines, Tracking, Ordered
<1>4. QED
  BY <1>2, <1>3 DEF ReadInv, Reading

LEMMA RelayReads == IInv /\ RestInv /\ ReadInv /\ (RelayNext \/ Start) => ReadInv'
<1> SUFFICES ASSUME IInv, RestInv, ReadInv, RelayNext \/ Start PROVE ReadInv'
  OBVIOUS
<1> USE DEF ReadInv
<1>1. UNCHANGED <<pc, dir, sr, call, bf, upset, out, ctl>>
  BY DEF RelayNext, Start, Post, Take, WriteBuffer, DriveReady, Directive, RelayKeeps,
     CeoRises, pldVars
<1>2. CASE Waiting
  BY <1>2 DEF Waiting, RelayNext, Start, Post, Take, WriteBuffer, DriveReady
<1> SUFFICES ASSUME ~Waiting PROVE ReadInv'
  BY <1>2
<1>3. /\ ~Post => UNCHANGED <<data_av, ir>>
      /\ Post => /\ reply.dev = "general" /\ relay' = "await" /\ ack' = 0
                 /\ ctl = 0 /\ ~data_av => ~data_av'
  <2>1. ASSUME Post
        PROVE  /\ reply.dev = "general" /\ relay' = "await" /\ ack' = 0
               /\ ctl = 0 /\ ~data_av => ~data_av'
    <3>1. data_av' = (data_av \/ ctl = 1)
      BY <2>1 DEF Post, CeoRises
    <3>2. ctl = 0 => ctl # 1
      OBVIOUS
    <3>3. ctl = 0 /\ ~data_av => ~data_av'
      BY <3>1, <3>2, Zenon
    <3>4. QED
      BY <2>1, <3>3 DEF Post, CeoRises, IInv, Locations
  <2>2. ASSUME ~Post PROVE UNCHANGED <<data_av, ir>>
    BY <2>2 DEF RelayNext, Start, Take, WriteBuffer, DriveReady, Directive, pldVars
  <2>3. QED
    BY <2>1, <2>2
<1>4. call'.oks \in Nat /\ Plan' /\ Lines' /\ Ordered' = Ordered
  BY <1>1, <1>3 DEF Plan, Lines, Ordered
<1>5. Cutless' = Cutless /\ Tracking' = Tracking
  BY <1>1 DEF Cutless, Tracking
<1>6. ASSUME Cutless, pc = "wait", data_av' PROVE Waiting'
  BY <1>3, <1>6 DEF Reading, Waiting
<1>7. ASSUME Cutless, Tracking
      PROVE  /\ pc = "wait"
             /\ out = [flags |-> {"ACK"}, dir |-> dir]
             /\ ctl = 1 /\ ~data_av
             /\ \/ executed = 0 /\ relay = "await" /\ ack = 1
                \/ executed = 1 /\ relay \in {"drive", "post"}
             /\ executed = 1 => Done
  <2>1. Aligned /\ (pc = "fetching" \/ (pc = "wait" /\ data_av) => Waiting)
    BY <1>7 DEF Reading
  <2>2. pc \in {"send", "sending", "wait", "fetching"}
    BY <1>7 DEF Tracking, RestInv, Locations, IInv
  <2>3. QED
    BY <1>7, <2>1, <2>2 DEF Aligned, Lines, Done
<1>8. ASSUME Cutless, Tracking
      PROVE  /\ Aligned'
             /\ (Done /\ Settled => Answer.dev = "general")'
             /\ (Done => motion # "rev")'
             /\ (call.op = "byte" => AtByte)'
  <2>1. call.op \in {"start", "byte"} /\ (call.op = "byte" => AtByte)
    BY <1>7, <1>8 DEF Reading, Tracking
  <2>2. CASE Take
    <3>1. relay = "await" /\ executed = 0 /\ executed' = 1 /\ ~data_av'
      BY <1>3, <1>7, <1>8, <2>2 DEF Take, Directive, Post
    <3>2. dir \in {Cmd("RFN"), AwaitByte} /\ dir \in Directives
      BY <1>7, <1>8, <2>1 DEF Plan, Directives, Commands
    <3>3. Directive(dir)
      BY <1>7, <1>8, <2>2, <3>2, RelayAssumption DEF Take
    <3>4. Answer' = reply'
      BY <1>1, <1>7, <1>8, <3>1 DEF Answer
    <3>5. CASE call.op = "start"
      <4>1. CommandDirective(Cmd("RFN"))
        <5>1. dir = Cmd("RFN") /\ dir.kind = "cmd"
          BY <1>7, <1>8, <3>5 DEF Plan, Cmd
        <5>2. QED
          BY <3>3, <5>1 DEF Directive, PushByte, WriteClear, WriteAfterMark
      <4>2. relay' = "post" /\ reply'.dev = "general" /\ motion' # "rev"
        BY <4>1 DEF CommandDirective, Cmd, Replies, Result, Execute, Moves
      <4>3. QED
        BY <1>1, <1>7, <1>8, <3>1, <3>4, <3>5, <4>2 DEF Aligned
    <3>6. CASE call.op = "byte"
      <4>1. CommandDirective(AwaitByte)
        <5>1. dir = AwaitByte /\ dir.kind = "cmd"
          BY <1>7, <1>8, <3>6 DEF Plan, AwaitByte
        <5>2. QED
          BY <3>3, <5>1 DEF Directive, PushByte, WriteClear, WriteAfterMark
      <4>2. /\ relay' = "drive" /\ latched' = 0 /\ pos' = pos
            /\ motion' \in {motion, "stop"}
        BY <4>1 DEF CommandDirective, AwaitByte, Execute, Moves
      <4>3. QED
        BY <1>1, <1>7, <1>8, <2>1, <3>1, <3>4, <3>6, <4>2 DEF Aligned, AtByte, Settled
    <3>7. QED
      BY <2>1, <3>5, <3>6
  <2>3. CASE Post
    <3>1. /\ relay = "post" /\ relay' = "await" /\ ir' = reply /\ data_av'
          /\ UNCHANGED <<executed, pos, motion, latched>>
      BY <1>7, <1>8, <2>3 DEF Post, CeoRises, deckVars
    <3>2. Done /\ Done' /\ executed = 1 /\ Answer = reply /\ Answer' = reply
      BY <1>1, <1>7, <1>8, <3>1 DEF Answer, Done
    <3>3. Settled /\ Answer.dev = "general" /\ motion # "rev"
      BY <1>8, <3>1, <3>2 DEF Settled, Reading
    <3>4. Fresh(Answer.cell) => Fresh(Answer.cell)'
      BY <1>1, <3>1, <3>2 DEF Fresh
    <3>5. Answer.stat \ {"NOWRITE"} = {} /\ AtByte => Fresh(Answer.cell)
      BY <3>2, <3>3 DEF AtByte
    <3>6. QED
      BY <1>1, <1>7, <1>8, <2>1, <3>1, <3>2, <3>3, <3>4, <3>5 DEF Aligned, AtByte
  <2>4. CASE DriveReady
    <3>1. /\ relay = "drive" /\ relay' = "post" /\ reply' = Result(DeckStatus, latched)
          /\ UNCHANGED <<data_av, executed, pos, motion, latched>>
          /\ latched # 0 \/ Leader \/ ~present
      BY <2>4 DEF DriveReady, Replies, pldVars, deckVars
    <3>2. Done /\ Done' /\ executed = 1 /\ Answer' = reply'
      BY <1>1, <1>7, <1>8, <3>1 DEF Answer, Done
    <3>3. motion # "rev" /\ reply'.dev = "general"
      BY <1>8, <3>1, <3>2 DEF Reading, Result
    <3>4. Leader => "LDR" \in DeckStatus
      BY DEF DeckStatus
    <3>5. ~present => "NOCASS" \in DeckStatus
      BY DEF DeckStatus
    <3>6. reply'.stat \ {"NOWRITE"} = {} => latched # 0 /\ reply'.cell = latched
      BY <3>1, <3>4, <3>5 DEF Result
    <3>7. Fresh(latched) => Fresh(latched)'
      BY <1>1, <3>1 DEF Fresh
    <3>8. AtByte /\ reply'.stat \ {"NOWRITE"} = {} => Fresh(Answer.cell)'
      BY <3>1, <3>2, <3>6, <3>7 DEF AtByte
    <3>9. QED
      BY <1>1, <1>7, <1>8, <2>1, <3>1, <3>2, <3>3, <3>8 DEF Aligned, AtByte
  <2>5. QED
    BY <1>7, <1>8, <2>2, <2>3, <2>4 DEF RelayNext, Start, WriteBuffer
<1>9. ASSUME Cutless, pc = "fetching" PROVE FALSE
  BY <1>9 DEF Reading
<1>10. Reading'
  BY <1>1, <1>4, <1>5, <1>6, <1>8, <1>9 DEF Reading, Tracking
<1>11. QED
  BY <1>4, <1>10

LEMMA OthersRead ==
  RestInv /\ ReadInv /\ (Attn__handler \/ Clock \/ TapePasses \/ StopKey \/ UNCHANGED vars)
    => ReadInv'
<1> SUFFICES ASSUME RestInv, ReadInv,
                    Attn__handler \/ Clock \/ TapePasses \/ StopKey \/ UNCHANGED vars
             PROVE  ReadInv'
  OBVIOUS
<1> USE DEF ReadInv
<1>1. UNCHANGED <<pc, dir, sr, call, bf, out, ctl, ir, data_av, ack, executed, reply>>
  BY DEF Attn__handler, Clock, TapePasses, StopKey, CtlKeeps, relayVars, RelayKeeps, pldVars,
     vars, ctlVars
<1>2. call'.oks \in Nat /\ Plan' /\ Lines' /\ Ordered' = Ordered /\ Answer' = Answer
      /\ Tracking' = Tracking /\ Done' = Done
  BY <1>1 DEF Plan, Lines, Ordered, Answer, Tracking, Done
<1>3. CASE StopKey
  BY <1>2, <1>3 DEF StopKey, Reading, Cutless
<1>4. CASE UNCHANGED <<relay, upset, pos, motion, latched>>
  <2>1. /\ Waiting' = Waiting /\ Settled' = Settled /\ Aligned' = Aligned
        /\ Cutless' = Cutless
    BY <1>1, <1>4 DEF Waiting, Settled, Aligned, Cutless
  <2>2. AtByte' = AtByte
    BY <1>1, <1>2, <1>4, <2>1 DEF AtByte, Fresh
  <2>3. QED
    BY <1>1, <1>2, <1>4, <2>1, <2>2 DEF Reading
<1>5. CASE TapePasses
  <2>1. /\ UNCHANGED <<relay, upset>>
        /\ latched' = IF relay = "drive" /\ latched = 0 /\ pos' \in 1 .. Cells
                      THEN pos' ELSE latched
        /\ \/ motion = "fwd" /\ pos' = pos + 1 /\ motion' = motion
           \/ motion = "rev"
    BY <1>5 DEF TapePasses, Passes, RelayKeeps
  <2>2. /\ Waiting' = Waiting /\ Settled' = Settled /\ Aligned' = Aligned
        /\ Cutless' = Cutless
    BY <1>1, <2>1 DEF Waiting, Settled, Aligned, Cutless
  <2>3. motion # "rev" => motion' # "rev"
    BY <2>1
  <2>4. ASSUME Cutless, pc # "prompt", call.op = "byte" PROVE AtByte'
    <3>1. AtByte /\ motion = "fwd" /\ pos' = pos + 1 /\ motion' = "fwd" /\ pos \in Nat
      BY <2>1, <2>4 DEF Reading, AtByte, RestInv
    <3>2. \A i \in DOMAIN bf : bf[i] \in Int /\ bf[i] <= pos
      <4>1. bf \in Seq(1 .. Cells)
        BY <2>4 DEF Reading, Ordered
      <4>2. \A i \in DOMAIN bf : bf[i] \in 1 .. Cells
        BY <4>1, SequenceFacts
      <4>3. QED
        BY <3>1, <4>2, RelayAssumption DEF AtByte
    <3>3. ASSUME NEW cell, Fresh(cell) PROVE Fresh(cell)'
      BY <1>1, <3>1, <3>3, RelayAssumption DEF Fresh
    <3>4. ASSUME latched' = pos', pos' \in 1 .. Cells PROVE Fresh(latched)'
      BY <1>1, <3>1, <3>2, <3>4 DEF Fresh
    <3>5. Done /\ relay = "drive" /\ latched' # 0 => Fresh(latched)'
      <4>1. CASE latched' = latched
        BY <1>1, <3>1, <3>3, <4>1 DEF AtByte, Fresh
      <4>2. QED
        BY <2>1, <3>4, <4>1
    <3>6. Fresh(Answer.cell) => Fresh(Answer.cell)'
      BY <1>1, <1>2, <3>1, <3>3 DEF Fresh
    <3>7. \A i \in DOMAIN bf' : bf'[i] <= pos'
      BY <1>1, <3>1, <3>2
    <3>8. QED
      BY <1>1, <1>2, <2>1, <2>2, <3>1, <3>5, <3>6, <3>7 DEF AtByte
  <2>5. QED
    BY <1>1, <1>2, <2>1, <2>2, <2>3, <2>4 DEF Reading
<1>6. QED
  BY <1>3, <1>4, <1>5 DEF Attn__handler, Clock, CtlKeeps, relayVars, deckVars, vars, ctlVars

LEMMA ReadHolds == IInv /\ RestInv /\ ReadInv /\ [Next]_vars => ReadInv'
BY ControllerReads, OperatorReads, RelayReads, OthersRead DEF Next

(* The bytes that a read gives come from cells of the tape, in their order *)
(* and none twice (t98_mpsi.c lines 150 to 183), also after interrupts,    *)
(* unless the relay was stopped.                                           *)
THEOREM BytesComeInOrder == Spec => []ReadInOrder
<1>1. IInv /\ ReadInv => ReadInOrder
  <2>1. ASSUME Ordered
        PROVE  \A i \in DOMAIN bf : bf[i] \in 1 .. Cells /\ (i > 1 => bf[i - 1] < bf[i])
    BY <2>1, SequenceFacts DEF Ordered
  <2>2. QED
    BY <2>1 DEF ReadInv, Reading, Cutless, ReadInOrder, IInv, Locations
<1>2. QED
  BY <1>1, InitHolds, NextHolds, RestInit, RestHolds, ReadInit, ReadHolds, PTL DEF Spec

-----------------------------------------------------------------------------
(* Where a segment ends, and how far odd segments have shifted its cells.  *)

EndsOdd(img, b) == (b - 1 - Max({0} \cup {a \in 1 .. b - 1 : img[a] > MaxByte})) % 2 # 0

Odds(img, j) == {b \in 1 .. j : img[b] > MaxByte /\ EndsOdd(img, b)}

(* A segment of an image begins at 0 or after a BOF.                       *)
Begins(img, s) == s \in 0 .. Len(img) /\ (s > 0 => img[s] > MaxByte)

Padding(img, s) == (SegEnd(img, s) - s) % 2

LEMMA SegmentBounds ==
  ASSUME NEW img \in Seq(Nat), NEW s, Begins(img, s)
  PROVE  /\ s \in Nat /\ Len(img) \in Nat /\ SegEnd(img, s) \in s .. Len(img)
         /\ \A j \in s + 1 .. SegEnd(img, s) : img[j] \in 0 .. MaxByte
         /\ \/ SegEnd(img, s) = Len(img) /\ After(img, s) = Len(img)
            \/ /\ After(img, s) = SegEnd(img, s) + 1 /\ After(img, s) \in s + 1 .. Len(img)
               /\ img[After(img, s)] > MaxByte
<1>1. s \in Nat /\ Len(img) \in Nat /\ s <= Len(img) /\ MaxByte \in Nat
  BY ImagesAssumption DEF Begins
<1>2. \A j \in 1 .. Len(img) : img[j] \in Nat
  OBVIOUS
<1>3. CASE Bofs(img, s) = {}
  <2>1. SegEnd(img, s) = Len(img) /\ After(img, s) = Len(img)
    BY <1>3 DEF SegEnd, After
  <2>2. \A j \in s + 1 .. Len(img) : ~(img[j] > MaxByte)
    BY <1>3 DEF Bofs
  <2>3. QED
    BY <1>1, <1>2, <2>1, <2>2
<1>4. CASE Bofs(img, s) # {}
  <2> DEFINE b == Min(Bofs(img, s))
  <2>1. SegEnd(img, s) = b - 1 /\ After(img, s) = b
    BY <1>4 DEF SegEnd, After
  <2>2. Bofs(img, s) \in SUBSET Nat
    BY <1>1 DEF Bofs
  <2>3. b \in Bofs(img, s) /\ \A y \in Bofs(img, s) : b <= y
    BY <1>4, <2>2, LeastExists
  <2> HIDE DEF b
  <2>4. b \in s + 1 .. Len(img) /\ img[b] > MaxByte
    BY <2>3 DEF Bofs
  <2>5. ASSUME NEW j \in s + 1 .. b - 1 PROVE ~(img[j] > MaxByte)
    BY <1>1, <2>3, <2>4, <2>5 DEF Bofs
  <2>6. QED
    BY <1>1, <1>2, <2>1, <2>4, <2>5
<1>5. QED
  BY <1>3, <1>4

LEMMA OddsFinite ==
  ASSUME NEW img, NEW j \in Int
  PROVE  IsFiniteSet(Odds(img, j)) /\ OddBefore(img, j) = Cardinality(Odds(img, j))
         /\ OddBefore(img, j) \in Nat
<1>1. Odds(img, j) \in SUBSET (1 .. j)
  BY DEF Odds
<1>2. IsFiniteSet(Odds(img, j))
  BY <1>1, FS_Interval, FS_Subset
<1>3. OddBefore(img, j) = Cardinality(Odds(img, j))
  BY DEF OddBefore, Odds, EndsOdd
<1>4. QED
  BY <1>2, <1>3, FS_CardinalityType

(* The shift grows along the image ...                                     *)
LEMMA OddsGrow ==
  ASSUME NEW img, NEW s \in Nat, NEW j \in 0 .. s
  PROVE  OddBefore(img, j) <= OddBefore(img, s)
<1>1. Odds(img, j) \in SUBSET Odds(img, s)
  BY DEF Odds
<1>2. QED
  BY <1>1, OddsFinite, FS_Subset

(* ... stays through a segment ...                                         *)
LEMMA OddsInSegment ==
  ASSUME NEW img \in Seq(Nat), NEW s, Begins(img, s), NEW j \in s .. SegEnd(img, s)
  PROVE  OddBefore(img, j) = OddBefore(img, s)
<1>1. s \in Nat /\ j \in Nat /\ j >= s /\ MaxByte \in Nat
        /\ \A b \in s + 1 .. j : ~(img[b] > MaxByte)
  <2>1. /\ s \in Nat /\ SegEnd(img, s) \in Nat /\ MaxByte \in Nat
        /\ \A b \in s + 1 .. SegEnd(img, s) : img[b] \in 0 .. MaxByte
    BY SegmentBounds, ImagesAssumption
  <2>2. \A b \in s + 1 .. j : b \in s + 1 .. SegEnd(img, s)
    BY <2>1
  <2>3. QED
    BY <2>1, <2>2
<1>2. \A b \in 1 .. j : img[b] > MaxByte => b \in 1 .. s
  BY <1>1
<1>3. Odds(img, j) = Odds(img, s)
  BY <1>1, <1>2 DEF Odds
<1>4. QED
  BY <1>1, <1>3, OddsFinite

(* ... and is one more behind an odd one.                                  *)
LEMMA OddsAfterSegment ==
  ASSUME NEW img \in Seq(Nat), NEW s, Begins(img, s), After(img, s) = SegEnd(img, s) + 1,
         img[After(img, s)] > MaxByte
  PROVE  OddBefore(img, After(img, s)) = OddBefore(img, s) + Padding(img, s)
<1> DEFINE e == SegEnd(img, s)
           b == After(img, s)
           before == {0} \cup {a \in 1 .. b - 1 : img[a] > MaxByte}
<1>1. /\ s \in Nat /\ e \in Nat /\ e >= s /\ b = e + 1
      /\ \A j \in s + 1 .. e : ~(img[j] > MaxByte)
      /\ (s > 0 => img[s] > MaxByte) /\ img[b] > MaxByte
  <2>1. /\ s \in Nat /\ Len(img) \in Nat /\ e \in s .. Len(img) /\ MaxByte \in Nat
        /\ \A j \in s + 1 .. e : img[j] \in 0 .. MaxByte
    BY SegmentBounds, ImagesAssumption
  <2> HIDE DEF e, b
  <2>2. b = e + 1 /\ img[b] > MaxByte /\ (s > 0 => img[s] > MaxByte)
    BY DEF e, b, Begins
  <2>3. QED
    BY <2>1, <2>2
<1> HIDE DEF e, b
<1>2. Max(before) = s
  <2>1. s \in before
    BY <1>1
  <2>2. \A x \in before : x \in Int /\ x <= s
    BY <1>1
  <2>3. before \in SUBSET Int /\ before # {} /\ s \in Int
    BY <1>1, <2>1, <2>2
  <2> HIDE DEF before
  <2>4. Max(before) \in before /\ \A y \in before : Max(before) >= y
    BY <2>2, <2>3, GreatestExists
  <2>5. PICK m : m = Max(before)
    OBVIOUS
  <2>6. m \in Int /\ m <= s /\ m >= s /\ s \in Int
    BY <1>1, <2>1, <2>2, <2>4, <2>5
  <2>7. QED
    BY <2>5, <2>6
<1>3. b - 1 - Max(before) = e - s
  BY <1>1, <1>2
<1>4. OddBefore(img, e) = OddBefore(img, s) /\ IsFiniteSet(Odds(img, e))
        /\ OddBefore(img, e) = Cardinality(Odds(img, e))
  <2>1. e \in s .. e /\ e \in Int
    BY <1>1
  <2>2. QED
    BY <2>1, OddsInSegment, OddsFinite DEF e
<1>5. OddBefore(img, b) = Cardinality(Odds(img, b))
  BY <1>1, OddsFinite
<1>6. (e - s) % 2 \in {0, 1}
  BY <1>1
<1>7. CASE (e - s) % 2 = 0
  <2>1. Odds(img, b) = Odds(img, e)
    <3>1. ~EndsOdd(img, b)
      BY <1>3, <1>7 DEF EndsOdd
    <3>2. b \notin Odds(img, b)
      BY <3>1 DEF Odds
    <3>3. QED
      BY <1>1, <3>2 DEF Odds
  <2>2. OddBefore(img, s) \in Nat /\ Padding(img, s) = 0
    BY <1>1, <1>7, OddsFinite DEF Padding, e
  <2>3. QED
    BY <1>4, <1>5, <2>1, <2>2 DEF b
<1>8. CASE (e - s) % 2 = 1
  <2>1. Odds(img, b) = Odds(img, e) \cup {b}
    <3>1. EndsOdd(img, b)
      BY <1>3, <1>8 DEF EndsOdd
    <3>2. b \in Odds(img, b)
      BY <1>1, <3>1 DEF Odds
    <3>3. QED
      BY <1>1, <3>2 DEF Odds
  <2>2. b \notin Odds(img, e)
    BY <1>1 DEF Odds
  <2>3. Cardinality(Odds(img, b)) = Cardinality(Odds(img, e)) + 1
    BY <1>4, <2>1, <2>2, FS_AddElement
  <2>4. Padding(img, s) = 1
    BY <1>8 DEF Padding, e
  <2>5. QED
    BY <1>4, <1>5, <2>3, <2>4 DEF b
<1>9. QED
  BY <1>6, <1>7, <1>8 DEF b

-----------------------------------------------------------------------------
(* Writing an image.  The bytes of a segment come onto the stack last to   *)
(* first (Item, Stacked), and off it into the cells behind the head; cell  *)
(* j of the image is Cell(img, at, j) then, and the mark before the next   *)
(* segment is the last on the tape before the head (BehindMark).           *)

Cell(img, at, j) == at + j + OddBefore(img, j)

OnTape(img, at, n) ==
  \A j \in 1 .. n :
    /\ Cell(img, at, j) \in 1 .. Cells
    /\ tape[Cell(img, at, j)] = Min({img[j], MaxByte + 1})

BehindMark(img, at, s) ==
  OnTape(img, at, s) /\ pos = Cell(img, at, s) + 1 /\ pos \in 1 .. Cells /\ motion = "stop"

Total(img, s) == SegEnd(img, s) + Padding(img, s) - s

Item(img, s, i) ==
  IF i <= Padding(img, s) THEN 0 ELSE img[SegEnd(img, s) + Padding(img, s) + 1 - i]

Stacked(img, s, n) ==
  stack \in Seq(Nat) /\ Len(stack) = n /\ \A i \in 1 .. n : stack[i] = Item(img, s, i)

Complete(img, s) ==
  \E at \in 0 .. Cells :
    /\ OnTape(img, at, SegEnd(img, s))
    /\ After(img, s) < Len(img) => BehindMark(img, at, After(img, s))

LEMMA TotalIsEven ==
  ASSUME NEW img \in Seq(Nat), NEW s, Begins(img, s)
  PROVE  /\ Padding(img, s) \in {0, 1} /\ Total(img, s) \in Nat /\ Total(img, s) % 2 = 0
         /\ Total(img, s) = SegEnd(img, s) - s + Padding(img, s)
<1> DEFINE e == SegEnd(img, s)
<1>1. s \in Nat /\ e \in Nat /\ s <= e
  BY SegmentBounds
<1> HIDE DEF e
<1>2. Padding(img, s) = (e - s) % 2 /\ Total(img, s) = e + Padding(img, s) - s
  BY DEF Padding, Total, e
<1>3. PICK p : p = Padding(img, s)
  OBVIOUS
<1>4. p \in {0, 1} /\ (e - s + p) \in Nat /\ (e - s + p) % 2 = 0
  BY <1>1, <1>2, <1>3
<1>5. QED
  BY <1>1, <1>2, <1>3, <1>4 DEF e

(* The whole stack comes off as the segment, with a zero if it is odd.     *)
LEMMA PoppedIsSegment ==
  ASSUME NEW img \in Seq(Nat), NEW s, Begins(img, s), Stacked(img, s, Total(img, s))
  PROVE  /\ Popped \in Seq(Nat) /\ Len(Popped) = Total(img, s)
         /\ \A i \in 1 .. SegEnd(img, s) - s : Popped[i] = img[s + i]
<1> DEFINE e == SegEnd(img, s)
           p == Padding(img, s)
           t == Total(img, s)
<1>1. s \in Nat /\ e \in Nat /\ s <= e /\ p \in {0, 1}
      /\ t \in Nat /\ t % 2 = 0 /\ t = e - s + p
  BY SegmentBounds, TotalIsEven
<1>2. stack \in Seq(Nat) /\ Len(stack) = t
        /\ \A i \in 1 .. t : stack[i] = IF i <= p THEN 0 ELSE img[e + p + 1 - i]
  BY DEF Stacked, Item
<1> HIDE DEF e, p, t
<1>3. Reverse(stack) \in Seq(Nat) /\ Len(Reverse(stack)) = t
        /\ \A i \in 1 .. t : Reverse(stack)[i] = stack[t - i + 1]
  BY <1>1, <1>2 DEF Reverse
<1>4. Popped = <<>> \o Reverse(stack)
  BY <1>1, <1>2 DEF Popped
<1>5. Popped \in Seq(Nat) /\ Len(Popped) = t /\ \A i \in 1 .. t : Popped[i] = Reverse(stack)[i]
  <2> DEFINE r == Reverse(stack)
  <2>1. r \in Seq(Nat) /\ Len(r) = t /\ Popped = <<>> \o r
    BY <1>3, <1>4
  <2> HIDE DEF r
  <2>2. Popped \in Seq(Nat) /\ Len(Popped) = t /\ \A i \in 1 .. t : Popped[i] = r[i]
    BY <1>1, <2>1
  <2>3. QED
    BY <2>2 DEF r
<1>6. ASSUME NEW i \in 1 .. e - s PROVE Popped[i] = img[s + i]
  <2>1. i \in 1 .. t /\ t - i + 1 \in 1 .. t /\ ~(t - i + 1 <= p)
        /\ e + p + 1 - (t - i + 1) = s + i
    BY <1>1
  <2>2. Popped[i] = stack[t - i + 1]
    BY <1>3, <1>5, <2>1
  <2>3. stack[t - i + 1] = img[e + p + 1 - (t - i + 1)]
    BY <1>2, <2>1
  <2>4. QED
    BY <2>1, <2>2, <2>3
<1>7. QED
  BY <1>5, <1>6 DEF e, t

LEMMA LeastIs ==
  ASSUME NEW a \in Int, NEW b \in Int
  PROVE  Min({a, b}) = IF a <= b THEN a ELSE b
<1> DEFINE S == {a, b}
<1>1. PICK x \in S : \A y \in S : x <= y
  OBVIOUS
<1> HIDE DEF S
<1>2. Min(S) \in S /\ \A y \in S : Min(S) <= y
  BY <1>1 DEF Min
<1>3. QED
  BY <1>2 DEF S

LEMMA ConcatFacts ==
  ASSUME NEW u \in Seq(Nat), NEW v \in Seq(Nat)
  PROVE  /\ Len(u \o v) = Len(u) + Len(v)
         /\ \A i \in 1 .. Len(u) : (u \o v)[i] = u[i]
         /\ \A i \in 1 .. Len(v) : (u \o v)[Len(u) + i] = v[i]
OBVIOUS

(* A segment and the mark behind it, written behind cell a.                *)
LEMMA SegmentWritten ==
  ASSUME NEW img \in Seq(Nat), NEW s, Begins(img, s), Stacked(img, s, Total(img, s)),
         NEW at \in 0 .. Cells, OnTape(img, at, s),
         NEW a \in 1 .. Cells, a = Cell(img, at, s),
         WriteCells(a, After(img, s) < Len(img)), pos' # Cells + 1, motion' = "stop"
  PROVE  Complete(img, s)'
<1> DEFINE e == SegEnd(img, s)
           p == Padding(img, s)
           t == Total(img, s)
           b == After(img, s)
           bof == b < Len(img)
           cells == Popped \o IF bof THEN <<MaxByte + 1, 0>> ELSE <<>>
           len == Len(cells)
<1>1. /\ s \in Nat /\ e \in Nat /\ s <= e /\ p \in {0, 1} /\ t \in Nat /\ t = e - s + p
      /\ Cells \in Nat /\ MaxByte \in Nat /\ a \in Nat /\ at \in Nat
  BY SegmentBounds, TotalIsEven, RelayAssumption, ImagesAssumption
<1>2. Popped \in Seq(Nat) /\ Len(Popped) = t /\ \A i \in 1 .. e - s : Popped[i] = img[s + i]
  BY PoppedIsSegment
<1>3. bof => b = e + 1 /\ img[b] > MaxByte
  <2>1. \/ e = Len(img) /\ b = Len(img)
        \/ b = e + 1 /\ img[b] > MaxByte
    BY SegmentBounds
  <2>2. Len(img) \in Nat
    OBVIOUS
  <2>3. QED
    BY <2>1, <2>2
<1>4. /\ OddBefore(img, s) \in Nat /\ a = at + s + OddBefore(img, s)
      /\ \A j \in s .. e : OddBefore(img, j) = OddBefore(img, s)
      /\ bof => OddBefore(img, b) = OddBefore(img, s) + p
  <2>1. OddBefore(img, s) \in Nat
    BY <1>1, OddsFinite
  <2>2. \A j \in s .. e : OddBefore(img, j) = OddBefore(img, s)
    BY OddsInSegment
  <2>3. bof => OddBefore(img, b) = OddBefore(img, s) + p
    BY <1>3, OddsAfterSegment
  <2>4. QED
    BY <2>1, <2>2, <2>3 DEF Cell
<1>5. /\ pos' = Min({a + len, Cells + 1})
      /\ tape' = [q \in 1 .. Cells |-> IF q \in a + 1 .. pos' THEN cells[q - a] ELSE tape[q]]
  BY DEF WriteCells
<1>6. /\ len \in Nat /\ len = IF bof THEN t + 2 ELSE t
      /\ \A i \in 1 .. t : cells[i] = Popped[i]
      /\ bof => cells[t + 1] = MaxByte + 1
  <2> DEFINE mark == IF bof THEN <<MaxByte + 1, 0>> ELSE <<>>
  <2>1. /\ mark \in Seq(Nat) /\ Len(mark) = IF bof THEN 2 ELSE 0
        /\ bof => mark[1] = MaxByte + 1
    BY <1>1
  <2>2. cells = Popped \o mark
    OBVIOUS
  <2> HIDE DEF bof, mark, cells, t
  <2>3. /\ Len(cells) = t + Len(mark)
        /\ \A i \in 1 .. t : cells[i] = Popped[i]
        /\ \A i \in 1 .. Len(mark) : cells[t + i] = mark[i]
    BY <1>2, <2>1, <2>2, ConcatFacts
  <2>4. bof => cells[t + 1] = MaxByte + 1
    BY <2>1, <2>3
  <2>5. len \in Nat /\ len = IF bof THEN t + 2 ELSE t
    BY <1>1, <2>1, <2>3
  <2>6. QED
    BY <2>3, <2>4, <2>5
<1> HIDE DEF e, p, t, b, bof, cells, len
<1>7. pos' = a + len /\ a + len <= Cells
  <2>1. len \in Nat
    BY <1>6
  <2>2. pos' = IF a + len <= Cells + 1 THEN a + len ELSE Cells + 1
    <3>1. a + len \in Int /\ Cells + 1 \in Int
      BY <1>1, <2>1
    <3>2. QED
      BY <1>5, <3>1, LeastIs
  <2>3. QED
    BY <1>1, <2>1, <2>2, SMTT(20)
<1>8. \A q \in 1 .. a : tape'[q] = tape[q]
  BY <1>1, <1>5
<1>9. ASSUME NEW i \in 1 .. len PROVE a + i \in 1 .. Cells /\ tape'[a + i] = cells[i]
  <2>1. len \in Nat
    BY <1>6
  <2>2. a + i \in 1 .. Cells /\ a + i \in a + 1 .. pos' /\ a + i - a = i
    BY <1>1, <1>7, <2>1
  <2>3. tape'[a + i] = cells[a + i - a]
    BY <1>5, <2>2
  <2>4. QED
    BY <2>2, <2>3
<1>10. ASSUME NEW j \in 1 .. s
       PROVE  /\ Cell(img, at, j) \in 1 .. Cells
              /\ tape'[Cell(img, at, j)] = Min({img[j], MaxByte + 1})
  <2>1. /\ Cell(img, at, j) \in 1 .. Cells
        /\ tape[Cell(img, at, j)] = Min({img[j], MaxByte + 1})
    BY DEF OnTape
  <2>2. OddBefore(img, j) \in Nat /\ OddBefore(img, j) <= OddBefore(img, s)
    BY <1>1, OddsFinite, OddsGrow
  <2>3. Cell(img, at, j) = at + j + OddBefore(img, j)
    BY DEF Cell
  <2>4. Cell(img, at, j) \in 1 .. a
    BY <1>1, <1>4, <2>1, <2>2, <2>3
  <2>5. QED
    BY <1>8, <2>1, <2>4
<1>11. ASSUME NEW j \in s + 1 .. e
       PROVE  /\ Cell(img, at, j) \in 1 .. Cells
              /\ tape'[Cell(img, at, j)] = Min({img[j], MaxByte + 1})
  <2>1. j \in s .. e /\ j - s \in 1 .. e - s /\ j - s \in 1 .. t /\ j - s \in 1 .. len
        /\ s + (j - s) = j
    BY <1>1, <1>6
  <2>2. Cell(img, at, j) = a + (j - s)
    BY <1>1, <1>4, <2>1 DEF Cell
  <2>3. tape'[a + (j - s)] = img[j] /\ a + (j - s) \in 1 .. Cells
    BY <1>2, <1>6, <1>9, <2>1
  <2>4. img[j] \in 0 .. MaxByte
    BY SegmentBounds DEF e
  <2>5. img[j] \in Int /\ MaxByte + 1 \in Int /\ img[j] <= MaxByte + 1
    BY <1>1, <2>4
  <2>6. Min({img[j], MaxByte + 1}) = img[j]
    BY <2>5, LeastIs
  <2>7. QED
    BY <2>2, <2>3, <2>6
<1>12. OnTape(img, at, e)'
  BY <1>1, <1>10, <1>11 DEF OnTape
<1>13. ASSUME bof PROVE BehindMark(img, at, b)'
  <2>1. Cell(img, at, b) = a + (t + 1) /\ b = e + 1
    BY <1>1, <1>3, <1>4, <1>13 DEF Cell
  <2>2. t + 1 \in 1 .. len /\ len = t + 2
    BY <1>1, <1>6, <1>13
  <2>3. tape'[a + (t + 1)] = MaxByte + 1 /\ a + (t + 1) \in 1 .. Cells
    BY <1>6, <1>9, <1>13, <2>2
  <2>4. Min({img[b], MaxByte + 1}) = MaxByte + 1
    <3>1. img[b] \in Nat /\ img[b] > MaxByte
      <4>1. b \in 1 .. Len(img)
        BY <1>1, <1>13, <2>1 DEF bof
      <4>2. QED
        BY <1>3, <1>13, <4>1
    <3>2. img[b] \in Int /\ MaxByte + 1 \in Int /\ MaxByte + 1 <= img[b]
      BY <1>1, <3>1
    <3>3. QED
      BY <3>2, LeastIs
  <2>5. OnTape(img, at, b)'
    <3>1. ASSUME NEW j \in 1 .. b
          PROVE  /\ Cell(img, at, j) \in 1 .. Cells
                 /\ tape'[Cell(img, at, j)] = Min({img[j], MaxByte + 1})
      <4>1. CASE j = b
        BY <2>1, <2>3, <2>4, <4>1
      <4>2. CASE j \in 1 .. e
        BY <1>12, <4>2 DEF OnTape
      <4>3. QED
        BY <1>1, <2>1, <4>1, <4>2
    <3>2. QED
      BY <3>1 DEF OnTape
  <2>6. pos' = Cell(img, at, b) + 1 /\ pos' \in 1 .. Cells
    BY <1>1, <1>7, <2>1, <2>2
  <2>7. QED
    BY <2>5, <2>6 DEF BehindMark
<1>14. QED
  BY <1>12, <1>13 DEF Complete, e, b, bof

-----------------------------------------------------------------------------
(* How far a write has come, as long as no user has cut in.                *)

Pushed(img, s, left) == SegEnd(img, s) + Padding(img, s) - left

InSegment(img, s, left) == img \in Images /\ Begins(img, s) /\ left \in s .. SegEnd(img, s)

Marked(img, s) == s > 0 => \E at \in 0 .. Cells : BehindMark(img, at, s)

PushesOn(img, s, left) ==
  /\ InSegment(img, s, left) /\ Marked(img, s) /\ Pushed(img, s, left) >= 1
  /\ dir = Push(Item(img, s, Pushed(img, s, left)))
  /\ Stacked(img, s, IF Done THEN Pushed(img, s, left) ELSE Pushed(img, s, left) - 1)
  /\ Done => Settled

WritesOn(img, s) ==
  /\ InSegment(img, s, s)
  /\ dir = Write(SubDirective(img, s))
  /\ ~Done => Marked(img, s)
  /\ Done /\ Settled => stack = <<>> /\ (Answer.stat = {} => Complete(img, s))
  /\ ~(Done /\ Settled) => Stacked(img, s, Total(img, s))
  /\ Done /\ ~Settled =>
       s = 0 /\ relay = IF After(img, s) < Len(img) THEN "leader_bof" ELSE "leader"

CommandsOn ==
  /\ dir.kind = "cmd" /\ dir \in Directives
  /\ stack = <<>>
  /\ Done => Settled \/ relay = "drive"

OnPush ==
  \E img \in Images, s \in Nat, left \in Nat :
    image = img /\ call.seg = s /\ call.left = left /\ PushesOn(img, s, left)

OnWrite == \E img \in Images, s \in Nat : image = img /\ call.seg = s /\ WritesOn(img, s)

Filling ==
  upset = "no" =>
    /\ pc = "prompt" => stack = <<>> /\ WriteFaithful
    /\ pc # "prompt" =>
         \/ call.op = "push" /\ OnPush
         \/ call.op = "write" /\ OnWrite
         \/ call.op \notin {"push", "write"} /\ CommandsOn

LEMMA ImageIs ==
  ASSUME NEW img, img \in Images PROVE img \in Seq(Nat)
BY ImagesAssumption

(* What is pushed or written next, when what came before is on the stack.  *)
LEMMA PushingNext ==
  ASSUME NEW img, NEW c, IsCall(c), InSegment(img, c.seg, c.left), Marked(img, c.seg),
         Stacked(img, c.seg, Pushed(img, c.seg, c.left)), Pushing(img, c),
         image' = img, UNCHANGED <<tape, pos, motion, stack>>
  PROVE  (call'.op = "push" /\ OnPush') \/ (call'.op = "write" /\ OnWrite')
<1> DEFINE s == c.seg
           e == SegEnd(img, s)
           p == Padding(img, s)
<1>1. img \in Seq(Nat) /\ Begins(img, s)
  BY ImageIs DEF InSegment
<1>2. s \in Nat /\ e \in Nat /\ s <= e /\ p \in {0, 1}
  <2> HIDE DEF s
  <2>1. s \in Nat /\ Len(img) \in Nat /\ SegEnd(img, s) \in s .. Len(img)
    BY <1>1, SegmentBounds
  <2>2. Padding(img, s) \in {0, 1}
    BY <1>1, TotalIsEven
  <2>3. QED
    BY <2>1, <2>2
<1>3. c.left \in s .. e
  BY DEF InSegment
<1>4. Marked(img, s)' /\ Stacked(img, s, Pushed(img, s, c.left))'
  BY DEF Marked, BehindMark, OnTape, Stacked
<1>5. CASE c.left > s
  <2> DEFINE d == [c EXCEPT !.left = @ - 1]
  <2>1. IsCall(d) /\ d.seg = s /\ d.left = c.left - 1
    BY DEF IsCall
  <2>2. Exec("push", Push(img[c.left]), d)
    BY <1>5 DEF Pushing
  <2> HIDE DEF d
  <2>3. /\ call'.op = "push" /\ call'.seg = s /\ call'.left = c.left - 1
        /\ pc' = "send" /\ dir' = Push(img[c.left])
    <3>1. call' = [d EXCEPT !.op = "push"]
      BY <2>2 DEF Exec
    <3>2. call'.op = "push" /\ call'.seg = d.seg /\ call'.left = d.left
      BY <2>1, <3>1 DEF IsCall
    <3>3. QED
      BY <2>1, <2>2, <3>2 DEF Exec
  <2> HIDE DEF s, e, p
  <2>4. PICK l \in Nat : l = c.left - 1
    BY <1>2, <1>3, <1>5
  <2>5. /\ l \in s .. e /\ Pushed(img, s, l) = e + p - l
        /\ Pushed(img, s, c.left) = e + p - l - 1
        /\ e + p - l >= 1 /\ ~(e + p - l <= p) /\ e + p + 1 - (e + p - l) = c.left
    BY <1>2, <1>3, <1>5, <2>4 DEF Pushed, e, p
  <2>6. Item(img, s, Pushed(img, s, l)) = img[c.left]
    BY <2>5 DEF Item, e, p
  <2>7. ~Done'
    BY <2>3 DEF Done
  <2>8. PushesOn(img, s, l)'
    <3>1. InSegment(img, s, l)
      BY <2>5 DEF InSegment, s, e
    <3>2. Pushed(img, s, l) >= 1 /\ Pushed(img, s, l) - 1 = Pushed(img, s, c.left)
      BY <1>2, <2>4, <2>5
    <3>3. QED
      BY <1>4, <2>3, <2>6, <2>7, <3>1, <3>2 DEF PushesOn
  <2>9. QED
    <3>1. call'.left = l /\ image' = img /\ img \in Images
      BY <2>3, <2>4 DEF InSegment
    <3>2. OnPush'
      BY <1>2, <2>3, <2>8, <3>1 DEF OnPush
    <3>3. QED
      BY <2>3, <3>2
<1>6. CASE ~(c.left > s)
  <2>1. Exec("write", Write(SubDirective(img, s)), c)
    BY <1>6 DEF Pushing
  <2>2. call'.op = "write" /\ call'.seg = s /\ pc' = "send"
        /\ dir' = Write(SubDirective(img, s))
    <3>1. call' = [c EXCEPT !.op = "write"]
      BY <2>1 DEF Exec
    <3>2. call'.op = "write" /\ call'.seg = s
      BY <3>1 DEF IsCall
    <3>3. QED
      BY <2>1, <3>2 DEF Exec
  <2> HIDE DEF s, e, p
  <2>3. c.left = s
    BY <1>2, <1>3, <1>6
  <2>4. Pushed(img, s, s) = Total(img, s)
    BY <1>2 DEF Pushed, Total, e, p
  <2>5. ~Done'
    BY <2>2 DEF Done
  <2>6. WritesOn(img, s)'
    BY <1>4, <2>2, <2>3, <2>4, <2>5 DEF WritesOn, InSegment, s
  <2>7. OnWrite'
    BY <1>2, <2>2, <2>6 DEF OnWrite, InSegment
  <2>8. QED
    BY <2>2, <2>7
<1>7. QED
  BY <1>5, <1>6

LEMMA SegmentNext ==
  ASSUME NEW img, NEW s, img \in Images, Begins(img, s), Marked(img, s), stack = <<>>,
         Segment(img, s), image' = img, UNCHANGED <<tape, pos, motion, stack>>
  PROVE  \/ call'.op = "push" /\ pc' = "send" /\ OnPush'
         \/ call'.op = "write" /\ pc' = "send" /\ OnWrite'
         \/ call'.op = "write" /\ pc' = "prompt" /\ call'.stat # {}
<1> DEFINE e == SegEnd(img, s)
           p == Padding(img, s)
           c == [Idle EXCEPT !.seg = s, !.left = e]
<1>1. s \in Nat /\ e \in Nat /\ s <= e /\ p \in {0, 1} /\ p = (e - s) % 2
  BY ImageIs, SegmentBounds, TotalIsEven DEF Padding
<1>2. IsCall(c) /\ c.seg = s /\ c.left = e
  <2>1. IsCall(c)
    BY IdleCall
  <2> DEFINE d == [Idle EXCEPT !.seg = s]
  <2>2. d.seg = s /\ DOMAIN d = DOMAIN Idle /\ c = [d EXCEPT !.left = e]
    BY DEF Idle
  <2>3. "seg" \in DOMAIN Idle /\ "left" \in DOMAIN Idle
    BY DEF Idle
  <2> HIDE DEF c, d, e
  <2>4. QED
    BY <2>1, <2>2, <2>3
<1>3. InSegment(img, s, e)
  BY <1>1 DEF InSegment
<1>4. Stacked(img, s, 0) /\ Stacked(img, s, 0)'
  BY DEF Stacked
<1>5. Marked(img, s)'
  BY DEF Marked, BehindMark, OnTape
<1>6. CASE c.left - s > BufferMax
  <2> DEFINE d == [c EXCEPT !.op = "write", !.stat = {"SEGTOOLARGE"}]
  <2>1. Prompt(d)
    BY <1>6 DEF Segment
  <2>2. d.op = "write" /\ d.stat = {"SEGTOOLARGE"}
    BY DEF Idle
  <2> HIDE DEF d
  <2>3. QED
    BY <2>1, <2>2, PromptCall
<1>7. CASE ~(c.left - s > BufferMax) /\ (c.left - s) % 2 # 0
  <2>1. Exec("push", Push(0), c)
    BY <1>7 DEF Segment
  <2> HIDE DEF c
  <2>2. /\ call'.op = "push" /\ call'.seg = s /\ call'.left = e
        /\ pc' = "send" /\ dir' = Push(0)
    <3>1. call' = [c EXCEPT !.op = "push"]
      BY <2>1 DEF Exec
    <3>2. call'.op = "push" /\ call'.seg = s /\ call'.left = e
      BY <1>2, <3>1 DEF IsCall
    <3>3. QED
      BY <2>1, <3>2 DEF Exec
  <2>3. p = 1
    BY <1>1, <1>2, <1>7
  <2>4. Pushed(img, s, e) = 1 /\ Item(img, s, 1) = 0
    BY <1>1, <2>3 DEF Pushed, Item
  <2>5. ~Done'
    BY <2>2 DEF Done
  <2>6. PushesOn(img, s, e)'
    BY <1>3, <1>4, <1>5, <2>2, <2>4, <2>5 DEF PushesOn
  <2>7. OnPush'
    BY <1>1, <2>2, <2>6 DEF OnPush
  <2>8. QED
    BY <2>2, <2>7
<1>8. CASE ~(c.left - s > BufferMax) /\ (c.left - s) % 2 = 0
  <2>1. Pushing(img, c)
    BY <1>8 DEF Segment
  <2> HIDE DEF c
  <2>2. p = 0
    BY <1>1, <1>2, <1>8
  <2>3. Pushed(img, s, e) = 0
    BY <1>1, <2>2 DEF Pushed
  <2>4. /\ InSegment(img, c.seg, c.left) /\ Marked(img, c.seg)
        /\ Stacked(img, c.seg, Pushed(img, c.seg, c.left))
    BY <1>2, <1>3, <1>4, <2>3
  <2>5. (call'.op = "push" /\ OnPush') \/ (call'.op = "write" /\ OnWrite')
    BY <1>2, <2>1, <2>4, PushingNext
  <2>6. pc' = "send"
    BY <1>2, <2>1, PushingCall DEF Pushes
  <2>7. QED
    BY <2>5, <2>6
<1>9. QED
  BY <1>6, <1>7, <1>8

LEMMA FillingInit == Init => Filling
BY DEF Init, Filling

(* Nothing changes for a write while the relay and the cells stay; and the *)
(* head does not move while a write relies on where it is.                 *)
LEMMA FillingKept ==
  ASSUME Filling, UNCHANGED <<dir, stack, tape, relay, call, image, upset>>,
         UNCHANGED <<pos, motion>> \/ motion # "stop",
         pc # "prompt", pc' # "prompt", upset = "no" => (Done' <=> Done),
         upset = "no" /\ Done => Answer' = Answer
  PROVE  Filling'
<1> SUFFICES ASSUME upset = "no" PROVE Filling'
  BY DEF Filling
<1>1. (Done' <=> Done) /\ Settled' = Settled /\ (Done => Answer' = Answer)
  BY DEF Settled
<1>2. ASSUME NEW img, NEW s, Marked(img, s) PROVE Marked(img, s)'
  BY <1>2 DEF Marked, BehindMark, OnTape
<1>3. ASSUME NEW img, NEW s, NEW n PROVE Stacked(img, s, n)' = Stacked(img, s, n)
  BY DEF Stacked
<1>4. ASSUME NEW img, NEW s, Complete(img, s) PROVE Complete(img, s)'
  BY <1>4 DEF Complete, BehindMark, OnTape
<1>5. ASSUME NEW img, NEW s, NEW left, PushesOn(img, s, left) PROVE PushesOn(img, s, left)'
  <2>1. Done' = Done \/ (Done' <=> Done)
    BY <1>1
  <2>2. CASE Done
    BY <1>1, <1>2, <1>3, <1>5, <2>2 DEF PushesOn
  <2>3. CASE ~Done
    BY <1>1, <1>2, <1>3, <1>5, <2>3 DEF PushesOn
  <2>4. QED
    BY <2>2, <2>3
<1>6. ASSUME NEW img, NEW s, WritesOn(img, s) PROVE WritesOn(img, s)'
  BY <1>1, <1>2, <1>3, <1>4, <1>6 DEF WritesOn
<1>7. OnPush => OnPush'
  BY <1>5 DEF OnPush
<1>8. OnWrite => OnWrite'
  BY <1>6 DEF OnWrite
<1>9. CommandsOn => CommandsOn'
  BY <1>1 DEF CommandsOn
<1>10. QED
  BY <1>7, <1>8, <1>9 DEF Filling

(* What follows a result that is none of a write.                          *)
LEMMA CommandNext ==
  ASSUME NEW stat, NEW cell, IsCall(call), call.op \notin {"push", "write"},
         dir.kind = "cmd", dir \in Directives, Returns(stat, cell)
  PROVE  \/ pc' = "prompt" /\ call'.op # "write"
         \/ /\ pc' = "send" /\ call'.op \notin {"push", "write"}
            /\ dir'.kind = "cmd" /\ dir' \in Directives
<1> DEFINE Goal == \/ pc' = "prompt" /\ call'.op # "write"
                   \/ /\ pc' = "send" /\ call'.op \notin {"push", "write"}
                      /\ dir'.kind = "cmd" /\ dir' \in Directives
<1>1. /\ IsCall(call)
      /\ \A flags : IsCall([call EXCEPT !.stat = flags])
                     /\ [call EXCEPT !.stat = flags].op = call.op
      /\ \A oks : IsCall([call EXCEPT !.oks = oks])
  BY DEF IsCall
<1>2. /\ Cmd("STOP").kind = "cmd" /\ Cmd("STOP") \in Directives
      /\ AwaitByte.kind = "cmd" /\ AwaitByte \in Directives
  BY DEF Cmd, AwaitByte, Directives, Commands
<1>3. ASSUME NEW op \in {"cmd", "rewind", "start", "byte", "fin"},
             NEW d \in {dir, Cmd("STOP"), AwaitByte}, NEW c, IsCall(c), Exec(op, d, c)
      PROVE  Goal
  <2>1. call'.op = op /\ dir' = d /\ pc' = "send"
    BY <1>3, ExecCall
  <2>2. QED
    BY <1>2, <2>1
<1>4. ASSUME NEW c, c.op = call.op, Prompt(c) PROVE Goal
  <2>1. call'.op = c.op /\ pc' = "prompt"
    BY <1>4, PromptCall
  <2>2. QED
    BY <1>4, <2>1
<1> HIDE DEF Goal
<1>5. ASSUME NEW flags, Stopping(flags) PROVE Goal
  <2>1. Exec("fin", Cmd("STOP"), [call EXCEPT !.stat = flags])
    BY <1>5 DEF Stopping
  <2>2. IsCall([call EXCEPT !.stat = flags])
    BY <1>1
  <2>3. QED
    BY <1>3, <2>1, <2>2
<1>6. ASSUME NEW flags, Prompt([call EXCEPT !.stat = flags]) PROVE Goal
  <2>1. [call EXCEPT !.stat = flags].op = call.op
    BY <1>1
  <2>2. QED
    BY <1>4, <1>6, <2>1
<1>7. ASSUME CmdReturns(stat) PROVE Goal
  BY <1>6, <1>7 DEF CmdReturns
<1>8. ASSUME RewindReturns(stat) PROVE Goal
  <2>1. CASE Exec("cmd", Cmd("STOP"), call)
    BY <1>1, <1>3, <2>1
  <2>2. CASE Exec("rewind", dir, call)
    BY <1>1, <1>3, <2>2
  <2>3. CASE Prompt([call EXCEPT !.stat = stat])
    BY <1>6, <2>3
  <2>4. QED
    BY <1>8, <2>1, <2>2, <2>3 DEF RewindReturns
<1>9. ASSUME StartReturns(stat) PROVE Goal
  <2>1. CASE Exec("byte", AwaitByte, call)
    BY <1>1, <1>3, <2>1
  <2>2. ASSUME NEW oks, Exec("start", dir, [call EXCEPT !.oks = oks]) PROVE Goal
    <3>1. IsCall([call EXCEPT !.oks = oks])
      BY <1>1
    <3>2. QED
      BY <1>3, <2>2, <3>1
  <2>3. QED
    BY <1>5, <1>9, <2>1, <2>2 DEF StartReturns
<1>10. ASSUME ByteReturns(stat, cell) PROVE Goal
  <2>1. CASE Exec("byte", dir, call)
    BY <1>1, <1>3, <2>1
  <2>2. QED
    BY <1>5, <1>10, <2>1 DEF ByteReturns
<1>11. ASSUME FinReturns PROVE Goal
  BY <1>4, <1>11 DEF FinReturns
<1>12. Goal
  BY <1>7, <1>8, <1>9, <1>10, <1>11 DEF Returns, PushReturns, WriteReturns
<1>13. QED
  BY <1>12 DEF Goal

(* A write that is complete has put the image on the tape.                 *)
LEMMA CompleteHolds ==
  ASSUME NEW img \in Seq(Nat), NEW s, Begins(img, s), Complete(img, s),
         After(img, s) >= Len(img)
  PROVE  \E at \in 0 .. Cells : Holds(img, at)
<1>1. PICK at \in 0 .. Cells : OnTape(img, at, SegEnd(img, s))
  BY DEF Complete
<1>2. /\ Len(img) \in Nat /\ s \in Nat /\ MaxByte \in Nat
      /\ \/ SegEnd(img, s) = Len(img)
         \/ SegEnd(img, s) = Len(img) - 1 /\ img[Len(img)] > MaxByte
  <2>1. /\ s \in Nat /\ Len(img) \in Nat /\ SegEnd(img, s) \in s .. Len(img)
        /\ \/ SegEnd(img, s) = Len(img)
           \/ /\ After(img, s) = SegEnd(img, s) + 1 /\ After(img, s) \in s + 1 .. Len(img)
              /\ img[After(img, s)] > MaxByte
    BY SegmentBounds
  <2>2. CASE SegEnd(img, s) = Len(img)
    BY <2>1, <2>2, ImagesAssumption
  <2>3. CASE /\ After(img, s) = SegEnd(img, s) + 1 /\ After(img, s) \in s + 1 .. Len(img)
             /\ img[After(img, s)] > MaxByte
    <3>1. After(img, s) = Len(img)
      BY <2>1, <2>3
    <3>2. SegEnd(img, s) = Len(img) - 1
      BY <2>1, <2>3, <3>1
    <3>3. QED
      BY <2>1, <2>3, <3>1, <3>2, ImagesAssumption
  <2>4. QED
    BY <2>1, <2>2, <2>3
<1>3. ASSUME NEW j \in DOMAIN img, img[j] <= MaxByte \/ j < Len(img)
      PROVE  j \in 1 .. SegEnd(img, s)
  <2>1. j \in 1 .. Len(img) /\ img[j] \in Nat
    BY SequenceFacts
  <2>2. QED
    BY <1>2, <1>3, <2>1
<1>4. Holds(img, at)
  BY <1>1, <1>3 DEF Holds, OnTape, Cell
<1>5. QED
  BY <1>4

LEMMA WriteNext ==
  ASSUME NEW img, NEW s, NEW stat, WritesOn(img, s), Done, Settled,
         stat = {} => Answer.stat = {}, IsCall(call), call.op = "write",
         call.seg = s, image = img, image' = img, WriteReturns(stat),
         UNCHANGED <<tape, pos, motion, stack>>
  PROVE  \/ pc' = "prompt" /\ stack' = <<>> /\ WriteFaithful'
         \/ pc' = "send" /\ call'.op = "push" /\ OnPush'
         \/ pc' = "send" /\ call'.op = "write" /\ OnWrite'
<1>1. img \in Seq(Nat) /\ Begins(img, s) /\ stack = <<>> /\ (stat = {} => Complete(img, s))
  BY ImageIs DEF WritesOn, InSegment
<1>2. CASE stat # {} \/ After(img, s) >= Len(img)
  <2>1. Prompt([call EXCEPT !.stat = stat])
    BY <1>2 DEF WriteReturns
  <2>2. pc' = "prompt" /\ call'.stat = stat
    BY <2>1, PromptCall DEF IsCall
  <2>3. CASE stat # {}
    BY <1>1, <2>2, <2>3 DEF WriteFaithful
  <2>4. CASE stat = {}
    <3>1. \E at \in 0 .. Cells : Holds(img, at)
      BY <1>1, <1>2, <2>4, CompleteHolds
    <3>2. \A at : Holds(img, at)' = Holds(img, at)
      BY DEF Holds
    <3>3. \E at \in 0 .. Cells : Holds(image, at)'
      BY <3>1, <3>2 DEF Holds
    <3>4. QED
      BY <1>1, <2>2, <3>3 DEF WriteFaithful
  <2>5. QED
    BY <2>3, <2>4
<1>3. CASE ~(stat # {} \/ After(img, s) >= Len(img))
  <2>1. Segment(img, After(img, s))
    BY <1>3 DEF WriteReturns
  <2>2. PICK b : b = After(img, s)
    OBVIOUS
  <2>3. b < Len(img) /\ Begins(img, b)
    <3>1. /\ s \in Nat /\ Len(img) \in Nat
          /\ \/ b = Len(img)
             \/ b \in s + 1 .. Len(img) /\ img[b] > MaxByte
      BY <1>1, <2>2, SegmentBounds
    <3>2. b \in 0 .. Len(img) /\ b < Len(img) /\ img[b] > MaxByte
      BY <1>3, <2>2, <3>1
    <3>3. QED
      BY <3>2 DEF Begins
  <2>4. Marked(img, b)
    BY <1>1, <1>3, <2>2, <2>3 DEF Complete, Marked
  <2>5. img \in Images
    BY DEF WritesOn, InSegment
  <2>6. Segment(img, b)
    BY <2>1, <2>2
  <2>7. \/ call'.op = "push" /\ pc' = "send" /\ OnPush'
        \/ call'.op = "write" /\ pc' = "send" /\ OnWrite'
        \/ call'.op = "write" /\ pc' = "prompt" /\ call'.stat # {}
    BY <1>1, <2>3, <2>4, <2>5, <2>6, SegmentNext
  <2>8. stack' = <<>>
    BY <1>1
  <2>9. QED
    BY <2>7, <2>8 DEF WriteFaithful
<1>4. QED
  BY <1>2, <1>3

LEMMA ControllerFills == IInv /\ RestInv /\ Filling /\ Controller => Filling'
<1> SUFFICES ASSUME IInv, RestInv, Filling, Controller, upset' = "no" PROVE Filling'
  BY DEF Filling
<1>1. CASE Send
  <2>1. /\ pc = "send" /\ pc' = "sending"
        /\ UNCHANGED <<dir, stack, tape, pos, motion, relay, call, image, upset>>
    BY <1>1 DEF Send, CtlKeeps, relayVars, deckVars
  <2>2. ~Done /\ ~Done'
    BY <2>1 DEF Done
  <2>3. QED
    BY <2>1, <2>2, FillingKept
<1>2. CASE Sent
  <2>1. /\ pc = "sending" /\ pc' = "wait" /\ executed' = 0
        /\ UNCHANGED <<dir, stack, tape, pos, motion, relay, call, image, upset>>
    BY <1>2 DEF Sent, deckVars
  <2>2. ~Done /\ ~Done'
    BY <2>1 DEF Done
  <2>3. QED
    BY <2>1, <2>2, FillingKept
<1>3. CASE Fetch
  <2>1. /\ pc = "wait" /\ pc' = "fetching" /\ data_av /\ sr' = ir
        /\ UNCHANGED <<dir, stack, tape, pos, motion, relay, call, image, upset>>
    BY <1>3 DEF Fetch, CtlKeeps, relayVars, deckVars
  <2>2. upset = "no" => executed = 1
    BY <2>1 DEF IInv, InPhase
  <2>3. Answer' = Answer
    BY <2>1 DEF Answer
  <2>4. upset = "no" => (Done' <=> Done)
    BY <2>1, <2>2 DEF Done
  <2>5. QED
    BY <2>1, <2>3, <2>4, FillingKept
<1>4. CASE Fetched
  <2>1. PICK stat : stat = IF sr.dev = "general" THEN sr.stat ELSE {"ERRPROTOCOL"}
    OBVIOUS
  <2>2. /\ pc = "fetching" /\ Returns(stat, sr.cell)
        /\ UNCHANGED <<upset, relay, pos, motion, stack, tape, image>>
    BY <1>4, <2>1 DEF Fetched, Returns, CtlKeeps, relayVars, deckVars
  <2>3. upset = "no" /\ Done /\ Settled /\ Answer = sr
    BY <2>2 DEF IInv, InPhase, Waiting, Settled, Done, Answer
  <2>4. IsCall(call)
    BY DEF RestInv
  <2>5. CASE call.op = "push" /\ OnPush
    <3>1. PushReturns
      BY <2>2, <2>5 DEF Returns, CmdReturns, RewindReturns, StartReturns, ByteReturns,
         FinReturns, WriteReturns
    <3>2. PICK img \in Images, s \in Nat, left \in Nat :
            image = img /\ call.seg = s /\ call.left = left /\ PushesOn(img, s, left)
      BY <2>5 DEF OnPush
    <3>3. InSegment(img, s, left) /\ Marked(img, s) /\ Stacked(img, s, Pushed(img, s, left))
      BY <2>3, <3>2 DEF PushesOn
    <3>4. /\ InSegment(img, call.seg, call.left) /\ Marked(img, call.seg)
          /\ Stacked(img, call.seg, Pushed(img, call.seg, call.left))
      BY <3>2, <3>3
    <3>5. Pushing(img, call) /\ image' = img
      BY <2>2, <3>1, <3>2 DEF PushReturns
    <3>6. (call'.op = "push" /\ OnPush') \/ (call'.op = "write" /\ OnWrite')
      BY <2>2, <2>4, <3>4, <3>5, PushingNext
    <3>7. pc' = "send"
      BY <2>4, <3>5, PushingCall DEF Pushes
    <3>8. QED
      BY <3>6, <3>7 DEF Filling
  <2>6. CASE call.op = "write" /\ OnWrite
    <3>1. WriteReturns(stat)
      BY <2>2, <2>6 DEF Returns, CmdReturns, RewindReturns, StartReturns, ByteReturns,
         FinReturns, PushReturns
    <3>2. PICK img \in Images, s \in Nat : image = img /\ call.seg = s /\ WritesOn(img, s)
      BY <2>6 DEF OnWrite
    <3>3. stat = {} => Answer.stat = {}
      BY <2>1, <2>3
    <3>4. image' = img
      BY <2>2, <3>2
    <3>5. \/ pc' = "prompt" /\ stack' = <<>> /\ WriteFaithful'
          \/ pc' = "send" /\ call'.op = "push" /\ OnPush'
          \/ pc' = "send" /\ call'.op = "write" /\ OnWrite'
      BY <2>2, <2>3, <2>4, <2>6, <3>1, <3>2, <3>3, <3>4, WriteNext
    <3>6. QED
      BY <3>5 DEF Filling
  <2>7. CASE call.op \notin {"push", "write"} /\ CommandsOn
    <3>1. dir.kind = "cmd" /\ dir \in Directives /\ stack' = <<>>
      BY <2>2, <2>7 DEF CommandsOn
    <3>2. \/ pc' = "prompt" /\ call'.op # "write"
          \/ /\ pc' = "send" /\ call'.op \notin {"push", "write"}
             /\ dir'.kind = "cmd" /\ dir' \in Directives
      BY <2>2, <2>4, <2>7, <3>1, CommandNext
    <3>3. CASE pc' = "prompt" /\ call'.op # "write"
      BY <3>1, <3>3 DEF Filling, WriteFaithful
    <3>4. CASE /\ pc' = "send" /\ call'.op \notin {"push", "write"}
               /\ dir'.kind = "cmd" /\ dir' \in Directives
      BY <3>1, <3>4 DEF Filling, CommandsOn, Done
    <3>5. QED
      BY <3>2, <3>3, <3>4
  <2>8. QED
    BY <2>2, <2>3, <2>5, <2>6, <2>7 DEF Filling
<1>5. CASE Interrupted
  BY <1>5 DEF Interrupted
<1>6. QED
  BY <1>1, <1>2, <1>3, <1>4, <1>5 DEF Controller

LEMMA OperatorFills == Filling /\ Operator => Filling'
<1> SUFFICES ASSUME Filling, Operator, upset' = "no" PROVE Filling'
  BY DEF Filling
<1>1. pc = "prompt" /\ stack = <<>> /\ UNCHANGED <<tape, pos, motion, stack>>
  <2>1. Command
    BY DEF Operator, DriveCommand, Rewind, ReadImage, WriteImage
  <2>2. upset = "no" \/ stack = <<>>
    BY <2>1 DEF Command, InStep
  <2>3. QED
    BY <2>1, <2>2 DEF Command, Filling, CtlKeeps, relayVars, deckVars
<1>2. ASSUME NEW op, op \notin {"push", "write"}, NEW d, d.kind = "cmd", d \in Directives,
             NEW c, IsCall(c), Exec(op, d, c)
      PROVE  Filling'
  <2>1. call'.op = op /\ dir' = d /\ pc' = "send"
    BY <1>2, ExecCall
  <2>2. QED
    BY <1>1, <1>2, <2>1 DEF Filling, CommandsOn, Done
<1>3. IsCall(Idle) /\ \A size : IsCall([Idle EXCEPT !.size = size])
  BY DEF IsCall, Idle
<1>4. ASSUME NEW cmd \in Commands PROVE Cmd(cmd).kind = "cmd" /\ Cmd(cmd) \in Directives
  BY DEF Cmd, Directives
<1>5. CASE \E cmd \in Commands : DriveCommand(cmd)
  BY <1>2, <1>3, <1>4, <1>5 DEF DriveCommand
<1>6. CASE Rewind
  BY <1>2, <1>3, <1>4, <1>6 DEF Rewind, Commands
<1>7. CASE \E size \in Sizes : ReadImage(size)
  BY <1>2, <1>3, <1>4, <1>7 DEF ReadImage, Commands
<1>8. CASE \E img \in Images : WriteImage(img)
  <2>1. PICK img \in Images : Segment(img, 0) /\ image' = img
    BY <1>8 DEF WriteImage
  <2>2. Begins(img, 0) /\ Marked(img, 0)
    <3>1. Len(img) \in Nat
      BY ImageIs
    <3>2. QED
      BY <3>1 DEF Begins, Marked
  <2>3. \/ call'.op = "push" /\ pc' = "send" /\ OnPush'
        \/ call'.op = "write" /\ pc' = "send" /\ OnWrite'
        \/ call'.op = "write" /\ pc' = "prompt" /\ call'.stat # {}
    BY <1>1, <2>1, <2>2, SegmentNext
  <2>4. QED
    BY <1>1, <2>3 DEF Filling, WriteFaithful
<1>9. QED
  BY <1>5, <1>6, <1>7, <1>8 DEF Operator

(* What is pushed is a byte, and it comes on top.                          *)
LEMMA ItemByte ==
  ASSUME NEW img \in Seq(Nat), NEW s, Begins(img, s), NEW left \in s .. SegEnd(img, s),
         Pushed(img, s, left) >= 1
  PROVE  Item(img, s, Pushed(img, s, left)) \in 0 .. MaxByte /\ Pushed(img, s, left) \in Nat
<1> DEFINE e == SegEnd(img, s)
           p == Padding(img, s)
           n == Pushed(img, s, left)
<1>1. /\ s \in Nat /\ e \in Nat /\ s <= e /\ p \in {0, 1} /\ MaxByte \in Nat
      /\ \A j \in s + 1 .. e : img[j] \in 0 .. MaxByte
  BY SegmentBounds, TotalIsEven, ImagesAssumption
<1>2. n = e + p - left /\ n >= 1
  BY DEF Pushed
<1>3. left \in s .. e
  OBVIOUS
<1> HIDE DEF e, p, n
<1>4. n \in Nat
  BY <1>1, <1>2, <1>3
<1>5. Item(img, s, n) = IF n <= p THEN 0 ELSE img[e + p + 1 - n]
  BY DEF Item, e, p
<1>6. CASE n <= p
  BY <1>1, <1>4, <1>5, <1>6 DEF n
<1>7. CASE ~(n <= p)
  <2>1. e + p + 1 - n \in s + 1 .. e
    BY <1>1, <1>2, <1>3, <1>7
  <2>2. QED
    BY <1>1, <1>4, <1>5, <1>7, <2>1 DEF n
<1>8. QED
  BY <1>6, <1>7

LEMMA StackGrows ==
  ASSUME NEW img, NEW s, NEW n \in Nat, n >= 1, Stacked(img, s, n - 1),
         Item(img, s, n) \in Nat, stack' = Append(stack, Item(img, s, n))
  PROVE  Stacked(img, s, n)'
<1>1. PICK b \in Nat : b = Item(img, s, n)
  OBVIOUS
<1>2. stack \in Seq(Nat) /\ Len(stack) = n - 1
      /\ \A i \in 1 .. n - 1 : stack[i] = Item(img, s, i)
  BY DEF Stacked
<1>3. /\ stack' \in Seq(Nat) /\ Len(stack') = n /\ stack'[n] = b
      /\ \A i \in 1 .. n - 1 : stack'[i] = stack[i]
  BY <1>1, <1>2
<1>4. ASSUME NEW i \in 1 .. n PROVE stack'[i] = Item(img, s, i)
  <2>1. CASE i = n
    BY <1>1, <1>3, <2>1
  <2>2. CASE i \in 1 .. n - 1
    BY <1>2, <1>3, <2>2
  <2>3. i = n \/ i \in 1 .. n - 1
    OBVIOUS
  <2>4. QED
    BY <2>1, <2>2, <2>3
<1>5. ASSUME NEW i PROVE Item(img, s, i)' = Item(img, s, i)
  BY DEF Item, Padding, SegEnd, Bofs
<1>6. QED
  BY <1>3, <1>4, <1>5 DEF Stacked

(* A write finds the mark before its segment, for it is the last one.      *)
LEMMA MarkFound ==
  ASSUME NEW img \in Seq(Nat), NEW s, Begins(img, s), s > 0,
         NEW at \in 0 .. Cells, BehindMark(img, at, s)
  PROVE  ~Leader /\ Marks # {} /\ Max(Marks) = Cell(img, at, s) /\ Max(Marks) \in 1 .. Cells
<1> DEFINE m == Cell(img, at, s)
           top == Min({pos - 1, Cells})
<1>1. s \in 1 .. Len(img) /\ img[s] \in Nat /\ img[s] > MaxByte
      /\ MaxByte \in Nat /\ Cells \in Nat
  <2>1. s \in 0 .. Len(img) /\ Len(img) \in Nat /\ img[s] > MaxByte
    BY DEF Begins
  <2>2. s \in 1 .. Len(img)
    BY <2>1
  <2>3. img[s] \in Nat
    BY <2>2
  <2>4. QED
    BY <2>1, <2>2, <2>3, ImagesAssumption, RelayAssumption
<1>2. pos = m + 1 /\ pos \in 1 .. Cells /\ m \in 1 .. Cells
      /\ tape[m] = Min({img[s], MaxByte + 1})
  BY <1>1 DEF BehindMark, OnTape
<1> HIDE DEF m
<1>3. tape[m] = MaxByte + 1
  <2>1. img[s] \in Int /\ MaxByte + 1 \in Int /\ MaxByte + 1 <= img[s]
    BY <1>1
  <2>2. Min({img[s], MaxByte + 1}) = MaxByte + 1
    BY <2>1, LeastIs
  <2>3. QED
    BY <1>2, <2>2
<1>4. top = m
  <2>1. pos - 1 \in Int /\ Cells \in Int /\ pos - 1 = m /\ pos - 1 <= Cells
    BY <1>1, <1>2
  <2>2. QED
    BY <2>1, LeastIs
<1> HIDE DEF top
<1>5. Marks = {p \in 1 .. m : tape[p] > MaxByte}
  BY <1>4 DEF Marks, top
<1>6. m \in Marks /\ \A x \in Marks : x \in Int /\ x <= m
  BY <1>1, <1>2, <1>3, <1>5
<1>7. Marks \in SUBSET Int /\ Marks # {} /\ m \in Int
  BY <1>2, <1>6
<1>8. Max(Marks) \in Marks /\ Max(Marks) >= m
  BY <1>6, <1>7, GreatestExists
<1>9. PICK x : x = Max(Marks)
  OBVIOUS
<1>10. x \in Int /\ x <= m /\ x >= m
  BY <1>6, <1>8, <1>9
<1>11. Max(Marks) = m
  BY <1>7, <1>9, <1>10
<1>12. QED
  BY <1>1, <1>2, <1>7, <1>11 DEF Leader, m

LEMMA NoFlags == DeckStatus = {} => present /\ writable /\ ~Leader
<1>1. ASSUME DeckStatus = {} PROVE present /\ writable /\ ~Leader
  <2>1. "LDR" \notin DeckStatus /\ "NOCASS" \notin DeckStatus /\ "NOWRITE" \notin DeckStatus
    BY <1>1
  <2>2. ("LDR" \in DeckStatus <=> Leader) /\ ("NOCASS" \in DeckStatus <=> ~present)
        /\ ("NOWRITE" \in DeckStatus <=> ~writable)
    BY DEF DeckStatus
  <2>3. QED
    BY <2>1, <2>2, Zenon
<1>2. QED
  BY <1>1

(* The end of a write: it reports no error only if the segment is there.   *)
LEMMA WroteAfterMark ==
  ASSUME NEW img \in Seq(Nat), NEW s, Begins(img, s), s > 0,
         NEW at \in 0 .. Cells, BehindMark(img, at, s), Stacked(img, s, Total(img, s)),
         WriteAfterMark(Write(SubDirective(img, s)))
  PROVE  DeckStatus' = {} => Complete(img, s)'
<1> SUFFICES ASSUME DeckStatus' = {} PROVE Complete(img, s)'
  OBVIOUS
<1>1. present /\ writable /\ pos' # 0 /\ pos' # Cells + 1 /\ motion' = "stop"
  <2>1. (DeckStatus = {} => present /\ writable /\ ~Leader)'
    BY NoFlags, PTL
  <2>2. present' /\ writable' /\ ~Leader'
    BY <2>1
  <2>3. present' = present /\ writable' = writable /\ motion' = "stop"
    BY DEF WriteAfterMark, WriteEnds
  <2>4. present /\ writable
    BY <2>2, <2>3, Zenon
  <2>5. QED
    BY <2>2, <2>3, <2>4 DEF Leader
<1>2. PICK m : m = Cell(img, at, s)
  OBVIOUS
<1>3. ~Leader /\ Marks # {} /\ Max(Marks) = m /\ m \in 1 .. Cells
  BY <1>2, MarkFound
<1>4. PICK bof \in BOOLEAN : bof <=> After(img, s) < Len(img)
  OBVIOUS
<1>5. ("WBOF" \in Write(SubDirective(img, s)).sub) <=> bof
  BY <1>4 DEF Write, SubDirective
<1>6. WriteCells(m, bof)
  <2>1. PICK back : back = IF ~present \/ Leader THEN pos
                           ELSE IF Marks = {} THEN 0 ELSE Max(Marks) - 1
    OBVIOUS
  <2>2. back = m - 1
    BY <1>1, <1>3, <2>1
  <2>3. IF back \in 1 .. Cells
          THEN WriteCells(back + 1, "WBOF" \in Write(SubDirective(img, s)).sub)
          ELSE pos' = back
    BY <1>1, <2>1 DEF WriteAfterMark
  <2>4. Cells \in Nat
    BY RelayAssumption
  <2>5. back \in 1 .. Cells /\ back + 1 = m
    BY <1>1, <1>3, <2>2, <2>3, <2>4
  <2>6. WriteCells(back + 1, "WBOF" \in Write(SubDirective(img, s)).sub)
    BY <2>3, <2>5
  <2>7. QED
    BY <1>5, <2>5, <2>6 DEF WriteCells
<1>7. WriteCells(m, After(img, s) < Len(img))
  BY <1>4, <1>6 DEF WriteCells
<1>8. OnTape(img, at, s)
  BY DEF BehindMark
<1>9. QED
  BY <1>1, <1>2, <1>3, <1>7, <1>8, SegmentWritten

LEMMA WroteBuffer ==
  ASSUME NEW img \in Seq(Nat), Begins(img, 0), Stacked(img, 0, Total(img, 0)), pos \in Nat,
         stack \in Seq(Items(stack)),
         relay = IF After(img, 0) < Len(img) THEN "leader_bof" ELSE "leader", WriteBuffer
  PROVE  DeckStatus' = {} => Complete(img, 0)'
<1> SUFFICES ASSUME DeckStatus' = {} PROVE Complete(img, 0)'
  OBVIOUS
<1>1. present /\ writable /\ pos' # 0 /\ pos' # Cells + 1 /\ motion' = "stop"
  <2>1. (DeckStatus = {} => present /\ writable /\ ~Leader)'
    BY NoFlags, PTL
  <2>2. present' /\ writable' /\ ~Leader'
    BY <2>1
  <2>3. present' = present /\ writable' = writable /\ motion' = "stop"
    BY DEF WriteBuffer, WriteEnds
  <2>4. present /\ writable
    BY <2>2, <2>3, Zenon
  <2>5. QED
    BY <2>2, <2>3, <2>4 DEF Leader
<1>2. ~Leader /\ WriteCells(pos, relay = "leader_bof")
  BY <1>1 DEF WriteBuffer
<1>3. PICK bof \in BOOLEAN : bof <=> After(img, 0) < Len(img)
  OBVIOUS
<1>4. WriteCells(pos, bof)
  BY <1>2, <1>3 DEF WriteCells
<1>5. pos \in 1 .. Cells
  <2>1. PICK len : len = Len(Popped \o IF bof THEN <<MaxByte + 1, 0>> ELSE <<>>)
    OBVIOUS
  <2>2. len \in Nat /\ Cells \in Nat
    BY <2>1, PoppedIsLong, RelayAssumption
  <2>3. pos' = Min({pos + len, Cells + 1})
    BY <1>4, <2>1 DEF WriteCells
  <2>4. pos + len \in Int /\ Cells + 1 \in Int
    BY <2>2
  <2>5. pos' = IF pos + len <= Cells + 1 THEN pos + len ELSE Cells + 1
    BY <2>3, <2>4, LeastIs
  <2>6. pos # 0
    BY <1>2 DEF Leader
  <2>7. QED
    BY <1>1, <2>2, <2>5, <2>6
<1>6. Cell(img, pos, 0) = pos /\ OnTape(img, pos, 0)
  <2>1. OddBefore(img, 0) = 0
    <3>1. Odds(img, 0) = {}
      BY DEF Odds
    <3>2. OddBefore(img, 0) = Cardinality(Odds(img, 0))
      BY OddsFinite
    <3>3. QED
      BY <3>1, <3>2, FS_EmptySet
  <2>2. QED
    BY <2>1 DEF Cell, OnTape
<1>7. WriteCells(pos, After(img, 0) < Len(img))
  BY <1>3, <1>4 DEF WriteCells
<1>8. PICK a \in 1 .. Cells : a = pos
  BY <1>5
<1>9. a \in 0 .. Cells /\ a = Cell(img, a, 0) /\ OnTape(img, a, 0)
      /\ WriteCells(a, After(img, 0) < Len(img))
  BY <1>6, <1>7, <1>8, RelayAssumption
<1>10. QED
  BY <1>1, <1>9, SegmentWritten

(* While the controller waits in step, a reply that is new is the answer.  *)
LEMMA RelayFills == IInv /\ RestInv /\ Filling /\ (RelayNext \/ Start) => Filling'
<1> SUFFICES ASSUME IInv, RestInv, Filling, RelayNext \/ Start PROVE Filling'
  OBVIOUS
<1>0. upset' = upset
  BY DEF RelayNext, Start, Post, Take, WriteBuffer, DriveReady, Directive
<1> SUFFICES ASSUME upset = "no" PROVE Filling'
  BY <1>0 DEF Filling
<1>1. UNCHANGED <<pc, dir, sr, call, image, upset, out, ctl>>
  BY DEF RelayNext, Start, Post, Take, WriteBuffer, DriveReady, Directive, RelayKeeps,
     CeoRises, pldVars
<1>2. pc = "wait" /\ out = [flags |-> {"ACK"}, dir |-> dir]
  BY DEF IInv, Locations, InPhase, Waiting, RelayNext, Start, Post, Take, WriteBuffer,
     DriveReady, RestInv, Driven
<1>3. /\ ctl = 1
      /\ \/ ~data_av /\ executed = 0 /\ relay = "await" /\ ack = 1
         \/ ~data_av /\ executed = 1 /\ relay # "await"
         \/ data_av /\ executed = 1 /\ relay = "await" /\ ack = 0
  BY <1>2 DEF IInv, InPhase, Waiting
<1>4. IsCall(call) /\ pos \in Nat /\ stack \in Seq(Items(stack))
  BY DEF RestInv
<1>5. \/ call.op = "push" /\ OnPush
      \/ call.op = "write" /\ OnWrite
      \/ call.op \notin {"push", "write"} /\ CommandsOn
  BY <1>2 DEF Filling
<1>6. CASE Post
  <2>1. /\ relay = "post" /\ relay' = "await" /\ ir' = reply /\ data_av'
        /\ UNCHANGED <<executed, pos, motion, stack, tape>>
    BY <1>3, <1>6 DEF Post, CeoRises, deckVars
  <2>2. Done /\ Done' /\ Settled /\ Settled' /\ Answer = reply /\ Answer' = Answer
    BY <1>1, <1>2, <1>3, <2>1 DEF Answer, Done, Settled
  <2>3. ASSUME NEW img, NEW s
        PROVE  /\ Marked(img, s)' = Marked(img, s) /\ Complete(img, s)' = Complete(img, s)
               /\ \A n : Stacked(img, s, n)' = Stacked(img, s, n)
    BY <2>1 DEF Marked, Complete, BehindMark, OnTape, Stacked
  <2>4. ASSUME NEW img, NEW s, NEW left, PushesOn(img, s, left) PROVE PushesOn(img, s, left)'
    BY <1>1, <2>2, <2>3, <2>4 DEF PushesOn
  <2>5. ASSUME NEW img, NEW s, WritesOn(img, s) PROVE WritesOn(img, s)'
    BY <1>1, <2>1, <2>2, <2>3, <2>5 DEF WritesOn
  <2>6. OnPush => OnPush'
    BY <1>1, <2>4 DEF OnPush
  <2>7. OnWrite => OnWrite'
    BY <1>1, <2>5 DEF OnWrite
  <2>8. CommandsOn => CommandsOn'
    BY <1>1, <2>1, <2>2 DEF CommandsOn
  <2>9. QED
    BY <1>1, <1>2, <1>5, <2>6, <2>7, <2>8 DEF Filling
<1>7. CASE Take
  <2>1. ~data_av /\ executed = 0 /\ relay = "await" /\ ack = 1 /\ ~Done
    BY <1>2, <1>3, <1>7 DEF Take, Done
  <2>2. dir \in Directives
    <3>1. CASE call.op = "push" /\ OnPush
      <4>1. PICK img \in Images, s \in Nat, left \in Nat : PushesOn(img, s, left)
        BY <3>1 DEF OnPush
      <4>2. Item(img, s, Pushed(img, s, left)) \in 0 .. MaxByte
        BY <4>1, ImageIs, ItemByte DEF PushesOn, InSegment
      <4>3. QED
        BY <4>1, <4>2 DEF PushesOn, Directives
    <3>2. CASE call.op = "write" /\ OnWrite
      <4>1. PICK img \in Images, s \in Nat : dir = Write(SubDirective(img, s))
        BY <3>2 DEF OnWrite, WritesOn
      <4>2. SubDirective(img, s) \in SUBSET {"CLRLDR", "FBOF", "WBOF"}
        BY DEF SubDirective
      <4>3. QED
        BY <4>1, <4>2 DEF Directives
    <3>3. CASE CommandsOn
      BY <3>3 DEF CommandsOn
    <3>4. QED
      BY <1>5, <3>1, <3>2, <3>3
  <2>3. Directive(dir)
    BY <1>2, <1>7, <2>2, RelayAssumption DEF Take
  <2>4. executed' = 1 /\ data_av' = data_av /\ Done'
    BY <1>1, <1>2, <2>1, <2>3 DEF Directive, pldVars, Done
  <2>5. Answer' = reply'
    BY <1>1, <1>2, <2>1, <2>4 DEF Answer
  <2>6. CASE call.op = "push" /\ OnPush
    <3>1. PICK img \in Images, s \in Nat, left \in Nat :
            image = img /\ call.seg = s /\ call.left = left /\ PushesOn(img, s, left)
      BY <2>6 DEF OnPush
    <3>2. PICK n : n = Pushed(img, s, left)
      OBVIOUS
    <3>3. /\ InSegment(img, s, left) /\ Marked(img, s) /\ n >= 1 /\ dir = Push(Item(img, s, n))
          /\ Stacked(img, s, n - 1)
      BY <2>1, <3>1, <3>2 DEF PushesOn
    <3>4. Item(img, s, n) \in Nat /\ n \in Nat
      <4>1. Item(img, s, n) \in 0 .. MaxByte /\ n \in Nat
        BY <3>2, <3>3, ImageIs, ItemByte DEF InSegment
      <4>2. QED
        BY <4>1, ImagesAssumption
    <3>5. PushByte(dir)
      BY <2>3, <3>3 DEF Directive, CommandDirective, WriteClear, WriteAfterMark, Push
    <3>6. /\ stack' = Append(stack, Item(img, s, n)) /\ relay' = "post"
          /\ UNCHANGED <<tape, pos, motion>>
      BY <3>3, <3>5 DEF PushByte, Replies, Push
    <3>7. Stacked(img, s, n)'
      BY <3>3, <3>4, <3>6, StackGrows
    <3>8. Marked(img, s)'
      BY <3>3, <3>6 DEF Marked, BehindMark, OnTape
    <3>9. PushesOn(img, s, left)'
      BY <1>1, <2>4, <3>2, <3>3, <3>6, <3>7, <3>8 DEF PushesOn, Settled
    <3>10. OnPush'
      BY <1>1, <3>1, <3>9 DEF OnPush
    <3>11. QED
      BY <1>1, <1>2, <2>6, <3>10 DEF Filling
  <2>7. CASE call.op = "write" /\ OnWrite
    <3>1. PICK img \in Images, s \in Nat : image = img /\ call.seg = s /\ WritesOn(img, s)
      BY <2>7 DEF OnWrite
    <3>2. /\ InSegment(img, s, s) /\ dir = Write(SubDirective(img, s)) /\ Marked(img, s)
          /\ Stacked(img, s, Total(img, s))
      BY <2>1, <3>1 DEF WritesOn
    <3>3. img \in Seq(Nat) /\ Begins(img, s)
      BY <3>2, ImageIs DEF InSegment
    <3>4. WriteClear(dir) \/ WriteAfterMark(dir)
      BY <2>3, <3>2 DEF Directive, CommandDirective, PushByte, Write
    <3>5. /\ "CLRLDR" \in dir.sub <=> s = 0
          /\ "FBOF" \in dir.sub <=> s # 0
          /\ "WBOF" \in dir.sub <=> After(img, s) < Len(img)
      BY <3>2 DEF Write, SubDirective
    <3>6. CASE WriteClear(dir)
      <4>1. /\ s = 0 /\ stack' = stack
            /\ relay' = IF After(img, s) < Len(img) THEN "leader_bof" ELSE "leader"
        BY <3>5, <3>6 DEF WriteClear
      <4>2. ~Settled' /\ Stacked(img, s, Total(img, s))'
        BY <3>2, <4>1 DEF Settled, Stacked
      <4>3. WritesOn(img, s)'
        BY <1>1, <2>4, <3>2, <4>1, <4>2 DEF WritesOn
      <4>4. QED
        BY <1>1, <1>2, <2>7, <3>1, <4>3 DEF Filling, OnWrite
    <3>7. CASE WriteAfterMark(dir)
      <4>1. s > 0
        BY <3>5, <3>7 DEF WriteAfterMark
      <4>2. PICK at \in 0 .. Cells : BehindMark(img, at, s)
        BY <3>2, <4>1 DEF Marked
      <4>3. DeckStatus' = {} => Complete(img, s)'
        BY <3>2, <3>3, <3>7, <4>1, <4>2, WroteAfterMark
      <4>4. stack' = <<>> /\ relay' = "post" /\ reply' = Result(DeckStatus', 0)
        BY <3>7 DEF WriteAfterMark, WriteEnds, Replies
      <4>5. Settled' /\ (Answer.stat = {})' => Complete(img, s)'
        BY <2>5, <4>3, <4>4 DEF Result
      <4>6. Settled'
        BY <4>4 DEF Settled
      <4>7. WritesOn(img, s)'
        BY <1>1, <2>4, <3>2, <4>4, <4>5, <4>6 DEF WritesOn
      <4>8. QED
        BY <1>1, <1>2, <2>7, <3>1, <4>7 DEF Filling, OnWrite
    <3>8. QED
      BY <3>4, <3>6, <3>7
  <2>8. CASE call.op \notin {"push", "write"} /\ CommandsOn
    <3>1. dir.kind = "cmd" /\ dir \in Directives /\ stack = <<>>
      BY <2>8 DEF CommandsOn
    <3>2. CommandDirective(dir)
      BY <2>3, <3>1 DEF Directive, PushByte, WriteClear, WriteAfterMark
    <3>3. stack' = <<>> /\ relay' \in {"post", "drive"}
      BY <3>1, <3>2 DEF CommandDirective, Replies
    <3>4. CommandsOn'
      BY <1>1, <3>1, <3>3 DEF CommandsOn, Settled
    <3>5. QED
      BY <1>1, <1>2, <2>8, <3>4 DEF Filling
  <2>9. QED
    BY <1>5, <2>6, <2>7, <2>8
<1>8. CASE WriteBuffer
  <2>1. /\ relay \in {"leader", "leader_bof"} /\ relay' = "post" /\ stack' = <<>>
        /\ reply' = Result(DeckStatus', 0) /\ UNCHANGED <<data_av, executed>>
    BY <1>8 DEF WriteBuffer, WriteEnds, Replies, pldVars
  <2>2. ~data_av /\ executed = 1 /\ Done /\ Done' /\ ~Settled /\ Settled' /\ Answer' = reply'
    BY <1>1, <1>2, <1>3, <2>1 DEF Done, Settled, Answer
  <2>3. call.op = "write" /\ OnWrite
    BY <1>5, <2>1, <2>2 DEF OnPush, PushesOn, CommandsOn
  <2>4. PICK img \in Images, s \in Nat : image = img /\ call.seg = s /\ WritesOn(img, s)
    BY <2>3 DEF OnWrite
  <2>5. /\ s = 0 /\ InSegment(img, 0, 0) /\ dir = Write(SubDirective(img, 0))
        /\ Stacked(img, 0, Total(img, 0))
        /\ relay = IF After(img, 0) < Len(img) THEN "leader_bof" ELSE "leader"
    BY <2>2, <2>4 DEF WritesOn
  <2>6. img \in Seq(Nat) /\ Begins(img, 0)
    BY <2>5, ImageIs DEF InSegment
  <2>7. DeckStatus' = {} => Complete(img, 0)'
    BY <1>4, <1>8, <2>5, <2>6, WroteBuffer
  <2>8. (Answer.stat = {})' => Complete(img, s)'
    BY <2>1, <2>2, <2>5, <2>7 DEF Result
  <2>9. WritesOn(img, s)'
    BY <1>1, <2>1, <2>2, <2>5, <2>8 DEF WritesOn
  <2>10. QED
    BY <1>1, <1>2, <2>3, <2>4, <2>9 DEF Filling, OnWrite
<1>9. CASE DriveReady
  <2>1. /\ relay = "drive" /\ relay' = "post" /\ stack' = <<>>
        /\ UNCHANGED <<data_av, executed>>
    BY <1>9 DEF DriveReady, Replies, pldVars
  <2>2. executed = 1 /\ Done /\ ~Settled /\ Settled'
    BY <1>2, <1>3, <2>1 DEF Done, Settled
  <2>3. call.op \notin {"push", "write"} /\ CommandsOn
    BY <1>5, <2>1, <2>2 DEF OnPush, PushesOn, OnWrite, WritesOn
  <2>4. CommandsOn'
    BY <1>1, <2>1, <2>2, <2>3 DEF CommandsOn
  <2>5. QED
    BY <1>1, <1>2, <2>3, <2>4 DEF Filling
<1>10. CASE Start
  <2>1. relay = "off"
    BY <1>10 DEF Start
  <2>2. Done /\ ~Settled /\ relay \notin {"drive", "leader", "leader_bof"}
    BY <1>2, <1>3, <2>1 DEF Done, Settled
  <2>3. QED
    BY <1>5, <2>2 DEF OnPush, PushesOn, OnWrite, WritesOn, CommandsOn
<1>11. QED
  BY <1>6, <1>7, <1>8, <1>9, <1>10 DEF RelayNext

LEMMA OthersFill ==
  Filling /\ (Attn__handler \/ Clock \/ TapePasses \/ StopKey \/ UNCHANGED vars) => Filling'
<1> SUFFICES ASSUME Filling, Attn__handler \/ Clock \/ TapePasses \/ StopKey \/ UNCHANGED vars
             PROVE  Filling'
  OBVIOUS
<1>1. CASE StopKey
  BY <1>1 DEF StopKey, Filling
<1>2. ASSUME ~StopKey
      PROVE  /\ UNCHANGED <<pc, sr, data_av, ir, reply, executed>>
             /\ UNCHANGED <<dir, stack, tape, relay, call, image, upset>>
             /\ UNCHANGED <<pos, motion>> \/ motion # "stop"
  BY <1>2 DEF Attn__handler, Clock, TapePasses, Passes, CtlKeeps, RelayKeeps, relayVars,
     deckVars, pldVars, vars, ctlVars
<1>3. CASE ~StopKey /\ pc # "prompt"
  <2>1. Done' = Done /\ Answer' = Answer
    BY <1>2, <1>3 DEF Done, Answer
  <2>2. QED
    BY <1>2, <1>3, <2>1, FillingKept
<1>4. CASE ~StopKey /\ pc = "prompt"
  <2>1. \A img, at : Holds(img, at)' = Holds(img, at)
    BY <1>2, <1>4 DEF Holds
  <2>2. WriteFaithful' = WriteFaithful
    BY <1>2, <1>4 DEF WriteFaithful, Holds
  <2>3. QED
    BY <1>2, <1>4, <2>2 DEF Filling
<1>5. QED
  BY <1>1, <1>3, <1>4

LEMMA FillingHolds == IInv /\ RestInv /\ Filling /\ [Next]_vars => Filling'
BY ControllerFills, OperatorFills, RelayFills, OthersFill DEF Next

(* After a write that reports no error the tape holds the image, every     *)
(* cell in its place and every mark between the segments (t98_mpsi.c lines *)
(* 211 to 243, mbb.s _DirWrite), unless a user cut in.                     *)
THEOREM WritesAreFaithful == Spec => []WriteFaithful
<1>1. Filling => WriteFaithful
  BY DEF Filling, WriteFaithful
<1>2. QED
  BY <1>1, InitHolds, NextHolds, RestInit, RestHolds, FillingInit, FillingHolds, PTL DEF Spec

-----------------------------------------------------------------------------
(* The types.  They hold whoever cuts in, so what is pushed needs to be a  *)
(* byte of a segment of its own accord.                                    *)

CtlTypes ==
  /\ pc \in {"send", "sending", "wait", "fetching", "prompt"}
  /\ dir \in Directives /\ image \in Seq(Nat)
  /\ IsCall(call) /\ call.size \in Nat
  /\ bf \in Seq(Items(bf))
  /\ pc # "prompt" =>
       /\ Len(bf) <= call.size
       /\ call.op \in {"push", "write"} => bf = <<>> /\ Begins(image, call.seg)
       /\ call.op = "push" => call.left \in call.seg .. SegEnd(image, call.seg)

RelayTypes ==
  /\ relay \in {"off", "post", "await", "drive", "leader", "leader_bof"}
  /\ motion \in {"stop", "fwd", "rev"} /\ pos \in 0 .. Cells + 1
  /\ tape \in [1 .. Cells -> 0 .. MaxByte + 1]
  /\ stack \in Seq(0 .. MaxByte)
  /\ out # NoWord => out.dir \in Directives

LEMMA ExecFields ==
  ASSUME NEW op, NEW d, NEW c, IsCall(c), Exec(op, d, c)
  PROVE  /\ IsCall(call') /\ call'.op = op /\ dir' = d /\ pc' = "send"
         /\ call'.size = c.size /\ call'.seg = c.seg /\ call'.left = c.left
<1>1. call' = [c EXCEPT !.op = op]
  BY DEF Exec
<1>2. call' = [op |-> op, oks |-> c.oks, stat |-> c.stat, size |-> c.size, seg |-> c.seg,
               left |-> c.left]
  BY <1>1 DEF IsCall
<1>3. call'.op = op /\ call'.size = c.size /\ call'.seg = c.seg /\ call'.left = c.left
  BY <1>2
<1>4. QED
  BY <1>3, ExecCall

LEMMA PromptTypes ==
  ASSUME CtlTypes, NEW c, Prompt(c), UNCHANGED bf, image' \in Seq(Nat)
  PROVE  CtlTypes'
<1>1. IsCall(call') /\ dir' = dir /\ pc' = "prompt"
  BY PromptCall
<1>2. call' = [op |-> c.op, oks |-> 0, stat |-> c.stat, size |-> 0, seg |-> 0, left |-> 0]
  BY DEF Prompt, Idle
<1>3. call'.size = 0
  BY <1>2
<1>4. QED
  BY <1>1, <1>3 DEF CtlTypes

LEMMA PushingTypes ==
  ASSUME NEW img \in Seq(Nat), NEW c, IsCall(c), c.size \in Nat, Begins(img, c.seg),
         c.left \in c.seg .. SegEnd(img, c.seg), Pushing(img, c), image' = img, bf' = <<>>
  PROVE  CtlTypes'
<1>1. /\ c.seg \in Nat /\ SegEnd(img, c.seg) \in Nat
      /\ \A j \in c.seg + 1 .. SegEnd(img, c.seg) : img[j] \in 0 .. MaxByte
  BY SegmentBounds
<1>2. <<>> \in Seq(Items(<<>>)) /\ Len(<<>>) = 0
  OBVIOUS
<1>3. CASE c.left > c.seg
  <2> DEFINE e == [c EXCEPT !.left = @ - 1]
  <2>1. Exec("push", Push(img[c.left]), e)
    BY <1>3 DEF Pushing
  <2>2. IsCall(e) /\ e.size = c.size /\ e.seg = c.seg /\ e.left = c.left - 1
    BY DEF IsCall
  <2> HIDE DEF e
  <2>3. /\ IsCall(call') /\ call'.op = "push" /\ dir' = Push(img[c.left]) /\ pc' = "send"
        /\ call'.size = c.size /\ call'.seg = c.seg /\ call'.left = c.left - 1
    BY <2>1, <2>2, ExecFields
  <2>4. img[c.left] \in 0 .. MaxByte /\ c.left - 1 \in c.seg .. SegEnd(img, c.seg)
    BY <1>1, <1>3
  <2>5. dir' \in Directives
    BY <2>3, <2>4 DEF Directives
  <2>6. Len(bf') <= call'.size
    BY <1>2, <2>3
  <2>7. Begins(image, call.seg)' /\ (call.left \in call.seg .. SegEnd(image, call.seg))'
    BY <2>3, <2>4 DEF Begins, SegEnd, Bofs
  <2>8. QED
    BY <1>2, <2>3, <2>5, <2>6, <2>7 DEF CtlTypes
<1>4. CASE ~(c.left > c.seg)
  <2>1. Exec("write", Write(SubDirective(img, c.seg)), c)
    BY <1>4 DEF Pushing
  <2>2. /\ IsCall(call') /\ call'.op = "write" /\ dir' = Write(SubDirective(img, c.seg))
        /\ pc' = "send" /\ call'.size = c.size /\ call'.seg = c.seg
    BY <2>1, ExecFields
  <2>3. SubDirective(img, c.seg) \in SUBSET {"CLRLDR", "FBOF", "WBOF"}
    BY DEF SubDirective
  <2>4. dir' \in Directives
    BY <2>2, <2>3 DEF Directives
  <2>5. Len(bf') <= call'.size
    BY <1>2, <2>2
  <2>6. Begins(image, call.seg)'
    BY <2>2 DEF Begins
  <2>7. QED
    BY <1>2, <2>2, <2>4, <2>5, <2>6 DEF CtlTypes
<1>5. QED
  BY <1>3, <1>4

LEMMA SegmentTypes ==
  ASSUME CtlTypes, NEW img \in Seq(Nat), NEW s, Begins(img, s), Segment(img, s),
         image' = img, bf' = <<>>, bf' = bf \/ pc = "prompt"
  PROVE  CtlTypes'
<1> DEFINE e == SegEnd(img, s)
           c == [Idle EXCEPT !.seg = s, !.left = e]
<1>1. s \in Nat /\ e \in Nat /\ s <= e /\ MaxByte \in Nat
  BY SegmentBounds, ImagesAssumption
<1>2. <<>> \in Seq(Items(<<>>)) /\ Len(<<>>) = 0
  OBVIOUS
<1>3. IsCall(c) /\ c.seg = s /\ c.left = e /\ c.size = 0
  <2>1. IsCall(c)
    BY IdleCall
  <2> DEFINE d == [Idle EXCEPT !.seg = s]
  <2>2. d.seg = s /\ d.size = 0 /\ DOMAIN d = DOMAIN Idle /\ c = [d EXCEPT !.left = e]
    BY DEF Idle
  <2>3. {"seg", "left", "size"} \subseteq DOMAIN Idle
    BY DEF Idle
  <2> HIDE DEF c, d, e
  <2>4. QED
    BY <2>1, <2>2, <2>3
<1>4. ASSUME NEW q, Prompt(q) PROVE CtlTypes'
  <2>1. IsCall(call') /\ dir' = dir /\ pc' = "prompt"
    BY <1>4, PromptCall
  <2>2. call' = [op |-> q.op, oks |-> 0, stat |-> q.stat, size |-> 0, seg |-> 0, left |-> 0]
    BY <1>4 DEF Prompt, Idle
  <2>3. call'.size = 0
    BY <2>2
  <2>4. QED
    BY <1>2, <2>1, <2>3 DEF CtlTypes
<1>5. \/ \E q : Prompt(q)
      \/ Exec("push", Push(0), c)
      \/ Pushing(img, c)
  BY DEF Segment
<1> HIDE DEF c
<1>6. CASE Exec("push", Push(0), c)
  <2>1. /\ IsCall(call') /\ call'.op = "push" /\ dir' = Push(0) /\ pc' = "send"
        /\ call'.size = 0 /\ call'.seg = s /\ call'.left = e
    BY <1>3, <1>6, ExecFields
  <2>2. dir' \in Directives
    BY <1>1, <2>1 DEF Directives
  <2>3. Begins(image, call.seg)' /\ (call.left \in call.seg .. SegEnd(image, call.seg))'
    BY <1>1, <2>1 DEF Begins, SegEnd, Bofs, e
  <2>4. QED
    BY <1>2, <2>1, <2>2, <2>3 DEF CtlTypes
<1>7. CASE Pushing(img, c)
  <2>1. c.size \in Nat /\ Begins(img, c.seg) /\ c.left \in c.seg .. SegEnd(img, c.seg)
    BY <1>1, <1>3
  <2>2. QED
    BY <1>3, <1>7, <2>1, PushingTypes
<1>8. QED
  BY <1>4, <1>5, <1>6, <1>7

LEMMA ReturnsTypes ==
  ASSUME CtlTypes, pc # "prompt", NEW stat, NEW cell, Returns(stat, cell)
  PROVE  CtlTypes'
<1>1. image' = image /\ dir \in Directives /\ IsCall(call)
  BY DEF Returns, CtlTypes
<1>2. /\ Cmd("STOP") \in Directives /\ AwaitByte \in Directives
  BY DEF Cmd, AwaitByte, Directives, Commands
<1>3. ASSUME NEW op \in {"cmd", "rewind", "start", "byte", "fin"},
             NEW d \in Directives, NEW c, IsCall(c), c.size = call.size, Exec(op, d, c),
             bf' \in Seq(Items(bf')), Len(bf') <= call.size
      PROVE  CtlTypes'
  <2>1. IsCall(call') /\ call'.op = op /\ dir' = d /\ pc' = "send" /\ call'.size = call.size
    BY <1>3, ExecFields
  <2>2. QED
    BY <1>1, <1>3, <2>1 DEF CtlTypes
<1>4. ASSUME NEW c, Prompt(c), UNCHANGED bf PROVE CtlTypes'
  BY <1>1, <1>4, PromptTypes DEF CtlTypes
<1>5. \A flags : IsCall([call EXCEPT !.stat = flags])
                 /\ [call EXCEPT !.stat = flags].size = call.size
  BY DEF IsCall, CtlTypes
<1>6. \A oks : IsCall([call EXCEPT !.oks = oks]) /\ [call EXCEPT !.oks = oks].size = call.size
  BY DEF IsCall, CtlTypes
<1>7. bf \in Seq(Items(bf)) /\ Len(bf) <= call.size /\ Len(bf) \in Nat /\ call.size \in Nat
  BY DEF CtlTypes
<1>8. ASSUME NEW flags, Stopping(flags), UNCHANGED bf PROVE CtlTypes'
  <2>1. Exec("fin", Cmd("STOP"), [call EXCEPT !.stat = flags])
    BY <1>8 DEF Stopping
  <2> DEFINE c == [call EXCEPT !.stat = flags]
  <2>2. IsCall(c) /\ c.size = call.size /\ Exec("fin", Cmd("STOP"), c)
    BY <1>5, <2>1
  <2> HIDE DEF c
  <2>3. bf' \in Seq(Items(bf')) /\ Len(bf') <= call.size
    BY <1>7, <1>8
  <2>4. QED
    BY <1>2, <1>3, <2>2, <2>3
<1>9. ASSUME NEW op \in {"cmd", "rewind", "start", "byte", "fin"}, NEW d \in Directives,
             Exec(op, d, call), UNCHANGED bf
      PROVE  CtlTypes'
  <2>1. bf' \in Seq(Items(bf')) /\ Len(bf') <= call.size
    BY <1>7, <1>9
  <2>2. QED
    BY <1>1, <1>3, <1>9, <2>1
<1>10. ASSUME CmdReturns(stat) PROVE CtlTypes'
  BY <1>4, <1>10 DEF CmdReturns
<1>11. ASSUME RewindReturns(stat) PROVE CtlTypes'
  <2>1. UNCHANGED bf
    BY <1>11 DEF RewindReturns
  <2>2. CASE Exec("cmd", Cmd("STOP"), call)
    BY <1>2, <1>9, <2>1, <2>2
  <2>3. CASE Exec("rewind", dir, call)
    BY <1>1, <1>9, <2>1, <2>3
  <2>4. CASE Prompt([call EXCEPT !.stat = stat])
    BY <1>4, <2>1, <2>4
  <2>5. QED
    BY <1>11, <2>2, <2>3, <2>4 DEF RewindReturns
<1>12. ASSUME StartReturns(stat) PROVE CtlTypes'
  <2>1. UNCHANGED bf
    BY <1>12 DEF StartReturns
  <2>2. CASE Exec("byte", AwaitByte, call)
    BY <1>2, <1>9, <2>1, <2>2
  <2>3. ASSUME NEW oks, Exec("start", dir, [call EXCEPT !.oks = oks]) PROVE CtlTypes'
    <3> DEFINE c == [call EXCEPT !.oks = oks]
    <3>1. IsCall(c) /\ c.size = call.size /\ Exec("start", dir, c)
      BY <1>6, <2>3
    <3> HIDE DEF c
    <3>2. bf' \in Seq(Items(bf')) /\ Len(bf') <= call.size
      BY <1>7, <2>1
    <3>3. QED
      BY <1>1, <1>3, <3>1, <3>2
  <2>4. QED
    BY <1>8, <1>12, <2>1, <2>2, <2>3 DEF StartReturns
<1>13. ASSUME ByteReturns(stat, cell) PROVE CtlTypes'
  <2>1. CASE \E flags : Stopping(flags) /\ UNCHANGED bf
    BY <1>8, <2>1
  <2>2. CASE Len(bf) < call.size /\ bf' = Append(bf, cell) /\ Exec("byte", dir, call)
    <3>1. bf' \in Seq(Items(bf'))
      BY <1>7, <2>2, AppendedItems
    <3>2. Len(bf') = Len(bf) + 1
      BY <1>7, <2>2
    <3>3. Len(bf') <= call.size
      BY <1>7, <2>2, <3>2
    <3>4. QED
      BY <1>1, <1>3, <2>2, <3>1, <3>3
  <2>3. QED
    BY <1>13, <2>1, <2>2 DEF ByteReturns
<1>14. ASSUME FinReturns PROVE CtlTypes'
  BY <1>4, <1>14 DEF FinReturns
<1>15. ASSUME PushReturns PROVE CtlTypes'
  <2>1. call.op = "push" /\ Pushing(image, call) /\ UNCHANGED bf
    BY <1>15 DEF PushReturns
  <2>2. /\ image \in Seq(Nat) /\ call.size \in Nat /\ bf = <<>> /\ Begins(image, call.seg)
        /\ call.left \in call.seg .. SegEnd(image, call.seg)
    BY <2>1 DEF CtlTypes
  <2>3. PICK img : img = image
    OBVIOUS
  <2>4. QED
    BY <1>1, <2>1, <2>2, <2>3, PushingTypes
<1>16. ASSUME WriteReturns(stat) PROVE CtlTypes'
  <2>1. call.op = "write" /\ UNCHANGED bf
    BY <1>16 DEF WriteReturns
  <2>2. image \in Seq(Nat) /\ bf = <<>> /\ Begins(image, call.seg)
    BY <2>1 DEF CtlTypes
  <2>3. CASE Prompt([call EXCEPT !.stat = stat])
    BY <1>4, <2>1, <2>3
  <2>4. CASE ~(After(image, call.seg) >= Len(image)) /\ Segment(image, After(image, call.seg))
    <3>1. PICK img, b : img = image /\ b = After(image, call.seg)
      OBVIOUS
    <3>2. Begins(img, b)
      <4>1. \/ b = Len(img)
            \/ b \in call.seg + 1 .. Len(img) /\ img[b] > MaxByte
        BY <2>2, <3>1, SegmentBounds
      <4>2. call.seg \in Nat /\ Len(img) \in Nat
        BY <2>2, <3>1, SegmentBounds
      <4>3. b \in 0 .. Len(img) /\ img[b] > MaxByte
        BY <2>4, <3>1, <4>1, <4>2
      <4>4. QED
        BY <4>3 DEF Begins
    <3>3. Segment(img, b) /\ image' = img /\ img \in Seq(Nat) /\ bf' = <<>> /\ bf' = bf
      BY <1>1, <2>1, <2>2, <2>4, <3>1
    <3>4. QED
      BY <3>2, <3>3, SegmentTypes
  <2>5. QED
    BY <1>16, <2>3, <2>4 DEF WriteReturns
<1>17. QED
  BY <1>10, <1>11, <1>12, <1>13, <1>14, <1>15, <1>16 DEF Returns

LEMMA ControllerTypes ==
  CtlTypes /\ RelayTypes /\ Controller => CtlTypes' /\ RelayTypes'
<1> SUFFICES ASSUME CtlTypes, RelayTypes, Controller PROVE CtlTypes' /\ RelayTypes'
  OBVIOUS
<1>1. UNCHANGED <<relay, motion, pos, tape, stack>>
  BY DEF Controller, Send, Sent, Fetch, Fetched, Interrupted, CtlKeeps, relayVars, deckVars
<1>2. \/ out' = NoWord \/ UNCHANGED out
      \/ out' = [flags |-> {"ACK"}, dir |-> dir] \/ out' = [flags |-> {}, dir |-> Nothing]
  BY DEF Controller, Send, Sent, Fetch, Fetched, Interrupted, CtlFalls, CtlRises, pldVars
<1>3. dir \in Directives /\ Nothing \in Directives
  BY DEF CtlTypes, Directives
<1>4. RelayTypes'
  BY <1>1, <1>2, <1>3 DEF RelayTypes
<1>5. CASE Send \/ Sent \/ Fetch
  <2>1. /\ UNCHANGED <<dir, call, bf, image>> /\ pc # "prompt"
        /\ pc' \in {"sending", "wait", "fetching"}
    BY <1>5 DEF Send, Sent, Fetch
  <2>2. QED
    BY <1>4, <2>1 DEF CtlTypes, IsCall, Begins, SegEnd, Bofs
<1>6. CASE Fetched \/ Interrupted
  <2>1. pc # "prompt" /\ \E stat, cell : Returns(stat, cell)
    BY <1>6 DEF Fetched, Interrupted
  <2>2. QED
    BY <1>4, <2>1, ReturnsTypes
<1>7. QED
  BY <1>5, <1>6 DEF Controller

LEMMA OperatorTypes ==
  CtlTypes /\ RelayTypes /\ Operator => CtlTypes' /\ RelayTypes'
<1> SUFFICES ASSUME CtlTypes, RelayTypes, Operator PROVE CtlTypes' /\ RelayTypes'
  OBVIOUS
<1>1. Command
  BY DEF Operator, DriveCommand, Rewind, ReadImage, WriteImage
<1>2. pc = "prompt" /\ UNCHANGED <<relay, motion, pos, tape, stack, out>>
  BY <1>1 DEF Command, CtlKeeps, relayVars, deckVars, pldVars
<1>3. RelayTypes'
  BY <1>2 DEF RelayTypes
<1>4. <<>> \in Seq(Items(<<>>)) /\ Len(<<>>) = 0 /\ <<>> \in Seq(Nat)
  OBVIOUS
<1>5. ASSUME NEW op \in {"cmd", "rewind", "start"}, NEW d \in Directives,
             NEW c, IsCall(c), c.size \in Nat, Exec(op, d, c), bf' = <<>>, image' = <<>>
      PROVE  CtlTypes'
  <2>1. IsCall(call') /\ call'.op = op /\ dir' = d /\ pc' = "send" /\ call'.size = c.size
    BY <1>5, ExecFields
  <2>2. Len(bf') <= call'.size
    BY <1>4, <1>5, <2>1
  <2>3. QED
    BY <1>4, <1>5, <2>1, <2>2 DEF CtlTypes
<1>6. IsCall(Idle) /\ Idle.size = 0
      /\ \A size : IsCall([Idle EXCEPT !.size = size]) /\ [Idle EXCEPT !.size = size].size = size
  BY DEF IsCall, Idle
<1>7. \A cmd \in Commands : Cmd(cmd) \in Directives
  BY DEF Directives
<1>8. ASSUME NEW cmd \in Commands, DriveCommand(cmd) PROVE CtlTypes'
  <2>1. Exec("cmd", Cmd(cmd), Idle) /\ bf' = <<>> /\ image' = <<>>
    BY <1>8 DEF DriveCommand
  <2>2. Cmd(cmd) \in Directives /\ IsCall(Idle) /\ Idle.size \in Nat
    BY <1>6, <1>7
  <2>3. QED
    BY <1>5, <2>1, <2>2
<1>9. ASSUME Rewind PROVE CtlTypes'
  <2>1. Exec("rewind", Cmd("RRH"), Idle) /\ bf' = <<>> /\ image' = <<>>
    BY <1>9 DEF Rewind
  <2>2. "RRH" \in Commands
    BY DEF Commands
  <2>3. Cmd("RRH") \in Directives /\ IsCall(Idle) /\ Idle.size \in Nat
    BY <1>6, <1>7, <2>2
  <2>4. QED
    BY <1>5, <2>1, <2>3
<1>10. ASSUME NEW size \in Sizes, ReadImage(size) PROVE CtlTypes'
  <2> DEFINE c == [Idle EXCEPT !.size = size]
  <2>1. /\ IsCall(c) /\ c.size = size /\ Exec("start", Cmd("RFN"), c)
        /\ bf' = <<>> /\ image' = <<>>
    BY <1>6, <1>10 DEF ReadImage
  <2>2. size \in Nat
    BY TypesAssumption
  <2>3. Cmd("RFN") \in Directives
    BY <1>7 DEF Commands
  <2> HIDE DEF c
  <2>4. QED
    BY <1>5, <2>1, <2>2, <2>3
<1>11. ASSUME NEW img \in Images, WriteImage(img) PROVE CtlTypes'
  <2>1. Segment(img, 0) /\ bf' = <<>> /\ image' = img /\ img \in Seq(Nat)
    BY <1>11, ImageIs DEF WriteImage
  <2>2. Begins(img, 0)
    BY <2>1 DEF Begins
  <2>3. QED
    BY <1>2, <2>1, <2>2, SegmentTypes
<1>12. QED
  BY <1>3, <1>8, <1>9, <1>10, <1>11 DEF Operator

(* What is written are bytes and marks, and the head stops in the leader.  *)
LEMMA CellsWritten ==
  ASSUME RelayTypes, NEW at \in 0 .. Cells + 1, NEW bof \in BOOLEAN, WriteCells(at, bof)
  PROVE  pos' \in 0 .. Cells + 1 /\ tape' \in [1 .. Cells -> 0 .. MaxByte + 1]
<1> DEFINE cells == Popped \o IF bof THEN <<MaxByte + 1, 0>> ELSE <<>>
           len == Len(cells)
           C == 0 .. MaxByte + 1
<1>1. MaxByte \in Nat /\ Cells \in Nat
  BY ImagesAssumption, RelayAssumption
<1>2. cells \in Seq(C)
  <2>1. stack \in Seq(C)
    <3> DEFINE S == 0 .. MaxByte
    <3>1. S \subseteq C /\ stack \in Seq(S)
      BY <1>1 DEF RelayTypes
    <3> HIDE DEF C, S
    <3>2. QED
      BY <3>1
  <2>2. 0 \in C /\ MaxByte + 1 \in C
    BY <1>1
  <2> HIDE DEF C
  <2>3. Reverse(stack) \in Seq(C)
    BY <2>1 DEF Reverse
  <2>4. Popped \in Seq(C)
    BY <2>2, <2>3 DEF Popped
  <2>5. (IF bof THEN <<MaxByte + 1, 0>> ELSE <<>>) \in Seq(C)
    BY <2>2
  <2>6. QED
    BY <2>4, <2>5
<1>3. /\ pos' = Min({at + len, Cells + 1})
      /\ tape' = [q \in 1 .. Cells |-> IF q \in at + 1 .. pos' THEN cells[q - at] ELSE tape[q]]
  BY DEF WriteCells
<1> HIDE DEF cells
<1>4. len \in Nat /\ \A i \in 1 .. len : cells[i] \in C
  <2> HIDE DEF C
  <2>1. QED
    BY <1>2
<1> HIDE DEF len
<1>5. pos' = IF at + len <= Cells + 1 THEN at + len ELSE Cells + 1
  <2>1. at + len \in Int /\ Cells + 1 \in Int
    BY <1>1, <1>4
  <2>2. QED
    BY <1>3, <2>1, LeastIs
<1>6. pos' \in 0 .. Cells + 1 /\ pos' <= at + len
  BY <1>1, <1>4, <1>5
<1>7. ASSUME NEW q \in 1 .. Cells
      PROVE  (IF q \in at + 1 .. pos' THEN cells[q - at] ELSE tape[q]) \in C
  <2>1. CASE q \in at + 1 .. pos'
    <3>1. q - at \in 1 .. len
      BY <1>1, <1>4, <1>6, <2>1
    <3>2. QED
      BY <1>4, <2>1, <3>1
  <2>2. CASE q \notin at + 1 .. pos'
    BY <2>2 DEF RelayTypes
  <2>3. QED
    BY <2>1, <2>2
<1>8. QED
  BY <1>3, <1>6, <1>7

LEMMA MarkOnTape ==
  ASSUME pos \in 0 .. Cells + 1, Marks # {} PROVE Max(Marks) \in 1 .. Cells
<1> DEFINE top == Min({pos - 1, Cells})
<1>1. Cells \in Nat /\ pos - 1 \in Int /\ Cells \in Int
  BY RelayAssumption
<1>2. top = IF pos - 1 <= Cells THEN pos - 1 ELSE Cells
  BY <1>1, LeastIs
<1>3. Marks \subseteq 1 .. top
  BY DEF Marks
<1> HIDE DEF top
<1>4. top \in Int /\ top <= Cells
  BY <1>1, <1>2
<1>5. Marks \in SUBSET Int /\ \A x \in Marks : x <= top
  BY <1>3, <1>4
<1>6. Max(Marks) \in 1 .. top
  BY <1>3, <1>4, <1>5, GreatestExists
<1>7. PICK m : m = Max(Marks)
  OBVIOUS
<1>8. m \in 1 .. Cells
  BY <1>1, <1>4, <1>6, <1>7
<1>9. QED
  BY <1>7, <1>8

LEMMA DirectiveTypes ==
  ASSUME RelayTypes, NEW d, d.kind = "push" => d.byte \in 0 .. MaxByte, Directive(d)
  PROVE  RelayTypes'
<1>1. out' = out /\ <<>> \in Seq(0 .. MaxByte)
  BY DEF Directive, pldVars
<1>2. ASSUME NEW cmd, Execute(cmd) PROVE motion' \in {"stop", "fwd", "rev"}
  BY <1>2 DEF Execute, Moves, RelayTypes
<1>3. CASE CommandDirective(d)
  <2>1. /\ Execute(d.cmd) /\ UNCHANGED <<pos, tape>> /\ relay' \in {"drive", "post"}
        /\ stack' = stack \/ stack' = <<>>
    BY <1>3 DEF CommandDirective, Replies
  <2>2. QED
    BY <1>1, <1>2, <2>1 DEF RelayTypes
<1>4. CASE PushByte(d)
  <2>1. d.kind = "push" /\ stack' = Append(stack, d.byte) /\ relay' = "post"
        /\ UNCHANGED <<pos, motion, tape>>
    BY <1>4 DEF PushByte, Replies
  <2>2. d.byte \in 0 .. MaxByte
    BY <2>1
  <2>3. stack' \in Seq(0 .. MaxByte)
    BY <2>1, <2>2 DEF RelayTypes
  <2>4. QED
    BY <1>1, <2>1, <2>3 DEF RelayTypes
<1>5. CASE WriteClear(d)
  BY <1>1, <1>2, <1>5 DEF WriteClear, RelayTypes
<1>6. CASE WriteAfterMark(d)
  <2>1. PICK back : back = IF ~present \/ Leader THEN pos
                           ELSE IF Marks = {} THEN 0 ELSE Max(Marks) - 1
    OBVIOUS
  <2>2. back \in 0 .. Cells + 1 /\ Cells \in Nat
    BY <2>1, MarkOnTape, RelayAssumption DEF RelayTypes
  <2>3. \/ back \in 1 .. Cells /\ WriteCells(back + 1, "WBOF" \in d.sub)
        \/ pos' = back /\ UNCHANGED tape
    BY <1>6, <2>1 DEF WriteAfterMark
  <2>4. pos' \in 0 .. Cells + 1 /\ tape' \in [1 .. Cells -> 0 .. MaxByte + 1]
    <3>1. CASE back \in 1 .. Cells /\ WriteCells(back + 1, "WBOF" \in d.sub)
      <4>1. PICK bof \in BOOLEAN : bof <=> "WBOF" \in d.sub
        OBVIOUS
      <4>2. PICK at : at = back + 1
        OBVIOUS
      <4>3. at \in 0 .. Cells + 1
        BY <2>2, <3>1, <4>2
      <4>4. WriteCells(at, "WBOF" \in d.sub)
        BY <3>1, <4>2
      <4>5. WriteCells(at, bof)
        BY <4>1, <4>4 DEF WriteCells
      <4>6. QED
        BY <4>3, <4>5, CellsWritten
    <3>2. CASE pos' = back /\ UNCHANGED tape
      BY <2>2, <3>2 DEF RelayTypes
    <3>3. QED
      BY <2>3, <3>1, <3>2
  <2>5. motion' = "stop" /\ stack' = <<>> /\ relay' = "post"
    BY <1>6 DEF WriteAfterMark, WriteEnds, Replies
  <2>6. QED
    BY <1>1, <2>4, <2>5 DEF RelayTypes
<1>7. CASE d.kind = "none" /\ relay' = "off" /\ stack' = <<>> /\ Execute("STOP")
           /\ UNCHANGED <<pos, reply, latched, tape>>
  BY <1>1, <1>2, <1>7 DEF RelayTypes
<1>8. QED
  BY <1>3, <1>4, <1>5, <1>6, <1>7 DEF Directive

LEMMA RelayStepTypes == RelayTypes /\ (RelayNext \/ Start \/ TapePasses \/ StopKey) => RelayTypes'
<1> SUFFICES ASSUME RelayTypes, RelayNext \/ Start \/ TapePasses \/ StopKey PROVE RelayTypes'
  OBVIOUS
<1>1. CASE Take
  <2>1. PICK d : d \in (IF out = NoWord THEN Garbled ELSE {out.dir}) /\ Directive(d)
    BY <1>1 DEF Take
  <2>2. CASE d \in Directives
    <3>1. d.kind = "push" => d.byte \in 0 .. MaxByte
      BY <2>2 DEF Directives, Cmd, AwaitByte, Nothing, Push, Write
    <3>2. QED
      BY <2>1, <3>1, DirectiveTypes
  <2>3. CASE d \in Garbled
    BY <2>1, <2>3, TypesAssumption, DirectiveTypes
  <2>4. QED
    BY <2>1, <2>2, <2>3 DEF RelayTypes
<1>2. CASE WriteBuffer
  <2>1. /\ out' = out /\ motion' = "stop" /\ stack' = <<>> /\ relay' = "post"
        /\ WriteCells(pos, relay = "leader_bof") \/ UNCHANGED <<pos, tape>>
    BY <1>2 DEF WriteBuffer, WriteEnds, Replies, pldVars
  <2>2. pos' \in 0 .. Cells + 1 /\ tape' \in [1 .. Cells -> 0 .. MaxByte + 1]
    <3>1. CASE WriteCells(pos, relay = "leader_bof")
      <4>1. PICK bof \in BOOLEAN : bof <=> relay = "leader_bof"
        OBVIOUS
      <4>2. PICK at \in 0 .. Cells + 1 : at = pos
        BY DEF RelayTypes
      <4>3. WriteCells(at, bof)
        BY <3>1, <4>1, <4>2 DEF WriteCells
      <4>4. QED
        BY <4>3, CellsWritten
    <3>2. CASE UNCHANGED <<pos, tape>>
      BY <3>2 DEF RelayTypes
    <3>3. QED
      BY <2>1, <3>1, <3>2
  <2>3. QED
    BY <2>1, <2>2 DEF RelayTypes
<1>3. CASE Post \/ DriveReady \/ Start
  <2>1. /\ UNCHANGED <<pos, motion, tape, out>> /\ relay' \in {"await", "post"}
        /\ stack' = stack \/ stack' = <<>>
        /\ <<>> \in Seq(0 .. MaxByte)
    BY <1>3 DEF Post, DriveReady, Start, Replies, CeoRises, deckVars, pldVars
  <2>2. QED
    BY <2>1 DEF RelayTypes
<1>4. CASE TapePasses
  <2>1. UNCHANGED <<relay, tape, stack, out>>
    BY <1>4 DEF TapePasses, pldVars
  <2>2. pos' \in 0 .. Cells + 1 /\ motion' \in {"stop", "fwd", "rev"}
    BY <1>4, RelayAssumption DEF TapePasses, Passes, RelayTypes
  <2>3. QED
    BY <2>1, <2>2 DEF RelayTypes
<1>5. CASE StopKey
  <2>1. /\ UNCHANGED <<pos, tape, out>> /\ relay' = "off" /\ stack' = <<>>
        /\ motion' = "stop" /\ <<>> \in Seq(0 .. MaxByte)
    BY <1>5 DEF StopKey, Execute, Moves, pldVars
  <2>2. QED
    BY <2>1 DEF RelayTypes
<1>6. QED
  BY <1>1, <1>2, <1>3, <1>4, <1>5 DEF RelayNext

LEMMA TypesInit == Init => CtlTypes /\ RelayTypes
<1> SUFFICES ASSUME Init PROVE CtlTypes /\ RelayTypes
  OBVIOUS
<1>1. Cells \in Nat /\ MaxByte \in Nat
  BY RelayAssumption, ImagesAssumption
<1>2. tape \in [1 .. Cells -> 0 .. MaxByte + 1]
  BY <1>1 DEF Init
<1>3. out.dir \in Directives /\ Cmd("STOP") \in Directives
  BY DEF Init, Directives, Commands
<1>4. call = [op |-> "cmd", oks |-> 0, stat |-> {}, size |-> 0, seg |-> 0, left |-> 0]
  BY DEF Init, Idle
<1>5. IsCall(call) /\ call.size = 0 /\ call.op = "cmd"
  BY <1>4 DEF IsCall
<1>6. bf = <<>> /\ bf \in Seq(Items(bf)) /\ Len(bf) = 0 /\ image \in Seq(Nat)
  BY DEF Init
<1>7. CtlTypes
  BY <1>3, <1>5, <1>6 DEF Init, CtlTypes
<1>8. RelayTypes
  BY <1>1, <1>2, <1>3 DEF Init, DeckInit, RelayTypes
<1>9. QED
  BY <1>7, <1>8

LEMMA TypesNext ==
  CtlTypes /\ RelayTypes /\ [Next]_vars => CtlTypes' /\ RelayTypes'
<1> SUFFICES ASSUME CtlTypes, RelayTypes, [Next]_vars PROVE CtlTypes' /\ RelayTypes'
  OBVIOUS
<1>1. CASE RelayNext \/ Start \/ TapePasses \/ StopKey
  <2>1. UNCHANGED <<pc, dir, image, call, bf>>
    BY <1>1 DEF RelayNext, Start, TapePasses, StopKey, Post, Take, WriteBuffer, DriveReady,
       Directive, RelayKeeps
  <2>2. CtlTypes'
    BY <2>1 DEF CtlTypes, IsCall, Begins, SegEnd, Bofs
  <2>3. QED
    BY <1>1, <2>2, RelayStepTypes
<1>2. CASE Attn__handler \/ Clock \/ UNCHANGED vars
  <2>1. UNCHANGED <<pc, dir, image, call, bf, relay, motion, pos, tape, stack, out>>
    BY <1>2 DEF Attn__handler, Clock, CtlKeeps, relayVars, deckVars, pldVars, vars, ctlVars
  <2>2. QED
    BY <2>1 DEF CtlTypes, RelayTypes, IsCall, Begins, SegEnd, Bofs
<1>3. QED
  BY <1>1, <1>2, ControllerTypes, OperatorTypes DEF Next

(* The places of controller and relay, the directive, the tape and the     *)
(* head keep their types: in particular no write of the relay leaves the   *)
(* tape (mbb.s _DirWrite) and no read the controller's buffer (t98_mpsi.c  *)
(* lines 172 to 183), whoever cuts in.                                     *)
THEOREM TypeCorrect == Spec => []TypeOK
<1>1. CtlTypes /\ RelayTypes /\ IInv => TypeOK
  BY DEF CtlTypes, RelayTypes, IInv, Locations, TypeOK
<1>2. QED
  BY <1>1, TypesInit, TypesNext, InitHolds, NextHolds, PTL DEF Spec

==============================================================================
