---------------------------- MODULE Tape9865Proofs ----------------------------
(***************************************************************************)
(* Proofs about Tape9865, for every length of tape, every cassette, every  *)
(* set of lines and any number of commands and interruptions.  IInv adds   *)
(* to the properties at which places a command can be, how the drive moves *)
(* while one reads, and how far behind the head the buffer ends; WInv, for *)
(* writes, which bytes have reached the tape by the time the controller    *)
(* learns that it can send the next.                                       *)
(***************************************************************************)
EXTENDS Tape9865, SequenceTheorems, TLAPS

DriveTyped ==
  /\ pos \in 0 .. Cells + 1
  /\ motion \in {"stop", "fwd", "rev"}
  /\ ready \in BOOLEAN /\ overrun \in BOOLEAN

(* Where a command can be; only "fin" serves all of them.                  *)
Places ==
  /\ pc = "clear" => call.op = "start"
  /\ pc = "byte" => call.op = "read"
  /\ pc = "exception" => call.op \in {"read", "write"}
  /\ pc \in {"write", "leader", "data"} => call.op = "write"
  /\ pc = "rewind" => call.op = "rewind"
  /\ pc = "quit" /\ call.op \in {"start", "read"} => motion = "stop"

(* A read does not write, and its tape runs forward or not at all.         *)
ReadsForward ==
  call.op \in {"start", "read"} =>
    /\ ~writing /\ motion \in {"stop", "fwd"}
    /\ call.op = "read" => pos >= 1

(* The buffer is a run of the tape.  While bytes are looked for it ends at *)
(* the head, or one before it if a byte is ready, unless one was missed or *)
(* the tape has come to its end.                                           *)
Values == {tape[p] : p \in 1 .. Cells}

EndsAtHead(at) ==
  pc \in {"byte", "exception"} /\ ~overrun /\ pos \in 1 .. Cells =>
    /\ at + Len(bf) = IF ready THEN pos - 1 ELSE pos
    /\ ready => cell = tape[pos]

ReadsOn ==
  call.op = "read" =>
    /\ bf \in Seq(Values)
    /\ \E at \in 0 .. Cells : RunOfTape(bf, at) /\ EndsAtHead(at)

IInv == DriveTyped /\ Places /\ AtRest /\ ReadsForward /\ ReadsOn

-----------------------------------------------------------------------------
(* What the status says of drive and adapter.                              *)
LEMMA FlagFacts ==
  /\ ("LDR" \in Flags) <=> Leader
  /\ ("NOCASS" \in Flags) <=> ~present
  /\ ("DORN" \in Flags) <=> overrun
BY DEF Flags, DeckStatus

(* A command that moves nothing but the drive and ends any read.           *)
LEMMA CommandTyped ==
  ASSUME DriveTyped, NEW cmd, T98_Cmd(cmd)
  PROVE  /\ DriveTyped'
         /\ cmd = "STOP" => motion' = "stop"
         /\ cmd \in {"RFN", "RFH"} => motion' \in {"stop", "fwd"} /\ ~writing'
BY DEF DriveTyped, T98_Cmd, Execute, Moves

(* Nothing of a read changes while the tape stays and the buffer with it.  *)
LEMMA ReadKept ==
  ASSUME ReadsOn, UNCHANGED <<tape, bf>>, call.op = "read" \/ call'.op # "read",
         pc' \notin {"byte", "exception"}
  PROVE  ReadsOn'
<1> SUFFICES ASSUME call'.op = "read" PROVE ReadsOn'
  BY DEF ReadsOn
<1>1. Values' = Values
  BY DEF Values
<1>2. PICK at \in 0 .. Cells : RunOfTape(bf, at)
  BY DEF ReadsOn
<1>3. RunOfTape(bf, at)' /\ EndsAtHead(at)'
  BY <1>2 DEF RunOfTape, EndsAtHead
<1>4. QED
  BY <1>1, <1>3 DEF ReadsOn

LEMMA InitHolds == Init => IInv
<1> SUFFICES ASSUME Init PROVE IInv
  OBVIOUS
<1>1. DriveTyped
  <2>1. pos \in {0, 1, Cells + 1} /\ motion = "stop" /\ ready = FALSE /\ overrun = FALSE
    BY DEF Init, DeckInit
  <2>2. pos \in 0 .. Cells + 1
    BY <2>1, CellsAssumption
  <2>3. QED
    BY <2>1, <2>2 DEF DriveTyped
<1>2. pc = "prompt" /\ call.op = "none"
  BY DEF Init, Idle
<1>3. QED
  BY <1>1, <1>2 DEF IInv, Places, AtRest, ReadsForward, ReadsOn

-----------------------------------------------------------------------------
(* The steps of the controller.                                            *)

LEMMA FinHolds == IInv /\ Fin => IInv'
<1> SUFFICES ASSUME IInv, Fin PROVE IInv'
  OBVIOUS
<1> USE DEF IInv
<1>1. DriveTyped' /\ motion' = "stop" /\ call' = call /\ pc' = "prompt"
  BY CommandTyped DEF Fin, At
<1>2. Places' /\ AtRest'
  BY <1>1 DEF Places, AtRest
<1>3. ReadsForward'
  BY <1>1 DEF ReadsForward, Fin, T98_Cmd
<1>4. ReadsOn'
  BY <1>1, ReadKept DEF Fin, T98_Cmd
<1>5. QED
  BY <1>1, <1>2, <1>3, <1>4

LEMMA ClearHolds == IInv /\ Clear => IInv'
<1> SUFFICES ASSUME IInv, Clear PROVE IInv'
  OBVIOUS
<1> USE DEF IInv
<1>1. UNCHANGED <<deckVars, adapterVars>> /\ call.op = "start"
  BY DEF Clear, AdapterKeeps, Places
<1>2. DriveTyped'
  BY <1>1 DEF DriveTyped, deckVars, adapterVars
<1>3. CASE ~Exception /\ At("byte", [call EXCEPT !.op = "read"]) /\ bf' = <<>>
  <2>1. pc' = "byte" /\ bf' = <<>> /\ ~ready /\ pos \in 1 .. Cells /\ ~writing
          /\ motion \in {"stop", "fwd"}
    BY <1>1, <1>3, CellsAssumption DEF At, Exception, Leader, DriveTyped, ReadsForward
  <2>2. Places' /\ AtRest'
    BY <1>3, <2>1 DEF At, Places, AtRest
  <2>3. ReadsForward'
    BY <1>1, <2>1, CellsAssumption DEF ReadsForward, deckVars, adapterVars
  <2>4. RunOfTape(bf, pos)' /\ EndsAtHead(pos)'
    BY <1>1, <2>1, CellsAssumption DEF RunOfTape, EndsAtHead, deckVars, adapterVars
  <2>5. bf' \in Seq(Values)' /\ pos' \in 0 .. Cells
    BY <1>1, <2>1, CellsAssumption DEF deckVars
  <2>6. ReadsOn'
    BY <2>4, <2>5, <1>1, CellsAssumption DEF ReadsOn, deckVars
  <2>7. QED
    BY <1>2, <2>2, <2>3, <2>6
<1>4. CASE Exception /\ expired /\ Fails({"TIMEOUTCLR"}) /\ UNCHANGED bf
  <2>1. pc' = "fin" /\ call'.op = call.op
    BY <1>4 DEF Fails, At
  <2>2. QED
    BY <1>1, <1>2, <2>1 DEF Places, AtRest, ReadsForward, ReadsOn, deckVars, adapterVars
<1>5. QED
  BY <1>3, <1>4 DEF Clear
(* A byte is taken, or the read has ended.                                 *)
LEMMA ReadByteHolds == IInv /\ ReadByte => IInv'
<1> SUFFICES ASSUME IInv, ReadByte PROVE IInv'
  OBVIOUS
<1> USE DEF IInv
<1> DEFINE wrong == Flags \cap {"NOCASS", "LDR", "DORN"}
<1>1. /\ pc = "byte" /\ call.op = "read" /\ ready' = FALSE
      /\ UNCHANGED <<deckVars, tape, writing, overrun, cell>>
  BY DEF ReadByte, Respond, Places
<1>2. DriveTyped' /\ Values' = Values /\ Leader' = Leader
  BY <1>1 DEF DriveTyped, deckVars, Values, Leader
<1>3. PICK at \in 0 .. Cells : RunOfTape(bf, at) /\ EndsAtHead(at)
  BY <1>1 DEF ReadsOn
<1>4. CASE pc' = "fin" /\ call'.op = "read" /\ UNCHANGED bf
  BY <1>1, <1>2, <1>4, ReadKept DEF Places, AtRest, ReadsForward, deckVars
<1>5. CASE /\ wrong = {} /\ Waits("exception", call)
           /\ bf' = IF ready THEN Append(bf, cell) ELSE bf
  <2>1. ~overrun /\ pos \in 1 .. Cells /\ pc' = "exception" /\ call' = call
    BY <1>5, FlagFacts, CellsAssumption DEF Waits, At, DriveTyped, Leader
  <2>2. Places' /\ AtRest' /\ ReadsForward'
    BY <1>1, <2>1 DEF Places, AtRest, ReadsForward, deckVars
  <2>3. bf \in Seq(Values) /\ at + Len(bf) = IF ready THEN pos - 1 ELSE pos
    BY <1>1, <1>3, <2>1 DEF ReadsOn, EndsAtHead
  <2>4. CASE ~ready
    <3>1. bf' = bf
      BY <1>5, <2>4
    <3>2. RunOfTape(bf, at)' /\ EndsAtHead(at)'
      BY <1>1, <1>3, <2>3, <2>4, <3>1 DEF RunOfTape, EndsAtHead, deckVars
    <3>3. QED
      BY <1>1, <1>2, <2>1, <2>2, <2>3, <3>1, <3>2 DEF ReadsOn
  <2>5. CASE ready
    <3>1. bf' = Append(bf, cell) /\ cell = tape[pos]
      BY <1>1, <1>3, <1>5, <2>1, <2>5 DEF EndsAtHead
    <3>2. cell \in Values
      BY <2>1, <3>1 DEF Values
    <3>3. /\ bf' \in Seq(Values) /\ Len(bf') = Len(bf) + 1
          /\ \A i \in 1 .. Len(bf') : bf'[i] = IF i <= Len(bf) THEN bf[i] ELSE cell
      BY <2>3, <3>1, <3>2
    <3>4. \A i \in DOMAIN bf : at + i \in 1 .. Cells /\ bf[i] = tape[at + i]
      BY <1>3 DEF RunOfTape
    <3>5. DOMAIN bf = 1 .. Len(bf) /\ DOMAIN bf' = 1 .. Len(bf')
      BY <2>3, <3>3
    <3>6. ASSUME NEW i \in DOMAIN bf' PROVE at + i \in 1 .. Cells /\ bf'[i] = tape[at + i]
      <4>1. Len(bf) \in Nat /\ i \in 1 .. Len(bf) + 1 /\ at + Len(bf) + 1 = pos
        BY <2>1, <2>3, <2>5, <3>3, <3>5
      <4>2. CASE i <= Len(bf)
        BY <3>3, <3>4, <3>5, <4>1, <4>2
      <4>3. CASE i = Len(bf) + 1
        <5>1. at + i = pos
          BY <4>1, <4>3
        <5>2. QED
          BY <2>1, <3>1, <3>3, <3>5, <4>1, <4>3, <5>1
      <4>4. QED
        BY <4>1, <4>2, <4>3
    <3>7. RunOfTape(bf, at)' /\ EndsAtHead(at)'
      BY <1>1, <2>1, <2>3, <2>5, <3>3, <3>6 DEF RunOfTape, EndsAtHead, deckVars
    <3>8. QED
      BY <1>1, <1>2, <2>1, <2>2, <3>3, <3>7 DEF ReadsOn
  <2>6. QED
    BY <2>4, <2>5, <1>1 DEF DriveTyped
<1>6. QED
  <2>1. CASE wrong # {} /\ Fails(wrong) /\ UNCHANGED <<bf, expired>>
    BY <2>1, <1>1, <1>4 DEF Fails, At
  <2>2. CASE Fails({"BUFFULL"}) /\ UNCHANGED <<bf, expired>>
    BY <2>2, <1>1, <1>4 DEF Fails, At
  <2>3. QED
    BY <1>5, <2>1, <2>2 DEF ReadByte

LEMMA WaitForExceptionHolds == IInv /\ WaitForException => IInv'
<1> SUFFICES ASSUME IInv, WaitForException PROVE IInv'
  OBVIOUS
<1> USE DEF IInv
<1>1. /\ pc = "exception" /\ call.op \in {"read", "write"}
      /\ UNCHANGED <<deckVars, adapterVars, bf>>
  BY DEF WaitForException, AdapterKeeps, Places
<1>2. call'.op = call.op /\ pc' \in {"byte", "fin", "data"}
        /\ (pc' = "byte" => call.op = "read") /\ (pc' = "data" => call.op = "write")
  <2>1. CASE Polled
    BY <1>1, <2>1 DEF Polled, At
  <2>2. ASSUME NEW stat, Fails(stat) PROVE call'.op = call.op /\ pc' = "fin"
    BY <2>2 DEF Fails, At
  <2>3. QED
    BY <1>1, <2>1, <2>2 DEF WaitForException
<1>3. DriveTyped' /\ Places' /\ AtRest' /\ ReadsForward'
  BY <1>1, <1>2 DEF DriveTyped, Places, AtRest, ReadsForward, deckVars, adapterVars
<1>4. ReadsOn'
  BY <1>1, <1>2 DEF ReadsOn, RunOfTape, EndsAtHead, Values, deckVars, adapterVars
<1>5. QED
  BY <1>3, <1>4

(* Writing leaves no read to speak of.                                     *)
LEMMA WritesHold == IInv /\ (StartWriting \/ InLeader \/ WriteByte) => IInv'
<1> SUFFICES ASSUME IInv, StartWriting \/ InLeader \/ WriteByte PROVE IInv'
  OBVIOUS
<1> USE DEF IInv
<1>1. call.op = "write"
  BY DEF StartWriting, InLeader, WriteByte, Places
<1>2. DriveTyped'
  <2>1. CASE StartWriting
    BY <2>1, CommandTyped DEF StartWriting
  <2>2. CASE InLeader \/ WriteByte
    BY <2>2 DEF InLeader, WriteByte, AdapterKeeps, Respond, DriveTyped, deckVars, adapterVars
  <2>3. QED
    BY <2>1, <2>2
<1>3. call'.op = "write" /\ pc' \in {"fin", "data", "leader", "exception"}
  <2>1. ASSUME NEW stat, Fails(stat) PROVE call'.op = "write" /\ pc' = "fin"
    BY <1>1, <2>1 DEF Fails, At
  <2>2. CASE OutOfLeader
    <3>1. ASSUME NEW place, At(place, [call EXCEPT !.next = 1])
          PROVE  call'.op = "write" /\ pc' = place
      BY <1>1, <3>1 DEF At
    <3>2. CASE ~Leader /\ At(IF bf = <<>> THEN "fin" ELSE "data", [call EXCEPT !.next = 1])
      BY <3>1, <3>2
    <3>3. CASE At("leader", call)
      BY <1>1, <3>3 DEF At
    <3>4. QED
      BY <2>1, <2>2, <3>2, <3>3 DEF OutOfLeader
  <2>3. CASE WriteByte
    <3>1. CASE Waits("exception", [call EXCEPT !.next = @ + 1])
      BY <1>1, <3>1 DEF Waits, At
    <3>2. QED
      BY <2>1, <2>3, <3>1 DEF WriteByte
  <2>4. QED
    BY <2>2, <2>3 DEF StartWriting, InLeader
<1>4. QED
  BY <1>2, <1>3 DEF Places, AtRest, ReadsForward, ReadsOn

LEMMA RewindHolds == IInv /\ Rewind => IInv'
<1> SUFFICES ASSUME IInv, Rewind PROVE IInv'
  OBVIOUS
<1> USE DEF IInv
<1>1. DriveTyped' /\ pc = "rewind" /\ call.op = "rewind" /\ pos' = pos
  BY CommandTyped DEF Rewind, Places, T98_Cmd
<1>2. call' = call /\ pc' \in {"prompt", "fin", "rewind"} /\ (pc' = "prompt" => ~Leader)
  BY DEF Rewind, At
<1>3. Places' /\ AtRest'
  BY <1>1, <1>2 DEF Places, AtRest, Leader
<1>4. QED
  BY <1>1, <1>2, <1>3 DEF ReadsForward, ReadsOn
-----------------------------------------------------------------------------
(* The prompt.                                                             *)

LEMMA InteractiveHolds == ASSUME IInv, NEW line, Interactive(line) PROVE IInv'
<1> USE DEF IInv
<1> DEFINE d == Cp_Cmd(line, Len(bf))
<1>1. pc = "prompt"
  BY DEF Interactive
<1>2. ASSUME NEW cmd, Drive(cmd) PROVE IInv'
  <2>1. DriveTyped' /\ pc' = "prompt" /\ call'.op = "cmd"
    BY <1>2, CommandTyped DEF Drive, At, Idle
  <2>2. QED
    BY <2>1 DEF Places, AtRest, ReadsForward, ReadsOn
<1>3. ASSUME NEW fast, NEW maxBytes, ReadImage(fast, maxBytes) PROVE IInv'
  <2>1. T98_Cmd(IF fast THEN "RFH" ELSE "RFN")
    BY <1>3 DEF ReadImage
  <2>2. DriveTyped' /\ motion' \in {"stop", "fwd"} /\ ~writing'
    BY <2>1, CommandTyped
  <2>3. pc' \in {"clear", "fin"} /\ call'.op = "start"
    BY <1>3 DEF ReadImage, Waits, At, Idle
  <2>4. QED
    BY <2>2, <2>3 DEF Places, AtRest, ReadsForward, ReadsOn
<1>4. ASSUME AdapterKeeps PROVE DriveTyped' /\ UNCHANGED <<deckVars, adapterVars>>
  BY <1>4 DEF AdapterKeeps, DriveTyped, deckVars, adapterVars
<1>5. CASE WriteImage
  <2>1. pc' = "write" /\ call'.op = "write"
    BY <1>5 DEF WriteImage, Waits, At, Idle
  <2>2. QED
    BY <1>4, <1>5, <2>1 DEF WriteImage, Places, AtRest, ReadsForward, ReadsOn
<1>6. CASE StartRewind
  <2>1. pc' = "rewind" /\ call'.op = "rewind"
    BY <1>6 DEF StartRewind, Waits, At, Idle
  <2>2. QED
    BY <1>4, <1>6, <2>1 DEF StartRewind, Places, AtRest, ReadsForward, ReadsOn
<1>7. CASE At("prompt", Idle) /\ AdapterKeeps
  <2>1. pc' = "prompt" /\ call'.op = "none"
    BY <1>7 DEF At, Idle
  <2>2. QED
    BY <1>4, <1>7, <2>1 DEF Places, AtRest, ReadsForward, ReadsOn
<1>8. CASE AdapterKeeps /\ call' = call /\ pc' \in {"prompt", "quit"} /\ UNCHANGED bf
  <2>1. Places' /\ AtRest' /\ ReadsForward'
    BY <1>1, <1>4, <1>8 DEF Places, AtRest, ReadsForward, deckVars, adapterVars
  <2>2. ReadsOn'
    BY <1>4, <1>8, ReadKept DEF adapterVars
  <2>3. QED
    BY <1>4, <1>8, <2>1, <2>2
<1>9. CASE Stays /\ UNCHANGED bf
  BY <1>1, <1>8, <1>9 DEF Stays
<1>10. CASE At("quit", call) /\ AdapterKeeps /\ UNCHANGED bf
  BY <1>8, <1>10 DEF At
<1>11. QED
  BY <1>2, <1>3, <1>5, <1>6, <1>7, <1>9, <1>10 DEF Interactive

-----------------------------------------------------------------------------
(* The tape, users and time.                                               *)

LEMMA TapePassesHolds == IInv /\ TapePasses => IInv'
<1> SUFFICES ASSUME IInv, TapePasses PROVE IInv'
  OBVIOUS
<1> USE DEF IInv
<1>1. UNCHANGED <<pc, call, bf, writing>> /\ motion # "stop"
  BY DEF TapePasses, Passes, ctlVars
<1>2. \/ motion = "fwd" /\ pos <= Cells /\ pos' = pos + 1 /\ motion' = "fwd"
      \/ /\ motion = "rev" /\ pos > 0 /\ pos' = pos - 1
         /\ motion' = IF pos = 1 THEN "stop" ELSE "rev"
  BY DEF TapePasses, Passes
<1>3. pos' \in 0 .. Cells + 1 /\ motion' \in {"stop", "fwd", "rev"}
  BY <1>2, CellsAssumption DEF DriveTyped
<1>4. ready' \in BOOLEAN /\ overrun' \in BOOLEAN
  BY DEF TapePasses, DriveTyped
<1>5. Places' /\ AtRest' /\ ReadsForward'
  BY <1>1, <1>2, <1>3, CellsAssumption DEF DriveTyped, Places, AtRest, ReadsForward
<1>6. ReadsOn'
  <2> SUFFICES ASSUME call.op = "read" PROVE ReadsOn'
    BY <1>1 DEF ReadsOn
  <2>1. ~writing /\ pos \in 1 .. Cells /\ pos' = pos + 1
    BY <1>1, <1>2, CellsAssumption DEF ReadsForward, DriveTyped
  <2>2. tape' = tape /\ Values' = Values
    BY <2>1 DEF TapePasses, Values
  <2>3. PICK at \in 0 .. Cells : RunOfTape(bf, at) /\ EndsAtHead(at)
    BY DEF ReadsOn
  <2>4. RunOfTape(bf, at)'
    BY <1>1, <2>2, <2>3 DEF RunOfTape
  <2>5. CASE pos' \in 1 .. Cells
    <3>1. ready' = TRUE /\ overrun' = (overrun \/ ready) /\ cell' = tape[pos']
      BY <2>1, <2>5 DEF TapePasses
    <3>2. EndsAtHead(at)'
      BY <1>1, <2>1, <2>2, <2>3, <2>5, <3>1 DEF EndsAtHead, DriveTyped
    <3>3. QED
      BY <1>1, <2>2, <2>4, <3>2 DEF ReadsOn
  <2>6. CASE pos' \notin 1 .. Cells
    BY <1>1, <2>2, <2>4, <2>6 DEF ReadsOn, EndsAtHead
  <2>7. QED
    BY <2>5, <2>6
<1>7. QED
  BY <1>3, <1>4, <1>5, <1>6 DEF DriveTyped

LEMMA OthersHold ==
  IInv /\ (LeaderByte \/ Attn__handler \/ Eject \/ Clock \/ UNCHANGED vars) => IInv'
<1> SUFFICES ASSUME IInv, LeaderByte \/ Attn__handler \/ Eject \/ Clock \/ UNCHANGED vars
             PROVE  IInv'
  OBVIOUS
<1> USE DEF IInv
<1>1. CASE LeaderByte
  <2>1. /\ UNCHANGED <<deckVars, tape, writing, cell, pc, call, bf>>
        /\ ready' = TRUE /\ overrun' \in BOOLEAN /\ writing /\ motion = "fwd"
    BY <1>1 DEF LeaderByte, ctlVars, DriveTyped
  <2>2. DriveTyped' /\ Places' /\ AtRest' /\ ReadsForward'
    BY <2>1 DEF DriveTyped, Places, AtRest, ReadsForward, deckVars
  <2>3. ReadsOn'
    BY <2>1 DEF ReadsOn, ReadsForward
  <2>4. QED
    BY <2>2, <2>3
<1>2. CASE UNCHANGED <<deckVars, adapterVars, pc, call, bf>>
  <2>1. DriveTyped' /\ Places' /\ AtRest' /\ ReadsForward'
    BY <1>2 DEF DriveTyped, Places, AtRest, ReadsForward, deckVars, adapterVars
  <2>2. ReadsOn'
    BY <1>2 DEF ReadsOn, RunOfTape, EndsAtHead, Values, deckVars, adapterVars
  <2>3. QED
    BY <2>1, <2>2
<1>3. CASE Eject
  <2>1. DriveTyped' /\ Places' /\ AtRest' /\ ReadsForward'
    BY <1>3 DEF Eject, DriveTyped, Places, AtRest, ReadsForward, adapterVars
  <2>2. ReadsOn'
    BY <1>3 DEF Eject, ReadsOn, RunOfTape, EndsAtHead, Values, adapterVars
  <2>3. QED
    BY <2>1, <2>2
<1>4. CASE Attn__handler \/ Clock
  BY <1>2, <1>4 DEF Attn__handler, Clock, AdapterKeeps
<1>5. CASE UNCHANGED vars
  BY <1>2, <1>5 DEF vars, ctlVars
<1>6. QED
  BY <1>1, <1>3, <1>4, <1>5

LEMMA NextHolds == IInv /\ [Next]_vars => IInv'
BY FinHolds, ClearHolds, ReadByteHolds, WaitForExceptionHolds, WritesHold, RewindHolds,
   InteractiveHolds, TapePassesHolds, OthersHold DEF Next, Controller

THEOREM Invariance == Spec => []IInv
BY InitHolds, NextHolds, PTL DEF Spec

-----------------------------------------------------------------------------
(* What a read puts into the buffer are the bytes of cells that follow     *)
(* each other (t98_65.c lines 190 to 205), on a tape of any length, however *)
(* late the controller polls and whoever cuts in.                          *)
THEOREM ReadsAreFaithful == Spec => []ReadFaithful
<1>1. IInv => ReadFaithful
  BY DEF IInv, ReadsOn, ReadFaithful
<1>2. QED
  BY <1>1, Invariance, PTL

(* However a drive command ends, the drive is stopped after a read or a    *)
(* write and is not left pulling after a rewind (t98_65.c lines 207 and    *)
(* 258, main.c lines 304 to 313).                                          *)
THEOREM DriveIsAtRest == Spec => []AtRest
<1>1. IInv => AtRest
  BY DEF IInv
<1>2. QED
  BY <1>1, Invariance, PTL

-----------------------------------------------------------------------------
(* The size asked for is a number.                                         *)
LEMMA SizeIsNumber ==
  ASSUME NEW line, NEW len, Cp_Cmd(line, len).cmd = "rimage"
  PROVE  Cp_Cmd(line, len).nums[3] \in Int
<1> DEFINE words == Tail(line)
           p0 == Args(words)
           p1 == Cp_Kw(Full("fast"), p0)
           p2 == Cp_Kw(Full("full"), p1)
           p3 == Cp_Num(90000, p2)
<1>1. p3.nums[3] \in Int
  <2>1. p0.nums = <<>> /\ DOMAIN p0 = {"left", "nums", "file", "bad"}
    BY DEF Args
  <2>2. ASSUME NEW p, DOMAIN p = {"left", "nums", "file", "bad"}, NEW n
        PROVE  /\ Num(n, p).nums = Append(p.nums, n) /\ Num(n, Shift(p)).nums = Append(p.nums, n)
               /\ DOMAIN Num(n, p) = DOMAIN p /\ DOMAIN Num(n, Shift(p)) = DOMAIN p
    BY <2>2 DEF Num, Shift
  <2>3. ASSUME NEW p, DOMAIN p = {"left", "nums", "file", "bad"}, NEW kw
        PROVE  \E n \in {0, 1} : /\ Cp_Kw(kw, p).nums = Append(p.nums, n)
                                 /\ DOMAIN Cp_Kw(kw, p) = DOMAIN p
    BY <2>2, <2>3 DEF Cp_Kw
  <2>4. PICK a \in {0, 1} : p1.nums = Append(p0.nums, a) /\ DOMAIN p1 = DOMAIN p0
    BY <2>1, <2>3
  <2>5. PICK b \in {0, 1} : p2.nums = Append(p1.nums, b) /\ DOMAIN p2 = DOMAIN p1
    BY <2>1, <2>3, <2>4
  <2>6. \E n \in Int : p3.nums = Append(p2.nums, n)
    BY <2>1, <2>2, <2>4, <2>5, DataAssumption DEF Cp_Num
  <2> HIDE DEF p0, p1, p2, p3
  <2>7. PICK n \in Int : p3.nums = Append(p2.nums, n)
    BY <2>6
  <2>8. ASSUME NEW seq, seq \in Seq(Int), NEW e \in Int
        PROVE  /\ Append(seq, e) \in Seq(Int) /\ Len(Append(seq, e)) = Len(seq) + 1
               /\ Append(seq, e)[Len(seq) + 1] = e
    BY <2>8
  <2>9. p1.nums \in Seq(Int) /\ Len(p1.nums) = 1
    <3>1. p0.nums \in Seq(Int) /\ Len(p0.nums) = 0 /\ a \in Int
      BY <2>1
    <3>2. QED
      BY <2>4, <2>8, <3>1
  <2>10. p2.nums \in Seq(Int) /\ Len(p2.nums) = 2
    <3>1. b \in Int
      OBVIOUS
    <3>2. QED
      BY <2>5, <2>8, <2>9, <3>1
  <2>11. QED
    BY <2>7, <2>8, <2>10
<1>2. Parse("rimage", p0, len) = p3
  BY DEF Parse
<1>3. Cp_Cmd(line, len).nums = p3.nums
  <2> DEFINE code == Lookup(Head(line))
             p == Parse(code, p0, len)
  <2>1. Cp_Cmd(line, len) = IF code = "unknown" THEN Refused
     ELSE IF code \in {"quit", "?"} THEN Does(code, <<>>, "")
     ELSE IF ~Cp_Check(p) THEN Refused
     ELSE Does(code, p.nums, p.file)
    BY DEF Cp_Cmd
  <2> HIDE DEF code, p
  <2>2. code = "rimage" /\ Cp_Cmd(line, len).nums = p.nums
    <3>1. Refused.cmd # "rimage" /\ Does(code, <<>>, "").cmd = code
      BY DEF Refused, Does
    <3>2. Does(code, p.nums, p.file).cmd = code /\ Does(code, p.nums, p.file).nums = p.nums
      BY DEF Does
    <3>3. code = "rimage"
      BY <2>1, <3>1, <3>2
    <3>4. Cp_Cmd(line, len) = Does(code, p.nums, p.file)
      BY <2>1, <3>1, <3>3
    <3>5. QED
      BY <3>2, <3>3, <3>4
  <2>3. p = p3
    BY <2>2, <1>2 DEF p
  <2>4. QED
    BY <2>2, <2>3
<1>4. QED
  BY <1>1, <1>3

-----------------------------------------------------------------------------
(* Writing.  DataTyped gives the bytes and locals their types.  A byte     *)
(* that was sent (Sent) waits in the adapter until the next cell passes;   *)
(* Put says what is known of it when the controller is told so: it is on   *)
(* the tape, and if more has passed since then the adapter has an overrun  *)
(* to show, or tape or cassette has come to its end, and then the byte may *)
(* be missing.  Kept is what is left of that when the write is over.       *)

Ops    == {"none", "cmd", "start", "read", "write", "rewind"}
Errors == {"LDR", "NOCASS", "NOWRITE", "DORN", "TIMEOUTCLR", "TIMEOUTDRDY", "INTR", "BUFFULL"}

DataTyped ==
  /\ tape \in [1 .. Cells -> Byte] /\ cell \in Byte /\ out \in Byte
  /\ bf \in Seq(Byte)
  /\ call \in [op : Ops, stat : SUBSET Errors, size : Int, next : Nat]
  /\ ~present => motion = "stop"

Written(at, k) == \A i \in 1 .. k : at + i \in 1 .. Cells /\ tape[at + i] = bf[i]

Gone == pos = Cells + 1 \/ ~present

Put(at, k) ==
  \/ /\ Written(at, k) /\ pos >= at + k
     /\ overrun \/ Gone \/ (pos = at + k /\ ready)
  \/ Written(at, k - 1) /\ pos >= at + k - 1 /\ Gone

Sent(at, k) == Written(at, k - 1) /\ pos = at + k - 1 /\ pos <= Cells /\ ~ready

Kept(at) ==
  \/ Written(at, Len(bf)) /\ pos >= at + Len(bf)
  \/ Written(at, Len(bf) - 1) /\ pos >= at + Len(bf) - 1 /\ Gone

Running ==
  pc \in {"leader", "data", "exception"} /\ present => motion = "fwd" /\ writing /\ writable

Ended == pc = "fin" => motion # "rev"

Faultless == pc \in {"write", "leader", "data", "exception"} => call.stat = {}

ToSend ==
  pc = "data" =>
    /\ pos >= 1 /\ call.next \in 1 .. Len(bf)
    /\ call.next > 1 => \E at \in 0 .. Cells : Put(at, call.next - 1)

Polling ==
  pc = "exception" =>
    /\ pos >= 1 /\ call.next \in 2 .. Len(bf) + 1
    /\ out = bf[call.next - 1]
    /\ \E at \in 0 .. Cells : Sent(at, call.next - 1) \/ Put(at, call.next - 1)

Over == pc \in {"fin", "prompt"} /\ call.stat = {} => \E at \in 0 .. Cells : Kept(at)

WritesOn == call.op = "write" => Running /\ Ended /\ Faultless /\ ToSend /\ Polling /\ Over

WInv == IInv /\ DataTyped /\ WritesOn

-----------------------------------------------------------------------------
(* The types.                                                              *)

LEMMA SequenceFacts ==
  ASSUME NEW S, NEW s \in Seq(S)
  PROVE  /\ Len(s) \in Nat /\ DOMAIN s = 1 .. Len(s)
         /\ \A i \in DOMAIN s : s[i] \in S
OBVIOUS

LEMMA InitTyped == Init => DataTyped /\ WritesOn
<1> SUFFICES ASSUME Init PROVE DataTyped /\ WritesOn
  OBVIOUS
<1>1. tape \in [1 .. Cells -> Byte] /\ motion = "stop"
  BY DataAssumption DEF Init, DeckInit
<1>2. cell \in Byte /\ out \in Byte /\ bf \in Seq(Byte)
  BY DEF Init, Byte
<1>3. call \in [op : Ops, stat : SUBSET Errors, size : Int, next : Nat] /\ call.op = "none"
  BY DEF Init, Idle, Ops
<1>4. QED
  BY <1>1, <1>2, <1>3 DEF DataTyped, WritesOn

(* What a command to the drive leaves alone, and what it does.             *)
LEMMA CommandData ==
  ASSUME DataTyped, NEW cmd, T98_Cmd(cmd)
  PROVE  /\ UNCHANGED <<pos, present, writable, tape, cell>> /\ out' \in Byte
         /\ ~present' => motion' = "stop"
BY DEF T98_Cmd, Execute, Byte

LEMMA FailsTyped ==
  ASSUME DataTyped, NEW stat, stat \in SUBSET Errors, Fails(stat)
  PROVE  /\ pc' = "fin" /\ call'.op = call.op /\ call'.stat = stat
         /\ call' \in [op : Ops, stat : SUBSET Errors, size : Int, next : Nat]
BY DEF DataTyped, Fails, At

LEMMA FlagErrors == \A S \in SUBSET Errors : Flags \cap S \in SUBSET Errors
OBVIOUS

LEMMA ReadingTyped ==
  ASSUME WInv, Clear \/ ReadByte \/ WaitForException \/ Fin \/ Rewind
  PROVE  DataTyped'
<1> USE DEF WInv
<1>1. CASE Fin \/ Rewind
  <2>1. \E cmd : T98_Cmd(cmd)
    BY <1>1 DEF Fin, Rewind
  <2>2. UNCHANGED <<call, bf>>
    BY <1>1 DEF Fin, Rewind, At
  <2>3. QED
    BY <2>1, <2>2, CommandData DEF DataTyped
<1>2. CASE Clear
  <2>1. UNCHANGED <<deckVars, adapterVars>>
    BY <1>2 DEF Clear, AdapterKeeps
  <2>2. bf' \in Seq(Byte)
    <3>1. CASE bf' = bf
      BY <3>1 DEF DataTyped
    <3>2. CASE bf' = <<>>
      BY <3>2
    <3>3. QED
      BY <1>2, <3>1, <3>2 DEF Clear
  <2>3. call' \in [op : Ops, stat : SUBSET Errors, size : Int, next : Nat]
    <3>1. CASE At("byte", [call EXCEPT !.op = "read"])
      BY <3>1 DEF At, DataTyped, Ops
    <3>2. CASE Fails({"TIMEOUTCLR"})
      BY <3>2, FailsTyped DEF Errors
    <3>3. QED
      BY <1>2, <3>1, <3>2 DEF Clear
  <2>4. QED
    BY <2>1, <2>2, <2>3 DEF DataTyped, deckVars, adapterVars
<1>3. CASE WaitForException
  <2>1. UNCHANGED <<deckVars, adapterVars, bf>>
    BY <1>3 DEF WaitForException, AdapterKeeps
  <2>2. call' \in [op : Ops, stat : SUBSET Errors, size : Int, next : Nat]
    <3>1. CASE Polled
      BY <3>1 DEF Polled, At, DataTyped
    <3>2. ASSUME NEW stat \in {{"TIMEOUTDRDY"}, {"INTR"}}, Fails(stat)
          PROVE  call' \in [op : Ops, stat : SUBSET Errors, size : Int, next : Nat]
      BY <3>2, FailsTyped DEF Errors
    <3>3. QED
      BY <1>3, <3>1, <3>2 DEF WaitForException
  <2>3. QED
    BY <2>1, <2>2 DEF DataTyped, deckVars, adapterVars
<1>4. CASE ReadByte
  <2> DEFINE wrong == Flags \cap {"NOCASS", "LDR", "DORN"}
  <2>1. out' = 0 /\ UNCHANGED <<deckVars, tape, cell>>
    BY <1>4 DEF ReadByte, Respond
  <2>2. wrong \in SUBSET Errors
    BY DEF Errors
  <2>3. call' \in [op : Ops, stat : SUBSET Errors, size : Int, next : Nat]
    <3> HIDE DEF wrong
    <3>1. ASSUME NEW stat \in {wrong, {"BUFFULL"}}, Fails(stat)
          PROVE  call' \in [op : Ops, stat : SUBSET Errors, size : Int, next : Nat]
      BY <2>2, <3>1, FailsTyped DEF Errors
    <3>2. CASE Waits("exception", call)
      BY <3>2 DEF Waits, At, DataTyped
    <3>3. QED
      BY <1>4, <3>1, <3>2 DEF ReadByte, wrong
  <2>4. bf' = bf \/ bf' = Append(bf, cell)
    BY <1>4 DEF ReadByte
  <2>5. bf' \in Seq(Byte)
    BY <2>4 DEF DataTyped
  <2>6. QED
    BY <2>1, <2>3, <2>5 DEF DataTyped, deckVars, Byte
<1>5. QED
  BY <1>1, <1>2, <1>3, <1>4

(* What was put or kept stays so while neither tape nor head moves.        *)
LEMMA PutKept ==
  ASSUME UNCHANGED <<pos, tape, bf>>, present' => present, overrun => overrun',
         NEW at, NEW k, k \in Int, Put(at, k), ready' \/ ~ready
  PROVE  Put(at, k)'
BY DEF Put, Written, Gone

LEMMA KeptKept ==
  ASSUME UNCHANGED <<pos, tape, bf>>, present' => present, NEW at, Kept(at)
  PROVE  Kept(at)'
BY DEF Kept, Written, Gone

(* What a write leaves behind when it ends with an error: nothing.         *)
LEMMA FailureOver ==
  ASSUME WInv, NEW stat, stat \in SUBSET Errors, stat # {}, Fails(stat),
         motion' # "rev", call.op = "write"
  PROVE  WritesOn'
<1>1. pc' = "fin" /\ call'.stat # {}
  BY FailsTyped DEF WInv
<1>2. QED
  BY <1>1 DEF WritesOn, Running, Ended, Faultless, ToSend, Polling, Over

LEMMA OutOfLeaderHolds ==
  ASSUME WInv, OutOfLeader, UNCHANGED <<pos, present, writable, tape, bf>>, call.op = "write",
         call.stat = {}, present => writing', motion' = IF present THEN "fwd" ELSE "stop"
  PROVE  /\ WritesOn'
         /\ call' \in [op : Ops, stat : SUBSET Errors, size : Int, next : Nat]
<1> USE DEF WInv
<1> DEFINE wrong == Flags \cap {"NOCASS", "NOWRITE"}
<1>1. wrong \in SUBSET Errors /\ {"TIMEOUTCLR"} \in SUBSET Errors
  BY DEF Errors
<1>2. CASE wrong # {} /\ Fails(wrong)
  <2> HIDE DEF wrong
  <2>1. QED
    BY <1>1, <1>2, FailsTyped, FailureOver
<1>3. CASE Fails({"TIMEOUTCLR"})
  BY <1>1, <1>3, FailsTyped, FailureOver
<1>4. wrong = {} => present /\ writable
  BY DEF Flags, DeckStatus
<1>5. CASE wrong = {} /\ At("leader", call)
  <2>1. pc' = "leader" /\ call' = call
    BY <1>5 DEF At
  <2>2. QED
    BY <1>4, <1>5, <2>1 DEF WritesOn, Running, Ended, Faultless, ToSend, Polling, Over, DataTyped
<1>6. CASE /\ wrong = {} /\ ~Leader
           /\ At(IF bf = <<>> THEN "fin" ELSE "data", [call EXCEPT !.next = 1])
  <2>1. /\ call' \in [op : Ops, stat : SUBSET Errors, size : Int, next : Nat]
        /\ call'.op = "write" /\ call'.stat = {} /\ call'.next = 1
    BY <1>6 DEF At, DataTyped
  <2>2. pos \in 1 .. Cells
    BY <1>6, CellsAssumption DEF Leader, DriveTyped, IInv
  <2>3. CASE bf = <<>>
    <3>1. pc' = "fin" /\ Len(bf) = 0
      BY <1>6, <2>3 DEF At
    <3>2. Kept(0)'
      BY <2>2, <2>3, <3>1, CellsAssumption DEF Kept, Written
    <3>3. 0 \in 0 .. Cells
      BY CellsAssumption
    <3>4. Over'
      BY <3>2, <3>3 DEF Over
    <3>5. QED
      BY <2>1, <3>1, <3>4 DEF WritesOn, Running, Ended, Faultless, ToSend, Polling
  <2>4. CASE bf # <<>>
    <3>1. pc' = "data"
      BY <1>6, <2>4 DEF At
    <3>2. Len(bf) \in Nat /\ Len(bf) > 0
      BY <2>4 DEF DataTyped
    <3>3. ToSend'
      BY <2>1, <2>2, <3>2 DEF ToSend
    <3>4. QED
      BY <1>4, <1>6, <2>1, <3>1, <3>3 DEF WritesOn, Running, Ended, Faultless, Polling, Over
  <2>5. QED
    BY <2>1, <2>3, <2>4
<1>7. QED
  BY <1>2, <1>3, <1>5, <1>6 DEF OutOfLeader

LEMMA StartsWrite == WInv /\ (StartWriting \/ InLeader) => DataTyped' /\ WritesOn'
<1> SUFFICES ASSUME WInv, StartWriting \/ InLeader PROVE DataTyped' /\ WritesOn'
  OBVIOUS
<1> USE DEF WInv
<1>1. call.op = "write" /\ call.stat = {} /\ bf' = bf /\ OutOfLeader
  BY DEF StartWriting, InLeader, IInv, Places, WritesOn, Faultless
<1>2. CASE StartWriting
  <2>1. T98_Cmd("WFN")
    BY <1>2 DEF StartWriting
  <2>2. writing' /\ motion' = IF present THEN "fwd" ELSE "stop"
    BY <2>1 DEF T98_Cmd, Execute, Moves
  <2>3. UNCHANGED <<pos, present, writable, tape, cell>> /\ out' \in Byte
    BY <2>1, CommandData
  <2>4. QED
    BY <1>1, <2>2, <2>3, OutOfLeaderHolds DEF DataTyped
<1>3. CASE InLeader
  <2>1. UNCHANGED <<deckVars, adapterVars>> /\ pc = "leader"
    BY <1>3 DEF InLeader, AdapterKeeps
  <2>2. (present => writing') /\ motion' = IF present THEN "fwd" ELSE "stop"
    BY <1>1, <2>1 DEF WritesOn, Running, DataTyped, deckVars, adapterVars
  <2>3. QED
    BY <1>1, <2>1, <2>2, OutOfLeaderHolds DEF DataTyped, deckVars, adapterVars
<1>4. QED
  BY <1>2, <1>3

(* A byte is sent when the one before is known to have been put.           *)
LEMMA SendsByte == WInv /\ WriteByte => DataTyped' /\ WritesOn'
<1> SUFFICES ASSUME WInv, WriteByte PROVE DataTyped' /\ WritesOn'
  OBVIOUS
<1> USE DEF WInv
<1> DEFINE wrong == Flags \cap {"NOCASS", "LDR", "DORN"}
<1>0. PICK n \in Nat : n = call.next
  BY DEF DataTyped
<1>1. /\ pc = "data" /\ ready' = FALSE /\ out' = bf[n] /\ bf' = bf
      /\ UNCHANGED <<pos, motion, present, writable, tape, writing, overrun, cell>>
  BY <1>0 DEF WriteByte, Respond, deckVars
<1>2. call.op = "write" /\ call.stat = {}
  BY <1>1 DEF IInv, Places, WritesOn, Faultless
<1>3. pos >= 1 /\ n \in 1 .. Len(bf) /\ Len(bf) \in Nat
        /\ (n > 1 => \E at \in 0 .. Cells : Put(at, n - 1))
  BY <1>0, <1>1, <1>2 DEF WritesOn, ToSend, DataTyped
<1>4. out' \in Byte
  BY <1>1, <1>3 DEF DataTyped
<1>5. (present => motion = "fwd" /\ writing /\ writable) /\ (~present => motion = "stop")
  BY <1>1, <1>2 DEF WritesOn, Running, DataTyped
<1>6. CASE wrong # {} /\ Fails(wrong)
  <2>1. wrong \in SUBSET Errors
    BY DEF Errors
  <2>2. motion' # "rev"
    BY <1>1, <1>5
  <2> HIDE DEF wrong
  <2>3. QED
    BY <1>1, <1>2, <1>4, <1>6, <2>1, <2>2, FailsTyped, FailureOver DEF DataTyped
<1>7. CASE wrong = {} /\ Waits("exception", [call EXCEPT !.next = @ + 1])
  <2>1. /\ call' \in [op : Ops, stat : SUBSET Errors, size : Int, next : Nat]
        /\ call'.op = "write" /\ call'.stat = {} /\ call'.next = n + 1 /\ pc' = "exception"
    BY <1>0, <1>2, <1>7 DEF Waits, At, DataTyped
  <2>2. present /\ ~overrun /\ pos \in 1 .. Cells
    BY <1>3, <1>7, FlagFacts, CellsAssumption DEF Leader, IInv, DriveTyped
  <2>3. \E at \in 0 .. Cells : Written(at, n - 1) /\ pos = at + n - 1
    <3>1. CASE n = 1
      <4>1. Written(pos, n - 1) /\ pos = pos + n - 1
        BY <2>2, <3>1 DEF Written
      <4>2. QED
        BY <2>2, <4>1, CellsAssumption
    <3>2. CASE n > 1
      <4>1. PICK at \in 0 .. Cells : Put(at, n - 1)
        BY <1>3, <3>2
      <4>2. ~Gone
        BY <2>2, CellsAssumption DEF Gone
      <4>3. Written(at, n - 1) /\ pos = at + n - 1
        BY <2>2, <4>1, <4>2, CellsAssumption DEF Put
      <4>4. QED
        BY <4>3
    <3>3. QED
      BY <1>3, <3>1, <3>2
  <2>4. PICK at \in 0 .. Cells : Written(at, n - 1) /\ pos = at + n - 1
    BY <2>3
  <2>5. Written(at, n - 1)'
    BY <1>1, <2>4 DEF Written
  <2>6. Sent(at, n)'
    BY <1>1, <2>2, <2>4, <2>5 DEF Sent
  <2>7. call'.next - 1 = n /\ call'.next \in 2 .. Len(bf) + 1
    BY <1>3, <2>1
  <2>8. Polling'
    BY <1>1, <2>2, <2>6, <2>7, CellsAssumption DEF Polling
  <2>9. WritesOn'
    BY <1>1, <1>5, <2>1, <2>2, <2>8 DEF WritesOn, Running, Ended, Faultless, ToSend, Over
  <2>10. QED
    BY <1>1, <1>4, <2>1, <2>9 DEF DataTyped
<1>8. QED
  BY <1>6, <1>7 DEF WriteByte

(* The controller is told that a byte was taken, or sees the write end.    *)
LEMMA PollsWrite == WInv /\ WaitForException => WritesOn'
<1> SUFFICES ASSUME WInv, WaitForException, call'.op = "write" PROVE WritesOn'
  BY DEF WritesOn
<1> USE DEF WInv
<1>0. PICK k \in Int : k = call.next - 1
  BY DEF DataTyped
<1>1. /\ pc = "exception"
      /\ UNCHANGED <<pos, motion, present, writable, tape, writing, ready, overrun, cell, out, bf>>
  BY DEF WaitForException, AdapterKeeps, deckVars, adapterVars
<1>2. ASSUME NEW stat \in {{"TIMEOUTDRDY"}, {"INTR"}}, Fails(stat) PROVE call.op = "write"
  <2>1. stat \in SUBSET Errors
    BY DEF Errors
  <2>2. QED
    BY <1>2, <2>1, FailsTyped
<1>3. call.op = "write"
  <2>1. CASE Polled
    BY <2>1 DEF Polled, At
  <2>2. QED
    BY <1>2, <2>1 DEF WaitForException
<1>4. /\ Running /\ call.stat = {} /\ pos >= 1 /\ call.next \in 2 .. Len(bf) + 1
      /\ \E at \in 0 .. Cells : Sent(at, k) \/ Put(at, k)
  BY <1>0, <1>1, <1>3 DEF WritesOn, Faultless, Polling
<1>5. motion # "rev"
  BY <1>1, <1>4 DEF Running, DataTyped
<1>6. ASSUME NEW stat \in {{"TIMEOUTDRDY"}, {"INTR"}}, Fails(stat) PROVE WritesOn'
  <2>1. stat \in SUBSET Errors /\ stat # {}
    BY DEF Errors
  <2>2. QED
    BY <1>1, <1>3, <1>5, <1>6, <2>1, FailureOver
<1>7. CASE Exception /\ Polled
  <2>1. PICK at \in 0 .. Cells : Put(at, k)
    <3>1. PICK at \in 0 .. Cells : Sent(at, k) \/ Put(at, k)
      BY <1>4
    <3>2. CASE Sent(at, k)
      <4>1. ~present
        BY <1>4, <1>7, <3>2, CellsAssumption DEF Sent, Exception, Leader, IInv, DriveTyped
      <4>2. Put(at, k)
        BY <3>2, <4>1, CellsAssumption DEF Sent, Put, Gone
      <4>3. QED
        BY <4>2
    <3>3. QED
      BY <3>1, <3>2
  <2>2. call' = call
    BY <1>3, <1>7 DEF Polled, At
  <2>3. CASE call.next > Len(bf)
    <3>1. pc' = "fin" /\ k = Len(bf)
      BY <1>0, <1>3, <1>4, <1>7, <2>3 DEF Polled, At, DataTyped
    <3>2. Kept(at)
      BY <2>1, <3>1 DEF Put, Kept
    <3>3. Kept(at)'
      BY <1>1, <3>2, KeptKept
    <3>4. QED
      BY <1>1, <1>4, <1>5, <2>2, <3>1, <3>3
         DEF WritesOn, Running, Ended, Faultless, ToSend, Polling, Over
  <2>4. CASE ~(call.next > Len(bf))
    <3>1. pc' = "data" /\ call.next \in 1 .. Len(bf)
      BY <1>3, <1>4, <1>7, <2>4 DEF Polled, At, DataTyped
    <3>2. Put(at, k)'
      BY <1>1, <2>1 DEF Put, Written, Gone
    <3>3. ToSend'
      BY <1>0, <1>1, <1>4, <2>2, <3>1, <3>2 DEF ToSend
    <3>4. QED
      BY <1>1, <1>4, <2>2, <3>1, <3>3 DEF WritesOn, Running, Ended, Faultless, Polling, Over
  <2>5. QED
    BY <2>3, <2>4
<1>8. QED
  BY <1>6, <1>7 DEF WaitForException

LEMMA OthersOfController == WInv /\ (Clear \/ ReadByte \/ Fin \/ Rewind) => WritesOn'
<1> SUFFICES ASSUME WInv, Clear \/ ReadByte \/ Fin \/ Rewind, call'.op = "write"
             PROVE  WritesOn'
  BY DEF WritesOn
<1> USE DEF WInv
<1>1. ASSUME NEW stat, Fails(stat) PROVE call'.op = call.op
  BY <1>1 DEF Fails, At
<1>2. CASE Clear
  <2>1. call.op = "start" /\ call'.op \in {"start", "read"}
    BY <1>1, <1>2 DEF Clear, At, IInv, Places, DataTyped, Ops
  <2>2. QED
    BY <2>1
<1>3. CASE ReadByte
  <2>1. call.op = "read" /\ call'.op = call.op
    BY <1>1, <1>3 DEF ReadByte, Waits, At, IInv, Places
  <2>2. QED
    BY <2>1
<1>4. CASE Rewind
  BY <1>4 DEF Rewind, At, IInv, Places
<1>5. CASE Fin
  <2>1. /\ pc = "fin" /\ pc' = "prompt" /\ call' = call /\ bf' = bf
        /\ UNCHANGED <<pos, present, tape>>
    BY <1>5 DEF Fin, At, T98_Cmd
  <2>2. Over'
    <3>1. ASSUME call.stat = {} PROVE \E at \in 0 .. Cells : Kept(at)'
      <4>1. PICK at \in 0 .. Cells : Kept(at)
        BY <2>1, <3>1 DEF WritesOn, Over
      <4>2. Kept(at)'
        BY <2>1, <4>1, KeptKept
      <4>3. QED
        BY <4>2
    <3>2. QED
      BY <2>1, <3>1 DEF Over
  <2>3. QED
    BY <2>1, <2>2 DEF WritesOn, Running, Ended, Faultless, ToSend, Polling
<1>6. QED
  BY <1>2, <1>3, <1>4, <1>5

-----------------------------------------------------------------------------
(* The prompt.                                                             *)

LEMMA CutTyped ==
  ASSUME bf \in Seq(Byte), NEW maxBytes \in Int
  PROVE  SubSeq(bf, 1, Min({maxBytes, Len(bf)})) \in Seq(Byte)
<1> DEFINE S == {maxBytes, Len(bf)}
           n == Min(S)
<1>1. Len(bf) \in Nat /\ S \in SUBSET Int
  BY SequenceFacts
<1>2. n \in S /\ \A y \in S : n <= y
  <2>1. \E x \in S : \A y \in S : x <= y
    BY <1>1
  <2>2. QED
    BY <2>1 DEF Min
<1>3. n \in Int /\ n <= Len(bf)
  BY <1>1, <1>2
<1> HIDE DEF n
<1>4. \A i \in 1 .. n : bf[i] \in Byte
  BY <1>1, <1>3, SequenceFacts
<1>5. SubSeq(bf, 1, n) \in Seq(Byte)
  BY <1>3, <1>4, SubSeqProperties
<1>6. QED
  BY <1>5 DEF n

LEMMA PromptHolds ==
  ASSUME WInv, NEW line, Interactive(line)
  PROVE  DataTyped' /\ WritesOn'
<1> USE DEF WInv
<1> DEFINE d == Cp_Cmd(line, Len(bf))
           Calls == [op : Ops, stat : SUBSET Errors, size : Int, next : Nat]
<1>1. pc = "prompt"
  BY DEF Interactive
<1>2. Idle \in Calls /\ Idle.op = "none"
  BY DEF Idle, Ops
<1>3. ASSUME NEW op \in Ops \ {"write"}
      PROVE  [Idle EXCEPT !.op = op] \in Calls /\ [Idle EXCEPT !.op = op].op # "write"
  BY DEF Idle, Ops
<1>4. ASSUME NEW cmd, Drive(cmd) PROVE DataTyped' /\ WritesOn'
  <2>1. T98_Cmd(cmd) /\ bf' = bf /\ call' \in Calls /\ call'.op # "write"
    BY <1>3, <1>4 DEF Drive, At, Ops
  <2>2. QED
    BY <2>1, CommandData DEF DataTyped, WritesOn
<1>5. ASSUME NEW fast, d.cmd = "rimage", ReadImage(fast, d.nums[3]) PROVE DataTyped' /\ WritesOn'
  <2>1. PICK size \in Int : size = d.nums[3]
    BY <1>5, SizeIsNumber
  <2>2. ReadImage(fast, size)
    BY <1>5, <2>1
  <2> HIDE DEF d
  <2>3. \E cmd : T98_Cmd(cmd)
    BY <2>2 DEF ReadImage
  <2>4. bf' \in Seq(Byte)
    <3>1. bf' = SubSeq(bf, 1, Min({size, Len(bf)}))
      BY <2>2 DEF ReadImage
    <3>2. QED
      BY <3>1, CutTyped DEF DataTyped
  <2>5. call' \in Calls /\ call'.op = "start"
    <3> DEFINE c == [op |-> "start", stat |-> {}, size |-> size, next |-> 0]
    <3>2. c \in Calls /\ c.op = "start"
      BY DEF Ops
    <3>3. call' = c \/ call' = [c EXCEPT !.stat = {"NOCASS"}]
      BY <2>2 DEF ReadImage, Waits, At
    <3> HIDE DEF c
    <3>4. [c EXCEPT !.stat = {"NOCASS"}] \in Calls /\ [c EXCEPT !.stat = {"NOCASS"}].op = c.op
      BY <3>2 DEF Errors
    <3>5. QED
      BY <3>2, <3>3, <3>4
  <2>6. QED
    BY <2>3, <2>4, <2>5, CommandData DEF DataTyped, WritesOn
<1>6. ASSUME AdapterKeeps, bf' \in Seq(Byte), call' \in Calls PROVE DataTyped'
  BY <1>6 DEF AdapterKeeps, DataTyped, deckVars, adapterVars
<1>7. CASE WriteImage
  <2>1. call' \in Calls /\ call'.stat = {} /\ pc' = "write"
    BY <1>7 DEF WriteImage, Waits, At, Idle, Ops
  <2>2. DataTyped'
    BY <1>6, <1>7, <2>1 DEF WriteImage, DataTyped
  <2>3. WritesOn'
    BY <2>1 DEF WritesOn, Running, Ended, Faultless, ToSend, Polling, Over
  <2>4. QED
    BY <2>2, <2>3
<1>8. CASE StartRewind
  <2>1. call' \in Calls /\ call'.op # "write"
    BY <1>3, <1>8 DEF StartRewind, Waits, At, Ops
  <2>2. QED
    BY <1>6, <1>8, <2>1 DEF StartRewind, DataTyped, WritesOn
<1>9. CASE At("prompt", Idle) /\ AdapterKeeps /\ bf' \in Images
  <2>1. call' \in Calls /\ call'.op # "write"
    BY <1>2, <1>9 DEF At
  <2>2. bf' \in Seq(Byte)
    BY <1>9, DataAssumption
  <2>3. QED
    BY <1>6, <1>9, <2>1, <2>2 DEF WritesOn
<1>10. CASE AdapterKeeps /\ call' = call /\ pc' \in {"prompt", "quit"} /\ UNCHANGED bf
  <2>1. UNCHANGED <<pos, present, tape>>
    BY <1>10 DEF AdapterKeeps, deckVars, adapterVars
  <2>2. DataTyped'
    BY <1>6, <1>10 DEF DataTyped
  <2>3. ASSUME call.op = "write" PROVE Over'
    <3>1. ASSUME call.stat = {} PROVE \E at \in 0 .. Cells : Kept(at)'
      <4>1. PICK at \in 0 .. Cells : Kept(at)
        BY <1>1, <2>3, <3>1 DEF WritesOn, Over
      <4>2. Kept(at)'
        BY <1>10, <2>1, <4>1, KeptKept
      <4>3. QED
        BY <4>2
    <3>2. QED
      BY <1>10, <3>1 DEF Over
  <2>4. WritesOn'
    BY <1>10, <2>3 DEF WritesOn, Running, Ended, Faultless, ToSend, Polling
  <2>5. QED
    BY <2>2, <2>4
<1>11. CASE Stays /\ UNCHANGED bf
  BY <1>1, <1>10, <1>11 DEF Stays
<1>12. CASE At("quit", call) /\ AdapterKeeps /\ UNCHANGED bf
  BY <1>10, <1>12 DEF At
<1> HIDE DEF d
<1>13. \/ d.cmd = "rimage" /\ ReadImage(d.nums[1] = 1, d.nums[3])
       \/ WriteImage
       \/ StartRewind
       \/ \E cmd : Drive(cmd)
       \/ At("prompt", Idle) /\ AdapterKeeps /\ bf' \in Images
       \/ Stays /\ UNCHANGED bf
       \/ At("quit", call) /\ AdapterKeeps /\ UNCHANGED bf
  BY DEF Interactive, d
<1>14. QED
  BY <1>4, <1>5, <1>7, <1>8, <1>9, <1>11, <1>12, <1>13

-----------------------------------------------------------------------------
(* The tape, users and time.                                               *)

(* The next cell takes the byte that was sent, and leaves the others.      *)
LEMMA PassWhilePolling ==
  ASSUME WInv, TapePasses, motion = "fwd", writing, writable, present,
         NEW k \in Nat, k \in 1 .. Len(bf), NEW at \in 0 .. Cells, pos >= 1,
         Put(at, k) \/ (Sent(at, k) /\ out = bf[k])
  PROVE  Put(at, k)'
<1> USE DEF WInv
<1>1. /\ pos' = pos + 1 /\ pos <= Cells /\ UNCHANGED <<present, bf>>
      /\ pos' \in 1 .. Cells =>
           ready' = TRUE /\ overrun' = (overrun \/ ready) /\ tape' = [tape EXCEPT ![pos'] = out]
      /\ pos' \notin 1 .. Cells => UNCHANGED tape
  BY DEF TapePasses, Passes, ctlVars
<1>2. pos \in Int /\ tape \in [1 .. Cells -> Byte] /\ Cells \in Nat
  BY CellsAssumption DEF IInv, DriveTyped, DataTyped
<1>3. pos' \notin 1 .. Cells => Gone'
  BY <1>1, <1>2 DEF Gone
<1>4. ASSUME NEW m \in Int, Written(at, m), pos >= at + m PROVE Written(at, m)'
  BY <1>1, <1>2, <1>4 DEF Written
<1>5. CASE Put(at, k)
  <2>1. ~Gone
    BY <1>1, <1>2 DEF Gone
  <2>2. Written(at, k) /\ pos >= at + k /\ (overrun \/ ready)
    BY <1>5, <2>1 DEF Put
  <2>3. Written(at, k)' /\ pos' >= at + k
    BY <1>1, <1>2, <1>4, <2>2
  <2>4. overrun' \/ Gone'
    BY <1>1, <1>3, <2>2
  <2>5. QED
    BY <2>3, <2>4 DEF Put
<1>6. CASE Sent(at, k) /\ out = bf[k]
  <2>1. Written(at, k - 1) /\ pos = at + k - 1
    BY <1>6 DEF Sent
  <2>2. Written(at, k - 1)'
    BY <1>2, <1>4, <2>1
  <2>3. CASE pos' \in 1 .. Cells
    <3>1. at + k = pos' /\ tape'[at + k] = bf'[k]
      BY <1>1, <1>2, <1>6, <2>1, <2>3
    <3>2. ASSUME NEW i \in 1 .. k PROVE at + i \in 1 .. Cells /\ tape'[at + i] = bf'[i]
      <4>1. CASE i = k
        BY <2>3, <3>1, <4>1
      <4>2. CASE i \in 1 .. k - 1
        BY <2>2, <4>2 DEF Written
      <4>3. QED
        BY <4>1, <4>2
    <3>3. Written(at, k)'
      BY <3>2 DEF Written
    <3>4. QED
      BY <1>1, <1>2, <2>3, <3>1, <3>3 DEF Put
  <2>4. CASE pos' \notin 1 .. Cells
    BY <1>1, <1>2, <1>3, <2>1, <2>2, <2>4 DEF Put
  <2>5. QED
    BY <2>3, <2>4
<1>7. QED
  BY <1>5, <1>6

(* What has passed the head is not written again.                          *)
LEMMA PassAfterwards ==
  ASSUME WInv, TapePasses, motion = "fwd", NEW at \in 0 .. Cells, Kept(at)
  PROVE  Kept(at)'
<1> USE DEF WInv
<1>1. /\ pos' = pos + 1 /\ pos <= Cells /\ UNCHANGED <<present, bf>>
      /\ tape' = tape \/ (pos' \in 1 .. Cells /\ tape' = [tape EXCEPT ![pos'] = out])
  BY DEF TapePasses, Passes, ctlVars
<1>2. pos \in Int /\ tape \in [1 .. Cells -> Byte] /\ Cells \in Nat /\ Len(bf) \in Nat
  BY CellsAssumption DEF IInv, DriveTyped, DataTyped
<1>3. present
  BY DEF TapePasses, Passes, DataTyped
<1>4. ~Gone
  BY <1>1, <1>2, <1>3 DEF Gone
<1>5. Written(at, Len(bf)) /\ pos >= at + Len(bf)
  BY <1>4 DEF Kept
<1>6. Written(at, Len(bf))'
  BY <1>1, <1>2, <1>5 DEF Written
<1>7. QED
  BY <1>1, <1>2, <1>5, <1>6 DEF Kept

LEMMA PassesHold == WInv /\ TapePasses => DataTyped' /\ WritesOn'
<1> SUFFICES ASSUME WInv, TapePasses PROVE DataTyped' /\ WritesOn'
  OBVIOUS
<1> USE DEF WInv
<1>1. /\ UNCHANGED <<present, writable, writing, out, pc, call, bf>> /\ motion # "stop"
      /\ \/ motion = "fwd" /\ pos <= Cells /\ pos' = pos + 1 /\ motion' = "fwd"
         \/ motion = "rev" /\ motion' \in {"stop", "rev"}
  BY DEF TapePasses, Passes, ctlVars
<1>2. DataTyped'
  <2>1. tape' \in [1 .. Cells -> Byte] /\ cell' \in Byte
    BY DEF TapePasses, DataTyped
  <2>2. present
    BY <1>1 DEF DataTyped
  <2>3. QED
    BY <1>1, <2>1, <2>2 DEF DataTyped
<1>3. ASSUME call.op = "write" PROVE Running' /\ Ended' /\ Faultless'
  BY <1>1, <1>3 DEF WritesOn, Running, Ended, Faultless
<1>4. ASSUME call.op = "write", pc \in {"data", "exception"}
      PROVE  /\ motion = "fwd" /\ writing /\ writable /\ present /\ pos >= 1 /\ pos' >= 1
             /\ Len(bf) \in Nat /\ call.next \in Nat
  <2>1. present
    BY <1>1 DEF DataTyped
  <2>2. motion = "fwd" /\ writing /\ writable /\ pos >= 1
    BY <1>4, <2>1 DEF WritesOn, Running, ToSend, Polling
  <2>3. pos' >= 1 /\ Len(bf) \in Nat /\ call.next \in Nat
    BY <1>1, <2>2, SequenceFacts DEF DataTyped, IInv, DriveTyped
  <2>4. QED
    BY <2>1, <2>2, <2>3
<1>5. PICK k \in Int : k = call.next - 1
  BY DEF DataTyped
<1>6. ASSUME call.op = "write" PROVE ToSend'
  <2> SUFFICES ASSUME pc = "data" PROVE ToSend'
    BY <1>1 DEF ToSend
  <2>1. call.next \in 1 .. Len(bf)
    BY <1>6 DEF WritesOn, ToSend
  <2>2. ASSUME call.next > 1 PROVE \E at \in 0 .. Cells : Put(at, k)'
    <3>1. PICK at \in 0 .. Cells : Put(at, k)
      BY <1>5, <1>6, <2>2 DEF WritesOn, ToSend
    <3>2. k \in Nat /\ k \in 1 .. Len(bf)
      BY <1>4, <1>5, <1>6, <2>1, <2>2
    <3>3. Put(at, k) \/ (Sent(at, k) /\ out = bf[k])
      BY <3>1
    <3>4. Put(at, k)'
      BY <1>4, <1>6, <3>2, <3>3, PassWhilePolling
    <3>5. QED
      BY <3>4
  <2>3. QED
    BY <1>1, <1>4, <1>5, <1>6, <2>1, <2>2 DEF ToSend
<1>7. ASSUME call.op = "write" PROVE Polling'
  <2> SUFFICES ASSUME pc = "exception" PROVE Polling'
    BY <1>1 DEF Polling
  <2>1. /\ call.next \in 2 .. Len(bf) + 1 /\ out = bf[k]
        /\ \E at \in 0 .. Cells : Sent(at, k) \/ Put(at, k)
    BY <1>5, <1>7 DEF WritesOn, Polling
  <2>2. PICK at \in 0 .. Cells : Put(at, k) \/ (Sent(at, k) /\ out = bf[k])
    BY <2>1
  <2>3. k \in Nat /\ k \in 1 .. Len(bf)
    BY <1>4, <1>5, <1>7, <2>1
  <2>4. Put(at, k)'
    BY <1>4, <1>7, <2>2, <2>3, PassWhilePolling
  <2>5. QED
    BY <1>1, <1>4, <1>5, <1>7, <2>1, <2>4 DEF Polling
<1>8. ASSUME call.op = "write" PROVE Over'
  <2> SUFFICES ASSUME pc \in {"fin", "prompt"}, call.stat = {} PROVE Over'
    BY <1>1 DEF Over
  <2>1. motion = "fwd"
    BY <1>1, <1>8 DEF WritesOn, Ended, IInv, AtRest
  <2>2. PICK at \in 0 .. Cells : Kept(at)
    BY <1>8 DEF WritesOn, Over
  <2>3. Kept(at)'
    BY <2>1, <2>2, PassAfterwards
  <2>4. QED
    BY <2>3 DEF Over
<1>9. QED
  BY <1>1, <1>2, <1>3, <1>6, <1>7, <1>8 DEF WritesOn

(* What can only set a flag, or take the cassette away.                    *)
LEMMA FlagsRise ==
  ASSUME WInv, UNCHANGED <<pos, tape, writing, cell, out, pc, call, bf>>,
         \/ UNCHANGED <<motion, present, writable>>
         \/ ~present' /\ motion' = "stop",
         overrun => overrun', ready => ready', ready' = ready \/ pos \notin 1 .. Cells
  PROVE  DataTyped' /\ WritesOn'
<1> USE DEF WInv
<1>1. present' => present /\ UNCHANGED <<motion, writable>>
  OBVIOUS
<1>2. DataTyped'
  BY DEF DataTyped
<1>3. PICK k \in Int : k = call.next - 1
  BY DEF DataTyped
<1>4. ASSUME NEW at, Put(at, k) PROVE Put(at, k)'
  BY <1>1, <1>4 DEF Put, Written, Gone
<1>5. ASSUME NEW at \in Int, Sent(at, k), pos >= 1 PROVE Sent(at, k)'
  <2>1. pos \in 1 .. Cells
    BY <1>5, CellsAssumption DEF Sent, IInv, DriveTyped
  <2>2. ready' = ready
    BY <2>1
  <2>3. QED
    BY <1>5, <2>2 DEF Sent, Written
<1>6. ASSUME call.op = "write" PROVE Running' /\ Ended' /\ Faultless'
  BY <1>1, <1>6 DEF WritesOn, Running, Ended, Faultless
<1>7. ASSUME call.op = "write" PROVE ToSend'
  BY <1>3, <1>4, <1>7 DEF WritesOn, ToSend
<1>8. ASSUME call.op = "write" PROVE Polling'
  BY <1>3, <1>4, <1>5, <1>8 DEF WritesOn, Polling
<1>9. ASSUME call.op = "write" PROVE Over'
  <2> SUFFICES ASSUME pc \in {"fin", "prompt"}, call.stat = {} PROVE Over'
    BY DEF Over
  <2>1. PICK at \in 0 .. Cells : Kept(at)
    BY <1>9 DEF WritesOn, Over
  <2>2. Kept(at)'
    BY <1>1, <2>1, KeptKept
  <2>3. QED
    BY <2>2 DEF Over
<1>10. QED
  BY <1>2, <1>6, <1>7, <1>8, <1>9 DEF WritesOn

LEMMA SurroundingsHold ==
  WInv /\ (LeaderByte \/ Attn__handler \/ Eject \/ Clock \/ UNCHANGED vars)
    => DataTyped' /\ WritesOn'
<1> SUFFICES ASSUME WInv, LeaderByte \/ Attn__handler \/ Eject \/ Clock \/ UNCHANGED vars
             PROVE  DataTyped' /\ WritesOn'
  OBVIOUS
<1>1. CASE LeaderByte
  <2>1. UNCHANGED <<pos, motion, present, writable, tape, writing, cell, out, pc, call, bf>>
    BY <1>1 DEF LeaderByte, deckVars, ctlVars
  <2>2. pos \notin 1 .. Cells
    BY <1>1, CellsAssumption DEF LeaderByte, Leader
  <2>3. ready' /\ (overrun => overrun')
    BY <1>1, Zenon DEF LeaderByte
  <2>4. QED
    BY <2>1, <2>2, <2>3, FlagsRise
<1>2. CASE Eject
  BY <1>2, FlagsRise DEF Eject, adapterVars
<1>3. CASE UNCHANGED <<deckVars, adapterVars, pc, call, bf>>
  BY <1>3, FlagsRise DEF deckVars, adapterVars
<1>4. CASE Attn__handler \/ Clock
  BY <1>3, <1>4 DEF Attn__handler, Clock, AdapterKeeps
<1>5. CASE UNCHANGED vars
  BY <1>3, <1>5 DEF vars, ctlVars
<1>6. QED
  BY <1>1, <1>2, <1>4, <1>5

LEMMA WNextHolds == WInv /\ [Next]_vars => WInv'
<1> SUFFICES ASSUME WInv, [Next]_vars PROVE WInv'
  OBVIOUS
<1>1. IInv'
  BY NextHolds DEF WInv
<1>2. DataTyped' /\ WritesOn'
  BY ReadingTyped, StartsWrite, SendsByte, PollsWrite, OthersOfController, PromptHolds,
     PassesHold, SurroundingsHold DEF Next, Controller
<1>3. QED
  BY <1>1, <1>2 DEF WInv

LEMMA WInvariance == Spec => []WInv
<1>1. Init => WInv
  BY InitHolds, InitTyped DEF WInv
<1>2. QED
  BY <1>1, WNextHolds, PTL DEF Spec

(* When a write returns no error the image is on the tape, but for the     *)
(* last byte if tape or cassette came to an end just then (t98_65.c lines  *)
(* 244 to 256): for every image, every tape and every place it starts at,  *)
(* however late the controller polls.                                      *)
THEOREM WritesAreFaithful == Spec => []WriteFaithful
<1>1. ASSUME WInv PROVE WriteFaithful
  <2> DEFINE safe == IF Leader \/ ~present THEN Len(bf) - 1 ELSE Len(bf)
  <2> SUFFICES ASSUME pc = "prompt", call.op = "write", call.stat = {}
               PROVE  \E at \in 0 .. Cells : RunOfTape(SubSeq(bf, 1, safe), at)
    BY DEF WriteFaithful
  <2>1. PICK at \in 0 .. Cells : Kept(at)
    BY <1>1 DEF WInv, WritesOn, Over
  <2>2. bf \in Seq(Byte) /\ Len(bf) \in Nat
    BY <1>1 DEF WInv, DataTyped
  <2>3. Gone => Leader \/ ~present
    BY DEF Gone, Leader
  <2>4. safe \in Int /\ safe <= Len(bf) /\ Written(at, safe)
    BY <2>1, <2>2, <2>3 DEF Kept, Written
  <2> HIDE DEF safe
  <2>5. \A i \in 1 .. safe : bf[i] \in Byte
    BY <2>2, <2>4
  <2>6. /\ SubSeq(bf, 1, safe) \in Seq(Byte)
        /\ Len(SubSeq(bf, 1, safe)) = IF 1 <= safe THEN safe - 1 + 1 ELSE 0
        /\ \A i \in 1 .. safe - 1 + 1 : SubSeq(bf, 1, safe)[i] = bf[1 + i - 1]
    BY <2>4, <2>5, SubSeqProperties
  <2>7. DOMAIN SubSeq(bf, 1, safe) = 1 .. safe
    BY <2>4, <2>6
  <2>8. \A i \in 1 .. safe : SubSeq(bf, 1, safe)[i] = bf[i]
    BY <2>4, <2>6
  <2>9. RunOfTape(SubSeq(bf, 1, safe), at)
    BY <2>4, <2>7, <2>8 DEF RunOfTape, Written
  <2>10. QED
    BY <2>9
<1>2. QED
  BY <1>1, WInvariance, PTL

=============================================================================
