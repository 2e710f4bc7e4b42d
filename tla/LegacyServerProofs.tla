--------------------------- MODULE LegacyServerProofs ---------------------------
(***************************************************************************)
(* Proofs about LegacyServer, for every cassette, paper tape and sequence  *)
(* of operations: the head of the drive stays where tp.c may index, the    *)
(* image file is the tape after a clean end, and the server, its link and  *)
(* the interface together are the service LegacyService describes.         *)
(***************************************************************************)
EXTENDS LegacyServer, FiniteSetsExt, WellFoundedInduction, TLAPS

-----------------------------------------------------------------------------
(* Least and greatest members of sets of numbers, be they finite or not.   *)

LEMMA LeastExists ==
  ASSUME NEW S \in SUBSET Nat, S # {}
  PROVE  Min(S) \in S /\ \A y \in S : Min(S) <= y
<1> DEFINE R == OpToRel(<, Nat)
<1>1. PICK x \in S : \A y \in S : ~(<<y, x>> \in R)
  BY NatLessThanWellFounded, WFMin
<1>2. ASSUME NEW y \in S, y < x PROVE <<y, x>> \in R
  <2>1. <<y, x>> \in Nat \X Nat
    OBVIOUS
  <2>2. <<y, x>>[1] < <<y, x>>[2]
    BY <1>2
  <2>3. QED
    BY <2>1, <2>2, Zenon DEF OpToRel
<1> HIDE DEF R
<1>3. ASSUME NEW y \in S PROVE ~(y < x)
  BY <1>1, <1>2, Zenon
<1>4. \A y \in S : x <= y
  BY <1>3
<1>5. QED
  BY <1>4 DEF Min

LEMMA GreatestExists ==
  ASSUME NEW top \in Int, NEW S \in SUBSET Int, S # {}, \A x \in S : x <= top
  PROVE  Max(S) \in S /\ \A y \in S : Max(S) >= y
<1> DEFINE T == {top - x : x \in S}
<1>1. T # {}
  OBVIOUS
<1>2. \A x \in S : x \in Int /\ top - x \in Nat
  OBVIOUS
<1>3. T \in SUBSET Nat
  BY <1>2
<1>4. Min(T) \in T /\ \A y \in T : Min(T) <= y
  BY <1>1, <1>3, LeastExists
<1>5. PICK x \in S : Min(T) = top - x
  BY <1>4
<1>6. \A y \in S : x >= y
  BY <1>4, <1>5
<1>7. QED
  BY <1>6 DEF Max

-----------------------------------------------------------------------------
(* The drive: the head is on the tape or one cell off it.                  *)

Drives ==
  [cmd : 0 .. 5, cmode : BOOLEAN, idx : Int, modified : BOOLEAN, mounted : BOOLEAN,
   permit : BOOLEAN, image : Seq(Cell)]

DriveOK(d) ==
  /\ d \in Drives
  /\ d.idx \in -1 .. Len(d.image)
  /\ d.cmd = 5 => d.cmode = FALSE

(* A scan ends at a cell of the tape or just off it.                       *)
LEMMA NextMarkOnTape ==
  ASSUME NEW d, DriveOK(d)
  PROVE  NextMark(d) \in 0 .. Len(d.image)
<1> DEFINE S == {i \in Cells(d) : i >= d.idx /\ Sought(d, i)} \cup {Len(d.image)}
<1>1. S \in SUBSET (0 .. Len(d.image)) /\ S # {}
  BY DEF DriveOK, Drives, Cells
<1>2. Min(S) \in S
  <2> HIDE DEF S
  <2>1. 0 .. Len(d.image) \subseteq Nat
    OBVIOUS
  <2>2. S \in SUBSET Nat
    BY <1>1, <2>1
  <2>3. QED
    BY <1>1, <2>2, LeastExists
<1>3. QED
  BY <1>1, <1>2 DEF NextMark

LEMMA PreviousMarkOnTape ==
  ASSUME NEW d, DriveOK(d)
  PROVE  PreviousMark(d) \in -1 .. Len(d.image) - 1
<1> DEFINE S == {i \in Cells(d) : i <= d.idx /\ Sought(d, i)} \cup {-1}
<1>1. S \in SUBSET (-1 .. Len(d.image) - 1) /\ S # {} /\ Len(d.image) \in Nat
  BY DEF DriveOK, Drives, Cells
<1>2. \A x \in S : x \in Int /\ x <= Len(d.image) - 1
  BY <1>1
<1>3. Max(S) \in S
  <2> HIDE DEF S
  <2>1. S \in SUBSET Int /\ Len(d.image) - 1 \in Int
    BY <1>1, <1>2
  <2>2. QED
    BY <1>1, <1>2, <2>1, GreatestExists
<1>4. QED
  BY <1>1, <1>3 DEF PreviousMark

LEMMA LatchOK ==
  ASSUME NEW d, DriveOK(d), NEW r \in Requests
  PROVE  /\ DriveOK(Latch(d, r))
         /\ Latch(d, r).image = d.image /\ Latch(d, r).modified = d.modified
         /\ IsPosted(r) => Posted(Latch(d, r))
<1>1. r.code \in 0 .. 7 /\ r.so3 \in BOOLEAN
  BY DEF Requests
<1>2. CASE r.code < 6
  <2>1. Latch(d, r) = [d EXCEPT !.cmd = r.code, !.cmode = r.so3 /\ r.code # 5]
    BY <1>2 DEF Latch
  <2>2. r.code \in 0 .. 5 /\ (r.so3 /\ r.code # 5) \in BOOLEAN
    BY <1>1, <1>2
  <2>3. DriveOK(Latch(d, r)) /\ Latch(d, r).cmd = r.code
          /\ Latch(d, r).cmode = (r.so3 /\ r.code # 5)
          /\ Latch(d, r).image = d.image /\ Latch(d, r).modified = d.modified
    BY <2>1, <2>2 DEF DriveOK, Drives
  <2>4. QED
    BY <2>3 DEF IsPosted, Posted, Rewinds
<1>3. CASE ~(r.code < 6)
  BY <1>1, <1>3 DEF Latch, IsPosted
<1>4. QED
  BY <1>2, <1>3

(* What a move leaves of a drive, and what it answers.                     *)
Moved(d, result) ==
  /\ DriveOK(result.drive)
  /\ result.word \in Words
  /\ result.drive.modified \/ (result.drive.image = d.image /\ ~d.modified)

LEMMA HeadMoved ==
  ASSUME NEW d, DriveOK(d), NEW i \in -1 .. Len(d.image), NEW word \in Words
  PROVE  Moved(d, Result([d EXCEPT !.idx = i], word))
<1>1. i \in Int
  OBVIOUS
<1>2. DriveOK([d EXCEPT !.idx = i])
  BY <1>1 DEF DriveOK, Drives
<1>3. [d EXCEPT !.idx = i].image = d.image /\ [d EXCEPT !.idx = i].modified = d.modified
  BY DEF DriveOK, Drives
<1>4. d.modified \in BOOLEAN
  BY DEF DriveOK, Drives
<1>5. QED
  BY <1>2, <1>3, <1>4 DEF Moved, Result

LEMMA DeliveredWord ==
  ASSUME NEW d, DriveOK(d), NEW i \in 0 .. Len(d.image) - 1
  PROVE  Delivered(d, i) \in Words
<1>1. d.image[i + 1] \in Cell
  BY DEF DriveOK, Drives
<1>2. d.image[i + 1].byte \in Bytes
  BY <1>1 DEF Cell
<1>3. QED
  BY <1>2 DEF Delivered, Word, Words, Flags

LEMMA WriteMoved ==
  ASSUME NEW d, DriveOK(d), NEW byte \in Bytes
  PROVE  Moved(d, Write(d, byte))
<1> DEFINE at   == WriteAt(d)
           cell == [control |-> d.cmode, byte |-> byte]
           longer == IF at = Len(d.image) THEN Append(d.image, cell)
                                          ELSE [d.image EXCEPT ![at + 1] = cell]
<1>1. at \in 0 .. Len(d.image) /\ cell \in Cell /\ d.image \in Seq(Cell) /\ Len(d.image) \in Nat
  BY DEF DriveOK, Drives, WriteAt, Cell
<1>2. longer \in Seq(Cell) /\ at + 1 \in -1 .. Len(longer)
  <2>1. CASE at = Len(d.image)
    BY <1>1, <2>1
  <2>2. CASE at # Len(d.image)
    BY <1>1, <2>2
  <2>3. QED
    BY <2>1, <2>2
<1>3. CASE ~d.permit
  <2>1. Word({"CFI", "INT"}, 0) \in Words
    BY LegacyAssumption DEF Word, Words, Flags
  <2>2. d.modified \in BOOLEAN
    BY DEF DriveOK, Drives
  <2>3. QED
    BY <1>3, <2>1, <2>2 DEF Write, Moved, Result
<1>4. CASE d.permit
  <2> HIDE DEF at, cell, longer
  <2>1. Write(d, byte) =
          Result([d EXCEPT !.idx = at + 1, !.modified = TRUE, !.image = longer],
                 Word({"CFI"}, byte))
    BY <1>4 DEF Write, at, cell, longer, DriveOK, Drives
  <2>2. Word({"CFI"}, byte) \in Words
    BY DEF Word, Words, Flags
  <2> DEFINE written == [d EXCEPT !.idx = at + 1, !.modified = TRUE, !.image = longer]
  <2>3. at + 1 \in Int
    BY <1>1
  <2>4. written \in Drives
    BY <1>2, <2>3 DEF DriveOK, Drives
  <2>5. written.idx = at + 1 /\ written.image = longer /\ written.modified = TRUE
          /\ written.cmd = d.cmd /\ written.cmode = d.cmode
    BY DEF DriveOK, Drives
  <2> HIDE DEF written
  <2>6. DriveOK(written)
    BY <1>2, <2>4, <2>5 DEF DriveOK
  <2>7. Write(d, byte).drive = written /\ Write(d, byte).word = Word({"CFI"}, byte)
    BY <2>1 DEF Result, written
  <2>8. QED
    BY <2>2, <2>5, <2>6, <2>7 DEF Moved
<1>5. QED
  BY <1>3, <1>4

LEMMA MoveMoved ==
  ASSUME NEW d, DriveOK(d), NEW byte \in Bytes
  PROVE  /\ Moved(d, Move(d, byte))
         /\ Posted(d) => Move(d, byte).word = Word({}, 0)
<1>1. Word({}, 0) \in Words /\ OffTheEnd \in Words
  BY LegacyAssumption DEF Word, OffTheEnd, Words, Flags
<1>2. Len(d.image) \in Nat /\ d.cmd \in 0 .. 5 /\ d.modified \in BOOLEAN
  BY DEF DriveOK, Drives
<1>3. CASE d.cmd = 5
  <2>1. Move(d, byte) = Result(d, Word({}, 0))
    BY <1>2, <1>3 DEF Move, Rewinds
  <2>2. Move(d, byte).drive = d /\ Move(d, byte).word = Word({}, 0)
    BY <2>1 DEF Result
  <2>3. QED
    BY <1>1, <1>2, <2>2, Zenon DEF Moved
<1>4. CASE d.cmd # 5 /\ Rewinds(d)
  <2>1. Moved(d, Result([d EXCEPT !.idx = -1], Word({}, 0)))
    <3>1. -1 \in -1 .. Len(d.image)
      BY <1>2
    <3>2. QED
      BY <1>1, <3>1, HeadMoved
  <2>2. Move(d, byte) = Result([d EXCEPT !.idx = -1], Word({}, 0))
    BY <1>4 DEF Move, Rewinds
  <2>3. QED
    BY <2>1, <2>2 DEF Result
<1>5. CASE ~Posted(d) /\ d.cmd < 2
  <2>1. Move(d, byte) = Forward(d)
    BY <1>5 DEF Move, Posted, Rewinds
  <2>2. Moved(d, Forward(d))
    BY <1>1, <1>2, NextMarkOnTape, HeadMoved, DeliveredWord DEF Forward
  <2>3. QED
    BY <1>5, <2>1, <2>2
<1>6. CASE ~Posted(d) /\ d.cmd = 4
  <2>1. Move(d, byte) = Write(d, byte)
    BY <1>6 DEF Move, Posted, Rewinds
  <2>2. QED
    BY <1>6, <2>1, WriteMoved
<1>7. CASE ~Posted(d) /\ d.cmd \in {2, 3}
  <2>1. Move(d, byte) = Reverse(d)
    BY <1>7 DEF Move, Posted, Rewinds
  <2> DEFINE i == PreviousMark(d)
  <2>2. i \in -1 .. Len(d.image) - 1
    BY PreviousMarkOnTape
  <2> HIDE DEF i
  <2>3. CASE i < 0
    <3>1. Reverse(d) = Result([d EXCEPT !.idx = -1], OffTheEnd)
      BY <2>3 DEF Reverse, i
    <3>2. -1 \in -1 .. Len(d.image)
      BY <1>2
    <3>3. Moved(d, Result([d EXCEPT !.idx = -1], OffTheEnd))
      BY <1>1, <3>2, HeadMoved
    <3>4. QED
      BY <1>7, <2>1, <3>1, <3>3
  <2>4. CASE ~(i < 0)
    <3>1. Reverse(d) = Result([d EXCEPT !.idx = i - 1], Delivered(d, i))
      BY <2>4 DEF Reverse, i
    <3>2. i - 1 \in -1 .. Len(d.image) /\ i \in 0 .. Len(d.image) - 1
      BY <1>2, <2>2, <2>4
    <3>3. Delivered(d, i) \in Words
      BY <3>2, DeliveredWord
    <3>4. Moved(d, Result([d EXCEPT !.idx = i - 1], Delivered(d, i)))
      BY <3>2, <3>3, HeadMoved
    <3>5. QED
      BY <1>7, <2>1, <3>1, <3>4
  <2>5. QED
    BY <1>7, <2>1, <2>3, <2>4
<1>8. QED
  BY <1>2, <1>3, <1>4, <1>5, <1>6, <1>7 DEF Posted

(* A request on the devices.                                               *)
PaperOK(p) == p \in Seq(Bytes) \cup {None}

LEMMA ServeOK ==
  ASSUME NEW d, DriveOK(d), NEW p, PaperOK(p), NEW r \in Requests
  PROVE  /\ DriveOK(Serve(d, p, r).drive) /\ PaperOK(Serve(d, p, r).paper)
         /\ Serve(d, p, r).word \in Words
         /\ Serve(d, p, r).drive.modified
              \/ (Serve(d, p, r).drive.image = d.image /\ ~d.modified)
         /\ IsPosted(r) => "CFI" \notin Serve(d, p, r).word.flags
<1>1. CASE r.dev = "tape"
  <2> DEFINE latched == Latch(d, r)
             result  == Move(latched, r.byte)
  <2>1. r.byte \in Bytes
    BY DEF Requests
  <2>2. DriveOK(latched) /\ latched.image = d.image /\ latched.modified = d.modified
          /\ (IsPosted(r) => Posted(latched))
    BY LatchOK
  <2>3. Moved(latched, result) /\ (Posted(latched) => result.word = Word({}, 0))
    BY <2>1, <2>2, MoveMoved
  <2> HIDE DEF latched, result
  <2> DEFINE more  == IF Posted(latched) /\ OnLeader(result.drive) THEN {"LDR"} ELSE {}
             word  == Word(result.word.flags \cup {"ACK"} \cup Status(d) \cup more,
                           result.word.byte)
  <2>4. Serve(d, p, r) = [drive |-> result.drive, paper |-> p, word |-> word]
    BY <1>1 DEF Serve, TapeOp, Result, latched, result
  <2>5. Status(d) \subseteq {"nCIN", "nWPT"} /\ more \subseteq {"LDR"}
    BY DEF Status
  <2>6. result.word.flags \in SUBSET Flags /\ result.word.byte \in Bytes
    BY <2>3 DEF Moved, Words
  <2>7. word \in Words
    BY <2>5, <2>6 DEF Word, Words, Flags
  <2>8. IsPosted(r) => "CFI" \notin word.flags
    BY <2>2, <2>3, <2>5 DEF Word
  <2> HIDE DEF word
  <2>9. QED
    BY <2>2, <2>3, <2>4, <2>7, <2>8 DEF Moved
<1>2. CASE r.dev # "tape"
  <2>1. ~IsPosted(r) /\ d.modified \in BOOLEAN
    BY <1>2 DEF IsPosted, DriveOK, Drives
  <2>2. Word({"ACK"}, 0) \in Words
    BY LegacyAssumption DEF Word, Words, Flags
  <2>3. CASE r.dev = "gp" /\ r.so3
    <3>1. PaperOK(PaperRead(p).paper) /\ PaperRead(p).word \in Words
      <4>1. CASE p \in {None, <<>>}
        BY <2>2, <4>1 DEF PaperRead, PaperOK
      <4>2. CASE p \notin {None, <<>>}
        <5>1. p \in Seq(Bytes) /\ p # <<>>
          BY <4>2 DEF PaperOK
        <5>2. Tail(p) \in Seq(Bytes) /\ Head(p) \in Bytes
          BY <5>1
        <5>3. QED
          BY <4>2, <5>2 DEF PaperRead, PaperOK, Word, Words, Flags
      <4>3. QED
        BY <4>1, <4>2
    <3>2. Serve(d, p, r) = [drive |-> d, paper |-> PaperRead(p).paper, word |-> PaperRead(p).word]
      BY <1>2, <2>3 DEF Serve
    <3>3. QED
      BY <2>1, <3>1, <3>2
  <2>4. CASE ~(r.dev = "gp" /\ r.so3)
    <3>1. Serve(d, p, r) = [drive |-> d, paper |-> p, word |-> Word({"ACK"}, 0)]
      BY <1>2, <2>4 DEF Serve
    <3>2. QED
      BY <2>1, <2>2, <3>1
  <2>5. QED
    BY <2>3, <2>4
<1>3. QED
  BY <1>1, <1>2

-----------------------------------------------------------------------------
(* The invariant.                                                          *)

Locations == {"wait", "fetch", "check", "exec", "closed", "unsaved"}

Types ==
  /\ ctl \in {0, 1} /\ ack \in {0, 1} /\ cfi \in {0, 1}
  /\ data_av \in BOOLEAN /\ ceo \in BOOLEAN /\ giving_up \in BOOLEAN /\ Attn \in BOOLEAN
  /\ data_av => ir \in Requests
  /\ hp \in Requests \cup {None}
  /\ req \in Requests \cup {None}
  /\ queued_req \in Requests \cup {None}
  /\ last_send \in Words
  /\ pc \in Locations
  /\ DriveOK(drive) /\ PaperOK(paper)

(* While the server runs, what is not in the file is noted.                *)
Noted ==
  pc # "closed" =>
    \/ drive.modified
    \/ file = drive.image
    \/ file \in {None, <<>>} /\ Len(drive.image) = 1

(* Where a request may be, by where the server is.                         *)
Places ==
  /\ ctl = 0 <=> pc \in {"fetch", "exec"}
  /\ ctl = 0 => ~data_av
  /\ pc = "wait" => req = None
  /\ pc # "wait" => queued_req = None
  /\ pc = "fetch" => req # None
  /\ pc = "check" => req # None \/ Attn

Served == ~data_av /\ req = None /\ queued_req = None

(* Between two operations nothing is in hand and no transfer is under way. *)
BetweenOperations ==
  hp = None => ctl = 1 /\ ~ceo /\ ~giving_up /\ Served

(* A request is in one place only, and what ends the operation comes when  *)
(* it is served.                                                           *)
InTurn ==
  hp # None /\ ~giving_up =>
    /\ data_av => ir = hp /\ req = None /\ queued_req = None
    /\ req \in {None, hp} /\ queued_req \in {None, hp}
    /\ pc = "exec" => req = None
    /\ ceo => hp.dev = "tape" /\ ~IsPosted(hp)
    /\ hp.dev # "tape" /\ ack = 1 => ctl = 1 /\ Served /\ out = last_send
    /\ cfi = 1 => ctl = 1 /\ Served /\ out = last_send /\ "CFI" \in last_send.flags
    /\ IsPosted(hp) /\ Served => "CFI" \notin last_send.flags

(* Behind the command given up there can only be the stop.                 *)
GivenUp ==
  /\ giving_up => hp = Stop /\ ~ceo
  /\ giving_up /\ data_av /\ (req # None \/ queued_req # None) => ir = Stop
  /\ cfi = 1 => ceo

IInv ==
  Types /\ Noted /\ Places /\ BetweenOperations /\ InTurn /\ GivenUp

LEMMA StopIsRequest == Stop \in Requests /\ IsPosted(Stop) /\ Stop # None
<1>1. Stop \in Requests
  BY LegacyAssumption DEF Stop, Requests
<1>2. QED
  BY <1>1, LegacyAssumption DEF Stop, IsPosted

-----------------------------------------------------------------------------
(* It holds at the start.                                                  *)

LEMMA OpenedOK ==
  ASSUME NEW c \in Cassettes, NEW d \in Opened(c.file, c.permit)
  PROVE  /\ DriveOK(d) /\ ~d.modified
         /\ c.file = d.image \/ (c.file \in {None, <<>>} /\ Len(d.image) = 1)
<1> DEFINE fits == IF c.file \in {None, <<>>} THEN {<<cell>> : cell \in Cell} ELSE {c.file}
<1>1. c.file \in Seq(Cell) \cup {None} /\ c.permit \in BOOLEAN
  BY LegacyAssumption
<1>2. PICK image \in fits :
        d = [cmd |-> 5, cmode |-> FALSE, idx |-> -1, modified |-> FALSE,
             mounted |-> c.file # None, permit |-> c.permit, image |-> image]
  BY DEF Opened
<1>3. image \in Seq(Cell)
        /\ (c.file = image \/ (c.file \in {None, <<>>} /\ Len(image) = 1))
  <2>1. CASE c.file \in {None, <<>>}
    <3>1. PICK cell \in Cell : image = <<cell>>
      BY <1>2, <2>1
    <3>2. QED
      BY <2>1, <3>1
  <2>2. CASE c.file \notin {None, <<>>}
    BY <1>1, <1>2, <2>2
  <2>3. QED
    BY <2>1, <2>2
<1> HIDE DEF fits
<1>4. /\ d.cmd = 5 /\ d.cmode = FALSE /\ d.idx = -1 /\ d.modified = FALSE
      /\ d.image = image
  BY <1>2
<1>5. d \in Drives
  BY <1>1, <1>2, <1>3 DEF Drives
<1>6. -1 \in -1 .. Len(image)
  BY <1>3
<1>7. QED
  BY <1>3, <1>4, <1>5, <1>6 DEF DriveOK

LEMMA InitHolds == Init => IInv
<1> SUFFICES ASSUME Init PROVE IInv
  OBVIOUS
<1>1. PICK c \in Cassettes : file = c.file /\ drive \in Opened(c.file, c.permit)
  BY DEF Init
<1>2. DriveOK(drive) /\ (file = drive.image \/ (file \in {None, <<>>} /\ Len(drive.image) = 1))
  BY <1>1, OpenedOK
<1>3. last_send \in Words
  <2>1. Status(drive) \subseteq {"nCIN", "nWPT"}
    BY DEF Status
  <2>2. QED
    BY <2>1, LegacyAssumption DEF Init, Word, Words, Flags
<1>4. PaperOK(paper)
  BY LegacyAssumption DEF Init, PaperOK
<1>5. Types
  BY <1>2, <1>3, <1>4 DEF Init, PldInit, Types, Locations
<1>6. Noted
  BY <1>2 DEF Noted
<1>7. Places /\ BetweenOperations
  BY DEF Init, PldInit, Places, BetweenOperations, Served
<1>8. InTurn /\ GivenUp
  BY DEF Init, PldInit, InTurn, GivenUp
<1>9. QED
  BY <1>5, <1>6, <1>7, <1>8 DEF IInv

-----------------------------------------------------------------------------
(* The HP's steps keep it.                                                 *)

(* What a step of the HP leaves alone.                                     *)
LEMMA HpLeavesServer ==
  ASSUME IInv, HpKeeps
  PROVE  /\ Noted'
         /\ (req \in Requests \cup {None} /\ queued_req \in Requests \cup {None}
               /\ last_send \in Words /\ pc \in Locations /\ Attn \in BOOLEAN
               /\ DriveOK(drive) /\ PaperOK(paper))'
<1>1. Noted'
  BY DEF IInv, Noted, HpKeeps, devVars
<1>2. QED
  BY <1>1 DEF IInv, Types, HpKeeps, devVars, linkVars

(* A new operation: its word is taken, for no transfer is under way.       *)
LEMMA WordTaken ==
  ASSUME IInv, hp = None, NEW r \in Requests, CeoRises(r), HpKeeps
  PROVE  /\ data_av' = TRUE /\ ir' = r /\ ctl' = 1 /\ out' = out
         /\ req' = None /\ queued_req' = None /\ cfi = 0 /\ ~ceo
         /\ pc' = pc /\ pc \notin {"fetch", "exec"} /\ Attn' = Attn
         /\ r # None
<1>1. ctl = 1 /\ ~ceo /\ ~data_av /\ req = None /\ queued_req = None
  BY DEF IInv, BetweenOperations, Served
<1>2. cfi = 0 /\ pc \notin {"fetch", "exec"}
  BY <1>1 DEF IInv, GivenUp, Types, Places
<1>3. r # None
  BY LegacyAssumption
<1>4. QED
  BY <1>1, <1>2, <1>3 DEF CeoRises, HpKeeps, linkVars

LEMMA AskHolds ==
  ASSUME IInv, NEW r \in Asks, HpGeneral(r) \/ HpFast(r) \/ HpPost(r)
  PROVE  IInv'
<1>1. r \in Requests /\ hp = None /\ hp' = r /\ CeoRises(r) /\ HpKeeps
        /\ giving_up' = giving_up /\ cfi' = cfi
  BY LegacyAssumption DEF HpGeneral, HpFast, HpPost
<1>2. /\ data_av' = TRUE /\ ir' = r /\ ctl' = 1 /\ out' = out
      /\ req' = None /\ queued_req' = None /\ cfi = 0 /\ ~ceo
      /\ pc' = pc /\ pc \notin {"fetch", "exec"} /\ Attn' = Attn
      /\ r # None
  BY <1>1, WordTaken
<1>3. ~giving_up /\ (pc = "check" => Attn)
  BY <1>1 DEF IInv, BetweenOperations, Places, Served
<1>4. ack' \in {0, 1} /\ (r.dev # "tape" => ack' = 0)
  BY <1>1 DEF CeoRises, IInv, Types
<1>5. (ceo' => r.dev = "tape" /\ ~IsPosted(r)) /\ ceo' \in BOOLEAN
  <2>1. ceo' = ceo \/ (ceo' = TRUE /\ r.dev = "tape" /\ ~IsPosted(r))
    BY DEF HpGeneral, HpFast, HpPost
  <2>2. ceo = FALSE
    BY <1>2 DEF IInv, Types
  <2>3. QED
    BY <2>1, <2>2
<1>6. Types'
  BY <1>1, <1>2, <1>4, <1>5, HpLeavesServer DEF IInv, Types
<1>7. Places' /\ BetweenOperations'
  BY <1>1, <1>2, <1>3 DEF Places, BetweenOperations
<1>8. InTurn'
  BY <1>1, <1>2, <1>4, <1>5 DEF InTurn, Served
<1>9. GivenUp'
  BY <1>1, <1>2, <1>3 DEF GivenUp
<1>10. QED
  BY <1>1, <1>6, <1>7, <1>8, <1>9, HpLeavesServer DEF IInv

LEMMA HpGivesUpHolds ==
  ASSUME IInv, HpGivesUp
  PROVE  IInv'
<1>1. /\ ceo /\ hp' = Stop /\ giving_up' = TRUE /\ ceo' = FALSE /\ cfi' = 0
      /\ CeoRises(Stop) /\ HpKeeps
  BY DEF HpGivesUp
<1>2. Stop \in Requests /\ Stop # None /\ Stop.dev = "tape"
  BY StopIsRequest DEF Stop
<1>3. /\ ctl' = ctl /\ ack' = ack /\ req' = req /\ queued_req' = queued_req
      /\ pc' = pc /\ Attn' = Attn
  BY <1>1, <1>2 DEF CeoRises, HpKeeps, linkVars
<1>4. CASE data_av \/ ctl = 0
  <2>1. data_av' = data_av /\ (data_av => ir' = ir)
    BY <1>1, <1>4 DEF CeoRises, IInv, Types, Places
  <2>2. hp # None /\ ~giving_up
    BY <1>1 DEF IInv, BetweenOperations, GivenUp
  <2>3. data_av => req = None /\ queued_req = None
    BY <2>2 DEF IInv, InTurn
  <2>4. Types'
    BY <1>1, <1>2, <1>3, <2>1, HpLeavesServer DEF IInv, Types
  <2>5. Places' /\ BetweenOperations' /\ InTurn'
    BY <1>1, <1>2, <1>3, <2>1 DEF IInv, Places, BetweenOperations, InTurn
  <2>6. GivenUp'
    BY <1>1, <1>3, <2>1, <2>3 DEF GivenUp
  <2>7. QED
    BY <1>1, <2>4, <2>5, <2>6, HpLeavesServer DEF IInv
<1>5. CASE ~data_av /\ ctl = 1
  <2>1. data_av' = TRUE /\ ir' = Stop
    BY <1>1, <1>5 DEF CeoRises
  <2>2. Types'
    BY <1>1, <1>2, <1>3, <2>1, HpLeavesServer DEF IInv, Types
  <2>3. Places' /\ BetweenOperations' /\ InTurn' /\ GivenUp'
    BY <1>1, <1>2, <1>3, <1>5, <2>1 DEF IInv, Places, BetweenOperations, InTurn, GivenUp
  <2>4. QED
    BY <1>1, <2>2, <2>3, HpLeavesServer DEF IInv
<1>6. QED
  BY <1>4, <1>5 DEF IInv, Types

(* An operation that ends leaves nothing in hand.                          *)
LEMMA EndOfOperation ==
  ASSUME IInv, HpFinish
  PROVE  /\ hp # None /\ hp' = None /\ ~giving_up' /\ giving_up' \in BOOLEAN
         /\ Served /\ ctl = 1 /\ HpKeeps
         /\ ceo' = FALSE /\ cfi' = 0
         /\ <<ctl, data_av, ack, ir>>' = <<ctl, data_av, ack, ir>>
         /\ (HpGoesOn \/ (~giving_up /\ out = last_send /\ taken' = last_send
                            /\ (hp.dev = "tape" => "CFI" \in last_send.flags)))
<1>1. CASE HpFinishGeneral
  <2>1. hp # None /\ hp.dev # "tape" /\ ack = 1 /\ hp' = None /\ HpKeeps
          /\ <<ctl, data_av, ack, ir, ceo, cfi, giving_up>>'
               = <<ctl, data_av, ack, ir, ceo, cfi, giving_up>>
          /\ taken' = out
    BY <1>1 DEF HpFinishGeneral, pldVars
  <2>2. ~giving_up
    BY <2>1 DEF IInv, GivenUp, Stop
  <2>3. ctl = 1 /\ Served /\ out = last_send /\ ~ceo
    BY <2>1, <2>2 DEF IInv, InTurn
  <2>4. cfi = 0 /\ ceo = FALSE /\ giving_up = FALSE
    BY <2>2, <2>3 DEF IInv, GivenUp, Types
  <2>5. QED
    BY <2>1, <2>2, <2>3, <2>4
<1>2. CASE HpFinishFast
  <2>1. ceo /\ cfi = 1 /\ hp' = None /\ HpKeeps /\ ceo' = FALSE /\ cfi' = 0
          /\ <<ctl, data_av, ack, ir, giving_up>>' = <<ctl, data_av, ack, ir, giving_up>>
          /\ taken' = out
    BY <1>2 DEF HpFinishFast
  <2>2. hp # None /\ ~giving_up /\ giving_up \in BOOLEAN
    BY <2>1 DEF IInv, BetweenOperations, GivenUp, Types
  <2>3. ctl = 1 /\ Served /\ out = last_send /\ "CFI" \in last_send.flags
    BY <2>1, <2>2 DEF IInv, InTurn
  <2>4. QED
    BY <2>1, <2>2, <2>3
<1>3. CASE HpGoesOn
  <2>1. hp # None /\ IsPosted(hp) /\ TimePassed /\ hp' = None /\ giving_up' = FALSE
          /\ HpKeeps
          /\ <<ctl, data_av, ack, ir, ceo, cfi>>' = <<ctl, data_av, ack, ir, ceo, cfi>>
    BY <1>3 DEF HpGoesOn, pldVars
  <2>2. Served /\ ctl = 1
    BY <2>1 DEF IInv, Types, Places, TimePassed, Served
  <2>3. ~ceo
    BY <2>1 DEF IInv, InTurn, GivenUp
  <2>4. cfi = 0 /\ ceo = FALSE
    BY <2>3 DEF IInv, GivenUp, Types
  <2>5. QED
    BY <1>3, <2>1, <2>2, <2>4
<1>4. QED
  BY <1>1, <1>2, <1>3 DEF HpFinish

LEMMA HpFinishHolds ==
  ASSUME IInv, HpFinish
  PROVE  IInv'
<1>1. /\ hp' = None /\ ~giving_up' /\ giving_up' \in BOOLEAN
      /\ Served /\ ctl = 1 /\ HpKeeps
      /\ ceo' = FALSE /\ cfi' = 0
      /\ ctl' = ctl /\ data_av' = data_av /\ ack' = ack /\ ir' = ir
  BY EndOfOperation
<1>2. req' = req /\ queued_req' = queued_req /\ pc' = pc /\ Attn' = Attn
  BY <1>1 DEF HpKeeps, linkVars
<1>3. Types'
  BY <1>1, <1>2, HpLeavesServer DEF IInv, Types
<1>4. Places' /\ BetweenOperations' /\ InTurn' /\ GivenUp'
  BY <1>1, <1>2 DEF IInv, Places, BetweenOperations, InTurn, GivenUp, Served
<1>5. QED
  BY <1>1, <1>3, <1>4, HpLeavesServer DEF IInv

-----------------------------------------------------------------------------
(* The server's steps keep it.                                             *)

(* What the server and the user leave alone.                               *)
LEMMA DevicesLeft ==
  ASSUME IInv, UNCHANGED devVars
  PROVE  DriveOK(drive)' /\ PaperOK(paper)' /\ (pc # "closed" => Noted')
BY DEF IInv, Types, Noted, devVars

LEMMA TakeQueuedHolds ==
  ASSUME IInv, TakeQueued
  PROVE  IInv'
<1>1. /\ pc = "wait" /\ queued_req # None /\ req' = queued_req /\ queued_req' = None
      /\ pc' = "check" /\ UNCHANGED devVars
      /\ <<ctl, data_av, ack, cfi, ir, out>>' = <<ctl, data_av, ack, cfi, ir, out>>
      /\ <<hp, ceo, giving_up, last_send, Attn>>' = <<hp, ceo, giving_up, last_send, Attn>>
  BY DEF TakeQueued, ServerKeeps, hpVars, pldVars
<1>2. req = None /\ hp # None /\ ctl # 0
  BY <1>1 DEF IInv, Places, BetweenOperations, Served
<1>3. Types' /\ Noted'
  BY <1>1, DevicesLeft DEF IInv, Types, Locations
<1>4. Places' /\ BetweenOperations'
  BY <1>1, <1>2 DEF IInv, Places, BetweenOperations
<1>5. InTurn' /\ GivenUp'
  BY <1>1, <1>2 DEF IInv, InTurn, GivenUp, Served
<1>6. QED
  BY <1>3, <1>4, <1>5 DEF IInv

LEMMA BeginFetchHolds ==
  ASSUME IInv, BeginFetch
  PROVE  IInv'
<1>1. /\ pc = "wait" /\ queued_req = None /\ data_av /\ req' = ir
      /\ pc' = "fetch" /\ UNCHANGED devVars
      /\ ctl' = 0 /\ data_av' = FALSE
      /\ <<ack, cfi, queued_req, last_send>>' = <<ack, cfi, queued_req, last_send>>
      /\ <<hp, ceo, giving_up, Attn>>' = <<hp, ceo, giving_up, Attn>>
  BY DEF BeginFetch, Captured, CtlFalls, ServerKeeps, hpVars, linkVars
<1>2. hp # None /\ ir \in Requests /\ ir # None
  BY <1>1, LegacyAssumption DEF IInv, Types, BetweenOperations, Served
<1>3. ~giving_up => ir = hp /\ ~(hp.dev # "tape" /\ ack = 1) /\ cfi # 1
  BY <1>1, <1>2 DEF IInv, InTurn, Served
<1>4. giving_up => cfi # 1
  BY DEF IInv, GivenUp
<1>5. Types' /\ Noted'
  BY <1>1, <1>2, DevicesLeft DEF IInv, Types, Locations
<1>6. Places' /\ BetweenOperations'
  BY <1>1, <1>2 DEF Places, BetweenOperations
<1>7. InTurn'
  BY <1>1, <1>2, <1>3 DEF IInv, InTurn, Served
<1>8. GivenUp'
  BY <1>1, <1>3, <1>4 DEF IInv, GivenUp
<1>9. QED
  BY <1>5, <1>6, <1>7, <1>8 DEF IInv

LEMMA WaitInterruptedHolds ==
  ASSUME IInv, WaitInterrupted
  PROVE  IInv'
<1>1. /\ pc = "wait" /\ queued_req = None /\ ~data_av /\ Attn
      /\ pc' = "check" /\ UNCHANGED devVars
      /\ <<ctl, data_av, ack, cfi, ir, out>>' = <<ctl, data_av, ack, cfi, ir, out>>
      /\ <<hp, ceo, giving_up, Attn>>' = <<hp, ceo, giving_up, Attn>>
      /\ <<req, queued_req, last_send>>' = <<req, queued_req, last_send>>
  BY DEF WaitInterrupted, ServerKeeps, hpVars, pldVars, linkVars
<1>2. Types' /\ Noted'
  BY <1>1, DevicesLeft DEF IInv, Types, Locations
<1>3. Places' /\ BetweenOperations'
  BY <1>1 DEF IInv, Places, BetweenOperations, Served
<1>4. InTurn' /\ GivenUp'
  BY <1>1 DEF IInv, InTurn, GivenUp, Served
<1>5. QED
  BY <1>2, <1>3, <1>4 DEF IInv

LEMMA EndFetchHolds ==
  ASSUME IInv, EndFetch
  PROVE  IInv'
<1>1. /\ pc = "fetch" /\ pc' = "check" /\ UNCHANGED devVars
      /\ ctl' = 1 /\ ack' = 0 /\ cfi' = 0
      /\ <<data_av, ir, req, queued_req, last_send>>'
           = <<data_av, ir, req, queued_req, last_send>>
      /\ <<hp, ceo, giving_up, Attn>>' = <<hp, ceo, giving_up, Attn>>
  <2> DEFINE word == [last_send EXCEPT !.flags = @ \ {"INT", "CFI", "ACK"}]
  <2>1. "ACK" \notin word.flags /\ "CFI" \notin word.flags
    BY DEF IInv, Types, Words
  <2> HIDE DEF word
  <2>2. pc = "fetch" /\ CtlRises(word) /\ pc' = "check" /\ ServerKeeps
          /\ UNCHANGED <<req, linkVars, devVars>>
    BY DEF EndFetch, word
  <2>3. QED
    BY <2>1, <2>2 DEF CtlRises, ServerKeeps, hpVars, linkVars
<1>2. ctl = 0 /\ ~data_av /\ req # None /\ queued_req = None /\ hp # None
  BY <1>1 DEF IInv, Places, BetweenOperations, Types
<1>3. Types' /\ Noted'
  BY <1>1, DevicesLeft DEF IInv, Types, Locations
<1>4. Places' /\ BetweenOperations'
  BY <1>1, <1>2 DEF Places, BetweenOperations
<1>5. InTurn' /\ GivenUp'
  BY <1>1, <1>2 DEF IInv, InTurn, GivenUp, Served
<1>6. QED
  BY <1>3, <1>4, <1>5 DEF IInv

(* The request in hand goes to the devices; only a stop can be behind it.  *)
LEMMA Dispatched ==
  ASSUME IInv, Dispatch
  PROVE  /\ pc = "check" /\ req \in Requests /\ req # None /\ hp # None /\ hp \in Requests
         /\ queued_req = None
         /\ ~giving_up => req = hp /\ ~data_av
         /\ giving_up /\ data_av => ir = Stop
         /\ req' = Captured /\ Captured \in Requests \cup {None}
         /\ (~data_av <=> Captured = None)
         /\ ctl' = 0 /\ data_av' = FALSE /\ pc' = "exec"
         /\ <<ack, cfi, queued_req, file>>' = <<ack, cfi, queued_req, file>>
         /\ <<hp, ceo, moving, giving_up, taken, Attn>>'
              = <<hp, ceo, moving, giving_up, taken, Attn>>
         /\ drive' = Serve(drive, paper, req).drive
         /\ paper' = Serve(drive, paper, req).paper
         /\ last_send' = Serve(drive, paper, req).word
<1>1. pc = "check" /\ ~Attn
  BY DEF Dispatch
<1>2. req # None /\ req \in Requests /\ queued_req = None
  BY <1>1 DEF IInv, Types, Places
<1>3. hp # None /\ hp \in Requests
  BY <1>2 DEF IInv, Types, BetweenOperations, Served
<1>4. /\ ~giving_up => req = hp /\ ~data_av
      /\ giving_up /\ data_av => ir = Stop
  BY <1>2, <1>3 DEF IInv, InTurn, GivenUp
<1>5. Captured \in Requests \cup {None} /\ (~data_av <=> Captured = None)
  BY LegacyAssumption DEF IInv, Types, Captured
<1>6. /\ req' = Captured /\ ctl' = 0 /\ data_av' = FALSE /\ pc' = "exec"
      /\ <<ack, cfi, queued_req, file>>' = <<ack, cfi, queued_req, file>>
      /\ <<hp, ceo, moving, giving_up, taken, Attn>>'
           = <<hp, ceo, moving, giving_up, taken, Attn>>
      /\ drive' = Serve(drive, paper, req).drive
      /\ paper' = Serve(drive, paper, req).paper
      /\ last_send' = Serve(drive, paper, req).word
  BY DEF Dispatch, CtlFalls, ServerKeeps, hpVars
<1>7. QED
  BY <1>1, <1>2, <1>3, <1>4, <1>5, <1>6

LEMMA DispatchHolds ==
  ASSUME IInv, Dispatch
  PROVE  IInv'
<1>1. DriveOK(drive) /\ PaperOK(paper) /\ req \in Requests
  BY Dispatched DEF IInv, Types
<1>2. /\ DriveOK(drive)' /\ PaperOK(paper)' /\ last_send' \in Words
      /\ drive'.modified \/ (drive'.image = drive.image /\ ~drive.modified)
      /\ IsPosted(req) => "CFI" \notin last_send'.flags
  <2> DEFINE served == Serve(drive, paper, req)
  <2>1. /\ DriveOK(served.drive) /\ PaperOK(served.paper) /\ served.word \in Words
        /\ served.drive.modified \/ (served.drive.image = drive.image /\ ~drive.modified)
        /\ IsPosted(req) => "CFI" \notin served.word.flags
    BY <1>1, ServeOK
  <2>2. drive' = served.drive /\ paper' = served.paper /\ last_send' = served.word
    BY Dispatched
  <2> HIDE DEF served
  <2>3. QED
    BY <2>1, <2>2
<1>3. Types'
  BY <1>2, Dispatched DEF IInv, Types, Locations
<1>4. Noted'
  BY <1>2, Dispatched DEF IInv, Noted
<1>5. Places' /\ BetweenOperations'
  BY Dispatched DEF Places, BetweenOperations
<1>6. ~giving_up => ~(hp.dev # "tape" /\ ack = 1) /\ cfi # 1
                      /\ (ceo => hp.dev = "tape" /\ ~IsPosted(hp))
  BY Dispatched DEF IInv, InTurn, Served
<1>7. InTurn'
  BY <1>2, <1>6, Dispatched DEF InTurn, Served
<1>8. GivenUp'
  <2>1. cfi # 1
    BY <1>6 DEF IInv, GivenUp, Types
  <2>2. hp' = hp /\ ceo' = ceo /\ giving_up' = giving_up /\ cfi' = cfi /\ data_av' = FALSE
    BY Dispatched
  <2>3. QED
    BY <2>1, <2>2 DEF IInv, GivenUp
<1>9. QED
  BY <1>3, <1>4, <1>5, <1>7, <1>8 DEF IInv

LEMMA EndExecHolds ==
  ASSUME IInv, EndExec
  PROVE  IInv'
<1>1. /\ pc = "exec" /\ pc' = "wait" /\ UNCHANGED devVars
      /\ ctl' = 1 /\ out' = last_send /\ queued_req' = req /\ req' = None
      /\ cfi' = IF "CFI" \in last_send.flags /\ ceo THEN 1 ELSE 0
      /\ ack' \in {0, 1}
      /\ <<data_av, ir, last_send>>' = <<data_av, ir, last_send>>
      /\ <<hp, ceo, giving_up, Attn>>' = <<hp, ceo, giving_up, Attn>>
  BY DEF EndExec, CtlRises, ServerKeeps, hpVars
<1>2. ctl = 0 /\ ~data_av /\ queued_req = None /\ hp # None
  BY <1>1 DEF IInv, Places, BetweenOperations, Types
<1>3. ~giving_up => req = None
  BY <1>1, <1>2 DEF IInv, InTurn
<1>4. Types' /\ Noted'
  BY <1>1, DevicesLeft DEF IInv, Types, Locations
<1>5. Places' /\ BetweenOperations'
  BY <1>1, <1>2 DEF Places, BetweenOperations
<1>6. InTurn'
  BY <1>1, <1>2, <1>3 DEF IInv, InTurn, Served
<1>7. GivenUp'
  BY <1>1, <1>2 DEF IInv, GivenUp
<1>8. QED
  BY <1>4, <1>5, <1>6, <1>7 DEF IInv

(* The server ends; the link stays as it is.                               *)
LEMMA CloseHolds ==
  ASSUME IInv, Close \/ CloseUnsaved
  PROVE  IInv'
<1>1. /\ pc = "check" /\ Attn /\ pc' \in {"closed", "unsaved"}
      /\ drive' = drive /\ paper' = paper /\ (pc' = "unsaved" => file' = file)
      /\ <<ctl, data_av, ack, cfi, ir, out>>' = <<ctl, data_av, ack, cfi, ir, out>>
      /\ <<hp, ceo, giving_up, Attn>>' = <<hp, ceo, giving_up, Attn>>
      /\ <<req, queued_req, last_send>>' = <<req, queued_req, last_send>>
  BY DEF Close, CloseUnsaved, ServerKeeps, hpVars, pldVars, linkVars, devVars
<1>2. Types'
  BY <1>1 DEF IInv, Types, Locations
<1>3. Noted'
  BY <1>1 DEF IInv, Noted
<1>4. Places' /\ BetweenOperations'
  BY <1>1 DEF IInv, Places, BetweenOperations, Served
<1>5. InTurn' /\ GivenUp'
  BY <1>1 DEF IInv, InTurn, GivenUp, Served
<1>6. QED
  BY <1>2, <1>3, <1>4, <1>5 DEF IInv

LEMMA AttnHolds ==
  ASSUME IInv, Attn__handler
  PROVE  IInv'
BY DEF Attn__handler, pldVars, hpVars, linkVars, devVars,
       IInv, Types, Noted, Places, BetweenOperations, InTurn, GivenUp, Served

LEMMA StutterHolds ==
  ASSUME IInv, UNCHANGED vars
  PROVE  IInv'
BY DEF vars, pldVars, hpVars, linkVars, devVars,
       IInv, Types, Noted, Places, BetweenOperations, InTurn, GivenUp, Served

LEMMA NextHolds == IInv /\ [Next]_vars => IInv'
<1> SUFFICES ASSUME IInv, [Next]_vars PROVE IInv'
  OBVIOUS
<1>1. CASE HpNext
  BY <1>1, AskHolds, HpGivesUpHolds, HpFinishHolds DEF HpNext
<1>2. CASE ServerNext
  BY <1>2, TakeQueuedHolds, BeginFetchHolds, WaitInterruptedHolds, EndFetchHolds,
     DispatchHolds, EndExecHolds, CloseHolds DEF ServerNext
<1>3. CASE Attn__handler
  BY <1>3, AttnHolds
<1>4. CASE UNCHANGED vars
  BY <1>4, StutterHolds
<1>5. QED
  BY <1>1, <1>2, <1>3, <1>4 DEF Next

(* tp.c: whatever the HP asks, the head stays on the tape or one cell off  *)
(* it, so no index leaves the buffer of the image.                         *)
THEOREM HeadOnTape == Spec => []DriveOK(drive)
<1>1. IInv => DriveOK(drive)
  BY DEF IInv, Types
<1>2. QED
  BY <1>1, InitHolds, NextHolds, PTL DEF Spec

-----------------------------------------------------------------------------
(* The image file.                                                         *)

(* TP_Close (tp.c lines 229 to 238): after a clean end the file is the     *)
(* tape the HP wrote, or there was nothing on it.                          *)
THEOREM SavedAfterClose == Spec => []SavedOnExit
<1>1. Init => SavedOnExit
  BY DEF Init, SavedOnExit
<1>2. IInv /\ SavedOnExit /\ [Next]_vars => SavedOnExit'
  <2> SUFFICES ASSUME IInv, SavedOnExit, [Next]_vars, pc' = "closed"
               PROVE  SavedOnExit'
    BY DEF SavedOnExit
  <2>1. CASE Close
    <3>1. file' = (IF drive.modified THEN drive.image ELSE file) /\ drive' = drive
            /\ pc = "check"
      BY <2>1 DEF Close
    <3>2. \/ drive.modified
          \/ file = drive.image
          \/ file \in {None, <<>>} /\ Len(drive.image) = 1
      BY <3>1 DEF IInv, Noted
    <3>3. QED
      BY <3>1, <3>2 DEF SavedOnExit
  <2>2. CASE ~Close
    <3>1. pc = "closed" /\ UNCHANGED devVars
      <4>1. CASE HpNext
        BY <4>1 DEF HpNext, HpGeneral, HpFast, HpPost, HpGivesUp, HpFinish,
                    HpFinishGeneral, HpFinishFast, HpGoesOn, HpKeeps
      <4>2. ~ServerNext
        BY <2>2 DEF ServerNext, TakeQueued, BeginFetch, WaitInterrupted, EndFetch,
                    Dispatch, EndExec, CloseUnsaved
      <4>3. CASE Attn__handler \/ UNCHANGED vars
        BY <4>3 DEF Attn__handler, vars
      <4>4. QED
        BY <4>1, <4>2, <4>3 DEF Next
    <3>2. QED
      BY <3>1 DEF SavedOnExit, devVars
  <2>3. QED
    BY <2>1, <2>2
<1>3. QED
  BY <1>1, <1>2, InitHolds, NextHolds, PTL DEF Spec

-----------------------------------------------------------------------------
(* The devices, as LegacyService knows them.                               *)

LEMMA SameRequests == Service!Requests = Requests
BY DEF Service!Requests, Requests

LEMMA SameOpened ==
  ASSUME NEW f, NEW permit
  PROVE  Service!Opened(f, permit) = Opened(f, permit)
BY DEF Service!Opened, Opened, Service!Cell, Cell

LEMMA SameMove ==
  ASSUME NEW d, NEW byte
  PROVE  Service!Move(d, byte) = Move(d, byte)
<1>1. Service!NextMark(d) = NextMark(d) /\ Service!PreviousMark(d) = PreviousMark(d)
  BY DEF Service!NextMark, NextMark, Service!PreviousMark, PreviousMark,
         Service!Min, Min, Service!Max, Max, Service!Cells, Cells, Service!Sought, Sought
<1>2. ASSUME NEW i PROVE Service!Delivered(d, i) = Delivered(d, i)
  BY DEF Service!Delivered, Delivered, Service!Word, Word
<1>3. Service!Forward(d) = Forward(d) /\ Service!Reverse(d) = Reverse(d)
  BY <1>1, <1>2 DEF Service!Forward, Forward, Service!Reverse, Reverse,
                    Service!Result, Result, Service!OffTheEnd, OffTheEnd, Service!Word, Word
<1>4. Service!Write(d, byte) = Write(d, byte)
  BY DEF Service!Write, Write, Service!WriteAt, WriteAt, Service!Result, Result,
         Service!Word, Word
<1>5. QED
  BY <1>3, <1>4 DEF Service!Move, Move, Service!Result, Result, Service!Word, Word,
                    Service!Rewinds, Rewinds

LEMMA SameServe ==
  ASSUME NEW d, NEW p, NEW r
  PROVE  Service!Serve(d, p, r) = Serve(d, p, r)
<1>1. Service!Latch(d, r) = Latch(d, r)
  BY DEF Service!Latch, Latch
<1>2. Service!TapeOp(d, r) = TapeOp(d, r)
  BY <1>1, SameMove DEF Service!TapeOp, TapeOp, Service!Result, Result, Service!Word, Word,
     Service!Status, Status, Service!Posted, Posted, Service!Rewinds, Rewinds,
     Service!OnLeader, OnLeader
<1>3. Service!PaperRead(p) = PaperRead(p)
  BY DEF Service!PaperRead, PaperRead, Service!Word, Word
<1>4. QED
  BY <1>2, <1>3 DEF Service!Serve, Serve, Service!Word, Word

-----------------------------------------------------------------------------
(* The link, as LegacyService sees it.                                     *)

LateNow   == IF InHand \subseteq {hp} THEN None ELSE CHOOSE r \in InHand : r # hp
AnswerNow == IF hp = None \/ hp \in InHand \/ giving_up THEN None ELSE last_send

(* What is in hand is the operation; when the HP gives up, the one it gave *)
(* up and the stop.                                                        *)
LEMMA WhatIsInHand ==
  ASSUME IInv
  PROVE  /\ InHand = {Captured, req, queued_req} \ {None}
         /\ InHand = {} <=> Served
         /\ ~giving_up => InHand \subseteq {hp} /\ LateNow = None
         /\ last_send # None
<1>1. InHand = {Captured, req, queued_req} \ {None}
  BY DEF InHand, Captured
<1>2. Captured = None <=> ~data_av
  BY LegacyAssumption DEF IInv, Types, Captured
<1>3. InHand = {} <=> Served
  BY <1>1, <1>2 DEF Served
<1>4. ASSUME ~giving_up PROVE InHand \subseteq {hp}
  <2>1. CASE hp = None
    BY <1>3, <2>1 DEF IInv, BetweenOperations
  <2>2. CASE hp # None
    BY <1>1, <1>4, <2>2 DEF IInv, InTurn, Captured
  <2>3. QED
    BY <2>1, <2>2
<1>5. last_send # None
  BY LegacyAssumption DEF IInv, Types
<1>6. QED
  BY <1>1, <1>3, <1>4, <1>5 DEF LateNow

(* A step that moves a request along, and no more, is none of the service. *)
LEMMA MovesAlong ==
  ASSUME InHand' = InHand, last_send' = last_send, drive' = drive, paper' = paper,
         hp' = hp, giving_up' = giving_up, taken' = taken
  PROVE  UNCHANGED Service!vars
BY DEF Service!vars

LEMMA AskIsAsk ==
  ASSUME IInv, IInv', NEW r \in Asks, HpGeneral(r) \/ HpFast(r) \/ HpPost(r)
  PROVE  Service!Ask
<1>1. r \in Requests /\ hp = None /\ hp' = r /\ taken' = None /\ CeoRises(r) /\ HpKeeps
        /\ giving_up' = giving_up
  BY LegacyAssumption DEF HpGeneral, HpFast, HpPost
<1>2. data_av' = TRUE /\ ir' = r /\ req' = None /\ queued_req' = None /\ r # None
  BY <1>1, WordTaken
<1>3. ~giving_up /\ Served
  BY <1>1 DEF IInv, BetweenOperations
<1>4. InHand' = {r}
  BY <1>2 DEF InHand
<1>5. AnswerNow = None /\ AnswerNow' = None /\ LateNow = None /\ LateNow' = None
  BY <1>1, <1>3, <1>4, WhatIsInHand DEF AnswerNow, LateNow
<1>6. drive' = drive /\ paper' = paper
  BY <1>1 DEF HpKeeps, devVars
<1>7. QED
  BY <1>1, <1>5, <1>6, SameRequests DEF Service!Ask, AnswerNow, LateNow

LEMMA GivingUpIsGiveUp ==
  ASSUME IInv, HpGivesUp
  PROVE  Service!GiveUp
<1>1. /\ ceo /\ hp' = Stop /\ giving_up' = TRUE /\ taken' = taken
      /\ CeoRises(Stop) /\ HpKeeps
  BY DEF HpGivesUp
<1>2. hp # None /\ ~giving_up
  BY <1>1 DEF IInv, BetweenOperations, GivenUp
<1>3. hp.dev = "tape" /\ hp # Stop
  BY <1>1, <1>2, StopIsRequest DEF IInv, InTurn
<1>4. req' = req /\ queued_req' = queued_req /\ drive' = drive /\ paper' = paper
  BY <1>1 DEF HpKeeps, linkVars, devVars
<1>5. data_av => data_av' /\ ir' = ir
  BY <1>1 DEF CeoRises
<1>6. ~data_av => ~data_av' \/ ir' = Stop
  BY <1>1 DEF CeoRises
<1>7. InHand \subseteq InHand' /\ InHand' \subseteq InHand \cup {Stop}
  BY <1>4, <1>5, <1>6 DEF InHand
<1>8. AnswerNow' = None
  BY <1>1 DEF AnswerNow
<1>9. LateNow = None /\ InHand \subseteq {hp} /\ last_send # None
  BY <1>2, WhatIsInHand
<1>10. LateNow' = IF AnswerNow = None THEN hp ELSE None
  <2>1. CASE hp \in InHand
    <3>1. InHand' \ {Stop} = {hp}
      BY <1>3, <1>7, <1>9, <2>1
    <3>2. LateNow' = CHOOSE r \in InHand' : r # Stop
      BY <1>1, <1>3, <3>1 DEF LateNow
    <3>3. (CHOOSE r \in InHand' : r # Stop) = hp
      BY <3>1
    <3>4. QED
      BY <2>1, <3>2, <3>3 DEF AnswerNow
  <2>2. CASE hp \notin InHand
    BY <1>1, <1>2, <1>7, <1>9, <2>2 DEF LateNow, AnswerNow
  <2>3. QED
    BY <2>1, <2>2
<1>11. QED
  BY <1>1, <1>2, <1>3, <1>4, <1>8, <1>9, <1>10 DEF Service!GiveUp, LateNow, AnswerNow, Stop

LEMMA FinishIsFinish ==
  ASSUME IInv, IInv', HpFinish
  PROVE  Service!Finish
<1>1. /\ hp # None /\ hp' = None /\ ~giving_up' /\ giving_up' \in BOOLEAN
      /\ Served /\ HpKeeps /\ data_av' = data_av /\ ir' = ir
      /\ (HpGoesOn \/ (~giving_up /\ out = last_send /\ taken' = last_send
                         /\ (hp.dev = "tape" => "CFI" \in last_send.flags)))
  BY EndOfOperation
<1>2. req' = req /\ queued_req' = queued_req /\ drive' = drive /\ paper' = paper
  BY <1>1 DEF HpKeeps, linkVars, devVars
<1>3. InHand = {} /\ InHand' = {} /\ last_send # None
  BY <1>1, <1>2, WhatIsInHand DEF InHand
<1>4. LateNow = None /\ LateNow' = None /\ AnswerNow' = None
  BY <1>1, <1>3 DEF LateNow, AnswerNow
<1>5. AnswerNow = IF giving_up THEN None ELSE last_send
  BY <1>1, <1>3 DEF AnswerNow
<1>6. taken' = IF giving_up \/ (hp.dev = "tape" /\ "CFI" \notin AnswerNow.flags)
                 THEN taken ELSE AnswerNow
  <2>1. CASE HpGoesOn
    <3>1. taken' = taken /\ IsPosted(hp)
      BY <2>1 DEF HpGoesOn
    <3>2. hp.dev = "tape"
      BY <3>1 DEF IsPosted
    <3>3. ~giving_up => "CFI" \notin last_send.flags
      BY <1>1, <3>1 DEF IInv, InTurn
    <3>4. QED
      BY <1>5, <3>1, <3>2, <3>3
  <2>2. CASE ~HpGoesOn
    BY <1>1, <1>5, <2>2
  <2>3. QED
    BY <2>1, <2>2
<1>7. giving_up' = FALSE /\ (AnswerNow # None \/ giving_up)
  BY <1>1, <1>3, <1>5
<1>8. QED
  BY <1>1, <1>2, <1>4, <1>6, <1>7 DEF Service!Finish, LateNow, AnswerNow

LEMMA DispatchPerforms ==
  ASSUME IInv, Dispatch
  PROVE  Service!Perform \/ Service!PerformLate \/ Service!PerformStop
<1>1. /\ req # None /\ hp # None /\ queued_req' = None /\ queued_req = None
      /\ req' = Captured /\ data_av' = FALSE
      /\ hp' = hp /\ giving_up' = giving_up /\ taken' = taken
  BY Dispatched
<1>2. /\ drive' = Service!Serve(drive, paper, req).drive
      /\ paper' = Service!Serve(drive, paper, req).paper
      /\ last_send' = Service!Serve(drive, paper, req).word
  BY Dispatched, SameServe
<1>3. InHand = {Captured, req} \ {None}
  BY <1>1 DEF InHand, Captured
<1>4. InHand' = {Captured} \ {None}
  BY <1>1 DEF InHand
<1>5. CASE ~giving_up
  <2>1. req = hp /\ Captured = None
    BY <1>5, Dispatched
  <2>2. hp \in InHand /\ InHand' = {} /\ LateNow = None
    BY <1>1, <1>3, <1>4, <1>5, <2>1, WhatIsInHand
  <2>3. AnswerNow = None /\ AnswerNow' = last_send' /\ LateNow' = None
    BY <1>1, <1>5, <2>2 DEF AnswerNow, LateNow
  <2>4. Service!Perform
    BY <1>1, <1>2, <1>5, <2>1, <2>2, <2>3
       DEF Service!Perform, Service!On, AnswerNow, LateNow
  <2>5. QED
    BY <2>4
<1>6. CASE giving_up
  <2>1. hp = Stop
    BY <1>6 DEF IInv, GivenUp
  <2>2. Captured \in {None, Stop}
    BY <1>6, Dispatched DEF Captured
  <2>3. AnswerNow = None /\ AnswerNow' = None /\ LateNow' = None
    BY <1>1, <1>4, <1>6, <2>1, <2>2 DEF AnswerNow, LateNow
  <2>4. CASE req # Stop
    <3>1. InHand \ {hp} = {req}
      BY <1>1, <1>3, <2>1, <2>2, <2>4
    <3>2. LateNow = CHOOSE r \in InHand : r # hp
      BY <3>1 DEF LateNow
    <3>3. (CHOOSE r \in InHand : r # hp) = req
      BY <3>1
    <3>4. LateNow = req
      BY <3>2, <3>3
    <3>5. Service!PerformLate
      BY <1>1, <1>2, <2>3, <3>4 DEF Service!PerformLate, Service!On, AnswerNow, LateNow
    <3>6. QED
      BY <3>5
  <2>5. CASE req = Stop
    <3>1. LateNow = None
      BY <1>3, <2>1, <2>2, <2>5 DEF LateNow
    <3>2. Service!PerformStop
      BY <1>1, <1>2, <1>6, <2>1, <2>3, <2>5, <3>1
         DEF Service!PerformStop, Service!On, AnswerNow, LateNow
    <3>3. QED
      BY <3>2
  <2>6. QED
    BY <2>4, <2>5
<1>7. QED
  BY <1>5, <1>6

LEMMA OtherServerSteps ==
  ASSUME IInv,
         TakeQueued \/ BeginFetch \/ WaitInterrupted \/ EndFetch \/ EndExec
           \/ Close \/ CloseUnsaved
  PROVE  UNCHANGED Service!vars
<1>1. /\ <<hp, giving_up, taken>>' = <<hp, giving_up, taken>>
      /\ last_send' = last_send /\ drive' = drive /\ paper' = paper
  BY DEF TakeQueued, BeginFetch, WaitInterrupted, EndFetch, EndExec, Close, CloseUnsaved,
         ServerKeeps, hpVars, linkVars, devVars
<1>2. CASE TakeQueued
  <2>1. pc = "wait" /\ req' = queued_req /\ queued_req' = None
          /\ data_av' = data_av /\ ir' = ir
    BY <1>2 DEF TakeQueued, pldVars
  <2>2. req = None
    BY <2>1 DEF IInv, Places
  <2>3. QED
    BY <2>1, <2>2, <1>1, MovesAlong DEF InHand
<1>3. CASE BeginFetch
  <2>1. pc = "wait" /\ data_av /\ req' = ir /\ data_av' = FALSE /\ queued_req' = queued_req
    BY <1>3 DEF BeginFetch, CtlFalls, Captured, linkVars
  <2>2. req = None
    BY <2>1 DEF IInv, Places
  <2>3. QED
    BY <2>1, <2>2, <1>1, MovesAlong DEF InHand
<1>4. CASE WaitInterrupted \/ EndFetch \/ Close \/ CloseUnsaved
  <2>1. <<data_av, ir, req, queued_req>>' = <<data_av, ir, req, queued_req>>
    BY <1>4 DEF WaitInterrupted, EndFetch, Close, CloseUnsaved, CtlRises, pldVars, linkVars
  <2>2. QED
    BY <2>1, <1>1, MovesAlong DEF InHand
<1>5. CASE EndExec
  <2>1. pc = "exec" /\ req' = None /\ queued_req' = req
          /\ data_av' = data_av /\ ir' = ir
    BY <1>5 DEF EndExec, CtlRises
  <2>2. queued_req = None
    BY <2>1 DEF IInv, Places
  <2>3. QED
    BY <2>1, <2>2, <1>1, MovesAlong DEF InHand
<1>6. QED
  BY <1>2, <1>3, <1>4, <1>5

LEMMA StepIsService == IInv /\ IInv' /\ [Next]_vars => [Service!Next]_(Service!vars)
<1> SUFFICES ASSUME IInv, IInv', [Next]_vars PROVE [Service!Next]_(Service!vars)
  OBVIOUS
<1>1. CASE HpNext
  BY <1>1, AskIsAsk, GivingUpIsGiveUp, FinishIsFinish DEF HpNext, Service!Next
<1>2. CASE ServerNext
  BY <1>2, DispatchPerforms, OtherServerSteps DEF ServerNext, Service!Next
<1>3. CASE Attn__handler \/ UNCHANGED vars
  <2>1. /\ <<hp, giving_up, taken>>' = <<hp, giving_up, taken>>
        /\ last_send' = last_send /\ drive' = drive /\ paper' = paper
        /\ <<data_av, ir, req, queued_req>>' = <<data_av, ir, req, queued_req>>
    BY <1>3 DEF Attn__handler, vars, hpVars, pldVars, linkVars, devVars
  <2>2. QED
    BY <2>1, MovesAlong DEF InHand
<1>4. QED
  BY <1>1, <1>2, <1>3 DEF Next

LEMMA InitIsService == Init => Service!Init
<1> SUFFICES ASSUME Init PROVE Service!Init
  OBVIOUS
<1>1. IInv
  BY InitHolds
<1>2. hp = None /\ taken = None /\ giving_up = FALSE
  BY DEF Init
<1>3. LateNow = None /\ AnswerNow = None
  BY <1>1, <1>2, WhatIsInHand DEF AnswerNow
<1>4. \E c \in Cassettes : drive \in Service!Opened(c.file, c.permit)
  BY SameOpened DEF Init
<1>5. paper \in Seq(Bytes) \cup {None}
  BY <1>1 DEF IInv, Types, PaperOK
<1>6. QED
  BY <1>2, <1>3, <1>4, <1>5 DEF Service!Init, LateNow, AnswerNow

(* mpsi.c and main.c: every operation of the HP is performed once and in   *)
(* its turn, and ends with the word made for it, whatever it asks and      *)
(* whenever it gives up.                                                   *)
THEOREM LinkServes == Spec => IsService
<1>1. Init => Service!Init
  BY InitIsService
<1>2. IInv /\ IInv' /\ [Next]_vars => [Service!Next]_(Service!vars)
  BY StepIsService
<1>3. QED
  BY <1>1, <1>2, InitHolds, NextHolds, PTL DEF Spec, IsService, Service!Spec

-----------------------------------------------------------------------------
(* Both generations.                                                       *)

(* The cell a scan comes to is the nearest one sought.                     *)
LEMMA NextMarkIsNearest ==
  ASSUME NEW d, DriveOK(d)
  PROVE  /\ NextMark(d) # Len(d.image)
              => NextMark(d) \in Cells(d) /\ NextMark(d) >= d.idx /\ Sought(d, NextMark(d))
         /\ \A q \in Cells(d) : q >= d.idx /\ Sought(d, q) => NextMark(d) <= q
<1> DEFINE S == {i \in Cells(d) : i >= d.idx /\ Sought(d, i)} \cup {Len(d.image)}
<1>1. S \in SUBSET (0 .. Len(d.image)) /\ S # {}
  BY DEF DriveOK, Drives, Cells
<1>2. Min(S) \in S /\ \A y \in S : Min(S) <= y
  <2> HIDE DEF S
  <2>1. 0 .. Len(d.image) \subseteq Nat
    OBVIOUS
  <2>2. S \in SUBSET Nat
    BY <1>1, <2>1
  <2>3. QED
    BY <1>1, <2>2, LeastExists
<1>3. NextMark(d) = Min(S)
  BY DEF NextMark
<1>4. QED
  BY <1>2, <1>3

LEMMA PreviousMarkIsNearest ==
  ASSUME NEW d, DriveOK(d)
  PROVE  /\ PreviousMark(d) >= 0
              => PreviousMark(d) \in Cells(d) /\ PreviousMark(d) <= d.idx
                   /\ Sought(d, PreviousMark(d))
         /\ \A q \in Cells(d) : q <= d.idx /\ Sought(d, q) => PreviousMark(d) >= q
<1> DEFINE S == {i \in Cells(d) : i <= d.idx /\ Sought(d, i)} \cup {-1}
<1>1. S \in SUBSET (-1 .. Len(d.image) - 1) /\ S # {} /\ Len(d.image) \in Nat
  BY DEF DriveOK, Drives, Cells
<1>2. \A x \in S : x \in Int /\ x <= Len(d.image) - 1
  BY <1>1
<1>3. Max(S) \in S /\ \A y \in S : Max(S) >= y
  <2> HIDE DEF S
  <2>1. S \in SUBSET Int /\ Len(d.image) - 1 \in Int
    BY <1>1, <1>2
  <2>2. QED
    BY <1>1, <1>2, <2>1, GreatestExists
<1>4. PreviousMark(d) = Max(S)
  BY DEF PreviousMark
<1>5. QED
  BY <1>3, <1>4

LEMMA FlagNames ==
  /\ InRev2["ACK"] = "ACK" /\ InRev2["CFI"] = "CFI" /\ InRev2["INT"] = "SSI"
  /\ InRev2["nCIN"] = "NO_CASSETTE" /\ InRev2["LDR"] = "LEADER"
  /\ InRev2["nWPT"] = "WRITE_PROTECTED"
BY SMT DEF InRev2

Named(flags) == {InRev2[f] : f \in flags}

(* A tape request both generations know, as it is served.                  *)
Common(d, result) ==
  /\ DriveOK(d) /\ DriveOK(drive)
  /\ d.idx = drive.idx /\ d.image = drive.image /\ d.permit = drive.permit
  /\ d.mounted = drive.mounted /\ d.mounted
  /\ Latched = d /\ Latched' = drive' /\ drive' = result.drive
  /\ pc = "check" /\ pc' = "exec"
  /\ last_send' = Word(result.word.flags \cup {"ACK"} \cup Status(drive)
                         \cup (IF Posted(d) /\ OnLeader(result.drive) THEN {"LDR"} ELSE {}),
                       result.word.byte)

LEMMA CommonGroundIsCommon ==
  ASSUME IInv, Dispatch, CommonGround
  PROVE  Common(Latched, Move(Latched, req.byte))
<1> DEFINE d == Latch(drive, req)
<1>1. pc = "check" /\ pc' = "exec" /\ req \in Requests /\ req.dev = "tape" /\ drive.mounted
        /\ drive' = Serve(drive, paper, req).drive
        /\ last_send' = Serve(drive, paper, req).word
  BY Dispatched DEF CommonGround
<1>2. Latched = d /\ Latched' = drive'
  BY <1>1 DEF Latched
<1>3. DriveOK(drive) /\ DriveOK(d) /\ d.image = drive.image
  BY <1>1, LatchOK DEF IInv, Types
<1>4. d.idx = drive.idx /\ d.permit = drive.permit /\ d.mounted = drive.mounted
  BY <1>3 DEF Latch, DriveOK, Drives
<1> HIDE DEF d
<1>5. Serve(drive, paper, req)
        = [drive |-> Move(d, req.byte).drive, paper |-> paper,
           word |-> Word(Move(d, req.byte).word.flags \cup {"ACK"} \cup Status(drive)
                           \cup (IF Posted(d) /\ OnLeader(Move(d, req.byte).drive)
                                   THEN {"LDR"} ELSE {}),
                         Move(d, req.byte).word.byte)]
  BY <1>1 DEF Serve, TapeOp, Result, d
<1>6. QED
  BY <1>1, <1>2, <1>3, <1>4, <1>5 DEF Common

LEMMA AnswerAgrees ==
  ASSUME NEW data, NEW d, NEW result, Common(d, result),
         NEW flags \in SUBSET {"CFI", "INT", "LDR"}, NEW value,
         result.word.flags \cup (IF Posted(d) /\ OnLeader(result.drive) THEN {"LDR"} ELSE {})
           = flags,
         result.word.byte = value
  PROVE  Rev2(data)!Answer(Named(flags), value)
<1> DEFINE all == result.word.flags \cup {"ACK"} \cup Status(drive)
                    \cup (IF Posted(d) /\ OnLeader(result.drive) THEN {"LDR"} ELSE {})
<1>1. all = flags \cup {"ACK"} \cup Status(drive)
  OBVIOUS
<1>2. last_send'.flags = all /\ last_send'.byte = value
  BY DEF Common, Word
<1> HIDE DEF all
<1>3. Named(Status(drive)) = (IF drive.mounted THEN {} ELSE {"NO_CASSETTE"})
                               \cup (IF drive.permit THEN {} ELSE {"WRITE_PROTECTED"})
  BY FlagNames DEF Named, Status
<1>4. Named(all) = Named(flags) \cup {"ACK"} \cup Named(Status(drive))
  BY <1>1, FlagNames DEF Named
<1>5. {InRev2[f] : f \in last_send'.flags}
        = Named(flags) \cup {"ACK"}
            \cup (IF drive.mounted THEN {} ELSE {"NO_CASSETTE"})
            \cup (IF drive.permit THEN {} ELSE {"WRITE_PROTECTED"})
  BY <1>2, <1>3, <1>4 DEF Named
<1>6. (pc = "check") /\ (pc' = "check") = FALSE
  BY DEF Common
<1>7. QED
  BY <1>2, <1>5, <1>6 DEF Rev2!Answer

(* A drive that stays as it is, but for the head.                          *)
LEMMA OnlyHeadMoves ==
  ASSUME NEW data, NEW d, NEW result, Common(d, result),
         result.drive = [d EXCEPT !.idx = result.drive.idx]
  PROVE  /\ UNCHANGED Rev2(data)!cassette
         /\ Latched'.cmd = Latched.cmd /\ Latched'.cmode = Latched.cmode
<1> DEFINE e == result.drive
<1>1. e.image = d.image /\ e.mounted = d.mounted /\ e.permit = d.permit
        /\ e.cmd = d.cmd /\ e.cmode = d.cmode
  BY DEF Common, DriveOK, Drives
<1> HIDE DEF e
<1>2. drive' = e /\ Latched' = e /\ Latched = d
  BY DEF Common, e
<1>3. drive'.image = drive.image /\ drive'.mounted = drive.mounted
        /\ drive'.permit = drive.permit
  BY <1>1, <1>2 DEF Common
<1>4. QED
  BY <1>1, <1>2, <1>3 DEF Rev2!cassette, Cells

LEMMA StopAgrees ==
  ASSUME NEW data, NEW d, NEW result, Common(d, result), d.cmd = 5,
         result = Result(d, Word({}, 0))
  PROVE  Rev2(data)!Stop
<1>1. result.drive = d /\ result.word.flags = {} /\ result.word.byte = 0
  BY DEF Result, Word
<1>2. d = [d EXCEPT !.idx = d.idx]
  BY DEF Common, DriveOK, Drives
<1>3. UNCHANGED Rev2(data)!cassette /\ Latched'.cmd = Latched.cmd
  BY <1>1, <1>2, OnlyHeadMoves
<1>4. Latched'.cmode = FALSE /\ Latched.cmd = 5 /\ drive'.idx = drive.idx
  BY <1>1 DEF Common, DriveOK
<1>5. CASE OnLeader(d)
  <2>1. Rev2(data)!Answer(Named({"LDR"}), 0)
    BY <1>1, <1>5, AnswerAgrees DEF Posted
  <2>2. Named({"LDR"}) = {"LEADER"}
    BY FlagNames DEF Named
  <2>3. Rev2(data)!OffTape(drive.idx)
    BY <1>5 DEF Common, OnLeader, Rev2!OffTape
  <2>4. QED
    BY <1>3, <1>4, <2>1, <2>2, <2>3 DEF Rev2!Stop
<1>6. CASE ~OnLeader(d)
  <2>1. Rev2(data)!Answer(Named({}), 0)
    BY <1>1, <1>6, AnswerAgrees
  <2>2. Named({}) = {}
    BY DEF Named
  <2>3. ~Rev2(data)!OffTape(drive.idx)
    BY <1>6 DEF Common, OnLeader, Rev2!OffTape
  <2>4. QED
    BY <1>3, <1>4, <2>1, <2>2, <2>3 DEF Rev2!Stop
<1>7. QED
  BY <1>5, <1>6

LEMMA RewindAgrees ==
  ASSUME NEW data, NEW d, NEW result, Common(d, result), Rewinds(d),
         result = Result([d EXCEPT !.idx = -1], Word({}, 0))
  PROVE  Rev2(data)!Rewind
<1>1. result.drive = [d EXCEPT !.idx = -1] /\ result.word.flags = {} /\ result.word.byte = 0
  BY DEF Result, Word
<1>2. result.drive.idx = -1
  BY <1>1 DEF Common, DriveOK, Drives
<1>3. UNCHANGED Rev2(data)!cassette
        /\ Latched'.cmd = Latched.cmd /\ Latched'.cmode = Latched.cmode
  BY <1>1, <1>2, OnlyHeadMoves
<1>4. Posted(d) /\ OnLeader(result.drive)
  BY <1>2 DEF Posted, OnLeader
<1>5. Rev2(data)!Answer(Named({"LDR"}), 0)
  BY <1>1, <1>4, AnswerAgrees
<1>6. Named({"LDR"}) = {"LEADER"}
  BY FlagNames DEF Named
<1>7. drive'.idx = -1 /\ Latched = d
  BY <1>2 DEF Common
<1>8. QED
  BY <1>3, <1>5, <1>6, <1>7 DEF Rev2!Rewind, Rev2!Rewinds, Rewinds

LEMMA WriteAgrees ==
  ASSUME NEW data, NEW d, NEW result, Common(d, result), d.cmd = 4,
         WriteAt(drive) < Len(drive.image), result = Write(d, data)
  PROVE  Rev2(data)!Write \/ Rev2(data)!WriteRefused
<1> DEFINE at   == WriteAt(d)
           cell == [control |-> d.cmode, byte |-> data]
<1>1. at = WriteAt(drive) /\ at \in 0 .. Len(d.image) - 1 /\ d.image \in Seq(Cell)
        /\ Len(d.image) \in Nat /\ Latched = d
  BY DEF Common, DriveOK, Drives, WriteAt
<1>2. ~Posted(d)
  BY DEF Posted, Rewinds
<1>3. CASE ~d.permit
  <2>1. result.drive = d /\ result.word.flags = {"CFI", "INT"} /\ result.word.byte = 0
    BY <1>3 DEF Write, Result, Word
  <2>2. d = [d EXCEPT !.idx = d.idx]
    BY DEF Common, DriveOK, Drives
  <2>3. UNCHANGED Rev2(data)!cassette
          /\ Latched'.cmd = Latched.cmd /\ Latched'.cmode = Latched.cmode
    BY <2>1, <2>2, OnlyHeadMoves
  <2>4. Rev2(data)!Answer(Named({"CFI", "INT"}), 0)
    BY <1>2, <2>1, AnswerAgrees
  <2>5. Named({"CFI", "INT"}) = {"CFI", "SSI"} \cup {}
    BY FlagNames DEF Named
  <2>6. ~(Rev2(data)!WriteAt >= Len(drive.image))
    BY <1>1 DEF Rev2!WriteAt, WriteAt, Common
  <2>7. ~drive.permit /\ drive.mounted /\ drive'.idx = drive.idx
    BY <1>3, <2>1 DEF Common
  <2>8. Rev2(data)!WriteRefused
    BY <1>1, <2>3, <2>4, <2>5, <2>6, <2>7 DEF Rev2!WriteRefused
  <2>9. QED
    BY <2>8
<1>4. CASE d.permit
  <2> DEFINE image == [d.image EXCEPT ![at + 1] = cell]
             e == [d EXCEPT !.idx = at + 1, !.modified = TRUE, !.image = image]
  <2>1. result = Result(e, Word({"CFI"}, data))
    <3> DEFINE longer == IF at = Len(d.image) THEN Append(d.image, cell) ELSE image
    <3>1. longer = image
      BY <1>1
    <3>2. Write(d, data) =
            Result([d EXCEPT !.idx = at + 1, !.modified = TRUE, !.image = longer],
                   Word({"CFI"}, data))
      BY <1>4 DEF Write, Common, DriveOK, Drives
    <3>3. QED
      BY <3>1, <3>2, Zenon
  <2>2. /\ e.idx = at + 1 /\ e.image = image /\ e.mounted = d.mounted
        /\ e.permit = d.permit /\ e.cmd = d.cmd /\ e.cmode = d.cmode
    BY DEF Common, DriveOK, Drives
  <2> HIDE DEF e
  <2>3. result.drive = e /\ result.word.flags = {"CFI"} /\ result.word.byte = data
    BY <2>1 DEF Result, Word
  <2>4. Rev2(data)!Answer(Named({"CFI"}), data)
    BY <1>2, <2>3, AnswerAgrees
  <2>5. Named({"CFI"}) = {"CFI"}
    BY FlagNames DEF Named
  <2>6. drive' = e /\ Latched' = e
    BY <2>3 DEF Common
  <2>7. Len(image) = Len(d.image) /\ Len(drive'.image) = Len(drive.image)
    BY <1>1, <2>2, <2>6 DEF Common
  <2>8. Rev2(data)!WriteAt = at
    BY <1>1 DEF Rev2!WriteAt, WriteAt, Common
  <2>9. [p \in Cells(drive) |-> drive.image[p + 1]]'
          = [[p \in Cells(drive) |-> drive.image[p + 1]] EXCEPT ![at] = cell]
    <3>1. Cells(drive)' = Cells(drive) /\ Cells(drive) = 0 .. Len(d.image) - 1
      BY <2>7 DEF Cells, Common
    <3>2. \A p \in Cells(drive) :
            drive'.image[p + 1] = IF p = at THEN cell ELSE drive.image[p + 1]
      <4>1. drive'.image = image /\ drive.image = d.image
        BY <2>2, <2>6 DEF Common
      <4>2. \A p \in 0 .. Len(d.image) - 1 :
              image[p + 1] = IF p = at THEN cell ELSE d.image[p + 1]
        BY <1>1
      <4> HIDE DEF image
      <4>3. QED
        BY <3>1, <4>1, <4>2
    <3> HIDE DEF cell
    <3>3. QED
      BY <1>1, <3>1, <3>2
  <2>10. Rev2(data)!Put
    BY <1>1, <2>8, <2>9 DEF Rev2!Put
  <2>11. /\ drive.permit /\ drive.mounted /\ drive'.permit = drive.permit
         /\ drive'.mounted = drive.mounted /\ drive'.idx = at + 1
         /\ Latched'.cmd = Latched.cmd /\ Latched'.cmode = Latched.cmode
    BY <1>1, <1>4, <2>2, <2>6 DEF Common
  <2>12. Rev2(data)!Write
    BY <1>1, <2>4, <2>5, <2>7, <2>8, <2>10, <2>11 DEF Rev2!Write
  <2>13. QED
    BY <2>12
<1>5. QED
  BY <1>3, <1>4

LEMMA ForwardAgrees ==
  ASSUME NEW data, NEW d, NEW result, Common(d, result), d.cmd < 2, result = Forward(d)
  PROVE  Rev2(data)!ReadForward \/ Rev2(data)!ReadOff
<1> DEFINE i == NextMark(d)
<1>1. /\ i \in 0 .. Len(d.image)
      /\ i # Len(d.image) => i \in Cells(d) /\ i >= d.idx /\ Sought(d, i)
      /\ \A q \in Cells(d) : q >= d.idx /\ Sought(d, q) => i <= q
  BY NextMarkOnTape, NextMarkIsNearest DEF Common
<1>2. /\ Latched = d /\ drive.image = d.image /\ drive.idx = d.idx
      /\ drive.mounted /\ Cells(d) = Cells(drive) /\ Len(d.image) \in Nat
  BY DEF Common, Cells, DriveOK, Drives
<1>3. \A p \in 0 .. Len(drive.image) - 1 :
        [q \in Cells(drive) |-> drive.image[q + 1]][p] = drive.image[p + 1]
  BY DEF Cells
<1>4. \A p \in 0 .. Len(drive.image) - 1 : Rev2(data)!Sought(p) <=> Sought(d, p)
  BY <1>2, <1>3 DEF Rev2!Sought, Sought
<1>5. ~Posted(d) /\ d.cmd \in {0, 1} /\ Rev2(data)!Reads
  BY <1>2 DEF Common, DriveOK, Drives, Posted, Rewinds, Rev2!Reads
<1> HIDE DEF i
<1>6. CASE i = Len(d.image)
  <2>1. result = Result([d EXCEPT !.idx = i], OffTheEnd)
    BY <1>6 DEF Forward, i
  <2>2. /\ result.drive = [d EXCEPT !.idx = i]
        /\ result.word.flags = {"CFI", "INT", "LDR"} /\ result.word.byte = 0
    BY <2>1 DEF Result, OffTheEnd, Word
  <2>3. result.drive.idx = i
    BY <2>2 DEF Common, DriveOK, Drives
  <2>4. UNCHANGED Rev2(data)!cassette
          /\ Latched'.cmd = Latched.cmd /\ Latched'.cmode = Latched.cmode
    BY <2>2, <2>3, OnlyHeadMoves
  <2>5. Rev2(data)!Answer(Named({"CFI", "INT", "LDR"}), 0)
    <3> DEFINE sent == {"CFI", "INT", "LDR"}
    <3>1. sent \in SUBSET {"CFI", "INT", "LDR"}
      OBVIOUS
    <3>2. result.word.flags
            \cup (IF Posted(d) /\ OnLeader(result.drive) THEN {"LDR"} ELSE {}) = sent
      BY <1>5, <2>2
    <3> HIDE DEF sent
    <3>3. Rev2(data)!Answer(Named(sent), 0)
      BY <2>2, <3>1, <3>2, AnswerAgrees
    <3>4. QED
      BY <3>3 DEF sent
  <2>6. Named({"CFI", "INT", "LDR"}) = {"CFI", "SSI", "LEADER"}
    BY FlagNames DEF Named
  <2>7. drive'.idx = Len(drive.image)
    BY <1>2, <1>6, <2>3 DEF Common
  <2>8. \A q \in 0 .. Len(drive.image) - 1 : q >= drive.idx => ~Rev2(data)!Sought(q)
    BY <1>1, <1>2, <1>4, <1>6 DEF Cells
  <2>9. Rev2(data)!ReadOff
    BY <1>2, <1>5, <2>4, <2>5, <2>6, <2>7, <2>8 DEF Rev2!ReadOff
  <2>10. QED
    BY <2>9
<1>7. CASE i # Len(d.image)
  <2> DEFINE marks == d.cmode /\ d.image[i + 1].byte = BOF
  <2>1. result = Result([d EXCEPT !.idx = i + 1], Delivered(d, i))
    BY <1>7 DEF Forward, i
  <2>2. /\ result.drive = [d EXCEPT !.idx = i + 1]
        /\ result.word.flags = {"CFI"} \cup (IF marks THEN {"INT"} ELSE {})
        /\ result.word.byte = d.image[i + 1].byte
    BY <2>1 DEF Result, Delivered, Word
  <2>3. result.drive.idx = i + 1
    BY <2>2 DEF Common, DriveOK, Drives
  <2>4. UNCHANGED Rev2(data)!cassette
          /\ Latched'.cmd = Latched.cmd /\ Latched'.cmode = Latched.cmode
    BY <2>2, <2>3, OnlyHeadMoves
  <2> DEFINE sent == {"CFI"} \cup (IF marks THEN {"INT"} ELSE {})
             seen == {"CFI"} \cup (IF marks THEN {"SSI"} ELSE {})
  <2>5. Rev2(data)!Answer(Named(sent), d.image[i + 1].byte)
    <3>1. sent \in SUBSET {"CFI", "INT", "LDR"}
      OBVIOUS
    <3>2. result.word.flags
            \cup (IF Posted(d) /\ OnLeader(result.drive) THEN {"LDR"} ELSE {}) = sent
      BY <1>5, <2>2
    <3> HIDE DEF sent
    <3>3. QED
      BY <2>2, <3>1, <3>2, AnswerAgrees
  <2>6. Named(sent) = seen
    <3>1. CASE marks
      BY <3>1, FlagNames DEF Named
    <3>2. CASE ~marks
      BY <3>2, FlagNames DEF Named
    <3>3. QED
      BY <3>1, <3>2
  <2>7. i \in 0 .. Len(drive.image) - 1 /\ i >= drive.idx /\ Rev2(data)!Sought(i)
    BY <1>1, <1>2, <1>4, <1>7 DEF Cells
  <2>8. \A q \in 0 .. i - 1 : q >= drive.idx => ~Rev2(data)!Sought(q)
    BY <1>1, <1>2, <1>4, <2>7 DEF Cells
  <2>9. drive'.idx = i + 1
    BY <2>3 DEF Common
  <2>10. [q \in Cells(drive) |-> drive.image[q + 1]][i] = d.image[i + 1]
    BY <1>2, <1>3, <2>7
  <2>11. /\ Rev2(data)!Answer(seen, d.image[i + 1].byte)
         /\ marks <=> Latched.cmode
                        /\ [q \in Cells(drive) |-> drive.image[q + 1]][i].byte = BOF
    BY <1>2, <2>5, <2>6, <2>10
  <2> HIDE DEF marks
  <2>12. Rev2(data)!ReadForward
    BY <1>2, <1>5, <2>4, <2>7, <2>8, <2>9, <2>10, <2>11 DEF Rev2!ReadForward, Rev2!Answer
  <2>13. QED
    BY <2>12
<1>8. QED
  BY <1>6, <1>7

LEMMA ReverseAgrees ==
  ASSUME NEW data, NEW d, NEW result, Common(d, result),
         d.cmd = 2 \/ (d.cmd = 3 /\ d.cmode), result = Reverse(d)
  PROVE  Rev2(data)!ReadReverse \/ Rev2(data)!ReadOff
<1> DEFINE i == PreviousMark(d)
<1>1. /\ i \in -1 .. Len(d.image) - 1
      /\ i >= 0 => i \in Cells(d) /\ i <= d.idx /\ Sought(d, i)
      /\ \A q \in Cells(d) : q <= d.idx /\ Sought(d, q) => i >= q
  BY PreviousMarkOnTape, PreviousMarkIsNearest DEF Common
<1>2. /\ Latched = d /\ drive.image = d.image /\ drive.idx = d.idx
      /\ drive.mounted /\ Cells(d) = Cells(drive) /\ Len(d.image) \in Nat
  BY DEF Common, Cells, DriveOK, Drives
<1>3. \A p \in 0 .. Len(drive.image) - 1 :
        [q \in Cells(drive) |-> drive.image[q + 1]][p] = drive.image[p + 1]
  BY DEF Cells
<1>4. \A p \in 0 .. Len(drive.image) - 1 : Rev2(data)!Sought(p) <=> Sought(d, p)
  BY <1>2, <1>3 DEF Rev2!Sought, Sought
<1>5. ~Posted(d) /\ ~(d.cmd < 2) /\ d.cmd >= 2 /\ Rev2(data)!Reads
  BY <1>2 DEF Common, DriveOK, Drives, Posted, Rewinds, Rev2!Reads
<1> HIDE DEF i
<1>6. CASE i < 0
  <2>1. result = Result([d EXCEPT !.idx = -1], OffTheEnd)
    BY <1>6 DEF Reverse, i
  <2>2. /\ result.drive = [d EXCEPT !.idx = -1]
        /\ result.word.flags = {"CFI", "INT", "LDR"} /\ result.word.byte = 0
    BY <2>1 DEF Result, OffTheEnd, Word
  <2>3. result.drive.idx = -1
    BY <2>2 DEF Common, DriveOK, Drives
  <2>4. UNCHANGED Rev2(data)!cassette
          /\ Latched'.cmd = Latched.cmd /\ Latched'.cmode = Latched.cmode
    BY <2>2, <2>3, OnlyHeadMoves
  <2>5. Rev2(data)!Answer(Named({"CFI", "INT", "LDR"}), 0)
    <3> DEFINE sent == {"CFI", "INT", "LDR"}
    <3>1. sent \in SUBSET {"CFI", "INT", "LDR"}
      OBVIOUS
    <3>2. result.word.flags
            \cup (IF Posted(d) /\ OnLeader(result.drive) THEN {"LDR"} ELSE {}) = sent
      BY <1>5, <2>2
    <3> HIDE DEF sent
    <3>3. Rev2(data)!Answer(Named(sent), 0)
      BY <2>2, <3>1, <3>2, AnswerAgrees
    <3>4. QED
      BY <3>3 DEF sent
  <2>6. Named({"CFI", "INT", "LDR"}) = {"CFI", "SSI", "LEADER"}
    BY FlagNames DEF Named
  <2>7. drive'.idx = -1
    BY <2>3 DEF Common
  <2>8. \A q \in 0 .. Len(drive.image) - 1 : q <= drive.idx => ~Rev2(data)!Sought(q)
    BY <1>1, <1>2, <1>4, <1>6 DEF Cells
  <2>9. Rev2(data)!ReadOff
    BY <1>2, <1>5, <2>4, <2>5, <2>6, <2>7, <2>8 DEF Rev2!ReadOff
  <2>10. QED
    BY <2>9
<1>7. CASE ~(i < 0)
  <2> DEFINE marks == d.cmode /\ d.image[i + 1].byte = BOF
  <2>1. result = Result([d EXCEPT !.idx = i - 1], Delivered(d, i))
    BY <1>7 DEF Reverse, i
  <2>2. /\ result.drive = [d EXCEPT !.idx = i - 1]
        /\ result.word.flags = {"CFI"} \cup (IF marks THEN {"INT"} ELSE {})
        /\ result.word.byte = d.image[i + 1].byte
    BY <2>1 DEF Result, Delivered, Word
  <2>3. result.drive.idx = i - 1
    BY <2>2 DEF Common, DriveOK, Drives
  <2>4. UNCHANGED Rev2(data)!cassette
          /\ Latched'.cmd = Latched.cmd /\ Latched'.cmode = Latched.cmode
    BY <2>2, <2>3, OnlyHeadMoves
  <2> DEFINE sent == {"CFI"} \cup (IF marks THEN {"INT"} ELSE {})
             seen == {"CFI"} \cup (IF marks THEN {"SSI"} ELSE {})
  <2>5. Rev2(data)!Answer(Named(sent), d.image[i + 1].byte)
    <3>1. sent \in SUBSET {"CFI", "INT", "LDR"}
      OBVIOUS
    <3>2. result.word.flags
            \cup (IF Posted(d) /\ OnLeader(result.drive) THEN {"LDR"} ELSE {}) = sent
      BY <1>5, <2>2
    <3> HIDE DEF sent
    <3>3. QED
      BY <2>2, <3>1, <3>2, AnswerAgrees
  <2>6. Named(sent) = seen
    <3>1. CASE marks
      BY <3>1, FlagNames DEF Named
    <3>2. CASE ~marks
      BY <3>2, FlagNames DEF Named
    <3>3. QED
      BY <3>1, <3>2
  <2>7. i \in 0 .. Len(drive.image) - 1 /\ i <= drive.idx /\ Rev2(data)!Sought(i)
    BY <1>1, <1>2, <1>4, <1>7 DEF Cells
  <2>8. \A q \in i + 1 .. Len(drive.image) - 1 : q <= drive.idx => ~Rev2(data)!Sought(q)
    BY <1>1, <1>2, <1>4, <2>7 DEF Cells
  <2>9. drive'.idx = i - 1
    BY <2>3 DEF Common
  <2>10. [q \in Cells(drive) |-> drive.image[q + 1]][i] = d.image[i + 1]
    BY <1>2, <1>3, <2>7
  <2>11. /\ Rev2(data)!Answer(seen, d.image[i + 1].byte)
         /\ marks <=> Latched.cmode
                        /\ [q \in Cells(drive) |-> drive.image[q + 1]][i].byte = BOF
    BY <1>2, <2>5, <2>6, <2>10
  <2> HIDE DEF marks
  <2>12. Rev2(data)!ReadReverse
    BY <1>2, <1>5, <2>4, <2>7, <2>8, <2>9, <2>10, <2>11 DEF Rev2!ReadReverse, Rev2!Answer
  <2>13. QED
    BY <2>12
<1>8. QED
  BY <1>6, <1>7

LEMMA StepAgrees ==
  ASSUME IInv, NEW data, Dispatch, CommonGround, req.byte = data
  PROVE  Rev2Answers(data)
<1> DEFINE d == Latched
           result == Move(d, data)
<1>1. Common(d, result)
  BY CommonGroundIsCommon
<1>2. d.cmd \in 0 .. 5 /\ (d.cmd = 4 => WriteAt(drive) < Len(drive.image))
  BY <1>1 DEF Common, DriveOK, Drives, CommonGround
<1> HIDE DEF d
<1>3. CASE d.cmd = 5
  <2>1. result = Result(d, Word({}, 0))
    BY <1>2, <1>3 DEF Move, Rewinds
  <2>2. QED
    BY <1>1, <1>3, <2>1, StopAgrees DEF Rev2Answers
<1>4. CASE Rewinds(d)
  <2>1. result = Result([d EXCEPT !.idx = -1], Word({}, 0))
    BY <1>4 DEF Move, Rewinds
  <2>2. QED
    BY <1>1, <1>4, <2>1, RewindAgrees DEF Rev2Answers
<1>5. CASE d.cmd = 4
  <2>1. result = Write(d, data)
    BY <1>5 DEF Move, Rewinds
  <2>2. QED
    BY <1>1, <1>2, <1>5, <2>1, WriteAgrees DEF Rev2Answers
<1>6. CASE d.cmd < 2
  <2>1. result = Forward(d)
    BY <1>2, <1>6 DEF Move, Rewinds
  <2>2. QED
    BY <1>1, <1>6, <2>1, ForwardAgrees DEF Rev2Answers
<1>7. CASE d.cmd = 2 \/ (d.cmd = 3 /\ ~Rewinds(d))
  <2>1. result = Reverse(d)
    BY <1>7 DEF Move, Rewinds
  <2>2. d.cmd = 2 \/ (d.cmd = 3 /\ d.cmode)
    BY <1>7 DEF Rewinds
  <2>3. QED
    BY <1>1, <2>1, <2>2, ReverseAgrees DEF Rev2Answers
<1>8. QED
  BY <1>2, <1>3, <1>4, <1>5, <1>6, <1>7

(* TP_Op (tp.c lines 248 to 338) and the rev2 drive: with a cassette in    *)
(* the drive and no write past its last cell, both leave the same head,    *)
(* tape and answer, for every image and every request.                     *)
THEOREM GenerationsAgree == Spec => AgreesWithRev2
<1>1. IInv /\ [Next]_vars
        => [\A data \in Bytes :
              Dispatch /\ CommonGround /\ req.byte = data => Rev2Answers(data)]_vars
  BY StepAgrees
<1>2. QED
  BY <1>1, InitHolds, NextHolds, PTL DEF Spec, AgreesWithRev2

=============================================================================
