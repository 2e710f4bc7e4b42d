----------------------------- MODULE LegacyDevices -----------------------------
(***************************************************************************)
(* What the devices of the first server do with one request: the cassette  *)
(* drive (software/mpsiServer/tp.c), the paper tape reader (ptr.c) and the *)
(* printer (pr.c).  Each is a function from the device and the request to  *)
(* the device afterwards and the word that goes back to the HP.            *)
(***************************************************************************)
EXTENDS Integers, Sequences, FiniteSetsExt

CONSTANTS
  None,
  Bytes,     \* the values of a data byte that are told apart
  BOF        \* the byte that marks the beginning of a file, 0x3c

Cell == [control : BOOLEAN, byte : Bytes]

(* so3 is the bit that means input to a General device and control mode to *)
(* the cassette drive; code is the command of the latter.                  *)
Requests ==
  [dev : {"tape"}, code : 0 .. 7, so3 : BOOLEAN, byte : Bytes]
    \cup [dev : {"gp", "printer"}, code : {0}, so3 : BOOLEAN, byte : Bytes]

Word(flags, data) == [flags |-> flags, byte |-> data]

-----------------------------------------------------------------------------
(* tp.c.  idx is -1 before the first cell and Len(image) after the last.   *)

Status(d) ==
  (IF d.mounted THEN {} ELSE {"nCIN"}) \cup (IF d.permit THEN {} ELSE {"nWPT"})

OnLeader(d) == d.idx < 0 \/ d.idx >= Len(d.image)

(* TP_Open.  An image without a cell gets one, the value of which is not   *)
(* given: bf_put is called without its last argument.                      *)
Opened(file, permit) ==
  {[cmd |-> 5, cmode |-> FALSE, idx |-> -1, modified |-> FALSE,
    mounted |-> file # None, permit |-> permit, image |-> image] :
      image \in IF file \in {None, <<>>} THEN {<<cell>> : cell \in Cell} ELSE {file}}

Latch(d, r) ==
  IF r.code < 6 THEN [d EXCEPT !.cmd = r.code, !.cmode = r.so3 /\ r.code # 5] ELSE d

(* The cell a scan comes to, or the end it runs off.                       *)
Sought(d, i) == d.cmode => d.image[i + 1].control
Cells(d)     == 0 .. Len(d.image) - 1

NextMark(d) ==
  Min({i \in Cells(d) : i >= d.idx /\ Sought(d, i)} \cup {Len(d.image)})
PreviousMark(d) ==
  Max({i \in Cells(d) : i <= d.idx /\ Sought(d, i)} \cup {-1})

Delivered(d, i) ==
  Word({"CFI"} \cup (IF d.cmode /\ d.image[i + 1].byte = BOF THEN {"INT"} ELSE {}),
       d.image[i + 1].byte)

OffTheEnd == Word({"CFI", "INT", "LDR"}, 0)

Result(d, word) == [drive |-> d, word |-> word]

(* Mutant: the head runs on past the end.                                  *)
ForwardBeyond(d) ==
  LET i == NextMark(d) IN
    IF i = Len(d.image) THEN Result([d EXCEPT !.idx = i + 1], OffTheEnd)
                        ELSE Result([d EXCEPT !.idx = i + 1], Delivered(d, i))

Forward(d) ==
  LET i == NextMark(d) IN
    IF i = Len(d.image) THEN Result([d EXCEPT !.idx = i], OffTheEnd)
                        ELSE Result([d EXCEPT !.idx = i + 1], Delivered(d, i))

(* Mutant: a read in reverse leaves the head where it has read.            *)
ReverseStays(d) ==
  LET i == PreviousMark(d) IN
    IF i < 0 THEN Result([d EXCEPT !.idx = -1], OffTheEnd)
             ELSE Result([d EXCEPT !.idx = i], Delivered(d, i))

Reverse(d) ==
  LET i == PreviousMark(d) IN
    IF i < 0 THEN Result([d EXCEPT !.idx = -1], OffTheEnd)
             ELSE Result([d EXCEPT !.idx = i - 1], Delivered(d, i))

WriteAt(d) == IF d.idx < 0 THEN 0 ELSE d.idx

(* Mutant: a write is not noted.                                           *)
WriteUnnoted(d, byte) ==
  LET at == WriteAt(d)
      cell == [control |-> d.cmode, byte |-> byte]
  IN IF ~d.permit
       THEN Result(d, Word({"CFI", "INT"}, 0))
       ELSE Result([d EXCEPT !.idx = at + 1,
                             !.image = IF at = Len(@) THEN Append(@, cell)
                                                      ELSE [@ EXCEPT ![at + 1] = cell]],
                   Word({"CFI"}, byte))

(* A write past the last cell makes the tape longer.                       *)
Write(d, byte) ==
  LET at == WriteAt(d)
      cell == [control |-> d.cmode, byte |-> byte]
  IN IF ~d.permit
       THEN Result(d, Word({"CFI", "INT"}, 0))
       ELSE Result([d EXCEPT !.idx = at + 1, !.modified = TRUE,
                             !.image = IF at = Len(@) THEN Append(@, cell)
                                                      ELSE [@ EXCEPT ![at + 1] = cell]],
                   Word({"CFI"}, byte))

(* Stop and rewind send no CFI, only where the head is.                    *)
Rewinds(d) == d.cmd = 3 /\ ~d.cmode
Posted(d)  == d.cmd = 5 \/ Rewinds(d)

Move(d, byte) ==
  CASE d.cmd = 5  -> Result(d, Word({}, 0))
    [] Rewinds(d) -> Result([d EXCEPT !.idx = -1], Word({}, 0))
    [] d.cmd < 2  -> Forward(d)
    [] d.cmd = 4  -> Write(d, byte)
    [] OTHER      -> Reverse(d)

TapeOp(d, r) ==
  LET latched == Latch(d, r)
      result  == Move(latched, r.byte)
  IN Result(result.drive,
            Word(result.word.flags \cup {"ACK"} \cup Status(d)
                   \cup (IF Posted(latched) /\ OnLeader(result.drive) THEN {"LDR"} ELSE {}),
                 result.word.byte))

-----------------------------------------------------------------------------
(* ptr.c and pr.c.  paper is what is left of the file, None once it is     *)
(* closed; the printer takes anything at once.                             *)

PaperRead(paper) ==
  IF paper \in {None, <<>>}
    THEN [paper |-> None, word |-> Word({"ACK"}, 0)]
    ELSE [paper |-> Tail(paper), word |-> Word({"ACK"}, Head(paper))]

(* One request on all of them.                                             *)
Serve(drive, paper, r) ==
  IF r.dev = "tape"
    THEN LET result == TapeOp(drive, r)
         IN [drive |-> result.drive, paper |-> paper, word |-> result.word]
  ELSE IF r.dev = "gp" /\ r.so3
    THEN LET result == PaperRead(paper)
         IN [drive |-> drive, paper |-> result.paper, word |-> result.word]
  ELSE [drive |-> drive, paper |-> paper, word |-> Word({"ACK"}, 0)]

=============================================================================
