-------------------------------- MODULE Tape ---------------------------------
(***************************************************************************)
(* The virtual cassette of the rev2 firmware, firmware/rev2/src/           *)
(* mpsi_tape.c, with the data types of mpsi_tape.h.                        *)
(*                                                                         *)
(* A command is begun once and then polled by the main loop until it       *)
(* answers.  One poll is one step: it looks at up to Budget cells through  *)
(* the backend's read_cell, which may report BUSY or ERROR at any of them, *)
(* or makes one try at write_cell.  Between polls the storage component    *)
(* may stop serving (accessible() becomes false) and come back, and the    *)
(* operator may change the write protection or take the cassette out.      *)
(***************************************************************************)
EXTENDS Integers

CONSTANTS
  Budget,    \* cells looked at in one poll (32 in the code)
  MaxI32,    \* largest value of an int32_t (a bound of the model)
  Bytes,     \* the values of a data byte that are told apart
  BOF,       \* the byte that marks the beginning of a file, 0x3c
  Images     \* the cassettes that can be loaded

MaxCells == 2 * MaxI32 + 1   \* largest value of the uint32_t cell count

Cell     == [control : BOOLEAN, byte : Bytes]
Requests == [code : 0 .. 7, control : BOOLEAN, byte : Bytes]

ASSUME TapeAssumption ==
  /\ Budget \in Nat \ {0}
  /\ MaxI32 \in Nat
  /\ 0 \in Bytes /\ BOF # 0
  /\ \A image \in Images : /\ image.cells \in 0 .. MaxCells
                           /\ image.tape \in [0 .. image.cells - 1 -> Cell]

VARIABLES
  position, scan, command, control, byte, active,  \* mpsi_tape
  cells, tape, present, writable,  \* mpsi_tape_media; tape is behind its callbacks
  response,  \* the word the last finished command returned, or NoResponse
  serving    \* accessible(): the storage component serves the card

media == <<cells, tape, present, writable>>
vars  == <<position, scan, command, control, byte, active, media, response, serving>>

Flags      == {"ACK", "CFI", "SSI", "NO_CASSETTE", "LEADER", "WRITE_PROTECTED"}
Responses  == [flags : SUBSET Flags, byte : Bytes]
NoResponse == [flags |-> {}, byte |-> 0]

(* A conversion to int32_t of a value less than a word away from one.      *)
ToI32(n) ==
  IF n > MaxI32 THEN n - 2 * (MaxI32 + 1)
  ELSE IF n < -(MaxI32 + 1) THEN n + 2 * (MaxI32 + 1)
  ELSE n

SignedCells == ToI32(cells)

(***************************************************************************)
(* The type invariant.                                                     *)
(***************************************************************************)
TypeOK ==
  /\ position \in -1 .. MaxI32
  /\ scan \in -(MaxI32 + 1) .. MaxI32
  /\ command \in 0 .. 5 /\ control \in BOOLEAN
  /\ byte \in Bytes
  /\ active \in BOOLEAN
  /\ cells \in 0 .. MaxCells
  /\ tape \in [0 .. cells - 1 -> Cell]
  /\ present \in BOOLEAN /\ writable \in BOOLEAN
  /\ response \in Responses
  /\ serving \in BOOLEAN

-----------------------------------------------------------------------------
Init ==
  /\ position = -1 /\ scan = 0
  /\ command = 5 /\ control = FALSE /\ byte = 0
  /\ active = FALSE
  /\ \E image \in Images : cells = image.cells /\ tape = image.tape
  /\ present \in BOOLEAN /\ writable \in BOOLEAN
  /\ cells > MaxI32 => ~present
  /\ response = NoResponse
  /\ serving = FALSE

(* Mutant: a cassette too long for the position is accepted.               *)
TapeInitAnyLength ==
  /\ position' = -1 /\ scan' = 0
  /\ command' = 5 /\ control' = FALSE /\ byte' = 0
  /\ active' = FALSE
  /\ \E image \in Images : cells' = image.cells /\ tape' = image.tape
  /\ present' \in BOOLEAN /\ writable' \in BOOLEAN
  /\ response' = NoResponse
  /\ UNCHANGED serving

(***************************************************************************)
(* mpsi_tape_init, with a new cassette.  What the compound literal does    *)
(* not name is zero; a cassette too long for the position counts as absent.*)
(***************************************************************************)
TapeInit ==
  /\ position' = -1 /\ scan' = 0
  /\ command' = 5 /\ control' = FALSE /\ byte' = 0
  /\ active' = FALSE
  /\ \E image \in Images : cells' = image.cells /\ tape' = image.tape
  /\ present' \in BOOLEAN /\ writable' \in BOOLEAN
  /\ cells' > MaxI32 => ~present'
  /\ response' = NoResponse
  /\ UNCHANGED serving

(* Mutant: a reverse search starts at the head without coming back onto    *)
(* the tape.                                                               *)
BeginOffTape(request) ==
  /\ serving /\ ~active
  /\ active' = TRUE
  /\ byte' = request.byte
  /\ IF request.code < 6
       THEN command' = request.code /\ control' = request.control
       ELSE UNCHANGED <<command, control>>
  /\ scan' = IF position < 0 THEN 0 ELSE position
  /\ response' = NoResponse
  /\ UNCHANGED <<position, media, serving>>

(***************************************************************************)
(* mpsi_tape_begin.  Refused, with no effect, while the card is not served *)
(* or the command before is unanswered.  Codes 6 and 7 go on with the      *)
(* latched command.  A search starts at the head; before the first cell or *)
(* after the last one it starts at that cell.                              *)
(***************************************************************************)
Begin(request) ==
  /\ serving /\ ~active
  /\ active' = TRUE
  /\ byte' = request.byte
  /\ IF request.code < 6
       THEN command' = request.code /\ control' = request.control
       ELSE UNCHANGED <<command, control>>
  /\ scan' = IF command' < 2
               THEN IF position < 0 THEN 0 ELSE position
               ELSE IF position >= SignedCells THEN ToI32(SignedCells - 1)
                                               ELSE position
  /\ response' = NoResponse
  /\ UNCHANGED <<position, media, serving>>

-----------------------------------------------------------------------------
(* Mutant: a poll does not ask who has the card.                           *)
PolledUnserved == active

(* What mpsi_tape_poll wants before it does anything.                      *)
Polled == serving /\ active

(* status() and finish().                                                  *)
Finish(flags, data) ==
  /\ active' = FALSE
  /\ response' = [flags |-> flags \cup {"ACK"}
                             \cup (IF present THEN {} ELSE {"NO_CASSETTE"})
                             \cup (IF writable THEN {} ELSE {"WRITE_PROTECTED"}),
                  byte |-> data]

Stops   == command = 5
Rewinds == command = 3 /\ ~control

PollStop ==
  /\ Polled /\ Stops
  /\ control' = FALSE
  /\ Finish(IF position < 0 \/ position >= SignedCells THEN {"LEADER"} ELSE {}, 0)
  /\ UNCHANGED <<position, scan, command, byte, media, serving>>

(* Reverse at high speed without control mode rewinds.                     *)
PollRewind ==
  /\ Polled /\ Rewinds
  /\ position' = -1
  /\ Finish({"LEADER"}, 0)
  /\ UNCHANGED <<scan, command, control, byte, media, serving>>

PollNoCassette ==
  /\ Polled /\ ~Stops /\ ~Rewinds
  /\ ~present
  /\ Finish({"CFI", "SSI", "LEADER"}, 0)
  /\ UNCHANGED <<position, scan, command, control, byte, media, serving>>

WriteAt == IF position < 0 THEN 0 ELSE position

Writes == Polled /\ command = 4 /\ present

PollWriteRefused ==
  /\ Writes
  /\ ~writable \/ WriteAt >= SignedCells
  /\ Finish({"CFI", "SSI"} \cup (IF WriteAt >= SignedCells THEN {"LEADER"} ELSE {}), 0)
  /\ UNCHANGED <<position, scan, command, control, byte, media, serving>>

WriteCell == tape' = [tape EXCEPT ![WriteAt] = [control |-> control, byte |-> byte]]

PollWrite ==
  /\ Writes
  /\ writable /\ WriteAt < SignedCells
  /\ WriteCell
  /\ position' = WriteAt + 1
  /\ Finish({"CFI"}, byte)
  /\ UNCHANGED <<scan, command, control, byte, cells, present, writable, serving>>

(* write_cell reports BUSY or ERROR; after an ERROR the cell may be        *)
(* written all the same.  The command stays active for the next poll.      *)
PollWriteFails ==
  /\ Writes
  /\ writable /\ WriteAt < SignedCells
  /\ WriteCell \/ UNCHANGED tape
  /\ UNCHANGED <<position, scan, command, control, byte, active, cells, present,
                 writable, response, serving>>

-----------------------------------------------------------------------------
(* The search loop.  At(k) is the cell looked at after k others.           *)
At(k) == IF command < 2 THEN scan + k ELSE scan - k

OnTape(p) == 0 <= p /\ p < SignedCells

Sought(p) == control => tape[p].control

Passed(k) == \A j \in 0 .. k - 1 : OnTape(At(j)) /\ ~Sought(At(j))

Searches == Polled /\ present /\ command < 4 /\ ~Rewinds

(* Mutant: the head is left on the cell it has read.                       *)
PollFoundStays ==
  /\ Searches
  /\ \E k \in 0 .. Budget - 1 :
       /\ Passed(k)
       /\ OnTape(At(k)) /\ Sought(At(k))
       /\ scan' = At(k)
       /\ position' = At(k)
       /\ LET cell == tape[At(k)]
          IN  Finish({"CFI"} \cup (IF control /\ cell.byte = BOF THEN {"SSI"} ELSE {}),
                     cell.byte)
  /\ UNCHANGED <<command, control, byte, media, serving>>

(* A cell that is sought is delivered and the head goes past it.           *)
PollFound ==
  /\ Searches
  /\ \E k \in 0 .. Budget - 1 :
       /\ Passed(k)
       /\ OnTape(At(k)) /\ Sought(At(k))
       /\ scan' = At(k)
       /\ position' = At(k + 1)
       /\ LET cell == tape[At(k)]
          IN  Finish({"CFI"} \cup (IF control /\ cell.byte = BOF THEN {"SSI"} ELSE {}),
                     cell.byte)
  /\ UNCHANGED <<command, control, byte, media, serving>>

(* The search runs off the tape and takes the head with it.                *)
PollEnd ==
  /\ Searches
  /\ \E k \in 0 .. Budget - 1 :
       /\ Passed(k)
       /\ ~OnTape(At(k))
       /\ scan' = At(k)
       /\ position' = At(k)
  /\ Finish({"CFI", "SSI", "LEADER"}, 0)
  /\ UNCHANGED <<command, control, byte, media, serving>>

(* Mutant: a cell that read_cell could not deliver is skipped.             *)
PollMoreSkips ==
  /\ Searches
  /\ \E k \in 0 .. Budget :
       /\ Passed(k)
       /\ k < Budget => OnTape(At(k))
       /\ scan' = IF k < Budget THEN At(k + 1) ELSE At(k)
  /\ UNCHANGED <<position, command, control, byte, active, media, response, serving>>

(* Mutant: a search out of budget forgets how far it has come.             *)
PollMoreRestarts ==
  /\ Searches
  /\ \E k \in 0 .. Budget :
       /\ Passed(k)
       /\ k < Budget => OnTape(At(k))
  /\ UNCHANGED <<scan, position, command, control, byte, active, media, response, serving>>

(* read_cell reports BUSY or ERROR after k cells, or the budget is used    *)
(* up.  How far the search has come is kept; the head has not moved.       *)
PollMore ==
  /\ Searches
  /\ \E k \in 0 .. Budget :
       /\ Passed(k)
       /\ k < Budget => OnTape(At(k))
       /\ scan' = At(k)
  /\ UNCHANGED <<position, command, control, byte, active, media, response, serving>>

-----------------------------------------------------------------------------
(***************************************************************************)
(* The world around the component.                                         *)
(***************************************************************************)
Operator ==
  /\ present' \in BOOLEAN /\ writable' \in BOOLEAN
  /\ cells > MaxI32 => ~present'
  /\ UNCHANGED <<position, scan, command, control, byte, active, cells, tape,
                 response, serving>>

ServiceChange ==
  /\ serving' = ~serving
  /\ UNCHANGED <<position, scan, command, control, byte, active, media, response>>

Answers ==
  \/ PollStop \/ PollRewind \/ PollNoCassette
  \/ PollWriteRefused \/ PollWrite
  \/ PollFound \/ PollEnd

Poll == Answers \/ PollWriteFails \/ PollMore

Next ==
  \/ TapeInit
  \/ \E request \in Requests : Begin(request)
  \/ Poll
  \/ Operator \/ ServiceChange

Spec == Init /\ [][Next]_vars

(* A poll that answers or looks at a full budget of cells: what the main   *)
(* loop gets once the sector cache holds what the poll before had missed.  *)
Progress == Answers \/ (PollMore /\ scan' = At(Budget))

FairSpec == Spec /\ WF_vars(Progress)

-----------------------------------------------------------------------------
(***************************************************************************)
(* Properties.                                                             *)
(***************************************************************************)

(* The search never passes what it is looking for, however often it is     *)
(* interrupted: between the head and the cell it will look at next there   *)
(* is no cell it should have stopped at, and it has not left the tape by   *)
(* more than one cell.                                                     *)
NothingSkipped ==
  active /\ present /\ command < 4 /\ ~Rewinds =>
    IF command < 2
      THEN /\ scan <= cells
           /\ \A p \in 0 .. scan - 1 : p >= position => ~Sought(p)
      ELSE /\ scan >= -1
           /\ \A p \in scan + 1 .. cells - 1 : p <= position => ~Sought(p)

(* Turning round re-reads: after a read or a write that delivered a byte,  *)
(* that byte is in the cell just behind the head, the one a read in the    *)
(* other direction comes to first.                                         *)
HeadJustPast ==
  (/\ ~active /\ "CFI" \in response.flags
   /\ "SSI" \in response.flags => response.byte = BOF) =>
    LET behind == IF command < 2 \/ command = 4 THEN position - 1 ELSE position + 1
    IN  /\ behind \in 0 .. cells - 1
        /\ tape[behind].byte = response.byte
        /\ control => tape[behind].control

(* A command is answered as long as the card stays served, whatever the    *)
(* length of the search.                                                   *)
CommandEnds == active ~> (~active \/ ~serving)

(* The component is a cassette drive to the HP: budget, cache misses and   *)
(* media errors do not show in what is answered or written, or in where    *)
(* the head is left.                                                       *)
Drive == INSTANCE CassetteDrive
IsCassetteDrive == Drive!Spec

=============================================================================
