---------------------------- MODULE CassetteDrive ----------------------------
(***************************************************************************)
(* What the HP sees of a cassette drive (FW-003): a command is answered by *)
(* one word, found in one look at the tape.  A read answers with the       *)
(* nearest cell in the direction of the tape, in control mode with the     *)
(* nearest control cell, and leaves the head just past it; nothing of how  *)
(* the search is cut up over the main loop shows.                          *)
(***************************************************************************)
EXTENDS Integers

CONSTANTS
  Bytes,     \* the values of a data byte that are told apart
  BOF        \* the byte that marks the beginning of a file

VARIABLES
  position,  \* the head: -1 before the first cell, cells after the last one
  command, control,  \* the latched command, and whether it is in control mode
  byte,      \* the data byte of the last command
  active,    \* the HP waits for an answer
  response,  \* the last answer, or NoResponse while the HP waits
  cells, tape, present, writable     \* the cassette

vars == <<position, command, control, byte, active, response,
          cells, tape, present, writable>>

cassette == <<cells, tape, present, writable>>

Cell       == [control : BOOLEAN, byte : Bytes]
Requests   == [code : 0 .. 7, control : BOOLEAN, byte : Bytes]
NoResponse == [flags |-> {}, byte |-> 0]

(* A drive is switched on, and gets a new cassette, at the leader.         *)
Init ==
  /\ position = -1
  /\ command = 5 /\ control = FALSE /\ byte = 0
  /\ active = FALSE /\ response = NoResponse
  /\ cells \in Nat
  /\ tape \in [0 .. cells - 1 -> Cell]
  /\ present \in BOOLEAN /\ writable \in BOOLEAN

Load ==
  /\ position' = -1
  /\ command' = 5 /\ control' = FALSE /\ byte' = 0
  /\ active' = FALSE /\ response' = NoResponse
  /\ cells' \in Nat
  /\ tape' \in [0 .. cells' - 1 -> Cell]
  /\ present' \in BOOLEAN /\ writable' \in BOOLEAN

(* The operator moves the write-protect tab or takes the cassette out.     *)
Operator ==
  /\ present' \in BOOLEAN /\ writable' \in BOOLEAN
  /\ UNCHANGED <<position, command, control, byte, active, response, cells, tape>>

(* Codes 6 and 7 go on with the command before.                            *)
Command(request) ==
  /\ ~active
  /\ active' = TRUE
  /\ byte' = request.byte
  /\ IF request.code < 6
       THEN command' = request.code /\ control' = request.control
       ELSE UNCHANGED <<command, control>>
  /\ response' = NoResponse
  /\ UNCHANGED <<position, cassette>>

-----------------------------------------------------------------------------
Answer(flags, data) ==
  /\ active
  /\ active' = FALSE
  /\ response' = [flags |-> flags \cup {"ACK"}
                             \cup (IF present THEN {} ELSE {"NO_CASSETTE"})
                             \cup (IF writable THEN {} ELSE {"WRITE_PROTECTED"}),
                  byte |-> data]

OffTape(p) == p < 0 \/ p >= cells

Stop ==
  /\ command = 5
  /\ control' = FALSE
  /\ Answer(IF OffTape(position) THEN {"LEADER"} ELSE {}, 0)
  /\ UNCHANGED <<position, command, byte, cassette>>

Rewinds == command = 3 /\ ~control

Rewind ==
  /\ Rewinds
  /\ position' = -1
  /\ Answer({"LEADER"}, 0)
  /\ UNCHANGED <<command, control, byte, cassette>>

NoCassette ==
  /\ command # 5 /\ ~Rewinds
  /\ ~present
  /\ Answer({"CFI", "SSI", "LEADER"}, 0)
  /\ UNCHANGED <<position, command, control, byte, cassette>>

(* Writing happens where the head is, the leader counting as cell 0.       *)
WriteAt == IF position < 0 THEN 0 ELSE position

Put == tape' = [tape EXCEPT ![WriteAt] = [control |-> control, byte |-> byte]]

Write ==
  /\ command = 4 /\ present
  /\ writable /\ WriteAt < cells
  /\ Put
  /\ position' = WriteAt + 1
  /\ Answer({"CFI"}, byte)
  /\ UNCHANGED <<command, control, byte, cells, present, writable>>

WriteRefused ==
  /\ command = 4 /\ present
  /\ ~writable \/ WriteAt >= cells
  /\ Answer({"CFI", "SSI"} \cup (IF WriteAt >= cells THEN {"LEADER"} ELSE {}), 0)
  /\ UNCHANGED <<position, command, control, byte, cassette>>

(* A medium that fails may have taken the cell; the HP still waits and the *)
(* head has not moved.                                                     *)
WriteFails ==
  /\ active /\ command = 4 /\ present
  /\ writable /\ WriteAt < cells
  /\ Put
  /\ UNCHANGED <<position, command, control, byte, active, response,
                 cells, present, writable>>

-----------------------------------------------------------------------------
Reads == command \in {0, 1, 2} \/ (command = 3 /\ control)

Sought(p) == control => tape[p].control

ReadForward ==
  /\ Reads /\ command < 2 /\ present
  /\ \E p \in 0 .. cells - 1 :
       /\ p >= position /\ Sought(p)
       /\ \A q \in 0 .. p - 1 : q >= position => ~Sought(q)
       /\ position' = p + 1
       /\ Answer({"CFI"} \cup (IF control /\ tape[p].byte = BOF THEN {"SSI"} ELSE {}),
                 tape[p].byte)
  /\ UNCHANGED <<command, control, byte, cassette>>

ReadReverse ==
  /\ Reads /\ command >= 2 /\ present
  /\ \E p \in 0 .. cells - 1 :
       /\ p <= position /\ Sought(p)
       /\ \A q \in p + 1 .. cells - 1 : q <= position => ~Sought(q)
       /\ position' = p - 1
       /\ Answer({"CFI"} \cup (IF control /\ tape[p].byte = BOF THEN {"SSI"} ELSE {}),
                 tape[p].byte)
  /\ UNCHANGED <<command, control, byte, cassette>>

(* Nothing is sought before the end of the tape: the head runs off it.     *)
ReadOff ==
  /\ Reads /\ present
  /\ IF command < 2
       THEN /\ \A q \in 0 .. cells - 1 : q >= position => ~Sought(q)
            /\ position' = cells
       ELSE /\ \A q \in 0 .. cells - 1 : q <= position => ~Sought(q)
            /\ position' = -1
  /\ Answer({"CFI", "SSI", "LEADER"}, 0)
  /\ UNCHANGED <<command, control, byte, cassette>>

Next ==
  \/ Load
  \/ Operator
  \/ \E request \in Requests : Command(request)
  \/ Stop \/ Rewind \/ NoCassette
  \/ Write \/ WriteRefused \/ WriteFails
  \/ ReadForward \/ ReadReverse \/ ReadOff

Spec == Init /\ [][Next]_vars

=============================================================================
