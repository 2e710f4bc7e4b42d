----------------------------- MODULE TapeProofs ------------------------------
(***************************************************************************)
(* Proofs about Tape, for every budget, word width, byte alphabet and      *)
(* cassette.  IInv strengthens the type invariant with the bounds of the   *)
(* head and with what a search has seen: SearchOnCourse is NothingSkipped  *)
(* without the cassette being present (it may be taken out and put back    *)
(* under a search) and with the bounds that put the search on its way.     *)
(***************************************************************************)
EXTENDS Tape, TLAPS

(* A cassette too long for the position is absent and never moves; on any  *)
(* other the head stays within one place of the tape.                      *)
HeadBounds ==
  /\ cells > MaxI32 => ~present /\ position = -1
  /\ cells <= MaxI32 => position <= cells

SearchOnCourse ==
  active /\ command < 4 /\ ~Rewinds /\ cells <= MaxI32 =>
    IF command < 2
      THEN /\ 0 <= scan /\ position <= scan /\ scan <= cells
           /\ \A p \in 0 .. scan - 1 : p >= position => ~Sought(p)
      ELSE /\ -1 <= scan /\ scan <= position /\ scan <= cells - 1
           /\ \A p \in scan + 1 .. cells - 1 : p <= position => ~Sought(p)

IInv == TypeOK /\ HeadBounds /\ SearchOnCourse

-----------------------------------------------------------------------------
(* A cell count that fits the position is its own signed value; one that   *)
(* does not is negative.                                                   *)
LEMMA SignedCellsFact ==
  ASSUME TypeOK
  PROVE  /\ SignedCells \in Int
         /\ cells <= MaxI32 => SignedCells = cells
         /\ cells > MaxI32 => SignedCells < 0 /\ SignedCells >= -(MaxI32 + 1)
BY TapeAssumption DEF TypeOK, SignedCells, ToI32, MaxCells

(* An answer is one of the words the drive can send.                       *)
LEMMA FinishTyped ==
  ASSUME NEW flags \in SUBSET Flags, NEW data \in Bytes, Finish(flags, data)
  PROVE  active' = FALSE /\ response' \in Responses
<1>1. flags \cup {"ACK"} \cup (IF present THEN {} ELSE {"NO_CASSETTE"})
            \cup (IF writable THEN {} ELSE {"WRITE_PROTECTED"}) \in SUBSET Flags
  BY DEF Flags
<1>2. QED
  BY <1>1 DEF Finish, Responses

(* Writing at the head keeps the cassette a cassette.                      *)
LEMMA WriteTyped ==
  ASSUME TypeOK, WriteCell \/ UNCHANGED tape
  PROVE  tape' \in [0 .. cells - 1 -> Cell]
<1>1. [control |-> control, byte |-> byte] \in Cell
  BY DEF TypeOK, Cell
<1>2. QED
  BY <1>1 DEF TypeOK, WriteCell

LEMMA NoResponseTyped == NoResponse \in Responses
BY TapeAssumption DEF NoResponse, Responses

-----------------------------------------------------------------------------
(* The type invariant, one action at a time.                               *)
LEMMA InitTyped == Init => TypeOK
<1>1. SUFFICES ASSUME Init PROVE TypeOK
  OBVIOUS
<1>2. cells \in 0 .. MaxCells /\ tape \in [0 .. cells - 1 -> Cell]
  BY <1>1, TapeAssumption DEF Init
<1>3. response \in Responses
  BY <1>1, NoResponseTyped DEF Init
<1>4. position \in -1 .. MaxI32 /\ scan \in -(MaxI32 + 1) .. MaxI32 /\ byte \in Bytes
  BY <1>1, TapeAssumption DEF Init
<1>5. control \in BOOLEAN /\ active \in BOOLEAN /\ serving \in BOOLEAN
  BY <1>1 DEF Init
<1>c. command \in 0 .. 5
  BY <1>1 DEF Init
<1>6. present \in BOOLEAN /\ writable \in BOOLEAN
  BY <1>1 DEF Init
<1>7. QED
  BY <1>2, <1>3, <1>4, <1>5, <1>c, <1>6 DEF TypeOK

LEMMA TapeInitTyped == TapeInit /\ TypeOK => TypeOK'
<1>1. SUFFICES ASSUME TapeInit, TypeOK PROVE TypeOK'
  OBVIOUS
<1>2. cells' \in 0 .. MaxCells /\ tape' \in [0 .. cells' - 1 -> Cell]
  BY <1>1, TapeAssumption DEF TapeInit
<1>3. response' \in Responses
  BY <1>1, NoResponseTyped DEF TapeInit
<1>4. position' \in -1 .. MaxI32 /\ scan' \in -(MaxI32 + 1) .. MaxI32 /\ byte' \in Bytes
  BY <1>1, TapeAssumption DEF TapeInit
<1>5. control' \in BOOLEAN /\ active' \in BOOLEAN /\ serving' \in BOOLEAN
  BY <1>1 DEF TapeInit, TypeOK
<1>c. command' \in 0 .. 5
  BY <1>1 DEF TapeInit
<1>6. present' \in BOOLEAN /\ writable' \in BOOLEAN
  BY <1>1 DEF TapeInit
<1>7. QED
  BY <1>2, <1>3, <1>4, <1>5, <1>c, <1>6 DEF TypeOK

LEMMA BeginTyped ==
  ASSUME TypeOK, NEW request \in Requests, Begin(request)
  PROVE  TypeOK'
<1>1. command' \in 0 .. 5 /\ control' \in BOOLEAN
  <2>1. CASE request.code < 6
    BY <2>1 DEF Begin, Requests
  <2>2. CASE ~(request.code < 6)
    BY <2>2 DEF Begin, TypeOK
  <2>3. QED
    BY <2>1, <2>2
<1>2. byte' \in Bytes /\ active' \in BOOLEAN
  BY DEF Begin, Requests
<1>3. scan' \in -(MaxI32 + 1) .. MaxI32
  <2>1. scan' = IF command' < 2
                  THEN IF position < 0 THEN 0 ELSE position
                  ELSE IF position >= SignedCells THEN ToI32(SignedCells - 1)
                                                  ELSE position
    BY DEF Begin
  <2>2. ToI32(SignedCells - 1) \in -(MaxI32 + 1) .. MaxI32
    BY SignedCellsFact, TapeAssumption DEF TypeOK, ToI32
  <2>3. QED
    BY <2>1, <2>2, TapeAssumption DEF TypeOK
<1>4. response' \in Responses
  BY NoResponseTyped DEF Begin
<1>5. QED
  BY <1>1, <1>2, <1>3, <1>4 DEF Begin, TypeOK, media

-----------------------------------------------------------------------------
(* The state an active search moves in.                                    *)
LEMMA SearchFacts ==
  ASSUME IInv, Searches
  PROVE  /\ cells <= MaxI32 /\ SignedCells = cells
         /\ cells \in Nat /\ scan \in Int /\ position \in Int
         /\ command \in 0 .. 3
         /\ command < 2 =>
              /\ 0 <= scan /\ position <= scan /\ scan <= cells
              /\ \A p \in 0 .. scan - 1 : p >= position => ~Sought(p)
         /\ command >= 2 =>
              /\ -1 <= scan /\ scan <= position /\ scan <= cells - 1
              /\ \A p \in scan + 1 .. cells - 1 : p <= position => ~Sought(p)
<1>1. cells <= MaxI32
  BY TapeAssumption DEF IInv, HeadBounds, Searches, TypeOK, MaxCells
<1>2. SignedCells = cells
  BY <1>1, SignedCellsFact DEF IInv
<1>3. cells \in Nat /\ scan \in Int /\ position \in Int /\ command \in 0 .. 3
  BY TapeAssumption DEF IInv, TypeOK, Searches, MaxCells
<1>4. active /\ command < 4 /\ ~Rewinds
  BY DEF Searches, Polled
<1>5. QED
  BY <1>1, <1>2, <1>3, <1>4 DEF IInv, SearchOnCourse

(* After k cells that were not sought, the search is k cells further and   *)
(* still has skipped nothing.                                              *)
LEMMA PassedForward ==
  ASSUME IInv, Searches, command < 2, NEW k \in Nat, Passed(k)
  PROVE  /\ At(k) = scan + k
         /\ 0 <= At(k) /\ position <= At(k) /\ At(k) <= cells
         /\ \A p \in 0 .. At(k) - 1 : p >= position => ~Sought(p)
<1>1. At(k) = scan + k
  BY DEF At
<1>2. At(k) <= cells
  <2>1. CASE k = 0
    BY <1>1, <2>1, SearchFacts
  <2>2. CASE k > 0
    <3>1. OnTape(At(k - 1))
      BY <2>2 DEF Passed
    <3>2. At(k - 1) = scan + (k - 1)
      BY DEF At
    <3>3. QED
      BY <1>1, <3>1, <3>2, SearchFacts DEF OnTape
  <2>3. QED
    BY <2>1, <2>2
<1>3. ASSUME NEW p \in 0 .. At(k) - 1, p >= position
      PROVE  ~Sought(p)
  <2>1. CASE p < scan
    BY <1>3, <2>1, SearchFacts
  <2>2. CASE p >= scan
    <3>1. PICK j \in 0 .. k - 1 : p = scan + j
      <4>1. p - scan \in 0 .. k - 1 /\ p = scan + (p - scan)
        BY <1>1, <2>2, SearchFacts
      <4>2. QED
        BY <4>1
    <3>2. At(j) = p
      BY <3>1 DEF At
    <3>3. QED
      BY <3>2 DEF Passed
  <2>3. QED
    BY <2>1, <2>2, SearchFacts
<1>4. QED
  BY <1>1, <1>2, <1>3, SearchFacts

LEMMA PassedReverse ==
  ASSUME IInv, Searches, command >= 2, NEW k \in Nat, Passed(k)
  PROVE  /\ At(k) = scan - k
         /\ -1 <= At(k) /\ At(k) <= position /\ At(k) <= cells - 1
         /\ \A p \in At(k) + 1 .. cells - 1 : p <= position => ~Sought(p)
<1>0. ~(command < 2)
  BY SearchFacts
<1>1. At(k) = scan - k
  BY <1>0 DEF At
<1>2. -1 <= At(k)
  <2>1. CASE k = 0
    BY <1>1, <2>1, SearchFacts
  <2>2. CASE k > 0
    <3>1. OnTape(At(k - 1))
      BY <2>2 DEF Passed
    <3>2. At(k - 1) = scan - (k - 1)
      BY <1>0 DEF At
    <3>3. QED
      BY <1>1, <3>1, <3>2, SearchFacts DEF OnTape
  <2>3. QED
    BY <2>1, <2>2
<1>3. ASSUME NEW p \in At(k) + 1 .. cells - 1, p <= position
      PROVE  ~Sought(p)
  <2>1. CASE p > scan
    BY <1>3, <2>1, SearchFacts
  <2>2. CASE p <= scan
    <3>1. PICK j \in 0 .. k - 1 : p = scan - j
      <4>1. scan - p \in 0 .. k - 1 /\ p = scan - (scan - p)
        BY <1>1, <2>2, SearchFacts
      <4>2. QED
        BY <4>1
    <3>2. At(j) = p
      BY <1>0, <3>1 DEF At
    <3>3. QED
      BY <3>2 DEF Passed
  <2>3. QED
    BY <2>1, <2>2, SearchFacts
<1>4. QED
  BY <1>1, <1>2, <1>3, SearchFacts

-----------------------------------------------------------------------------
(* Every action keeps the types.                                           *)
LEMMA AnswerTyped ==
  ASSUME IInv, Answers
  PROVE  /\ TypeOK' /\ active' = FALSE
         /\ cells' = cells /\ present' = present
<1>t. TypeOK
  BY DEF IInv
<1>1. CASE PollStop
  <2>1. active' = FALSE /\ response' \in Responses
    <3>1. 0 \in Bytes
      BY TapeAssumption
    <3>2. (IF position < 0 \/ position >= SignedCells THEN {"LEADER"} ELSE {})
             \in SUBSET Flags
      BY DEF Flags
    <3>3. QED
      BY <1>1, <3>1, <3>2, FinishTyped DEF PollStop
  <2>2. control' \in BOOLEAN
    BY <1>1 DEF PollStop
  <2>3. QED
    BY <1>1, <1>t, <2>1, <2>2 DEF PollStop, TypeOK, media
<1>2. CASE PollRewind
  <2>1. active' = FALSE /\ response' \in Responses
    BY <1>2, FinishTyped, TapeAssumption DEF PollRewind, Flags
  <2>2. position' \in -1 .. MaxI32
    BY <1>2, TapeAssumption DEF PollRewind
  <2>3. QED
    BY <1>2, <1>t, <2>1, <2>2 DEF PollRewind, TypeOK, media
<1>3. CASE PollNoCassette
  <2>1. active' = FALSE /\ response' \in Responses
    BY <1>3, FinishTyped, TapeAssumption DEF PollNoCassette, Flags
  <2>2. QED
    BY <1>3, <1>t, <2>1 DEF PollNoCassette, TypeOK, media
<1>4. CASE PollWriteRefused
  <2>1. active' = FALSE /\ response' \in Responses
    <3>1. 0 \in Bytes
      BY TapeAssumption
    <3>2. ({"CFI", "SSI"} \cup (IF WriteAt >= SignedCells THEN {"LEADER"} ELSE {}))
             \in SUBSET Flags
      BY DEF Flags
    <3>3. QED
      BY <1>4, <3>1, <3>2, FinishTyped DEF PollWriteRefused
  <2>2. QED
    BY <1>4, <1>t, <2>1 DEF PollWriteRefused, TypeOK, media
<1>5. CASE PollWrite
  <2>1. active' = FALSE /\ response' \in Responses
    BY <1>5, <1>t, FinishTyped DEF PollWrite, Flags, TypeOK
  <2>2. tape' \in [0 .. cells - 1 -> Cell]
    BY <1>5, <1>t, WriteTyped DEF PollWrite
  <2>3. position' \in -1 .. MaxI32
    BY <1>5, <1>t, SignedCellsFact, TapeAssumption
       DEF PollWrite, WriteAt, TypeOK
  <2>4. QED
    BY <1>5, <1>t, <2>1, <2>2, <2>3 DEF PollWrite, TypeOK
<1>6. CASE PollFound
  <2>1. Searches
    BY <1>6 DEF PollFound
  <2>2. PICK k \in 0 .. Budget - 1 :
          /\ Passed(k) /\ OnTape(At(k))
          /\ scan' = At(k) /\ position' = At(k + 1)
          /\ Finish({"CFI"} \cup (IF control /\ tape[At(k)].byte = BOF THEN {"SSI"} ELSE {}),
                    tape[At(k)].byte)
    BY <1>6 DEF PollFound
  <2>3. k \in Nat
    BY TapeAssumption
  <2>4. At(k) \in 0 .. cells - 1 /\ position' \in {At(k) + 1, At(k) - 1}
    BY <2>1, <2>2, <2>3, SearchFacts DEF OnTape, At
  <2>5. tape[At(k)].byte \in Bytes
    BY <2>4, <1>t DEF TypeOK, Cell
  <2>6. active' = FALSE /\ response' \in Responses
    <3>1. ({"CFI"} \cup (IF control /\ tape[At(k)].byte = BOF THEN {"SSI"} ELSE {}))
             \in SUBSET Flags
      BY DEF Flags
    <3>2. QED
      BY <2>2, <2>5, <3>1, FinishTyped
  <2>7. position' \in -1 .. MaxI32 /\ scan' \in -(MaxI32 + 1) .. MaxI32
    BY <2>1, <2>2, <2>4, SearchFacts, TapeAssumption
  <2>8. QED
    BY <1>6, <1>t, <2>6, <2>7 DEF PollFound, TypeOK, media
<1>7. CASE PollEnd
  <2>1. Searches
    BY <1>7 DEF PollEnd
  <2>2. PICK k \in 0 .. Budget - 1 : Passed(k) /\ scan' = At(k) /\ position' = At(k)
    BY <1>7 DEF PollEnd
  <2>3. k \in Nat
    BY TapeAssumption
  <2>4. At(k) \in -1 .. MaxI32
    <3>1. CASE command < 2
      BY <2>1, <2>2, <2>3, <3>1, SearchFacts, PassedForward, TapeAssumption
    <3>2. CASE command >= 2
      BY <2>1, <2>2, <2>3, <3>2, SearchFacts, PassedReverse, TapeAssumption
    <3>3. QED
      BY <2>1, <3>1, <3>2, SearchFacts
  <2>5. position' \in -1 .. MaxI32 /\ scan' \in -(MaxI32 + 1) .. MaxI32
    BY <2>2, <2>4, TapeAssumption
  <2>6. active' = FALSE /\ response' \in Responses
    BY <1>7, FinishTyped, TapeAssumption DEF PollEnd, Flags
  <2>7. QED
    BY <1>7, <1>t, <2>5, <2>6 DEF PollEnd, TypeOK, media
<1>8. QED
  BY <1>1, <1>2, <1>3, <1>4, <1>5, <1>6, <1>7 DEF Answers

-----------------------------------------------------------------------------
LEMMA InitHolds == Init => IInv
<1>1. SUFFICES ASSUME Init PROVE IInv
  OBVIOUS
<1>2. TypeOK
  BY <1>1, InitTyped
<1>3. HeadBounds
  BY <1>1, <1>2, TapeAssumption DEF Init, HeadBounds, TypeOK, MaxCells
<1>4. ~active
  BY <1>1 DEF Init
<1>5. QED
  BY <1>2, <1>3, <1>4 DEF IInv, SearchOnCourse

(* An answer leaves the head within one place of the tape.                 *)
LEMMA AnswerHolds ==
  ASSUME IInv, Answers
  PROVE  IInv'
<1>t. TypeOK /\ HeadBounds
  BY DEF IInv
<1>a. TypeOK' /\ ~active' /\ cells' = cells /\ (present' <=> present)
  BY AnswerTyped
<1>u. cells \in Nat /\ position \in Int
  BY <1>t, TapeAssumption DEF TypeOK, MaxCells
<1>1. HeadBounds'
  <2>1. CASE UNCHANGED position
    BY <1>t, <1>a, <2>1 DEF HeadBounds
  <2>2. CASE position' = -1
    BY <1>t, <1>a, <1>u, <2>2, TapeAssumption DEF HeadBounds
  <2>3. CASE PollWrite
    <3>1. present /\ WriteAt < SignedCells /\ position' = WriteAt + 1
      BY <2>3 DEF PollWrite, Writes
    <3>2. cells <= MaxI32 /\ SignedCells = cells
      BY <1>t, <1>u, <3>1, SignedCellsFact, TapeAssumption DEF HeadBounds
    <3>3. position' <= cells
      BY <1>u, <3>1, <3>2 DEF WriteAt
    <3>4. QED
      BY <1>a, <1>u, <3>2, <3>3, TapeAssumption DEF HeadBounds
  <2>4. CASE PollFound
    <3>1. Searches
      BY <2>4 DEF PollFound
    <3>2. PICK k \in 0 .. Budget - 1 : OnTape(At(k)) /\ position' = At(k + 1)
      BY <2>4 DEF PollFound
    <3>3. position' <= cells
      BY <3>1, <3>2, SearchFacts, TapeAssumption DEF OnTape, At
    <3>4. QED
      BY <1>a, <1>u, <3>1, <3>3, SearchFacts, TapeAssumption DEF HeadBounds
  <2>5. CASE PollEnd
    <3>1. Searches
      BY <2>5 DEF PollEnd
    <3>2. PICK k \in 0 .. Budget - 1 : Passed(k) /\ position' = At(k)
      BY <2>5 DEF PollEnd
    <3>3. k \in Nat
      BY TapeAssumption
    <3>4. At(k) <= cells
      <4>1. CASE command < 2
        BY <3>1, <3>2, <3>3, <4>1, PassedForward
      <4>2. CASE command >= 2
        BY <1>u, <3>1, <3>2, <3>3, <4>2, SearchFacts, PassedReverse
      <4>3. QED
        BY <3>1, <4>1, <4>2, SearchFacts
    <3>5. QED
      BY <1>a, <1>u, <3>1, <3>2, <3>4, SearchFacts, TapeAssumption DEF HeadBounds
  <2>6. QED
    BY <2>1, <2>2, <2>3, <2>4, <2>5
       DEF Answers, PollStop, PollRewind, PollNoCassette, PollWriteRefused
<1>2. QED
  BY <1>a, <1>1 DEF IInv, SearchOnCourse

(* A poll that does not answer keeps the search on its course.             *)
LEMMA PollMoreHolds ==
  ASSUME IInv, PollMore
  PROVE  IInv'
<1>t. TypeOK /\ HeadBounds
  BY DEF IInv
<1>1. Searches
  BY DEF PollMore
<1>2. PICK k \in 0 .. Budget : Passed(k) /\ scan' = At(k)
  BY DEF PollMore
<1>3. k \in Nat
  BY TapeAssumption
<1>4. UNCHANGED <<position, command, control, byte, active, media, response, serving>>
  BY DEF PollMore
<1>5. CASE command < 2
  <2>1. /\ 0 <= scan' /\ position <= scan' /\ scan' <= cells
        /\ \A p \in 0 .. scan' - 1 : p >= position => ~Sought(p)
    BY <1>1, <1>2, <1>3, <1>5, PassedForward
  <2>2. SearchOnCourse'
    BY <1>4, <1>5, <2>1 DEF SearchOnCourse, Sought, media
  <2>3. scan' \in -(MaxI32 + 1) .. MaxI32
    BY <1>1, <1>2, <1>3, <1>5, <2>1, SearchFacts, PassedForward, TapeAssumption
  <2>4. QED
    BY <1>t, <1>4, <2>2, <2>3 DEF IInv, TypeOK, HeadBounds, media
<1>6. CASE command >= 2
  <2>0. ~(command < 2)
    BY <1>1, <1>6, SearchFacts
  <2>1. /\ -1 <= scan' /\ scan' <= position /\ scan' <= cells - 1
        /\ \A p \in scan' + 1 .. cells - 1 : p <= position => ~Sought(p)
    BY <1>1, <1>2, <1>3, <1>6, PassedReverse
  <2>2. SearchOnCourse'
    BY <1>4, <2>0, <2>1 DEF SearchOnCourse, Sought, media
  <2>3. scan' \in -(MaxI32 + 1) .. MaxI32
    BY <1>1, <1>2, <1>3, <1>6, <2>1, SearchFacts, PassedReverse, TapeAssumption
  <2>4. QED
    BY <1>t, <1>4, <2>2, <2>3 DEF IInv, TypeOK, HeadBounds, media
<1>7. QED
  BY <1>1, <1>5, <1>6, SearchFacts

(* A command that begins searches from where the head is.                  *)
LEMMA BeginHolds ==
  ASSUME IInv, NEW request \in Requests, Begin(request)
  PROVE  IInv'
<1>t. TypeOK /\ HeadBounds
  BY DEF IInv
<1>1. TypeOK'
  BY <1>t, BeginTyped
<1>2. UNCHANGED <<position, cells, tape, present, writable>>
  BY DEF Begin, media
<1>3. HeadBounds'
  BY <1>t, <1>2 DEF HeadBounds
<1>4. scan' = IF command' < 2
                THEN IF position < 0 THEN 0 ELSE position
                ELSE IF position >= SignedCells THEN ToI32(SignedCells - 1)
                                                ELSE position
  BY DEF Begin
<1>c. position \in Int /\ -1 <= position /\ cells \in Nat
  BY <1>t, TapeAssumption DEF TypeOK, MaxCells
<1>5. ASSUME cells <= MaxI32, command' < 2
      PROVE  /\ 0 <= scan' /\ position <= scan' /\ scan' <= cells
             /\ \A p \in 0 .. scan' - 1 : ~(p >= position)
  <2>1. scan' = IF position < 0 THEN 0 ELSE position
    BY <1>4, <1>5
  <2>2. position <= cells
    BY <1>t, <1>5 DEF HeadBounds
  <2>3. CASE position < 0
    <3>1. scan' = 0
      BY <2>1, <2>3
    <3>2. QED
      BY <1>c, <2>3, <3>1
  <2>4. CASE ~(position < 0)
    <3>1. scan' = position
      BY <2>1, <2>4
    <3>2. QED
      BY <1>c, <2>2, <2>4, <3>1
  <2>5. QED
    BY <2>3, <2>4
<1>6. ASSUME cells <= MaxI32, ~(command' < 2)
      PROVE  /\ -1 <= scan' /\ scan' <= position /\ scan' <= cells - 1
             /\ \A p \in scan' + 1 .. cells - 1 : ~(p <= position)
  <2>1. scan' = IF position >= SignedCells THEN ToI32(SignedCells - 1) ELSE position
    BY <1>4, <1>6
  <2>2. SignedCells = cells /\ position <= cells
    BY <1>t, <1>6, SignedCellsFact DEF HeadBounds
  <2>3. CASE position >= cells
    <3>1. ToI32(cells - 1) = cells - 1
      BY <1>c, <1>6, TapeAssumption DEF ToI32
    <3>2. scan' = cells - 1
      BY <2>1, <2>2, <2>3, <3>1
    <3>3. QED
      BY <1>c, <2>3, <3>2
  <2>4. CASE ~(position >= cells)
    <3>1. scan' = position
      BY <2>1, <2>2, <2>4
    <3>2. QED
      BY <1>c, <2>4, <3>1
  <2>5. QED
    BY <2>3, <2>4
<1>7. SearchOnCourse'
  BY <1>2, <1>5, <1>6 DEF SearchOnCourse
<1>8. QED
  BY <1>1, <1>3, <1>7 DEF IInv

LEMMA StepHolds == IInv /\ [Next]_vars => IInv'
<1>1. SUFFICES ASSUME IInv, [Next]_vars PROVE IInv'
  OBVIOUS
<1>t. TypeOK /\ HeadBounds /\ SearchOnCourse
  BY <1>1 DEF IInv
<1>2. CASE TapeInit
  <2>1. TypeOK'
    BY <1>t, <1>2, TapeInitTyped
  <2>2. HeadBounds'
    BY <1>2, <2>1, TapeAssumption DEF TapeInit, HeadBounds, TypeOK, MaxCells
  <2>3. ~active'
    BY <1>2 DEF TapeInit
  <2>4. QED
    BY <2>1, <2>2, <2>3 DEF IInv, SearchOnCourse
<1>3. CASE \E request \in Requests : Begin(request)
  BY <1>1, <1>3, BeginHolds
<1>4. CASE Answers
  BY <1>1, <1>4, AnswerHolds
<1>5. CASE PollWriteFails
  <2>1. command = 4 /\ (WriteCell \/ UNCHANGED tape)
    BY <1>5 DEF PollWriteFails, Writes
  <2>2. UNCHANGED <<position, scan, command, control, byte, active, cells, present,
                    writable, response, serving>>
    BY <1>5 DEF PollWriteFails
  <2>3. tape' \in [0 .. cells - 1 -> Cell]
    BY <1>t, <2>1, WriteTyped
  <2>4. TypeOK'
    BY <1>t, <2>2, <2>3 DEF TypeOK
  <2>5. HeadBounds'
    BY <1>t, <2>2 DEF HeadBounds
  <2>6. ~(command' < 4)
    BY <2>1, <2>2
  <2>7. QED
    BY <2>4, <2>5, <2>6 DEF IInv, SearchOnCourse
<1>6. CASE PollMore
  BY <1>1, <1>6, PollMoreHolds
<1>7. CASE Operator
  <2>1. present' \in BOOLEAN /\ writable' \in BOOLEAN /\ (cells > MaxI32 => ~present')
    BY <1>7 DEF Operator
  <2>2. UNCHANGED <<position, scan, command, control, byte, active, cells, tape,
                    response, serving>>
    BY <1>7 DEF Operator
  <2>3. TypeOK'
    BY <1>t, <2>1, <2>2 DEF TypeOK
  <2>4. HeadBounds'
    BY <1>t, <2>1, <2>2 DEF HeadBounds
  <2>5. SearchOnCourse'
    BY <1>t, <2>2 DEF SearchOnCourse, Rewinds, Sought
  <2>6. QED
    BY <2>3, <2>4, <2>5 DEF IInv
<1>8. CASE ServiceChange
  <2>1. serving' \in BOOLEAN
    BY <1>8 DEF ServiceChange
  <2>2. UNCHANGED <<position, scan, command, control, byte, active, cells, tape,
                    present, writable, response>>
    BY <1>8 DEF ServiceChange, media
  <2>3. TypeOK' /\ HeadBounds'
    BY <1>t, <2>1, <2>2 DEF TypeOK, HeadBounds
  <2>4. SearchOnCourse'
    BY <1>t, <2>2 DEF SearchOnCourse, Rewinds, Sought
  <2>5. QED
    BY <2>3, <2>4 DEF IInv
<1>9. CASE UNCHANGED vars
  BY <1>t, <1>9 DEF IInv, TypeOK, HeadBounds, SearchOnCourse, Rewinds, Sought, vars, media
<1>10. QED
  BY <1>1, <1>2, <1>3, <1>4, <1>5, <1>6, <1>7, <1>8, <1>9 DEF Next, Poll

LEMMA Invariance == Spec => []IInv
BY InitHolds, StepHolds, PTL DEF Spec

(* The types hold: no head or search position leaves an int32_t, whatever  *)
(* length of cassette is loaded.                                           *)
THEOREM TypeCorrect == Spec => []TypeOK
<1>1. IInv => TypeOK
  BY DEF IInv
<1>2. QED
  BY <1>1, Invariance, PTL

(* A search never passes what it is looking for, however it is cut up.     *)
THEOREM SearchCorrect == Spec => []NothingSkipped
<1>1. IInv => NothingSkipped
  <2>1. SUFFICES ASSUME IInv, active, present, command < 4, ~Rewinds
                 PROVE  IF command < 2
                          THEN /\ scan <= cells
                               /\ \A p \in 0 .. scan - 1 : p >= position => ~Sought(p)
                          ELSE /\ scan >= -1
                               /\ \A p \in scan + 1 .. cells - 1 : p <= position => ~Sought(p)
    BY DEF NothingSkipped
  <2>2. cells <= MaxI32
    BY <2>1, TapeAssumption DEF IInv, HeadBounds, TypeOK, MaxCells
  <2>3. QED
    BY <2>1, <2>2, TapeAssumption DEF IInv, SearchOnCourse, TypeOK
<1>2. QED
  BY <1>1, Invariance, PTL

-----------------------------------------------------------------------------
(* What an answer's flags tell about the flags it was finished with.       *)
LEMMA FinishFlags ==
  ASSUME NEW flags, NEW data, Finish(flags, data)
  PROVE  /\ active' = FALSE /\ response'.byte = data
         /\ "CFI" \in response'.flags <=> "CFI" \in flags
         /\ "SSI" \in response'.flags <=> "SSI" \in flags
BY DEF Finish

LEMMA WriteJustPast ==
  ASSUME IInv, PollWrite
  PROVE  HeadJustPast'
<1>t. TypeOK
  BY DEF IInv
<1>1. Writes /\ WriteAt < SignedCells /\ WriteCell /\ position' = WriteAt + 1
  BY DEF PollWrite
<1>2. UNCHANGED <<command, control, byte, cells>>
  BY DEF PollWrite
<1>3. command = 4 /\ present
  BY <1>1 DEF Writes
<1>4. SignedCells = cells /\ WriteAt \in 0 .. cells - 1
  BY <1>t, <1>1, <1>3, SignedCellsFact, TapeAssumption
     DEF IInv, HeadBounds, TypeOK, WriteAt, MaxCells
<1>5. response'.byte = byte
  BY FinishFlags DEF PollWrite
<1>6. tape'[WriteAt] = [control |-> control, byte |-> byte]
  BY <1>t, <1>1, <1>4 DEF WriteCell, TypeOK
<1>7. tape'[WriteAt].byte = byte /\ (control => tape'[WriteAt].control)
  BY <1>6
<1>8. position' - 1 = WriteAt
  BY <1>1, <1>4
<1>9. QED
  BY <1>2, <1>3, <1>4, <1>5, <1>7, <1>8 DEF HeadJustPast

LEMMA FoundJustPast ==
  ASSUME IInv, PollFound
  PROVE  HeadJustPast'
<1>1. Searches
  BY DEF PollFound
<1>2. PICK k \in 0 .. Budget - 1 :
        /\ OnTape(At(k)) /\ Sought(At(k)) /\ position' = At(k + 1)
        /\ Finish({"CFI"} \cup (IF control /\ tape[At(k)].byte = BOF THEN {"SSI"} ELSE {}),
                  tape[At(k)].byte)
  BY DEF PollFound
<1>3. UNCHANGED <<command, control, byte, cells, tape>>
  BY DEF PollFound, media
<1>4. response'.byte = tape[At(k)].byte
  BY <1>2, FinishFlags
<1>5. At(k) \in 0 .. cells - 1 /\ command \in 0 .. 3 /\ k \in Nat
  BY <1>1, <1>2, SearchFacts, TapeAssumption DEF OnTape, At
<1>6. At(k) = IF command < 2 \/ command = 4 THEN position' - 1 ELSE position' + 1
  BY <1>1, <1>2, <1>5, SearchFacts DEF At
<1>7. control => tape[At(k)].control
  BY <1>2 DEF Sought
<1>8. QED
  BY <1>3, <1>4, <1>5, <1>6, <1>7 DEF HeadJustPast

LEMMA StepJustPast == IInv /\ HeadJustPast /\ [Next]_vars => HeadJustPast'
<1>1. SUFFICES ASSUME IInv, HeadJustPast, [Next]_vars PROVE HeadJustPast'
  OBVIOUS
<1>2. CASE TapeInit
  BY <1>2 DEF TapeInit, HeadJustPast, NoResponse
<1>3. CASE \E request \in Requests : Begin(request)
  BY <1>3 DEF Begin, HeadJustPast
<1>4. CASE PollStop
  <2>1. "CFI" \notin response'.flags
    <3>1. PICK flags \in SUBSET {"LEADER"} : Finish(flags, 0)
      BY <1>4 DEF PollStop
    <3>2. "CFI" \notin flags
      OBVIOUS
    <3>3. QED
      BY <3>1, <3>2, FinishFlags
  <2>2. QED
    BY <2>1 DEF HeadJustPast
<1>5. CASE PollRewind
  <2>1. "CFI" \notin response'.flags
    <3>1. Finish({"LEADER"}, 0)
      BY <1>5 DEF PollRewind
    <3>2. "CFI" \notin {"LEADER"}
      OBVIOUS
    <3>3. QED
      BY <3>1, <3>2, FinishFlags
  <2>2. QED
    BY <2>1 DEF HeadJustPast
<1>6. CASE PollNoCassette \/ PollEnd
  <2>1. "SSI" \in response'.flags /\ response'.byte = 0
    BY <1>6, FinishFlags DEF PollNoCassette, PollEnd
  <2>2. QED
    BY <2>1, TapeAssumption DEF HeadJustPast
<1>7. CASE PollWriteRefused
  <2>1. "SSI" \in response'.flags /\ response'.byte = 0
    <3>1. PICK flags : "SSI" \in flags /\ Finish(flags, 0)
      <4>1. Finish({"CFI", "SSI"} \cup (IF WriteAt >= SignedCells THEN {"LEADER"} ELSE {}), 0)
        BY <1>7 DEF PollWriteRefused
      <4>2. QED
        BY <4>1
    <3>2. QED
      BY <3>1, FinishFlags
  <2>2. QED
    BY <2>1, TapeAssumption DEF HeadJustPast
<1>8. CASE PollWrite
  BY <1>1, <1>8, WriteJustPast
<1>9. CASE PollFound
  BY <1>1, <1>9, FoundJustPast
<1>10. CASE PollWriteFails \/ PollMore
  BY <1>10 DEF PollWriteFails, PollMore, Writes, Searches, Polled, HeadJustPast
<1>11. CASE Operator \/ ServiceChange \/ UNCHANGED vars
  <2>1. UNCHANGED <<position, command, control, active, cells, tape, response>>
    BY <1>11 DEF Operator, ServiceChange, vars, media
  <2>2. QED
    BY <1>1, <2>1 DEF HeadJustPast
<1>12. QED
  BY <1>1, <1>2, <1>3, <1>4, <1>5, <1>6, <1>7, <1>8, <1>9, <1>10, <1>11
     DEF Next, Poll, Answers

(* Turning round re-reads the cell that was delivered last.                *)
THEOREM TurnRereads == Spec => []HeadJustPast
<1>1. Init => HeadJustPast
  BY DEF Init, HeadJustPast, NoResponse
<1>2. QED
  BY <1>1, StepJustPast, Invariance, PTL DEF Spec

-----------------------------------------------------------------------------
(* Each step is one the abstract drive makes, or none.                     *)
LEMMA InitRefines == Init => Drive!Init
<1>1. SUFFICES ASSUME Init PROVE Drive!Init
  OBVIOUS
<1>2. cells \in Nat /\ tape \in [0 .. cells - 1 -> Cell]
  BY <1>1, TapeAssumption DEF Init, MaxCells
<1>3. /\ position = -1 /\ command = 5 /\ byte = 0
      /\ response = NoResponse
  BY <1>1 DEF Init
<1>4. control = FALSE /\ active = FALSE
  BY <1>1 DEF Init
<1>5. present \in BOOLEAN /\ writable \in BOOLEAN
  BY <1>1 DEF Init
<1>6. QED
  BY <1>2, <1>3, <1>4, <1>5
     DEF Drive!Init, Drive!Cell, Cell, Drive!NoResponse, NoResponse

LEMMA LoadRefines == TapeInit => Drive!Load
<1>1. SUFFICES ASSUME TapeInit PROVE Drive!Load
  OBVIOUS
<1>2. cells' \in Nat /\ tape' \in [0 .. cells' - 1 -> Cell]
  BY <1>1, TapeAssumption DEF TapeInit, MaxCells
<1>3. /\ position' = -1 /\ command' = 5 /\ byte' = 0
      /\ response' = NoResponse
  BY <1>1 DEF TapeInit
<1>4. control' = FALSE /\ active' = FALSE
  BY <1>1 DEF TapeInit
<1>5. present' \in BOOLEAN /\ writable' \in BOOLEAN
  BY <1>1 DEF TapeInit
<1>6. QED
  BY <1>2, <1>3, <1>4, <1>5
     DEF Drive!Load, Drive!Cell, Cell, Drive!NoResponse, NoResponse

(* The two ways to compare the head with the end of the tape agree.        *)
LEMMA EndAgrees ==
  ASSUME IInv
  PROVE  /\ position < 0 \/ position >= SignedCells <=> Drive!OffTape(position)
         /\ present => (WriteAt >= SignedCells <=> Drive!WriteAt >= cells)
         /\ present => (WriteAt < SignedCells <=> Drive!WriteAt < cells)
         /\ Drive!WriteAt = WriteAt
<1>1. TypeOK /\ HeadBounds
  BY DEF IInv
<1>2. CASE cells <= MaxI32
  BY <1>1, <1>2, SignedCellsFact, TapeAssumption
     DEF TypeOK, WriteAt, Drive!WriteAt, Drive!OffTape
<1>3. CASE ~(cells <= MaxI32)
  BY <1>1, <1>3, SignedCellsFact, TapeAssumption
     DEF TypeOK, HeadBounds, WriteAt, Drive!WriteAt, Drive!OffTape, MaxCells
<1>4. QED
  BY <1>2, <1>3

LEMMA FinishRefines ==
  ASSUME active, NEW flags, NEW data, Finish(flags, data)
  PROVE  Drive!Answer(flags, data)
BY DEF Finish, Drive!Answer

LEMMA FoundRefines ==
  ASSUME IInv, PollFound
  PROVE  Drive!ReadForward \/ Drive!ReadReverse
<1>1. Searches /\ active /\ present
  BY DEF PollFound, Searches, Polled
<1>2. PICK k \in 0 .. Budget - 1 :
        /\ Passed(k)
        /\ OnTape(At(k)) /\ Sought(At(k)) /\ position' = At(k + 1)
        /\ Finish({"CFI"} \cup (IF control /\ tape[At(k)].byte = BOF THEN {"SSI"} ELSE {}),
                  tape[At(k)].byte)
  BY DEF PollFound
<1>3. k \in Nat /\ At(k) \in 0 .. cells - 1
  BY <1>1, <1>2, SearchFacts, TapeAssumption DEF OnTape, At
<1>4. Drive!Answer({"CFI"} \cup (IF control /\ tape[At(k)].byte = BOF THEN {"SSI"} ELSE {}),
                   tape[At(k)].byte)
  BY <1>1, <1>2, FinishRefines
<1>5. UNCHANGED <<command, control, byte, cells, tape, present, writable>>
  BY DEF PollFound, media
<1>6. Drive!Reads
  BY <1>1, SearchFacts DEF Drive!Reads, Searches, Rewinds
<1>7. Drive!Sought(At(k))
  BY <1>2 DEF Sought, Drive!Sought
<1>8. CASE command < 2
  <2>1. /\ At(k) >= position /\ position' = At(k) + 1
        /\ \A p \in 0 .. At(k) - 1 : p >= position => ~Sought(p)
    BY <1>1, <1>2, <1>3, <1>8, SearchFacts, PassedForward DEF At
  <2>2. QED
    BY <1>1, <1>3, <1>4, <1>5, <1>6, <1>7, <1>8, <2>1
       DEF Drive!ReadForward, Drive!Sought, Sought, Drive!cassette
<1>9. CASE command >= 2
  <2>0. ~(command < 2)
    BY <1>1, <1>9, SearchFacts
  <2>1. /\ At(k) <= position /\ position' = At(k) - 1
        /\ \A p \in At(k) + 1 .. cells - 1 : p <= position => ~Sought(p)
    <3>1. At(k + 1) = At(k) - 1
      BY <1>1, <1>3, <2>0, SearchFacts DEF At
    <3>2. QED
      BY <1>1, <1>2, <1>3, <1>9, <3>1, PassedReverse
  <2>2. QED
    BY <1>1, <1>3, <1>4, <1>5, <1>6, <1>7, <1>9, <2>1
       DEF Drive!ReadReverse, Drive!Sought, Sought, Drive!cassette
<1>10. QED
  BY <1>1, <1>8, <1>9, SearchFacts

LEMMA EndRefines ==
  ASSUME IInv, PollEnd
  PROVE  Drive!ReadOff
<1>1. Searches /\ active /\ present
  BY DEF PollEnd, Searches, Polled
<1>2. PICK k \in 0 .. Budget - 1 : Passed(k) /\ ~OnTape(At(k)) /\ position' = At(k)
  BY DEF PollEnd
<1>3. k \in Nat
  BY TapeAssumption
<1>4. Drive!Answer({"CFI", "SSI", "LEADER"}, 0)
  BY <1>1, FinishRefines DEF PollEnd
<1>5. UNCHANGED <<command, control, byte, cells, tape, present, writable>>
  BY DEF PollEnd, media
<1>6. Drive!Reads
  BY <1>1, SearchFacts DEF Drive!Reads, Searches, Rewinds
<1>7. CASE command < 2
  <2>1. /\ 0 <= At(k) /\ At(k) <= cells /\ At(k) \in Int
        /\ \A p \in 0 .. At(k) - 1 : p >= position => ~Sought(p)
    BY <1>1, <1>2, <1>3, <1>7, SearchFacts, PassedForward
  <2>2. At(k) = cells
    BY <1>1, <1>2, <2>1, SearchFacts DEF OnTape
  <2>3. QED
    BY <1>1, <1>2, <1>4, <1>5, <1>6, <1>7, <2>1, <2>2
       DEF Drive!ReadOff, Drive!Sought, Sought, Drive!cassette
<1>8. CASE command >= 2
  <2>0. ~(command < 2)
    BY <1>1, <1>8, SearchFacts
  <2>1. /\ -1 <= At(k) /\ At(k) <= cells - 1 /\ At(k) \in Int
        /\ \A p \in At(k) + 1 .. cells - 1 : p <= position => ~Sought(p)
    BY <1>1, <1>2, <1>3, <1>8, SearchFacts, PassedReverse
  <2>2. At(k) = -1
    BY <1>1, <1>2, <2>1, SearchFacts DEF OnTape
  <2>3. \A p \in 0 .. cells - 1 : p <= position => ~Sought(p)
    BY <2>1, <2>2
  <2>4. QED
    BY <1>1, <1>2, <1>4, <1>5, <1>6, <2>0, <2>2, <2>3
       DEF Drive!ReadOff, Drive!Sought, Sought, Drive!cassette
<1>9. QED
  BY <1>1, <1>7, <1>8, SearchFacts

LEMMA StepRefines == IInv /\ [Next]_vars => [Drive!Next]_(Drive!vars)
<1>1. SUFFICES ASSUME IInv, [Next]_vars PROVE Drive!Next \/ UNCHANGED Drive!vars
  BY DEF Drive!vars
<1>2. CASE TapeInit
  BY <1>2, LoadRefines DEF Drive!Next
<1>3. ASSUME NEW request \in Requests, Begin(request)
      PROVE  Drive!Next
  <2>1. request \in Drive!Requests
    BY DEF Requests, Drive!Requests
  <2>2. Drive!Command(request)
    BY <1>3 DEF Begin, Drive!Command, NoResponse, Drive!NoResponse, media, Drive!cassette
  <2>3. QED
    BY <2>1, <2>2 DEF Drive!Next
<1>4. CASE PollStop
  <2>1. active
    BY <1>4 DEF PollStop, Polled
  <2>2. Drive!Answer(IF position < 0 \/ position >= SignedCells THEN {"LEADER"} ELSE {}, 0)
    BY <1>4, <2>1, FinishRefines DEF PollStop
  <2>3. Drive!Answer(IF Drive!OffTape(position) THEN {"LEADER"} ELSE {}, 0)
    BY <1>1, <2>2, EndAgrees
  <2>4. Drive!Stop
    BY <1>4, <2>3 DEF PollStop, Stops, Drive!Stop, media, Drive!cassette
  <2>5. QED
    BY <2>4 DEF Drive!Next
<1>5. CASE PollRewind
  <2>1. Drive!Answer({"LEADER"}, 0)
    BY <1>5, FinishRefines DEF PollRewind, Polled
  <2>2. Drive!Rewind
    BY <1>5, <2>1 DEF PollRewind, Rewinds, Drive!Rewind, Drive!Rewinds, media, Drive!cassette
  <2>3. QED
    BY <2>2 DEF Drive!Next
<1>6. CASE PollNoCassette
  <2>1. Drive!Answer({"CFI", "SSI", "LEADER"}, 0)
    BY <1>6, FinishRefines DEF PollNoCassette, Polled
  <2>2. Drive!NoCassette
    BY <1>6, <2>1
       DEF PollNoCassette, Stops, Rewinds, Drive!NoCassette, Drive!Rewinds,
           media, Drive!cassette
  <2>3. QED
    BY <2>2 DEF Drive!Next
<1>7. CASE PollWriteRefused
  <2>1. active /\ command = 4 /\ present
    BY <1>7 DEF PollWriteRefused, Writes, Polled
  <2>2. Drive!Answer({"CFI", "SSI"} \cup (IF WriteAt >= SignedCells THEN {"LEADER"} ELSE {}), 0)
    BY <1>7, <2>1, FinishRefines DEF PollWriteRefused
  <2>3. Drive!Answer({"CFI", "SSI"} \cup (IF Drive!WriteAt >= cells THEN {"LEADER"} ELSE {}), 0)
    BY <1>1, <2>1, <2>2, EndAgrees
  <2>4. ~writable \/ Drive!WriteAt >= cells
    BY <1>1, <1>7, <2>1, EndAgrees DEF PollWriteRefused
  <2>5. Drive!WriteRefused
    BY <1>7, <2>1, <2>3, <2>4 DEF PollWriteRefused, Drive!WriteRefused, media, Drive!cassette
  <2>6. QED
    BY <2>5 DEF Drive!Next
<1>8. CASE PollWrite \/ PollWriteFails
  <2>1. active /\ command = 4 /\ present /\ writable
    BY <1>8 DEF PollWrite, PollWriteFails, Writes, Polled
  <2>2. Drive!WriteAt < cells /\ Drive!WriteAt = WriteAt
    BY <1>1, <1>8, <2>1, EndAgrees DEF PollWrite, PollWriteFails
  <2>3. WriteCell => Drive!Put
    BY <2>2 DEF WriteCell, Drive!Put
  <2>4. CASE PollWrite
    <3>1. Drive!Answer({"CFI"}, byte)
      BY <2>1, <2>4, FinishRefines DEF PollWrite
    <3>2. Drive!Write
      BY <2>1, <2>2, <2>3, <2>4, <3>1 DEF PollWrite, Drive!Write
    <3>3. QED
      BY <3>2 DEF Drive!Next
  <2>5. CASE PollWriteFails
    <3>1. UNCHANGED <<position, command, control, byte, active, response,
                      cells, present, writable>>
      BY <2>5 DEF PollWriteFails
    <3>2. CASE WriteCell
      <4>1. Drive!WriteFails
        BY <2>1, <2>2, <2>3, <3>1, <3>2 DEF Drive!WriteFails
      <4>2. QED
        BY <4>1 DEF Drive!Next
    <3>3. CASE UNCHANGED tape
      BY <3>1, <3>3 DEF Drive!vars
    <3>4. QED
      BY <2>5, <3>2, <3>3 DEF PollWriteFails
  <2>6. QED
    BY <1>8, <2>4, <2>5
<1>9. CASE PollFound
  BY <1>1, <1>9, FoundRefines DEF Drive!Next
<1>10. CASE PollEnd
  BY <1>1, <1>10, EndRefines DEF Drive!Next
<1>11. CASE PollMore \/ ServiceChange \/ UNCHANGED vars
  BY <1>11 DEF PollMore, ServiceChange, vars, media, Drive!vars
<1>12. CASE Operator
  <2>1. Drive!Operator
    BY <1>12 DEF Operator, Drive!Operator
  <2>2. QED
    BY <2>1 DEF Drive!Next
<1>13. QED
  BY <1>1, <1>2, <1>3, <1>4, <1>5, <1>6, <1>7, <1>8, <1>9, <1>10, <1>11, <1>12
     DEF Next, Poll, Answers

(* To the HP the component is a cassette drive that answers in one look.   *)
THEOREM ImplementsDrive == Spec => IsCassetteDrive
<1>1. Spec => Drive!Init /\ [][Drive!Next]_(Drive!vars)
  BY InitRefines, StepRefines, Invariance, PTL DEF Spec
<1>2. QED
  BY <1>1 DEF IsCassetteDrive, Drive!Spec

=============================================================================
