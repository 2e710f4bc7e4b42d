---------------------------- MODULE FirmwareProofs ----------------------------
(***************************************************************************)
(* Proofs about Firmware, the storage and the tape component on one main   *)
(* loop.  Every step of the loop is a step of Storage or leaves the card   *)
(* alone, so the inductive invariant of StorageProofs holds here too; what *)
(* is added to it says where a tape command may be under way.              *)
(***************************************************************************)
EXTENDS Firmware, TLAPS

CardProofs == INSTANCE StorageProofs

(* A command is under way in service, or left over in a fault and on the   *)
(* way back from it, but never since the card was last let go of.          *)
CommandPlace ==
  active => /\ pc \in {"idle", "fail", "reset", "mount", "prepare"}
            /\ ~usb_owned

(* What is captured is captured on the line.                               *)
QueuedOnLine == queued # NoRequest => hp_run

IInv ==
  /\ CardProofs!IInv
  /\ CommandPlace
  /\ QueuedOnLine

-----------------------------------------------------------------------------
(***************************************************************************)
(* The card's side.                                                        *)
(***************************************************************************)

(* The proofs of Storage are about the storage component of this module.   *)
LEMMA SameInit == Card!Init => CardProofs!Init
BY DEF Card!Init, CardProofs!Init, Card!NoTransfer, CardProofs!NoTransfer

LEMMA SameNext == [Card!Next]_cardVars => [CardProofs!Next]_(CardProofs!vars)
<1> USE DEF Card!own, CardProofs!own, Card!host, CardProofs!host, Card!data,
            CardProofs!data, Card!U32, CardProofs!U32, Card!SetHpRun,
            CardProofs!SetHpRun, Card!CallbackFails, CardProofs!CallbackFails,
            Card!NoTransfer, CardProofs!NoTransfer
<1> SUFFICES ASSUME [Card!Next]_cardVars
             PROVE  CardProofs!Next \/ UNCHANGED CardProofs!vars
  OBVIOUS
<1>1. CASE UNCHANGED cardVars
  BY <1>1 DEF cardVars, CardProofs!vars
<1>2. ASSUME NEW count \in Card!U32, Card!StorageInit(count) PROVE CardProofs!Next
  BY <1>2 DEF Card!StorageInit, CardProofs!StorageInit, CardProofs!Next
<1>3. CASE Card!EnterMsc \/ Card!LeaveMsc \/ Card!UsbAttach \/ Card!CellWrite
  <2>1. CardProofs!EnterMsc \/ CardProofs!LeaveMsc \/ CardProofs!UsbAttach
          \/ CardProofs!CellWrite
    BY <1>3 DEF Card!EnterMsc, CardProofs!EnterMsc, Card!LeaveMsc, CardProofs!LeaveMsc,
                Card!UsbAttach, CardProofs!UsbAttach, Card!CellWrite,
                CardProofs!CellWrite, Card!ServesFiles, CardProofs!ServesFiles
  <2> QED BY <2>1 DEF CardProofs!Next
<1>4. CASE Card!Mount \/ Card!Prepare \/ Card!Run \/ Card!Ready
  <2>1. CardProofs!Mount \/ CardProofs!Prepare \/ CardProofs!Run \/ CardProofs!Ready
    BY <1>4 DEF Card!Mount, CardProofs!Mount, Card!Prepare, CardProofs!Prepare,
                Card!Run, CardProofs!Run, Card!Ready, CardProofs!Ready
  <2> QED BY <2>1 DEF CardProofs!Next, CardProofs!Continue
<1>5. CASE Card!HpOff \/ Card!FlushClose \/ Card!Sync \/ Card!Unmount
  <2>1. CardProofs!HpOff \/ CardProofs!FlushClose \/ CardProofs!Sync
          \/ CardProofs!Unmount
    BY <1>5 DEF Card!HpOff, CardProofs!HpOff, Card!FlushClose, CardProofs!FlushClose,
                Card!Sync, CardProofs!Sync, Card!Unmount, CardProofs!Unmount
  <2> QED BY <2>1 DEF CardProofs!Next, CardProofs!Continue
<1>6. CASE Card!UsbStart \/ Card!Detach \/ Card!UsbStop \/ Card!Fail
  <2>1. CardProofs!UsbStart \/ CardProofs!Detach \/ CardProofs!UsbStop
          \/ CardProofs!Fail
    BY <1>6 DEF Card!UsbStart, CardProofs!UsbStart, Card!Detach, CardProofs!Detach,
                Card!UsbStop, CardProofs!UsbStop, Card!Fail, CardProofs!Fail,
                Card!UsbDetached, CardProofs!UsbDetached
  <2> QED BY <2>1 DEF CardProofs!Next, CardProofs!Continue
<1>7. CASE Card!General
  <2>1. CardProofs!GeneralRead \/ CardProofs!GeneralWrite
    BY <1>7 DEF Card!General, Card!GeneralRead, CardProofs!GeneralRead,
                Card!GeneralWrite, CardProofs!GeneralWrite, Card!ServesFiles,
                CardProofs!ServesFiles
  <2> QED BY <2>1 DEF CardProofs!Next, CardProofs!General
<1>8. ASSUME NEW write \in BOOLEAN, NEW lba \in Card!U32, NEW blocks \in Card!U32,
             Card!BlockCall(write, lba, blocks)
      PROVE  CardProofs!Next
  <2>1. CardProofs!BlockCall(write, lba, blocks)
    BY <1>8 DEF Card!BlockCall, CardProofs!BlockCall, Card!BlockAccess,
                CardProofs!BlockAccess
  <2> QED BY <2>1 DEF CardProofs!Next, CardProofs!Host
<1>9. CASE Card!BlockDone \/ Card!HostEject \/ Card!HostReconnect
  <2>1. CardProofs!BlockDone \/ CardProofs!HostEject \/ CardProofs!HostReconnect
    BY <1>9 DEF Card!BlockDone, CardProofs!BlockDone, Card!HostEject,
                CardProofs!HostEject, Card!HostReconnect, CardProofs!HostReconnect
  <2> QED BY <2>1 DEF CardProofs!Next, CardProofs!Host
<1>10. CASE Card!HpRequest \/ Card!PowerLoss
  <2>1. CardProofs!HpRequest \/ CardProofs!PowerLoss
    BY <1>10 DEF Card!HpRequest, CardProofs!HpRequest, Card!PowerLoss,
                 CardProofs!PowerLoss
  <2> QED BY <2>1 DEF CardProofs!Next
<1> QED
  BY <1>1, <1>2, <1>3, <1>4, <1>5, <1>6, <1>7, <1>8, <1>9, <1>10
  DEF Card!Next, Card!Continue, Card!Host

-----------------------------------------------------------------------------
(* What the main loop does to the card is a step of Storage, or nothing.   *)
LEMMA StepOfCard == [Next]_vars => [Card!Next]_cardVars
<1> SUFFICES ASSUME [Next]_vars PROVE Card!Next \/ UNCHANGED cardVars
  OBVIOUS
<1>1. CASE EnterMsc
  BY <1>1 DEF EnterMsc, Card!Next
<1>2. CASE Prepare
  BY <1>2 DEF Prepare, Card!Next, Card!Continue
<1>3. CASE Transition
  BY <1>3 DEF Transition, Card!Next, Card!Continue
<1>4. CASE General
  BY <1>4 DEF General, Card!Next
<1>5. CASE TapeBegin
  BY <1>5 DEF TapeBegin
<1>6. CASE TapePoll
  BY <1>6 DEF TapePoll, Card!Next
<1>7. CASE HpGeneral
  BY <1>7 DEF HpGeneral, Card!Next
<1>8. CASE HpTape \/ Operator
  BY <1>8 DEF HpTape, Operator
<1>9. CASE UsbHost
  BY <1>9 DEF UsbHost, Card!Next
<1>10. CASE UNCHANGED vars
  BY <1>10 DEF vars
<1> QED
  BY <1>1, <1>2, <1>3, <1>4, <1>5, <1>6, <1>7, <1>8, <1>9, <1>10 DEF Next

LEMMA CardStepHolds ==
  ASSUME CardProofs!IInv, [Next]_vars
  PROVE  CardProofs!IInv'
<1>1. [CardProofs!Next]_(CardProofs!vars)
  BY StepOfCard, SameNext
<1> QED BY <1>1, FirmwareAssumption, CardProofs!StepHolds

(* What is true of the card where the tape component may touch it.         *)
LEMMA ServedCard ==
  ASSUME CardProofs!IInv, Card!ServesFiles, pc = "idle"
  PROVE  fs /\ ~usb /\ hp_run /\ ~usb_owned
BY DEF CardProofs!IInv, CardProofs!Agreement, CardProofs!AtLocation, Card!ServesFiles

-----------------------------------------------------------------------------
(***************************************************************************)
(* The invariant of the composition.                                       *)
(***************************************************************************)
LEMMA InitHolds == Init => IInv
<1> SUFFICES ASSUME Init PROVE IInv
  OBVIOUS
<1>1. CardProofs!IInv
  BY SameInit, FirmwareAssumption, CardProofs!InitHolds DEF Init
<1>2. CommandPlace /\ QueuedOnLine
  BY DEF Init, Cassette!Init, CommandPlace, QueuedOnLine
<1> QED BY <1>1, <1>2 DEF IInv

(* A transition of the storage component takes the card away only at       *)
(* Unmount, and no command is under way there.                             *)
LEMMA TransitionKeepsPlace ==
  ASSUME CardProofs!IInv, CommandPlace, Transition
  PROVE  CommandPlace'
<1> SUFFICES ASSUME active PROVE CommandPlace'
  BY DEF CommandPlace, Transition, tapeVars
<1> USE DEF CommandPlace, Card!own, Card!SetHpRun, Card!CallbackFails
<1>1. pc \in {"idle", "fail", "reset", "mount", "prepare"} /\ ~usb_owned
  OBVIOUS
<1>2. ASSUME NEW count \in Card!U32, Card!StorageInit(count) PROVE CommandPlace'
  BY <1>2 DEF Card!StorageInit
<1>3. CASE Card!LeaveMsc
  BY <1>3, <1>1 DEF Card!LeaveMsc, CardProofs!IInv, CardProofs!AtLocation
<1>4. CASE Card!Mount
  BY <1>4, <1>1 DEF Card!Mount
<1>5. CASE Card!Fail \/ Card!PowerLoss
  BY <1>5, <1>1 DEF Card!Fail, Card!PowerLoss
<1>6. CASE \/ Card!Run \/ Card!Ready \/ Card!HpOff \/ Card!FlushClose \/ Card!Sync
           \/ Card!Unmount \/ Card!UsbAttach \/ Card!UsbStart \/ Card!Detach \/ Card!UsbStop
  BY <1>6, <1>1 DEF Card!Run, Card!Ready, Card!HpOff, Card!FlushClose, Card!Sync,
                    Card!Unmount, Card!UsbAttach, Card!UsbStart, Card!Detach, Card!UsbStop
<1> QED BY <1>2, <1>3, <1>4, <1>5, <1>6 DEF Transition

(* Off the line nothing stays captured.                                    *)
LEMMA StepKeepsLine ==
  ASSUME QueuedOnLine, [Next]_vars
  PROVE  QueuedOnLine'
<1> USE DEF QueuedOnLine, Card!own, Card!CallbackFails
<1>1. CASE Transition
  BY <1>1 DEF Transition, CapturedTape
<1>2. CASE EnterMsc \/ Prepare \/ General
  BY <1>2 DEF EnterMsc, Card!EnterMsc, Prepare, Card!Prepare, General, Card!General,
              Card!GeneralRead, Card!GeneralWrite
<1>3. CASE TapeBegin \/ TapePoll \/ Operator
  BY <1>3 DEF TapeBegin, TapePoll, Card!CellWrite, Operator, cardVars
<1>4. CASE HpGeneral \/ HpTape \/ UsbHost
  BY <1>4 DEF HpGeneral, Card!HpRequest, HpTape, UsbHost, Card!Host, Card!BlockCall,
              Card!BlockDone, Card!HostEject, Card!HostReconnect, cardVars
<1>5. CASE UNCHANGED vars
  BY <1>5 DEF vars, cardVars
<1> QED BY <1>1, <1>2, <1>3, <1>4, <1>5 DEF Next

LEMMA StepHolds == IInv /\ [Next]_vars => IInv'
<1> SUFFICES ASSUME IInv, [Next]_vars PROVE IInv'
  OBVIOUS
<1> USE DEF CommandPlace
<1>1. CardProofs!IInv' /\ QueuedOnLine'
  BY CardStepHolds, StepKeepsLine DEF IInv
<1>2. CommandPlace
  BY DEF IInv
<1> SUFFICES CommandPlace'
  BY <1>1 DEF IInv
<1>3. CASE EnterMsc
  BY <1>3 DEF EnterMsc, tapeVars
<1>4. CASE Prepare
  <2>1. CASE pc' = "run"
    BY <1>4, <2>1 DEF Prepare, Cassette!TapeInit
  <2>2. CASE pc' # "run"
    BY <1>2, <1>4, <2>2 DEF Prepare, Card!Prepare, Card!CallbackFails, Card!own, tapeVars
  <2> QED BY <2>1, <2>2
<1>5. CASE Transition
  BY <1>2, <1>5, TransitionKeepsPlace DEF IInv
<1>6. CASE General
  BY <1>2, <1>6 DEF General, Card!General, Card!GeneralRead, Card!GeneralWrite,
                    Card!CallbackFails, Card!own, tapeVars
<1>7. CASE TapeBegin
  <2>1. ~usb_owned
    BY <1>7 DEF TapeBegin, Cassette!Begin, Card!ServesFiles
  <2> QED BY <2>1, <1>7 DEF TapeBegin, cardVars
<1>8. CASE TapePoll
  <2>1. UNCHANGED <<pc, usb_owned>>
    BY <1>8 DEF TapePoll, cardVars, Card!CellWrite, Card!own
  <2>2. pc = "idle"
    BY <1>8 DEF TapePoll
  <2>3. ~usb_owned
    BY <1>8 DEF TapePoll, Card!CellWrite, Card!ServesFiles, Cassette!PollStop,
                Cassette!PollRewind, Cassette!PollNoCassette, Cassette!PollWriteRefused,
                Cassette!PollFound, Cassette!PollEnd, Cassette!PollMore,
                Cassette!PollWriteFails, Cassette!Polled, Cassette!Writes,
                Cassette!Searches
  <2> QED BY <2>1, <2>2, <2>3
<1>9. CASE HpGeneral \/ UsbHost
  BY <1>2, <1>9 DEF HpGeneral, Card!HpRequest, UsbHost, Card!Host, Card!BlockCall,
                    Card!BlockDone, Card!HostEject, Card!HostReconnect, Card!own, tapeVars
<1>10. CASE HpTape \/ Operator \/ UNCHANGED vars
  BY <1>2, <1>10 DEF HpTape, Operator, Cassette!Operator, vars, cardVars, tapeVars
<1> QED BY <1>3, <1>4, <1>5, <1>6, <1>7, <1>8, <1>9, <1>10 DEF Next

LEMMA Invariance == Spec => []IInv
BY InitHolds, StepHolds, PTL DEF Spec

-----------------------------------------------------------------------------
(***************************************************************************)
(* What the model-checked run states.                                      *)
(***************************************************************************)

(* No tape command is under way while the USB host has the card or when    *)
(* the HP is put on the line, for every size of card and every cassette.   *)
THEOREM NoneStale == Spec => []NoStaleCommand
<1>1. IInv => NoStaleCommand
  BY DEF IInv, CommandPlace, NoStaleCommand, CardProofs!IInv, CardProofs!Agreement
<1> QED BY <1>1, Invariance, PTL

(* The tape component moves, finds, writes and answers only while the      *)
(* local file system has the card and the HP is there to be answered.      *)
THEOREM TapeKeepsOff == Spec => TapeOnlyOnOwnCard
<1> DEFINE head  == <<position, scan, tape, response>>
           Moves == head' # head
           Owned == fs /\ ~usb /\ (hp_run \/ pc = "prepare")
<1>1. ASSUME IInv, [Next]_vars PROVE [Moves => Owned]_vars
  <2> SUFFICES ASSUME Moves PROVE Owned
    OBVIOUS
  <2>1. CASE Prepare
    <3>1. pc = "prepare"
      BY <2>1 DEF Prepare, Card!Prepare
    <3> QED BY <1>1, <3>1 DEF IInv, CardProofs!IInv, CardProofs!Agreement,
                              CardProofs!AtLocation
  <2>2. CASE TapeBegin \/ TapePoll
    <3>1. pc = "idle" /\ Card!ServesFiles
      BY <2>2 DEF TapeBegin, Cassette!Begin, TapePoll, Card!CellWrite,
                  Cassette!PollStop, Cassette!PollRewind, Cassette!PollNoCassette,
                  Cassette!PollWriteRefused, Cassette!PollFound, Cassette!PollEnd,
                  Cassette!PollMore, Cassette!PollWriteFails, Cassette!Polled,
                  Cassette!Writes, Cassette!Searches
    <3> QED BY <1>1, <3>1, ServedCard DEF IInv
  <2>3. CASE ~(Prepare \/ TapeBegin \/ TapePoll)
    <3>1. UNCHANGED head
      BY <1>1, <2>3 DEF Next, EnterMsc, Transition, General, HpGeneral, HpTape, UsbHost,
                        Operator, Cassette!Operator, vars, tapeVars
    <3> QED BY <3>1
  <2> QED BY <2>1, <2>2, <2>3
<1> QED BY <1>1, Invariance, PTL DEF Spec, TapeOnlyOnOwnCard

(* A captured tape request is begun and a command begun is answered, but   *)
(* for a fault, a loss of power and what comes after the quiescence check. *)
THEOREM TapeRequestsKept == Spec => TapeRequestsNotDropped
<1> DEFINE Lost     == queued # NoRequest /\ queued' = NoRequest
           Excused  == (~active /\ active') \/ mode' = "FAULT" \/ pc' = "reset" \/ pc = "hp_off"
           Over     == active /\ ~active' /\ hp_run
           Cut      == active /\ hp_run /\ ~hp_run'
           Failed   == mode' = "FAULT" \/ pc' = "reset"
<1> USE DEF Card!own, Card!SetHpRun, Card!CallbackFails
<1>c. ASSUME IInv, Transition, hp_run, ~hp_run', pc # "hp_off" PROVE Failed
  <2>1. pc \in {"ready", "idle", "fail"}
    BY <1>c DEF IInv, CardProofs!IInv, CardProofs!Agreement
  <2>2. pc = "idle" => mode = "SERVING"
    BY <1>c DEF IInv, CardProofs!IInv, CardProofs!AtLocation
  <2>3. ASSUME NEW count \in Card!U32 PROVE ~Card!StorageInit(count)
    BY <2>1, <2>2 DEF Card!StorageInit
  <2>4. Card!Fail => mode' = "FAULT"
    BY DEF Card!Fail
  <2>5. Card!PowerLoss => pc' = "reset"
    BY DEF Card!PowerLoss
  <2>6. ~Card!Run /\ ~Card!Mount /\ ~Card!HpOff /\ ~Card!FlushClose /\ ~Card!Sync /\ ~Card!Unmount
    BY <1>c, <2>1 DEF Card!Run, Card!Mount, Card!HpOff, Card!FlushClose, Card!Sync, Card!Unmount
  <2>7. ~Card!UsbStart /\ ~Card!Detach /\ ~Card!UsbStop /\ ~Card!UsbAttach /\ ~Card!LeaveMsc
    BY <1>c, <2>1, <2>2 DEF Card!UsbStart, Card!Detach, Card!UsbStop, Card!UsbAttach,
                            Card!LeaveMsc
  <2>8. ~Card!Ready
    BY <1>c DEF Card!Ready
  <2> QED BY <1>c, <2>3, <2>4, <2>5, <2>6, <2>7, <2>8 DEF Transition
<1>1. ASSUME IInv, [Next]_vars PROVE [Lost => Excused]_vars
  <2> SUFFICES ASSUME Lost, pc # "hp_off" PROVE Excused
    OBVIOUS
  <2>1. CASE TapeBegin
    BY <2>1 DEF TapeBegin, Cassette!Begin
  <2>2. CASE Transition
    <3>1. ~hp_run'
      BY <2>2 DEF Transition, CapturedTape
    <3>2. hp_run
      BY <1>1 DEF IInv, QueuedOnLine
    <3> QED BY <1>1, <2>2, <3>1, <3>2, <1>c
  <2>3. CASE ~TapeBegin /\ ~Transition
    <3>1. ~HpTape
      BY DEF HpTape
    <3> QED BY <1>1, <2>3, <3>1 DEF Next, EnterMsc, Prepare, General, TapePoll, HpGeneral,
                                    UsbHost, Operator, vars
  <2> QED BY <2>1, <2>2, <2>3
<1>2. ASSUME IInv, [Next]_vars PROVE [Over => Cassette!Answers]_vars
  <2> SUFFICES ASSUME Over PROVE Cassette!Answers
    OBVIOUS
  <2>1. CASE TapePoll
    BY <2>1 DEF TapePoll, Cassette!PollMore, Cassette!PollWriteFails, Cassette!Answers
  <2>2. ~Prepare
    BY <1>2 DEF Prepare, Card!Prepare, IInv, CardProofs!IInv, CardProofs!Agreement
  <2>3. CASE ~Prepare /\ ~TapePoll
    BY <1>2, <2>3 DEF Next, EnterMsc, Transition, General, TapeBegin, Cassette!Begin,
                      HpGeneral, HpTape, UsbHost, Operator, Cassette!Operator, vars, tapeVars
  <2> QED BY <2>1, <2>2, <2>3
<1>3. ASSUME IInv, [Next]_vars PROVE [Cut => Failed]_vars
  <2> SUFFICES ASSUME Cut PROVE Failed
    OBVIOUS
  <2>1. CASE Transition
    <3>1. pc # "hp_off"
      BY <1>3 DEF IInv, CommandPlace
    <3> QED BY <1>3, <2>1, <3>1, <1>c
  <2>2. CASE ~Transition
    BY <1>3, <2>2 DEF Next, EnterMsc, Card!EnterMsc, Prepare, Card!Prepare, General,
                      Card!General, Card!GeneralRead, Card!GeneralWrite, TapeBegin, TapePoll,
                      Card!CellWrite, HpGeneral, Card!HpRequest, HpTape, UsbHost, Card!Host,
                      Card!BlockCall, Card!BlockDone, Card!HostEject, Card!HostReconnect,
                      Operator, vars, cardVars
  <2> QED BY <2>1, <2>2
<1> QED BY <1>1, <1>2, <1>3, Invariance, PTL DEF Spec, TapeRequestsNotDropped

=============================================================================
