---------------------------- MODULE StorageProofs ----------------------------
(***************************************************************************)
(* Proofs about Storage, for every width of the block counts.  The         *)
(* properties hold because of what is true at each callback of an          *)
(* operation under way; IInv says it, is inductive and implies them.       *)
(***************************************************************************)
EXTENDS Storage, TLAPS

(* What holds of the pieces of state wherever the main loop is.            *)
Agreement ==
  /\ usb => usb_owned
  /\ usb_owned => ~mounted /\ ~fs /\ cache = "clean"
  /\ hp_run => fs /\ mounted /\ staged /\ ~usb_owned
  /\ hp_run => pc \in {"ready", "idle", "hp_off", "fail"}
  /\ request => hp_run
  /\ transfer # NoTransfer => usb
  /\ TransferOnCard

(* What holds where the main loop is.                                      *)
AtLocation ==
  /\ pc = "idle" => (hp_run <=> mode = "SERVING")
  /\ pc = "fail" => mode \in {"OFF", "SERVING"}
  /\ pc = "usb_start" => mode = "MSC"
  /\ pc = "hp_off" => mode = "SERVING" /\ hp_run
  /\ pc \notin {"idle", "fail", "usb_start", "hp_off"} => mode = "OFF"
  /\ pc = "idle" /\ mode = "MSC" => usb
  /\ pc \in {"reset", "mount"} => ~usb_owned
  /\ pc \in {"prepare", "run", "ready", "flush", "sync", "unmount"}
       => fs /\ mounted /\ ~usb_owned
  /\ pc \in {"run", "ready"} => staged
  /\ pc = "ready" => hp_run
  /\ pc = "sync" => cache # "dirty"
  /\ pc = "unmount" => cache = "clean"
  /\ pc \in {"usb_start", "detach", "usb_stop"} => usb_owned
  /\ mode = "MSC" => usb_owned

IInv == TypeOK /\ Agreement /\ AtLocation

-----------------------------------------------------------------------------

(* Facts about the two kinds of transfer value.                            *)
LEMMA TransferFacts ==
  /\ 0 \in U32 /\ U32 \subseteq Nat
  /\ NoTransfer \in Transfers
  /\ NoTransfer.lba = 0 /\ NoTransfer.blocks = 0
BY MaxU32Assumption DEF NoTransfer, Transfers, U32

LEMMA InitHolds == Init => IInv
<1> SUFFICES ASSUME Init PROVE IInv
  OBVIOUS
<1>1. TypeOK
  BY TransferFacts DEF Init, TypeOK, Modes, Locations
<1>2. TransferOnCard
  BY TransferFacts DEF Init, TransferOnCard
<1>3. Agreement /\ AtLocation
  BY <1>2 DEF Init, Agreement, AtLocation
<1> QED BY <1>1, <1>3 DEF IInv

(* A callback that fails leaves everything but pc alone.                   *)
LEMMA FailingCallback ==
  ASSUME IInv, CallbackFails, pc # "usb_start", mode \in {"OFF", "SERVING"}
  PROVE  IInv'
<1> USE DEF IInv, CallbackFails, own, host, data
<1>1. TypeOK'
  BY DEF TypeOK, Locations
<1>2. TransferOnCard'
  BY DEF Agreement, TransferOnCard
<1>3. Agreement'
  BY <1>2 DEF TypeOK, Agreement
<1>4. AtLocation'
  BY DEF TypeOK, AtLocation
<1> QED BY <1>1, <1>3, <1>4

(* IInv survives every step: one case per action, and under it one step per *)
(* part of IInv.                                                           *)
LEMMA StepHolds == IInv /\ [Next]_vars => IInv'
<1> SUFFICES ASSUME TypeOK, Agreement, AtLocation, [Next]_vars PROVE IInv'
  BY DEF IInv
<1> USE DEF own, host, data
<1>1. ASSUME NEW count \in U32, StorageInit(count) PROVE IInv'
  <2>1. TypeOK'
    BY <1>1, TransferFacts DEF TypeOK, Modes, Locations, StorageInit, SetHpRun
  <2>2. TransferOnCard'
    BY <1>1, TransferFacts DEF TypeOK, Agreement, AtLocation, TransferOnCard, StorageInit, SetHpRun
  <2>3. Agreement'
    BY <1>1, <2>2 DEF TypeOK, Agreement, AtLocation, StorageInit, SetHpRun
  <2>4. AtLocation'
    BY <1>1 DEF TypeOK, Agreement, AtLocation, StorageInit, SetHpRun
  <2> QED BY <2>1, <2>3, <2>4 DEF IInv
<1>2. CASE EnterMsc
  <2>1. TypeOK'
    BY <1>2 DEF TypeOK, Modes, Locations, EnterMsc
  <2>2. TransferOnCard'
    BY <1>2 DEF TypeOK, Agreement, AtLocation, TransferOnCard, EnterMsc
  <2>3. Agreement'
    BY <1>2, <2>2 DEF TypeOK, Agreement, AtLocation, EnterMsc
  <2>4. AtLocation'
    BY <1>2 DEF TypeOK, Agreement, AtLocation, EnterMsc
  <2> QED BY <2>1, <2>3, <2>4 DEF IInv
<1>h. CASE HpOff
  <2>1. TypeOK'
    BY <1>h DEF TypeOK, Modes, Locations, HpOff, SetHpRun
  <2>2. TransferOnCard'
    BY <1>h DEF TypeOK, Agreement, AtLocation, TransferOnCard, HpOff, SetHpRun
  <2>3. Agreement'
    BY <1>h, <2>2 DEF TypeOK, Agreement, AtLocation, HpOff, SetHpRun
  <2>4. AtLocation'
    BY <1>h DEF TypeOK, Agreement, AtLocation, HpOff, SetHpRun
  <2> QED BY <2>1, <2>3, <2>4 DEF IInv
<1>3. CASE LeaveMsc
  <2>1. TypeOK'
    BY <1>3 DEF TypeOK, Modes, Locations, LeaveMsc
  <2>2. TransferOnCard'
    BY <1>3 DEF TypeOK, Agreement, AtLocation, TransferOnCard, LeaveMsc
  <2>3. Agreement'
    BY <1>3, <2>2 DEF TypeOK, Agreement, AtLocation, LeaveMsc
  <2>4. AtLocation'
    BY <1>3 DEF TypeOK, Agreement, AtLocation, LeaveMsc
  <2> QED BY <2>1, <2>3, <2>4 DEF IInv
<1>4. CASE Mount
  <2>1. CASE CallbackFails
    BY <1>4, <2>1, FailingCallback DEF IInv, AtLocation, Mount
  <2>2. CASE ~CallbackFails
    <3> /\ pc = "mount" /\ fs' = TRUE /\ mounted' = TRUE /\ pc' = "prepare"
        /\ UNCHANGED <<mode, usb_owned, block_count, hp_run, request, usb, host, data>>
      BY <1>4, <2>2 DEF Mount
    <3>1. TypeOK'
      BY DEF TypeOK, Modes, Locations
    <3>2. TransferOnCard'
      BY DEF TypeOK, Agreement, AtLocation, TransferOnCard
    <3>3. Agreement'
      BY <3>2 DEF TypeOK, Agreement, AtLocation
    <3>4. AtLocation'
      BY DEF TypeOK, Agreement, AtLocation
    <3> QED BY <3>1, <3>3, <3>4 DEF IInv
  <2> QED BY <2>1, <2>2
<1>5. CASE Prepare
  <2>1. CASE CallbackFails
    BY <1>5, <2>1, FailingCallback DEF IInv, AtLocation, Prepare
  <2>2. CASE ~CallbackFails
    <3> /\ pc = "prepare" /\ staged' = TRUE /\ pc' = "run"
        /\ UNCHANGED <<own, hp_run, request, fs, usb, host, cache>>
      BY <1>5, <2>2 DEF Prepare
    <3>1. TypeOK'
      BY DEF TypeOK, Modes, Locations
    <3>2. TransferOnCard'
      BY DEF TypeOK, Agreement, AtLocation, TransferOnCard
    <3>3. Agreement'
      BY <3>2 DEF TypeOK, Agreement, AtLocation
    <3>4. AtLocation'
      BY DEF TypeOK, Agreement, AtLocation
    <3> QED BY <3>1, <3>3, <3>4 DEF IInv
  <2> QED BY <2>1, <2>2
<1>6. CASE Run
  <2>1. TypeOK'
    BY <1>6 DEF TypeOK, Modes, Locations, Run, SetHpRun
  <2>2. TransferOnCard'
    BY <1>6 DEF TypeOK, Agreement, AtLocation, TransferOnCard, Run, SetHpRun
  <2>3. Agreement'
    BY <1>6, <2>2 DEF TypeOK, Agreement, AtLocation, Run, SetHpRun
  <2>4. AtLocation'
    BY <1>6 DEF TypeOK, Agreement, AtLocation, Run, SetHpRun
  <2> QED BY <2>1, <2>3, <2>4 DEF IInv
<1>7. CASE Ready
  <2>1. CASE CallbackFails
    BY <1>7, <2>1, FailingCallback DEF IInv, AtLocation, Ready
  <2>2. CASE ~CallbackFails
    <3> /\ pc = "ready" /\ mode' = "SERVING" /\ pc' = "idle"
        /\ UNCHANGED <<mounted, usb_owned, block_count, hp_run, request, fs, usb, host, data>>
      BY <1>7, <2>2 DEF Ready
    <3>1. TypeOK'
      BY DEF TypeOK, Modes, Locations
    <3>2. TransferOnCard'
      BY DEF TypeOK, Agreement, AtLocation, TransferOnCard
    <3>3. Agreement'
      BY <3>2 DEF TypeOK, Agreement, AtLocation
    <3>4. AtLocation'
      BY DEF TypeOK, Agreement, AtLocation
    <3> QED BY <3>1, <3>3, <3>4 DEF IInv
  <2> QED BY <2>1, <2>2
<1>8. CASE FlushClose
  <2>1. CASE CallbackFails
    BY <1>8, <2>1, FailingCallback DEF IInv, AtLocation, FlushClose
  <2>2. CASE ~CallbackFails
    <3> /\ pc = "flush" /\ pc' = "sync"
        /\ cache' = IF cache = "dirty" THEN "flushed" ELSE cache
        /\ UNCHANGED <<own, hp_run, request, fs, usb, host, staged>>
      BY <1>8, <2>2 DEF FlushClose
    <3>1. TypeOK'
      BY DEF TypeOK, Modes, Locations
    <3>2. TransferOnCard'
      BY DEF TypeOK, Agreement, AtLocation, TransferOnCard
    <3>3. Agreement'
      BY <3>2 DEF TypeOK, Agreement, AtLocation
    <3>4. AtLocation'
      BY DEF TypeOK, Agreement, AtLocation
    <3> QED BY <3>1, <3>3, <3>4 DEF IInv
  <2> QED BY <2>1, <2>2
<1>9. CASE Sync
  <2>1. CASE CallbackFails
    BY <1>9, <2>1, FailingCallback DEF IInv, AtLocation, Sync
  <2>2. CASE ~CallbackFails
    <3> /\ pc = "sync" /\ pc' = "unmount"
        /\ cache' = IF cache = "flushed" THEN "clean" ELSE cache
        /\ UNCHANGED <<own, hp_run, request, fs, usb, host, staged>>
      BY <1>9, <2>2 DEF Sync
    <3>1. TypeOK'
      BY DEF TypeOK, Modes, Locations
    <3>2. TransferOnCard'
      BY DEF TypeOK, Agreement, AtLocation, TransferOnCard
    <3>3. Agreement'
      BY <3>2 DEF TypeOK, Agreement, AtLocation
    <3>4. AtLocation'
      BY DEF TypeOK, Agreement, AtLocation
    <3> QED BY <3>1, <3>3, <3>4 DEF IInv
  <2> QED BY <2>1, <2>2
<1>10. CASE Unmount
  <2> pc = "unmount"
    BY <1>10 DEF Unmount
  <2>1. CASE /\ mode' = "MSC" /\ mounted' = FALSE /\ usb_owned' = TRUE /\ fs' = FALSE
             /\ pc' = "usb_start"
             /\ UNCHANGED <<block_count, hp_run, request, usb, host, data>>
    <3>1. TypeOK'
      BY <2>1 DEF TypeOK, Modes, Locations
    <3>2. TransferOnCard'
      BY <2>1 DEF TypeOK, Agreement, AtLocation, TransferOnCard
    <3>3. Agreement'
      BY <2>1, <3>2 DEF TypeOK, Agreement, AtLocation
    <3>4. AtLocation'
      BY <2>1 DEF TypeOK, Agreement, AtLocation
    <3> QED BY <3>1, <3>3, <3>4 DEF IInv
  <2>2. CASE /\ fs' \in BOOLEAN /\ pc' = "fail"
             /\ UNCHANGED <<own, hp_run, request, usb, host, data>>
    <3>1. TypeOK'
      BY <2>2 DEF TypeOK, Modes, Locations
    <3>2. TransferOnCard'
      BY <2>2 DEF TypeOK, Agreement, AtLocation, TransferOnCard
    <3>3. Agreement'
      BY <2>2, <3>2 DEF TypeOK, Agreement, AtLocation
    <3>4. AtLocation'
      BY <2>2 DEF TypeOK, Agreement, AtLocation
    <3> QED BY <3>1, <3>3, <3>4 DEF IInv
  <2> QED BY <1>10, <2>1, <2>2 DEF Unmount
<1>11. CASE UsbStart
  <2>1. TypeOK'
    BY <1>11 DEF TypeOK, Modes, Locations, UsbStart
  <2>2. TransferOnCard'
    BY <1>11 DEF TypeOK, Agreement, AtLocation, TransferOnCard, UsbStart
  <2>3. Agreement'
    BY <1>11, <2>2 DEF TypeOK, Agreement, AtLocation, UsbStart
  <2>4. AtLocation'
    BY <1>11 DEF TypeOK, Agreement, AtLocation, UsbStart
  <2> QED BY <2>1, <2>3, <2>4 DEF IInv
<1>12. CASE Detach
  <2>1. CASE CallbackFails
    BY <1>12, <2>1, FailingCallback DEF IInv, AtLocation, Detach
  <2>2. CASE ~CallbackFails
    <3> /\ pc = "detach" /\ pc' = "fail" /\ UsbDetached
      BY <1>12, <2>2 DEF Detach
    <3>1. TypeOK'
      BY DEF TypeOK, Modes, Locations, UsbDetached
    <3>2. TransferOnCard'
      BY DEF TypeOK, Agreement, AtLocation, TransferOnCard, UsbDetached
    <3>3. Agreement'
      BY <3>2 DEF TypeOK, Agreement, AtLocation, UsbDetached
    <3>4. AtLocation'
      BY DEF TypeOK, Agreement, AtLocation, UsbDetached
    <3> QED BY <3>1, <3>3, <3>4 DEF IInv
  <2> QED BY <2>1, <2>2
<1>13. CASE UsbStop
  <2>1. CASE CallbackFails
    BY <1>13, <2>1, FailingCallback DEF IInv, AtLocation, UsbStop
  <2>2. CASE ~CallbackFails
    <3> /\ pc = "usb_stop" /\ pc' = "mount" /\ UsbDetached
      BY <1>13, <2>2 DEF UsbStop
    <3>1. TypeOK'
      BY DEF TypeOK, Modes, Locations, UsbDetached
    <3>2. TransferOnCard'
      BY DEF TypeOK, Agreement, AtLocation, TransferOnCard, UsbDetached
    <3>3. Agreement'
      BY <3>2 DEF TypeOK, Agreement, AtLocation, UsbDetached
    <3>4. AtLocation'
      BY DEF TypeOK, Agreement, AtLocation, UsbDetached
    <3> QED BY <3>1, <3>3, <3>4 DEF IInv
  <2> QED BY <2>1, <2>2
<1>14. CASE Fail
  <2>1. TypeOK'
    BY <1>14 DEF TypeOK, Modes, Locations, Fail, SetHpRun
  <2>2. TransferOnCard'
    BY <1>14 DEF TypeOK, Agreement, AtLocation, TransferOnCard, Fail, SetHpRun
  <2>3. Agreement'
    BY <1>14, <2>2 DEF TypeOK, Agreement, AtLocation, Fail, SetHpRun
  <2>4. AtLocation'
    BY <1>14 DEF TypeOK, Agreement, AtLocation, Fail, SetHpRun
  <2> QED BY <2>1, <2>3, <2>4 DEF IInv
<1>15. CASE UsbAttach
  <2>1. TypeOK'
    BY <1>15 DEF TypeOK, Modes, Locations, UsbAttach
  <2>2. TransferOnCard'
    BY <1>15 DEF TypeOK, Agreement, AtLocation, TransferOnCard, UsbAttach
  <2>3. Agreement'
    BY <1>15, <2>2 DEF TypeOK, Agreement, AtLocation, UsbAttach
  <2>4. AtLocation'
    BY <1>15 DEF TypeOK, Agreement, AtLocation, UsbAttach
  <2> QED BY <2>1, <2>3, <2>4 DEF IInv
<1>16. CASE GeneralRead
  <2>1. CASE CallbackFails
    BY <1>16, <2>1, FailingCallback DEF IInv, AtLocation, GeneralRead, ServesFiles
  <2>2. CASE ~CallbackFails
    <3> /\ pc = "idle" /\ ServesFiles /\ request' = FALSE
        /\ UNCHANGED <<own, pc, hp_run, fs, usb, host, data>>
      BY <1>16, <2>2 DEF GeneralRead
    <3>1. TypeOK'
      BY DEF TypeOK, Modes, Locations, ServesFiles
    <3>2. TransferOnCard'
      BY DEF TypeOK, Agreement, AtLocation, TransferOnCard, ServesFiles
    <3>3. Agreement'
      BY <3>2 DEF TypeOK, Agreement, AtLocation, ServesFiles
    <3>4. AtLocation'
      BY DEF TypeOK, Agreement, AtLocation, ServesFiles
    <3> QED BY <3>1, <3>3, <3>4 DEF IInv
  <2> QED BY <2>1, <2>2
<1>17. CASE GeneralWrite
  <2>1. CASE CallbackFails
    BY <1>17, <2>1, FailingCallback DEF IInv, AtLocation, GeneralWrite, ServesFiles
  <2>2. CASE ~CallbackFails
    <3> /\ pc = "idle" /\ ServesFiles /\ request' = FALSE /\ cache' = "dirty"
        /\ UNCHANGED <<own, pc, hp_run, fs, usb, host, staged>>
      BY <1>17, <2>2 DEF GeneralWrite
    <3>1. TypeOK'
      BY DEF TypeOK, Modes, Locations, ServesFiles
    <3>2. TransferOnCard'
      BY DEF TypeOK, Agreement, AtLocation, TransferOnCard, ServesFiles
    <3>3. Agreement'
      BY <3>2 DEF TypeOK, Agreement, AtLocation, ServesFiles
    <3>4. AtLocation'
      BY DEF TypeOK, Agreement, AtLocation, ServesFiles
    <3> QED BY <3>1, <3>3, <3>4 DEF IInv
  <2> QED BY <2>1, <2>2
<1>w. CASE CellWrite
  <2> /\ pc = "idle" /\ ServesFiles /\ cache' = "dirty"
      /\ UNCHANGED <<own, pc, hp_run, request, fs, usb, host, staged>>
    BY <1>w DEF CellWrite
  <2>1. TypeOK'
    BY DEF TypeOK, Modes, Locations, ServesFiles
  <2>2. TransferOnCard'
    BY DEF TypeOK, Agreement, AtLocation, TransferOnCard, ServesFiles
  <2>3. Agreement'
    BY <2>2 DEF TypeOK, Agreement, AtLocation, ServesFiles
  <2>4. AtLocation'
    BY DEF TypeOK, Agreement, AtLocation, ServesFiles
  <2> QED BY <2>1, <2>3, <2>4 DEF IInv
<1>18. ASSUME NEW write \in BOOLEAN, NEW lba \in U32, NEW blocks \in U32,
             BlockCall(write, lba, blocks)
      PROVE  IInv'
  <2>1. TypeOK'
    BY <1>18, TransferFacts DEF TypeOK, Modes, Locations, BlockCall, BlockAccess, Transfers
  <2>2. TransferOnCard'
    BY <1>18, TransferFacts DEF TypeOK, Agreement, AtLocation, TransferOnCard, BlockCall, BlockAccess
  <2>3. Agreement'
    BY <1>18, <2>2 DEF TypeOK, Agreement, AtLocation, BlockCall, BlockAccess
  <2>4. AtLocation'
    BY <1>18 DEF TypeOK, Agreement, AtLocation, BlockCall, BlockAccess
  <2> QED BY <2>1, <2>3, <2>4 DEF IInv
<1>19. CASE BlockDone
  <2>1. TypeOK'
    BY <1>19, TransferFacts DEF TypeOK, Modes, Locations, BlockDone
  <2>2. TransferOnCard'
    BY <1>19, TransferFacts DEF TypeOK, Agreement, AtLocation, TransferOnCard, BlockDone
  <2>3. Agreement'
    BY <1>19, <2>2 DEF TypeOK, Agreement, AtLocation, BlockDone
  <2>4. AtLocation'
    BY <1>19 DEF TypeOK, Agreement, AtLocation, BlockDone
  <2> QED BY <2>1, <2>3, <2>4 DEF IInv
<1>20. CASE HostEject
  <2>1. TypeOK'
    BY <1>20 DEF TypeOK, Modes, Locations, HostEject
  <2>2. TransferOnCard'
    BY <1>20 DEF TypeOK, Agreement, AtLocation, TransferOnCard, HostEject
  <2>3. Agreement'
    BY <1>20, <2>2 DEF TypeOK, Agreement, AtLocation, HostEject
  <2>4. AtLocation'
    BY <1>20 DEF TypeOK, Agreement, AtLocation, HostEject
  <2> QED BY <2>1, <2>3, <2>4 DEF IInv
<1>21. CASE HostReconnect
  <2>1. TypeOK'
    BY <1>21, ZenonT(30) DEF TypeOK, Modes, Locations, HostReconnect
  <2>2. TransferOnCard'
    BY <1>21 DEF TypeOK, Agreement, AtLocation, TransferOnCard, HostReconnect
  <2>3. Agreement'
    BY <1>21, <2>2 DEF TypeOK, Agreement, AtLocation, HostReconnect
  <2>4. AtLocation'
    BY <1>21 DEF TypeOK, Agreement, AtLocation, HostReconnect
  <2> QED BY <2>1, <2>3, <2>4 DEF IInv
<1>22. CASE HpRequest
  <2>1. TypeOK'
    BY <1>22 DEF TypeOK, Modes, Locations, HpRequest
  <2>2. TransferOnCard'
    BY <1>22 DEF TypeOK, Agreement, AtLocation, TransferOnCard, HpRequest
  <2>3. Agreement'
    BY <1>22, <2>2 DEF TypeOK, Agreement, AtLocation, HpRequest
  <2>4. AtLocation'
    BY <1>22 DEF TypeOK, Agreement, AtLocation, HpRequest
  <2> QED BY <2>1, <2>3, <2>4 DEF IInv
<1>23. CASE PowerLoss
  <2>1. TypeOK'
    BY <1>23, TransferFacts DEF TypeOK, Modes, Locations, PowerLoss
  <2>2. TransferOnCard'
    BY <1>23, TransferFacts DEF TypeOK, Agreement, AtLocation, TransferOnCard, PowerLoss
  <2>3. Agreement'
    BY <1>23, <2>2 DEF TypeOK, Agreement, AtLocation, PowerLoss
  <2>4. AtLocation'
    BY <1>23 DEF TypeOK, Agreement, AtLocation, PowerLoss
  <2> QED BY <2>1, <2>3, <2>4 DEF IInv
<1>24. CASE UNCHANGED vars
  BY <1>24 DEF vars, IInv, TypeOK, Agreement, AtLocation, TransferOnCard
<1> QED
  BY <1>1, <1>2, <1>3, <1>4, <1>5, <1>6, <1>7, <1>8, <1>9, <1>10, <1>11,
     <1>12, <1>13, <1>14, <1>15, <1>16, <1>17, <1>18, <1>19, <1>20,
     <1>21, <1>22, <1>23, <1>24, <1>h, <1>w DEF Next, Continue, General, Host

(* IInv holds in every reachable state.                                    *)
LEMMA Invariance == Spec => []IInv
BY InitHolds, StepHolds, PTL DEF Spec

-----------------------------------------------------------------------------
(***************************************************************************)
(* The invariants of the model-checked run.                                *)
(***************************************************************************)

(* Every variable stays in its type, whatever the callbacks return.        *)
THEOREM TypeCorrect == Spec => []TypeOK
<1>1. IInv => TypeOK
  BY DEF IInv
<1> QED BY <1>1, Invariance, PTL

(* No sequence of operations, failures, host actions and power cycles      *)
(* calls a port callback outside the contract the mock port asserts.       *)
THEOREM ContractKept == Spec => []PortContract
<1>1. IInv => PortContract
  BY DEF IInv, TypeOK, Agreement, AtLocation, PortContract
<1> QED BY <1>1, Invariance, PTL

(* mounted, usb_owned and mode never lie about the hardware, so reading    *)
(* usb_owned is enough to follow the recovery rule.                        *)
THEOREM RecordCorrect == Spec => []RecordIsTrue
<1>1. IInv => RecordIsTrue
  BY DEF IInv, TypeOK, Agreement, AtLocation, RecordIsTrue
<1> QED BY <1>1, Invariance, PTL

(* For any width of the counts, no accepted block transfer reaches past    *)
(* the end of the card.                                                    *)
THEOREM TransfersBounded == Spec => []TransferOnCard
<1>1. IInv => TransferOnCard
  BY DEF IInv, Agreement
<1> QED BY <1>1, Invariance, PTL

-----------------------------------------------------------------------------
(***************************************************************************)
(* What a step may not do.                                                 *)
(***************************************************************************)

(* The host gets no new transfer once the hand-back has begun.             *)
THEOREM HandbackFinal == Spec => NoTransferAfterHandback
<1> DEFINE Bad == transfer = NoTransfer /\ transfer' # NoTransfer
           Allowed == mode = "MSC" /\ pc \in {"idle", "usb_start"}
<1>1. ASSUME IInv, [Next]_vars PROVE [Bad => Allowed]_vars
  <2> SUFFICES ASSUME Bad PROVE Allowed
    OBVIOUS
  <2> USE DEF own, host, data, SetHpRun, CallbackFails, UsbDetached
  <2>1. CASE Host
    BY <1>1, <2>1 DEF Host, BlockCall, BlockAccess, BlockDone, HostEject, HostReconnect,
                      IInv, TypeOK, Locations, AtLocation
  <2>2. transfer' = transfer \/ Host \/ PowerLoss
    <3>1. ASSUME NEW count \in U32, StorageInit(count) PROVE transfer' = transfer
      BY <3>1 DEF StorageInit
    <3>2. EnterMsc \/ HpOff \/ LeaveMsc => transfer' = transfer
      BY DEF EnterMsc, HpOff, LeaveMsc
    <3>3. Mount \/ Prepare \/ Run \/ Ready => transfer' = transfer
      BY DEF Mount, Prepare, Run, Ready
    <3>4. FlushClose \/ Sync \/ Unmount \/ UsbStart => transfer' = transfer
      BY DEF FlushClose, Sync, Unmount, UsbStart
    <3>5. Detach \/ UsbStop \/ Fail \/ UsbAttach => transfer' = transfer
      BY DEF Detach, UsbStop, Fail, UsbAttach
    <3>6. General \/ CellWrite \/ HpRequest \/ UNCHANGED vars => transfer' = transfer
      BY DEF General, GeneralRead, GeneralWrite, CellWrite, HpRequest, vars
    <3> QED
      BY <1>1, <3>1, <3>2, <3>3, <3>4, <3>5, <3>6 DEF Next, Continue
  <2>3. PowerLoss => transfer' = NoTransfer
    BY DEF PowerLoss
  <2> QED BY <2>1, <2>2, <2>3
<1> QED BY <1>1, Invariance, PTL DEF Spec, NoTransferAfterHandback

(* A captured request ends with an answer, a fault or a power loss; the    *)
(* operator's hand-over cuts off only one that came after its check.       *)
THEOREM RequestsKept == Spec => RequestsNotDropped
<1> DEFINE Dropped == request /\ ~request'
           Excused == General \/ mode' = "FAULT" \/ pc' = "reset" \/ pc = "hp_off"
           Starts  == pc # "hp_off" /\ pc' = "hp_off"
<1>1. ASSUME IInv, [Next]_vars PROVE [Dropped => Excused]_vars
  <2> SUFFICES ASSUME Dropped, pc # "hp_off" PROVE Excused
    OBVIOUS
  <2> hp_run
    BY <1>1 DEF IInv, Agreement
  <2> pc \in {"ready", "idle", "fail"} /\ (pc = "idle" => mode = "SERVING")
    BY <1>1 DEF IInv, Agreement, AtLocation
  <2>1. ~EnterMsc /\ ~HpOff
    BY DEF EnterMsc, HpOff
  <2>2. ASSUME NEW count \in U32 PROVE ~StorageInit(count)
    BY DEF StorageInit
  <2>3. Fail => mode' = "FAULT"
    BY DEF Fail
  <2>4. PowerLoss => pc' = "reset"
    BY DEF PowerLoss
  <2>5. ~Run /\ ~Mount /\ ~Prepare /\ ~FlushClose /\ ~Sync /\ ~Unmount
    BY DEF Run, Mount, Prepare, FlushClose, Sync, Unmount
  <2>6. ~UsbStart /\ ~Detach /\ ~UsbStop /\ ~UsbAttach /\ ~LeaveMsc
    BY DEF UsbStart, Detach, UsbStop, UsbAttach, LeaveMsc
  <2>7. ~Ready /\ ~CellWrite /\ ~Host /\ ~HpRequest /\ ~UNCHANGED vars
    BY DEF Ready, CallbackFails, CellWrite, Host, BlockCall, BlockDone, HostEject, HostReconnect,
           HpRequest, vars
  <2> QED
    BY <1>1, <2>1, <2>2, <2>3, <2>4, <2>5, <2>6, <2>7 DEF Next, Continue
<1>2. ASSUME [Next]_vars PROVE [Starts => ~request]_vars
  <2> SUFFICES ASSUME Starts PROVE ~request
    OBVIOUS
  <2> USE DEF CallbackFails
  <2>1. ASSUME NEW count \in U32 PROVE ~StorageInit(count)
    BY DEF StorageInit
  <2>2. ~Mount /\ ~Prepare /\ ~Run /\ ~Ready /\ ~HpOff /\ ~FlushClose /\ ~Sync
    BY DEF Mount, Prepare, Run, Ready, HpOff, FlushClose, Sync
  <2>3. ~Unmount /\ ~UsbStart /\ ~Detach /\ ~UsbStop /\ ~Fail /\ ~UsbAttach /\ ~LeaveMsc
    BY DEF Unmount, UsbStart, Detach, UsbStop, Fail, UsbAttach, LeaveMsc
  <2>4. ~General /\ ~CellWrite /\ ~Host
    BY DEF General, GeneralRead, GeneralWrite, CellWrite, Host, BlockCall, BlockDone,
           HostEject, HostReconnect
  <2>5. ~HpRequest /\ ~PowerLoss /\ ~UNCHANGED vars
    BY DEF HpRequest, PowerLoss, vars
  <2>6. EnterMsc => ~request
    BY DEF EnterMsc
  <2> QED BY <1>2, <2>1, <2>2, <2>3, <2>4, <2>5, <2>6 DEF Next, Continue
<1> QED BY <1>1, <1>2, Invariance, PTL DEF Spec, RequestsNotDropped

-----------------------------------------------------------------------------
(***************************************************************************)
(* Storage implements CardOwnership: every step is a step of it or leaves  *)
(* its variables alone.                                                    *)
(***************************************************************************)
LEMMA InitRefines == Init => Ownership!Init
BY DEF Init, Ownership!Init, Owner

LEMMA StepRefines == IInv /\ [Next]_vars => [Ownership!Next]_(Ownership!vars)
<1> DEFINE Silent == /\ Owner' = Owner
                     /\ hp_run' = hp_run
                     /\ (cache # "clean")' = (cache # "clean")
                     /\ staged' = staged
<1> SUFFICES ASSUME TypeOK, Agreement, AtLocation, [Next]_vars
             PROVE  Ownership!Next \/ Silent
  BY DEF IInv, Ownership!vars
<1> USE DEF own, host, data, Owner
<1>1. ASSUME NEW count \in U32, StorageInit(count) PROVE Ownership!Withdraw
  BY <1>1 DEF StorageInit, SetHpRun, Ownership!Withdraw
<1>2. HpOff \/ Fail => Ownership!Withdraw
  BY DEF HpOff, Fail, SetHpRun, Ownership!Withdraw
<1>3. CallbackFails => Silent
  BY DEF CallbackFails
<1>4. Mount => Ownership!Claim \/ Silent
  BY <1>3 DEF Mount, TypeOK, Agreement, AtLocation, Ownership!Claim
<1>5. Prepare => Ownership!Stage \/ Silent
  <2> SUFFICES ASSUME Prepare, ~CallbackFails PROVE Ownership!Stage
    BY <1>3
  <2>1. /\ pc = "prepare" /\ staged' = TRUE
        /\ UNCHANGED <<hp_run, fs, usb, cache>>
    BY DEF Prepare
  <2> QED BY <2>1 DEF TypeOK, Agreement, AtLocation, Ownership!Stage
<1>6. Run => Ownership!Serve
  BY DEF Run, SetHpRun, Agreement, AtLocation, Ownership!Serve
<1>7. FlushClose => Silent
  BY <1>3 DEF FlushClose
<1>8. Sync => Ownership!Save \/ Silent
  <2> SUFFICES ASSUME Sync, ~CallbackFails PROVE Ownership!Save \/ Silent
    BY <1>3
  <2>1. /\ pc = "sync"
        /\ cache' = IF cache = "flushed" THEN "clean" ELSE cache
        /\ UNCHANGED <<hp_run, fs, usb, staged>>
    BY DEF Sync
  <2>2. cache' = "clean"
    BY <2>1 DEF TypeOK, AtLocation
  <2> QED BY <2>1, <2>2 DEF TypeOK, Agreement, AtLocation, Ownership!Save
<1>9. Unmount => Ownership!Release \/ Silent
  <2> SUFFICES ASSUME Unmount PROVE Ownership!Release \/ Silent
    OBVIOUS
  <2>1. /\ pc = "unmount" /\ fs' \in BOOLEAN
        /\ UNCHANGED <<hp_run, usb, cache, staged>>
    BY DEF Unmount
  <2>2. fs /\ ~usb /\ ~hp_run /\ cache = "clean"
    BY <2>1 DEF TypeOK, Agreement, AtLocation
  <2>3. CASE fs'
    BY <2>1, <2>2, <2>3
  <2>4. CASE ~fs'
    BY <2>1, <2>2, <2>4 DEF Ownership!Release
  <2> QED BY <2>3, <2>4
<1>10. UsbAttach => Ownership!Offer
  BY DEF UsbAttach, TypeOK, Agreement, AtLocation, Ownership!Offer
<1>11. pc \in {"detach", "usb_stop"} /\ UsbDetached => Ownership!Release \/ Silent
  BY DEF UsbDetached, TypeOK, Agreement, AtLocation, Ownership!Release
<1>12. Detach \/ UsbStop => Ownership!Release \/ Silent
  BY <1>3, <1>11 DEF Detach, UsbStop
<1>13. GeneralWrite => Ownership!Capture \/ Silent
  <2> SUFFICES ASSUME GeneralWrite, ~CallbackFails PROVE Ownership!Capture
    BY <1>3
  <2>1. /\ pc = "idle" /\ mode = "SERVING" /\ cache' = "dirty"
        /\ UNCHANGED <<hp_run, fs, usb, staged>>
    BY DEF GeneralWrite, ServesFiles
  <2> QED BY <2>1 DEF AtLocation, Ownership!Capture
<1>w. CellWrite => Ownership!Capture
  <2> SUFFICES ASSUME CellWrite PROVE Ownership!Capture
    OBVIOUS
  <2>1. /\ pc = "idle" /\ mode = "SERVING" /\ cache' = "dirty"
        /\ UNCHANGED <<hp_run, fs, usb, staged>>
    BY DEF CellWrite, ServesFiles
  <2> QED BY <2>1 DEF AtLocation, Ownership!Capture
<1>14. ASSUME NEW write \in BOOLEAN, NEW lba \in U32, NEW blocks \in U32,
              BlockCall(write, lba, blocks)
       PROVE  Ownership!HostWrite \/ Silent
  BY <1>14 DEF BlockCall, TypeOK, Ownership!HostWrite
<1>15. PowerLoss => Ownership!PowerLoss
  BY DEF PowerLoss, Ownership!PowerLoss
<1>16. EnterMsc \/ Ready \/ UsbStart \/ LeaveMsc \/ GeneralRead => Silent
  BY <1>3 DEF EnterMsc, Ready, UsbStart, LeaveMsc, GeneralRead
<1>17. BlockDone \/ HostEject \/ HostReconnect \/ HpRequest \/ UNCHANGED vars => Silent
  BY DEF BlockDone, HostEject, HostReconnect, HpRequest, vars
<1> QED
  BY <1>1, <1>2, <1>4, <1>5, <1>6, <1>7, <1>8, <1>9, <1>10, <1>12, <1>13, <1>w, <1>14,
     <1>15, <1>16, <1>17
     DEF Next, Continue, General, Host, Ownership!Next

(* Every behaviour of Storage is one of CardOwnership: one owner, no       *)
(* direct hand-over, nothing unsaved when the card changes hands, no       *)
(* service from stale data.                                                *)
THEOREM ImplementsOwnership == Spec => ExclusiveOwnership
BY Invariance, InitRefines, StepRefines, PTL DEF Spec, ExclusiveOwnership, Ownership!Spec

=============================================================================
