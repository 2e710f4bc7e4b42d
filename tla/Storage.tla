------------------------------- MODULE Storage -------------------------------
(***************************************************************************)
(* The storage component of the rev2 firmware,                             *)
(* firmware/rev2/src/mpsi_storage.c: who owns the SD card and when the HP  *)
(* is on the line.                                                         *)
(*                                                                         *)
(* The C functions are straight-line code around port callbacks, any of    *)
(* which may fail.  A step of the model is one callback with the code up   *)
(* to the next one; the location pc says which callback is due.  Between   *)
(* two steps the rest of the world moves: the HP raises a request, the USB *)
(* host starts a block transfer, a transfer under way ends, the host       *)
(* ejects or comes back, power fails.  Beside the component's own record   *)
(* (mode, mounted, usb_owned, block_count) the model keeps the truth that  *)
(* the callbacks act on, as the mock port of tests/test_firmware.c does.   *)
(***************************************************************************)
EXTENDS Integers

CONSTANT
  MaxU32     \* largest value of a uint32_t (a bound of the model)

ASSUME MaxU32Assumption == MaxU32 \in Nat

U32 == 0 .. MaxU32

VARIABLES
  mode, mounted, usb_owned, block_count,  \* struct mpsi_storage
  pc,         \* the callback due in the main loop; "idle", or "reset" before init
  hp_run,     \* the HP_RUN pin: the interface answers the HP
  request,    \* the CPLD has captured an HP request that is not answered yet
  fs,         \* the local file system is mounted on the card
  usb,        \* the USB device is attached and may call back
  ejected,    \* the USB host has ejected the card or disconnected
  cache,      \* HP output: "dirty" in a file buffer, "flushed" in a FAT sector
              \* buffer, "clean" on the card
  staged,     \* the data held for the HP was read after the last host write
  transfer    \* the block transfer of the USB host under way, or NoTransfer

own   == <<mode, mounted, usb_owned, block_count>>
host  == <<ejected, transfer>>
data  == <<cache, staged>>
vars  == <<own, pc, hp_run, request, fs, usb, host, data>>

Modes     == {"OFF", "SERVING", "MSC", "FAULT"}
Locations == {"reset", "idle", "mount", "prepare", "run", "ready", "hp_off", "flush",
              "sync", "unmount", "usb_start", "detach", "usb_stop", "fail"}
Transfers == [write : BOOLEAN, lba : U32, blocks : U32]
NoTransfer == [write |-> FALSE, lba |-> 0, blocks |-> 0]

(***************************************************************************)
(* The type invariant.                                                     *)
(***************************************************************************)
TypeOK ==
  /\ mode \in Modes
  /\ mounted \in BOOLEAN /\ usb_owned \in BOOLEAN
  /\ block_count \in U32
  /\ pc \in Locations
  /\ hp_run \in BOOLEAN /\ request \in BOOLEAN
  /\ fs \in BOOLEAN /\ usb \in BOOLEAN /\ ejected \in BOOLEAN
  /\ cache \in {"dirty", "flushed", "clean"}
  /\ staged \in BOOLEAN
  /\ transfer \in Transfers

Init ==
  /\ mode = "OFF" /\ mounted = FALSE /\ usb_owned = FALSE /\ block_count = 0
  /\ pc = "reset"
  /\ hp_run = FALSE /\ request = FALSE
  /\ fs = FALSE /\ usb = FALSE /\ ejected = FALSE
  /\ cache = "clean" /\ staged = FALSE
  /\ transfer = NoTransfer

-----------------------------------------------------------------------------
(***************************************************************************)
(* Pieces the operations share.                                            *)
(***************************************************************************)

(* hp_run(true/false).  With HP_RUN low the CPLD forgets a captured request. *)
SetHpRun(on) ==
  /\ hp_run' = on
  /\ request' = (request /\ on)

(* The callback due reports failure: fail() is next.                       *)
CallbackFails ==
  /\ pc' = "fail"
  /\ UNCHANGED <<own, hp_run, request, fs, usb, host, data>>

(* Mutant: fail() forgets hp_run(false).                                   *)
FailStaysOnLine ==
  /\ pc = "fail"
  /\ mode' = "FAULT"
  /\ pc' = "idle"
  /\ UNCHANGED <<mounted, usb_owned, block_count, hp_run, request, fs, usb, host, data>>

(* fail(): HP off the line, FAULT, ERROR to the caller.                    *)
Fail ==
  /\ pc = "fail"
  /\ SetHpRun(FALSE)
  /\ mode' = "FAULT"
  /\ pc' = "idle"
  /\ UNCHANGED <<mounted, usb_owned, block_count, fs, usb, host, data>>

-----------------------------------------------------------------------------
(* Mutant: the last block's address is kept in place of the count.         *)
StorageInitLastBlock(count) ==
  /\ pc = "reset" \/ (pc = "idle" /\ mode = "FAULT" /\ ~usb_owned)
  /\ mode' = "OFF" /\ mounted' = FALSE /\ usb_owned' = FALSE
  /\ block_count' = count - 1
  /\ SetHpRun(FALSE)
  /\ pc' = "mount"
  /\ UNCHANGED <<fs, usb, host, data>>

(***************************************************************************)
(* mpsi_storage_init, after power-up or as the explicit board recovery     *)
(* from FAULT, which must not be tried while USB owns the card.            *)
(***************************************************************************)
StorageInit(count) ==
  /\ pc = "reset" \/ (pc = "idle" /\ mode = "FAULT" /\ ~usb_owned)
  /\ mode' = "OFF" /\ mounted' = FALSE /\ usb_owned' = FALSE
  /\ block_count' = count
  /\ SetHpRun(FALSE)
  /\ pc' = IF count = 0 THEN "fail" ELSE "mount"
  /\ UNCHANGED <<fs, usb, host, data>>

Mount ==
  /\ pc = "mount"
  /\ \/ /\ fs' = TRUE
        /\ mounted' = TRUE
        /\ pc' = "prepare"
        /\ UNCHANGED <<mode, usb_owned, block_count, hp_run, request, usb, host, data>>
     \/ CallbackFails

(* hp_prepare: queues reset, configuration programmed, data staged.        *)
Prepare ==
  /\ pc = "prepare"
  /\ \/ /\ staged' = TRUE
        /\ pc' = "run"
        /\ UNCHANGED <<own, hp_run, request, fs, usb, host, cache>>
     \/ CallbackFails

Run ==
  /\ pc = "run"
  /\ SetHpRun(TRUE)
  /\ pc' = "ready"
  /\ UNCHANGED <<own, fs, usb, host, data>>

(* hp_ready: the initial ACK is sent; only then is service published.      *)
Ready ==
  /\ pc = "ready"
  /\ \/ /\ mode' = "SERVING"
        /\ pc' = "idle"
        /\ UNCHANGED <<mounted, usb_owned, block_count, hp_run, request, fs, usb, host, data>>
     \/ CallbackFails

-----------------------------------------------------------------------------
(* Mutant: the quiescence check is left out.                               *)
EnterMscBusy ==
  /\ pc = "idle"
  /\ mode = "SERVING"
  /\ pc' = "hp_off"
  /\ UNCHANGED <<own, hp_run, request, fs, usb, host, data>>

(***************************************************************************)
(* mpsi_enter_msc.  A call in another mode, or while the HP is active,     *)
(* returns ERROR or BUSY and changes nothing.  Between the quiescence      *)
(* check and hp_run(false) the port keeps the HP request handler out (no   *)
(* General step: pc is not "idle"), but not the HP: a request captured in  *)
(* that gap goes down with HP_RUN, and the operator is told to hand over   *)
(* between HP operations.                                                  *)
(***************************************************************************)
EnterMsc ==
  /\ pc = "idle"
  /\ mode = "SERVING"
  /\ ~request
  /\ pc' = "hp_off"
  /\ UNCHANGED <<own, hp_run, request, fs, usb, host, data>>

(* Mutant: open files are not flushed and closed.                          *)
HpOffUnflushed ==
  /\ pc = "hp_off"
  /\ SetHpRun(FALSE)
  /\ mode' = "OFF"
  /\ pc' = "sync"
  /\ UNCHANGED <<mounted, usb_owned, block_count, fs, usb, host, data>>

HpOff ==
  /\ pc = "hp_off"
  /\ SetHpRun(FALSE)
  /\ mode' = "OFF"
  /\ pc' = "flush"
  /\ UNCHANGED <<mounted, usb_owned, block_count, fs, usb, host, data>>

FlushClose ==
  /\ pc = "flush"
  /\ \/ /\ cache' = IF cache = "dirty" THEN "flushed" ELSE cache
        /\ pc' = "sync"
        /\ UNCHANGED <<own, hp_run, request, fs, usb, host, staged>>
     \/ CallbackFails

(* fs_sync writes the sector buffers, not what a file still buffers.       *)
Sync ==
  /\ pc = "sync"
  /\ \/ /\ cache' = IF cache = "flushed" THEN "clean" ELSE cache
        /\ pc' = "unmount"
        /\ UNCHANGED <<own, hp_run, request, fs, usb, host, staged>>
     \/ CallbackFails

(* A failing fs_unmount may have let go of the card or not.                *)
Unmount ==
  /\ pc = "unmount"
  /\ \/ /\ fs' = FALSE
        /\ mounted' = FALSE /\ usb_owned' = TRUE /\ mode' = "MSC"
        /\ pc' = "usb_start"
        /\ UNCHANGED <<block_count, hp_run, request, usb, host, data>>
     \/ /\ fs' \in BOOLEAN
        /\ fs' => fs
        /\ pc' = "fail"
        /\ UNCHANGED <<own, hp_run, request, usb, host, data>>

(* The device appears on the bus inside usb_start, before it returns.      *)
UsbAttach ==
  /\ pc = "usb_start"
  /\ ~usb
  /\ usb' = TRUE
  /\ ejected' = FALSE
  /\ UNCHANGED <<own, pc, hp_run, request, fs, transfer, data>>

(* usb_start returns; on failure, attached or not, block calls are denied  *)
(* before the detach is attempted.                                         *)
UsbStart ==
  /\ pc = "usb_start"
  /\ \/ /\ usb
        /\ pc' = "idle"
        /\ UNCHANGED mode
     \/ /\ mode' = "OFF"
        /\ pc' = "detach"
  /\ UNCHANGED <<mounted, usb_owned, block_count, hp_run, request, fs, usb, host, data>>

(* usb_stop succeeds only once the callbacks have drained.                 *)
UsbDetached ==
  /\ transfer = NoTransfer
  /\ usb' = FALSE
  /\ usb_owned' = FALSE
  /\ UNCHANGED <<mode, mounted, block_count, hp_run, request, fs, host, data>>

(* Mutant: after a failed start USB is booked out whether or not it has    *)
(* stopped.                                                                *)
DetachUnchecked ==
  /\ pc = "detach"
  /\ \/ UsbDetached
     \/ /\ usb_owned' = FALSE
        /\ UNCHANGED <<mode, mounted, block_count, hp_run, request, fs, usb, host, data>>
  /\ pc' = "fail"

Detach ==
  /\ pc = "detach"
  /\ \/ UsbDetached /\ pc' = "fail"
     \/ CallbackFails

-----------------------------------------------------------------------------
(* Mutant: block calls are not denied before usb_stop.                     *)
LeaveMscOpen ==
  /\ pc = "idle"
  /\ mode = "MSC"
  /\ ejected /\ transfer = NoTransfer
  /\ pc' = "usb_stop"
  /\ UNCHANGED <<own, hp_run, request, fs, usb, host, data>>

(* Mutant: the card is mounted before the host is off the bus.             *)
UsbStopAfterMount ==
  /\ pc = "usb_stop"
  /\ pc' = "mount"
  /\ usb_owned' = FALSE
  /\ UNCHANGED <<mode, mounted, block_count, hp_run, request, fs, usb, host, data>>

(***************************************************************************)
(* mpsi_leave_msc.  It goes on with Mount, Prepare, Run and Ready.         *)
(***************************************************************************)
LeaveMsc ==
  /\ pc = "idle"
  /\ mode = "MSC"
  /\ ejected /\ transfer = NoTransfer
  /\ mode' = "OFF"
  /\ pc' = "usb_stop"
  /\ UNCHANGED <<mounted, usb_owned, block_count, hp_run, request, fs, usb, host, data>>

UsbStop ==
  /\ pc = "usb_stop"
  /\ \/ UsbDetached /\ pc' = "mount"
     \/ CallbackFails

-----------------------------------------------------------------------------
(***************************************************************************)
(* mpsi_general_read and mpsi_general_write: called by the main loop for a *)
(* captured request, they refuse unless the component serves.              *)
(***************************************************************************)
ServesFiles == mode = "SERVING" /\ mounted /\ ~usb_owned

GeneralRead ==
  /\ pc = "idle" /\ request
  /\ ServesFiles
  /\ \/ /\ request' = FALSE
        /\ UNCHANGED <<own, pc, hp_run, fs, usb, host, data>>
     \/ CallbackFails

GeneralWrite ==
  /\ pc = "idle" /\ request
  /\ ServesFiles
  /\ \/ /\ request' = FALSE
        /\ cache' = "dirty"
        /\ UNCHANGED <<own, pc, hp_run, fs, usb, host, staged>>
     \/ CallbackFails

(* A virtual cassette writes through the same card: mpsi_tape.c may call   *)
(* its write_cell while the component serves files, and at no other time.  *)
CellWrite ==
  /\ pc = "idle"
  /\ ServesFiles
  /\ cache' = "dirty"
  /\ UNCHANGED <<own, pc, hp_run, request, fs, usb, host, staged>>

-----------------------------------------------------------------------------
(***************************************************************************)
(* mpsi_msc_read and mpsi_msc_write.  Counts and addresses come from the   *)
(* host unchecked; the subtraction keeps the test within 32 bits (mutant:  *)
(* the sum, which wraps).                                                  *)
(***************************************************************************)
BlockAccessWraps(lba, blocks) ==
  /\ mode = "MSC" /\ usb_owned /\ ~mounted
  /\ blocks > 0
  /\ (lba + blocks) % (MaxU32 + 1) <= block_count

BlockAccess(lba, blocks) ==
  /\ mode = "MSC" /\ usb_owned /\ ~mounted
  /\ blocks > 0
  /\ lba < block_count
  /\ blocks <= block_count - lba

BlockCall(write, lba, blocks) ==
  /\ usb /\ ~ejected
  /\ transfer = NoTransfer
  /\ BlockAccess(lba, blocks)
  /\ transfer' = [write |-> write, lba |-> lba, blocks |-> blocks]
  /\ staged' = (staged /\ ~write)
  /\ UNCHANGED <<own, pc, hp_run, request, fs, usb, ejected, cache>>

BlockDone ==
  /\ transfer # NoTransfer
  /\ transfer' = NoTransfer
  /\ UNCHANGED <<own, pc, hp_run, request, fs, usb, ejected, data>>

-----------------------------------------------------------------------------
(***************************************************************************)
(* The world around the component.                                         *)
(***************************************************************************)

(* The HP is independent: it calls whenever the interface is on the line.  *)
HpRequest ==
  /\ hp_run /\ ~request
  /\ request' = TRUE
  /\ UNCHANGED <<own, pc, hp_run, fs, usb, host, data>>

HostEject ==
  /\ usb /\ ~ejected
  /\ transfer = NoTransfer
  /\ ejected' = TRUE
  /\ UNCHANGED <<own, pc, hp_run, request, fs, usb, transfer, data>>

HostReconnect ==
  /\ usb /\ ejected
  /\ ejected' = FALSE
  /\ UNCHANGED <<own, pc, hp_run, request, fs, usb, transfer, data>>

(* RAM holds nothing; the default-low pull keeps HP_RUN off and the USB    *)
(* device is detached until the firmware drives them.                      *)
PowerLoss ==
  /\ pc # "reset"
  /\ mode' = "OFF" /\ mounted' = FALSE /\ usb_owned' = FALSE /\ block_count' = 0
  /\ pc' = "reset"
  /\ hp_run' = FALSE /\ request' = FALSE
  /\ fs' = FALSE /\ usb' = FALSE /\ ejected' = FALSE
  /\ cache' = "clean" /\ staged' = FALSE
  /\ transfer' = NoTransfer

-----------------------------------------------------------------------------
(* The steps of an operation already begun.                                *)
Continue ==
  \/ Mount \/ Prepare \/ Run \/ Ready
  \/ HpOff \/ FlushClose \/ Sync \/ Unmount \/ UsbStart \/ Detach
  \/ UsbStop
  \/ Fail

General == GeneralRead \/ GeneralWrite

Host ==
  \/ \E write \in BOOLEAN, lba, blocks \in U32 : BlockCall(write, lba, blocks)
  \/ BlockDone
  \/ HostEject \/ HostReconnect

Next ==
  \/ \E count \in U32 : StorageInit(count)
  \/ EnterMsc \/ LeaveMsc
  \/ Continue
  \/ UsbAttach
  \/ General \/ CellWrite
  \/ Host
  \/ HpRequest
  \/ PowerLoss

Spec == Init /\ [][Next]_vars

(* The main loop runs: callbacks return and a captured request is taken    *)
(* up.  Nothing is assumed of the HP, the USB host, the operator or power. *)
Fairness == WF_vars(Continue) /\ WF_vars(General)

FairSpec == Spec /\ Fairness

-----------------------------------------------------------------------------
(***************************************************************************)
(* Properties.                                                             *)
(***************************************************************************)

(* What every port callback may take for granted when it is called: the    *)
(* assertions of the mock port, tests/test_firmware.c lines 22 to 83.  The *)
(* HP is on the line only over a mounted card that USB does not have;      *)
(* mount, flush, sync, unmount and both USB calls come with the HP off; a  *)
(* USB call never comes with the card mounted; and a block transfer runs   *)
(* only while USB is the sole owner.                                       *)
PortContract ==
  /\ hp_run => fs /\ ~usb
  /\ pc = "mount" => ~usb /\ ~hp_run
  /\ pc \in {"run", "ready"} => fs /\ ~usb
  /\ pc = "ready" => hp_run
  /\ pc \in {"flush", "sync", "unmount"} => fs /\ ~usb /\ ~hp_run
  /\ pc \in {"usb_start", "usb_stop", "detach"} => ~fs /\ ~hp_run
  /\ transfer # NoTransfer => usb /\ ~fs /\ ~hp_run

(* The component's record tells the truth.  An attached USB device is      *)
(* always booked as owner, so that the recovery rule (never initialise     *)
(* while USB owns the card) can be followed by reading usb_owned; and      *)
(* between operations the mode says what the hardware does.                *)
RecordIsTrue ==
  /\ usb => usb_owned
  /\ usb_owned => ~mounted
  /\ pc = "idle" =>
       /\ hp_run <=> mode = "SERVING"
       /\ mode = "SERVING" => mounted /\ fs /\ ~usb_owned
       /\ mode = "MSC" => usb /\ usb_owned /\ ~fs

(* A block transfer the component lets through stays on the card, whatever *)
(* address and count the host sent.                                        *)
TransferOnCard ==
  transfer.lba + transfer.blocks <= block_count

(* A captured request ends with an answer; otherwise only a fault or the   *)
(* loss of power takes the HP off the line under it.  The operator's       *)
(* hand-over is the one exception, and only for a request that came after  *)
(* its quiescence check: it never starts over one captured before.         *)
RequestsNotDropped ==
  [][ /\ (request /\ ~request')
           => (General \/ mode' = "FAULT" \/ pc' = "reset" \/ pc = "hp_off")
      /\ (pc # "hp_off" /\ pc' = "hp_off") => ~request ]_vars

(* Once the hand-back has begun, or a start has failed, or the component   *)
(* has faulted, the host gets no new block transfer, even if it reconnects *)
(* before usb_stop has detached it.                                        *)
NoTransferAfterHandback ==
  [][(transfer = NoTransfer /\ transfer' # NoTransfer)
       => (mode = "MSC" /\ pc \in {"idle", "usb_start"})]_vars

(* The HP is never left waiting: a captured request is answered, or its    *)
(* line goes down with HP_RUN.                                             *)
RequestEnds == request ~> ~request

(***************************************************************************)
(* The component implements CardOwnership.                                 *)
(***************************************************************************)
Owner == IF usb THEN "host" ELSE IF fs THEN "local" ELSE "none"

Ownership == INSTANCE CardOwnership
               WITH owner <- Owner, serving <- hp_run, unsaved <- (cache # "clean")

(* One owner at a time and never a direct hand-over, nothing unsaved when  *)
(* the card changes hands, and no HP service from data staged before the   *)
(* host's last write: every step is one CardOwnership allows.              *)
ExclusiveOwnership == Ownership!Spec

=============================================================================
