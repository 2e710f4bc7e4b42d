-------------------------------- MODULE HpBus --------------------------------
(***************************************************************************)
(* The CPLD between the HP and the microcontroller.                        *)
(*                                                                         *)
(* The HP works as the stimulus of hardware/rev2/tb/tb_mpsi.vhdl does: in  *)
(* General Mode it pulses CEO and looks for SI0 later, in Fast Mode it     *)
(* holds CEO until CFI.  A patient HP also waits for SI0 before it begins  *)
(* an operation; an impatient one does not (the bench's overwritten and    *)
(* lost requests).  The microcontroller makes the bench's transactions in  *)
(* the order of requirements/03_interface.md: read a request with the      *)
(* flags clear, answer it, read the next.  The clock of the CPLD runs      *)
(* beside both.                                                            *)
(***************************************************************************)
EXTENDS MpsiCpld, Sequences, FiniteSets

CONSTANTS
  None,
  Configs,     \* configurations the operator may ask for, valid or not
  Codes,       \* select codes the HP puts on CO
  Words,       \* the {SO, DO} words it puts beside them
  Serve(_),    \* the byte a request word is answered with
  Hold,        \* clock edges the HP keeps CEO as it is, at the least
  Patient      \* whether the HP waits for SI0 before it begins

(* The HP keeps CEO and what is beside it until PL has closed, which takes *)
(* five clocks (requirements/03_interface.md lines 135 to 137).            *)
ASSUME HpBusAssumption ==
  /\ Configs \subseteq [gp_address : Nat, tp_address : Nat,
                        printer_enabled : BOOLEAN, irq_selector : Nat]
  /\ Codes \subseteq 0 .. 15
  /\ Words \subseteq [0 .. 11 -> Level]
  /\ None \notin [0 .. 15 -> Level]
  /\ \A request \in [0 .. 15 -> Level] : Serve(request) \in [0 .. 7 -> Level]
  /\ Hold \in Nat /\ Hold >= 5
  /\ Patient \in BOOLEAN

VARIABLES
  still,    \* clock edges since CEO changed, up to Hold
  asked,    \* the request word of the HP's operation, or None
  taken,    \* the last byte the HP took, or None
  pc,       \* what the microcontroller does
  sending,  \* its transfer: what for, the bits still to send
  saved,    \* REQUEST_n was low before CS went low
  received, \* the bits sampled from MISO
  queue,    \* received request words, oldest first
  served    \* the request word last handed to the service, or None

hpVars  == <<still, asked, taken>>
mcuVars == <<pc, sending, saved, received, queue, served>>
vars    == <<cpldVars, hpVars, mcuVars>>

Init ==
  /\ CpldInit
  /\ still = 0 /\ asked = None /\ taken = None
  /\ pc = "reset"
  /\ sending = [kind |-> "none", word |-> Zeros(16), left |-> 0]
  /\ saved = FALSE /\ received = Zeros(16) /\ queue = <<>> /\ served = None

-----------------------------------------------------------------------------
(* mpsi_protocol.h                                                         *)

ConfigValid(c) ==
  /\ c.gp_address < 16 /\ c.gp_address # 10
  /\ c.tp_address < 16 /\ c.tp_address # 10
  /\ c.gp_address = 0 \/ c.tp_address = 0 \/ c.gp_address # c.tp_address
  /\ c.irq_selector < 5
  /\ c.printer_enabled => c.gp_address # 15 /\ c.tp_address # 15

Bits(n) == [i \in 0 .. 15 |-> (n \div 2 ^ i) % 2]

ConfigWord(c) ==
  Bits(c.gp_address + 16 * c.tp_address
       + (IF c.printer_enabled THEN 256 ELSE 0) + 512 * c.irq_selector)

(* A response: the service's byte, ACK, and CFI for a tape operation.      *)
Response(byte, cfiBit, ssiBit) ==
  [i \in 0 .. 15 |-> CASE i < 8 -> byte[i]
                       [] i = 13 -> 1
                       [] i = 14 -> cfiBit
                       [] i = 15 -> ssiBit
                       [] OTHER -> 0]

RequestWord(code, w) ==
  [i \in 0 .. 15 |-> IF i < 12 THEN w[i] ELSE (code \div 2 ^ (i - 12)) % 2]

IsTape(request)  == Nibble(request, 12) = Nibble(cfg, 4)
IsInput(request) == request[11] = 1

-----------------------------------------------------------------------------
(* The HP.                                                                 *)

Steady == still = Hold

SeesReady == nsih = 0 /\ 8 \in Sinks
DataSeen  == [i \in 0 .. 7 |-> IF i \in Sinks THEN 1 ELSE 0]

HpKeeps == UNCHANGED <<mcuPins, mcuVars>>

HpSelect(code) ==
  /\ nceo = 1 /\ code # co
  /\ co' = code
  /\ HpKeeps
  /\ UNCHANGED <<word, nceo, nsih, hpVars>>
  /\ Pins

(* SIH is a matter of the HP alone, and high when it may be interrupted.   *)
HpInhibit ==
  /\ nceo = 1
  /\ nsih' = 1 - nsih
  /\ HpKeeps
  /\ UNCHANGED <<co, word, nceo, hpVars>>
  /\ Pins

HpAsk(w) ==
  /\ nceo = 1 /\ nsih = 0 /\ Steady
  /\ Patient => asked = None /\ SeesReady
  /\ GeneralSelected \/ TapeSelected
  /\ word' = w /\ nceo' = 0
  /\ asked' = RequestWord(co, w)
  /\ still' = 0
  /\ HpKeeps
  /\ UNCHANGED <<co, nsih, taken>>
  /\ Pins

(* CEO for another device on the bus.                                      *)
HpAskOther(w) ==
  /\ nceo = 1 /\ Steady
  /\ ~GeneralSelected /\ ~TapeSelected /\ co \in {0, 10}
  /\ word' = w /\ nceo' = 0
  /\ still' = 0
  /\ HpKeeps
  /\ UNCHANGED <<co, nsih, asked, taken>>
  /\ Pins

HpReleaseGeneral ==
  /\ nceo = 0 /\ Steady /\ ~TapeSelected
  /\ nceo' = 1
  /\ still' = 0
  /\ HpKeeps
  /\ UNCHANGED <<co, word, nsih, asked, taken>>
  /\ Pins

(* In General Mode the HP comes back for the byte when it sees SI0.        *)
HpFinishGeneral ==
  /\ asked # None /\ nceo = 1 /\ Steady
  /\ GeneralSelected /\ co = Nibble(asked, 12) /\ SeesReady
  /\ taken' = IF IsInput(asked) THEN DataSeen ELSE taken
  /\ asked' = None /\ served' = None
  /\ UNCHANGED <<cpldVars, still, pc, sending, saved, received, queue>>

(* In Fast Mode it takes the byte at CFI and lets CEO go.                  *)
HpFinishFast ==
  /\ asked # None /\ nceo = 0 /\ Steady
  /\ CfiSunk
  /\ taken' = IF IsInput(asked) THEN DataSeen ELSE taken
  /\ asked' = None /\ served' = None
  /\ nceo' = 1
  /\ still' = 0
  /\ UNCHANGED <<co, word, nsih, mcuPins, pc, sending, saved, received, queue>>
  /\ Pins

HpNext ==
  \/ \E code \in Codes : HpSelect(code)
  \/ HpInhibit
  \/ \E w \in Words : HpAsk(w) \/ HpAskOther(w)
  \/ HpReleaseGeneral \/ HpFinishGeneral \/ HpFinishFast

-----------------------------------------------------------------------------
(* The clock.                                                              *)

Mck ==
  /\ MckEdge
  /\ still' = IF Steady THEN still ELSE still + 1
  /\ UNCHANGED <<asked, taken, mcuVars>>

-----------------------------------------------------------------------------
(* The microcontroller.                                                    *)

McuKeeps == UNCHANGED <<hpPins, asked, taken>>

ReleaseReset ==
  /\ pc = "reset"
  /\ reset_n' = 1
  /\ pc' = "off"
  /\ McuKeeps
  /\ UNCHANGED <<hp_run, spi_cs_n, cfg_frame, still, sending, saved, received, queue, served>>
  /\ Pins

(* The HP is to be taken off the line, or its decoder changed, between its *)
(* operations only: the firmware looks at REQUEST_n and its own queue, the *)
(* operator sees to the rest.                                              *)
Quiescent == ~Requested /\ queue = <<>> /\ asked = None

(* Take CS low for a transfer; REQUEST_n was sampled before.               *)
BeginTransfer(kind, bits) ==
  /\ spi_cs_n' = 0
  /\ sending' = [kind |-> kind, word |-> bits, left |-> 16]
  /\ received' = Zeros(16)
  /\ pc' = "transfer"

Configure(c) ==
  /\ pc = "off" \/ (pc = "idle" /\ Quiescent)
  /\ ConfigValid(c)
  /\ BeginTransfer("config", ConfigWord(c))
  /\ saved' = FALSE
  /\ cfg_frame' = 1
  /\ McuKeeps
  /\ UNCHANGED <<reset_n, hp_run, still, queue, served>>
  /\ Pins

RaiseRun ==
  /\ pc = "off" /\ Nibble(cfg, 0) # 0
  /\ hp_run' = 1
  /\ pc' = "settle"
  /\ McuKeeps
  /\ UNCHANGED <<reset_n, spi_cs_n, cfg_frame, still, sending, saved, received, queue, served>>
  /\ Pins

LowerRun ==
  /\ pc = "idle" /\ Quiescent
  /\ hp_run' = 0
  /\ pc' = "off"
  /\ McuKeeps
  /\ UNCHANGED <<reset_n, spi_cs_n, cfg_frame, still, sending, saved, received, queue, served>>
  /\ Pins

(* After HP_RUN has risen: the first ACK.                                  *)
SendReady ==
  /\ pc = "settle" /\ ~PlLow
  /\ BeginTransfer("ready", Response(Zeros(8), 0, 0))
  /\ saved' = Requested
  /\ McuKeeps
  /\ UNCHANGED <<reset_n, hp_run, cfg_frame, still, queue, served>>
  /\ Pins

SampleRequest ==
  /\ pc = "idle" /\ queue = <<>>
  /\ Requested
  /\ saved' = TRUE
  /\ pc' = "read"
  /\ UNCHANGED <<cpldVars, hpVars, sending, received, queue, served>>

ReadRequest ==
  /\ pc = "read" /\ ~PlLow
  /\ BeginTransfer("read", Zeros(16))
  /\ McuKeeps
  /\ UNCHANGED <<reset_n, hp_run, cfg_frame, still, saved, queue, served>>
  /\ Pins

(* The service takes the oldest request and its answer is sent.            *)
Answer(ssiBit) ==
  /\ pc = "idle" /\ queue # <<>> /\ ~PlLow
  /\ LET request == Head(queue) IN
       /\ served' = request
       /\ BeginTransfer("reply", Response(Serve(request), IF IsTape(request) THEN 1 ELSE 0, ssiBit))
  /\ queue' = Tail(queue)
  /\ saved' = Requested
  /\ McuKeeps
  /\ UNCHANGED <<reset_n, hp_run, cfg_frame, still>>
  /\ Pins

(* Mutant: one clock too many.                                             *)
SpiClockSeventeen ==
  /\ pc = "transfer" /\ sending.left >= 0
  /\ received' = ShiftIn(received, Miso)
  /\ SckEdge(sending.word[IF sending.left = 0 THEN 0 ELSE sending.left - 1])
  /\ sending' = [sending EXCEPT !.left = @ - 1]
  /\ UNCHANGED <<hpVars, pc, saved, queue, served>>

SpiClock ==
  /\ pc = "transfer" /\ sending.left > 0
  /\ received' = ShiftIn(received, Miso)
  /\ SckEdge(sending.word[sending.left - 1])
  /\ sending' = [sending EXCEPT !.left = @ - 1]
  /\ UNCHANGED <<hpVars, pc, saved, queue, served>>

(* Mutant: REQUEST_n is looked at after the transfer, not before.          *)
EndTransferLate ==
  /\ pc = "transfer" /\ sending.left = 0
  /\ spi_cs_n' = 1
  /\ queue' = IF Requested THEN Append(queue, received) ELSE queue
  /\ pc' = IF sending.kind = "config" THEN "frame" ELSE "idle"
  /\ sending' = [kind |-> "none", word |-> Zeros(16), left |-> 0]
  /\ received' = Zeros(16) /\ saved' = FALSE
  /\ McuKeeps
  /\ UNCHANGED <<reset_n, hp_run, cfg_frame, still, served>>
  /\ Pins

(* CS high ends the transfer; a word that came with a request is queued.   *)
EndTransfer ==
  /\ pc = "transfer" /\ sending.left = 0
  /\ spi_cs_n' = 1
  /\ queue' = IF saved THEN Append(queue, received) ELSE queue
  /\ pc' = IF sending.kind = "config" THEN "frame" ELSE "idle"
  /\ sending' = [kind |-> "none", word |-> Zeros(16), left |-> 0]
  /\ received' = Zeros(16) /\ saved' = FALSE
  /\ McuKeeps
  /\ UNCHANGED <<reset_n, hp_run, cfg_frame, still, served>>
  /\ Pins

EndFrame ==
  /\ pc = "frame"
  /\ cfg_frame' = 0
  /\ pc' = IF hp_run = 1 THEN "settle" ELSE "off"
  /\ McuKeeps
  /\ UNCHANGED <<reset_n, hp_run, spi_cs_n, still, sending, saved, received, queue, served>>
  /\ Pins

McuNext ==
  \/ ReleaseReset
  \/ \E c \in Configs : Configure(c)
  \/ RaiseRun \/ LowerRun \/ SendReady
  \/ SampleRequest \/ ReadRequest
  \/ \E ssiBit \in Level : Answer(ssiBit)
  \/ SpiClock \/ EndTransfer \/ EndFrame

Next == HpNext \/ Mck \/ McuNext

Spec == Init /\ [][Next]_vars

-----------------------------------------------------------------------------
(* Properties.                                                             *)

(* Every register, pin and word has its width, and the queue holds at most *)
(* the one word a transfer brought (the bench's exchange and response).    *)
TypeOK ==
  /\ \A level \in {reset_n, hp_run, spi_cs_n, cfg_frame, nceo, nsih, ack, cfi, ssi,
                   enable_meta, enable_sync, enable_prev} : level \in Level
  /\ co \in 0 .. 15
  /\ word \in [0 .. 11 -> Level] /\ cfg \in [0 .. 11 -> Level]
  /\ \A register \in {shift, contents, received} : register \in [0 .. 15 -> Level]
  /\ capture_state \in {"IDLE", "FIRST_LOAD", "SECOND_LOAD", "CAPTURED"}
  /\ still \in 0 .. Hold
  /\ pc \in {"reset", "off", "settle", "idle", "read", "transfer", "frame"}
  /\ sending \in [kind : {"none", "config", "ready", "read", "reply"},
                  word : [0 .. 15 -> Level], left : 0 .. 16]
  /\ saved \in BOOLEAN
  /\ asked \in [0 .. 15 -> Level] \cup {None} /\ served \in [0 .. 15 -> Level] \cup {None}
  /\ taken \in [0 .. 7 -> Level] \cup {None}
  /\ queue \in Seq([0 .. 15 -> Level]) /\ Len(queue) <= 1

(* Never two ports for one select code, and never one for SC0 or SC10,     *)
(* whatever passes through the configuration register: mpsi_config_valid   *)
(* of mpsi_protocol.h and CFG_FRAME together make the decoder of           *)
(* mpsi_cpld.vhdl lines 79 to 86 exclusive.                                *)
DecodeExclusive ==
  /\ ~(GpSelected /\ TapeSelected)
  /\ ~(PrinterSelected /\ (GpSelected \/ TapeSelected))
  /\ GeneralSelected \/ TapeSelected => co \notin {0, 10}

(* A word the microcontroller queues is a word the HP put on the bus, in   *)
(* one piece and at a select code that was answered, even when a second    *)
(* request overtakes the first (mpsi_cpld.vhdl lines 141 to 157).          *)
WordWhole ==
  \A i \in 1 .. Len(queue) :
    \E c \in Configs, w \in Words :
      /\ ConfigValid(c)
      /\ queue[i] \in {RequestWord(c.gp_address, w), RequestWord(c.tp_address, w),
                       RequestWord(15, w)}

(* While the HP waits and its request is signalled, the word in the input  *)
(* registers is the one it asked with: PL closed before the HP let go      *)
(* (mpsi_cpld.vhdl lines 141 to 170), and it was captured only once.       *)
CaptureIsRequest == Requested /\ asked # None => contents = asked /\ served = None

(* The bus keeps the interface's promise: one service per operation, and   *)
(* the HP sees ready only with the whole answer to what it asked, although *)
(* data is on the lines while it shifts (mpsi_cpld.vhdl lines 94 to 139).  *)
Exchange == INSTANCE HpExchange
KeepsPromise == Exchange!Spec

Acknowledged == asked = None \/ (ack = 1 /\ ~IsTape(asked))

(* An operation is acknowledged: in Fast Mode CFI comes and the HP lets    *)
(* CEO go, in General Mode ACK is up for the HP to find.  No request is    *)
(* lost between CEO and the answer and no flag is loaded while it is held  *)
(* in reset (mpsi_cpld.vhdl lines 115 to 170), unless a General CEO lasts  *)
(* until the answer has been shifted.                                      *)
CeoOutlastsAnswer ==
  pc = "transfer" /\ sending.kind = "reply" /\ sending.left = 0 /\ GeneralSelected /\ nceo = 0
OperationAcknowledged ==
  asked # None /\ served = None ~> Acknowledged \/ CeoOutlastsAnswer

(* requirements/03_interface.md lines 174 and 175: an acknowledge is a     *)
(* handshake and does not depend on rates, nor on how long CEO lasts.      *)
AlwaysAcknowledged == asked # None ~> Acknowledged

(* The clock and the microcontroller run, and the HP lets CEO go.          *)
Fairness ==
  /\ WF_vars(Mck) /\ WF_vars(McuNext)
  /\ WF_vars(HpReleaseGeneral) /\ WF_vars(HpFinishFast)

FairSpec == Spec /\ Fairness

=============================================================================
