------------------------------ MODULE MpsiCpld -------------------------------
(***************************************************************************)
(* The rev2 CPLD, hardware/rev2/rtl/mpsi_cpld.vhdl, with the pair of       *)
(* HCT165 input registers beside it (hardware/rev2/tb/hct165_pair.vhdl).   *)
(*                                                                         *)
(* A level is 0 or 1 and a register is a function from bit numbers to      *)
(* levels.  A step is a change of pins without a clock edge (Pins), a      *)
(* rising edge of the 24 MHz clock (MckEdge) or a rising edge of the SPI   *)
(* clock (SckEdge); after each the asynchronous resets have settled.  Who  *)
(* moves the pins is left to the module that uses this one.                *)
(***************************************************************************)
EXTENDS Integers

Level  == {0, 1}
Zeros(width) == [i \in 0 .. width - 1 |-> 0]

VARIABLES
  reset_n, hp_run, spi_cs_n, cfg_frame,  \* pins from the microcontroller
  co, word, nceo, nsih,                  \* pins from the HP; word is SO and DO
  shift, cfg,                            \* response and configuration registers
  ack, cfi, ssi,                         \* the three flags
  enable_meta, enable_sync, enable_prev, \* synchroniser of CEO
  capture_state,
  contents                               \* the word in the HCT165s

mcuPins   == <<reset_n, hp_run, spi_cs_n, cfg_frame>>
hpPins    == <<co, word, nceo, nsih>>
registers == <<shift, cfg>>
flags     == <<ack, cfi, ssi>>
enables   == <<enable_meta, enable_sync, enable_prev>>
cpldVars  == <<mcuPins, hpPins, registers, flags, enables, capture_state, contents>>

CpldInit ==
  /\ reset_n = 0 /\ hp_run = 0 /\ spi_cs_n = 1 /\ cfg_frame = 0
  /\ co = 0 /\ word = Zeros(12) /\ nceo = 1 /\ nsih = 1
  /\ shift = Zeros(16) /\ cfg = Zeros(12)
  /\ ack = 0 /\ cfi = 0 /\ ssi = 0
  /\ enable_meta = 0 /\ enable_sync = 0 /\ enable_prev = 0
  /\ capture_state = "IDLE"
  /\ contents = Zeros(16)

-----------------------------------------------------------------------------
(* Selection of a port by the select code on CO.                           *)

Nibble(register, i) ==
  8 * register[i + 3] + 4 * register[i + 2] + 2 * register[i + 1] + register[i]

(* Mutant: a configuration frame does not blank the decoder.               *)
HpActiveUnframed == hp_run = 1

HpActive   == hp_run = 1 /\ cfg_frame = 0
Configured == \E i \in 0 .. 8 : cfg[i] = 1

Decodes(code) == code # 0 /\ co = code

GpSelected      == Configured /\ HpActive /\ Decodes(Nibble(cfg, 0))
TapeSelected    == Configured /\ HpActive /\ Decodes(Nibble(cfg, 4))
PrinterSelected == Configured /\ HpActive /\ cfg[8] = 1 /\ co = 15
GeneralSelected == GpSelected \/ PrinterSelected
DeviceEnabled   == (GeneralSelected \/ TapeSelected) /\ nceo = 0

FlagsReset   == reset_n = 0 \/ ~HpActive
AckReset     == FlagsReset \/ (GeneralSelected /\ nceo = 0)
CfiReset     == FlagsReset \/ ~TapeSelected \/ nceo = 1
SsiReset     == FlagsReset \/ DeviceEnabled
(* Mutant: CS does not inhibit loading.                                    *)
CaptureResetOpen == FlagsReset

CaptureReset == FlagsReset \/ spi_cs_n = 0

PlLow     == capture_state \in {"FIRST_LOAD", "SECOND_LOAD"}
Requested == ~FlagsReset /\ capture_state = "CAPTURED"

-----------------------------------------------------------------------------
(* What the HP sees: the lines of DI and SI, CFI and SSI that are sunk.    *)

InterruptLines == <<0, 7, 8, 9, 10>>
Selector       == 4 * cfg[11] + 2 * cfg[10] + cfg[9]

InterruptActive == Configured /\ HpActive /\ ssi = 1 /\ nsih = 1 /\ Selector < 5
IrqMask         == IF InterruptActive THEN {InterruptLines[Selector + 1]} ELSE {}

DataEnable   == (GeneralSelected /\ nsih = 0) \/ (TapeSelected /\ nceo = 0)
StatusEnable == GeneralSelected \/ (TapeSelected /\ nceo = 1)

Value(i) == IF i = 8 THEN ack ELSE shift[i]
Gated    == (IF StatusEnable THEN 8 .. 11 ELSE {}) \cup (IF DataEnable THEN 0 .. 7 ELSE {})
Sinks    == IF FlagsReset THEN {} ELSE {i \in Gated : Value(i) = 1} \cup IrqMask

CfiSunk == ~FlagsReset /\ TapeSelected /\ nceo = 0 /\ cfi = 1

-----------------------------------------------------------------------------
(* Steps.                                                                  *)

ShiftIn(register, level) ==
  [i \in DOMAIN register |-> IF i = 0 THEN level ELSE register[i - 1]]

(* The inputs of the HCT165s: CO, SO and DO from the top.                  *)
ParallelData == [i \in 0 .. 15 |-> IF i < 12 THEN word[i] ELSE (co \div 2 ^ (i - 12)) % 2]

(* Mutant: the flags follow the response register.                         *)
FlagLoadDirect(flag, i) == shift[i]

(* A flag loads its bit when CS rises outside a configuration frame.       *)
FlagLoad(flag, i) ==
  IF spi_cs_n = 0 /\ spi_cs_n' = 1 /\ cfg_frame' = 0 THEN shift[i] ELSE flag

(* Some pins have changed, as the caller says; no clock edge.              *)
Pins ==
  /\ shift' = IF reset_n' = 0 THEN Zeros(16) ELSE shift
  /\ cfg' = IF reset_n' = 0 THEN Zeros(12) ELSE cfg
  /\ ack' = IF AckReset' THEN 0 ELSE FlagLoad(ack, 13)
  /\ cfi' = IF CfiReset' THEN 0 ELSE FlagLoad(cfi, 14)
  /\ ssi' = IF SsiReset' THEN 0 ELSE FlagLoad(ssi, 15)
  /\ enable_meta' = IF FlagsReset' THEN 0 ELSE enable_meta
  /\ enable_sync' = IF FlagsReset' THEN 0 ELSE enable_sync
  /\ enable_prev' = IF FlagsReset' THEN 0 ELSE enable_prev
  /\ capture_state' = IF CaptureReset' THEN "IDLE" ELSE capture_state
  /\ contents' = IF PlLow /\ ~PlLow' THEN ParallelData ELSE contents

(* Mutant: the level of CEO starts a load, not its edge.                   *)
NextCaptureLevel ==
  CASE capture_state = "IDLE" /\ enable_sync = 1 -> "FIRST_LOAD"
    [] capture_state = "FIRST_LOAD" -> "SECOND_LOAD"
    [] capture_state = "SECOND_LOAD" -> "CAPTURED"
    [] OTHER -> capture_state

(* The capture controller at an edge of the clock.                         *)
NextCapture ==
  CASE enable_sync = 1 /\ enable_prev = 0 -> "FIRST_LOAD"
    [] ~(enable_sync = 1 /\ enable_prev = 0) /\ capture_state = "FIRST_LOAD" -> "SECOND_LOAD"
    [] ~(enable_sync = 1 /\ enable_prev = 0) /\ capture_state = "SECOND_LOAD" -> "CAPTURED"
    [] OTHER -> capture_state

MckEdge ==
  /\ enable_meta' = IF ~FlagsReset /\ DeviceEnabled THEN 1 ELSE 0
  /\ enable_sync' = IF FlagsReset THEN 0 ELSE enable_meta
  /\ enable_prev' = IF FlagsReset THEN 0 ELSE enable_sync
  /\ capture_state' = IF CaptureReset THEN "IDLE" ELSE NextCapture
  /\ contents' = IF PlLow /\ ~PlLow' THEN ParallelData ELSE contents
  /\ UNCHANGED <<mcuPins, hpPins, registers, flags>>

(* A clock of the SPI; the flags may only follow what is selected, so a    *)
(* new configuration cannot touch them: it shifts with HpActive false.     *)
SckEdge(mosi) ==
  /\ reset_n = 1 /\ spi_cs_n = 0
  /\ IF cfg_frame = 1
     THEN cfg' = ShiftIn(cfg, mosi) /\ UNCHANGED shift
     ELSE shift' = ShiftIn(shift, mosi) /\ UNCHANGED cfg
  /\ contents' = IF PlLow THEN contents ELSE ShiftIn(contents, 0)
  /\ UNCHANGED <<mcuPins, hpPins, flags, enables, capture_state>>

(* What the microcontroller samples before that edge.                      *)
Miso == IF PlLow THEN ParallelData[15] ELSE contents[15]

=============================================================================
