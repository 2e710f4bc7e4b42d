------------------------------ MODULE HpBusProofs -------------------------------
(***************************************************************************)
(* Proofs about HpBus: whatever configurations the operator asks for, in   *)
(* whatever order, the decoder of the CPLD answers a select code with one  *)
(* port at most; every word the microcontroller queues is whole; and with  *)
(* a patient HP the bus implements HpExchange.                             *)
(***************************************************************************)
EXTENDS HpBus, TLAPS

-----------------------------------------------------------------------------
(* What the bits of a configuration word say.                              *)

LEMMA Powers ==
  /\ 2 ^ 0 = 1 /\ 2 ^ 1 = 2 /\ 2 ^ 2 = 4 /\ 2 ^ 3 = 8 /\ 2 ^ 4 = 16
  /\ 2 ^ 5 = 32 /\ 2 ^ 6 = 64 /\ 2 ^ 7 = 128 /\ 2 ^ 8 = 256
OBVIOUS

(* The number a configuration word is made of, and four of its bits.       *)
Packed(gp, tp, printer, irq) == gp + 16 * tp + 256 * printer + 512 * irq
Bit(n, weight) == (n \div weight) % 2
FourBits(n, weight) ==
  8 * Bit(n, 8 * weight) + 4 * Bit(n, 4 * weight) + 2 * Bit(n, 2 * weight) + Bit(n, weight)

LEMMA BitsOfPacked ==
  ASSUME NEW gp \in 0 .. 15, NEW tp \in 0 .. 15, NEW printer \in 0 .. 1, NEW irq \in 0 .. 4
  PROVE  /\ FourBits(Packed(gp, tp, printer, irq), 1) = gp
         /\ FourBits(Packed(gp, tp, printer, irq), 16) = tp
         /\ Bit(Packed(gp, tp, printer, irq), 256) = printer
<1>1. FourBits(Packed(gp, tp, printer, irq), 1) = gp
  BY DEF FourBits, Bit, Packed
<1>2. FourBits(Packed(gp, tp, printer, irq), 16) = tp
  BY DEF FourBits, Bit, Packed
<1>3. Bit(Packed(gp, tp, printer, irq), 256) = printer
  BY DEF Bit, Packed
<1>4. QED
  BY <1>1, <1>2, <1>3

(* The register holds a configuration.                                     *)
Holds(c) == \A i \in 0 .. 11 : cfg[i] = ConfigWord(c)[i]

LEMMA WhatIsHeld ==
  ASSUME NEW c \in Configs, ConfigValid(c), Holds(c)
  PROVE  /\ Nibble(cfg, 0) = c.gp_address
         /\ Nibble(cfg, 4) = c.tp_address
         /\ cfg[8] = IF c.printer_enabled THEN 1 ELSE 0
<1> DEFINE printer == IF c.printer_enabled THEN 1 ELSE 0
           n == Packed(c.gp_address, c.tp_address, printer, c.irq_selector)
<1>1. /\ c.gp_address \in 0 .. 15 /\ c.tp_address \in 0 .. 15
      /\ printer \in 0 .. 1 /\ c.irq_selector \in 0 .. 4
  BY HpBusAssumption DEF ConfigValid
<1>2. ConfigWord(c) = Bits(n)
  BY <1>1 DEF ConfigWord, Packed
<1>3. \A i \in 0 .. 11 : cfg[i] = (n \div 2 ^ i) % 2
  <2>1. \A i \in 0 .. 15 : Bits(n)[i] = (n \div 2 ^ i) % 2
    BY Zenon DEF Bits
  <2>2. \A i \in 0 .. 11 : i \in 0 .. 15 /\ cfg[i] = Bits(n)[i]
    BY <1>2 DEF Holds
  <2>3. QED
    BY <2>1, <2>2, Zenon
<1> HIDE DEF printer
<1>4. /\ FourBits(n, 1) = c.gp_address
      /\ FourBits(n, 16) = c.tp_address
      /\ Bit(n, 256) = printer
  BY <1>1, BitsOfPacked
<1> HIDE DEF n
<1>5. /\ cfg[0] = (n \div 1) % 2 /\ cfg[1] = (n \div 2) % 2
      /\ cfg[2] = (n \div 4) % 2 /\ cfg[3] = (n \div 8) % 2
      /\ cfg[4] = (n \div 16) % 2 /\ cfg[5] = (n \div 32) % 2
      /\ cfg[6] = (n \div 64) % 2 /\ cfg[7] = (n \div 128) % 2
      /\ cfg[8] = (n \div 256) % 2
  BY <1>3, Powers
<1>6. Nibble(cfg, 0) = FourBits(n, 1) /\ Nibble(cfg, 4) = FourBits(n, 16)
  BY <1>5 DEF Nibble, FourBits, Bit
<1>7. QED
  BY <1>4, <1>5, <1>6 DEF printer, Bit

-----------------------------------------------------------------------------
(* The invariant: outside a frame the register is clear or holds a valid   *)
(* configuration; in the middle of a frame it holds the bits sent so far.  *)

Clear   == \A i \in 0 .. 11 : cfg[i] = 0
Settled == \E c \in Configs : ConfigValid(c) /\ Holds(c)

Configuring == pc = "transfer" /\ sending.kind = "config"

SentSoFar ==
  /\ sending.left \in 0 .. 16
  /\ \E c \in Configs :
       /\ ConfigValid(c) /\ sending.word = ConfigWord(c)
       /\ \A i \in 0 .. 11 : i + sending.left < 16 => cfg[i] = ConfigWord(c)[i + sending.left]

IInv ==
  /\ cfg \in [0 .. 11 -> Level]
  /\ reset_n = 0 => pc = "reset"
  /\ cfg_frame \in {0, 1}
  /\ cfg_frame = 1 <=> pc = "frame" \/ Configuring
  /\ cfg_frame = 0 => Clear \/ Settled
  /\ pc = "frame" => Settled
  /\ Configuring => SentSoFar

LEMMA InitHolds == Init => IInv
BY DEF Init, CpldInit, Zeros, IInv, Level, Clear, Configuring

(* A configuration makes a word of sixteen bits.                           *)
LEMMA BitsAreLevels == ASSUME NEW n \in Nat PROVE Bits(n) \in [0 .. 15 -> Level]
BY DEF Bits, Level

LEMMA ConfigWordType ==
  ASSUME NEW c \in Configs
  PROVE  ConfigWord(c) \in [0 .. 15 -> Level]
<1>1. PICK n \in Nat : n = c.gp_address + 16 * c.tp_address
                            + (IF c.printer_enabled THEN 256 ELSE 0) + 512 * c.irq_selector
  BY HpBusAssumption
<1>2. ConfigWord(c) = Bits(n)
  BY <1>1 DEF ConfigWord
<1>3. QED
  BY <1>2, BitsAreLevels

(* Without a clock of the SPI the register stays, or is reset.             *)
LEMMA PinsLeaveConfiguration ==
  ASSUME Pins
  PROVE  cfg' = cfg \/ (reset_n' = 0 /\ cfg' = Zeros(12))
BY DEF Pins

(* Steps that leave the microcontroller where it is.                       *)
LEMMA OthersHold ==
  ASSUME IInv, pc' = pc, sending' = sending, cfg_frame' = cfg_frame, reset_n' = reset_n,
         cfg' = cfg \/ (reset_n' = 0 /\ cfg' = Zeros(12))
  PROVE  IInv'
<1>1. CASE cfg' = cfg
  BY <1>1 DEF IInv, Clear, Settled, Holds, Configuring, SentSoFar
<1>2. CASE reset_n' = 0 /\ cfg' = Zeros(12)
  <2>1. pc = "reset" /\ cfg_frame = 0
    BY <1>2 DEF IInv, Configuring
  <2>2. cfg' \in [0 .. 11 -> Level] /\ Clear'
    BY <1>2 DEF Zeros, Level, Clear
  <2>3. QED
    BY <2>1, <2>2 DEF IInv, Configuring
<1>3. QED
  BY <1>1, <1>2

LEMMA HpHolds ==
  ASSUME IInv, HpNext \/ Mck
  PROVE  IInv'
<1>1. pc' = pc /\ sending' = sending /\ cfg_frame' = cfg_frame /\ reset_n' = reset_n
  BY DEF HpNext, HpSelect, HpInhibit, HpAsk, HpAskOther, HpReleaseGeneral,
         HpFinishGeneral, HpFinishFast, HpKeeps, Mck, MckEdge, mcuPins, mcuVars, cpldVars
<1>2. Pins \/ cfg' = cfg
  BY DEF HpNext, HpSelect, HpInhibit, HpAsk, HpAskOther, HpReleaseGeneral,
         HpFinishGeneral, HpFinishFast, Mck, MckEdge, registers, cpldVars
<1>3. QED
  BY <1>1, <1>2, PinsLeaveConfiguration, OthersHold

(* Steps of the microcontroller outside a frame.                           *)
LEMMA OutsideHolds ==
  ASSUME IInv,
         ReleaseReset \/ RaiseRun \/ LowerRun \/ SendReady \/ SampleRequest \/ ReadRequest
           \/ (\E ssiBit \in Level : Answer(ssiBit))
  PROVE  IInv'
<1>1. /\ cfg_frame' = cfg_frame /\ pc \notin {"frame", "transfer"}
      /\ pc' \notin {"reset", "frame"} /\ ~Configuring'
      /\ reset_n' = 1 \/ (reset_n' = reset_n /\ pc # "reset")
  BY DEF ReleaseReset, RaiseRun, LowerRun, SendReady, SampleRequest, ReadRequest, Answer,
         BeginTransfer, Configuring, cpldVars, mcuPins
<1>2. reset_n' # 0
  BY <1>1 DEF IInv
<1>3. Pins \/ cfg' = cfg
  BY DEF ReleaseReset, RaiseRun, LowerRun, SendReady, SampleRequest, ReadRequest, Answer,
         cpldVars, registers
<1>4. cfg' = cfg
  BY <1>2, <1>3, PinsLeaveConfiguration
<1>5. cfg_frame = 0 /\ (Clear \/ Settled)
  BY <1>1 DEF IInv, Configuring
<1>6. Clear' \/ Settled'
  BY <1>4, <1>5 DEF Clear, Settled, Holds
<1>7. QED
  BY <1>1, <1>2, <1>4, <1>5, <1>6 DEF IInv

(* A frame, from its start to its end.                                     *)
LEMMA ConfigureHolds ==
  ASSUME IInv, NEW c \in Configs, Configure(c)
  PROVE  IInv'
<1>1. /\ ConfigValid(c) /\ cfg_frame' = 1 /\ reset_n' = reset_n /\ pc # "reset" /\ Pins
      /\ pc' = "transfer"
      /\ sending' = [kind |-> "config", word |-> ConfigWord(c), left |-> 16]
  BY DEF Configure, BeginTransfer
<1>2. reset_n' # 0
  BY <1>1 DEF IInv
<1>3. cfg' = cfg
  BY <1>1, <1>2, PinsLeaveConfiguration
<1>4. SentSoFar'
  BY <1>1 DEF SentSoFar
<1>5. QED
  BY <1>1, <1>2, <1>3, <1>4 DEF IInv, Configuring

LEMMA SpiClockHolds ==
  ASSUME IInv, SpiClock
  PROVE  IInv'
<1>1. /\ pc = "transfer" /\ pc' = pc /\ sending.left > 0
      /\ sending' = [sending EXCEPT !.left = @ - 1]
      /\ cfg_frame' = cfg_frame /\ reset_n' = reset_n
      /\ IF cfg_frame = 1 THEN cfg' = ShiftIn(cfg, sending.word[sending.left - 1])
                          ELSE cfg' = cfg
  BY DEF SpiClock, SckEdge, mcuPins
<1>2. CASE ~Configuring
  <2>1. cfg_frame = 0 /\ cfg' = cfg
    BY <1>1, <1>2 DEF IInv
  <2>2. ~Configuring'
    BY <1>1, <1>2 DEF Configuring
  <2>3. QED
    BY <1>1, <2>1, <2>2 DEF IInv, Clear, Settled, Holds
<1>3. CASE Configuring
  <2> DEFINE left == sending.left
  <2>1. PICK c \in Configs :
          /\ ConfigValid(c) /\ sending.word = ConfigWord(c)
          /\ \A i \in 0 .. 11 : i + left < 16 => cfg[i] = ConfigWord(c)[i + left]
    BY <1>3 DEF IInv, SentSoFar
  <2>2. left \in 1 .. 16 /\ cfg_frame = 1
    BY <1>1, <1>3 DEF IInv, SentSoFar
  <2>3. ConfigWord(c) \in [0 .. 15 -> Level]
    BY ConfigWordType
  <2>4. cfg' = [i \in 0 .. 11 |-> IF i = 0 THEN ConfigWord(c)[left - 1] ELSE cfg[i - 1]]
    BY <1>1, <2>1, <2>2 DEF IInv, ShiftIn
  <2>5. cfg' \in [0 .. 11 -> Level]
    BY <2>2, <2>3, <2>4 DEF IInv
  <2>6. \A i \in 0 .. 11 : i + (left - 1) < 16 => cfg'[i] = ConfigWord(c)[i + (left - 1)]
    <3> SUFFICES ASSUME NEW i \in 0 .. 11, i + (left - 1) < 16
                 PROVE  cfg'[i] = ConfigWord(c)[i + (left - 1)]
      OBVIOUS
    <3>1. CASE i = 0
      BY <2>2, <2>4, <3>1
    <3>2. CASE i # 0
      <4>1. i - 1 \in 0 .. 11 /\ (i - 1) + left < 16 /\ (i - 1) + left = i + (left - 1)
        BY <2>2, <3>2
      <4>2. cfg'[i] = cfg[i - 1]
        BY <2>4, <3>2
      <4>3. QED
        BY <2>1, <4>1, <4>2
    <3>3. QED
      BY <3>1, <3>2
  <2>7. Configuring' /\ sending'.word = sending.word /\ sending'.left = left - 1
    BY <1>1, <1>3 DEF Configuring
  <2>8. SentSoFar'
    BY <2>1, <2>2, <2>6, <2>7 DEF SentSoFar
  <2>9. QED
    BY <1>1, <2>2, <2>5, <2>7, <2>8 DEF IInv
<1>4. QED
  BY <1>2, <1>3

LEMMA EndTransferHolds ==
  ASSUME IInv, EndTransfer
  PROVE  IInv'
<1>1. /\ pc = "transfer" /\ sending.left = 0 /\ reset_n' = reset_n
      /\ cfg_frame' = cfg_frame /\ Pins
      /\ pc' = IF sending.kind = "config" THEN "frame" ELSE "idle"
  BY DEF EndTransfer
<1>2. cfg' = cfg /\ reset_n' # 0
  BY <1>1, PinsLeaveConfiguration DEF IInv
<1>3. CASE Configuring
  <2>1. PICK c \in Configs :
          /\ ConfigValid(c)
          /\ \A i \in 0 .. 11 : i + sending.left < 16
               => cfg[i] = ConfigWord(c)[i + sending.left]
    BY <1>3 DEF IInv, SentSoFar
  <2>2. \A i \in 0 .. 11 : cfg'[i] = ConfigWord(c)[i]
    BY <1>1, <1>2, <2>1
  <2>3. Settled' /\ pc' = "frame" /\ cfg_frame' = 1
    BY <1>1, <1>3, <2>1, <2>2 DEF Settled, Holds, Configuring, IInv
  <2>4. QED
    BY <1>1, <1>2, <2>3 DEF IInv, Configuring
<1>4. CASE ~Configuring
  <2>1. pc' = "idle" /\ cfg_frame' = 0
    BY <1>1, <1>4 DEF Configuring, IInv
  <2>2. Clear' \/ Settled'
    BY <1>1, <1>2, <2>1 DEF IInv, Clear, Settled, Holds
  <2>3. QED
    BY <1>1, <1>2, <2>1, <2>2 DEF IInv, Configuring
<1>5. QED
  BY <1>3, <1>4

LEMMA EndFrameHolds ==
  ASSUME IInv, EndFrame
  PROVE  IInv'
<1>1. /\ pc = "frame" /\ cfg_frame' = 0 /\ reset_n' = reset_n /\ Pins
      /\ pc' \in {"settle", "off"}
  BY DEF EndFrame
<1>2. cfg' = cfg /\ reset_n' # 0 /\ Settled
  BY <1>1, PinsLeaveConfiguration DEF IInv
<1>3. Settled'
  BY <1>2 DEF Settled, Holds
<1>4. QED
  BY <1>1, <1>2, <1>3 DEF IInv, Configuring

LEMMA NextHolds == IInv /\ [Next]_vars => IInv'
<1> SUFFICES ASSUME IInv, [Next]_vars PROVE IInv'
  OBVIOUS
<1>1. CASE HpNext \/ Mck
  BY <1>1, HpHolds
<1>2. CASE McuNext
  BY <1>2, OutsideHolds, ConfigureHolds, SpiClockHolds, EndTransferHolds, EndFrameHolds
     DEF McuNext
<1>3. CASE UNCHANGED vars
  BY <1>3, OthersHold DEF vars, cpldVars, mcuPins, mcuVars, registers
<1>4. QED
  BY <1>1, <1>2, <1>3 DEF Next

LEMMA Exclusive == IInv => DecodeExclusive
<1> SUFFICES ASSUME IInv, HpActive, Configured PROVE DecodeExclusive
  BY DEF DecodeExclusive, GeneralSelected, GpSelected, TapeSelected, PrinterSelected
<1>1. ~Clear
  BY DEF Clear, Configured
<1>2. PICK c \in Configs : ConfigValid(c) /\ Holds(c)
  BY <1>1 DEF IInv, HpActive, Settled
<1>3. /\ Nibble(cfg, 0) = c.gp_address /\ Nibble(cfg, 4) = c.tp_address
      /\ cfg[8] = 1 => c.printer_enabled
  BY <1>2, WhatIsHeld
<1>4. c.gp_address \in Nat /\ c.tp_address \in Nat
  BY HpBusAssumption
<1>5. QED
  BY <1>2, <1>3, <1>4 DEF ConfigValid, DecodeExclusive, GeneralSelected, GpSelected,
     TapeSelected, PrinterSelected, Decodes

(* mpsi_cpld.vhdl lines 79 to 86 with mpsi_config_valid: a select code is  *)
(* answered by one port at most, SC0 and SC10 by none, for every set of    *)
(* configurations and every order in which they are asked for.             *)
THEOREM OnePortAnswers == Spec => []DecodeExclusive
BY Exclusive, InitHolds, NextHolds, PTL DEF Spec

-----------------------------------------------------------------------------
(* Widths: what the steps of the CPLD and the two sides leave well typed.   *)

LEMMA ParallelDataType ==
  ASSUME TypeOK
  PROVE  ParallelData \in [0 .. 15 -> Level]
BY DEF TypeOK, ParallelData, Level

LEMMA ShiftInType ==
  ASSUME NEW n \in Nat, NEW register \in [0 .. n -> Level], NEW level \in Level
  PROVE  /\ ShiftIn(register, level) \in [0 .. n -> Level]
         /\ ShiftIn(register, level)[0] = level
         /\ \A i \in 1 .. n : ShiftIn(register, level)[i] = register[i - 1]
<1>1. DOMAIN register = 0 .. n
  OBVIOUS
<1>2. \A i \in 1 .. n : i - 1 \in 0 .. n
  OBVIOUS
<1>3. QED
  BY <1>1, <1>2 DEF ShiftIn

LEMMA ShiftInWord ==
  \A register \in [0 .. 15 -> Level], level \in Level :
    /\ ShiftIn(register, level) \in [0 .. 15 -> Level]
    /\ ShiftIn(register, level)[0] = level
    /\ \A i \in 1 .. 15 : ShiftIn(register, level)[i] = register[i - 1]
BY ShiftInType

LEMMA PinsType ==
  ASSUME TypeOK, Pins
  PROVE  /\ shift' \in [0 .. 15 -> Level] /\ cfg' \in [0 .. 11 -> Level]
         /\ ack' \in Level /\ cfi' \in Level /\ ssi' \in Level
         /\ enable_meta' \in Level /\ enable_sync' \in Level /\ enable_prev' \in Level
         /\ capture_state' \in {"IDLE", "FIRST_LOAD", "SECOND_LOAD", "CAPTURED"}
         /\ contents' \in [0 .. 15 -> Level]
<1>1. shift' \in [0 .. 15 -> Level] /\ cfg' \in [0 .. 11 -> Level]
  BY DEF TypeOK, Pins, Zeros, Level
<1>2. ack' \in Level /\ cfi' \in Level /\ ssi' \in Level
  BY DEF TypeOK, Pins, FlagLoad, Level
<1>3. enable_meta' \in Level /\ enable_sync' \in Level /\ enable_prev' \in Level
  BY DEF TypeOK, Pins, Level
<1>4. capture_state' \in {"IDLE", "FIRST_LOAD", "SECOND_LOAD", "CAPTURED"}
  BY DEF TypeOK, Pins
<1>5. contents' \in [0 .. 15 -> Level]
  BY ParallelDataType DEF TypeOK, Pins
<1>6. QED
  BY <1>1, <1>2, <1>3, <1>4, <1>5

LEMMA RequestWordType ==
  ASSUME NEW code \in Nat, NEW w \in [0 .. 11 -> Level]
  PROVE  RequestWord(code, w) \in [0 .. 15 -> Level]
BY DEF RequestWord, Level

LEMMA TypeHp ==
  ASSUME TypeOK, HpNext
  PROVE  TypeOK'
<1>0. /\ Words \subseteq [0 .. 11 -> Level] /\ Codes \subseteq 0 .. 15
      /\ 0 \in 0 .. Hold
  BY HpBusAssumption
<1>1. ASSUME NEW code \in Codes, HpSelect(code) PROVE TypeOK'
  BY <1>0, <1>1, PinsType DEF TypeOK, HpSelect, HpKeeps, mcuPins, mcuVars, hpVars
<1>2. CASE HpInhibit
  BY <1>0, <1>2, PinsType DEF TypeOK, HpInhibit, HpKeeps, mcuPins, mcuVars, hpVars, Level
<1>3. ASSUME NEW w \in Words, HpAsk(w) PROVE TypeOK'
  <2>1. RequestWord(co, w) \in [0 .. 15 -> Level]
    BY <1>0, RequestWordType DEF TypeOK
  <2>2. QED
    BY <1>0, <1>3, <2>1, PinsType DEF TypeOK, HpAsk, HpKeeps, mcuPins, mcuVars, hpVars, Level
<1>4. ASSUME NEW w \in Words, HpAskOther(w) PROVE TypeOK'
  BY <1>0, <1>4, PinsType DEF TypeOK, HpAskOther, HpKeeps, mcuPins, mcuVars, hpVars, Level
<1>5. CASE HpReleaseGeneral
  BY <1>0, <1>5, PinsType DEF TypeOK, HpReleaseGeneral, HpKeeps, mcuPins, mcuVars, hpVars, Level
<1>6. DataSeen \in [0 .. 7 -> Level]
  BY DEF DataSeen, Level
<1>7. CASE HpFinishGeneral
  BY <1>0, <1>6, <1>7
     DEF TypeOK, HpFinishGeneral, cpldVars, mcuPins, hpPins, registers, flags, enables
<1>8. CASE HpFinishFast
  BY <1>0, <1>6, <1>8, PinsType DEF TypeOK, HpFinishFast, mcuPins, Level
<1>9. QED
  BY <1>1, <1>2, <1>3, <1>4, <1>5, <1>7, <1>8 DEF HpNext

LEMMA TypeMck ==
  ASSUME TypeOK, Mck
  PROVE  TypeOK'
<1>1. contents' \in [0 .. 15 -> Level]
  BY ParallelDataType DEF TypeOK, Mck, MckEdge
<1>2. capture_state' \in {"IDLE", "FIRST_LOAD", "SECOND_LOAD", "CAPTURED"}
  BY DEF TypeOK, Mck, MckEdge, NextCapture
<1>3. still' \in 0 .. Hold
  BY HpBusAssumption DEF TypeOK, Mck, Steady
<1>4. QED
  BY <1>1, <1>2, <1>3
     DEF TypeOK, Mck, MckEdge, mcuPins, hpPins, registers, flags, mcuVars, Level

LEMMA Zeros16 == Zeros(16) \in [0 .. 15 -> Level]
BY DEF Zeros, Level

LEMMA ResponseType ==
  ASSUME NEW byte \in [0 .. 7 -> Level], NEW cfiBit \in Level, NEW ssiBit \in Level
  PROVE  /\ Response(byte, cfiBit, ssiBit) \in [0 .. 15 -> Level]
         /\ \A i \in 0 .. 7 : Response(byte, cfiBit, ssiBit)[i] = byte[i]
BY DEF Response, Level

LEMMA TypeBegin ==
  ASSUME TypeOK, Pins, McuKeeps, NEW kind \in {"config", "ready", "read", "reply"},
         NEW bits \in [0 .. 15 -> Level], BeginTransfer(kind, bits),
         reset_n' = reset_n, hp_run' = hp_run, cfg_frame' \in Level, still' = still,
         saved' \in BOOLEAN, queue' \in Seq([0 .. 15 -> Level]), Len(queue') <= 1,
         served' \in [0 .. 15 -> Level] \cup {None}
  PROVE  TypeOK'
<1>1. sending' \in [kind : {"none", "config", "ready", "read", "reply"},
                    word : [0 .. 15 -> Level], left : 0 .. 16]
  BY DEF BeginTransfer
<1>2. received' \in [0 .. 15 -> Level]
  BY Zeros16 DEF BeginTransfer
<1>3. QED
  BY <1>1, <1>2, PinsType DEF TypeOK, BeginTransfer, McuKeeps, hpPins, Level

LEMMA TypePinsOnly ==
  ASSUME TypeOK, Pins, McuKeeps, reset_n' \in Level, hp_run' \in Level, spi_cs_n' \in Level,
         cfg_frame' \in Level, still' = still, sending' = sending, received' = received,
         pc' \in {"reset", "off", "settle", "idle", "read", "transfer", "frame"},
         saved' = saved, queue' = queue, served' = served
  PROVE  TypeOK'
BY PinsType DEF TypeOK, McuKeeps, hpPins

LEMMA MisoType == TypeOK => Miso \in Level
BY ParallelDataType DEF TypeOK, Miso

LEMMA TypeMcu ==
  ASSUME TypeOK, queue # <<>> => pc = "idle", McuNext
  PROVE  TypeOK'
<1>1. CASE ReleaseReset
  BY <1>1, TypePinsOnly DEF TypeOK, ReleaseReset, Level
<1>2. ASSUME NEW c \in Configs, Configure(c) PROVE TypeOK'
  BY <1>2, ConfigWordType, TypeBegin DEF TypeOK, Configure, Level
<1>3. CASE RaiseRun
  BY <1>3, TypePinsOnly DEF TypeOK, RaiseRun, Level
<1>4. CASE LowerRun
  BY <1>4, TypePinsOnly DEF TypeOK, LowerRun, Level
<1>5. CASE SendReady
  <2>1. Response(Zeros(8), 0, 0) \in [0 .. 15 -> Level]
    BY DEF Response, Zeros, Level
  <2>2. saved' \in BOOLEAN
    BY <1>5 DEF SendReady, Requested, TypeOK
  <2>3. QED
    BY <1>5, <2>1, <2>2, TypeBegin DEF TypeOK, SendReady
<1>6. CASE SampleRequest
  BY <1>6 DEF TypeOK, SampleRequest, cpldVars, hpVars, mcuPins, hpPins, registers, flags,
              enables
<1>7. CASE ReadRequest
  BY <1>7, Zeros16, TypeBegin DEF TypeOK, ReadRequest
<1>8. ASSUME NEW ssiBit \in Level, Answer(ssiBit) PROVE TypeOK'
  <2> DEFINE request == Head(queue)
             bits == Response(Serve(request), IF IsTape(request) THEN 1 ELSE 0, ssiBit)
  <2>1. queue \in Seq([0 .. 15 -> Level]) /\ queue # <<>> /\ Len(queue) <= 1
    BY <1>8 DEF TypeOK, Answer
  <2>2. request \in [0 .. 15 -> Level]
    BY <2>1
  <2>3. queue' \in Seq([0 .. 15 -> Level]) /\ Len(queue') <= 1
    BY <1>8, <2>1 DEF Answer
  <2>4. bits \in [0 .. 15 -> Level]
    BY <2>2, HpBusAssumption, ResponseType DEF Level
  <2>5. /\ served' = request /\ BeginTransfer("reply", bits)
        /\ Pins /\ McuKeeps /\ still' = still /\ reset_n' = reset_n /\ hp_run' = hp_run
        /\ cfg_frame' = cfg_frame /\ saved' = Requested
    BY <1>8 DEF Answer
  <2>6. saved' \in BOOLEAN /\ cfg_frame' \in Level
    BY <2>5 DEF Requested, TypeOK
  <2> HIDE DEF request, bits
  <2>7. QED
    BY <2>2, <2>3, <2>4, <2>5, <2>6, TypeBegin
<1>9. CASE SpiClock
  <2>1. sending.left \in 1 .. 16 /\ sending.word \in [0 .. 15 -> Level]
    BY <1>9 DEF TypeOK, SpiClock
  <2>2. sending.word[sending.left - 1] \in Level /\ 0 \in Level /\ Miso \in Level
    BY <2>1, MisoType DEF Level
  <2>3. sending' \in [kind : {"none", "config", "ready", "read", "reply"},
                      word : [0 .. 15 -> Level], left : 0 .. 16]
    <3>1. sending' = [sending EXCEPT !.left = @ - 1] /\ sending.left - 1 \in 0 .. 16
      BY <1>9, <2>1 DEF SpiClock
    <3>2. sending \in [kind : {"none", "config", "ready", "read", "reply"},
                       word : [0 .. 15 -> Level], left : 0 .. 16]
      BY DEF TypeOK
    <3>3. QED
      BY <3>1, <3>2
  <2>4. /\ shift' \in [0 .. 15 -> Level] /\ cfg' \in [0 .. 11 -> Level]
        /\ contents' \in [0 .. 15 -> Level] /\ received' \in [0 .. 15 -> Level]
    <3>1. \A register \in [0 .. 15 -> Level], level \in Level :
            ShiftIn(register, level) \in [0 .. 15 -> Level]
      BY ShiftInWord
    <3>2. \A register \in [0 .. 11 -> Level], level \in Level :
            ShiftIn(register, level) \in [0 .. 11 -> Level]
      BY ShiftInType
    <3>3. /\ shift \in [0 .. 15 -> Level] /\ cfg \in [0 .. 11 -> Level]
          /\ contents \in [0 .. 15 -> Level] /\ received \in [0 .. 15 -> Level]
      BY DEF TypeOK
    <3>4. QED
      BY <1>9, <2>2, <3>1, <3>2, <3>3 DEF SpiClock, SckEdge
  <2>5. QED
    BY <1>9, <2>3, <2>4 DEF TypeOK, SpiClock, SckEdge, mcuPins, hpPins, flags, enables, hpVars
<1>10. CASE EndTransfer
  <2>1. queue' \in Seq([0 .. 15 -> Level]) /\ Len(queue') <= 1
    BY <1>10 DEF TypeOK, EndTransfer
  <2>2. sending' \in [kind : {"none", "config", "ready", "read", "reply"},
                      word : [0 .. 15 -> Level], left : 0 .. 16]
    BY <1>10, Zeros16 DEF EndTransfer
  <2>3. QED
    BY <1>10, <2>1, <2>2, Zeros16, PinsType DEF TypeOK, EndTransfer, McuKeeps, hpPins, Level
<1>11. CASE EndFrame
  BY <1>11, TypePinsOnly DEF TypeOK, EndFrame, Level
<1>12. QED
  BY <1>1, <1>2, <1>3, <1>4, <1>5, <1>6, <1>7, <1>8, <1>9, <1>10, <1>11 DEF McuNext

-----------------------------------------------------------------------------
(* Who is where, and that a reset shows in what it resets.                 *)

Selected == GeneralSelected \/ TapeSelected

(* CS is low in a transfer only; the HP waits with service on, and while   *)
(* it holds CEO it waits or speaks to another device; a word read or       *)
(* queued belongs to one place in the microcontroller's order.             *)
Control ==
  /\ spi_cs_n = 0 <=> pc = "transfer"
  /\ reset_n = 0 <=> pc = "reset"
  /\ hp_run = 1 => pc \notin {"reset", "off"}
  /\ hp_run = 0 => pc \in {"reset", "off", "frame"} \/ Configuring
  /\ asked # None => HpActive
  /\ nceo = 0 => word \in Words /\ (asked # None \/ co \in {0, 10})
  /\ saved => pc = "read" \/ (pc = "transfer" /\ sending.kind # "config")
  /\ pc = "read" => saved
  /\ queue # <<>> => pc = "idle"

(* What is held in reset is at its reset value.                            *)
ResetsHold ==
  /\ reset_n = 0 => shift = Zeros(16) /\ cfg = Zeros(12)
  /\ AckReset => ack = 0
  /\ CfiReset => cfi = 0
  /\ SsiReset => ssi = 0
  /\ FlagsReset => enable_meta = 0 /\ enable_sync = 0 /\ enable_prev = 0
  /\ CaptureReset => capture_state = "IDLE"

LEMMA PinsReset == Pins => ResetsHold'
BY DEF Pins, ResetsHold

LEMMA ResetsInit == Init => ResetsHold
BY DEF Init, CpldInit, ResetsHold

LEMMA ResetsStay ==
  ASSUME ResetsHold, TypeOK, [Next]_vars
  PROVE  ResetsHold'
<1>1. CASE Pins
  BY <1>1, PinsReset
<1>2. CASE UNCHANGED cpldVars
  BY <1>2 DEF ResetsHold, cpldVars, mcuPins, hpPins, registers, flags, enables, AckReset,
     CfiReset, SsiReset, FlagsReset, CaptureReset, HpActive, GeneralSelected, GpSelected,
     PrinterSelected, TapeSelected, DeviceEnabled, Configured, Decodes, Nibble
<1>3. CASE Mck
  <2>1. /\ FlagsReset' <=> FlagsReset
        /\ AckReset' <=> AckReset
        /\ CfiReset' <=> CfiReset
        /\ SsiReset' <=> SsiReset
        /\ CaptureReset' <=> CaptureReset
    BY <1>3 DEF Mck, MckEdge, mcuPins, hpPins, registers, flags, AckReset,
       CfiReset, SsiReset, FlagsReset, CaptureReset, HpActive, GeneralSelected, GpSelected,
       PrinterSelected, TapeSelected, DeviceEnabled, Configured, Decodes, Nibble
  <2>2. QED
    BY <1>3, <2>1 DEF ResetsHold, Mck, MckEdge, mcuPins, registers, flags
<1>4. CASE SpiClock
  <2>1. UNCHANGED <<mcuPins, hpPins, flags, enables, capture_state>> /\ reset_n = 1
    BY <1>4 DEF SpiClock, SckEdge
  <2>2. /\ FlagsReset' <=> FlagsReset
        /\ CaptureReset' <=> CaptureReset
    BY <2>1 DEF mcuPins, FlagsReset, CaptureReset, HpActive
  <2>3. CASE FlagsReset
    BY <2>1, <2>2, <2>3 DEF ResetsHold, mcuPins, flags, enables, AckReset, CfiReset, SsiReset
  <2>4. CASE ~FlagsReset
    <3>1. cfg' = cfg
      BY <1>4, <2>4 DEF SpiClock, SckEdge, FlagsReset, HpActive
    <3>2. /\ AckReset' <=> AckReset
          /\ CfiReset' <=> CfiReset
          /\ SsiReset' <=> SsiReset
      BY <2>1, <2>2, <3>1 DEF mcuPins, hpPins, AckReset, CfiReset, SsiReset, HpActive,
         GeneralSelected, GpSelected, PrinterSelected, TapeSelected, DeviceEnabled,
         Configured, Decodes, Nibble
    <3>3. QED
      BY <2>1, <2>2, <3>2 DEF ResetsHold, mcuPins, flags, enables
  <2>5. QED
    BY <2>3, <2>4
<1>5. Pins \/ UNCHANGED cpldVars \/ Mck \/ SpiClock
  BY DEF Next, vars, HpNext, McuNext, HpSelect, HpInhibit, HpAsk, HpAskOther,
     HpReleaseGeneral, HpFinishGeneral, HpFinishFast, ReleaseReset, Configure, RaiseRun,
     LowerRun, SendReady, SampleRequest, ReadRequest, Answer, EndTransfer, EndFrame
<1>6. QED
  BY <1>1, <1>2, <1>3, <1>4, <1>5

LEMMA ControlInit == Init => Control
BY DEF Init, CpldInit, Control

LEMMA SelectedIsActive == Selected => HpActive
BY DEF Selected, GeneralSelected, GpSelected, PrinterSelected, TapeSelected

LEMMA ControlHp ==
  ASSUME TypeOK, Control, HpNext
  PROVE  Control'
<1>0. UNCHANGED <<mcuPins, pc, sending, saved, queue>>
  BY DEF HpNext, HpSelect, HpInhibit, HpAsk, HpAskOther, HpReleaseGeneral, HpFinishGeneral,
     HpFinishFast, HpKeeps, mcuVars, cpldVars
<1>1. (HpActive' <=> HpActive) /\ (Configuring' <=> Configuring)
  BY <1>0 DEF HpActive, mcuPins, Configuring
<1> DEFINE Kept == /\ asked' # None => HpActive
                   /\ nceo' = 0 => word' \in Words /\ (asked' # None \/ co' \in {0, 10})
<1>2. Kept
  <2>1. ASSUME NEW code \in Codes, HpSelect(code) PROVE Kept
    BY <2>1 DEF HpSelect, Control, hpVars
  <2>2. CASE HpInhibit
    BY <2>2 DEF HpInhibit, Control, hpVars
  <2>3. ASSUME NEW w \in Words, HpAsk(w) PROVE Kept
    <3>1. RequestWord(co, w) # None
      BY HpBusAssumption, RequestWordType DEF TypeOK
    <3>2. QED
      BY <2>3, <3>1, SelectedIsActive DEF HpAsk, Selected
  <2>4. ASSUME NEW w \in Words, HpAskOther(w) PROVE Kept
    BY <2>4 DEF HpAskOther, Control
  <2>5. CASE HpReleaseGeneral
    BY <2>5 DEF HpReleaseGeneral, Control
  <2>6. CASE HpFinishGeneral
    BY <2>6 DEF HpFinishGeneral, Control, cpldVars, hpPins
  <2>7. CASE HpFinishFast
    BY <2>7 DEF HpFinishFast, Control
  <2>8. QED
    BY <2>1, <2>2, <2>3, <2>4, <2>5, <2>6, <2>7 DEF HpNext
<1>3. QED
  BY <1>0, <1>1, <1>2 DEF Control, mcuPins

LEMMA ControlMck ==
  ASSUME Control, Mck \/ UNCHANGED vars
  PROVE  Control'
BY DEF Control, Mck, MckEdge, mcuPins, hpPins, mcuVars, hpVars, vars, cpldVars, HpActive,
   Configuring

LEMMA ControlMcu ==
  ASSUME TypeOK, Control, IInv, McuNext
  PROVE  Control'
<1>0. UNCHANGED <<hpPins, asked>>
  BY DEF McuNext, ReleaseReset, Configure, RaiseRun, LowerRun, SendReady, SampleRequest,
     ReadRequest, Answer, SpiClock, SckEdge, EndTransfer, EndFrame, McuKeeps, cpldVars, hpVars
<1>1. nceo' = 0 => word' \in Words /\ (asked' # None \/ co' \in {0, 10})
  BY <1>0 DEF Control, hpPins
<1>2. CASE ReleaseReset
  BY <1>0, <1>1, <1>2 DEF Control, ReleaseReset, HpActive, Configuring
<1>3. ASSUME NEW c \in Configs, Configure(c) PROVE Control'
  <2>1. asked = None
    BY <1>3 DEF Configure, Quiescent, Control, HpActive
  <2>2. QED
    BY <1>0, <1>1, <1>3, <2>1 DEF Control, Configure, BeginTransfer, Configuring, Quiescent,
       TypeOK
<1>4. CASE RaiseRun
  BY <1>0, <1>1, <1>4 DEF Control, RaiseRun, HpActive, Configuring
<1>5. CASE LowerRun
  BY <1>0, <1>1, <1>5 DEF Control, LowerRun, Quiescent, Configuring
<1>6. CASE SendReady
  BY <1>0, <1>1, <1>6 DEF Control, SendReady, BeginTransfer, Configuring, HpActive
<1>7. CASE SampleRequest
  BY <1>0, <1>1, <1>7 DEF Control, SampleRequest, Configuring, HpActive, cpldVars, mcuPins
<1>8. CASE ReadRequest
  BY <1>0, <1>1, <1>8 DEF Control, ReadRequest, BeginTransfer, Configuring, HpActive
<1>9. ASSUME NEW ssiBit \in Level, Answer(ssiBit) PROVE Control'
  <2>1. queue' = <<>>
    <3>1. /\ queue' = Tail(queue) /\ Len(queue) <= 1 /\ queue # <<>>
          /\ queue \in Seq([0 .. 15 -> Level])
      BY <1>9 DEF Answer, TypeOK
    <3>2. QED
      BY <3>1
  <2>2. QED
    BY <1>0, <1>1, <1>9, <2>1 DEF Control, Answer, BeginTransfer, Configuring, HpActive
<1>10. CASE SpiClock
  <2>1. sending'.kind = sending.kind
    BY <1>10 DEF SpiClock, TypeOK
  <2>2. QED
    BY <1>0, <1>1, <1>10, <2>1 DEF Control, SpiClock, SckEdge, mcuPins, Configuring, HpActive
<1>11. CASE EndTransfer
  BY <1>0, <1>1, <1>11 DEF Control, EndTransfer, Configuring, HpActive
<1>12. CASE EndFrame
  BY <1>0, <1>1, <1>12 DEF Control, EndFrame, Configuring, HpActive, TypeOK, Level
<1>13. QED
  BY <1>2, <1>3, <1>4, <1>5, <1>6, <1>7, <1>8, <1>9, <1>10, <1>11, <1>12 DEF McuNext

-----------------------------------------------------------------------------
(* The clock.  The synchroniser counts the edges since CEO came to a       *)
(* selected port, so a load takes the third and fourth of them, while the  *)
(* HP still holds CEO and the word.                                        *)

Timing ==
  /\ DeviceEnabled =>
       /\ enable_meta = IF still >= 1 THEN 1 ELSE 0
       /\ enable_sync = IF still >= 2 THEN 1 ELSE 0
       /\ enable_prev = IF still >= 3 THEN 1 ELSE 0
  /\ ~DeviceEnabled =>
       /\ enable_sync = 1 => enable_prev = 1
       /\ enable_meta = 1 => enable_sync = 1
       /\ still >= 1 => enable_meta = 0
       /\ still >= 2 => enable_sync = 0
       /\ still >= 3 => enable_prev = 0
  /\ capture_state = "FIRST_LOAD" => DeviceEnabled /\ still = 3
  /\ capture_state = "SECOND_LOAD" => DeviceEnabled /\ still = 4

(* What the HP's pins change: the flags that are reset, nothing else.      *)
LEMMA HpPins ==
  ASSUME TypeOK, ResetsHold, Pins, UNCHANGED mcuPins
  PROVE  /\ UNCHANGED <<shift, cfg, enables, capture_state, contents>>
         /\ ack' = IF AckReset' THEN 0 ELSE ack
         /\ cfi' = IF CfiReset' THEN 0 ELSE cfi
<1>1. (FlagsReset' <=> FlagsReset) /\ (CaptureReset' <=> CaptureReset)
  BY DEF mcuPins, FlagsReset, CaptureReset, HpActive
<1>2. UNCHANGED <<shift, cfg>>
  BY DEF Pins, ResetsHold, mcuPins
<1>3. UNCHANGED enables /\ capture_state' = capture_state
  BY <1>1 DEF Pins, ResetsHold, enables
<1>4. contents' = contents
  BY <1>3 DEF Pins, PlLow
<1>5. /\ ack' = IF AckReset' THEN 0 ELSE ack
      /\ cfi' = IF CfiReset' THEN 0 ELSE cfi
  BY DEF Pins, FlagLoad, mcuPins
<1>6. QED
  BY <1>2, <1>3, <1>4, <1>5

LEMMA SelectionStays ==
  ASSUME UNCHANGED <<hp_run, cfg_frame, cfg, co>>
  PROVE  (GeneralSelected' <=> GeneralSelected) /\ (TapeSelected' <=> TapeSelected)
BY DEF GeneralSelected, GpSelected, PrinterSelected, TapeSelected, HpActive, Configured,
   Decodes, Nibble

LEMMA EnabledIsActive ==
  ASSUME Control, DeviceEnabled
  PROVE  HpActive /\ ~FlagsReset /\ nceo = 0 /\ Selected
BY SelectedIsActive DEF DeviceEnabled, Selected, Control, FlagsReset, HpActive

(* With CEO steady the synchroniser shows it, and no load is under way.    *)
LEMMA SteadyFacts ==
  ASSUME TypeOK, Timing, Steady
  PROVE  /\ still >= 5 /\ ~PlLow
         /\ ~DeviceEnabled => enable_meta = 0 /\ enable_sync = 0 /\ enable_prev = 0
         /\ DeviceEnabled => enable_meta = 1 /\ enable_sync = 1 /\ enable_prev = 1
BY HpBusAssumption DEF TypeOK, Timing, Steady, PlLow

LEMMA TimingInit == Init => Timing
BY DEF Init, CpldInit, Timing, DeviceEnabled, GeneralSelected, GpSelected, PrinterSelected,
   TapeSelected, HpActive

LEMMA TimingHp ==
  ASSUME TypeOK, Control, ResetsHold, Timing, HpNext
  PROVE  Timing'
<1>1. CASE nceo = 1 /\ nceo' = 1 /\ still' = still
           /\ UNCHANGED <<enables, capture_state>>
  BY <1>1 DEF Timing, DeviceEnabled, enables
<1>2. ASSUME NEW code \in Codes, HpSelect(code) PROVE Timing'
  <2>1. Pins /\ UNCHANGED mcuPins /\ nceo = 1 /\ nceo' = nceo /\ still' = still
    BY <1>2 DEF HpSelect, HpKeeps, hpVars
  <2>2. QED
    BY <1>1, <2>1, HpPins
<1>3. CASE HpInhibit
  <2>1. Pins /\ UNCHANGED mcuPins /\ nceo = 1 /\ nceo' = nceo /\ still' = still
    BY <1>3 DEF HpInhibit, HpKeeps, hpVars
  <2>2. QED
    BY <1>1, <2>1, HpPins
<1>4. ASSUME NEW w \in Words, HpAsk(w) PROVE Timing'
  <2>1. /\ Pins /\ UNCHANGED mcuPins /\ nceo = 1 /\ nceo' = 0 /\ still' = 0 /\ co' = co
        /\ Steady /\ (GeneralSelected \/ TapeSelected)
    BY <1>4 DEF HpAsk, HpKeeps
  <2>2. UNCHANGED <<cfg, enables, capture_state>>
    BY <2>1, HpPins
  <2>3. ~DeviceEnabled /\ DeviceEnabled'
    BY <2>1, <2>2, SelectionStays DEF DeviceEnabled, mcuPins
  <2>4. QED
    BY <2>1, <2>2, <2>3, SteadyFacts DEF Timing, enables, PlLow
<1>5. ASSUME NEW w \in Words, HpAskOther(w) PROVE Timing'
  <2>1. /\ Pins /\ UNCHANGED mcuPins /\ nceo = 1 /\ nceo' = 0 /\ still' = 0 /\ co' = co
        /\ Steady /\ ~GeneralSelected /\ ~TapeSelected
    BY <1>5 DEF HpAskOther, HpKeeps
  <2>2. UNCHANGED <<cfg, enables, capture_state>>
    BY <2>1, HpPins
  <2>3. ~DeviceEnabled /\ ~DeviceEnabled'
    BY <2>1, <2>2, SelectionStays DEF DeviceEnabled, mcuPins
  <2>4. QED
    BY <2>1, <2>2, <2>3, SteadyFacts DEF Timing, enables, PlLow
<1>6. CASE HpReleaseGeneral \/ HpFinishFast
  <2>1. Pins /\ UNCHANGED mcuPins /\ nceo' = 1 /\ still' = 0 /\ Steady
    BY <1>6 DEF HpReleaseGeneral, HpFinishFast, HpKeeps
  <2>2. UNCHANGED <<enables, capture_state>> /\ ~DeviceEnabled'
    BY <2>1, HpPins DEF DeviceEnabled
  <2>3. QED
    BY <2>1, <2>2, SteadyFacts DEF Timing, enables, PlLow
<1>7. CASE HpFinishGeneral
  BY <1>1, <1>7 DEF HpFinishGeneral, cpldVars, hpPins
<1>8. QED
  BY <1>2, <1>3, <1>4, <1>5, <1>6, <1>7 DEF HpNext

LEMMA TimingMck ==
  ASSUME TypeOK, Control, ResetsHold, Timing, Mck
  PROVE  Timing'
<1>1. /\ UNCHANGED <<mcuPins, hpPins, registers>>
      /\ still' = IF still = Hold THEN still ELSE still + 1
      /\ enable_meta' = IF ~FlagsReset /\ DeviceEnabled THEN 1 ELSE 0
      /\ enable_sync' = IF FlagsReset THEN 0 ELSE enable_meta
      /\ enable_prev' = IF FlagsReset THEN 0 ELSE enable_sync
      /\ capture_state' = IF CaptureReset THEN "IDLE" ELSE NextCapture
  BY DEF Mck, MckEdge, Steady
<1>2. DeviceEnabled' <=> DeviceEnabled
  BY <1>1, SelectionStays DEF DeviceEnabled, mcuPins, hpPins, registers
<1>3. still \in 0 .. Hold /\ Hold \in Nat /\ Hold >= 5
  BY HpBusAssumption DEF TypeOK
<1>a. /\ still' >= 1
      /\ (still' >= 2 <=> still >= 1) /\ (still' >= 3 <=> still >= 2)
      /\ still = 2 => still' = 3
      /\ still = 3 => still' = 4
  BY <1>1, <1>3
<1>4. CASE DeviceEnabled
  <2>1. ~FlagsReset
    BY <1>4, EnabledIsActive
  <2>2. /\ enable_meta' = 1
        /\ enable_sync' = IF still >= 1 THEN 1 ELSE 0
        /\ enable_prev' = IF still >= 2 THEN 1 ELSE 0
    BY <1>1, <1>4, <2>1 DEF Timing
  <2>3. capture_state' = "FIRST_LOAD" => still = 2
    BY <1>1, <1>3, <1>4 DEF Timing, NextCapture
  <2>4. capture_state' = "SECOND_LOAD" => still = 3
    BY <1>1, <1>3, <1>4 DEF Timing, NextCapture
  <2>5. QED
    BY <1>a, <1>2, <1>4, <2>2, <2>3, <2>4 DEF Timing
<1>5. CASE ~DeviceEnabled
  <2>1. capture_state' \notin {"FIRST_LOAD", "SECOND_LOAD"}
    BY <1>1, <1>5 DEF Timing, NextCapture, TypeOK
  <2>2. /\ enable_meta' = 0
        /\ enable_sync' = 1 => enable_meta = 1 /\ ~FlagsReset
        /\ enable_prev' = 1 => enable_sync = 1
        /\ enable_sync = 1 /\ ~FlagsReset => enable_prev' = 1
    BY <1>1, <1>5
  <2>3. /\ enable_prev' \in Level /\ still >= 1 => enable_meta = 0
        /\ still >= 2 => enable_sync = 0
    BY <1>1, <1>5 DEF Timing, TypeOK, Level
  <2>4. /\ enable_sync' = 1 => enable_prev' = 1
        /\ still' >= 2 => enable_sync' # 1
        /\ still' >= 3 => enable_prev' # 1
    BY <1>a, <1>5, <2>2, <2>3 DEF Timing
  <2>5. enable_sync' \in {0, 1} /\ enable_prev' \in {0, 1}
    BY <1>1 DEF TypeOK, Level
  <2>6. QED
    BY <1>2, <1>5, <2>1, <2>2, <2>4, <2>5 DEF Timing
<1>6. QED
  BY <1>4, <1>5

(* The microcontroller never changes what is selected while CEO is low.    *)
LEMMA McuLeavesEnabled ==
  ASSUME TypeOK, Control, IInv, Control', IInv', McuNext
  PROVE  (DeviceEnabled' <=> DeviceEnabled) /\ still' = still
<1>1. UNCHANGED <<hpPins, asked, still>>
  BY DEF McuNext, ReleaseReset, Configure, RaiseRun, LowerRun, SendReady, SampleRequest,
     ReadRequest, Answer, SpiClock, SckEdge, EndTransfer, EndFrame, McuKeeps, cpldVars, hpVars
<1>2. CASE nceo = 1
  BY <1>1, <1>2 DEF DeviceEnabled, hpPins
<1>3. CASE nceo = 0 /\ asked = None
  <2>1. co \in {0, 10} /\ co' = co
    BY <1>1, <1>3 DEF Control, hpPins
  <2>2. DecodeExclusive /\ DecodeExclusive'
    <3>1. IInv' => DecodeExclusive'
      BY Exclusive, PTL
    <3>2. QED
      BY <3>1, Exclusive
  <2>3. ~DeviceEnabled /\ ~DeviceEnabled'
    BY <2>1, <2>2 DEF DecodeExclusive, DeviceEnabled
  <2>4. QED
    BY <1>1, <2>3
<1>4. CASE nceo = 0 /\ asked # None
  <2>1. HpActive /\ HpActive'
    BY <1>1, <1>4 DEF Control
  <2>2. reset_n' # 0
    BY <2>1 DEF HpActive, Control
  <2>3. cfg' = cfg
    <3>1. CASE SpiClock
      BY <2>1, <3>1 DEF SpiClock, SckEdge, HpActive
    <3>2. CASE ~SpiClock
      <4>1. Pins \/ cfg' = cfg
        BY <3>2 DEF McuNext, ReleaseReset, Configure, RaiseRun, LowerRun, SendReady,
           SampleRequest, ReadRequest, Answer, EndTransfer, EndFrame, cpldVars, registers
      <4>2. QED
        BY <2>2, <4>1, PinsLeaveConfiguration
    <3>3. QED
      BY <3>1, <3>2
  <2>4. UNCHANGED <<hp_run, cfg_frame, cfg, co, nceo>>
    BY <1>1, <2>1, <2>3 DEF HpActive, hpPins
  <2>5. QED
    BY <1>1, <2>4, SelectionStays DEF DeviceEnabled
<1>5. QED
  BY <1>2, <1>3, <1>4 DEF TypeOK, Level

LEMMA TimingMcu ==
  ASSUME TypeOK, Control, ResetsHold, IInv, Timing, Control', IInv', McuNext
  PROVE  Timing'
<1>1. (DeviceEnabled' <=> DeviceEnabled) /\ still' = still
  BY McuLeavesEnabled
<1>2. CASE UNCHANGED <<enables, capture_state>>
  BY <1>1, <1>2 DEF Timing, enables
<1>3. CASE Pins
  <2>1. capture_state' \in {"IDLE", capture_state}
    BY <1>3 DEF Pins
  <2>2. CASE FlagsReset'
    <3>1. enable_meta' = 0 /\ enable_sync' = 0 /\ enable_prev' = 0
      BY <1>3, <2>2 DEF Pins
    <3>2. ~HpActive'
      BY <2>2 DEF FlagsReset, HpActive, Control
    <3>3. ~DeviceEnabled'
      BY <3>2 DEF DeviceEnabled, GeneralSelected, GpSelected, PrinterSelected, TapeSelected
    <3>4. QED
      BY <1>1, <2>1, <3>1, <3>3 DEF Timing
  <2>3. CASE ~FlagsReset'
    <3>1. UNCHANGED enables
      BY <1>3, <2>3 DEF Pins, enables
    <3>2. QED
      BY <1>1, <2>1, <3>1 DEF Timing, enables
  <2>4. QED
    BY <2>2, <2>3
<1>4. Pins \/ UNCHANGED <<enables, capture_state>>
  BY DEF McuNext, ReleaseReset, Configure, RaiseRun, LowerRun, SendReady, SampleRequest,
     ReadRequest, Answer, SpiClock, SckEdge, EndTransfer, EndFrame, cpldVars
<1>5. QED
  BY <1>2, <1>3, <1>4

-----------------------------------------------------------------------------
(* The words.                                                              *)

(* A word at a select code that a configuration answers.                   *)
Whole(v) ==
  \E c \in Configs, w \in Words :
    /\ ConfigValid(c)
    /\ v \in {RequestWord(c.gp_address, w), RequestWord(c.tp_address, w), RequestWord(15, w)}

(* v on its way from the input registers to the microcontroller.           *)
Passing(v, left, r, k) ==
  \A i \in 0 .. 15 :
    IF i + left < 16 THEN r[i] = v[i + left]
                     ELSE k[i] = v[i + left - 16]

(* What is captured is whole, and stays so until it is queued.             *)
Captured ==
  /\ capture_state = "CAPTURED" => Whole(contents)
  /\ pc = "read" => capture_state # "IDLE"
  /\ pc = "transfer" /\ saved =>
       \E v \in [0 .. 15 -> Level] : Whole(v) /\ Passing(v, sending.left, received, contents)
  /\ \A i \in 1 .. Len(queue) : Whole(queue[i])

(* What a selected port loads while CEO is low.                            *)
LEMMA EnabledWhole ==
  ASSUME TypeOK, IInv, Control, DeviceEnabled
  PROVE  Whole(ParallelData) /\ ParallelData = RequestWord(co, word)
<1>1. HpActive /\ Selected /\ nceo = 0
  BY EnabledIsActive
<1>2. Configured /\ ~Clear
  BY <1>1 DEF Selected, GeneralSelected, GpSelected, PrinterSelected, TapeSelected,
     Configured, Clear
<1>3. PICK c \in Configs : ConfigValid(c) /\ Holds(c)
  BY <1>1, <1>2 DEF IInv, HpActive, Settled
<1>4. Nibble(cfg, 0) = c.gp_address /\ Nibble(cfg, 4) = c.tp_address
  BY <1>3, WhatIsHeld
<1>5. co \in {c.gp_address, c.tp_address, 15}
  BY <1>1, <1>4 DEF Selected, GeneralSelected, GpSelected, PrinterSelected, TapeSelected,
     Decodes
<1>6. word \in Words
  BY <1>1 DEF Control
<1>7. ParallelData = RequestWord(co, word)
  BY DEF ParallelData, RequestWord
<1>8. QED
  BY <1>3, <1>5, <1>6, <1>7 DEF Whole

(* While CS is low nothing is captured.                                    *)
LEMMA TransferIdle ==
  ASSUME ResetsHold, Control, pc = "transfer"
  PROVE  capture_state = "IDLE" /\ ~PlLow
BY DEF ResetsHold, Control, CaptureReset, PlLow

(* A clock of the SPI moves one bit over.                                  *)
LEMMA PassOne ==
  ASSUME TypeOK, SpiClock, ~PlLow, NEW v, Passing(v, sending.left, received, contents)
  PROVE  Passing(v, sending'.left, received', contents')
<1> DEFINE left == sending.left
<1>1. left \in 1 .. 16 /\ sending'.left = left - 1
  BY DEF TypeOK, SpiClock
<1>2. /\ contents \in [0 .. 15 -> Level] /\ received \in [0 .. 15 -> Level]
      /\ 0 \in Level /\ Miso = contents[15] /\ Miso \in Level
      /\ received' = ShiftIn(received, Miso) /\ contents' = ShiftIn(contents, 0)
  BY MisoType DEF TypeOK, SpiClock, SckEdge, Miso, Level
<1>3. /\ received'[0] = contents[15]
      /\ \A i \in 1 .. 15 : received'[i] = received[i - 1] /\ contents'[i] = contents[i - 1]
  BY <1>2, ShiftInWord
<1>4. \A i \in 0 .. 15 : IF i + left < 16 THEN received[i] = v[i + left]
                                          ELSE contents[i] = v[i + left - 16]
  BY DEF Passing
<1> HIDE DEF left
<1>5. ASSUME NEW i \in 0 .. 15
      PROVE  IF i + (left - 1) < 16 THEN received'[i] = v[i + (left - 1)]
                                    ELSE contents'[i] = v[i + (left - 1) - 16]
  <2>1. CASE i = 0
    <3>1. /\ 15 + left - 16 = left - 1 /\ ~(15 + left < 16)
          /\ i + (left - 1) < 16 /\ i + (left - 1) = left - 1
      BY <1>1, <2>1
    <3>2. contents[15] = v[left - 1]
      BY <1>4, <3>1
    <3>3. QED
      BY <1>3, <2>1, <3>1, <3>2
  <2>2. CASE i # 0
    <3>1. /\ i \in 1 .. 15 /\ i - 1 \in 0 .. 15
          /\ (i - 1) + left = i + (left - 1)
          /\ (i - 1) + left - 16 = i + (left - 1) - 16
      BY <1>1, <2>2
    <3>2. received'[i] = received[i - 1] /\ contents'[i] = contents[i - 1]
      BY <1>3, <3>1
    <3>3. IF (i - 1) + left < 16 THEN received[i - 1] = v[(i - 1) + left]
                                 ELSE contents[i - 1] = v[(i - 1) + left - 16]
      BY <1>4, <3>1
    <3>4. QED
      BY <3>1, <3>2, <3>3
  <2>3. QED
    BY <2>1, <2>2
<1>6. QED
  BY <1>1, <1>5 DEF Passing

(* At its start all of it is in the input registers, at its end received.  *)
LEMMA PassEnds ==
  ASSUME NEW v \in [0 .. 15 -> Level], NEW r \in [0 .. 15 -> Level], NEW k
  PROVE  /\ Passing(v, 16, k, v)
         /\ Passing(v, 0, r, k) => r = v
<1>1. Passing(v, 16, k, v)
  BY DEF Passing
<1>2. ASSUME Passing(v, 0, r, k) PROVE r = v
  <2>1. \A i \in 0 .. 15 : r[i] = v[i]
    BY <1>2 DEF Passing
  <2>2. QED
    BY <2>1
<1>3. QED
  BY <1>1, <1>2

LEMMA CapturedInit == Init => Captured
BY DEF Init, CpldInit, Captured

LEMMA CapturedHp ==
  ASSUME TypeOK, ResetsHold, Captured, HpNext \/ UNCHANGED vars
  PROVE  Captured'
<1>1. UNCHANGED <<pc, sending, saved, queue, received, contents, capture_state>>
  <2>1. CASE Pins /\ UNCHANGED <<mcuPins, mcuVars>>
    BY <2>1, HpPins DEF mcuVars
  <2>2. CASE HpFinishFast
    BY <2>2, HpPins DEF HpFinishFast
  <2>3. CASE HpFinishGeneral \/ UNCHANGED vars
    BY <2>3 DEF HpFinishGeneral, vars, mcuVars, cpldVars
  <2>4. QED
    BY <2>1, <2>2, <2>3 DEF HpNext, HpSelect, HpInhibit, HpAsk, HpAskOther, HpReleaseGeneral,
       HpKeeps
<1>2. QED
  BY <1>1 DEF Captured

LEMMA CapturedMck ==
  ASSUME TypeOK, IInv, Control, ResetsHold, Timing, Captured, Mck
  PROVE  Captured'
<1>1. /\ UNCHANGED <<pc, sending, saved, queue, received>>
      /\ capture_state' = IF CaptureReset THEN "IDLE" ELSE NextCapture
      /\ contents' = IF PlLow /\ ~PlLow' THEN ParallelData ELSE contents
  BY DEF Mck, MckEdge, mcuVars
<1>2. PlLow => Whole(ParallelData)
  BY EnabledWhole DEF Timing, PlLow
<1>3. capture_state' = "CAPTURED" => Whole(contents')
  BY <1>1, <1>2 DEF Captured, NextCapture, PlLow
<1>4. pc = "read" => capture_state' # "IDLE"
  <2> SUFFICES ASSUME pc = "read" PROVE capture_state' # "IDLE"
    OBVIOUS
  <2>1. capture_state # "IDLE" /\ hp_run = 1 /\ cfg_frame = 0 /\ reset_n # 0 /\ spi_cs_n # 0
    BY DEF Captured, Control, IInv, Configuring, TypeOK, Level
  <2>2. ~CaptureReset
    BY <2>1 DEF CaptureReset, FlagsReset, HpActive
  <2>3. QED
    BY <1>1, <2>1, <2>2 DEF NextCapture
<1>5. pc = "transfer" => contents' = contents
  BY <1>1, TransferIdle
<1>6. QED
  BY <1>1, <1>3, <1>4, <1>5 DEF Captured

(* A transfer takes the word before it can be loaded again.                *)
LEMMA CapturedBegin ==
  ASSUME TypeOK, Captured, Pins, ~PlLow, saved' => capture_state = "CAPTURED",
         NEW kind, NEW bits, BeginTransfer(kind, bits),
         \A i \in 1 .. Len(queue') : Whole(queue'[i])
  PROVE  Captured'
<1>1. /\ contents' = contents /\ contents \in [0 .. 15 -> Level]
      /\ capture_state' \in {"IDLE", capture_state}
  BY DEF Pins, TypeOK
<1>2. pc' = "transfer" /\ sending'.left = 16
  BY DEF BeginTransfer
<1>3. saved' => Whole(contents) /\ Passing(contents, 16, received', contents)
  BY <1>1, PassEnds DEF Captured
<1>4. capture_state' = "CAPTURED" => Whole(contents')
  BY <1>1 DEF Captured
<1>5. QED
  BY <1>1, <1>2, <1>3, <1>4 DEF Captured

LEMMA CapturedMcu ==
  ASSUME TypeOK, IInv, Control, ResetsHold, Timing, Captured, McuNext
  PROVE  Captured'
<1>0. ASSUME Pins, queue' = queue, ~saved' \/ pc' # "transfer", pc' # "read"
      PROVE  Captured'
  <2>1. capture_state' = "CAPTURED" => Whole(contents')
    BY <1>0 DEF Pins, Captured, PlLow
  <2>2. QED
    BY <1>0, <2>1 DEF Captured
<1>1. CASE ReleaseReset \/ RaiseRun \/ LowerRun \/ EndFrame
  BY <1>0, <1>1 DEF ReleaseReset, RaiseRun, LowerRun, EndFrame
<1>2. ASSUME NEW c \in Configs, Configure(c) PROVE Captured'
  BY <1>0, <1>2 DEF Configure, BeginTransfer
<1>3. CASE SendReady
  <2>1. ~PlLow /\ queue' = queue /\ Pins /\ saved' = Requested
        /\ BeginTransfer("ready", Response(Zeros(8), 0, 0))
    BY <1>3 DEF SendReady
  <2>2. QED
    BY <2>1, CapturedBegin DEF Requested, Captured
<1>4. CASE SampleRequest
  BY <1>4 DEF SampleRequest, Captured, Requested, cpldVars
<1>5. CASE ReadRequest
  <2>1. ~PlLow /\ queue' = queue /\ Pins /\ BeginTransfer("read", Zeros(16))
    BY <1>5 DEF ReadRequest
  <2>2. capture_state = "CAPTURED"
    BY <1>5 DEF ReadRequest, Captured, TypeOK, PlLow
  <2>3. QED
    BY <2>1, <2>2, CapturedBegin DEF Captured
<1>6. ASSUME NEW ssiBit \in Level, Answer(ssiBit) PROVE Captured'
  <2>1. PICK bits : BeginTransfer("reply", bits)
    BY <1>6 DEF Answer
  <2>2. ~PlLow /\ queue' = Tail(queue) /\ queue # <<>> /\ Pins /\ saved' = Requested
    BY <1>6 DEF Answer
  <2>3. queue' = <<>>
    <3>1. /\ queue' = Tail(queue) /\ Len(queue) <= 1 /\ queue # <<>>
          /\ queue \in Seq([0 .. 15 -> Level])
      BY <2>2 DEF TypeOK
    <3>2. QED
      BY <3>1
  <2>4. \A i \in 1 .. Len(queue') : Whole(queue'[i])
    BY <2>3
  <2>5. QED
    BY <2>1, <2>2, <2>4, CapturedBegin DEF Requested
<1>7. CASE SpiClock
  <2>1. /\ UNCHANGED <<pc, saved, queue, capture_state>> /\ pc = "transfer"
    BY <1>7 DEF SpiClock, SckEdge
  <2>2. capture_state = "IDLE" /\ ~PlLow
    BY <2>1, TransferIdle
  <2>3. \A v : Passing(v, sending.left, received, contents)
               => Passing(v, sending'.left, received', contents')
    BY <1>7, <2>2, PassOne
  <2>4. QED
    BY <2>1, <2>2, <2>3 DEF Captured
<1>8. CASE EndTransfer
  <2>1. /\ pc = "transfer" /\ sending.left = 0 /\ Pins /\ pc' \in {"frame", "idle"}
        /\ queue' = IF saved THEN Append(queue, received) ELSE queue
    BY <1>8 DEF EndTransfer
  <2>2. /\ received \in [0 .. 15 -> Level] /\ queue \in Seq([0 .. 15 -> Level])
        /\ queue = <<>>
    BY <2>1 DEF TypeOK, Control
  <2>3. saved => Whole(received)
    BY <2>1, <2>2, PassEnds DEF Captured
  <2>4. \A i \in 1 .. Len(queue') : Whole(queue'[i])
    BY <2>1, <2>2, <2>3
  <2>5. capture_state' = "CAPTURED" => Whole(contents')
    BY <2>1 DEF Pins, Captured, PlLow
  <2>6. QED
    BY <2>1, <2>4, <2>5 DEF Captured
<1>9. QED
  BY <1>1, <1>2, <1>3, <1>4, <1>5, <1>6, <1>7, <1>8 DEF McuNext

(* The invariant of the words.                                             *)
BusInv == TypeOK /\ IInv /\ Control /\ ResetsHold /\ Timing /\ Captured

LEMMA BusInit == Init => BusInv
<1> SUFFICES ASSUME Init PROVE BusInv
  OBVIOUS
<1>1. TypeOK
  <2>1. Zeros(12) \in [0 .. 11 -> Level]
    BY DEF Zeros, Level
  <2>2. sending \in [kind : {"none", "config", "ready", "read", "reply"},
                     word : [0 .. 15 -> Level], left : 0 .. 16]
    BY Zeros16 DEF Init
  <2>3. 0 \in 0 .. Hold
    BY HpBusAssumption
  <2>4. queue \in Seq([0 .. 15 -> Level]) /\ Len(queue) <= 1
    BY DEF Init
  <2>5. \A register \in {shift, contents, received} : register \in [0 .. 15 -> Level]
    BY Zeros16 DEF Init, CpldInit
  <2>6. word \in [0 .. 11 -> Level] /\ cfg \in [0 .. 11 -> Level]
    BY <2>1 DEF Init, CpldInit
  <2>7. \A level \in {reset_n, hp_run, spi_cs_n, cfg_frame, nceo, nsih, ack, cfi, ssi,
                     enable_meta, enable_sync, enable_prev} : level \in Level
    BY DEF Init, CpldInit, Level
  <2>8. /\ co \in 0 .. 15
        /\ capture_state \in {"IDLE", "FIRST_LOAD", "SECOND_LOAD", "CAPTURED"}
        /\ still \in 0 .. Hold
        /\ pc \in {"reset", "off", "settle", "idle", "read", "transfer", "frame"}
    BY <2>3 DEF Init, CpldInit
  <2>9. /\ asked \in [0 .. 15 -> Level] \cup {None}
        /\ served \in [0 .. 15 -> Level] \cup {None}
        /\ taken \in [0 .. 7 -> Level] \cup {None}
    BY DEF Init
  <2>10. saved \in BOOLEAN
    BY Zenon DEF Init
  <2>11. QED
    BY <2>10, <2>2, <2>4, <2>5, <2>6, <2>7, <2>8, <2>9 DEF TypeOK
<1>2. QED
  BY <1>1, InitHolds, ControlInit, ResetsInit, TimingInit, CapturedInit DEF BusInv

LEMMA BusNext == BusInv /\ [Next]_vars => BusInv'
<1> SUFFICES ASSUME BusInv, [Next]_vars PROVE BusInv'
  OBVIOUS
<1> USE DEF BusInv
<1>1. IInv'
  BY NextHolds
<1>2. TypeOK'
  <2>1. CASE UNCHANGED vars
    BY <2>1 DEF TypeOK, vars, cpldVars, mcuPins, hpPins, registers, flags, enables, hpVars,
       mcuVars
  <2>2. QED
    BY <2>1, TypeHp, TypeMck, TypeMcu DEF Next, Control
<1>3. Control'
  BY ControlHp, ControlMck, ControlMcu DEF Next
<1>4. ResetsHold'
  BY ResetsStay
<1>5. Timing'
  <2>1. CASE UNCHANGED vars
    BY <2>1, SelectionStays DEF vars, cpldVars, mcuPins, hpPins, registers, enables, hpVars,
       Timing, DeviceEnabled
  <2>2. QED
    BY <1>1, <1>3, <2>1, TimingHp, TimingMck, TimingMcu DEF Next
<1>6. Captured'
  BY CapturedHp, CapturedMck, CapturedMcu DEF Next
<1>7. QED
  BY <1>1, <1>2, <1>3, <1>4, <1>5, <1>6

(* The registers, words and the queue of one word keep their types and     *)
(* bounds, for every HP: TypeOK of HpBus.                                  *)
THEOREM BusTypes == Spec => []TypeOK
BY BusInit, BusNext, PTL DEF Spec, BusInv

(* mpsi_cpld.vhdl lines 141 to 157: however requests overtake each other,  *)
(* a word the microcontroller queues is one the HP put on the bus, whole.  *)
THEOREM WholeWords == Spec => []WordWhole
<1>1. BusInv => WordWhole
  BY DEF BusInv, Captured, Whole, WordWhole
<1>2. QED
  BY <1>1, BusInit, BusNext, PTL DEF Spec

-----------------------------------------------------------------------------
(* What a transfer to the HP has put into the response register.           *)
Sent ==
  pc = "transfer" /\ sending.kind # "config" =>
    /\ sending.kind = "read" => sending.word = Zeros(16)
    /\ \A i \in 0 .. 15 : i + sending.left < 16 => shift[i] = sending.word[i + sending.left]

LEMMA SentStays ==
  ASSUME BusInv, Sent, [Next]_vars
  PROVE  Sent'
<1> USE DEF BusInv
<1>1. CASE UNCHANGED <<pc, sending, shift>>
  BY <1>1 DEF Sent
<1>2. CASE HpNext
  <2>1. CASE Pins /\ UNCHANGED <<mcuPins, pc, sending>>
    BY <1>1, <2>1, HpPins
  <2>2. CASE HpFinishGeneral
    BY <1>1, <2>2 DEF HpFinishGeneral, cpldVars, registers
  <2>3. QED
    BY <1>2, <2>1, <2>2 DEF HpNext, HpSelect, HpInhibit, HpAsk, HpAskOther, HpReleaseGeneral,
       HpFinishFast, HpKeeps, mcuVars
<1>3. CASE Mck \/ UNCHANGED vars
  BY <1>1, <1>3 DEF Mck, MckEdge, mcuVars, registers, vars, cpldVars
<1>4. CASE McuNext
  <2>1. CASE ReleaseReset \/ RaiseRun \/ LowerRun \/ SampleRequest \/ EndTransfer \/ EndFrame
    <3>1. pc' # "transfer"
      BY <2>1 DEF ReleaseReset, RaiseRun, LowerRun, SampleRequest, EndTransfer, EndFrame
    <3>2. QED
      BY <3>1 DEF Sent
  <2>2. ASSUME NEW kind \in {"config", "ready", "read", "reply"}, NEW bits,
               BeginTransfer(kind, bits), kind = "read" => bits = Zeros(16)
        PROVE  Sent'
    BY <2>2 DEF BeginTransfer, Sent
  <2>3. ASSUME NEW c \in Configs, Configure(c) PROVE Sent'
    BY <2>2, <2>3 DEF Configure
  <2>4. CASE SendReady
    BY <2>2, <2>4 DEF SendReady
  <2>5. CASE ReadRequest
    BY <2>2, <2>5 DEF ReadRequest
  <2>6. ASSUME NEW ssiBit \in Level, Answer(ssiBit) PROVE Sent'
    BY <2>2, <2>6 DEF Answer
  <2>7. CASE SpiClock
    <3> SUFFICES ASSUME sending'.kind # "config" PROVE Sent'
      BY DEF Sent
    <3> DEFINE left == sending.left
    <3>1. /\ left \in 1 .. 16 /\ sending'.left = left - 1
          /\ sending'.kind = sending.kind /\ sending'.word = sending.word
          /\ pc = "transfer" /\ sending.word \in [0 .. 15 -> Level]
          /\ shift \in [0 .. 15 -> Level]
      BY <2>7 DEF TypeOK, SpiClock
    <3>2. cfg_frame # 1
      BY <3>1 DEF IInv, Configuring
    <3>3. shift' = ShiftIn(shift, sending.word[left - 1]) /\ sending.word[left - 1] \in Level
      BY <2>7, <3>1, <3>2 DEF SpiClock, SckEdge
    <3>4. /\ shift'[0] = sending.word[left - 1]
          /\ \A i \in 1 .. 15 : shift'[i] = shift[i - 1]
      BY <3>1, <3>3, ShiftInWord
    <3>5. \A i \in 0 .. 15 : i + left < 16 => shift[i] = sending.word[i + left]
      BY <3>1 DEF Sent
    <3> HIDE DEF left
    <3>6. ASSUME NEW i \in 0 .. 15, i + (left - 1) < 16
          PROVE  shift'[i] = sending.word[i + (left - 1)]
      <4>1. CASE i = 0
        BY <3>1, <3>4, <4>1
      <4>2. CASE i # 0
        <5>1. i \in 1 .. 15 /\ i - 1 \in 0 .. 15 /\ (i - 1) + left = i + (left - 1)
          BY <3>1, <4>2
        <5>2. QED
          BY <3>4, <3>5, <3>6, <5>1
      <4>3. QED
        BY <4>1, <4>2
    <3>7. QED
      BY <3>1, <3>6 DEF Sent
  <2>8. QED
    BY <1>4, <2>1, <2>3, <2>4, <2>5, <2>6, <2>7 DEF McuNext
<1>5. QED
  BY <1>2, <1>3, <1>4 DEF Next

-----------------------------------------------------------------------------
(* A patient HP.  Its operation goes through six stages.                   *)

Free ==
  /\ queue = <<>> /\ served = None /\ capture_state = "IDLE" /\ ~saved
  /\ pc # "read"
  /\ pc = "transfer" => sending.kind \in {"config", "ready"}
  /\ ack = 1 => pc = "idle"

(* Nothing the HP could take for the answer, and no edge of CEO to come.   *)
Unacknowledged == cfi = 0 /\ (ack = 0 \/ (nceo = 0 /\ TapeSelected))
CeoSeen        == DeviceEnabled => still >= 5
Waiting        == Unacknowledged /\ CeoSeen

Loading ==
  /\ pc = "idle" /\ queue = <<>> /\ served = None
  /\ DeviceEnabled /\ asked = RequestWord(co, word)
  /\ Unacknowledged
  /\ still <= 4 /\ (still <= 2 <=> capture_state = "IDLE") /\ capture_state # "CAPTURED"

Pending ==
  /\ pc \in {"idle", "read"} /\ queue = <<>> /\ served = None
  /\ capture_state = "CAPTURED" /\ contents = asked

Reading ==
  /\ pc = "transfer" /\ sending.kind = "read" /\ queue = <<>> /\ served = None
  /\ saved = TRUE /\ Passing(asked, sending.left, received, contents)

Received ==
  /\ pc = "idle" /\ queue = <<asked>> /\ served = None
  /\ capture_state = "IDLE"

Replying ==
  /\ pc = "transfer" /\ sending.kind = "reply" /\ queue = <<>> /\ served = asked
  /\ saved = FALSE
  /\ \A i \in 0 .. 7 : sending.word[i] = Serve(asked)[i]

Replied ==
  /\ pc = "idle" /\ queue = <<>> /\ served = asked
  /\ capture_state = "IDLE"
  /\ \A i \in 0 .. 7 : shift[i] = Serve(asked)[i]

Stages ==
  IF asked = None
  THEN Free
  ELSE \/ Loading
       \/ Waiting /\ (Pending \/ Reading \/ Received \/ Replying)
       \/ CeoSeen /\ Replied

LEMMA StagesInit == Init => Stages
BY DEF Init, CpldInit, Stages, Free

(* SI0 with SIH low is ACK.                                                *)
LEMMA ReadyIsAck == SeesReady => ack = 1 /\ nsih = 0
BY DEF SeesReady, Sinks, IrqMask, InterruptActive, Value

LEMMA CfiIsSunk == CfiSunk => cfi = 1 /\ nceo = 0 /\ TapeSelected /\ ~FlagsReset
BY DEF CfiSunk

(* A step of the HP that neither asks nor finishes.                        *)
LEMMA StagesHpIdle ==
  ASSUME BusInv, Stages, Pins, HpKeeps, asked' = asked,
         asked # None => ~Loading /\ CeoSeen' /\ (nceo' = 0 => nceo = 1),
         nceo = 0 => ~TapeSelected
  PROVE  Stages'
<1> USE DEF BusInv
<1>1. /\ UNCHANGED <<shift, cfg, enables, capture_state, contents>>
      /\ ack' = IF AckReset' THEN 0 ELSE ack
      /\ cfi' = IF CfiReset' THEN 0 ELSE cfi
  BY HpPins DEF HpKeeps
<1>2. UNCHANGED <<pc, sending, saved, received, queue, served>>
  BY DEF HpKeeps, mcuVars
<1>3. CASE asked = None
  BY <1>1, <1>2, <1>3 DEF Stages, Free
<1>4. CASE asked # None
  <2>1. Unacknowledged => Unacknowledged'
    BY <1>1 DEF Unacknowledged
  <2>2. /\ Pending => Pending'
        /\ Reading => Reading'
        /\ Received => Received'
        /\ Replying => Replying'
        /\ Replied => Replied'
    BY <1>1, <1>2 DEF Pending, Reading, Received, Replying, Replied
  <2>3. QED
    BY <1>4, <2>1, <2>2 DEF Stages, Waiting
<1>5. QED
  BY <1>3, <1>4

LEMMA StagesHp ==
  ASSUME Patient, BusInv, Stages, HpNext
  PROVE  Stages'
<1> USE DEF BusInv
<1>0. Loading => nceo = 0 /\ ~Steady /\ asked # None
  <2>1. Loading => RequestWord(co, word) # None
    BY HpBusAssumption, RequestWordType DEF TypeOK
  <2>2. QED
    BY <2>1, HpBusAssumption DEF Loading, DeviceEnabled, Steady
<1>1. ASSUME NEW code \in Codes, HpSelect(code) PROVE Stages'
  <2>1. nceo = 1 /\ nceo' = 1 /\ Pins /\ HpKeeps /\ asked' = asked
    BY <1>1 DEF HpSelect, hpVars
  <2>2. QED
    BY <1>0, <2>1, StagesHpIdle DEF CeoSeen, DeviceEnabled
<1>2. CASE HpInhibit
  <2>1. nceo = 1 /\ nceo' = 1 /\ Pins /\ HpKeeps /\ asked' = asked
    BY <1>2 DEF HpInhibit, hpVars
  <2>2. QED
    BY <1>0, <2>1, StagesHpIdle DEF CeoSeen, DeviceEnabled
<1>3. ASSUME NEW w \in Words, HpAsk(w) PROVE Stages'
  <2>1. /\ asked = None /\ SeesReady /\ nceo = 1 /\ nceo' = 0 /\ co' = co /\ word' = w
        /\ asked' = RequestWord(co, w) /\ still' = 0 /\ Pins /\ HpKeeps
        /\ GeneralSelected \/ TapeSelected
    BY <1>3 DEF HpAsk
  <2>2. /\ UNCHANGED <<shift, cfg, enables, capture_state, contents>>
        /\ ack' = IF AckReset' THEN 0 ELSE ack
        /\ cfi' = IF CfiReset' THEN 0 ELSE cfi
    BY <2>1, HpPins DEF HpKeeps
  <2>3. UNCHANGED <<pc, queue, served>>
    BY <2>1 DEF HpKeeps, mcuVars
  <2>4. (GeneralSelected' <=> GeneralSelected) /\ (TapeSelected' <=> TapeSelected)
    BY <2>1, <2>2, SelectionStays DEF HpKeeps, mcuPins
  <2>5. pc = "idle" /\ queue = <<>> /\ served = None /\ capture_state = "IDLE"
    BY <2>1, ReadyIsAck DEF Stages, Free
  <2>6. Unacknowledged'
    <3>1. cfi = 0
      BY <2>1 DEF ResetsHold, CfiReset
    <3>2. GeneralSelected' => ack' = 0
      BY <2>1, <2>2 DEF AckReset
    <3>3. QED
      BY <2>1, <2>2, <2>4, <3>1, <3>2 DEF Unacknowledged
  <2>7. DeviceEnabled'
    BY <2>1, <2>4 DEF DeviceEnabled
  <2>8. asked' # None
    BY <2>1, HpBusAssumption, RequestWordType DEF TypeOK
  <2>9. Loading'
    BY <2>1, <2>2, <2>3, <2>5, <2>6, <2>7 DEF Loading
  <2>10. QED
    BY <2>8, <2>9 DEF Stages
<1>4. ASSUME NEW w \in Words, HpAskOther(w) PROVE Stages'
  <2>1. /\ nceo = 1 /\ Pins /\ HpKeeps /\ asked' = asked /\ co' = co
        /\ ~GeneralSelected /\ ~TapeSelected
    BY <1>4 DEF HpAskOther
  <2>2. ~DeviceEnabled'
    BY <2>1, HpPins, SelectionStays DEF DeviceEnabled, HpKeeps, mcuPins
  <2>3. QED
    BY <1>0, <2>1, <2>2, StagesHpIdle DEF CeoSeen
<1>5. CASE HpReleaseGeneral
  <2>1. /\ nceo = 0 /\ nceo' = 1 /\ Pins /\ HpKeeps /\ asked' = asked
        /\ ~TapeSelected /\ Steady
    BY <1>5 DEF HpReleaseGeneral
  <2>2. QED
    BY <1>0, <2>1, StagesHpIdle DEF CeoSeen, DeviceEnabled
<1>6. ASSUME asked # None, asked' = None, served' = None, Replied,
             UNCHANGED <<pc, queue, capture_state, saved>>
      PROVE  Stages'
  BY <1>6 DEF Stages, Free, Replied, Control
<1>7. CASE HpFinishGeneral
  <2>1. ~Waiting /\ ~Loading
    BY <1>0, <1>7, ReadyIsAck DEF HpFinishGeneral, Waiting, Unacknowledged
  <2>2. Replied
    BY <1>7, <2>1 DEF HpFinishGeneral, Stages
  <2>3. QED
    BY <1>6, <1>7, <2>2 DEF HpFinishGeneral, cpldVars
<1>8. CASE HpFinishFast
  <2>1. ~Waiting /\ ~Loading
    BY <1>0, <1>8, CfiIsSunk DEF HpFinishFast, Waiting, Unacknowledged
  <2>2. Replied
    BY <1>8, <2>1 DEF HpFinishFast, Stages
  <2>3. capture_state' = capture_state
    BY <1>8, HpPins DEF HpFinishFast
  <2>4. QED
    BY <1>6, <1>8, <2>2, <2>3 DEF HpFinishFast
<1>9. QED
  BY <1>1, <1>2, <1>3, <1>4, <1>5, <1>7, <1>8 DEF HpNext

LEMMA StagesMck ==
  ASSUME BusInv, Stages, Mck
  PROVE  Stages'
<1> USE DEF BusInv
<1>1. /\ UNCHANGED <<mcuPins, hpPins, registers, flags, asked, mcuVars>>
      /\ still' = IF still = Hold THEN still ELSE still + 1
      /\ capture_state' = IF CaptureReset THEN "IDLE" ELSE NextCapture
      /\ contents' = IF PlLow /\ ~PlLow' THEN ParallelData ELSE contents
  BY DEF Mck, MckEdge, Steady
<1>2. /\ GeneralSelected' <=> GeneralSelected
      /\ TapeSelected' <=> TapeSelected
      /\ DeviceEnabled' <=> DeviceEnabled
  BY <1>1, SelectionStays DEF DeviceEnabled, mcuPins, hpPins, registers
<1>3. still \in 0 .. Hold /\ Hold \in Nat /\ Hold >= 5
  BY HpBusAssumption DEF TypeOK
<1>4. ASSUME CeoSeen
      PROVE  /\ CeoSeen'
             /\ capture_state = "IDLE" => capture_state' = "IDLE"
             /\ capture_state = "CAPTURED" /\ ~CaptureReset => capture_state' = "CAPTURED"
  <2>1. ~(enable_sync = 1 /\ enable_prev = 0)
    BY <1>3, <1>4 DEF Timing, CeoSeen
  <2>2. CeoSeen'
    BY <1>1, <1>2, <1>3, <1>4 DEF CeoSeen
  <2>3. QED
    BY <1>1, <2>1, <2>2 DEF NextCapture
<1>5. asked # None /\ pc \in {"idle", "read"} => ~CaptureReset
  <2> SUFFICES ASSUME asked # None, pc \in {"idle", "read"} PROVE ~CaptureReset
    OBVIOUS
  <2>1. HpActive /\ reset_n # 0 /\ spi_cs_n # 0
    BY DEF Control, TypeOK, Level
  <2>2. QED
    BY <2>1 DEF CaptureReset, FlagsReset
<1>6. Unacknowledged => Unacknowledged'
  BY <1>1, <1>2 DEF Unacknowledged, flags, hpPins
<1>7. UNCHANGED <<pc, sending, saved, received, queue, served, shift, ack, co, word>>
  BY <1>1 DEF mcuVars, registers, flags, hpPins
<1>8. CASE asked = None
  <2>1. ~DeviceEnabled
    BY <1>8, Exclusive DEF DeviceEnabled, DecodeExclusive, Control
  <2>2. capture_state = "IDLE" => capture_state' = "IDLE"
    BY <1>4, <2>1 DEF CeoSeen
  <2>3. QED
    BY <1>1, <1>7, <1>8, <2>2 DEF Stages, Free
<1>9. CASE asked # None /\ Waiting /\ (Pending \/ Reading \/ Received \/ Replying)
  <2>1. CeoSeen /\ Waiting'
    BY <1>4, <1>6, <1>9 DEF Waiting
  <2>2. CASE Pending
    <3>1. capture_state' = "CAPTURED" /\ contents' = contents
      BY <1>1, <1>4, <1>5, <1>9, <2>1, <2>2 DEF Pending, PlLow
    <3>2. Pending'
      BY <1>1, <1>7, <2>2, <3>1 DEF Pending
    <3>3. QED
      BY <1>1, <1>9, <2>1, <3>2 DEF Stages
  <2>3. CASE Reading
    <3>1. contents' = contents
      BY <1>1, <2>3, TransferIdle DEF Reading
    <3>2. Reading'
      BY <1>1, <1>7, <2>3, <3>1 DEF Reading
    <3>3. QED
      BY <1>1, <1>9, <2>1, <3>2 DEF Stages
  <2>4. CASE Received
    <3>1. Received'
      BY <1>1, <1>4, <1>7, <2>1, <2>4 DEF Received
    <3>2. QED
      BY <1>1, <1>9, <2>1, <3>1 DEF Stages
  <2>5. CASE Replying
    <3>1. Replying'
      BY <1>1, <1>7, <2>5 DEF Replying
    <3>2. QED
      BY <1>1, <1>9, <2>1, <3>1 DEF Stages
  <2>6. QED
    BY <1>9, <2>2, <2>3, <2>4, <2>5
<1>10. CASE asked # None /\ CeoSeen /\ Replied
  <2>1. CeoSeen' /\ Replied'
    BY <1>1, <1>4, <1>7, <1>10 DEF Replied
  <2>2. QED
    BY <1>1, <1>10, <2>1 DEF Stages
<1>11. CASE asked # None /\ Loading
  <2>1. /\ ~CaptureReset /\ still' = still + 1
        /\ pc' = "idle" /\ queue' = <<>> /\ served' = None /\ asked' # None
        /\ DeviceEnabled' /\ asked' = RequestWord(co', word') /\ Unacknowledged'
    BY <1>1, <1>2, <1>3, <1>5, <1>6, <1>7, <1>11 DEF Loading
  <2>2. /\ enable_sync = IF still >= 2 THEN 1 ELSE 0
        /\ enable_prev = IF still >= 3 THEN 1 ELSE 0
    BY <1>11 DEF Loading, Timing
  <2>3. CASE still <= 2
    <3>1. capture_state' = IF still = 2 THEN "FIRST_LOAD" ELSE "IDLE"
      BY <1>1, <1>3, <1>11, <2>1, <2>2, <2>3 DEF Loading, NextCapture
    <3>2. still' <= 4 /\ (still' <= 2 <=> still # 2)
      BY <1>3, <2>1, <2>3
    <3>3. Loading'
      BY <2>1, <3>1, <3>2 DEF Loading
    <3>4. QED
      BY <2>1, <3>3 DEF Stages
  <2>4. CASE still = 3
    <3>1. capture_state = "FIRST_LOAD"
      BY <1>11, <2>4 DEF Loading, Timing, TypeOK
    <3>2. capture_state' = "SECOND_LOAD"
      BY <1>1, <2>1, <2>2, <2>4, <3>1 DEF NextCapture
    <3>3. Loading'
      BY <2>1, <2>4, <3>2 DEF Loading
    <3>4. QED
      BY <2>1, <3>3 DEF Stages
  <2>5. CASE still = 4
    <3>1. capture_state = "SECOND_LOAD"
      BY <1>11, <2>5 DEF Loading, Timing, TypeOK
    <3>2. capture_state' = "CAPTURED"
      BY <1>1, <2>1, <2>2, <2>5, <3>1 DEF NextCapture
    <3>3. contents' = asked'
      BY <1>1, <1>11, <3>1, <3>2, EnabledWhole DEF PlLow, Loading
    <3>4. Pending' /\ CeoSeen'
      BY <2>1, <2>5, <3>2, <3>3 DEF Pending, CeoSeen
    <3>5. QED
      BY <2>1, <3>4 DEF Stages, Waiting
  <2>6. still <= 2 \/ still = 3 \/ still = 4
    BY <1>3, <1>11 DEF Loading
  <2>7. QED
    BY <2>3, <2>4, <2>5, <2>6
<1>12. QED
  BY <1>8, <1>9, <1>10, <1>11 DEF Stages

-----------------------------------------------------------------------------
(* The microcontroller between two operations.                             *)

LEMMA StagesMcuFree ==
  ASSUME BusInv, Sent, Stages, asked = None, McuNext, asked' = asked
  PROVE  Stages'
<1> USE DEF BusInv
<1>1. Free
  BY DEF Stages
<1> SUFFICES Free'
  BY DEF Stages
<1>2. ASSUME Pins, UNCHANGED <<queue, served>>, ~saved', pc' # "read",
             pc' = "transfer" => sending'.kind \in {"config", "ready"},
             ack' = 1 => pc' = "idle"
      PROVE  Free'
  <2>1. capture_state' = "IDLE"
    BY <1>1, <1>2 DEF Pins, Free
  <2>2. QED
    BY <1>1, <1>2, <2>1 DEF Free
<1>3. ASSUME Pins, spi_cs_n' = spi_cs_n \/ spi_cs_n' = 0, pc # "idle"
      PROVE  ack' # 1
  <2>1. ack' \in {0, ack}
    BY <1>3 DEF Pins, FlagLoad, TypeOK, Level
  <2>2. QED
    BY <1>1, <1>3, <2>1 DEF Free
<1>4. ASSUME Pins, hp_run' = 0 \/ cfg_frame' = 1
      PROVE  ack' # 1
  BY <1>4 DEF Pins, AckReset, FlagsReset, HpActive
<1>5. CASE ReleaseReset \/ RaiseRun \/ EndFrame
  <2>1. /\ Pins /\ UNCHANGED <<queue, served, saved, spi_cs_n>>
        /\ pc # "idle" /\ pc' \in {"off", "settle"}
    BY <1>5 DEF ReleaseReset, RaiseRun, EndFrame
  <2>2. ack' # 1
    BY <1>3, <2>1
  <2>3. QED
    BY <1>1, <1>2, <2>1, <2>2 DEF Free
<1>6. CASE LowerRun
  <2>1. Pins /\ UNCHANGED <<queue, served, saved>> /\ pc' = "off" /\ hp_run' = 0
    BY <1>6 DEF LowerRun
  <2>2. ack' # 1
    BY <1>4, <2>1
  <2>3. QED
    BY <1>1, <1>2, <2>1, <2>2 DEF Free
<1>7. ASSUME NEW c \in Configs, Configure(c) PROVE Free'
  <2>1. /\ Pins /\ UNCHANGED <<queue, served>> /\ saved' = FALSE /\ cfg_frame' = 1
        /\ pc' = "transfer" /\ sending'.kind = "config"
    BY <1>7 DEF Configure, BeginTransfer
  <2>2. ack' # 1
    BY <1>4, <2>1
  <2>3. QED
    BY <1>2, <2>1, <2>2
<1>8. CASE SendReady
  <2>1. /\ Pins /\ UNCHANGED <<queue, served>> /\ saved' = Requested /\ pc = "settle"
        /\ pc' = "transfer" /\ sending'.kind = "ready" /\ spi_cs_n' = 0
    BY <1>8 DEF SendReady, BeginTransfer
  <2>2. ack' # 1
    BY <1>3, <2>1
  <2>3. ~saved'
    BY <1>1, <2>1 DEF Free, Requested
  <2>4. QED
    BY <1>2, <2>1, <2>2, <2>3
<1>9. CASE SampleRequest \/ ReadRequest \/ \E ssiBit \in Level : Answer(ssiBit)
  BY <1>1, <1>9 DEF SampleRequest, ReadRequest, Answer, Free, Requested
<1>10. CASE SpiClock
  <2>1. UNCHANGED <<pc, saved, queue, served, capture_state, ack>> /\ sending'.kind = sending.kind
    BY <1>10 DEF SpiClock, SckEdge, flags, TypeOK
  <2>2. QED
    BY <1>1, <2>1 DEF Free
<1>11. CASE EndTransfer
  <2>1. /\ Pins /\ served' = served /\ saved' = FALSE /\ pc = "transfer"
        /\ queue' = IF saved THEN Append(queue, received) ELSE queue
        /\ pc' = IF sending.kind = "config" THEN "frame" ELSE "idle"
        /\ cfg_frame' = cfg_frame
    BY <1>11 DEF EndTransfer
  <2>2. queue' = queue
    BY <1>1, <2>1 DEF Free
  <2>3. pc' = "frame" => cfg_frame' = 1
    BY <2>1 DEF IInv, Configuring
  <2>4. ack' = 1 => pc' = "idle"
    BY <1>4, <2>1, <2>3
  <2>5. QED
    BY <1>2, <2>1, <2>2, <2>4
<1>12. QED
  BY <1>5, <1>6, <1>7, <1>8, <1>9, <1>10, <1>11 DEF McuNext

(* The microcontroller while the HP waits: what is selected stays.         *)
LEMMA McuLeavesSelected ==
  ASSUME BusInv, BusInv', asked # None, McuNext
  PROVE  /\ (TapeSelected' <=> TapeSelected) /\ (CeoSeen => CeoSeen')
         /\ UNCHANGED <<hpPins, asked>> /\ cfg' = cfg /\ (shift' = shift \/ SpiClock)
         /\ reset_n' # 0
<1> USE DEF BusInv
<1>1. UNCHANGED <<hpPins, asked>>
  BY DEF McuNext, ReleaseReset, Configure, RaiseRun, LowerRun, SendReady, SampleRequest,
     ReadRequest, Answer, SpiClock, SckEdge, EndTransfer, EndFrame, McuKeeps, cpldVars, hpVars
<1>2. HpActive /\ HpActive' /\ reset_n' # 0
  BY <1>1 DEF Control, HpActive
<1>3. cfg' = cfg /\ (shift' = shift \/ SpiClock)
  <2>1. CASE SpiClock
    BY <1>2, <2>1 DEF SpiClock, SckEdge, HpActive
  <2>2. CASE ~SpiClock
    <3>1. Pins \/ UNCHANGED <<cfg, shift>>
      BY <2>2 DEF McuNext, ReleaseReset, Configure, RaiseRun, LowerRun, SendReady,
         SampleRequest, ReadRequest, Answer, EndTransfer, EndFrame, cpldVars, registers
    <3>2. QED
      BY <1>2, <3>1 DEF Pins
  <2>3. QED
    BY <2>1, <2>2
<1>4. TapeSelected' <=> TapeSelected
  BY <1>1, <1>2, <1>3, SelectionStays DEF HpActive, hpPins
<1>5. CeoSeen => CeoSeen'
  BY McuLeavesEnabled DEF CeoSeen
<1>6. QED
  BY <1>1, <1>2, <1>3, <1>4, <1>5

LEMMA StagesMcuServing ==
  ASSUME BusInv, BusInv', Sent, Stages, asked # None, McuNext
  PROVE  Stages'
<1> USE DEF BusInv
<1>0. /\ (TapeSelected' <=> TapeSelected) /\ (CeoSeen => CeoSeen')
      /\ UNCHANGED <<hpPins, asked>> /\ cfg' = cfg /\ (shift' = shift \/ SpiClock)
      /\ reset_n' # 0
  BY McuLeavesSelected
<1>1. hp_run = 1 /\ cfg_frame = 0 /\ reset_n # 0
  BY DEF Control, HpActive
<1>2. pc \notin {"reset", "off", "frame"} /\ ~Configuring
  BY <1>1 DEF Control, IInv
<1>3. ASSUME Pins, spi_cs_n' = spi_cs_n \/ spi_cs_n' = 0, Unacknowledged
      PROVE  Unacknowledged'
  <2>1. ack' \in {0, ack} /\ cfi' \in {0, cfi}
    BY <1>3 DEF Pins, FlagLoad, TypeOK, Level
  <2>2. QED
    BY <1>0, <1>3, <2>1 DEF Unacknowledged, hpPins
<1>4. CASE SampleRequest
  <2>1. Pending /\ Waiting
    BY <1>4 DEF SampleRequest, Requested, Stages, Loading, Received, Replied, Reading, Replying
  <2>2. Pending' /\ Waiting'
    BY <1>0, <1>4, <2>1 DEF SampleRequest, Pending, Waiting, Unacknowledged, cpldVars, hpVars,
       flags, hpPins
  <2>3. QED
    BY <1>0, <2>2 DEF Stages
<1>5. CASE ReadRequest
  <2>1. pc = "read" /\ ~PlLow /\ BeginTransfer("read", Zeros(16)) /\ Pins
        /\ UNCHANGED <<saved, queue, served>>
    BY <1>5 DEF ReadRequest
  <2>2. Pending /\ Waiting
    BY <2>1 DEF Stages, Loading, Received, Replied, Reading, Replying
  <2>3. contents' = asked /\ saved
    BY <2>1, <2>2 DEF Pins, Pending, Control
  <2>4. Reading'
    <3>1. asked \in [0 .. 15 -> Level]
      BY <2>2 DEF Pending, TypeOK
    <3>2. Passing(asked', sending'.left, received', contents')
      BY <1>0, <2>1, <2>3, <3>1, PassEnds DEF BeginTransfer
    <3>3. saved' = TRUE
      BY <2>1, <2>3 DEF TypeOK
    <3>4. QED
      BY <2>1, <2>2, <3>2, <3>3 DEF Reading, Pending, BeginTransfer
  <2>5. Waiting'
    BY <1>0, <1>3, <2>1, <2>2 DEF Waiting, BeginTransfer
  <2>6. QED
    BY <1>0, <2>4, <2>5 DEF Stages
<1>6. ASSUME NEW ssiBit \in Level, Answer(ssiBit) PROVE Stages'
  <2>1. /\ pc = "idle" /\ queue # <<>> /\ ~PlLow /\ Pins /\ queue' = Tail(queue)
        /\ saved' = Requested /\ served' = Head(queue)
        /\ BeginTransfer("reply", Response(Serve(Head(queue)),
                                           IF IsTape(Head(queue)) THEN 1 ELSE 0, ssiBit))
    BY <1>6 DEF Answer
  <2>2. Received /\ Waiting
    BY <2>1 DEF Stages, Loading, Pending, Replied, Reading, Replying
  <2>3. queue = <<asked>> /\ Head(queue) = asked /\ Tail(queue) = <<>>
    BY <2>2 DEF Received
  <2>4. saved' = FALSE
    BY <2>1, <2>2 DEF Received, Requested
  <2>5. \A i \in 0 .. 7 : sending'.word[i] = Serve(asked)[i]
    <3>1. asked \in [0 .. 15 -> Level]
      BY DEF TypeOK
    <3>2. Serve(asked) \in [0 .. 7 -> Level]
      BY <3>1, HpBusAssumption
    <3>3. \A cfiBit \in Level, i \in 0 .. 7 :
            Response(Serve(asked), cfiBit, ssiBit)[i] = Serve(asked)[i]
      BY <3>2, ResponseType
    <3>4. PICK cfiBit \in Level : sending'.word = Response(Serve(asked), cfiBit, ssiBit)
      BY <2>1, <2>3 DEF BeginTransfer, Level
    <3>5. QED
      BY <3>3, <3>4
  <2>6. Replying'
    BY <1>0, <2>1, <2>3, <2>4, <2>5 DEF Replying, BeginTransfer
  <2>7. Waiting'
    BY <1>0, <1>3, <2>1, <2>2 DEF Waiting, BeginTransfer
  <2>8. QED
    BY <1>0, <2>6, <2>7 DEF Stages
<1>7. CASE SpiClock
  <2>1. /\ UNCHANGED <<pc, saved, queue, served, flags, capture_state>> /\ pc = "transfer"
        /\ sending'.kind = sending.kind /\ sending'.word = sending.word
    BY <1>7 DEF SpiClock, SckEdge, TypeOK
  <2>2. Waiting /\ (Reading \/ Replying)
    BY <2>1 DEF Stages, Loading, Pending, Received, Replied
  <2>3. Waiting'
    BY <1>0, <2>1, <2>2 DEF Waiting, Unacknowledged, flags, hpPins
  <2>4. CASE Reading
    <3>1. ~PlLow
      BY <2>1, TransferIdle
    <3>2. Passing(asked, sending'.left, received', contents')
      BY <1>7, <2>4, <3>1, PassOne DEF Reading
    <3>3. Reading'
      BY <1>0, <2>1, <2>4, <3>2 DEF Reading
    <3>4. QED
      BY <1>0, <2>3, <3>3 DEF Stages
  <2>5. CASE Replying
    <3>1. Replying'
      BY <1>0, <2>1, <2>5 DEF Replying
    <3>2. QED
      BY <1>0, <2>3, <3>1 DEF Stages
  <2>6. QED
    BY <2>2, <2>4, <2>5
<1>8. CASE EndTransfer
  <2>1. /\ pc = "transfer" /\ sending.left = 0 /\ Pins /\ served' = served
        /\ queue' = IF saved THEN Append(queue, received) ELSE queue
        /\ pc' = IF sending.kind = "config" THEN "frame" ELSE "idle"
        /\ spi_cs_n' = 1 /\ cfg_frame' = cfg_frame
    BY <1>8 DEF EndTransfer
  <2>2. Waiting /\ (Reading \/ Replying)
    BY <2>1 DEF Stages, Loading, Pending, Received, Replied
  <2>3. capture_state' = "IDLE" /\ pc' = "idle"
    BY <1>2, <2>1, TransferIdle DEF Pins, Configuring
  <2>4. shift' = shift
    BY <1>0, <2>1 DEF Pins
  <2>5. \A i \in 0 .. 15 : shift[i] = sending.word[i]
    <3>1. sending.word \in [0 .. 15 -> Level]
      BY DEF TypeOK
    <3>2. \A i \in 0 .. 15 : i + 0 = i /\ i + 0 < 16
      OBVIOUS
    <3>3. \A i \in 0 .. 15 : i + 0 < 16 => shift[i] = sending.word[i + 0]
      BY <1>2, <2>1 DEF Sent, Configuring
    <3>4. QED
      BY <3>2, <3>3
  <2>6. CASE Reading
    <3>1. asked \in [0 .. 15 -> Level] /\ received \in [0 .. 15 -> Level]
      BY DEF TypeOK
    <3>2. received = asked
      BY <2>1, <2>6, <3>1, PassEnds DEF Reading
    <3>3. queue' = <<asked>>
      BY <2>1, <2>6, <3>2 DEF Reading
    <3>4. shift[13] = 0 /\ shift[14] = 0
      <4>1. sending.word = Zeros(16)
        BY <2>1, <2>6 DEF Reading, Sent
      <4>2. QED
        BY <2>5, <4>1 DEF Zeros
    <3>5. ack' = 0 /\ cfi' = 0
      <4>1. spi_cs_n = 0 /\ cfg_frame' = 0
        BY <1>1, <2>1 DEF Control
      <4>2. QED
        BY <2>1, <3>4, <4>1 DEF Pins, FlagLoad
    <3>6. Received' /\ Waiting'
      BY <1>0, <2>1, <2>2, <2>3, <2>6, <3>3, <3>5 DEF Received, Reading, Waiting, Unacknowledged
    <3>7. QED
      BY <1>0, <3>6 DEF Stages
  <2>7. CASE Replying
    <3>1. Replied'
      BY <1>0, <2>1, <2>3, <2>4, <2>5, <2>7 DEF Replied, Replying
    <3>2. QED
      BY <1>0, <2>2, <3>1 DEF Stages, Waiting
  <2>8. QED
    BY <2>2, <2>6, <2>7
<1>9. ~ReleaseReset /\ ~RaiseRun /\ ~LowerRun /\ ~EndFrame /\ ~SendReady
      /\ \A c \in Configs : ~Configure(c)
  <2>1. pc # "settle"
    BY DEF Stages, Loading, Pending, Reading, Received, Replying, Replied
  <2>2. QED
    BY <1>2, <2>1 DEF ReleaseReset, RaiseRun, LowerRun, EndFrame, SendReady, Configure, Quiescent
<1>10. QED
  BY <1>4, <1>5, <1>6, <1>7, <1>8, <1>9 DEF McuNext

LEMMA StagesNext ==
  ASSUME Patient, BusInv, BusInv', Sent, Stages, [Next]_vars
  PROVE  Stages'
<1>1. CASE UNCHANGED vars
  BY <1>1, SelectionStays DEF vars, cpldVars, mcuPins, hpPins, registers, flags, hpVars, mcuVars,
     Stages, Free, Waiting, Unacknowledged, CeoSeen, DeviceEnabled, Loading, Pending, Reading,
     Received, Replying, Replied
<1>2. CASE McuNext
  <2>1. asked' = asked
    BY <1>2 DEF McuNext, ReleaseReset, Configure, RaiseRun, LowerRun, SendReady, SampleRequest,
       ReadRequest, Answer, SpiClock, EndTransfer, EndFrame, McuKeeps, hpVars
  <2>2. QED
    BY <1>2, <2>1, StagesMcuFree, StagesMcuServing
<1>3. QED
  BY <1>1, <1>2, StagesHp, StagesMck DEF Next

-----------------------------------------------------------------------------

PatientInv == BusInv /\ Sent /\ Stages

LEMMA PatientInit == Init => PatientInv
BY BusInit, StagesInit DEF PatientInv, Sent, Init

LEMMA PatientNext ==
  ASSUME Patient
  PROVE  PatientInv /\ [Next]_vars => PatientInv'
BY BusNext, SentStays, StagesNext DEF PatientInv

(* mpsi_cpld.vhdl lines 141 to 170, for a patient HP: what is signalled is *)
(* the word of the operation, captured once.                               *)
THEOREM CapturedAsAsked ==
  ASSUME Patient
  PROVE  Spec => []CaptureIsRequest
<1>1. PatientInv => CaptureIsRequest
  BY DEF PatientInv, Stages, Loading, Pending, Reading, Received, Replying, Replied,
     CaptureIsRequest, Requested, BusInv, ResetsHold, Control, CaptureReset
<1>2. PatientInv /\ [Next]_vars => PatientInv'
  BY PatientNext
<1>3. QED
  BY <1>1, <1>2, PatientInit, PTL DEF Spec

-----------------------------------------------------------------------------
(* The byte is whole when it is taken.                                     *)
LEMMA ByteTaken ==
  ASSUME BusInv, asked # None, Replied, ~FlagsReset,
         (GeneralSelected /\ nsih = 0) \/ (TapeSelected /\ nceo = 0)
  PROVE  DataSeen = Serve(asked)
<1> USE DEF BusInv
<1>1. asked \in [0 .. 15 -> Level]
  BY DEF TypeOK
<1>2. Serve(asked) \in [0 .. 7 -> Level]
  BY <1>1, HpBusAssumption
<1>3. IrqMask = {}
  BY DEF IrqMask, InterruptActive, ResetsHold, SsiReset, DeviceEnabled
<1>4. \A i \in 0 .. 7 : i \in Gated /\ Value(i) = shift[i]
  BY DEF Gated, DataEnable, Value
<1>5. \A i \in 0 .. 7 : i \in Sinks <=> shift[i] = 1
  BY <1>3, <1>4 DEF Sinks
<1>6. \A i \in 0 .. 7 : DataSeen[i] = Serve(asked)[i]
  BY <1>2, <1>5 DEF DataSeen, Replied, Level
<1>7. QED
  BY <1>2, <1>6 DEF DataSeen

LEMMA PromiseInit == Init => Exchange!Init
BY DEF Init, Exchange!Init

LEMMA PromiseFinish ==
  ASSUME BusInv, Stages, HpFinishGeneral \/ HpFinishFast
  PROVE  Exchange!Finish
<1>1. CASE HpFinishGeneral
  <2>1. /\ SeesReady /\ nceo = 1 /\ asked # None /\ GeneralSelected
        /\ asked' = None /\ served' = None
        /\ taken' = IF IsInput(asked) THEN DataSeen ELSE taken
    BY <1>1 DEF HpFinishGeneral
  <2>2. Replied
    BY <2>1, ReadyIsAck DEF Stages, Loading, DeviceEnabled, Waiting, Unacknowledged
  <2>3. ~FlagsReset
    BY <2>1 DEF SeesReady, Sinks
  <2>4. DataSeen = Serve(asked)
    BY <2>1, <2>2, <2>3, ReadyIsAck, ByteTaken
  <2>5. QED
    BY <2>1, <2>2, <2>4 DEF Exchange!Finish, Replied
<1>2. CASE HpFinishFast
  <2>1. /\ CfiSunk /\ asked # None
        /\ asked' = None /\ served' = None
        /\ taken' = IF IsInput(asked) THEN DataSeen ELSE taken
    BY <1>2 DEF HpFinishFast
  <2>2. Replied
    BY <2>1, CfiIsSunk DEF Stages, Loading, Waiting, Unacknowledged
  <2>3. DataSeen = Serve(asked)
    BY <2>1, <2>2, CfiIsSunk, ByteTaken
  <2>4. QED
    BY <2>1, <2>2, <2>3 DEF Exchange!Finish, Replied
<1>3. QED
  BY <1>1, <1>2

(* Asking, taking and finishing are the steps of the exchange; all others  *)
(* leave it alone.                                                         *)
LEMMA PromiseStep ==
  ASSUME Patient, PatientInv, [Next]_vars
  PROVE  [Exchange!Next]_Exchange!vars
<1> USE DEF PatientInv
<1>1. CASE UNCHANGED <<asked, served, taken>>
  BY <1>1 DEF Exchange!vars
<1>2. ASSUME NEW w \in Words, HpAsk(w) PROVE Exchange!Ask
  <2>1. asked = None /\ asked' = RequestWord(co, w) /\ UNCHANGED <<served, taken>>
    BY <1>2 DEF HpAsk, HpKeeps, mcuVars
  <2>2. RequestWord(co, w) # None
    BY HpBusAssumption, RequestWordType DEF BusInv, TypeOK
  <2>3. QED
    BY <2>1, <2>2 DEF Exchange!Ask
<1>3. ASSUME NEW ssiBit \in Level, Answer(ssiBit) PROVE Exchange!Take
  <2>1. /\ pc = "idle" /\ queue # <<>> /\ served' = Head(queue)
        /\ UNCHANGED <<asked, taken>>
    BY <1>3 DEF Answer, McuKeeps
  <2>2. asked # None /\ Received
    BY <2>1 DEF Stages, Free, Loading, Pending, Reading, Replying, Replied
  <2>3. QED
    BY <2>1, <2>2 DEF Received, Exchange!Take
<1>4. CASE HpFinishGeneral \/ HpFinishFast
  BY <1>4, PromiseFinish DEF Exchange!Next
<1>5. CASE HpNext
  BY <1>1, <1>2, <1>4, <1>5
     DEF HpNext, HpSelect, HpInhibit, HpAskOther, HpReleaseGeneral, HpKeeps, hpVars, mcuVars,
         Exchange!Next
<1>6. CASE Mck \/ UNCHANGED vars
  BY <1>1, <1>6 DEF Mck, mcuVars, vars, hpVars
<1>7. CASE McuNext
  BY <1>1, <1>3, <1>7
     DEF McuNext, ReleaseReset, Configure, RaiseRun, LowerRun, SendReady, SampleRequest,
         ReadRequest, SpiClock, EndTransfer, EndFrame, McuKeeps, hpVars, Exchange!Next
<1>8. QED
  BY <1>5, <1>6, <1>7 DEF Next

(* BUS-002, BUS-003 and BUS-007 of requirements/03_interface.md: with the  *)
(* registers, the clock and the transfers, the bus implements HpExchange.  *)
THEOREM PromiseKept ==
  ASSUME Patient
  PROVE  Spec => KeepsPromise
<1>1. PatientInv /\ [Next]_vars => PatientInv'
  BY PatientNext
<1>2. PatientInv /\ [Next]_vars => [Exchange!Next]_Exchange!vars
  BY PromiseStep
<1>3. QED
  BY <1>1, <1>2, PatientInit, PromiseInit, PTL DEF Spec, KeepsPromise, Exchange!Spec

=============================================================================
