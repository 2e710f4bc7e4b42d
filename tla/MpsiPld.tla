-------------------------------- MODULE MpsiPld --------------------------------
(***************************************************************************)
(* The interface of the first generation as its software meets it: the     *)
(* flip-flops of hardware/pld/ATMEL/MPSI.PLD and the registers beside them *)
(* that hold a word in each direction, which are outside the repository.   *)
(***************************************************************************)
EXTENDS Naturals

CONSTANT NoWord

VARIABLES
  ctl, data_av, ack, cfi, ssi,  \* CTL and the flip-flops
  ir,   \* the request word in the input registers
  out,  \* the word in the output register, or NoWord while it shifts
  ceo   \* CEO is held

pldVars == <<ctl, data_av, ack, cfi, ssi, ir, out>>

PldInit ==
  /\ ctl = 1 /\ data_av = FALSE /\ ir = NoWord
  /\ cfi = 0 /\ ssi = 0
  /\ ceo = FALSE

(* CEO rises for a selected device: its word is taken, unless a transfer   *)
(* is under way or one is there; a General device is busy; no interrupt.   *)
CeoRises(r) ==
  /\ data_av' = (data_av \/ ctl = 1)
  /\ ir' = IF ~data_av /\ ctl = 1 THEN r ELSE ir
  /\ ack' = IF r.dev # "tape" THEN 0 ELSE ack
  /\ ssi' = 0
  /\ UNCHANGED <<ctl, out>>

(* CTL falls: the request bit goes, and the word can be clocked out.       *)
CtlFalls ==
  /\ ctl' = 0 /\ data_av' = FALSE /\ ir' = NoWord /\ out' = NoWord
  /\ UNCHANGED <<ack, cfi, ssi>>

(* CTL rises: the flags load, but CEO holds the interrupt in reset, and    *)
(* CFI is held in reset without it.                                        *)
CtlRises(word) ==
  /\ ctl' = 1 /\ out' = word
  /\ ack' = IF "ACK" \in word.flags THEN 1 ELSE 0
  /\ cfi' = IF "CFI" \in word.flags /\ ceo THEN 1 ELSE 0
  /\ ssi' = IF "INT" \in word.flags /\ ~ceo THEN 1 ELSE 0
  /\ UNCHANGED <<data_av, ir>>

=============================================================================
