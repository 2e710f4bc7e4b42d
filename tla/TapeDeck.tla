------------------------------- MODULE TapeDeck --------------------------------
(***************************************************************************)
(* A cassette drive as the tape controllers know it (software/tp9830/t98.h *)
(* and its users): a transport that keeps moving until it is told to stop. *)
(* The drive itself is outside the repository.                             *)
(*                                                                         *)
(* The head is over a cell, 1 to Cells, or over the leader at either end   *)
(* of the tape.  A rewind stops by itself where it enters the leader; the  *)
(* drive cannot tell the two leaders apart, so in the leader it pulls.     *)
(***************************************************************************)
EXTENDS Integers

CONSTANTS Cells

VARIABLES
  pos,      \* the cell under the head; 0 and Cells + 1 are leader
  motion,   \* "stop", "fwd" or "rev"
  present,  \* a cassette is in the drive
  writable  \* and may be written

deckVars == <<pos, motion, present, writable>>

DeckInit ==
  /\ pos \in {0, 1, Cells + 1}
  /\ motion = "stop"
  /\ present \in BOOLEAN /\ writable \in BOOLEAN /\ (writable => present)

Leader == pos \in {0, Cells + 1}

DeckStatus ==
  {flag \in {"LDR", "NOCASS", "NOWRITE"} :
     CASE flag = "LDR" -> Leader [] flag = "NOCASS" -> ~present [] OTHER -> ~writable}

(* A command of t98.h reaches the drive; its speed does not matter here.   *)
Commands == {"RFN", "RRH", "WFN", "STOP", "CONT"}
Moves(cmd) ==
  CASE cmd \in {"RFN", "RFH", "WFN"} -> "fwd" [] cmd \in {"RRN", "RRH"} -> "rev"
    [] cmd = "STOP" -> "stop" [] OTHER -> motion
Execute(cmd) == motion' = IF present THEN Moves(cmd) ELSE "stop"

(* The tape moves on by a cell.                                            *)
Passes ==
  \/ motion = "fwd" /\ pos <= Cells /\ pos' = pos + 1 /\ UNCHANGED motion
  \/ /\ motion = "rev" /\ pos > 0
     /\ pos' = pos - 1
     /\ motion' = IF pos = 1 THEN "stop" ELSE "rev"

=============================================================================
