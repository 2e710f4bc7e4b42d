----------------------------- MODULE MCFirmware ------------------------------
(***************************************************************************)
(* TLC instance of Firmware.  The card has no or one block, the cassette   *)
(* one cell, a poll one, so that a search to the end of the tape takes     *)
(* several turns of the main loop.                                         *)
(***************************************************************************)
EXTENDS Firmware

MCMaxU32 == 1
MCBudget == 1
MCMaxI32 == 2
MCBytes  == {0}
MCBOF    == 60

Blank(n)     == [cells |-> n,
                 tape  |-> [p \in 0 .. n - 1 |-> [control |-> FALSE, byte |-> 0]]]
MCImages     == {Blank(1)}

=============================================================================
