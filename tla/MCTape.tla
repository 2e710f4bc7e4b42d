-------------------------------- MODULE MCTape -------------------------------
(***************************************************************************)
(* TLC instance of Tape.  Two cells per poll and blank cassettes of none,  *)
(* one and three cells that fit the position (writes make every content of *)
(* them), and of four and five cells that do not: so a search takes up to  *)
(* two polls on a cassette without cache misses.  Two byte values: the BOF *)
(* byte and another.                                                       *)
(***************************************************************************)
EXTENDS Tape

MCBudget   == 2
MCMaxI32   == 3
MCBytes    == {0, 60}
MCBOF      == 60

Blank(n) == [cells |-> n,
             tape  |-> [p \in 0 .. n - 1 |-> [control |-> FALSE, byte |-> 0]]]
MCImages == {Blank(n) : n \in {0, 1, 3, 4, 5}}

=============================================================================
