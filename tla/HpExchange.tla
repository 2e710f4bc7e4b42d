------------------------------ MODULE HpExchange -----------------------------
(***************************************************************************)
(* What the rev2 interface promises the HP (BUS-002, BUS-003 and BUS-007   *)
(* of requirements/03_interface.md), without its registers and clocks: an  *)
(* operation of the HP reaches the service once and as it was asked, and   *)
(* it ends after that, with the byte the service answers that word with.   *)
(***************************************************************************)

CONSTANTS
  None,
  Serve(_),     \* the byte a request word is answered with
  IsInput(_)    \* whether the HP takes that byte

VARIABLES
  asked,   \* the word of the HP's operation, or None
  served,  \* that word once the service has taken it, or None
  taken    \* the last byte the HP took, or None

vars == <<asked, served, taken>>

Init == asked = None /\ served = None /\ taken = None

Ask ==
  /\ asked = None
  /\ asked' # None
  /\ UNCHANGED <<served, taken>>

Take ==
  /\ asked # None
  /\ served = None
  /\ served' = asked
  /\ UNCHANGED <<asked, taken>>

Finish ==
  /\ asked # None
  /\ served = asked
  /\ asked' = None
  /\ served' = None
  /\ taken' = IF IsInput(asked) THEN Serve(asked) ELSE taken

Next == Ask \/ Take \/ Finish

Spec == Init /\ [][Next]_vars

=============================================================================
