---------------------------- MODULE CardOwnership ----------------------------
(***************************************************************************)
(* What the rev2 storage component promises about the SD card (FW-005 to   *)
(* FW-008 of requirements/04_firmware.md), without its steps: the card has *)
(* at most one owner, it changes hands only through having none, the HP is *)
(* served only from a card the local file system owns and whose data was   *)
(* staged since the USB host last wrote, and a card is let go of only when *)
(* everything the HP wrote has reached it.                                 *)
(***************************************************************************)

VARIABLES
  owner,    \* who may touch the card: "none", "local" (FAT) or "host" (USB)
  serving,  \* the HP link is enabled
  unsaved,  \* bytes the HP wrote are not on the card yet
  staged    \* what the HP would be served is what the card holds

vars == <<owner, serving, unsaved, staged>>

Init ==
  /\ owner = "none"
  /\ serving = FALSE
  /\ unsaved = FALSE
  /\ staged = FALSE

(* The file system takes a card nobody owns.                               *)
Claim ==
  /\ owner = "none"
  /\ owner' = "local"
  /\ UNCHANGED <<serving, unsaved, staged>>

(* The USB host is given a card nobody owns and that is complete.          *)
Offer ==
  /\ owner = "none"
  /\ ~unsaved
  /\ owner' = "host"
  /\ UNCHANGED <<serving, unsaved, staged>>

(* The owner gives the card up: the file system only with the HP off the   *)
(* line and nothing left to write.                                         *)
Release ==
  /\ owner # "none"
  /\ owner = "local" => ~serving /\ ~unsaved
  /\ owner' = "none"
  /\ UNCHANGED <<serving, unsaved, staged>>

Stage ==
  /\ owner = "local"
  /\ ~serving
  /\ staged' = TRUE
  /\ UNCHANGED <<owner, serving, unsaved>>

Serve ==
  /\ owner = "local"
  /\ staged
  /\ serving' = TRUE
  /\ UNCHANGED <<owner, unsaved, staged>>

Withdraw ==
  /\ serving' = FALSE
  /\ UNCHANGED <<owner, unsaved, staged>>

(* The HP appends a byte to a capture file.                                *)
Capture ==
  /\ serving
  /\ unsaved' = TRUE
  /\ UNCHANGED <<owner, serving, staged>>

Save ==
  /\ owner = "local"
  /\ ~serving
  /\ unsaved' = FALSE
  /\ UNCHANGED <<owner, serving, staged>>

HostWrite ==
  /\ owner = "host"
  /\ staged' = FALSE
  /\ UNCHANGED <<owner, serving, unsaved>>

(* Power is lost: RAM, and with it everything unsaved, is gone.            *)
PowerLoss ==
  /\ owner' = "none"
  /\ serving' = FALSE
  /\ unsaved' = FALSE
  /\ staged' = FALSE

Next ==
  \/ Claim \/ Offer \/ Release
  \/ Stage \/ Serve \/ Withdraw
  \/ Capture \/ Save \/ HostWrite
  \/ PowerLoss

Spec == Init /\ [][Next]_vars

=============================================================================
