------------------------------ MODULE MCStorage ------------------------------
(***************************************************************************)
(* TLC instance of Storage.  32-bit counts are cut to two bits: block      *)
(* counts 0 to 3 and every lba and block count a host can send, so that    *)
(* lba + blocks goes past both the card and the word.                      *)
(***************************************************************************)
EXTENDS Storage

MCMaxU32 == 3

=============================================================================
