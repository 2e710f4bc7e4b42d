-------------------------------- MODULE MCRelay --------------------------------
(***************************************************************************)
(* TLC instance of Relay: a tape of six cells, bytes 0 and 1, a buffer of  *)
(* two bytes.  The images have odd segments around a BOF, are two BOFs     *)
(* with nothing between, or are too long for the relay's buffer; what is   *)
(* read while a directive shifts is no directive, a stop or a stray byte.  *)
(***************************************************************************)
EXTENDS Relay

MCImages  == {<<1, 2, 1>>, <<2, 2>>, <<1, 1, 1>>}
MCGarbled == {Nothing, Cmd("STOP"), Push(1)}

=============================================================================
