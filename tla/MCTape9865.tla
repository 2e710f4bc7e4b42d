------------------------------- MODULE MCTape9865 -------------------------------
(***************************************************************************)
(* TLC instance of Tape9865: a cassette of four cells with different       *)
(* bytes, and images of one and three others.  The lines typed use every   *)
(* drive command and a command on the buffer, some words shortened, one    *)
(* line wrong.                                                             *)
(***************************************************************************)
EXTENDS Tape9865, TLC

MCNumeral == ("2" :> 2) @@ ("-1" :> -1)
MCBlank   == [p \in 1 .. Cells |-> p]
MCImages  == {<<91>>, <<91, 92, 93>>}
MCLines   ==
  {<<"rim", "fast", "full", "2">>, <<"rimage">>, <<"wimage">>, <<"rew">>, <<"sta">>,
   <<"sto">>, <<"drive", "rrn">>, <<"dr", "wfn">>, <<"clean", "pad">>, <<"stop", "2">>}

=============================================================================
