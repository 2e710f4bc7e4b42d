---------------------------- MODULE MCLegacyServer -----------------------------
(***************************************************************************)
(* TLC instance of LegacyServer: no image, an empty one that the HP's      *)
(* writes fill in every way, and a protected one of two cells; a paper     *)
(* tape of one byte.  Left out of what the HP asks are bits that nothing   *)
(* looks at, the second codes of a forward read and a continuation, and    *)
(* the printing that goes by way of the paper tape's select code.          *)
(***************************************************************************)
EXTENDS LegacyServer

MCBytes    == {0, 60}
MCBOF      == 60
MCMaxCells == 2
MCCassettes ==
  {[file |-> None, permit |-> FALSE],
   [file |-> <<>>, permit |-> TRUE],
   [file |-> <<[control |-> TRUE, byte |-> 60], [control |-> FALSE, byte |-> 60]>>,
    permit |-> FALSE]}

MCAsks ==
  {r \in Requests :
     /\ r.code \notin {1, 6}
     /\ r.byte # 0 => r.code = 4
     /\ r.dev # "tape" => r.so3 = (r.dev = "gp")
     /\ r.code \in {5, 7} => ~r.so3}
MCPapers   == {<<60>>}

=============================================================================
