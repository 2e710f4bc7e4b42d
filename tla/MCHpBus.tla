-------------------------------- MODULE MCHpBus ------------------------------
(***************************************************************************)
(* TLC instance of HpBus.  The server with a printer, a controller with    *)
(* GP5 only (0101 becomes the internal cassette's 1010 as it shifts) and a *)
(* configuration that is not valid; an output and an input word, which at  *)
(* the tape's select code are a read and a read of a control cell.         *)
(***************************************************************************)
EXTENDS HpBus

Config(gp, tp, printer, irq) ==
  [gp_address |-> gp, tp_address |-> tp, printer_enabled |-> printer, irq_selector |-> irq]

MCConfigs == {Config(8, 9, TRUE, 3), Config(5, 0, FALSE, 2), Config(9, 9, FALSE, 3)}
MCCodes == {5, 8, 9, 10, 15}

(* 0x058 and 0x800, as in the bench.                                       *)
Low(n) == [i \in 0 .. 11 |-> (n \div 2 ^ i) % 2]
MCWords == {Low(88), Low(2048)}

(* The answer tells the request words apart.                               *)
MCServe(request) == [i \in 0 .. 7 |-> IF i < 2 THEN 1 ELSE 1 - request[i + 4]]
MCHold == 5

(* For the impatient HP: one configuration, the two ports of the server.   *)
MCFreeConfigs == {Config(8, 9, FALSE, 3)}
MCFreeCodes == {8, 9}
MCFreeServe(request) == Zeros(8)

=============================================================================
