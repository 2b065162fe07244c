---------------------------- MODULE MCFleetRunner ----------------------------
(* Instances of FleetRunner for TLC: the command ship C, a probe P and a       *)
(* mining drone D to be bought.                                               *)
EXTENDS FleetRunner

CONSTANTS C, P, D

MCShipTypeOf == [s \in Ships |-> IF s = C THEN "frigate" ELSE IF s = P THEN "probe" ELSE "mining_drone"]
=============================================================================
