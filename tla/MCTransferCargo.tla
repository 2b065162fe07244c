-------------------------- MODULE MCTransferCargo --------------------------
(* Ships, goods and capacities for TLC. *)
EXTENDS TransferCargo, TLC

CONSTANTS a, b, w, m1, m2, h1, h2

\* empty, or one unit of two goods
MCStartCargos == {EmptyCargo, [units |-> 2, inv |-> [g \in Goods |-> IF g \in {a, b} THEN 1 ELSE 0]]}

\* one of each with a fault, two miners, two haulers
MCSites == {[ships |-> {m1, h1}, faults |-> 1],
            [ships |-> {m1, m2, h1}, faults |-> 0],
            [ships |-> {m1, h1, h2}, faults |-> 0]}
=============================================================================
