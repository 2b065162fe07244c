----------------------------- MODULE MCTreasurer -----------------------------
(* Instances of Treasurer for TLC: two fleets with a ship each, or one. *)
EXTENDS Treasurer, TLC

CONSTANTS f1, f2, s1, s2, t1, t2

MCInitialFleet == (s1 :> f1) @@ (s2 :> f2)

MCOneShip == s1 :> f1
=============================================================================
