---------------------------- MODULE MCFleetGrowth ----------------------------
(* An instance of FleetGrowth for TLC: the agent starts with the command ship C *)
(* and a probe; it can buy every probe of its lists and one hauler more than    *)
(* the construction fleet asks for.  Ships of a type are interchangeable.       *)
EXTENDS FleetGrowth

CONSTANTS C, P1, P2, H1, H2, H3, H4, D1, D2, S1
MCShips == {C, P1, P2, H1, H2, H3, H4, D1, D2, S1}
MCShipTypeOf == [s \in MCShips |-> CASE s = C -> "frigate"
                                    [] s \in {P1, P2} -> "probe"
                                    [] s \in {H1, H2, H3, H4} -> "hauler"
                                    [] s \in {D1, D2} -> "mining_drone"
                                    [] s = S1 -> "surveyor"]
MCOwned == {C, P1}
MCSymmetry == Permutations({H1, H2, H3, H4}) \cup Permutations({D1, D2})
=============================================================================
