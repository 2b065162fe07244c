------------------------------ MODULE FleetPlan ------------------------------
(***************************************************************************)
(* What the admiral of fleet.rs computes from facts alone: the phase of the *)
(* game, the fleets a phase asks for, its shopping list, the ships that are *)
(* still to be bought, and which ship goes to which fleet.                  *)
(*                                                                         *)
(* A fleet is named by the task it was created for: a fleet has one task,   *)
(* and no two fleets that exist have the same.                              *)
(***************************************************************************)
EXTENDS Naturals, Sequences, SequencesExt, FiniteSets, FiniteSetsExt

CONSTANTS Ships,        \* the ships the agent may come to own
          ShipTypeOf,   \* get_ship_type_of_ship
          NoFleet,
          NumShipyards, \* shipyards of the system
          NumMarkets    \* marketplaces that are not shipyards

ShipTypes == {"frigate", "probe", "hauler", "mining_drone", "siphon_drone", "surveyor"}

FleetTasks == {"InitialExploration", "ObserveAllWaypoints", "ConstructJumpGate",
               "MineOres", "SiphonGases", "TradeProfitably"}

Phases == {"InitialExploration", "ConstructJumpGate", "TradeProfitably"}

ASSUME PlanAssumption == /\ IsFiniteSet(Ships)
                         /\ ShipTypeOf \in [Ships -> ShipTypes]
                         /\ NoFleet \notin FleetTasks
                         /\ NumShipyards \in Nat /\ NumMarkets \in Nat

OfType(ships, type) == {s \in ships : ShipTypeOf[s] = type}

Repeat(type, n) == [i \in 1..n |-> type]

For(types, task) == [i \in DOMAIN types |-> [type |-> types[i], for |-> task]]

-----------------------------------------------------------------------------
(* compute_fleet_phase_with_tasks and the three phases.                      *)

PhaseOf(explored, gate_built, completed) ==
    IF ~explored /\ "InitialExploration" \notin completed THEN "InitialExploration"
    ELSE IF ~gate_built /\ "ConstructJumpGate" \notin completed THEN "ConstructJumpGate"
    ELSE "TradeProfitably"

\* the tasks of a phase, in the order in which its fleets are created
PhaseTasks(phase) ==
    CASE phase = "InitialExploration" -> <<"InitialExploration", "ObserveAllWaypoints">>
      [] phase = "ConstructJumpGate"  -> <<"ConstructJumpGate", "ObserveAllWaypoints",
                                           "MineOres", "SiphonGases">>
      [] phase = "TradeProfitably"    -> <<"TradeProfitably", "ObserveAllWaypoints">>

MiningSquad == <<"mining_drone", "hauler", "surveyor", "mining_drone", "mining_drone">>

\* shopping_list_in_order.  The haulers of the last phase are listed for the
\* observation fleet.
ShoppingList(phase) ==
    CASE phase = "InitialExploration" ->
           For(<<"frigate">>, "InitialExploration")
           \o For(Repeat("probe", NumShipyards), "ObserveAllWaypoints")
      [] phase = "ConstructJumpGate" ->
           For(Repeat("probe", NumShipyards + NumMarkets), "ObserveAllWaypoints")
           \o For(<<"frigate">> \o Repeat("hauler", 3), "ConstructJumpGate")
           \o For(MiningSquad, "MineOres")
           \o For(Repeat("siphon_drone", 3), "SiphonGases")
           \o For(MiningSquad, "MineOres")
      [] phase = "TradeProfitably" ->
           For(Repeat("hauler", 4) \o Repeat("probe", NumShipyards + NumMarkets),
               "ObserveAllWaypoints")

-----------------------------------------------------------------------------
(* get_all_next_ship_purchases walks down the shopping list and takes a      *)
(* ship of the agent off for every entry it can.                            *)

Walk(acc, item) ==
    IF acc.left[item.type] = 0
    THEN [acc EXCEPT !.missing = Append(@, item)]
    ELSE [acc EXCEPT !.left[item.type] = @ - 1]

NextShipPurchases(ships, phase) ==
    FoldLeft(Walk,
             [left |-> [t \in ShipTypes |-> Cardinality(OfType(ships, t))], missing |-> <<>>],
             ShoppingList(phase)).missing

-----------------------------------------------------------------------------
(* assign_ships.  Every fleet picks its ships from all ships of the agent.   *)

Wanted(list, task) ==
    LET mine == SelectSeq(list, LAMBDA item : item.for = task)
    IN  [i \in DOMAIN mine |-> mine[i].type]

CountIn(types, n, type) == Cardinality({i \in 1..n : types[i] = type})

\* assign_matching_ships takes one ship for each wanted type, whichever the map
\* yields, and stops at the first type of which none is left.
MatchingShips(types, ships) ==
    LET Found(n) == \A t \in ShipTypes : CountIn(types, n, t) <= Cardinality(OfType(ships, t))
        stop == Max({n \in 0..Len(types) : Found(n)})
    IN  {chosen \in SUBSET ships :
            \A t \in ShipTypes : Cardinality(OfType(chosen, t)) = CountIn(types, stop, t)}

\* Every fleet picks from a clone of the same map.  A clone yields the ships in
\* the same order, so that of two fleets that pick ships of a type one picks all
\* that the other picks.
Picks(fleets, ships, list) ==
    LET SameOrder(a, b) == \A t \in ShipTypes : \/ OfType(a, t) \subseteq OfType(b, t)
                                               \/ OfType(b, t) \subseteq OfType(a, t)
        AndPick(picks, fleet) ==
            UNION {{Append(p, m) : m \in {m \in MatchingShips(Wanted(list, fleet), ships) :
                                            \A i \in DOMAIN p : SameOrder(p[i], m)}} : p \in picks}
    IN  FoldLeft(AndPick, {<<>>}, fleets)

\* mutant of ShipAssignments: the last fleet is left out
ButLastAssignments(fleets, ships, list) ==
    LET Pickers(p, s) == {i \in 1..(Len(fleets) - 1) : s \in p[i]}
    IN  {[s \in Ships |-> IF Pickers(p, s) = {} THEN NoFleet ELSE fleets[Max(Pickers(p, s))]] :
            p \in Picks(fleets, ships, list)}

\* The maps that assign_ships may return for fleets in this order: a ship that
\* several fleets pick goes to the last of them.
ShipAssignments(fleets, ships, list) ==
    LET Pickers(p, s) == {i \in DOMAIN fleets : s \in ships /\ s \in p[i]}
    IN  {[s \in Ships |-> IF Pickers(p, s) = {} THEN NoFleet ELSE fleets[Max(Pickers(p, s))]] :
            p \in Picks(fleets, ships, list)}
=============================================================================
