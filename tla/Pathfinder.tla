----------------------------- MODULE Pathfinder -----------------------------
(***************************************************************************)
(* The route planner (pathfinder.rs): A* over waypoint and fuel, then the  *)
(* travel actions of the path it found.  A* returns a path of least cost,  *)
(* see HeuristicIsAdmissible; among several of them the model may take     *)
(* any.  A ship whose tank holds 0 units, a probe, needs no fuel.          *)
(***************************************************************************)
EXTENDS Integers, Sequences, SequencesExt

CONSTANTS Waypoints,
          Distance,      \* of two waypoints; 0 for waypoints at the same place
          Stations,      \* the waypoints whose market trades fuel
          Tanks,         \* the fuel capacities of the ships
          Speed,         \* of their engines
          Plenty         \* more fuel than any route needs

ASSUME SystemAssumption ==
  /\ Distance \in [Waypoints \X Waypoints -> Nat]
  /\ \A a, b \in Waypoints : Distance[a, b] = Distance[b, a] /\ Distance[a, a] = 0
  /\ Stations \subseteq Waypoints
  /\ Tanks \subseteq 0..Plenty /\ Speed \in Nat \ {0} /\ Plenty \in Nat

AllowedFlightModes == <<"Burn", "Cruise", "Drift">>

RefuelTime == 2

AtLeastOne(d) == IF d = 0 THEN 1 ELSE d

\* calculate_fuel_consumption
FuelConsumption(mode, d) ==
  CASE mode = "Drift"  -> 1
    [] mode = "Cruise" -> AtLeastOne(d)
    [] mode = "Burn"   -> 2 * AtLeastOne(d)

\* calculate_time: the multipliers 12.5, 25 and 250 doubled, the quotient
\* rounded half up
TravelTime(mode, d) ==
  LET twice == [Burn |-> 25, Cruise |-> 50, Drift |-> 500]
  IN  (twice[mode] * AtLeastOne(d) + Speed) \div (2 * Speed) + 15

Navigate(to, mode, fuel) == [kind |-> "Navigate", to |-> to, mode |-> mode, fuel |-> fuel]
Refuel(at) == [kind |-> "Refuel", to |-> at, mode |-> "Cruise", fuel |-> 0]

-----------------------------------------------------------------------------

\* the fuel a ship leaves a waypoint with: it refuels at every station
AtDeparture(s, tank) == IF s.wp \in Stations THEN tank ELSE s.fuel

Needed(mode, d, tank) == IF tank = 0 THEN 0 ELSE FuelConsumption(mode, d)

\* a waypoint at the same place is worth a hop for its fuel or as the goal
Worthwhile(from, to, goal) ==
  /\ to # from
  /\ Distance[from, to] = 0 => \/ from \notin Stations /\ to \in Stations
                               \/ to = goal

\* Problem::successors
Successors(s, goal, tank) ==
  {[to   |-> [wp |-> w, fuel |-> AtDeparture(s, tank)
                                   - Needed(AllowedFlightModes[m], Distance[s.wp, w], tank)],
    mode |-> AllowedFlightModes[m],
    cost |-> TravelTime(AllowedFlightModes[m], Distance[s.wp, w])
               + IF s.wp \in Stations THEN RefuelTime ELSE 0] :
     <<w, m>> \in {x \in Waypoints \X (1..3) :
       /\ Worthwhile(s.wp, x[1], goal)
       /\ Needed(AllowedFlightModes[x[2]], Distance[s.wp, x[1]], tank) <= AtDeparture(s, tank)}}

Heuristic(wp, goal) == TravelTime("Burn", Distance[wp, goal])

States == [wp : Waypoints, fuel : 0..Plenty]

\* the estimate falls at no hop by more than the hop costs: A* stops with a path
\* of least cost
ASSUME HeuristicIsAdmissible ==
  \A goal \in Waypoints, tank \in Tanks, s \in States : \A n \in Successors(s, goal, tank) :
    Heuristic(s.wp, goal) <= n.cost + Heuristic(n.to.wp, goal)

Unreachable == 1000000

LeastCost(costs) == CHOOSE c \in costs : \A d \in costs : c <= d

RECURSIVE Relax(_, _, _), BestPaths(_, _, _)

\* the costs to the goal, improved hop by hop until nothing changes
Relax(cost, goal, tank) ==
  LET improved == [s \in States |->
        IF s.wp = goal THEN 0
        ELSE LeastCost({Unreachable} \cup
               {n.cost + cost[n.to] : n \in Successors(s, goal, tank)})]
  IN  IF improved = cost THEN cost ELSE Relax(improved, goal, tank)

CostToGoal ==
  [goal \in Waypoints, tank \in Tanks |->
     Relax([s \in States |-> IF s.wp = goal THEN 0 ELSE Unreachable], goal, tank)]

\* the paths of least cost from a state
BestPaths(s, goal, tank) ==
  LET cost == CostToGoal[goal, tank]
  IN  IF s.wp = goal THEN {<<s>>}
      ELSE UNION {{<<s>> \o path : path \in BestPaths(n.to, goal, tank)} :
             n \in {x \in Successors(s, goal, tank) :
                      x.cost + cost[x.to] = cost[s] /\ cost[s] < Unreachable}}

\* determine_travel_mode: the first mode that consumes as much
TravelMode(fuel, d) ==
  AllowedFlightModes[CHOOSE m \in 1..3 :
    /\ FuelConsumption(AllowedFlightModes[m], d) = fuel
    /\ \A k \in 1..(m - 1) : FuelConsumption(AllowedFlightModes[k], d) # fuel]

\* mutant of Leg: no refuelling where a hop ends
LegWithoutStop(path, i, tank) ==
  LET from == path[i]
      to   == path[i + 1]
      used == AtDeparture(from, tank) - to.fuel
  IN  <<Navigate(to.wp, IF tank = 0 THEN "Burn" ELSE TravelMode(used, Distance[from.wp, to.wp]), used)>>

\* compute_travel_actions, one hop of the path
Leg(path, i, tank) ==
  LET from == path[i]
      to   == path[i + 1]
      used == AtDeparture(from, tank) - to.fuel
      mode == IF tank = 0 THEN "Burn" ELSE TravelMode(used, Distance[from.wp, to.wp])
      refuels(wp) == wp \in Stations /\ tank > 0
  IN  (IF i = 1 /\ refuels(from.wp) THEN <<Refuel(from.wp)>> ELSE <<>>)
      \o <<Navigate(to.wp, mode, used)>>
      \o (IF refuels(to.wp) THEN <<Refuel(to.wp)>> ELSE <<>>)

TravelActions(path, tank) ==
  FlattenSeq([i \in 1..(Len(path) - 1) |-> Leg(path, i, tank)])

\* i32 as u32: a negative amount becomes more than any route needs
AsUnsigned(fuel) == IF fuel < 0 THEN Plenty ELSE fuel

\* compute_path: the travel actions it may answer with, none without a path
ComputePath(from, to, fuel, tank) ==
  {TravelActions(path, tank) : path \in BestPaths([wp |-> from, fuel |-> AsUnsigned(fuel)], to, tank)}
=============================================================================
