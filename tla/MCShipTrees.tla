---------------------------- MODULE MCShipTrees ----------------------------
(***************************************************************************)
(* A small system for TLC: A trades ore for fuel and exports it, B imports *)
(* it and has a shipyard, C has no market.  C is an asteroid, the siphoning*)
(* and the construction site and the customer of the contract.  A ship     *)
(* burns to B, refuels and burns on; C it leaves with what is left.        *)
(***************************************************************************)
EXTENDS ShipTrees

MCDistance ==
  [<<a, b>> \in Waypoints \X Waypoints |->
     CASE a = b                -> 0
       [] {a, b} = {"A", "B"} -> 3
       [] {a, b} = {"B", "C"} -> 2
       [] {a, b} = {"A", "C"} -> 5]

MCSupplies  == [w \in Waypoints |-> IF w = "A" THEN {"ore"} ELSE {}]
MCDemands   == [w \in Waypoints |-> IF w = "B" THEN {"ore", "junk"} ELSE {}]
MCVolume    == [g \in Goods |-> 2]
MCMaterials == [g \in Goods |-> IF g = "ore" THEN 2 ELSE 0]
MCDeliverTo == [g \in Goods |-> IF g = "ore" THEN "B" ELSE Nowhere]

\* no route a full tank can fly ends where the tank is too empty to go on
ASSUME ReserveAssumption ==
  \A from, goal, next \in Waypoints :
    \A path \in BestPaths([wp |-> from, fuel |-> 7], goal, 7) :
      CostToGoal[next, 7][path[Len(path)]] < Unreachable

Load(ore, junk) == [units |-> ore + junk, inv |-> [g \in Goods |-> IF g = "ore" THEN ore ELSE junk]]

Docked(wp, tank, hold, cargo) ==
  [wp |-> wp, status |-> "Docked", mode |-> "Cruise", flying |-> FALSE, hot |-> FALSE,
   fuel |-> tank, tank |-> tank, hold |-> hold, cargo |-> cargo]

Orbiting(wp, fuel, hold) ==
  [Docked(wp, 7, hold, EmptyCargo) EXCEPT !.status = "InOrbit", !.fuel = fuel]

Flying(wp, fuel) == [Orbiting(wp, fuel, 3) EXCEPT !.status = "InTransit", !.flying = TRUE]

OreOffer  == [required |-> [g \in Goods |-> IF g = "ore" THEN 3 ELSE 0], to |-> "C"]
\* nobody sells junk
JunkOffer == [required |-> [g \in Goods |-> IF g = "junk" THEN 2 ELSE 1], to |-> "C"]

\* two requests may fail, and each other kind of fault happens once
Task(kind, s, to, ts, kinds) ==
  [kind |-> kind, ship |-> s, to |-> to, tickets |-> ts,
   faults |-> [k \in FaultKinds |-> IF k \notin kinds THEN 0 ELSE IF k = "fails" THEN 2 ELSE 1],
   offers |-> {OreOffer}, explore |-> <<"C", "B">>, charted |-> {"A"}, surveyor |-> TRUE]

BuyAndSell == {Ticket("Purchase", "A", "ore", 2, 1), [Ticket("Sell", "B", "ore", 2, 2) EXCEPT !.after = 1]}
BuyAndSupply == {Ticket("Purchase", "A", "ore", 2, 1), [Ticket("Supply", "C", "ore", 2, 2) EXCEPT !.after = 1]}
BuyShip == {Ticket("Ship", "B", "ore", 0, 1)}

AtA(hold, cargo) == Docked("A", 7, hold, cargo)

Contractor == Task("contract", AtA(2, Load(0, 1)), "A", {}, {})

\* each kind of task with the faults it copes with, then with those it may not
MCTasks ==
  {Task("preposition", AtA(3, EmptyCargo), "C", {}, f) : f \in {{"fails"}, {"unread"}, {"lost"}, {"unsaved"}, {"crash"}}}
  \cup {Task("preposition", Orbiting("C", fuel, 3), "A", {}, {"fails", "unread"}) : fuel \in {0, 2}}
  \cup {Task("preposition", Flying("B", 1), "C", {}, {"fails"})}
  \cup {Task("explore", AtA(3, EmptyCargo), "A", BuyShip, f) : f \in {{"fails"}, {"crash"}, {"unsaved"}}}
  \cup {Task("observe", Docked("A", 0, 3, EmptyCargo), "B", BuyShip, f) : f \in {{}, {"fails"}}}
  \cup {Task("trade", Docked("B", 7, 2, EmptyCargo), "A", ts, f) :
          ts \in {BuyAndSell, BuyAndSupply}, f \in {{"fails"}, {"lost"}, {"crash"}, {"unsaved"}, {"unsaved", "crash"}}}
  \cup {[Contractor EXCEPT !.faults.fails = n] : n \in {0, 1}}
  \cup {[Contractor EXCEPT !.faults.poor = 1], [Contractor EXCEPT !.faults.unsaved = 1],
         [Contractor EXCEPT !.offers = {JunkOffer}]}
  \cup {Task("siphon", Orbiting("C", 4, 3), "C", {}, f) : f \in {{}, {"fails"}, {"unsaved"}}}
  \cup {Task("haul", AtA(3, EmptyCargo), "C", {}, f) : f \in {{}, {"fails"}}}
  \cup {Task("haul", AtA(3, Load(2, 1)), "C", {}, {})}
  \cup {Task("mine", Orbiting("C", 4, 3), "C", {}, f) : f \in {{}, {"critical"}, {"unsaved"}}}
  \cup {Task("mine", Docked("B", 7, 3, EmptyCargo), "C", {}, {}),
        Task("survey", Orbiting("C", 4, 3), "C", {}, {"fails"}),
        Task("survey", Orbiting("C", 4, 3), "C", {}, {"unsaved"})}
=============================================================================
