--------------------------- MODULE ContractTickets ---------------------------
(***************************************************************************)
(* The tickets that turn a contract and the cargo of a ship into trades    *)
(* (contract_manager.rs) and the choice of the closest waypoint.  A        *)
(* contract delivers to one waypoint.                                      *)
(* Prices are left out: of the markets that supply a good, the model takes *)
(* any.                                                                    *)
(***************************************************************************)
EXTENDS Cargo, Pathfinder

CONSTANTS Supplies,   \* waypoint -> goods its market exports or exchanges
          Demands,    \* waypoint -> goods its market imports or exchanges
          Volume      \* good -> trade volume, at every market

ASSUME MarketAssumption ==
  /\ Supplies \in [Waypoints -> SUBSET Goods] /\ Demands \in [Waypoints -> SUBSET Goods]
  /\ Volume \in [Goods -> Nat \ {0}]

\* get_closest_waypoint: any of the closest
Closest(from, waypoints) ==
  {w \in waypoints : \A v \in waypoints : Distance[from, w] <= Distance[from, v]}

-----------------------------------------------------------------------------
(* A contract: what it requires and what has been delivered, by good *)

Open(contract, g) == contract.required[g] - contract.delivered[g]

\* the goods of the cargo with an entry in the contract, even one that is
\* already complete
Usable(cargo, contract) ==
  [g \in {h \in InCargo(cargo) : contract.required[h] > 0} |->
     LowerOf(Open(contract, g), cargo.inv[g])]

Excess(cargo, contract) ==
  LET usable == Usable(cargo, contract)
      spare(g) == cargo.inv[g] - (IF g \in DOMAIN usable THEN usable[g] ELSE 0)
  IN  [g \in {h \in InCargo(cargo) : spare(h) > 0} |-> spare(g)]

StillOpen(cargo, contract) ==
  LET usable == Usable(cargo, contract)
      missing(g) == Open(contract, g) - (IF g \in DOMAIN usable THEN usable[g] ELSE 0)
  IN  [g \in {h \in Goods : missing(h) > 0} |-> missing(g)]

\* a ticket of the treasurer; number tells tickets of the same content apart
Ticket(kind, wp, good, units, number) ==
  [kind |-> kind, wp |-> wp, good |-> good, units |-> units, number |-> number, after |-> 0]

\* one ticket per batch
InBatches(kind, wp, good, units, volume) ==
  LET batches == Batches(units, volume)
  IN  {Ticket(kind, wp, good, batches[i], i) : i \in 1..Len(batches)}

\* calculate_necessary_tickets_for_contract
ContractTickets(cargo, capacity, contract, supplier, customer) ==
  LET open   == StillOpen(cargo, contract)
      usable == Usable(cargo, contract)
      excess == Excess(cargo, contract)
      size(g) == LowerOf(Volume[g], capacity)
  IN  UNION {InBatches("Purchase", supplier[g], g, open[g], size(g))
               \cup InBatches("Deliver", contract.to, g, open[g], size(g)) : g \in DOMAIN open}
      \cup {Ticket("Deliver", contract.to, g, usable[g], 0) : g \in DOMAIN usable}
      \cup UNION {InBatches("Sell", customer[g], g, excess[g], Volume[g]) :
                    g \in {h \in DOMAIN excess : customer[h] \in Waypoints}}

\* the markets with the lowest purchase price, any of the suppliers here; none
\* supplies a good: an error
Suppliers(cargo, contract) ==
  {s \in [DOMAIN StillOpen(cargo, contract) -> Waypoints] :
     \A g \in DOMAIN s : g \in Supplies[s[g]]}

\* the closest market that demands a good; without one the excess is kept
Customers(from, nowhere) ==
  {c \in [Goods -> Waypoints \cup {nowhere}] :
     \A g \in Goods : LET markets == {w \in Waypoints : g \in Demands[w]}
                      IN  IF markets = {} THEN c[g] = nowhere ELSE c[g] \in Closest(from, markets)}
=============================================================================
