-------------------------- MODULE ConstructionPlan --------------------------
(***************************************************************************)
(* What the ships of the fleet that builds the jump gate are to do next    *)
(* (construction_fleet.rs, trading.rs): deliver construction materials,    *)
(* support the supply chain, or trade for profit.  All operators are pure; *)
(* where the code depends on the order of a HashMap, they return the set   *)
(* of the possible results.                                                *)
(*                                                                         *)
(* Left out: the cut to the 15 best opportunities, the scores of the       *)
(* supply chain, and the time before a supply chain is known.              *)
(***************************************************************************)
EXTENDS Cargo, SequencesExt

CONSTANTS Waypoints,
          Distance,     \* [Waypoints \X Waypoints -> Nat]
          Entries,      \* the trade goods of the markets, in the order of the database
          Boosts,       \* the supply chain routes of a positive score, best first
          NoGoGoods,    \* goods that must not be taken from the construction
          SiteAt,       \* where the construction site is
          LimitOf,      \* good -> capital from which its delivery is considered
          PerTrader,    \* budget_per_trader
          Nowhere       \* the origin of cargo that has no purchase ticket

Types == {"EXPORT", "IMPORT", "EXCHANGE"}

ASSUME PlanAssumption ==
  /\ Distance \in [Waypoints \X Waypoints -> Nat]
  /\ Entries \in Seq([at : Waypoints, good : Goods, type : Types, trade_volume : Nat \ {0},
                      purchase_price : Nat \ {0}, sell_price : Nat \ {0}])
  /\ Boosts \in Seq([from : Waypoints, to : Waypoints, good : Goods, source_volume : Nat \ {0},
                     volume : Nat \ {0}, price : Nat \ {0}, sell : Nat \ {0}, allowed : Nat])
  /\ \A i \in DOMAIN Boosts : Boosts[i].volume <= Boosts[i].source_volume
  /\ NoGoGoods \subseteq Goods /\ SiteAt \in Waypoints
  /\ LimitOf \in [Goods -> Nat] /\ PerTrader \in Nat /\ Nowhere \notin Waypoints

HigherOf(a, b) == IF a <= b THEN b ELSE a

Sources == {e \in Range(Entries) : e.type \in {"EXPORT", "EXCHANGE"}}
Sinks   == {e \in Range(Entries) : e.type \in {"IMPORT", "EXCHANGE"}}

-----------------------------------------------------------------------------
(* Trading for profit (trading.rs).  A trade names the ship it is meant for. *)

Opportunity(source, sink) ==
  [good |-> source.good, from |-> source.at, to |-> sink.at,
   volume |-> LowerOf(source.trade_volume, sink.trade_volume),
   price |-> source.purchase_price, sell |-> sink.sell_price]

\* find_trading_opportunities_sorted_by_profit_per_distance_unit
Opportunities ==
  {Opportunity(e[1], e[2]) : e \in {p \in Sources \X Sinks :
      /\ p[1].at # p[2].at /\ p[1].good = p[2].good /\ p[1].good \notin NoGoGoods
      /\ p[2].sell_price > p[1].purchase_price}}

BudgetOfShip(budget, ships) ==
  IF ships = {} THEN 0 ELSE HigherOf(budget, 0) \div Cardinality(ships)

UnitsOf(o, space, budget) == LowerOf(o.volume, LowerOf(budget \div o.price, space))

GainOf(o, units, at) ==
  ((o.sell - o.price) * units) \div
     HigherOf(1, Distance[at, o.from] + HigherOf(1, Distance[o.from, o.to]))

\* ships: records of the ship's name, position and space
Evaluated(o, ship, budget) ==
  LET units == UnitsOf(o, ship.space, budget) IN
  [kind |-> "Trade", ship |-> ship.name, good |-> o.good, from |-> o.from, to |-> o.to,
   units |-> units, price |-> o.price, sell |-> o.sell,
   costs |-> o.price * o.volume, gain |-> GainOf(o, units, ship.at)]

\* evaluate_trading_opportunities
EvaluatedTrades(ships, budget) ==
  {t \in {Evaluated(p[1], p[2], BudgetOfShip(budget, ships)) : p \in Opportunities \X ships} :
     t.units > 0}

RouteOf(t) == <<t.from, t.to, t.good>>

RoutesTaken(active, picks, earlier) == active \cup {RouteOf(picks[s]) : s \in earlier}

\* each ship in its turn has the best of its trades whose route is not taken
InTurns(picks, order, options, active) ==
  \A i \in DOMAIN order :
    LET taken == RoutesTaken(active, picks, {order[j] : j \in 1..(i - 1)})
        mine  == picks[order[i]]
    IN  /\ mine.ship = order[i] /\ RouteOf(mine) \notin taken
        /\ \A t \in options : (t.ship = order[i] /\ RouteOf(t) \notin taken) => t.gain <= mine.gain

GainOfAll(trades) == SumFunctionOnSet([t \in trades |-> t.gain], trades)

\* find_optimal_trading_routes_exhaustive: when one of the ships is left without
\* a route, each gets its best trade, whoever has it already
OptimalRoutes(options, active) ==
  LET ships  == {t.ship : t \in options}
      orders == SetToSeqs(ships)
      rounds == {Range(picks) : picks \in {p \in [ships -> options] :
                   \E order \in orders : InTurns(p, order, options, active)}}
      gained == {r \in rounds : GainOfAll(r) > 0}
      best(ship) == CHOOSE t \in options :
                      t.ship = ship /\ \A u \in options : u.ship = ship => u.gain <= t.gain
  IN  IF gained = {} THEN {{best(ship) : ship \in ships}}
      ELSE {r \in gained : \A q \in gained : GainOfAll(q) <= GainOfAll(r)}

-----------------------------------------------------------------------------
(* Deliveries to the construction site and support of the supply chain.    *)
(* `routes` are the routes of the deliveries under way, one per ticket.    *)

\* the exports of missing materials that are worth buying now: well stocked,
\* with enough capital left, and nobody delivers from there
MaterialSources(missing, stocked, available, routes) ==
  {i \in DOMAIN Entries :
     LET e == Entries[i] IN
     /\ e.type = "EXPORT" /\ missing[e.good] > 0 /\ e \in stocked
     /\ available > LimitOf[e.good]
     /\ \A r \in routes : r.from # e.at \/ r.good # e.good}

DeliveredUnits(e, missing) == LowerOf(e.trade_volume, missing[e.good])

Delivery(e, missing) ==
  [kind |-> "Deliver", good |-> e.good, from |-> e.at, to |-> SiteAt,
   units |-> DeliveredUnits(e, missing), price |-> e.purchase_price, sell |-> 0,
   costs |-> e.purchase_price * DeliveredUnits(e, missing)]

MaterialDeliveries(missing, stocked, available, routes) ==
  [i \in MaterialSources(missing, stocked, available, routes) |-> Delivery(Entries[i], missing)]

\* the supply chain routes that more ships may join
OpenBoosts(routes) ==
  {i \in DOMAIN Boosts :
     LET b == Boosts[i]
         ongoing == {r \in routes : r.from = b.from /\ r.to = b.to /\ r.good = b.good}
     IN  ongoing = {} \/ Cardinality(ongoing) < b.allowed}

Boost(b) ==
  [kind |-> "Boost", good |-> b.good, from |-> b.from, to |-> b.to,
   units |-> b.volume, price |-> b.price, sell |-> b.sell, costs |-> b.price * b.source_volume]

\* the first n of them
BoostedRoutes(routes, n) ==
  LET open == OpenBoosts(routes) IN
  [i \in {j \in open : Cardinality({l \in open : l <= j}) <= n} |-> Boost(Boosts[i])]

-----------------------------------------------------------------------------
(* find_best_combination.  The actions are a function of their places: the   *)
(* list they come from and the index in it.                                *)

Prioritized(lists) ==
  [p \in UNION {{n} \X DOMAIN lists[n] : n \in DOMAIN lists} |-> lists[p[1]][p[2]]]

Before(p, q) == p[1] < q[1] \/ (p[1] = q[1] /\ p[2] < q[2])

CostsOf(actions, places) == SumFunctionOnSet([p \in places |-> actions[p].costs], places)

\* select_actions_within_budget: the places of the actions selected (there is
\* one such set); what is too expensive after those before it is passed over
WithinBudget(actions, budget) ==
  {sel \in SUBSET DOMAIN actions : \A p \in DOMAIN actions :
     p \in sel <=> actions[p].costs + CostsOf(actions, {q \in sel : Before(q, p)}) <= budget}

\* mutant of GivenTo: the units are not cut to the space
GivenAsIs(a, ship) ==
  [kind |-> a.kind, ship |-> ship.name, good |-> a.good, from |-> a.from, to |-> a.to,
   units |-> a.units, price |-> a.price, sell |-> a.sell]

\* adjusted_for_cargo_space
GivenTo(a, ship) ==
  [kind |-> a.kind, ship |-> ship.name, good |-> a.good, from |-> a.from, to |-> a.to,
   units |-> LowerOf(a.units, ship.space), price |-> a.price, sell |-> a.sell]

Task(t) ==
  [kind |-> t.kind, ship |-> t.ship, good |-> t.good, from |-> t.from, to |-> t.to,
   units |-> t.units, price |-> t.price, sell |-> t.sell]

WayOf(a, ship) == Distance[ship.at, a.from] + Distance[a.from, a.to]

\* a choice of ships for the actions at these places, and the way they fly
Pairings(places, ships) == {c \in [places -> ships] : \A p, q \in places : c[p] = c[q] => p = q}

TotalWay(actions, c) ==
  SumFunctionOnSet([p \in DOMAIN c |-> WayOf(actions[p], c[p])], DOMAIN c)

\* best_total_distance starts at 0, and only a shorter way replaces it
ShorterPairings(actions, places, ships) ==
  {c \in Pairings(places, ships) : TotalWay(actions, c) < 0}

BestPairings(actions, places, ships) ==
  LET shorter == ShorterPairings(actions, places, ships)
      best == {c \in shorter : \A d \in shorter : TotalWay(actions, c) <= TotalWay(actions, d)}
  IN  IF best = {} THEN {{}}
      ELSE {{GivenTo(actions[p], c[p]) : p \in places} : c \in best}

\* with one ship, the first of the actions
ForOneShip(ships, actions, sel) ==
  {IF actions[p].kind = "Trade" THEN Task(actions[p]) ELSE GivenTo(actions[p], s) :
     s \in ships, p \in {q \in sel : \A r \in sel : ~Before(r, q)}}

\* with several, each trade has its ship already
ForManyShips(ships, actions, sel) ==
  LET trades == {actions[p] : p \in {q \in sel : actions[q].kind = "Trade"}}
      others == {p \in sel : actions[p].kind # "Trade"}
      idle   == {s \in ships : \A t \in trades : t.ship # s.name}
  IN  {{Task(t) : t \in trades} \cup given : given \in BestPairings(actions, others, idle)}

BestCombinations(ships, actions, budget) ==
  UNION {IF Cardinality(ships) = 1 THEN {ForOneShip(ships, actions, sel)}
         ELSE ForManyShips(ships, actions, sel) :
         sel \in WithinBudget(actions, budget)}

\* mutant of FleetActions: the trades come first
TradesFirst(ships, trades, missing, stocked, available, traders, routes) ==
  IF available < PerTrader * traders THEN {{Task(t) : t \in trades}}
  ELSE UNION {BestCombinations(ships,
                Prioritized(<<order, MaterialDeliveries(missing, stocked, available, routes)>>), available) :
              order \in SetToSeqs(trades)}

\* determine_construction_fleet_actions; low on cash, the fleet only trades
FleetActions(ships, trades, missing, stocked, available, traders, routes) ==
  IF available < PerTrader * traders THEN {{Task(t) : t \in trades}}
  ELSE UNION {BestCombinations(ships,
                Prioritized(<<MaterialDeliveries(missing, stocked, available, routes),
                              BoostedRoutes(routes, Cardinality(ships)), order>>), available) :
              order \in SetToSeqs(trades)}

\* what is left to a fleet of at most two ships: create_trading_tickets
OnlyTrades(trades) == {Task(t) : t \in trades}

\* the new tasks of the ships that have neither tickets nor cargo; `fleet` are
\* all ships, `traders` those with a hold
Plans(ships, fleet, traders, missing, stocked, available, routes) ==
  LET active == {RouteOf(r) : r \in routes} IN
  UNION {IF Cardinality(fleet) > 2
         THEN FleetActions(ships, trades, missing, stocked, available, Cardinality(traders), routes)
         ELSE {OnlyTrades(trades)} :
         trades \in OptimalRoutes(EvaluatedTrades(ships, available), active)}

-----------------------------------------------------------------------------
(* Cargo that is on board without a ticket *)

WorthOf(e, at) == [price |-> e.purchase_price, way |-> HigherOf(1, Distance[at, e.at])]

\* find_best_selling_location_for_inventory_entry.  It compares what the market
\* asks for the good, not what it pays.
SellingEntry(good, at) ==
  LET buyers == {e \in Sinks : e.good = good} IN
  CHOOSE e \in buyers : \A f \in buyers :
    WorthOf(f, at).price * WorthOf(e, at).way <= WorthOf(e, at).price * WorthOf(f, at).way

IsSold(good) == \E e \in Sinks : e.good = good
=============================================================================
