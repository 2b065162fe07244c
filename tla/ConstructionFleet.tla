-------------------------- MODULE ConstructionFleet --------------------------
(***************************************************************************)
(* The fleet that builds the jump gate at work: the tickets that            *)
(* compute_ship_tasks of fleet.rs creates for its idle ships from           *)
(* ConstructionPlan, their execution (actions.rs), and what the server and  *)
(* the database know of the cargo and of the construction site.             *)
(*                                                                          *)
(* The handler of the admiral is one step: it holds the lock of the admiral *)
(* and the ships do not create tickets.  A purchase or a sale with its      *)
(* report is one step, too (ShipTrees has its parts); a supply is three, as *)
(* the site is stored last.                                                 *)
(*                                                                          *)
(* Left out: the contracts of the command ship, money from the treasury but *)
(* for whether it pays the fuel, what a new ship costs (Treasurer), changes *)
(* of the prices.                                                           *)
(***************************************************************************)
EXTENDS ConstructionPlan

CONSTANTS Ships,         \* the ships of the fleet and those that may join it
          InitialFleet,
          Capacity,      \* ship -> units its hold takes
          Home,          \* where the ships are at first
          Leftovers,     \* ship -> the cargos it may come with
          Required,      \* good -> units the construction site requires
          Capital,       \* of the fleet at first, above its operating reserve
          Budget,        \* above the reserve, too; a surplus goes to the treasury
          StockLevels,   \* which exports may be worth buying at the same time
          MaxFaults      \* bound on crashes and credits for fuel together

MaterialExports == {e \in Range(Entries) : e.type = "EXPORT" /\ Required[e.good] > 0}

ASSUME FleetAssumption ==
  /\ IsFiniteSet(Ships) /\ IsFiniteSet(Goods) /\ InitialFleet \subseteq Ships /\ Capacity \in [Ships -> Nat \ {0}] /\ Home \in Waypoints
  /\ Leftovers \in [Ships -> SUBSET Cargos]
  /\ \A s \in Ships : \A c \in Leftovers[s] :
       c.units <= Capacity[s] /\ c.units = SumFunctionOnSet(c.inv, Goods)
  /\ Required \in [Goods -> Nat] /\ StockLevels \subseteq SUBSET MaterialExports
  /\ Capital \in Nat /\ Budget \in Nat /\ MaxFaults \in Nat

VARIABLES fleet,    \* the ships of the fleet
          task,     \* ship -> what it does: see below
          at,       \* ship -> its position
          hold,     \* ship -> its cargo
          stored,   \* ship -> its cargo as the database has it
          tickets,  \* the active tickets
          capital,  \* of the fleet, above its operating reserve
          missing,  \* good -> units the construction site still needs
          known,    \* the same, as the database has it
          answer,   \* ship -> the same, as the answer to its last supply says
          stocked,  \* the exports of materials that are worth buying
          crashes,
          fuel,     \* history: what the fleet has paid for fuel
          misled,   \* history: see ComputeShipTasks
          outdated  \* history: the ships whose cargo the database had wrong
                    \* when their tickets were made

\* task: "trading" and, while a supply is reported, "supplied" and "reported";
\* "idle" without a task, "stranded" if the tables still have one for the ship

vars == <<fleet, task, at, hold, stored, tickets, capital, missing, known, answer, stocked, crashes, fuel,
          misled, outdated>>

TicketsOf(s) == {k \in tickets : k.ship = s}

Purchases == {k \in tickets : k.kind = "Purchase"}

Cost(k) == k.price * k.units

ReservedBy(purchases) == SumFunctionOnSet([k \in purchases |-> Cost(k)], purchases)

\* mutant of Available: the reservations are not looked at
AllCapital == capital

Available == capital - ReservedBy(Purchases)

\* get_active_trade_routes: deliveries that know their purchase ticket
Routes == {[from |-> k.from, to |-> k.at, good |-> k.good, ship |-> k.ship] :
             k \in {d \in tickets : d.kind # "Purchase" /\ d.from # Nowhere}}

Ticket(s, kind, good, wp, units, price, from, nr) ==
  [ship |-> s, kind |-> kind, good |-> good, at |-> wp, units |-> units,
   price |-> price, from |-> from, nr |-> nr]

-----------------------------------------------------------------------------
(* compute_ship_tasks *)

PurchaseOf(a) == Ticket(a.ship, "Purchase", a.good, a.from, a.units, a.price, Nowhere, 0)

DeliveryOf(a) ==
  Ticket(a.ship, IF a.kind = "Deliver" THEN "Supply" ELSE "Sell", a.good, a.to, a.units, a.sell, a.from, 0)

\* mutant of LeftoverTickets: all that is missing is to be delivered
LeftoverAsMissing(s, good) ==
  IF known[good] = 0 THEN {} ELSE {Ticket(s, "Supply", good, SiteAt, known[good], 0, Nowhere, 0)}

\* create_delivery_tasks_for_ship_with_cargo, for one good
LeftoverTickets(s, good) ==
  LET units == stored[s].inv[good]
      entry == SellingEntry(good, at[s])
      batches == Batches(units, entry.trade_volume)
  IN  IF known[good] > 0
      THEN {Ticket(s, "Supply", good, SiteAt, LowerOf(known[good], units), 0, Nowhere, 0)}
      ELSE IF ~IsSold(good) THEN {}
      ELSE {Ticket(s, "Sell", good, entry.at, batches[i], entry.sell_price, Nowhere, i) :
              i \in DOMAIN batches}

IdleOf(members, tasks) == {s \in members : tasks[s] \in {"idle", "stranded"}}

Idle == IdleOf(fleet, task)

\* what the plan looks at in a ship
Facts(s) == [name |-> s, at |-> at[s], space |-> SpaceLeft(stored[s], Capacity[s])]

ReadyPlans(free, members) ==
  Plans({Facts(s) : s \in free}, members, members, known, stocked, Available, Routes)

\* Ships with tickets go on with them, ships with cargo get rid of it, and the
\* others are planned for.
Waiting(idle) == {s \in idle : TicketsOf(s) # {}}

Loaded(idle) == {s \in idle \ Waiting(idle) : stored[s].units > 0}

FreeOf(idle) == idle \ (Waiting(idle) \cup Loaded(idle))

WithTickets(idle, plan) ==
  tickets \cup (UNION {UNION {LeftoverTickets(s, g) : g \in InCargo(stored[s])} : s \in Loaded(idle)})
          \cup {PurchaseOf(a) : a \in plan} \cup {DeliveryOf(a) : a \in plan}

Tasked(idle, plan) == Waiting(idle) \cup Loaded(idle) \cup {a.ship : a \in plan}

\* assign_ship_tasks, for the ships that the caller passes on
WithTasks(tasks, assigned) == [s \in Ships |-> IF s \in assigned THEN "trading" ELSE tasks[s]]

\* the tasks found, as far as the caller asks for them
PassedOn(tasked, callers) == tasked \cap callers

\* The admiral is misled by a site that is out of date, and by cargo that goes
\* to the site without being one of the routes under way, until all of that is
\* delivered.
ComputeShipTasks(members, tasks, callers) ==
  LET idle == IdleOf(members, tasks) IN
  /\ \E plan \in ReadyPlans(FreeOf(idle), members) :
       /\ tickets' = WithTickets(idle, plan)
       /\ task' = WithTasks(tasks, PassedOn(Tasked(idle, plan), callers))
  /\ misled' = \/ misled /\ \E k \in tickets : k.kind = "Supply"
               \/ known # missing
               \/ \E k \in tickets' : k.kind = "Supply" /\ k.from = Nowhere
  /\ outdated' = {s \in Ships : stored[s] # hold[s] /\ tasks[s] # "supplied"}
                   \cup {s \in outdated : TicketsOf(s) # {}}

Finished(s) == [task EXCEPT ![s] = "stranded"]

\* A ship has done what its tickets ask for.  Tickets are created for all ships
\* without a task, but only this one is given its task; it stays without one
\* when none is found.
FinishTrade(s) ==
  /\ task[s] = "trading" /\ TicketsOf(s) = {}
  /\ ComputeShipTasks(fleet, Finished(s), {s})
  /\ UNCHANGED <<fleet, at, hold, stored, capital, missing, known, answer, stocked, crashes, fuel>>

\* the program starts, the explorers' fleet is dismantled, or a ship is bought
\* for another fleet
Recompute ==
  /\ Idle # {}
  /\ ComputeShipTasks(fleet, task, Ships)
  /\ UNCHANGED <<fleet, at, hold, stored, capital, missing, known, answer, stocked, crashes, fuel>>

\* a ship is bought for the fleet, once that is at work
JoinFleet(s) ==
  /\ s \notin fleet /\ \E t \in fleet : task[t] # "idle"
  /\ fleet' = fleet \cup {s}
  /\ ComputeShipTasks(fleet \cup {s}, task, Ships)
  /\ UNCHANGED <<at, hold, stored, capital, missing, known, answer, stocked, crashes, fuel>>

-----------------------------------------------------------------------------
(* The ships execute their tickets.  A ticket is taken on by what the       *)
(* database has of the ship, and accepted by what the server has.           *)

\* complete_ticket: the surplus goes to the treasury
Settled(credits, left) ==
  LowerOf(credits, Budget + ReservedBy({k \in left : k.kind = "Purchase"}))

\* find_completable_tickets_based_on_ship_state, once the ship is there
Completable(s, k) ==
  /\ task[s] = "trading" /\ k.ship = s
  /\ IF k.kind = "Purchase" THEN Fits(stored[s], Capacity[s], k.units)
     ELSE k.good \in InCargo(stored[s]) /\ HasInCargo(stored[s], k.good, k.units)

Complete(s, k, cargo, proceeds) ==
  /\ tickets' = tickets \ {k}
  /\ capital' = Settled(capital + proceeds, tickets \ {k})
  /\ at' = [at EXCEPT ![s] = k.at]
  /\ hold' = [hold EXCEPT ![s] = cargo]

Purchase(s, k) ==
  /\ k.kind = "Purchase" /\ Completable(s, k) /\ Fits(hold[s], Capacity[s], k.units)
  /\ Complete(s, k, WithItemAdded(hold[s], Capacity[s], k.good, k.units), -Cost(k))
  /\ stored' = [stored EXCEPT ![s] = hold'[s]]
  /\ UNCHANGED <<fleet, task, missing, known, answer, stocked, crashes, fuel, misled, outdated>>

Sell(s, k) ==
  /\ k.kind = "Sell" /\ Completable(s, k) /\ HasInCargo(hold[s], k.good, k.units)
  /\ Complete(s, k, WithUnitsRemoved(hold[s], k.good, k.units), Cost(k))
  /\ stored' = [stored EXCEPT ![s] = hold'[s]]
  /\ UNCHANGED <<fleet, task, missing, known, answer, stocked, crashes, fuel, misled, outdated>>

\* the server refuses more than is missing
IsAccepted(k) == HasInCargo(hold[k.ship], k.good, k.units) /\ missing[k.good] >= k.units

\* the supply and the completion of the ticket
Supply(s, k) ==
  /\ k.kind = "Supply" /\ Completable(s, k) /\ IsAccepted(k)
  /\ Complete(s, k, WithUnitsRemoved(hold[s], k.good, k.units), 0)
  /\ missing' = [missing EXCEPT ![k.good] = @ - k.units]
  /\ answer' = [answer EXCEPT ![s] = missing']
  /\ task' = [task EXCEPT ![s] = "supplied"]
  /\ UNCHANGED <<fleet, stored, known, stocked, crashes, fuel, misled, outdated>>

UpsertShip(s) ==
  /\ task[s] = "supplied"
  /\ stored' = [stored EXCEPT ![s] = hold[s]]
  /\ task' = [task EXCEPT ![s] = "reported"]
  /\ UNCHANGED <<fleet, at, hold, tickets, capital, missing, known, answer, stocked, crashes, fuel, misled, outdated>>

UpdateConstructionSite(s) ==
  /\ task[s] = "reported"
  /\ known' = answer[s]
  /\ task' = [task EXCEPT ![s] = "trading"]
  /\ answer' = [answer EXCEPT ![s] = Required]
  /\ UNCHANGED <<fleet, at, hold, stored, tickets, capital, missing, stocked, crashes, fuel, misled, outdated>>

\* A ship refuels on its way.  The treasury pays, unless it has less than the fuel
\* costs: then report_expense takes it from the fleet, whatever is reserved there.
Refuel(s) ==
  /\ task[s] = "trading" /\ TicketsOf(s) # {}
  /\ \E credits \in 1..(MaxFaults - crashes - fuel) :
       /\ capital' = capital - credits
       /\ fuel' = fuel + credits
  /\ UNCHANGED <<fleet, task, at, hold, stored, tickets, missing, known, answer, stocked, crashes, misled,
                 outdated>>

-----------------------------------------------------------------------------
(* The world around them *)

MarketChanges ==
  /\ stocked' \in StockLevels
  /\ UNCHANGED <<fleet, task, at, hold, stored, tickets, capital, missing, known, answer, crashes, fuel, misled, outdated>>

\* The tasks of the ships are stored, also that of a ship that has none any
\* more; the rest of a report is lost.  With every ship at its task a restart
\* changes nothing of this.
Crash ==
  /\ crashes + fuel < MaxFaults /\ \E s \in fleet : task[s] # "trading"
  /\ crashes' = crashes + 1
  /\ ComputeShipTasks(fleet, [s \in Ships |-> IF task[s] = "idle" THEN "idle" ELSE "trading"], Ships)
  /\ answer' = [s \in Ships |-> Required]
  /\ UNCHANGED <<fleet, at, hold, stored, capital, missing, known, stocked, fuel>>

Init ==
  /\ fleet = InitialFleet
  /\ task = [s \in Ships |-> "idle"]
  /\ at = [s \in Ships |-> Home]
  /\ hold \in {h \in [Ships -> UNION Range(Leftovers)] : \A s \in Ships : h[s] \in Leftovers[s]}
  /\ stored = hold
  /\ tickets = {} /\ capital = Capital
  /\ missing = Required /\ known = Required /\ answer = [s \in Ships |-> Required]
  /\ stocked \in StockLevels
  /\ crashes = 0 /\ fuel = 0 /\ misled = FALSE /\ outdated = {}

Execute(s) ==
  \/ \E k \in tickets : Purchase(s, k) \/ Sell(s, k) \/ Supply(s, k)
  \/ UpsertShip(s)
  \/ UpdateConstructionSite(s)

Next ==
  \/ \E s \in Ships : Execute(s) \/ FinishTrade(s) \/ JoinFleet(s) \/ Refuel(s)
  \/ Recompute \/ MarketChanges \/ Crash

Spec == Init /\ [][Next]_vars

\* FinishTrade(s) is enabled and changes something
CanFinish(s) ==
  /\ task[s] = "trading" /\ TicketsOf(s) = {}
  /\ LET idle == IdleOf(fleet, Finished(s)) IN
     \E plan \in ReadyPlans(FreeOf(idle), fleet) :
       s \notin Tasked(idle, plan) \/ WithTickets(idle, plan) # tickets

\* The ships do not stop: weak fairness of each ship's steps.  For FinishTrade
\* ENABLED is written out, which TLC evaluates much faster.
FairSpec ==
  /\ Spec
  /\ \A s \in Ships : WF_vars(Execute(s)) /\ (<>[]CanFinish(s) => []<><<FinishTrade(s)>>_vars)

-----------------------------------------------------------------------------

UnitsOfAll(set) == SumFunctionOnSet([k \in set |-> k.units], set)
UnitsIn(set, s, kinds, good) == UnitsOfAll({k \in set : k.ship = s /\ k.kind \in kinds /\ k.good = good})

\* What the tickets of a ship deliver is on board or bought by another of its
\* tickets, unless the database had its cargo wrong when they were made.
DeliveriesAreBacked ==
  \A s \in Ships \ outdated : \A g \in Goods :
    UnitsIn(tickets, s, {"Sell", "Supply"}, g)
      <= hold[s].inv[g] + UnitsIn(tickets, s, {"Purchase"}, g)

\* The purchases under way never cost more than the fleet has, but for the fuel
\* that it has paid since: what is planned with others is within the capital that
\* is left, and create_purchase_trade_goods_ticket need not cut it.
PurchasesAreCovered == ReservedBy(Purchases) <= capital + fuel

\* The purchases of a ship fit into its hold together.
PurchasesFitTogether ==
  \A s \in Ships : hold[s].units + UnitsOfAll({k \in Purchases : k.ship = s}) <= Capacity[s]

\* "Don't deliver more than necessary" (construction_fleet.rs): unless the admiral
\* has been misled, the supplies of all ships are no more than the site is missing.
SuppliesAreNecessary ==
  ~misled => \A g \in Goods :
    UnitsOfAll({k \in tickets : k.kind = "Supply" /\ k.good = g}) <= missing[g]

\* What is planned can be executed.
TicketsFit == PurchasesAreCovered /\ PurchasesFitTogether /\ SuppliesAreNecessary

\* a supply the server will not take
Refused(s) == \E k \in TicketsOf(s) : k.kind = "Supply" /\ task[s] = "trading" /\ ~IsAccepted(k)
                                       /\ \A d \in TicketsOf(s) : d.kind # "Purchase"

\* the batch of 0 units that is left of a cargo the trade volume divides
IsEmptyBatch(k) == k.kind = "Sell" /\ k.units = 0

\* A ship that trades gets to the end of its tickets, unless the server refuses
\* its supply or an empty batch is left.
EveryTradeEnds ==
  \A s \in Ships : task[s] = "trading" ~> (Refused(s) \/ \A k \in TicketsOf(s) : IsEmptyBatch(k))

\* the ships the admiral would plan for now
Free == FreeOf(Idle)

\* As long as one of the ships can trade, the fleet finds something to do.
SomeTaskIsFound ==
  EvaluatedTrades({Facts(s) : s \in Free}, Available) # {} => {} \notin ReadyPlans(Free, fleet)

\* The gate is built if the fleet gets its third ship, the materials stay in
\* stock, no ship is left without a task and no supply is refused.
GateIsBuilt ==
  (/\ [](\A s \in Ships : ~Refused(s))
   /\ <>[](Cardinality(fleet) > 2 /\ Idle = {} /\ stocked = MaterialExports)) =>
     <>(\A g \in Goods : missing[g] = 0)
=============================================================================
