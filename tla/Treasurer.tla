------------------------------ MODULE Treasurer ------------------------------
(***************************************************************************)
(* The ThreadSafeTreasurer at work: the ships' fibers and the FleetAdmiral *)
(* call it, each call is one step (with_treasurer holds the mutex from     *)
(* before the operation until its entries are archived), and the process   *)
(* may crash between any two steps and start again from the archived       *)
(* ledger (FleetAdmiral::initialize_treasurer and load_admiral).           *)
(*                                                                         *)
(* The game server's view of the agent's credits is part of the state.  A  *)
(* ship first calls the server, which moves the credits, and reports to    *)
(* the treasurer in a later step.                                          *)
(* The admiral makes its calls one after the other: the rest of what it is *)
(* doing is `admiral` and the queue `todo`, and the ships' calls fall in   *)
(* between.                                                                *)
(***************************************************************************)
EXTENDS ImprovedTreasurer, Sequences

CONSTANTS InitialFleet,     \* [Ships -> Fleets], ship_fleet_assignment at the start
          Spawning,         \* the fleets of FleetTask::InitialExploration
          StartingCredits,
          MaxCredits,       \* bound on the credits the server lets the agent earn
          MaxCapital,       \* bound on the capital or the debt of a fleet at a server call
          Budgets, Reserves, Prices, Quantities, FuelCosts, Rewards

ASSUME TreasurerAssumption ==
    /\ InitialFleet \in [Ships -> Fleets]
    /\ Spawning \subseteq Fleets
    /\ StartingCredits \in Nat /\ MaxCredits \in Nat /\ MaxCapital \in Nat
    /\ Budgets \subseteq Nat /\ Reserves \subseteq Nat
    /\ Prices \subseteq Nat \ {0} /\ Quantities \subseteq Nat \ {0}
    /\ FuelCosts \subseteq Nat /\ Rewards \subseteq Nat

VARIABLES phase,            \* where the process is between start and crash
          treasurer,        \* the ImprovedTreasurer behind the mutex
          archived,         \* from_ledger of the archived entries
          replays,          \* from_ledger accepts the archived entries
          agent_credits,    \* the agent's credits, as the server has them
          my_fleet,         \* per ship: the fleet it flies for
          doing,            \* per ship: the server call it has yet to report
          doing_ticket,     \* per ship: the ticket of a ship doing "ticket"
          response,         \* per ship: the price, cost or reward the server answered
          admiral,          \* how far the admiral is in redistributing budgets,
                            \* or "gone" after a panic
          todo              \* the treasurer calls the admiral is about to make

book_vars == <<treasurer, archived, replays>>
ship_vars == <<agent_credits, my_fleet, doing, doing_ticket, response>>
admiral_vars == <<admiral, todo>>
vars == <<phase, treasurer, archived, replays, agent_credits, my_fleet, doing, doing_ticket,
          response, admiral, todo>>

NoTicket == [id |-> "none"]

Phases == {"down", "panicked", "failed", "resetting", "reset", "loaded", "starting", "running"}

AdmiralCalls == [op : {"set_fleet_budget", "set_new_operating_reserve"},
                 fleet : Fleets, credits : Int]
                \cup [op : {"top_up"}, fleet : Fleets]
                \cup [op : {"create_ticket"}, ticket : FinanceTicket]

SetBudget(f, b) == [op |-> "set_fleet_budget", fleet |-> f, credits |-> b]
SetReserve(f, r) == [op |-> "set_new_operating_reserve", fleet |-> f, credits |-> r]
TopUp(f) == [op |-> "top_up", fleet |-> f]
CreateTicket(k) == [op |-> "create_ticket", ticket |-> k]

TypeOK == /\ phase \in Phases
          /\ treasurer \in Treasurers
          /\ archived \in Treasurers
          /\ replays \in BOOLEAN
          /\ agent_credits \in Nat
          /\ my_fleet \in [Ships -> Fleets]
          /\ doing \in [Ships -> {"idle", "ticket", "fuel", "reward"}]
          /\ doing_ticket \in [Ships -> FinanceTicket \cup {NoTicket}]
          /\ \A s \in Ships : doing[s] = "ticket" => doing_ticket[s] \in FinanceTicket
          /\ response \in [Ships -> Nat]
          /\ admiral \in {"idle", "rebalancing", "creating", "gone"}
          /\ todo \in Seq(AdmiralCalls)

-----------------------------------------------------------------------------
\* with_treasurer: run the operation; archive its entries only if it returned Ok
Call == [ok |-> TRUE, t |-> treasurer, a |-> archived, replays |-> replays]

Commit(c) == /\ treasurer' = c.t
             /\ archived' = IF c.ok THEN c.a ELSE archived
             /\ replays' = IF c.ok THEN c.replays ELSE replays

\* ThreadSafeTreasurer::new on an empty ledger, with the credits of the agent
Init == /\ phase = "loaded"
        /\ treasurer = [EmptyTreasurer EXCEPT !.fund = StartingCredits]
        /\ archived = treasurer
        /\ replays = TRUE
        /\ agent_credits = StartingCredits
        /\ my_fleet = InitialFleet
        /\ doing = [s \in Ships |-> "idle"]
        /\ doing_ticket = [s \in Ships |-> NoTicket]
        /\ response = [s \in Ships |-> 0]
        /\ admiral = "idle"
        /\ todo = <<>>

-----------------------------------------------------------------------------
(* Start-up.  Every await between two calls is a point where a crash hits.   *)

Crash == /\ phase \notin {"down", "panicked"}
         /\ phase' = "down"
         /\ treasurer' = EmptyTreasurer
         /\ doing' = [s \in Ships |-> "idle"]
         /\ doing_ticket' = [s \in Ships |-> NoTicket]
         /\ response' = [s \in Ships |-> 0]
         /\ admiral' = "idle" /\ todo' = <<>>
         /\ UNCHANGED <<archived, replays, agent_credits, my_fleet>>

\* from_replayed_ledger_log, then the comparison with the agent's credits
Replay == /\ phase = "down" /\ replays
          /\ treasurer' = archived
          /\ phase' = IF current_agent_credits(archived) = agent_credits
                      THEN "loaded" ELSE "resetting"
          /\ UNCHANGED <<archived, replays, ship_vars, admiral_vars>>

ReplayPanics == /\ phase = "down" /\ ~replays
                /\ phase' = "panicked"
                /\ UNCHANGED <<book_vars, ship_vars, admiral_vars>>

\* mutant of ResetRemovesFleets: only the treasury is reset
ResetKeepsFleets == /\ phase = "resetting" /\ phase' = "reset"
                    /\ UNCHANGED <<book_vars, ship_vars, admiral_vars>>

\* reset_treasurer_due_to_agent_credit_diff: two calls
ResetRemovesFleets == /\ phase = "resetting"
                      /\ Commit(remove_all_fleets(Call))
                      /\ phase' = "reset"
                      /\ UNCHANGED <<ship_vars, admiral_vars>>

ResetTreasury == /\ phase = "reset"
                 /\ Commit(Step(Call, [kind |-> "TreasuryReset", credits |-> agent_credits]))
                 /\ phase' = "loaded"
                 /\ UNCHANGED <<ship_vars, admiral_vars>>

\* load_admiral gives up, and with it the start of the agent, if this call fails
RemoveBrokenTickets ==
    /\ phase = "loaded"
    /\ \E gone \in Deletable(treasurer) :
         LET c == remove_tickets_with_0_units(Call, gone) IN
         /\ Commit(c)
         /\ phase' = IF c.ok THEN "starting" ELSE "failed"
         /\ admiral' = IF c.ok THEN "rebalancing" ELSE "idle"
    /\ UNCHANGED <<ship_vars, todo>>

-----------------------------------------------------------------------------
(* The admiral.  redistribute_distribute_fleet_budgets runs at every start,  *)
(* and again when the ship of a spawning fleet has explored the system.      *)

RemoveAllFleets == /\ admiral = "rebalancing"
                   /\ Commit(remove_all_fleets(Call))
                   /\ admiral' = "creating"
                   /\ UNCHANGED <<phase, ship_vars, todo>>

\* a fleet without a budget is only created; the others are topped up, and all
\* but the spawning fleet get an operating reserve before or after that
SetUpCalls(f, budget, reserve) ==
    IF budget = 0 THEN {<<>>}
    ELSE {<<TopUp(f)>>, <<TopUp(f), SetReserve(f, reserve)>>, <<SetReserve(f, reserve), TopUp(f)>>}

CreateFleet(f, budget, reserve) ==
    /\ admiral = "creating" /\ todo = <<>> /\ f \notin treasurer.fleets
    /\ Commit(create_fleet(Call, f, budget))
    /\ todo' \in SetUpCalls(f, budget, reserve)
    /\ UNCHANGED <<phase, ship_vars, admiral>>

FinishRebalancing == /\ admiral = "creating" /\ todo = <<>>
                     /\ \A s \in Ships : my_fleet[s] \in treasurer.fleets
                     /\ admiral' = "idle"
                     /\ phase' = "running"
                     /\ UNCHANGED <<book_vars, ship_vars, todo>>

AdmiralCall(c, call) ==
    CASE call.op = "set_fleet_budget" -> set_fleet_total_capital(c, call.fleet, call.credits)
      [] call.op = "set_new_operating_reserve" ->
            set_new_operating_reserve(c, call.fleet, call.credits)
      [] call.op = "top_up" -> transfer_funds_to_fleet_to_top_up_available_capital(c, call.fleet)
      [] call.op = "create_ticket" -> create_sell_or_delivery_ticket(c, call.ticket)

\* the `?` of the admiral: an Err drops the rest
NextAdmiralCall == /\ todo # <<>>
                   /\ LET c == AdmiralCall(Call, Head(todo)) IN
                      /\ Commit(c)
                      /\ todo' = IF c.ok THEN Tail(todo) ELSE <<>>
                   /\ UNCHANGED <<phase, ship_vars, admiral>>

AdmiralIsIdle == phase = "running" /\ admiral = "idle" /\ todo = <<>>

SameCredits == current_agent_credits(treasurer') = current_agent_credits(treasurer)

\* dismantle_fleets for the fleet whose only ship has run ObserveAllWaypointsOnce,
\* the new assignment of that ship, and then a redistribution of all budgets.  The
\* agent's credits are read before and after, and a difference is a panic, whether it
\* comes from a debt or from what another ship has reported between the two calls:
\* the admiral gets no more reports, and the ship keeps its fleet in the database.
DismantleFleet(s, home) ==
    /\ AdmiralIsIdle
    /\ my_fleet[s] \in Spawning /\ doing[s] = "idle"
    /\ \A x \in Ships \ {s} : my_fleet[x] # my_fleet[s]
    /\ Commit(remove_fleet(Call, my_fleet[s]))
    /\ \/ /\ SameCredits \/ Ships # {s}
          /\ my_fleet' = [my_fleet EXCEPT ![s] = home]
          /\ admiral' = "rebalancing"
       \/ /\ ~SameCredits \/ Ships # {s}
          /\ my_fleet' = my_fleet
          /\ admiral' = "gone"
    /\ UNCHANGED <<phase, agent_credits, doing, doing_ticket, response, todo>>

\* adjust_fleet_budget_after_ship_purchase
AdjustFleetBudget(f, budget, reserve) ==
    /\ AdmiralIsIdle /\ f \in treasurer.fleets
    /\ budget > treasurer.budget[f] \/ reserve > treasurer.operating_reserve[f]
    /\ todo' = <<SetBudget(f, budget), SetReserve(f, reserve), TopUp(f)>>
    /\ UNCHANGED <<phase, book_vars, ship_vars, admiral>>

\* compute_ship_tasks, once all ships have been purchased
RaiseConstructionBudget(f, budget) ==
    /\ AdmiralIsIdle /\ f \in treasurer.fleets
    /\ treasurer.current_capital[f] # budget
    /\ todo' = <<SetBudget(f, budget), TopUp(f)>>
    /\ UNCHANGED <<phase, book_vars, ship_vars, admiral>>

-----------------------------------------------------------------------------
(* Creating tickets.  A ticket id is a fresh uuid.                           *)

UsedTickets == treasurer.active \cup treasurer.completed \cup archived.active
               \cup archived.completed

Fresh(id) == /\ \A k \in UsedTickets : k.id # id
             /\ \A i \in DOMAIN todo : todo[i].op = "create_ticket" => todo[i].ticket.id # id

\* the construction, mining and siphoning fleets, whose tickets these are, come
\* after the exploration of the system
Exploring == treasurer.fleets \cap Spawning # {}

NewTicket(id, f, s, kind, units, price) ==
    [id |-> id, fleet |-> f, ship |-> s, kind |-> kind, units |-> units, price |-> price,
     allocated |-> 0]

Deliveries == {"SellTradeGoods", "SupplyConstructionSite"}

\* only a sale has a price
PriceOf(kind, price) == IF signum(kind) = 0 THEN 0 ELSE price

\* pure_compute_ship_tasks: a purchase, followed by the sale or delivery of what
\* the fleet could afford
CreateTradeTickets(s, id, next_id, units, price, delivery, delivery_price) ==
    LET k == NewTicket(id, my_fleet[s], s, "PurchaseTradeGoods", units, price)
        c == create_purchase_trade_goods_ticket(Call, k)
        afforded == PurchaseTicket(Call, k).units
    IN  /\ AdmiralIsIdle /\ ~Exploring /\ Fresh(id) /\ Fresh(next_id) /\ id # next_id
        /\ Commit(c)
        /\ todo' = IF c.ok /\ afforded > 0
                   THEN <<CreateTicket(NewTicket(next_id, my_fleet[s], s, delivery, afforded,
                                                 PriceOf(delivery, delivery_price)))>>
                   ELSE <<>>
        /\ UNCHANGED <<phase, ship_vars, admiral>>

\* the cargo a ship already has: by the admiral, or by the ship itself
CreateDeliveryTicket(s, id, units, kind, price) ==
    /\ phase = "running" /\ ~Exploring /\ doing[s] = "idle" /\ Fresh(id)
    /\ Commit(create_sell_or_delivery_ticket(
                  Call, NewTicket(id, my_fleet[s], s, kind, units, PriceOf(kind, price))))
    /\ UNCHANGED <<phase, ship_vars, admiral_vars>>

\* purchases, deliveries, sales of excess cargo; here two of them
ContractKinds == {<<"PurchaseTradeGoods", "DeliverContractCargo">>,
                  <<"DeliverContractCargo", "SellTradeGoods">>}

\* create_contract_tickets of a contracting ship
CreateContractTickets(s, id, next_id, kinds, units, price) ==
    LET ticket(uuid, kind) == NewTicket(uuid, my_fleet[s], s, kind, units, PriceOf(kind, price))
    IN  /\ phase = "running" /\ ~Exploring /\ doing[s] = "idle"
        /\ Fresh(id) /\ Fresh(next_id) /\ id # next_id
        /\ Commit(create_multiple_tickets(Call, ticket(id, kinds[1]), ticket(next_id, kinds[2])))
        /\ UNCHANGED <<phase, ship_vars, admiral_vars>>

\* create_ship_purchase_ticket of the admiral: s buys a ship for fleet f; one
\* purchase at a time per ship type
CreateShipPurchaseTicket(f, s, id, price) ==
    /\ AdmiralIsIdle /\ Fresh(id)
    /\ \A k \in treasurer.active : k.kind # "PurchaseShip"
    /\ Commit(create_ship_purchase_ticket(Call, NewTicket(id, f, s, "PurchaseShip", 1, price)))
    /\ UNCHANGED <<phase, ship_vars, admiral_vars>>

-----------------------------------------------------------------------------
(* The ships.  The server moves the credits first; the ship then reports.    *)

\* what the server books for a purchase, a sale, or a delivery
ServerTotal(k, price) ==
    CASE k.kind = "SellTradeGoods" -> price * k.units
      [] k.kind \in {"PurchaseTradeGoods", "PurchaseShip", "RefuelShip"} -> -(price * k.units)
      [] k.kind \in {"SupplyConstructionSite", "DeliverContractCargo"} -> 0

\* the credits that a server call has moved and the treasurer does not know of
Unbooked(s) == CASE doing[s] = "ticket" -> ServerTotal(doing_ticket[s], response[s])
                 [] doing[s] = "fuel" -> -response[s]
                 [] doing[s] = "reward" -> response[s]
                 [] doing[s] = "idle" -> 0

\* the server refuses what the agent cannot pay
ServerMoves(s, amount) ==
    /\ phase = "running" /\ doing[s] = "idle"
    /\ agent_credits + amount >= 0 /\ agent_credits + amount <= MaxCredits
    /\ \A f \in Fleets : Abs(treasurer.current_capital[f]) <= MaxCapital
    /\ agent_credits' = agent_credits + amount
    /\ UNCHANGED <<phase, book_vars, my_fleet, admiral_vars>>

Responded(s, activity, ticket, answer) ==
    /\ doing' = [doing EXCEPT ![s] = activity]
    /\ doing_ticket' = [doing_ticket EXCEPT ![s] = ticket]
    /\ response' = [response EXCEPT ![s] = answer]

\* after the report, or when it returns Err and the ship's fiber ends
Reported(s) == /\ Responded(s, "idle", NoTicket, 0)
               /\ UNCHANGED <<phase, agent_credits, my_fleet, admiral_vars>>

\* mutant of PerformTradeAction: any active ticket
PerformAnyTicket(s, price) ==
    \E k \in treasurer.active :
        /\ k.units > 0
        /\ ServerMoves(s, ServerTotal(k, price))
        /\ Responded(s, "ticket", k, PriceOf(k.kind, price))

\* PerformTradeActionAndMarkAsCompleted: one of the ship's tickets, at the price
\* the market has by now
PerformTradeAction(s, price) ==
    \E k \in treasurer.active :
        /\ k.ship = s /\ k.units > 0
        /\ ServerMoves(s, ServerTotal(k, price))
        /\ Responded(s, "ticket", k, PriceOf(k.kind, price))

CompleteTicket(s) == /\ doing[s] = "ticket"
                     /\ Commit(complete_ticket(Call, doing_ticket[s], response[s]))
                     /\ Reported(s)

Refuel(s, cost) == ServerMoves(s, -cost) /\ Responded(s, "fuel", NoTicket, cost)

ReportExpense(s) == /\ doing[s] = "fuel"
                    /\ Commit(report_expense(Call, my_fleet[s], response[s]))
                    /\ Reported(s)

\* AcceptContract and FulfilContract
ReceiveReward(s, reward) == ServerMoves(s, reward) /\ Responded(s, "reward", NoTicket, reward)

ReportIncome(s) == /\ doing[s] = "reward"
                   /\ Commit(report_income(Call, my_fleet[s], response[s]))
                   /\ Reported(s)

-----------------------------------------------------------------------------
StartUp == \/ Crash \/ Replay \/ ReplayPanics
           \/ ResetRemovesFleets \/ ResetTreasury \/ RemoveBrokenTickets

Admiral ==
    \/ RemoveAllFleets \/ FinishRebalancing \/ NextAdmiralCall
    \/ \E f \in Fleets, budget \in Budgets, reserve \in Reserves :
            CreateFleet(f, budget, reserve) \/ AdjustFleetBudget(f, budget, reserve)
    \/ \E f \in Fleets, budget \in Budgets : RaiseConstructionBudget(f, budget)
    \/ \E s \in Ships, home \in Fleets \ Spawning : DismantleFleet(s, home)
    \/ \E f \in Fleets, s \in Ships, id \in TicketIds, price \in Prices :
            CreateShipPurchaseTicket(f, s, id, price)
    \/ \E s \in Ships, id, next_id \in TicketIds, units \in Quantities, price \in Prices,
          delivery \in Deliveries, delivery_price \in Prices :
            CreateTradeTickets(s, id, next_id, units, price, delivery, delivery_price)

ShipActions(s) ==
    \/ \E id \in TicketIds, units \in Quantities, kind \in Deliveries, price \in Prices :
            CreateDeliveryTicket(s, id, units, kind, price)
    \/ \E id, next_id \in TicketIds, kinds \in ContractKinds, units \in Quantities, price \in Prices :
            CreateContractTickets(s, id, next_id, kinds, units, price)
    \/ \E price \in Prices : PerformTradeAction(s, price)
    \/ \E cost \in FuelCosts : Refuel(s, cost)
    \/ \E reward \in Rewards : ReceiveReward(s, reward)
    \/ CompleteTicket(s) \/ ReportExpense(s) \/ ReportIncome(s)

Next == StartUp \/ Admiral \/ \E s \in Ships : ShipActions(s)

Spec == Init /\ [][Next]_vars

-----------------------------------------------------------------------------
(* Properties.                                                               *)

\* The treasury never pays out what it does not have: reimbursements, top-ups
\* and ship purchases are all bounded by treasury_fund, across restarts from a
\* ledger that lacks the entries of failed calls.
TreasuryNeverOverdrawn == phase # "down" => treasurer.fund >= 0

\* the treasurer's credits plus the flows under way, against the server's
Imbalance == current_agent_credits(treasurer)
             + SumFunctionOnSet([s \in Ships |-> Unbooked(s)], Ships) - agent_credits

\* remove_fleet archives a fleet whose current_capital is negative
DebtVoided == \E f \in treasurer.fleets \ treasurer'.fleets : treasurer.current_capital[f] < 0

\* the fleet that ship s reports to
ReportsTo(s) == IF doing[s] = "ticket" THEN doing_ticket[s].fleet ELSE my_fleet[s]

\* a report comes while the fleet is removed, and is refused
FlowLost == \E s \in Ships : doing[s] # "idle" /\ doing'[s] = "idle"
                             /\ ReportsTo(s) \notin treasurer.fleets

\* While the agent runs, no call of the treasurer creates or loses a credit: in
\* every interleaving of the ships' and the admiral's calls, with calls that fail
\* half way among them, the treasurer differs from the server by what has yet to
\* be reported.  The two exceptions are the only ways to break it.
BooksBalance ==
    [][phase = "running" /\ phase' = "running"
       => Imbalance' = Imbalance \/ DebtVoided \/ FlowLost]_vars

ReservedForTickets(t, f) ==
    LET tickets == {k \in t.active : k.fleet = f}
    IN  SumFunctionOnSet([k \in tickets |-> Released(k)], tickets)

\* While the agent runs, the reserved_capital of a fleet moves with the
\* allocations of its active tickets, whatever path creates, completes or fails
\* them; fleets that are re-created start without the reservations of the
\* tickets that stay active.
ReservationsFollowTickets ==
    [][phase = "running" /\ phase' = "running"
       => \A f \in treasurer.fleets \cap treasurer'.fleets :
            treasurer'.reserved_capital[f] - ReservedForTickets(treasurer', f)
              = treasurer.reserved_capital[f] - ReservedForTickets(treasurer, f)]_vars

\* When the start-up gets to remove_tickets_with_0_units the treasurer has the
\* agent's credits, even if a crash fell between the two calls of an earlier
\* reset, or between a server call and its report.
ReconciledAtStart == phase = "loaded" => current_agent_credits(treasurer) = agent_credits

\* A ticket a ship has executed and not yet reported is still active: no other
\* ship and no rebalancing completes it or takes it away, so that no ticket is
\* completed twice.
TicketInFlightIsActive ==
    \A s \in Ships : doing[s] = "ticket" => doing_ticket[s] \in treasurer.active
=============================================================================
