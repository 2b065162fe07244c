-------------------------- MODULE ImprovedTreasurer --------------------------
(***************************************************************************)
(* The pure part of src/st-domain/src/budgeting/treasury_redesign.rs: the  *)
(* state of an ImprovedTreasurer as a record, process_ledger_entry as a    *)
(* function of that record, and every operation as the sequence of ledger  *)
(* entries it processes.                                                   *)
(*                                                                         *)
(* An operation is written in the style of the code's `?`: it maps a call  *)
(* record [ok, t, a, replays] to the call record it leaves behind.         *)
(*    ok       no process_ledger_entry of this call has returned Err       *)
(*    t        the treasurer in memory                                     *)
(*    a        the treasurer that from_ledger builds from the archive, if  *)
(*             the entries of this call get archived                       *)
(*    replays  from_ledger accepts every one of those entries              *)
(* After an Err the rest of the operation is skipped, but what it did to   *)
(* `t` stays done: the code has no rollback.                               *)
(*                                                                         *)
(* Fleet budgets are functions on all of Fleets that are 0 where no fleet  *)
(* exists; `fleets` holds the keys of the HashMap.  A FinanceTicket is a   *)
(* value, as in the code; ids are uuids and never reused.                  *)
(***************************************************************************)
EXTENDS Integers, FiniteSets, Functions

CONSTANTS Fleets,      \* the possible FleetIds
          Ships,       \* the possible ShipSymbols
          TicketIds    \* the TicketIds the run may draw from

ASSUME FiniteAssumption == IsFiniteSet(Fleets) /\ IsFiniteSet(Ships)

Kinds == {"PurchaseTradeGoods", "SellTradeGoods", "PurchaseShip",
          "RefuelShip", "SupplyConstructionSite", "DeliverContractCargo"}

FinanceTicket == [id : TicketIds, fleet : Fleets, ship : Ships, kind : Kinds,
                  units : Nat, price : Int, allocated : Int]

signum(kind) ==
    CASE kind \in {"PurchaseTradeGoods", "PurchaseShip", "RefuelShip"} -> -1
      [] kind = "SellTradeGoods" -> 1
      [] OTHER -> 0

Treasurers == [fund : Int, fleets : SUBSET Fleets,
               current_capital : [Fleets -> Int], reserved_capital : [Fleets -> Int],
               budget : [Fleets -> Int], operating_reserve : [Fleets -> Int],
               active : SUBSET FinanceTicket, completed : SUBSET FinanceTicket]

NoCredits == [f \in Fleets |-> 0]

EmptyTreasurer == [fund |-> 0, fleets |-> {},
                   current_capital |-> NoCredits, reserved_capital |-> NoCredits,
                   budget |-> NoCredits, operating_reserve |-> NoCredits,
                   active |-> {}, completed |-> {}]

available_capital(t, f) ==
    t.current_capital[f] - t.reserved_capital[f] - t.operating_reserve[f]

current_agent_credits(t) == t.fund + SumFunctionOnSet(t.current_capital, Fleets)

-----------------------------------------------------------------------------
LedgerEntries ==
    [kind : {"TreasuryCreated", "TreasuryReset"}, credits : Int]
    \cup [kind : {"FleetCreated", "FundsFromTreasuryToFleet", "FundsFromFleetToTreasury",
                  "SetNewTotalCapital", "SetNewOperatingReserve", "ExpenseLogged",
                  "IncomeLogged"},
          fleet : Fleets, credits : Int]
    \cup [kind : {"TicketCreated", "BrokenTicketDeleted"}, fleet : Fleets,
          ticket : FinanceTicket]
    \cup [kind : {"TicketCompleted"}, fleet : Fleets, ticket : FinanceTicket, credits : Int]
    \cup [kind : {"ArchivedFleetBudget"}, fleet : Fleets]

(* process_ledger_entry: when an entry is accepted, and what it does.        *)

Accepts(t, e) ==
    CASE e.kind \in {"TreasuryCreated", "TreasuryReset"} -> TRUE
      [] e.kind = "FleetCreated" -> e.fleet \notin t.fleets
      [] e.kind = "TicketCreated" ->
            /\ e.fleet \in t.fleets
            /\ \/ e.ticket.allocated = 0
               \/ t.current_capital[e.fleet] >= e.ticket.allocated
      [] e.kind = "FundsFromFleetToTreasury" ->
            e.fleet \in t.fleets /\ t.current_capital[e.fleet] >= e.credits
      [] OTHER -> e.fleet \in t.fleets

\* the part of a ticket's allocation that is released when the ticket leaves
Released(ticket) == IF ticket.allocated > 0 THEN ticket.allocated ELSE 0

\* a fleet's entry in one of the maps of budgets
Plus(amounts, f, credits) == [amounts EXCEPT ![f] = @ + credits]
Put(amounts, f, credits) == [amounts EXCEPT ![f] = credits]

\* mutant of Without: the ticket stays in the map
KeepAll(tickets, id) == tickets

Without(tickets, id) == {k \in tickets : k.id # id}

Process(t, e) ==
    CASE e.kind = "TreasuryCreated" ->
            [t EXCEPT !.fund = e.credits]
      [] e.kind = "TreasuryReset" ->
            [t EXCEPT !.fund = e.credits, !.active = {}, !.completed = {}]
      [] e.kind = "FleetCreated" ->
            [t EXCEPT !.fleets = @ \cup {e.fleet},
                      !.current_capital = Put(@, e.fleet, 0),
                      !.reserved_capital = Put(@, e.fleet, 0),
                      !.budget = Put(@, e.fleet, e.credits),
                      !.operating_reserve = Put(@, e.fleet, 0)]
      [] e.kind = "FundsFromTreasuryToFleet" ->
            [t EXCEPT !.fund = @ - e.credits,
                      !.current_capital = Plus(@, e.fleet, e.credits)]
      [] e.kind = "FundsFromFleetToTreasury" ->
            [t EXCEPT !.fund = @ + e.credits,
                      !.current_capital = Plus(@, e.fleet, -e.credits)]
      [] e.kind = "TicketCreated" ->
            [t EXCEPT !.reserved_capital = Plus(@, e.fleet, e.ticket.allocated),
                      !.active = Without(@, e.ticket.id) \cup {e.ticket}]
      [] e.kind = "TicketCompleted" ->
            [t EXCEPT !.reserved_capital = Plus(@, e.fleet, -Released(e.ticket)),
                      !.current_capital = Plus(@, e.fleet, e.credits),
                      !.active = Without(@, e.ticket.id),
                      !.completed = Without(@, e.ticket.id) \cup {e.ticket}]
      [] e.kind = "BrokenTicketDeleted" ->
            [t EXCEPT !.reserved_capital = Plus(@, e.fleet, -Released(e.ticket)),
                      !.current_capital = Plus(@, e.fleet, e.ticket.allocated),
                      !.active = Without(@, e.ticket.id)]
      [] e.kind = "SetNewTotalCapital" ->
            [t EXCEPT !.budget = Put(@, e.fleet, e.credits)]
      [] e.kind = "SetNewOperatingReserve" ->
            [t EXCEPT !.operating_reserve = Put(@, e.fleet, e.credits)]
      [] e.kind = "ArchivedFleetBudget" ->
            [t EXCEPT !.fleets = @ \ {e.fleet},
                      !.current_capital = Put(@, e.fleet, 0),
                      !.reserved_capital = Put(@, e.fleet, 0),
                      !.budget = Put(@, e.fleet, 0),
                      !.operating_reserve = Put(@, e.fleet, 0)]
      [] e.kind = "ExpenseLogged" ->
            [t EXCEPT !.current_capital = Plus(@, e.fleet, -e.credits)]
      [] e.kind = "IncomeLogged" ->
            [t EXCEPT !.current_capital = Plus(@, e.fleet, e.credits)]

-----------------------------------------------------------------------------
(* The `?` of the code.                                                      *)

Fail(c) == [c EXCEPT !.ok = FALSE]

Step(c, e) ==
    IF ~c.ok \/ ~Accepts(c.t, e) THEN Fail(c)
    ELSE [ok |-> TRUE, t |-> Process(c.t, e),
          a |-> IF c.replays /\ Accepts(c.a, e) THEN Process(c.a, e) ELSE c.a,
          replays |-> c.replays /\ Accepts(c.a, e)]

-----------------------------------------------------------------------------
(* Entries with only a fleet and an amount.                                  *)

Entry(kind, f, credits) == [kind |-> kind, fleet |-> f, credits |-> credits]
TicketEntry(kind, k) == [kind |-> kind, fleet |-> k.fleet, ticket |-> k]

\* mutant of MinOf: a top-up of the whole difference
TakeSecond(x, y) == y

MinOf(x, y) == IF x <= y THEN x ELSE y
Abs(x) == IF x < 0 THEN -x ELSE x

create_fleet(c, f, total_capital) == Step(c, Entry("FleetCreated", f, total_capital))

reimburse_expense(c, f, credits) ==
    IF f \notin c.t.fleets \/ credits > c.t.fund THEN Fail(c)
    ELSE Step(c, Entry("FundsFromTreasuryToFleet", f, credits))

transfer_funds_to_fleet_to_top_up_available_capital(c, f) ==
    LET diff == c.t.budget[f] - c.t.current_capital[f] IN
    IF f \notin c.t.fleets THEN Fail(c)
    ELSE IF diff > 0
         THEN Step(c, Entry("FundsFromTreasuryToFleet", f, MinOf(c.t.fund, diff)))
         ELSE c

transfer_excess_funds_from_fleet_to_treasury_if_necessary(c, f) ==
    LET excess == c.t.current_capital[f] - c.t.budget[f] - c.t.reserved_capital[f] IN
    IF f \notin c.t.fleets THEN Fail(c)
    ELSE IF excess > 0 THEN Step(c, Entry("FundsFromFleetToTreasury", f, excess)) ELSE c

set_fleet_total_capital(c, f, credits) ==
    IF f \notin c.t.fleets THEN Fail(c)
    ELSE transfer_excess_funds_from_fleet_to_treasury_if_necessary(
             Step(c, Entry("SetNewTotalCapital", f, credits)), f)

set_new_operating_reserve(c, f, credits) ==
    Step(c, Entry("SetNewOperatingReserve", f, credits))

-----------------------------------------------------------------------------
(* Tickets.                                                                  *)

\* mutant of affordable_units: no saturation at 0 units
unsaturated_units(available, price, quantity) == MinOf(available \div price, quantity)

\* `(available / price) as u32`, then min(quantity): Rust's division rounds
\* towards 0 and the cast of a negative i64 yields a number near 2^32, which
\* exceeds every quantity that fits a cargo hold
affordable_units(available, price, quantity) ==
    IF available <= -price THEN quantity
    ELSE IF available < 0 THEN 0
    ELSE MinOf(available \div price, quantity)

\* k carries the requested quantity; the ticket that is created may be smaller
PurchaseTicket(c, k) ==
    LET units == affordable_units(available_capital(c.t, k.fleet), k.price, k.units)
    IN [k EXCEPT !.units = units, !.allocated = k.price * units]

create_purchase_trade_goods_ticket(c, k) ==
    Step(c, TicketEntry("TicketCreated", PurchaseTicket(c, k)))

\* create_sell_trade_goods_ticket and create_delivery_construction_material_ticket
create_sell_or_delivery_ticket(c, k) ==
    Step(c, TicketEntry("TicketCreated", [k EXCEPT !.allocated = 0]))

FullyAllocated(k) == [k EXCEPT !.allocated = k.price * k.units]

\* all details of one call, here a purchase and the delivery or sale after it
create_multiple_tickets(c, k1, k2) ==
    IF \/ k1.fleet \notin c.t.fleets
       \/ available_capital(c.t, k1.fleet) < k1.price * k1.units + k2.price * k2.units
    THEN Fail(c)
    ELSE Step(Step(c, TicketEntry("TicketCreated", FullyAllocated(k1))),
              TicketEntry("TicketCreated", FullyAllocated(k2)))

try_finance_purchase_for_fleet(c, f, required) ==
    IF f \notin c.t.fleets THEN Fail(c)
    ELSE IF required <= 0 THEN c
    ELSE IF c.t.fund - required > 0
         THEN Step(c, Entry("FundsFromTreasuryToFleet", f, required))
         ELSE Fail(c)

create_ship_purchase_ticket(c, k) ==
    Step(try_finance_purchase_for_fleet(c, k.fleet, k.price),
         TicketEntry("TicketCreated", [k EXCEPT !.allocated = k.price]))

\* mutant of ActualTotal: the price the ticket was created with
EstimatedTotal(k, actual_price) == k.price * k.units * signum(k.kind)

ActualTotal(k, actual_price) == actual_price * k.units * signum(k.kind)

complete_ticket(c, k, actual_price) ==
    LET total == ActualTotal(k, actual_price)
        done  == Step(c, [kind |-> "TicketCompleted", fleet |-> k.fleet,
                          ticket |-> k, credits |-> total])
    IN  IF ~done.ok THEN done
        ELSE IF signum(k.kind) < 0 /\ k.allocated < Abs(total)
             THEN reimburse_expense(done, k.fleet, Abs(total) - k.allocated)
             ELSE transfer_excess_funds_from_fleet_to_treasury_if_necessary(done, k.fleet)

report_expense(c, f, total) ==
    LET paid == IF c.t.fund >= total THEN reimburse_expense(c, f, total) ELSE c
    IN  Step(paid, Entry("ExpenseLogged", f, total))

report_income(c, f, reward) == Step(c, Entry("IncomeLogged", f, reward))

-----------------------------------------------------------------------------
(* Removing fleets and broken tickets, the reset.                            *)

transfer_all_funds_from_fleet_to_treasury(c, f) ==
    IF f \notin c.t.fleets THEN Fail(c)
    ELSE IF c.t.current_capital[f] > 0
         THEN Step(c, Entry("FundsFromFleetToTreasury", f, c.t.current_capital[f]))
         ELSE c

remove_fleet(c, f) ==
    Step(transfer_all_funds_from_fleet_to_treasury(c, f),
         [kind |-> "ArchivedFleetBudget", fleet |-> f])

\* what transfer_all_funds_to_treasury moves, per fleet
Surplus(t) == [f \in Fleets |-> IF f \in t.fleets /\ t.current_capital[f] > 0
                                THEN t.current_capital[f] ELSE 0]

Cleared(amounts, gone) == [f \in Fleets |-> IF f \in gone THEN 0 ELSE amounts[f]]

Disband(t, gone, swept) ==
    [t EXCEPT !.fund = @ + swept, !.fleets = @ \ gone,
              !.current_capital = Cleared(@, gone), !.reserved_capital = Cleared(@, gone),
              !.budget = Cleared(@, gone), !.operating_reserve = Cleared(@, gone)]

\* The loop of transfer_all_funds_from_fleet_to_treasury and remove_fleet over
\* all fleets.  Its entries are accepted in memory and touch one fleet each,
\* so that the loop has this closed form.
remove_all_fleets(c) ==
    LET swept    == SumFunctionOnSet(Surplus(c.t), Fleets)
        accepted == /\ c.replays
                    /\ c.t.fleets \subseteq c.a.fleets
                    /\ \A f \in c.t.fleets : Surplus(c.t)[f] <= Surplus(c.a)[f]
    IN  IF ~c.ok THEN c
        ELSE [ok |-> TRUE, t |-> Disband(c.t, c.t.fleets, swept),
              a |-> IF accepted THEN Disband(c.a, c.t.fleets, swept) ELSE c.a,
              replays |-> accepted]

BrokenTickets(t) == {k \in t.active : k.units = 0 /\ k.kind \notin {"PurchaseShip", "RefuelShip"}}

\* The loop stops at the first broken ticket whose fleet is gone; `gone` are
\* the tickets it deletes.  A ticket of 0 units has nothing allocated, so
\* that BrokenTicketDeleted changes no budget.
remove_tickets_with_0_units(c, gone) ==
    LET without(t) == [t EXCEPT !.active = {k \in @ : \A b \in gone : k.id # b.id}] IN
    [ok |-> c.ok /\ gone = BrokenTickets(c.t), t |-> without(c.t),
     a |-> IF c.replays THEN without(c.a) ELSE c.a,
     replays |-> c.replays /\ \A b \in gone : b.fleet \in c.a.fleets]

Deletable(t) ==
    LET broken == BrokenTickets(t)
        booked == {k \in broken : k.fleet \in t.fleets}
    IN  IF booked = broken THEN {broken} ELSE SUBSET booked
=============================================================================
