----------------------------- MODULE ShipTrees -----------------------------
(***************************************************************************)
(* One ship executes its task: the fiber of the fleet runner runs the      *)
(* behaviour tree of the task leaf by leaf and starts it again when it     *)
(* ends with an error.  A leaf that asks the server takes two steps, the   *)
(* server's and the ship's that takes over the answer; a trade takes three *)
(* or four, for the ticket and the ship table.                             *)
(*                                                                         *)
(* The ship is in three places: at the server, in ShipOperations and in    *)
(* the ship table.  Faults: a request fails before the server has seen it, *)
(* the answer is lost, a statement or a call of the treasurer fails after  *)
(* the answer, the planner cannot read the table, the process ends and     *)
(* starts again with the ship of the table.                                *)
(***************************************************************************)
EXTENDS UniverseServer, ShipBehaviors, FiniteSetsExt

CONSTANTS Tasks,       \* the instances: task, ship, tickets, bounds on faults
          Wanted,      \* the goods of the supply chain, never jettisoned
          DeliverTo,   \* good -> waypoint of its raw delivery route, or Nowhere
          Nowhere

ASSUME TaskAssumption ==
  /\ \A t \in Tasks : t.ship \in Ships /\ t.offers \subseteq Offers
  /\ Wanted \subseteq Goods /\ DeliverTo \in [Goods -> Waypoints \cup {Nowhere}] /\ Nowhere \notin Waypoints

VARIABLES
  task,     \* the instance, which never changes
  server,   \* the world at the server
  ship,     \* ShipOperations::ship
  ops,      \* the rest of ShipOperations
  db,       \* what the tables say of the ship and its surroundings
  tickets,  \* active ticket -> how often the server has executed it
  pc,       \* where the behaviour stands; Ok or Failed when it has ended
  call,     \* the request whose answer is on its way
  faults,   \* auxiliary: faults so far, by kind
  refused   \* auxiliary: leaves whose request the server refused before any fault

vars == <<task, server, ship, ops, db, tickets, pc, call, faults, refused>>

FaultKinds == {"fails", "lost", "unsaved", "unread", "crash", "poor", "critical"}

NoFaults == [k \in FaultKinds |-> 0]

NoTicket == Ticket("None", SiteAt, CHOOSE g \in Goods : TRUE, 0, 0)

NoCall == [step |-> "none", ticket |-> NoTicket]

\* ShipOperations::new
NewOps == [queue |-> <<>>, dest |-> Nowhere, explore |-> <<>>, due |-> TRUE,
           contract |-> NoContract]

Row == Programs[task.kind].rows[pc]

Ready == pc > 0 /\ call = NoCall

At(leaf) == Ready /\ Row.name = leaf

Succeed == pc' = Row.ok
Fail    == pc' = Row.err

Fault(kind) ==
  /\ faults[kind] < task.faults[kind]
  /\ faults' = [faults EXCEPT ![kind] = @ + 1]

CurrentTravelAction == Head(ops.queue)

Navigating == ops.queue # <<>> /\ CurrentTravelAction.kind = "Navigate"
Refueling  == ops.queue # <<>> /\ CurrentTravelAction.kind = "Refuel"

IsStationary(s) == s.status = "Docked" \/ HasArrived(s)

-----------------------------------------------------------------------------
(* Leaves that only look *)

HasRouteToDestination == ops.queue # <<>> /\ ops.queue[Len(ops.queue)].to = ops.dest

\* mutant of CanSkipRefueling: the refuel action itself counts as the next stop
CanSkipWhenPlanned == Refueling /\ ship.fuel > 0

\* the front of the queue is the refuel action itself, never the navigation
\* the code looks for
CanSkipRefueling ==
  /\ Refueling /\ Len(ops.queue) > 1
  /\ Navigating /\ ops.queue[2].kind = "Refuel" /\ ship.fuel >= CurrentTravelAction.fuel

IsCorrectFlightMode == Navigating /\ ship.mode = CurrentTravelAction.mode

IsAtDestination == ops.dest = ship.wp /\ IsStationary(ship)

IsAtMiningSite == IsStationary(ship) /\ ship.wp = task.to

IsAtSiphoningSite == ship.wp = task.to /\ ship.status = "InOrbit"

HasCargoSpace == Yield < SpaceLeft(ship.cargo, ship.hold)

HasShipPurchaseTicketForWaypoint == \E t \in DOMAIN tickets : t.kind = "Ship" /\ t.wp = ship.wp

IsHaulerFilledEnough == 5 * ship.cargo.units > 4 * ship.hold

\* the code wants four valid surveys, the model one
IsSurveyNecessary == ~db.survey

IsContractDeliveryComplete ==
  \/ ops.contract.signed = "fulfilled"
  \/ ops.contract.signed # "none" /\ ops.contract.delivered = ops.contract.required

HasActiveContract == ops.contract.signed \in {"offered", "accepted"}

Looks == {"HasTravelActionEntry", "IsNavigationAction", "IsRefuelAction", "IsDocked", "IsInOrbit",
  "IsCorrectFlightMode", "CanSkipRefueling", "PrintTravelActions", "PrintExploreLocations",
  "HasExploreLocationEntry", "HasDestination", "HasUncompletedTrade", "IsAtDestination",
  "IsAtObservationWaypoint", "HasRouteToDestination", "HasPermanentExploreLocationEntry",
  "IsLateEnoughForWaypointObservation", "HasShipPurchaseTicketForWaypoint", "IsAtSiphoningSite",
  "HasCargoSpaceForSiphoning", "HasCargoSpaceForMining", "IsSurveyCapable", "IsSurveyNecessary",
  "IsAtMiningSite", "IsHaulerFilledEnoughForDelivery", "HasAsteroidReachedCriticalLimit",
  "SleepForNextWaypointCriticalLimitCheck", "HasAcceptedContract", "HasActiveContract",
  "IsContractDeliveryComplete"}

Holds(leaf) ==
  CASE leaf = "HasTravelActionEntry"               -> ops.queue # <<>>
    [] leaf = "IsNavigationAction"                 -> Navigating
    [] leaf = "IsRefuelAction"                     -> Refueling
    [] leaf = "IsDocked"                           -> ship.status = "Docked"
    [] leaf = "IsInOrbit"                          -> ship.status = "InOrbit"
    [] leaf = "IsCorrectFlightMode"                -> IsCorrectFlightMode
    [] leaf = "CanSkipRefueling"                   -> CanSkipRefueling
    [] leaf = "HasExploreLocationEntry"            -> ops.explore # <<>>
    [] leaf = "HasDestination"                     -> ops.dest # Nowhere
    [] leaf = "HasUncompletedTrade"                -> tickets # <<>>
    [] leaf = "IsAtDestination"                    -> IsAtDestination
    [] leaf = "IsAtObservationWaypoint"            -> ship.wp = task.to
    [] leaf = "HasRouteToDestination"              -> HasRouteToDestination
    [] leaf = "IsLateEnoughForWaypointObservation" -> ops.due
    [] leaf = "HasShipPurchaseTicketForWaypoint"   -> HasShipPurchaseTicketForWaypoint
    [] leaf = "IsAtSiphoningSite"                  -> IsAtSiphoningSite
    [] leaf = "HasCargoSpaceForSiphoning"          -> HasCargoSpace
    [] leaf = "HasCargoSpaceForMining"             -> HasCargoSpace
    [] leaf = "IsSurveyCapable"                    -> task.surveyor
    [] leaf = "IsSurveyNecessary"                  -> IsSurveyNecessary
    [] leaf = "IsAtMiningSite"                     -> IsAtMiningSite
    [] leaf = "IsHaulerFilledEnoughForDelivery"    -> IsHaulerFilledEnough
    [] leaf = "HasAsteroidReachedCriticalLimit"    -> db.critical
    [] leaf = "HasAcceptedContract"                -> ops.contract.signed \in {"accepted", "fulfilled"}
    [] leaf = "HasActiveContract"                  -> HasActiveContract
    [] leaf = "IsContractDeliveryComplete"         -> IsContractDeliveryComplete
    [] OTHER                                       -> TRUE

Look ==
  /\ Ready /\ Row.name \in Looks
  /\ pc' = IF Holds(Row.name) THEN Row.ok ELSE Row.err
  /\ UNCHANGED <<task, server, ship, ops, db, tickets, call, faults, refused>>

-----------------------------------------------------------------------------
(* Leaves that wait *)

\* the leaf sleeps until the arrival it knows of
WaitForArrival ==
  /\ At("WaitForArrival") /\ ~InFlight(ship)
  /\ Succeed
  /\ UNCHANGED <<task, server, ship, ops, db, tickets, call, faults, refused>>

WaitForCooldown ==
  /\ At("WaitForCooldown") /\ ~ship.hot
  /\ Succeed
  /\ UNCHANGED <<task, server, ship, ops, db, tickets, call, faults, refused>>

SleepUntilNextObservationTimeOrTicket ==
  /\ At("SleepUntilNextObservationTimeOrShipPurchaseTicketHasBeenAssigned")
  /\ ops.due \/ tickets # <<>>
  /\ Succeed
  /\ UNCHANGED <<task, server, ship, ops, db, tickets, call, faults, refused>>

-----------------------------------------------------------------------------
(* Leaves that change the ship in memory *)

OnlyOps == UNCHANGED <<task, server, ship, db, tickets, call, faults, refused>>

\* the ship in memory alone: neither the server nor the table hears of it
FixNavStatusIfNecessary ==
  /\ At("FixNavStatusIfNecessary")
  /\ ship' = IF ship.status # "Docked" /\ HasArrived(ship)
             THEN [ship EXCEPT !.status = "InOrbit"] ELSE ship
  /\ Succeed
  /\ UNCHANGED <<task, server, ops, db, tickets, call, faults, refused>>

TravelActionIsDone ==
  /\ ops.queue # <<>> /\ ship.wp = CurrentTravelAction.to /\ ship.status # "InTransit"
  /\ Refueling => ship.fuel = ship.tank

MarkTravelActionAsCompleteIfPossible ==
  /\ At("MarkTravelActionAsCompleteIfPossible")
  /\ ops' = IF TravelActionIsDone THEN [ops EXCEPT !.queue = Tail(@)] ELSE ops
  /\ Succeed
  /\ OnlyOps

PopExploreLocationAsDestination ==
  /\ At("PopExploreLocationAsDestination")
  /\ ops' = IF ops.explore = <<>> THEN [ops EXCEPT !.dest = Nowhere]
            ELSE [ops EXCEPT !.dest = Head(ops.explore), !.explore = Tail(@)]
  /\ Succeed
  /\ OnlyOps

RemoveDestination ==
  /\ At("RemoveDestination")
  /\ ops' = [ops EXCEPT !.dest = Nowhere]
  /\ Succeed
  /\ OnlyOps

SetSiteAsDestination ==
  /\ Ready
  /\ Row.name \in {"SetMiningSiteAsDestination", "SetSiphoningSiteAsDestination",
                   "SetPermanentExploreLocationAsDestination"}
  /\ ops' = [ops EXCEPT !.dest = task.to]
  /\ Succeed
  /\ OnlyOps

SetNextObservationTime ==
  /\ At("SetNextObservationTime")
  /\ ops' = [ops EXCEPT !.due = FALSE]
  /\ Succeed
  /\ OnlyOps

\* without a path the old queue stays, and PrintTravelActions, the third
\* alternative of the tree, succeeds
ComputePathToDestination ==
  /\ At("ComputePathToDestination")
  /\ LET routes == ComputePath(ship.wp, ops.dest, ship.fuel, ship.tank)
     IN  \/ /\ \E route \in routes : ops' = [ops EXCEPT !.queue = route]
            /\ Succeed /\ UNCHANGED faults
         \/ routes = {} /\ Fail /\ UNCHANGED <<ops, faults>>
         \/ Fault("unread") /\ Fail /\ UNCHANGED ops
  /\ UNCHANGED <<task, server, ship, db, tickets, call, refused>>

-----------------------------------------------------------------------------
(* Tickets *)

Waits(t) == t.after # 0 /\ \E p \in DOMAIN tickets : p.kind = "Purchase" /\ p.number = t.after

Carries(t) == t.good \in InCargo(ship.cargo) /\ HasInCargo(ship.cargo, t.good, t.units)

Executable(t) ==
  CASE t.kind \in {"Sell", "Supply"} -> ~Waits(t)
    [] t.kind = "Purchase"           -> Fits(ship.cargo, ship.hold, t.units)
    [] t.kind = "Deliver"            -> Carries(t)
    [] t.kind = "Ship"               -> TRUE

\* ShipAction::SetNextTradeStopAsDestination
SetNextTradeStopAsDestination ==
  /\ At("SetNextTradeStopAsDestination")
  /\ LET stops == {t.wp : t \in {x \in DOMAIN tickets : Executable(x)}}
     IN  IF stops = {} THEN Fail /\ UNCHANGED ops
         ELSE /\ \E w \in Closest(ship.wp, stops) : ops' = [ops EXCEPT !.dest = w]
              /\ Succeed
  /\ OnlyOps

\* new tickets, with numbers no active ticket has
Added(new) ==
  LET Renumbered(k) == {[t EXCEPT !.number = @ + 10 * k] : t \in new}
      k == CHOOSE i \in 0..Cardinality(DOMAIN tickets) :
             /\ Renumbered(i) \cap DOMAIN tickets = {}
             /\ \A j \in 0..(i - 1) : Renumbered(j) \cap DOMAIN tickets # {}
  IN  tickets @@ [t \in Renumbered(k) |-> 0]

\* ShipAction::CreateSellTicketsForAllCargoItems, whatever tickets there are
CreateSellTicketsForAllCargoItems ==
  /\ At("CreateSellTicketsForAllCargoItems")
  /\ IF \E g \in InCargo(ship.cargo) : DeliverTo[g] = Nowhere
     THEN Fail /\ UNCHANGED tickets
     ELSE /\ tickets' = Added(UNION {InBatches("Sell", DeliverTo[g], g, ship.cargo.inv[g], Volume[g]) :
                                       g \in InCargo(ship.cargo)})
          /\ Succeed
  /\ UNCHANGED <<task, server, ship, ops, db, call, faults, refused>>

\* check_contract_affordability: an error when nobody sells a good; whether the
\* fleet can pay is a fault's choice
CanAffordContract ==
  /\ At("CanAffordContract")
  /\ \/ Suppliers(ship.cargo, ops.contract) # {} /\ Succeed /\ UNCHANGED faults
     \/ Suppliers(ship.cargo, ops.contract) = {} /\ Fail /\ UNCHANGED faults
     \/ Fault("poor") /\ Fail
  /\ UNCHANGED <<task, server, ship, ops, db, tickets, call, refused>>

\* ShipAction::CreateContractTicketsIfNecessary: the tickets are created first,
\* then the budget that their reservations have reduced is compared
CreateContractTicketsIfNecessary ==
  /\ At("CreateContractTicketsIfNecessary")
  /\ IF tickets # <<>> THEN Succeed /\ UNCHANGED <<tickets, faults>>
     ELSE \/ /\ \E supplier \in Suppliers(ship.cargo, ops.contract),
                   customer \in Customers(ship.wp, Nowhere) :
                  tickets' = Added(ContractTickets(ship.cargo, ship.hold, ops.contract, supplier, customer))
             /\ \/ Succeed /\ UNCHANGED faults
                \/ Fault("poor") /\ Fail
          \/ /\ Suppliers(ship.cargo, ops.contract) = {}
             /\ Fail /\ UNCHANGED <<tickets, faults>>
  /\ UNCHANGED <<task, server, ship, ops, db, call, refused>>

-----------------------------------------------------------------------------
(* Leaves that ask the server *)

Unwanted == InCargo(ship.cargo) \ Wanted

Jettisons == {"JettisonInvaluableMinerals", "JettisonInvaluableCarboHydrates"}

\* the cargos a hauler may leave the mining site with
FilledCargos(hold) ==
  {c \in [units : {hold}, inv : [Goods -> 0..hold]] :
     /\ MapThenSumSet(LAMBDA g : c.inv[g], Goods) = hold
     /\ InCargo(c) \subseteq Wanted}

\* what a miner may hand to haulers
Emptied(cargo, given) == [inv |-> [g \in Goods |-> IF g \in given THEN 0 ELSE cargo.inv[g]],
                          units |-> cargo.units - MapThenSumSet(LAMBDA g : cargo.inv[g], given)]

\* the worlds the request of a leaf may leave behind
Asked(leaf) ==
  CASE leaf = "Dock"               -> DockShip(server)
    [] leaf = "Orbit"              -> OrbitShip(server)
    [] leaf = "SetFlightMode"      -> SetFlightMode(server, CurrentTravelAction.mode)
    [] leaf = "NavigateToWaypoint" -> NavigateShip(server, CurrentTravelAction.to)
    [] leaf = "Refuel"             -> RefuelShip(server, ship.tank - ship.fuel)
    [] leaf = "SiphonResources"    -> SiphonResources(server)
    [] leaf = "ExtractResources"   -> IF db.survey THEN ExtractResourcesWithSurvey(server)
                                                   ELSE ExtractResources(server)
    [] leaf = "Survey"             -> Survey(server)
    [] leaf \in Jettisons          -> UNION {JettisonCargo(server, g, ship.cargo.inv[g]) : g \in Unwanted}
    [] leaf = "CollectWaypointInfos" -> IF ship.wp \in db.charted THEN {server} ELSE CreateChart(server)
    [] leaf = "NegotiateContract"  -> UNION {NegotiateContract(server, offer) : offer \in task.offers}
    [] leaf = "AcceptContract"     -> AcceptContract(server)
    [] leaf = "FulfilContract"     -> FulfillContract(server)
    [] leaf = "AttemptCargoTransfer" ->
         {[server EXCEPT !.ship.cargo = Emptied(@, given)] : given \in SUBSET InCargo(server.ship.cargo)}
    [] leaf = "AnnounceHaulerReadyForPickup" ->
         {[server EXCEPT !.ship.cargo = c] : c \in FilledCargos(ship.hold)}

Asks == {"Dock", "Orbit", "SetFlightMode", "NavigateToWaypoint", "Refuel", "SiphonResources",
  "ExtractResources", "Survey", "CollectWaypointInfos", "NegotiateContract", "AcceptContract",
  "FulfilContract", "AttemptCargoTransfer", "AnnounceHaulerReadyForPickup"} \cup Jettisons

\* a leaf with nothing to ask for
NothingToAsk ==
  /\ Ready /\ Row.name \in Jettisons /\ Unwanted = {}
  /\ \/ /\ db' = IF Row.name = "JettisonInvaluableCarboHydrates" THEN [db EXCEPT !.ship = ship] ELSE db
        /\ Succeed /\ UNCHANGED faults
     \/ /\ Row.name = "JettisonInvaluableCarboHydrates" /\ Fault("unsaved")
        /\ Fail /\ UNCHANGED db
  /\ UNCHANGED <<task, server, ship, ops, tickets, call, refused>>

MayAsk ==
  /\ Ready /\ Row.name \in Asks
  /\ Row.name \in Jettisons => Unwanted # {}
  /\ Row.name \in {"SetFlightMode", "NavigateToWaypoint"} => Navigating

\* the server executes the request
Execute ==
  /\ MayAsk
  /\ server' \in Asked(Row.name)
  /\ call' = [NoCall EXCEPT !.step = "answer"]
  /\ UNCHANGED <<task, ship, ops, db, tickets, pc, faults, refused>>

\* 4224: the miner strikes the survey off and asks again
SurveyIsExhausted == Row.name = "ExtractResources" /\ db.survey /\ CanExtract(server)

Refuse ==
  /\ MayAsk /\ Asked(Row.name) = {}
  /\ IF SurveyIsExhausted THEN db' = [db EXCEPT !.survey = FALSE] /\ UNCHANGED <<pc, refused>>
     ELSE /\ db' = IF Row.name = "Survey" THEN [db EXCEPT !.ship = ship] ELSE db
          /\ Fail
          /\ refused' = IF faults = NoFaults
                        THEN refused \cup {[leaf |-> Row.name, status |-> server.ship.status]} ELSE refused
  /\ UNCHANGED <<task, server, ship, ops, tickets, call, faults>>

\* errors of a transfer are only printed
EndWithError == pc' = IF Row.name = "AttemptCargoTransfer" THEN Row.ok ELSE Row.err

RequestFails ==
  /\ MayAsk
  /\ Fault("fails")
  /\ EndWithError
  /\ UNCHANGED <<task, server, ship, ops, db, tickets, call, refused>>

AnswerIsLost ==
  /\ pc > 0 /\ call.step = "answer"
  /\ Fault("lost")
  /\ call' = NoCall
  /\ EndWithError
  /\ UNCHANGED <<task, server, ship, ops, db, tickets, refused>>

\* mutant of TakenOver: the fuel of a navigation is not taken over
TakenOverNavOnly(leaf) ==
  LET s   == server.ship
      nav == [ship EXCEPT !.wp = s.wp, !.status = s.status, !.mode = s.mode, !.flying = s.flying]
  IN  CASE leaf \in {"Dock", "Orbit", "SetFlightMode", "NavigateToWaypoint"} -> nav
        [] leaf = "Refuel"                                        -> [ship EXCEPT !.fuel = s.fuel]
        [] leaf \in {"SiphonResources", "ExtractResources"}       -> [ship EXCEPT !.cargo = s.cargo, !.hot = TRUE]
        [] leaf = "Survey"                                        -> [ship EXCEPT !.hot = TRUE]
        [] leaf \in Jettisons \cup {"AttemptCargoTransfer", "AnnounceHaulerReadyForPickup"}
                                                                  -> [ship EXCEPT !.cargo = s.cargo]
        [] OTHER                                                  -> ship

\* what the ship takes over from the answer
TakenOver(leaf) ==
  LET s   == server.ship
      nav == [ship EXCEPT !.wp = s.wp, !.status = s.status, !.mode = s.mode, !.flying = s.flying]
  IN  CASE leaf \in {"Dock", "Orbit"}                             -> nav
        [] leaf \in {"SetFlightMode", "NavigateToWaypoint"}       -> [nav EXCEPT !.fuel = s.fuel]
        [] leaf = "Refuel"                                        -> [ship EXCEPT !.fuel = s.fuel]
        [] leaf \in {"SiphonResources", "ExtractResources"}       -> [ship EXCEPT !.cargo = s.cargo, !.hot = TRUE]
        [] leaf = "Survey"                                        -> [ship EXCEPT !.hot = TRUE]
        [] leaf \in Jettisons \cup {"AttemptCargoTransfer", "AnnounceHaulerReadyForPickup"}
                                                                  -> [ship EXCEPT !.cargo = s.cargo]
        [] OTHER                                                  -> ship

\* and writes to the tables; JettisonInvaluableMinerals does not write the ship
Written(leaf) ==
  CASE leaf = "CollectWaypointInfos" -> IF ship.wp \in db.charted THEN [db EXCEPT !.seen = @ \cup {ship.wp}]
                                        ELSE [db EXCEPT !.charted = @ \cup {ship.wp}]
    [] leaf \in {"NegotiateContract", "AcceptContract", "FulfilContract"}
                                     -> [db EXCEPT !.contract = server.contract]
    [] leaf = "Survey"               -> [db EXCEPT !.ship = TakenOver(leaf), !.survey = TRUE]
    [] leaf \in Jettisons            -> db
    [] OTHER                         -> [db EXCEPT !.ship = TakenOver(leaf)]

\* CollectWaypointInfos and the jettison leaves have more than one request
HasMoreToAsk(leaf) ==
  \/ leaf \in Jettisons
  \/ leaf = "CollectWaypointInfos" /\ ship.wp \notin db.charted

\* what an error after the answer leaves in the tables: statements that follow
\* the ship's (the survey, the critical limit) or a report to the treasurer may fail
PartlyWritten(leaf) ==
  CASE leaf \in {"Refuel", "ExtractResources"} -> {db, Written(leaf)}
    [] leaf = "Survey"                         -> {db, [db EXCEPT !.ship = TakenOver(leaf)]}
    [] OTHER                                   -> {db}

\* the ship in memory knows the answer, whether or not it can be saved
Answer ==
  /\ pc > 0 /\ call = [NoCall EXCEPT !.step = "answer"]
  /\ ship' = TakenOver(Row.name)
  /\ ops' = IF Row.name \in {"NegotiateContract", "AcceptContract", "FulfilContract"}
            THEN [ops EXCEPT !.contract = server.contract] ELSE ops
  /\ call' = NoCall
  /\ \/ /\ \/ db' = Written(Row.name) /\ UNCHANGED faults
           \/ /\ Row.name = "ExtractResources" /\ Fault("critical")
              /\ db' = [Written(Row.name) EXCEPT !.critical = TRUE]
        /\ pc' = IF HasMoreToAsk(Row.name) THEN pc ELSE Row.ok
     \/ /\ Row.name \notin Jettisons /\ Fault("unsaved")
        /\ db' \in PartlyWritten(Row.name)
        /\ Fail
  /\ UNCHANGED <<task, server, tickets, refused>>

-----------------------------------------------------------------------------
(* ShipAction::PerformTradeActionAndMarkAsCompleted *)

\* find_completable_tickets_based_on_ship_state
Completable(t) ==
  /\ t.wp = ship.wp
  /\ CASE t.kind = "Purchase"                    -> Fits(ship.cargo, ship.hold, t.units)
       [] t.kind \in {"Sell", "Deliver", "Supply"} -> Carries(t)
       [] t.kind = "Ship"                        -> TRUE

Traded(t) ==
  CASE t.kind = "Purchase" -> PurchaseTradeGood(server, t.good, t.units)
    [] t.kind = "Sell"     -> SellTradeGood(server, t.good, t.units)
    [] t.kind = "Ship"     -> PurchaseShip(server, t.wp)
    [] t.kind = "Supply"   -> SupplyConstructionSite(server, t.good, t.units, t.wp)
    [] t.kind = "Deliver"  -> DeliverCargoToContract(server, t.good, t.units)

TradeLeaf == "PerformTradeActionAndMarkAsCompleted"

ExecuteTrade ==
  /\ At(TradeLeaf)
  /\ \E t \in DOMAIN tickets :
       /\ Completable(t)
       /\ \/ /\ server' \in Traded(t)
             /\ tickets' = [tickets EXCEPT ![t] = @ + 1]
             /\ call' = [step |-> "answer", ticket |-> t]
             /\ UNCHANGED <<pc, faults, refused>>
          \/ /\ Traded(t) = {}
             /\ Fail
             /\ refused' = IF faults = NoFaults
                           THEN refused \cup {[leaf |-> t.kind, status |-> server.ship.status]} ELSE refused
             /\ UNCHANGED <<server, tickets, call, faults>>
          \/ /\ Fault("fails") /\ Fail
             /\ UNCHANGED <<server, tickets, call, refused>>
  /\ UNCHANGED <<task, ship, ops, db>>

NoTradeLeft ==
  /\ At(TradeLeaf) /\ \A t \in DOMAIN tickets : ~Completable(t)
  /\ Succeed
  /\ UNCHANGED <<task, server, ship, ops, db, tickets, call, faults, refused>>

Completed(t) == [x \in DOMAIN tickets \ {t} |-> tickets[x]]

Received(t) == IF t.kind = "Ship" THEN ship ELSE [ship EXCEPT !.cargo = server.ship.cargo]

\* mutant of TradeAnswered: supplies are stored, and never completed
TradeAnsweredUncompleted ==
  /\ pc > 0 /\ call.step = "answer" /\ call.ticket # NoTicket
  /\ ship' = Received(call.ticket)
  /\ db' = [db EXCEPT !.ship = ship']
  /\ call' = NoCall
  /\ UNCHANGED <<task, server, ops, tickets, pc, faults, refused>>

\* an error after the server has traded ends the leaf: tables hold what was
\* written before it, the ticket stays active unless it was completed before
TradeEndsEarly(tables, active) ==
  /\ Fault("unsaved") /\ Fail
  /\ db' \in tables /\ tickets' \in active
  /\ call' = NoCall

\* purchases and sales are stored before their ticket is completed, supplies
\* and deliveries after; a purchased ship is not stored here
TradeAnswered ==
  /\ pc > 0 /\ call.step = "answer" /\ call.ticket # NoTicket
  /\ LET t == call.ticket
         signed == IF t.kind = "Deliver" THEN [db EXCEPT !.contract = server.contract] ELSE db
     IN  /\ ship' = Received(t)
         /\ \/ /\ IF t.kind \in {"Purchase", "Sell"}
                 THEN /\ db' = [db EXCEPT !.ship = ship']
                      /\ call' = [call EXCEPT !.step = "complete"]
                      /\ UNCHANGED tickets
                 ELSE /\ db' = signed
                      /\ tickets' = Completed(t)
                      /\ call' = IF t.kind = "Ship" THEN NoCall ELSE [call EXCEPT !.step = "store"]
              /\ UNCHANGED <<pc, faults>>
            \/ TradeEndsEarly({db, signed}, IF t.kind \in {"Purchase", "Sell"} THEN {tickets}
                                            ELSE {tickets, Completed(t)})
  /\ UNCHANGED <<task, server, ops, refused>>

\* complete_ticket fails when the fleet is gone
TradeCompleted ==
  /\ pc > 0 /\ call.step = "complete"
  /\ \/ /\ tickets' = Completed(call.ticket)
        /\ call' = NoCall
        /\ UNCHANGED <<db, pc, faults>>
     \/ TradeEndsEarly({db}, {tickets, Completed(call.ticket)})
  /\ UNCHANGED <<task, server, ship, ops, refused>>

TradeStored ==
  /\ pc > 0 /\ call.step = "store"
  /\ \/ /\ db' = [db EXCEPT !.ship = ship]
        /\ call' = NoCall
        /\ UNCHANGED <<tickets, pc, faults>>
     \/ TradeEndsEarly({db, [db EXCEPT !.ship = ship]}, {tickets})
  /\ UNCHANGED <<task, server, ship, ops, refused>>

-----------------------------------------------------------------------------
(* The fiber and the clock *)

\* tasks whose ship gets the same task again
Recurring == {"contract", "siphon", "haul", "mine", "survey", "observe"}

\* FleetRunner::behavior_runner, when the fiber is launched or launched again
Launch ==
  /\ \/ pc = Failed
     \/ pc = Ok /\ task.kind \in Recurring
  /\ pc' = Programs[task.kind].start
  /\ ops' = CASE task.kind = "preposition" -> [ops EXCEPT !.dest = task.to]
              [] task.kind = "explore"     -> [ops EXCEPT !.explore = task.explore]
              [] task.kind = "contract"    -> IF db.contract.signed = "none" THEN ops
                                              ELSE [ops EXCEPT !.contract = db.contract]
              [] OTHER                     -> ops
  /\ OnlyOps

\* the process ends, and the ship starts again as the table has it
Crash ==
  /\ Fault("crash")
  /\ ship' = db.ship
  /\ ops' = NewOps
  /\ call' = NoCall
  /\ pc' = Failed
  /\ UNCHANGED <<task, server, db, tickets, refused>>

Arrive ==
  /\ server.ship.flying
  /\ server' = [server EXCEPT !.ship.flying = FALSE]
  /\ ship' = [ship EXCEPT !.flying = FALSE]
  /\ db' = [db EXCEPT !.ship.flying = FALSE]
  /\ UNCHANGED <<task, ops, tickets, pc, call, faults, refused>>

CoolDown ==
  /\ server.ship.hot \/ ship.hot
  /\ server' = [server EXCEPT !.ship.hot = FALSE]
  /\ ship' = [ship EXCEPT !.hot = FALSE]
  /\ db' = [db EXCEPT !.ship.hot = FALSE]
  /\ UNCHANGED <<task, ops, tickets, pc, call, faults, refused>>

ObservationTimeComes ==
  /\ ~ops.due
  /\ ops' = [ops EXCEPT !.due = TRUE]
  /\ UNCHANGED <<task, server, ship, db, tickets, pc, call, faults, refused>>

Init ==
  /\ task \in Tasks
  /\ server = [ship |-> task.ship, site |-> [g \in Goods |-> 0], bought |-> 0,
               charted |-> task.charted, contract |-> NoContract, survey |-> NoSurvey]
  /\ ship = task.ship
  /\ ops = NewOps
  /\ db = [ship |-> task.ship, charted |-> task.charted, seen |-> {},
           contract |-> NoContract, survey |-> FALSE, critical |-> FALSE]
  /\ tickets = [t \in task.tickets |-> 0]
  /\ pc = Failed
  /\ call = NoCall
  /\ faults = NoFaults
  /\ refused = {}

ShipStep ==
  \/ Look \/ WaitForArrival \/ WaitForCooldown \/ SleepUntilNextObservationTimeOrTicket
  \/ FixNavStatusIfNecessary \/ MarkTravelActionAsCompleteIfPossible
  \/ PopExploreLocationAsDestination \/ RemoveDestination \/ SetSiteAsDestination
  \/ SetNextObservationTime \/ ComputePathToDestination
  \/ SetNextTradeStopAsDestination \/ CreateSellTicketsForAllCargoItems
  \/ CanAffordContract \/ CreateContractTicketsIfNecessary
  \/ NothingToAsk \/ Execute \/ Refuse \/ Answer
  \/ ExecuteTrade \/ NoTradeLeft \/ TradeAnswered \/ TradeCompleted \/ TradeStored
  \/ Launch

Next ==
  \/ ShipStep
  \/ RequestFails \/ AnswerIsLost \/ Crash
  \/ Arrive \/ CoolDown \/ ObservationTimeComes

Spec == Init /\ [][Next]_vars

SiphonsWanted ==
  /\ At("SiphonResources") /\ Execute
  /\ \E g \in Wanted : server'.ship.cargo.inv[g] > server.ship.cargo.inv[g]

\* the runtime polls the fiber, launches it again and the clock goes on; the
\* gases that are wanted are among the yields again and again
FairSpec ==
  /\ Spec
  /\ WF_vars(ShipStep) /\ WF_vars(Arrive) /\ WF_vars(CoolDown) /\ WF_vars(ObservationTimeComes)
  /\ SF_vars(SiphonsWanted)
-----------------------------------------------------------------------------
(* Properties *)

\* Nothing but a lost answer or a crash comes between the server and the ship
Informed == faults.lost = 0 /\ faults.crash = 0

\* The planner's routes can be flown: at no hop does the ship, as the server
\* has it, leave with less fuel than the hop takes (compute_path,
\* execute_refuel_travel_action; the server lets such a ship go).
NeverOutOfFuel == Informed /\ ship.tank > 0 => server.ship.fuel >= 0

SamePlace(a, b) == a.wp = b.wp /\ a.fuel = b.fuel /\ a.mode = b.mode

SameStatus(seen, real) ==
  \/ seen.status = real.status
  \/ seen.status = "InOrbit" /\ real.status = "InTransit" /\ ~real.flying

\* Between two requests the ship in memory is the ship of the server, but for
\* an arrival that FixNavStatusIfNecessary notes in memory alone, and the table
\* has its place and its fuel unless a statement has failed: each leaf takes over
\* the parts that its answer carries, and the parts it leaves are the ones the
\* request cannot change.
ShipKnowsItself ==
  Informed /\ call = NoCall =>
    /\ SamePlace(ship, server.ship)
    /\ faults.unsaved = 0 => SamePlace(db.ship, server.ship)
    /\ SameStatus(ship, server.ship)
    /\ ship.cargo = server.ship.cargo

\* The trees ask for nothing the server refuses: never does a ship ask to dock
\* when it is docked, leave a dock without orbiting, sell what it does not have
\* or buy above the trade volume, when no fault has come before.  The one
\* refusal is the extraction or survey of a ship whose arrival only the ship
\* has noted.
AsksAreAccepted ==
  \A r \in refused : r.leaf \in {"ExtractResources", "Survey"} /\ r.status = "InTransit"

\* A ticket is executed once, and once more for each fault between the server's
\* execution and the report of its completion: a lost answer, a crash, a statement
\* or the completion itself that fails.  Until it is reported the ticket stays
\* active, and the next run of the tree executes it again; nothing else makes it.
TicketsAreExecutedOnce ==
  \A t \in DOMAIN tickets : tickets[t] <= 1 + faults.lost + faults.crash + faults.unsaved

\* What the tickets sell is on board: a ship that has created sell tickets for
\* its cargo delivers all of it before it fills its hold and creates more.  Only
\* without faults: after an interrupted delivery the ship may fill its hold and
\* create the tickets again, and one half of them is never covered.
SellTicketsAreCovered ==
  faults = NoFaults /\ call = NoCall =>
    \A g \in Goods :
      MapThenSumSet(LAMBDA t : t.units,
                    {t \in DOMAIN tickets : t.kind = "Sell" /\ t.good = g /\ t.after = 0})
        <= ship.cargo.inv[g]

\* its fuel takes the ship there
Reaches(s, to) ==
  CostToGoal[to, s.tank][[wp |-> s.wp, fuel |-> AsUnsigned(s.fuel)]] < Unreachable

\* A ship forgets its destination only over it: navigate_to_destination
\* succeeds after all its travel actions, and they end at the destination.
\* PrintTravelActions makes it succeed without a route as well, when there is
\* none or the planner could not read the table.
ForgetsOnlyAfterArriving ==
  [][At("RemoveDestination") /\ ops.dest # Nowhere /\ ops'.dest = Nowhere
     /\ Informed /\ faults.unread = 0 /\ Reaches(server.ship, ops.dest)
       => server.ship.wp = ops.dest /\ ~InFlight(server.ship)]_vars

\* The goal of a task that ends
Done ==
  CASE task.kind = "preposition" -> ship.wp = task.to /\ IsStationary(ship)
    [] task.kind = "explore"     -> \A i \in DOMAIN task.explore : task.explore[i] \in db.seen
    [] task.kind = "trade"       -> tickets = <<>>
    [] OTHER                     -> TRUE

OnlyFails == \A k \in FaultKinds \ {"fails"} : faults[k] = 0

WithinReach == task.kind = "preposition" => Reaches(task.ship, task.to)

\* A task that ends gets done although requests fail: the tree is run again
\* from its first leaf, and the queue of travel actions, the destination and
\* the tickets bring it back to where it failed (fleet_runner.rs, relaunch_ship).
TasksGetDone == []OnlyFails /\ WithinReach => <>Done

\* what the contracts require is sold somewhere, and what is on board delivered
Feasible ==
  /\ \A offer \in task.offers : \A g \in Goods : offer.required[g] > 0 => \E w \in Waypoints : g \in Supplies[w]
  /\ task.kind = "haul" => \A g \in InCargo(task.ship.cargo) : DeliverTo[g] \in Waypoints

Works(kind) == task.kind = kind /\ Feasible /\ task.faults = NoFaults

\* A ship with a recurring task never gets stuck: without faults the siphon
\* ship and the hauler fill and empty their hold again and again, the
\* contractor fulfils contracts and accepts the next ones, the observer observes.
ShipsKeepWorking ==
  /\ Works("siphon") \/ Works("haul") =>
       []<>(ship.cargo = EmptyCargo) /\ []<>(ship.cargo # EmptyCargo)
  /\ Works("contract") =>
       /\ []<>(server.contract.signed = "fulfilled")
       /\ []<>(server.contract.signed = "accepted")
  /\ Works("observe") => []<>(ops.due) /\ []<>(~ops.due)
=============================================================================
