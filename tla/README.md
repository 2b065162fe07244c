# Formal verification of the SpaceTraders agent

TLA+ models of the agent in `src/` (a Rust program that plays the SpaceTraders
game through its HTTP API), the TLC runs that check them on small instances,
and theorems that TLAPS checks for every value of the constants.

`PROJECT.json` maps every definition to the lines of the source it models and
lists the runs, the mutants that show each property can fail, the findings, the
hazards of the code and the theorems.

## 1. The system

| part | source | state | operations |
|---|---|---|---|
| Treasurer | `st-domain/src/budgeting/treasury_redesign.rs` | treasury fund, a budget per fleet, active and completed tickets, the ledger | create/complete tickets, report expenses and income, move funds, create/remove fleets, replay |
| Ledger archive | `treasury_redesign.rs` (`with_treasurer`), `fleet.rs` (`initialize_treasurer`), `st-store/src/ledger_bmc.rs` | channel of archive tasks, table `ledger_entries` | archive one entry, acknowledge, read in order |
| FleetAdmiral | `st-core/src/fleet/fleet.rs` | fleets, ships and their fleets and tasks, purchase demand, phase | load or create, redistribute budgets, compute tasks, dismantle fleets, buy ships |
| FleetRunner | `st-core/src/fleet/fleet_runner.rs` | a fiber per ship, message channels | launch and restart fibers, handle ship reports |
| Behaviour trees | `st-core/src/behavior_tree/*.rs`, `ship.rs` | the ship's nav, cargo, fuel, route | one action per leaf: navigate, dock, refuel, trade, mine, ... |
| TransferCargoManager | `st-core/src/transfer_cargo_manager.rs`, `st-domain/src/cargo_transfer.rs` | waiting suppliers and haulers | register, match, transfer |
| Contracts | `st-core/src/contract_manager.rs` | the youngest contract | negotiate, accept, buy, deliver, fulfil |
| Fleet strategies | `construction_fleet.rs`, `mining_fleet.rs`, `siphoning_fleet.rs`, `market_observation_fleet.rs`, `system_spawning_fleet.rs` | none (functions of the admiral's state) | assign tasks to ships |
| Supply chain | `supply_chain.rs`, `materialized_supply_chain_manager.rs` | one materialized chain per system | materialize, register |
| AgentManager | `agent_manager.rs`, `agent.rs`, `reqwest_helpers.rs`, `st-store/src/db.rs` | the running agent's handle, reset signals, the schema and its archives | archive a past reset, register, collect the initial data, start, restart |
| Database layer | `st-store` | tables | upserts, queries |
| Pathfinder | `st-core/src/pathfinder/pathfinder.rs` | none | a route with flight modes and refuelling |
| Universe server | `st-core/src/universe_server` | the test double of the game: ships, markets, sites | the requests of the API |
| Web UI | `st-server` | none | reads |

How they interact.  The admiral sits behind a tokio mutex.  One fiber per ship
runs a behaviour tree; every action calls the game server and afterwards updates
the database and reports to the treasurer.  The treasurer sits behind a mutex of
its own, shared by all fibers and the admiral.  Fibers send messages to three
listener tasks; the ship status listener takes the admiral's lock and lets the
admiral compute new tasks.  The process may stop at any await; what survives is
the database: the ledger, the ships, the fleets and their assignments.

What is hard.  A ship changes the world (the server) first and the books
afterwards, so that a crash or an error in between leaves them apart.  An
operation of the treasurer is a sequence of ledger entries without a rollback.
Removing and re-creating the fleets happens while ships fly with tickets.  A
restart replays a ledger that lacks what failed.  The admiral's tables are written
statement by statement, and a crash may fall between any two.  A ship has a fiber,
a registered handle, a task and a fleet, kept in four places and changed by a
listener and a restart task that works on copies.  Credits are signed, fleets may
owe, and one cast to `u32` turns a negative quotient into a large quantity.
A ship is known at the server, in the memory of its fiber and in a table; a
leaf of its tree that asks the server takes over only the part that its answer
carries, and the tree is run again from its first leaf when any of them fails.
Miners and haulers wait for each other on summaries of each other's cargo.  The
construction site has a copy in the database that is written last, while the next
supplies are planned from it.  A reset of the server ends a world, its database
and its token at once, between any two statements of a start.

What makes each part correct.

| part | properties |
|---|---|
| Treasurer | credits are conserved, the fund is never negative, reservations belong to tickets, a restart agrees with the server |
| Ledger archive | entries in order, none twice, a call all or nothing unless the process stops, every call returns |
| FleetAdmiral | fleets are those of the phase, each ship in one, demand is what is missing, tables and memory agree |
| FleetRunner | a tasked ship runs its task, a bought ship is launched, listeners live, one report per finished task |
| Behaviour trees | the server accepts what a leaf asks for; routes can be flown; a ship that is sent somewhere arrives; a ticket is executed once |
| TransferCargoManager | nobody waits while a partner waits; planned transfers are accepted |
| Contracts | its tickets are executed once, the contractor goes on to the next |
| Construction fleet | plans are affordable and fit, deliveries are backed by cargo, no ship waits for ever, the gate is built |
| AgentManager | one run of the fleets, data of one reset only, the token is kept, a start recovers from what a crash left |

## 2. Modules

| module | models |
|---|---|
| `ImprovedTreasurer` | the treasurer's data: `process_ledger_entry` as `Accepts`/`Process`, every operation as a function from a call record to a call record |
| `Treasurer` | the calls of ships and admiral, the server's credits, crash, replay, reset and start-up |
| `MCTreasurer` | instances for TLC |
| `FiniteSums` | lemmas about sums and folds over finite sets, missing from the library |
| `TreasurerProofs` | what one ledger entry and each operation preserves; the inductive invariants about credits and about tickets; their theorems |
| `LedgerArchive` | `with_treasurer`, the archiver task and the table of entries, step by step |
| `AtomicLedger` | what a caller of `with_treasurer` sees |
| `MCLedgerArchive`, `LedgerArchiveProofs` | its instances for TLC, its theorems |
| `FleetPlan` | phases, shopping lists, purchase demand, assignment of ships: pure |
| `FleetGrowth`, `MCFleetGrowth`, `FleetGrowthProofs` | the plan over the life of an agent, its instance, its theorem |
| `FleetRunner`, `MCFleetRunner`, `FleetRunnerProofs` | fibers, listeners, the admiral and its tables, its instances, its theorems |
| `Cargo` | a ship's cargo with its total, batches of a volume: pure |
| `TransferCargo`, `MCTransferCargo`, `TransferCargoProofs` | miners and haulers at a site, the transfer manager, its instance, its theorems |
| `Pathfinder` | the route planner: pure |
| `ContractTickets` | the tickets of a contract: pure, on `Cargo` and `Pathfinder` |
| `UniverseServer` | the requests of a ship and their checks, on `ContractTickets` |
| `BehaviorTree`, `ShipBehaviors` | the engine, every tree as data |
| `ShipTrees`, `MCShipTrees` | composes server, trees and planner: a ship executes its task, its instances |
| `ConstructionPlan` | deliveries, support and trades for idle ships: pure, on `Cargo` |
| `ConstructionFleet`, `MCConstructionFleet`, `ConstructionFleetProofs` | the fleet at work on these plans, its instances, its theorems |
| `AgentLifecycle`, `MCAgentLifecycle`, `AgentLifecycleProofs` | the agent across resets and restarts, its instance, its theorems |

### ImprovedTreasurer and Treasurer

State.  A treasurer is a record with the fields of `ImprovedTreasurer`; the maps
of budgets are functions on `Fleets` that are 0 where no fleet exists, and
`fleets` holds the keys.  The list `ledger_entries` is not kept: what is needed of
it is what replaying the archived part gives, which is the variable `archived`
(and `replays`, whether `from_ledger` accepts it).  Each operation runs on a
*call record* `[ok, t, a, replays]`: the treasurer in memory and the treasurer
of the archive advance by the same entries.  `Commit` is `with_treasurer`: memory
always keeps what the operation did, the archive only if it returned Ok.

Atomicity.  `with_treasurer` holds the mutex from before the operation until the
last entry is acknowledged, so that a call is one step.  That its entries reach
the database in order, one by one, and that a crash may hit between two of them,
is the subject of the ledger archive.

The server.  `agent_credits` is the agent's money at the game server.  A ship's
trade, refuelling or contract reward is two steps: `ServerMoves` changes it, the
report to the treasurer comes later, with anything in between.

The admiral is one sequential caller (its lock is held over a whole status
message): `admiral` and `todo` hold the rest of the current sequence.  The `?`
operator drops the rest after an Err.  `DismantleFleet` compares the agent's credits
before and after, in two calls, and a difference is a panic (`admiral = "gone"`): the
ships go on, no report is handled until the next start.  The difference is that of the
removed fleet's debt, or what another ship has reported between the two calls; with a
second ship both outcomes are possible.

Contract tickets.  `create_multiple_tickets` requires the price of all tickets, those of
a sale of excess cargo among them, and reserves it.  A call of the model creates two, a
purchase with its delivery or a delivery with a sale (`ContractKinds`); one with more of
them repeats the entries of the second.

Start-up.  `Crash` at any point leaves the database.  `Replay` or
`ReplayPanics`, then the two calls of the reset if the credits differ, then
`remove_tickets_with_0_units`, then the redistribution of budgets.

External code is the game server only (`ServerTotal`, `ServerMoves`).

### AtomicLedger and LedgerArchive

`LedgerArchive` opens up one call of `with_treasurer`: a caller queues for the
mutex (`Enqueue`, `Lock`), the operation appends entries to the log (`Operate`), the
entries of a call that returned Ok are sent to the archiver one at a time, each
with a channel for its answer (`SendTask`), the archiver takes a task
(`ReceiveTask`), inserts a row and answers (`InsertAndAnswer`), and the caller takes
the answer, whatever it says, before it sends the next one (`ReceiveAnswer`).  The
mutex is held throughout.  `Crash` and `Replay` are those of the process.

`AtomicLedger` is what the callers rely on: a call is one step, a crash in the middle
of one leaves a beginning of its entries, and an archived call lacks only what the
database has refused (`refused`, a history variable of both modules).
`CallsAreAtomic` is the refinement: the entries of the call under way are taken out
of the archive, of the log in memory and of `refused` until its last answer is there
(`SettledArchive`, `SettledMemory`, `SettledMade`, `InCall`), and all appear in that
one step.  `Treasurer` is coarser at two points: it archives a
call in one step also when the process crashes, and no insert fails there.

### FleetPlan and FleetGrowth

`FleetPlan` holds the pure part of `fleet.rs`: the phase from the facts and the
completed tasks, the fleets of a phase, its shopping list, the walk that finds the
ships still to be bought (`NextShipPurchases`), and the maps `assign_ships` may
return (`ShipAssignments`).  A `HashMap` yields its entries in an unknown order;
`MatchingShips` and `Picks` have every choice, with the one restriction that clones
of a map yield the same order.  A fleet is named by the task it was created for;
ids are left out.

`FleetGrowth` lets an agent work off its lists, go from phase to phase and be
restarted, which is where the pure part is checked with ten ships.  An entry leaves the
demand when its ticket is created (`CreateTicket`), or is lost when a lookup fails
(`LoseEntry`); a ship executes the ticket (`Purchase`), and with the report of that the
new ship joins the admiral (`Register`).  A new phase (`Advance`) and a start (`Restart`)
may come at any point in between and compute the demand from the ships the admiral has;
`drifted` remembers that an entry was lost, or that this was done with a ticket active or
a ship on its way.

### FleetRunner

| variable | code |
|---|---|
| `owned`, `tickets`, `explored` | ships at the server, active `PurchaseShip` tickets of the treasurer, whether every market and shipyard has up-to-date data |
| `db` | tables of ships, fleets, fleet tasks, ship-fleet assignment, ship tasks, completed tasks |
| `admiral` | the fields of `FleetAdmiral`; `budgets` are the fleets with one in the treasurer |
| `todo`, `report` | what is left of the function that holds the admiral's mutex, and the message it works on |
| `launching`, `relaunching` | the loop of `run_fleets` over its copies; the idle ships that the status listener starts one after the other |
| `ship_ops`, `fibers` | the maps of `FleetRunner`; `fibers[s]` also has the fibers whose `JoinHandle` was replaced and that still run |
| `sweep` | the copies of the restart task |
| `actions`, `reports` | the two channels |
| `dead` | tasks that have panicked or returned |

A fiber runs a behaviour (`Explore`, `BuyShip`), ends it (`FinishBehaviour`,
`BehaviourFails`) and sends its report (`SendReport`).  The action listener forwards
(`ForwardAction`).  The status listener takes a report (`TakeCollected`,
`TakeExplored`, `TakeTraded`, `TakeMined`, `TakePurchased`), which changes the
admiral and puts the rest of `process_ship_status_report` into `todo`; every step
of `todo` (`Write`, `ComputeTasks`, `Dismantle`, ..., `LaunchNew`) ends at an await, so
that fibers, the restart task, an error, a panic or a crash come in between.  `LaunchIdle`
looks for the idle ships, and `RelaunchIdle` starts one of them, each under the lock of
the runner.  `Dismantle` may panic on a difference in credits after it has removed the
fleet; whether there is one is a choice, the credits being left out.  The
restart task copies (`SweepSnapshot`), looks for idle ships (`SweepFilter`) and starts
them one by one (`SweepRelaunch`).  A start is a list of steps of the same kind.

`Write` refuses a statement that violates a foreign key; `CutOff` gives the tables
after a statement was cut off between two of its rows.

Data left out: positions, routes, cargo and money.  Whether a purchase ticket can
be paid, whether there is a trade for a ship and which free waypoint is observed
are choices (`PurchaseOutcomes`, `NewShipTasks`).  Left out as well: the rows of
stationary probes with their report, the listener that only stores positions, and
the end of the jump gate's construction, so that every `ConstructJumpGate` that is
completed in the model is completed without a gate.  `Create` need not leave out the
ships of stationary probes: it runs while the table of fleets is empty, and a probe is
entered only after there were fleets, all of which are never deleted again.

### Cargo and TransferCargo

`Cargo` is `struct Cargo`: an inventory and the total beside it, with the two
`_mut` operations that refuse, and `Batches`, the split of a quantity by a trade
volume with its trailing batch of 0.

`TransferCargo` has the ships of one mining site.  `server`, `local` and `stored`
are a ship's cargo at the game server, in `ShipOperations` and in the ship table;
`waiting` is `waiting_haulers`, `lock` the mutex that a miner holds over its requests,
`channel` and `updater` the update task of each hauler.  A miner extracts
(`Extract`), jettisons, and with a full hold plans one stack after the other
(`BeginTransfer`, `PlanStack`, `Planned`), then asks the server for one transfer at a
time (`ServerTransfers` or `ServerRefuses`, `Reply` or `ReplyLost`, `EndTransfer`).  A
hauler announces itself (`Announce`), is picked up by its polling loop when it is
more than 80 % full (`PickUp`) and delivers.  A delivery creates a ticket per stack the
ship knows of (`Deliver`; the way to the market is the business of `ShipTrees`), then
`Sell` is the sale at the server and `SaleAnswered` what the ship does with the answer;
`sales` has its tickets, and those of earlier deliveries that were never completed.  A
delivery ends with an error when a request fails or is refused (`DeliveryFails`,
`SaleRefused`), its answer is lost (`SaleLost`), or the upsert or completion after it fails
(`SaleUnsaved`): the first alternative of the hauler's `Select` then falls through to the
second, which announces the filled ship again (`pc` "failed"), and after an error in the
second the fiber starts again.  `StoreUpdate` takes an update from the channel;
`UpdaterPanics` ends the task on its `expect`; `Crash` starts every fiber from the table.
The statements of a miner's leaves and of a pick-up are taken to succeed: those errors
leave a ship that no longer knows its cargo, as the lost reply to a transfer does.

### Pathfinder, ContractTickets and UniverseServer

`Pathfinder` has `compute_path`: the successors of a state of waypoint and fuel,
their cost, and the travel actions of a path.  A* is not run; it returns a path of
least cost, and the assumption `HeuristicIsAdmissible` is what that needs of the
distances.  Among several such paths the model takes any, since their order is that
of a queue and a hash map.  `AsUnsigned` is the cast that makes negative fuel plenty.

`ContractTickets` is `calculate_necessary_tickets_for_contract`: what is still to
be bought, delivered, or sold as excess, in batches.  `UniverseServer` maps a world
and a request to the worlds it may leave: position, fuel, cargo, construction
site, surveys, contract.  A refused request has no world.  Charts and contracts,
`todo!()` in the in-memory universe, follow the answers the agent reads from the
real server.

### BehaviorTree, ShipBehaviors and ShipTrees

`BehaviorTree` compiles a tree to a table: for each leaf, numbered as
`update_indices` does, the leaf that runs next after Ok and after Err.  A program
counter replaces the recursion of `run`.  `ShipBehaviors` is the content of
`ship_behaviors.rs` in the same combinators.

`ShipTrees` runs the tree of one ship's task.

| variable | code |
|---|---|
| `task` | the `ShipTask` with the ship it is given to, chosen at first, with the faults allowed |
| `server` | the world of `UniverseServer` |
| `ship`, `ops` | `ShipOperations`: the ship, and queue of travel actions, destination, explore list, contract |
| `db` | the ship's row, waypoints charted and seen, contract, survey, critical limit |
| `tickets` | active tickets, with how often the server has executed each |
| `pc`, `call` | where `Behavior::run` stands; the request whose answer is on its way |

A leaf that only looks is one step (`Look`).  One that asks is two: `Execute` at the
server (or `Refuse`, `RequestFails`), then `Answer`, which changes `ship`, `ops` and
`db` as that leaf does (`TakenOver`), or `AnswerIsLost`.  A trade is
`ExecuteTrade`, `TradeAnswered`, `TradeCompleted` (the ticket) and `TradeStored`
(the table), with a crash possible between any two; each of them, and `Answer`, may end
with the error of a statement or of the treasurer's completion (the fault `unsaved`): the
ship knows the answer, the row is old and the ticket still active.  `Launch` is
`relaunch_ship` after an error, and the next round of a task that recurs.  `Arrive`
and `CoolDown` are the clock.

### ConstructionPlan and ConstructionFleet

`ConstructionPlan` is the choice made in `construction_fleet.rs` and `trading.rs`:
which materials to deliver, which routes of the supply chain to support, what is
traded with the remaining budget, and which ship does it.  Where the code iterates a
`HashMap`, an operator returns the set of possible results: `WithinBudget` is the set
of the selections one walk over the actions may make.  An action that does not yet
know its ship is a function of the place the ship stands at.

`ConstructionFleet` creates the tickets (`ComputeShipTasks`, used by `FinishTrade`,
`Recompute`, `JoinFleet` and the start after `Crash`) and lets the ships execute
them (`Purchase`, `Sell`, `Supply`).  A supply is three steps: the server and the ticket,
then `UpsertShip`, then `UpdateConstructionSite`, which stores the site that came
with the answer, however old it is by then.  A ship with tickets may `Refuel` at the
fleet's expense, which is what `report_expense` does when the treasury has less than
the fuel costs; `fuel` adds up what the fleet has paid so.  `known` is the stored site, `missing`
the one of the server; plans are made from the former.  `misled` remembers that a
plan was made from a stored site that is out of date or beside cargo that is no
route; `outdated` remembers the ships whose cargo the database had wrong when their
tickets were made.  The admiral's handler is one step, as it holds the admiral's lock.
`TicketsFit` has three parts: the reservations are covered by the capital and what
the fleet has paid for fuel (`PurchasesAreCovered`), a ship's purchases fit its hold together
(`PurchasesFitTogether`), and an admiral that is not misled sends no more to the site
than it is missing (`SuppliesAreNecessary`).

### AgentLifecycle

`mgr` is the state of `AgentManager::run` with the status and the token it works
with; one step per request or statement (`GetStatus`, `Migrate`, `LoadStatus`,
`RenameSchema`, `CreateSchema`, `InsertStatus`, `LoadRegistration`, `Register`,
`SaveRegistration`, `Spawn`), each of which may fail (`InitialisationFails`) or be
the last before a `Crash`.  `agent` is the task it spawns: `AskForAgent`, the initial
data table by table (`CollectShips` with `StoreShips`, `CollectWaypoints` with
`StoreWaypoints`, `CollectMarkets`), `FoundFleets`, `RunFleets`.  Ships and waypoints
take two statements, the first row and the others; `torn` names the tables that have
the first row only.  `run_fleets` is detached: `fleets` counts the running
ones by their token, `FleetAsks` and `FleetStores` are an answer and the row it
becomes.  `db` and `archive` are schemas with the reset whose rows they hold;
`ServerReset` moves the server to the next reset at any point.  `RestartAgent`
follows a signal on `reset_rx`, which nothing in the repository sends after the
start; `SendReset` lets the owner of the manager do so.

## 3. Runs

All runs set CHECK_DEADLOCK FALSE: a process that has panicked or whose start has
failed stays where it is, ships that only observe wait for ever, a task may be done,
and the bounds leave states without a move.

| run | question | instance |
|---|---|---|
| `TreasurerTickets` | does any interleaving of ticket calls, failed ones among them, lose or create a credit (`BooksBalance`), leave reservations that belong to no ticket change (`ReservationsFollowTickets`), or deactivate the ticket a ship has executed and not yet reported (`TicketInFlightIsActive`)? | 2 fleets, one of them dismantled, 2 ships, 2 tickets, prices 1 and 2 |
| `TreasurerRestarts` | can the treasury be overdrawn, across restarts from ledgers that lack the entries of failed calls (`TreasuryNeverOverdrawn`)? does every start end with the agent's credits in the books, wherever the crash fell (`ReconciledAtStart`)? | 1 ship, fuel, rewards, 2 tickets |
| `LedgerAtomic` | do `with_treasurer` and the archiver implement calls that are one step (`CallsAreAtomic`), is the archive in order and without repetition (`ArchivedInOrder`), does every call return (`EveryCallReturns`)? | 3 callers, at most 6 entries, 3 per call, crashes, refused inserts |
| `FleetPhases` | between two reports, does the admiral have the fleets of its phase, with their budgets and rows (`FleetsFollowThePhase`)? is every bought ship known and launched (`BoughtShipsAreKnown`)? | frigate, probe and a drone to buy, no fault |
| `FleetCrashes` | does a start bring admiral and tables together again (`SettledAdmiralIsStored`), and is no statement refused by a foreign key (`WritesAreAccepted`), as long as every ship's fleet exists? | frigate with its restart task, 1 crash, 1 failed statement |
| `FleetRelaunch` | does a ship whose behaviour failed run again (`TaskedShipsRun`)? | stopped agent with its frigate, 2 errors |
| `FleetGrowth` | is the demand what ships, coming ships and tickets leave to buy, unless an entry was lost or counted twice (`DemandIsWhatTheShipsLack`)? whom does `assign_ships` leave out (`OnlyHaulersAreLeftOut`)? | 10 ships of 5 types, 1 shipyard, 1 market, 2 tickets and coming ships |
| `TransferCargo` | do a waiting hauler and a full miner always match (`NoMissedMatch`)? does the server accept what was planned on copies (`PlannedTransfersAreAccepted`)? are summaries never ahead of the server, unless the answer to a sale was lost or the process has ended (`SummariesLagAtMost`)? does the site go on as long as no fault has left a ship with a stale cargo or a hauler with tickets it cannot complete (`SiteNeverStalls`)? | 1 miner and 1 hauler with a fault, 2 miners and a hauler, a miner and 2 haulers |
| `ShipTrees` | can routes be flown (`NeverOutOfFuel`), does the ship know itself (`ShipKnowsItself`), is nothing asked that is refused (`AsksAreAccepted`), is a ticket executed again only for a fault between its execution and the report of its completion (`TicketsAreExecutedOnce`), are sales covered (`SellTicketsAreCovered`), is a destination forgotten only at it (`ForgetsOnlyAfterArriving`), do tasks end (`TasksGetDone`) or go on (`ShipsKeepWorking`)? | 40 ships, one at a time, over the 9 kinds of task, each with the faults it copes with |
| `ConstructionFleet` | are plans affordable but for fuel that the fleet has paid since, and do purchases fit the hold and supplies the site (`TicketsFit`)? is what is to be delivered on board or being bought, unless the database had the cargo wrong (`DeliveriesAreBacked`)? does a ship get to the end of its tickets (`EveryTradeEnds`)? is the gate built (`GateIsBuilt`)? | 3 ships, one joins later, one with a small hold, two with cargo; 2 materials; 1 crash, or fuel for 1 credit |
| `AgentLifecycle` | is the token kept (`TokenIsKept`), does a schema hold one reset (`DataOfOneReset`), is it prepared (`SchemaIsPrepared`), do the fleets run once, on tables that no start has left half stored (`OneFleet`), does a start recover (`StartsRunTheFleets`)? | 3 resets, 2 crashes, 2 failures, 1 requested restart |
| `ConstructionIdle` | expects a violation: does the fleet find something to do when a trade is there (`SomeTaskIsFound`)? | 3 idle ships, 3 credits |

Bounds of the treasurer.  Two fleets and two ships are enough for every pair of
callers to interfere; two tickets give a purchase with its delivery, or two ships
with one ticket each.  Credits of at most 4 with prices of 1 and 2 give every
branch: affordable and not, above and below the allocation, an empty treasury, a
fleet over its budget.  `MaxCredits` bounds what the server lets the agent earn,
`MaxCapital` the debt or capital of a fleet when a ship calls the server; both are
guards of `ServerMoves`.  Ticket ids come from a finite set, so that a run creates at
most as many tickets.

Bounds of ledger and fleets.  Three callers of the ledger give one that holds the
mutex, one that waits and one behind it; entries are numbered, so that order and
repetition are visible.  `Capacity` 1 stands for the channels' 32: a channel is full
after one message, and a full channel is what a bound can do to its senders.
`MaxFibers` bounds what the restart task may start for a ship (0 leaves the task
out, in the runs that ask about the rest), `MaxErrors`, `MaxCrashes` and `MaxFailures`
the faults; one crash at every step, with the tables it may leave, reaches every
start.  `Stopped` starts from the rows an agent leaves in the construction phase, so
that the run with fairness need not go through the exploration.  Two ships that
differ in type give two fleets with a ship each and two fleets without; one ship is
enough for its own fibers to race.

Bounds of the ships.  In `TransferCargo` the interference is between two miners at
one summary, or two summaries and one miner; three goods give a stack that is
demanded by all, one that is jettisoned and one that only comes along.  A hold of 2
against one of 10 is the ratio `RoomyHaulers` asks for, and the game's 15 to 80
satisfies it.  Each kind of fault happens once, on the smallest site.  In
`ShipTrees` three waypoints give a route that refuels on its way and one that ends
where there is no fuel; the tank of 7 makes the planner choose among burn, cruise
and drift.  `ReserveAssumption` of the instance excludes routes that strand the
ship (see section 4).  At most two requests fail, which covers a failure within the
repetition that follows the first.  Tasks of faults the trees do not survive are
left out of the instance and told of in section 4.

Bounds of the construction fleet.  Three ships are what the code asks for before
support of the supply chain is planned; with one of them busy, two compete for
material, boost and trade.  Required units of 2 and 1 make a last delivery smaller
than a hold.  A capital of 5 is above the limits of both materials at first and falls
below them while tickets are open.  A credit for fuel, at any moment, takes the
fleet below what it has reserved, and below zero when all is reserved.  `MaxFaults`
bounds crashes and credits for fuel together, so that a run has one or the other.
`Leftovers` is cargo without tickets, as a restart leaves it.

Bounds of the agent.  Three resets are one archived schema beside another archive and
the current one, the second with the jump gate first in the listing of waypoints; two
crashes, two failures, so that the start after a fault may fail
again.

Fairness.  tokio polls every task that can go on, its mutex and its channels are
first come, first served, and an insert ends with a row or an error.  Steps that
need nothing but their own turn (under the mutex, at the archiver) are weakly
fair; those that wait for a mutex or for room in a channel, which others take and
give back, are strongly fair (`LedgerArchive` models the queue of the mutex, where
weak fairness is enough).  The ships of `TransferCargo` are strongly fair for that
reason.  `ShipTrees` has weak fairness of the fiber and of the clock; `SiphonsWanted`
is the one assumption about chance, that a gas that is wanted is among the yields
again and again.  In `ConstructionFleet` only the ships' own steps are fair;
whether a market changes, a ship joins or the admiral computes again is left open,
and `GateIsBuilt` states under which outcome of these the gate is built.  In
`AgentLifecycle` both tasks are polled and somebody starts a process that is down.
Nothing makes a fault happen, a behaviour of `FleetRunner` end, a ship be bought or a
caller call.

## 4. Findings

One statement of the repository is refuted by a run, `ConstructionIdle`: the search
for the best combination of ships and deliveries starts with a best total distance
of 0, and replaces its empty assignment only by a smaller distance.  With two or
more free ships nothing but trades is assigned, and as the cost of what was not
assigned has been taken off the budget, maybe not even these.  With one free ship
the search is not used, and this is how `GateIsBuilt` comes to hold.

Found while modelling, and the reason for a condition in a property or an instance:

Treasurer and fleets.
- A call that returns Err keeps its entries in memory and archives none.  A later
  call that is accepted only because of them is archived, and
  `from_replayed_ledger_log` panics on it at every following start
  (`treasury_redesign.rs:326`).
- A negative available capital is cast to `u32`, and the whole quantity stays
  (`treasury_redesign.rs:956`).  No property tells this from another ticket.
- The price of a contract's sale tickets counts as required budget and is reserved, as
  if it were spent (`treasury_redesign.rs:907`).
- A fleet whose `current_capital` is negative is removed with its debt, so that
  `BooksBalance` exempts that step.  The redistribution re-creates the fleets with
  nothing reserved while tickets stay active, so that `ReservationsFollowTickets`
  speaks of changes, not of totals.  A ticket of 0 units whose fleet is gone makes
  every start fail (`fleet.rs:794`).
- The restart task may relaunch a ship whose report is queued; a second exploration
  report dismantles a fleet without a budget, and the status listener panics
  (`fleet_runner.rs:1087`, `fleet.rs:998`).
- Each fleet picks from a copy of all ships, and the fourth hauler is left without
  a fleet (`fleet.rs:1443`); `OnlyHaulersAreLeftOut` is the part that is kept.
- `create_ship_purchase_ticket` loses an entry of the demand when a lookup fails after
  it was taken off (`fleet.rs:1539`), and the demand does not count an active
  purchase ticket or a ship that has yet to join (`fleet.rs:2313`): a start or a new
  phase has it bought again.  `drifted` is these two cases, which
  `DemandIsWhatTheShipsLack` exempts.
- The restart task works on copies, so that two fibers of a ship may run different
  tasks at once (`fleet_runner.rs:1078`, `:363`).  Nothing in the repository says that
  they may not, and no property does; what the restart task cannot disturb is proved with it
  (section 5).
- A difference between the agent's credits before and after a dismantling makes the
  status listener panic with the fleet removed and nothing redistributed
  (`fleet.rs:1400`).
- A crash within the first start or a purchase leaves ships without a fleet, and
  `BoughtShipsAreKnown` speaks of runs without a crash.
- `upsert_ship_fleet_assignment` never deletes a row (`fleet_bmc.rs:228`): a ship that
  `assign_ships` leaves out keeps its old row, and `SettledAdmiralIsStored` compares the
  rows of ships that have a fleet.
- A ship that was bought for a fleet which is gone when the ship joins is entered for
  that fleet before the Err, and every later `upsert_ship_fleet_assignment` is refused by
  the foreign key.  The attempt to prove `WritesAreAccepted` led there, and its hypothesis
  `EveryFleetExists` is the answer.  `FleetsOutliveTheirShips` shows that this needs a crash or
  a failed statement first.

Ships.
- A lost answer of dock, orbit or sell, or a crash before the table is written, leaves
  a ship whose own record the server contradicts; the tree asks again for what is
  refused, for ever.  `Informed` is this condition.
- A statement or a completion that fails after the server has executed a trade leaves the
  ticket active, and the tree executes it again: once more for each lost answer, crash or
  such error (`actions.rs:581`, `:584`, `:604`, `:626`, `:647`, `:673`), the bound of
  `TicketsAreExecutedOnce`.
- The planner may end a route where the rest of the tank takes the ship nowhere.
- `PrintTravelActions` lets a navigation succeed that has no path.
- `CanSkipRefueling` looks for the navigation at the place of the refuelling and
  never holds; fuel below 0 is cast to plenty.
- Sell tickets are created again after an interrupted delivery (`actions.rs:791`), and
  those of the interrupted one stay active.  A mining hauler sells what it has with either;
  the others are then never covered by its cargo, and `trading_behavior`, which goes on
  while there are tickets, never ends: the hauler does not come back to the site (`Stuck`
  in `SiteNeverStalls`).
- A hauler whose delivery has failed announces itself at once with the cargo it still
  knows of (`ship_behaviors.rs:421`).  If it is the answer to a sale that was lost, or a
  crash came before the sale was stored, the summary shows more than the server has and
  miners are told there is no room; these are the two exemptions of `SummariesLagAtMost`.
- Cargo without a delivery route keeps a hauler from ever emptying its hold; the
  modifier of a critical limit is never cleared (`actions.rs:1083`).
- A contract that was fulfilled counts as one whose delivery is complete, and after a
  failed negotiation the contractor asks to fulfil it for ever
  (`ship_behaviors.rs:305`); so it does after a lost answer of accept or fulfil.  An
  unaffordable contract still gets its tickets.
- The error of an exhausted survey is found by its number, which the in-memory
  universe does not send.

Construction.
- Tickets are created for all idle ships and the task is given to the reporting one
  only (`fleet.rs:1700`): other ships keep tickets without a task until the next
  computation.
- The site is stored after the ticket is completed, so that the next plan delivers
  again what has just been delivered; the server refuses it and the route stays.  An
  older answer may overwrite a newer one.
- What is missing at the site ignores what is on its way there, and the test for a
  delivery under way looks for one from the same market only (`construction_fleet.rs:440`).
  A material that two markets export is bought at the second for units the first already
  delivers, and the server refuses the second supply.  The attempt to prove `TicketsFit`
  led there: with one more entry in `MCEntries`, circuits exported at F, and a capital of 7
  TLC finds `SuppliesAreNecessary` violated within a second.  The instance and the theorem
  `Fit` have one source for each material.
- A crash between the completion of a ticket and the ship's row leaves cargo in the
  table that the server does not have.
- Leftover cargo that goes to the site is no route and is planned for a second time.
- A cargo that the trade volume divides leaves a batch of 0 units, whose ticket
  nobody completes; cargo that no market buys gives a trade without tickets, again
  and again.

Agent.
- Every client gets a sender whose receiver is dropped at once: a reset is noticed by
  nobody, and an agent that ended with an error is started again with the process only.
- The abort of a restart does not reach the detached `run_fleets`.
- A crash between rename and create leaves no schema `public`, in which no migration
  runs: no later start works, and `StartsRunTheFleets` exempts it.
- `upsert_ships` and `upsert_waypoints` store the first row and the others by two
  statements (`db.rs:747`, `db.rs:377`).  A start that ends in between leaves a table
  that is not empty, and no later start asks for the rest (`initial_data_collector.rs:25`
  and `:39`): the fleets run without the other ships, and without the jump gate every
  start panics (`initial_data_collector.rs:69`).  `OneFleet` shows that nothing else
  leaves half a table, and `StartsRunTheFleets` exempts the torn waypoints.
- A registration whose answer is lost, or whose row is not saved, makes every start
  panic until the next reset.  One that is sent after a reset stores the new token in
  the old schema.  These are the three cases of `TokenIsKept`.

## 5. Proofs

`TreasurerProofs` proves, for any finite sets of fleets and ships and any sets
of tickets, budgets, prices and rewards that satisfy `FiniteAssumption` and
`TreasurerAssumption`:

- `TypeCorrect`: `Spec => []TypeOK`;
- `NeverOverdrawn`: `Spec => []TreasuryNeverOverdrawn`;
- `Reconciled`: `Spec => []ReconciledAtStart`;
- `Balanced`: `Spec => BooksBalance`.

They rest on the inductive invariant `IInv` (`Invariance`): the types, *tidiness*
of both treasurers (a fleet that does not exist has zero in every map, so that
sums over `Fleets` are sums over the existing fleets), the fund of both treasurers
at least 0, and, as long as the archive replays, `archived.fund >=
treasurer.fund`.  The last part is what makes `NeverOverdrawn` inductive: the
treasurer of the archive lacks the transfers of failed calls, which only ever take
from the fund, so that a transfer the memory can pay the replayed one can pay as
well.  `ReconciledAtStart` needs the shape of the reset: after
`ResetRemovesFleets` no fleet is left, so that the credits of the reset are all
there is.

`FiniteSums` proves what the library lacks about sums over finite sets: what one
changed element, a restriction, a union of disjoint sets and an image under an
injection do to a sum, and that no part is above the whole; and that the table by which
the community modules define a fold exists.  The first part of `TreasurerProofs` proves of
one entry, and then of each operation, what they do to the sum of all credits;
`Balanced` combines these with what the server has moved.

The last part proves, from the same assumptions, `InFlightIsActive`
(`Spec => []TicketInFlightIsActive`) and the action property `ReservationsFollow`
(`Spec => ReservationsFollowTickets`).  The invariant is `TicketInv` (`TicketsTracked`):
the active tickets of memory and archive are finite and have distinct ids, a ticket in
flight is active and flown by the ship it is assigned to, and a ticket the admiral is
about to create is not active and is the last thing the admiral is about to do.
Distinct ids are needed because completing removes by id, and a removal of two tickets
would release one reservation only; the last part excludes that a dismantled fleet
takes a ticket back between the check of its id and its creation.

`LedgerArchiveProofs` proves, for any set of callers and any bounds, `TypeCorrect`,
`InOrderAlways` (`Spec => []ArchivedInOrder`) and the refinement `Atomicity`
(`Spec => CallsAreAtomic`).  `IInv` says that the entries which are archived, being
inserted, in the archiver's channel and not yet sent follow each other in the order of
processing, and that nothing is under way when nobody holds the mutex: a row appended
by the archiver is then newer than every archived one.  `CallInv` (`CallsAreTracked`)
says where the entries of the call under way are: in the log behind `starting_idx`, the
first of them archived or refused, then the one on its way, then those not sent.
With it every step of the ledger is a step of `AtomicLedger` under the mapping, or
changes nothing of what that sees: the last answer is `Call`, a failed operation is its
own abstract step, and a crash leaves the beginning that was archived.

`FleetRunnerProofs` proves, for any ships and types of ships among which the agent
begins with a frigate, any number of waypoints, any capacity of the channels and any
number of errors, crashes, failures and restarts of fibers:

- `TypeCorrect` (`TypeOK`) and `WritesNeverViolateForeignKeys` (`WritesAreAccepted`);
- `SettledStateIsStored` (`SettledAdmiralIsStored`) and `SettledFleetsFollowThePhase`
  (`FleetsFollowThePhase`);
- `BoughtShipsBecomeKnown` (`BoughtShipsAreKnown`), and `FleetsOutliveTheirShips`: until
  something crashes or fails, the fleet of every ship exists, so that the hypothesis of
  the two properties about tables holds there.

Three invariants stand on each other.

- `IInv` is about one process.  `Agenda` lists the sequences of steps that may be left in
  `todo`: the ends of the handlers' plans.  With it `Placed` is inductive, that the rows
  which a statement at the head refers to are in the tables, and those it deletes are
  referred to by none.  `Credible` says which messages may be in a channel, `Knows` that
  only ships of the admiral have fleets and tasks and that the tables have these ships,
  `FibersKnown` that only registered ships have fibers.
- `StoreInv` relates admiral and tables while no statement has failed (`Sound`): they
  differ only in what a statement that is left in `todo` will store (`FleetsStored`,
  `ShipsStored`, `AssignmentStored`, `TasksStored`).  `PhaseKept` says when the fleets may
  differ from those of the phase: between the replacement of the fleets and the next
  computation of tasks.  A fleet of an earlier phase that is still there then has no
  budget, and the computation panics: a listener that lives has none.  `ReadyToStart` has
  what a start finds in the tables.
- `GrowInv` follows a ship that is bought.  `Tracked` has every ship of the agent known to
  the admiral, announced in one of the two channels (`Bought`), or about to join, and every
  known ship registered, left for the launcher, or the next to be launched.  A ship is lost when
  its fleet is gone as it joins; `Growing` excludes it: tickets, announcements and demand
  are for fleets of the phase (`Wanting`), and the phases that have budgets keep every fleet
  that an earlier one buys for (`BuyersGrow`).  `FirstStart` is what holds until the process
  has run once.

`FleetGrowthProofs` proves `DemandFollowsTheShips` (`DemandIsWhatTheShipsLack`) for any
ships, any number of waypoints and any number of tickets and coming ships.  The fold of `NextShipPurchases` is shown to be a walk
(`FoldIsWalk`), of which `Standing` says after k entries what of every type is left and
which entries were found missing (`WalkStep`).  One ship more of the type of the first
missing entry takes just that entry off (`OneLess`), which is what a ticket does to the
demand; a purchase and a registration leave the sum of ships, coming ships and tickets
as it is.  `Steady` is this correspondence, and what a computation with nothing on its
way establishes.

`TransferCargoProofs` proves, for any finite sets of goods and of sites with any number
of miners and haulers, `AlwaysMatch` (`NoMissedMatch`), `PlansHold`
(`PlannedTransfersAreAccepted`) and `NeverAhead` (`SummariesLagAtMost`).  Assumed are the
types, that a cargo's total is the sum of its inventory (`TotalAssumption`, which the
server's answers satisfy) and `RoomyHaulers`, five miners' holds in one hauler's.
`IInv` has five parts:

- `Typed`, and `Totalled`: the totals stay sums, in all copies;
- `Phased`: who stands where, who holds the mutex, who waits;
- `Lagging`: unless a sale's answer was lost or the process has ended, a summary is never
  above what the server has of that hauler, and neither is the cargo a hauler knows of
  while it does not expect the answer to a sale (`Settled`), which makes `NeverAhead`
  inductive: a delivery may end with an error at any other point and announce that cargo;
- `Faultless`: as long as there was no fault, what a fiber knows is what the server has
  (`Fresh`, `Known`), a plan has one task per good (`OneTaskPerGood`), and what is
  planned and not yet requested is on board of the miner and has room at its hauler
  (`Backed`).  The plan is made on a clone of the summaries, from which each planned
  task is taken off; `Backed` relates the sum of the pending tasks per hauler to both.

`NoMissedMatch` needs `RoomyHaulers`: a waiting hauler is at most 80 % full, so that any
stack of a miner fits.

`ConstructionFleetProofs` proves, for any finite sets of ships and goods, any markets,
distances and capacities, `PurchasesHold` (purchases are covered, but for the fuel the
fleet has paid since, and fit together, from every reachable state), `Backed` (`Spec => []DeliveriesAreBacked`) and `Fit`
(`Spec => []TicketsFit` under `OneSource`: every material has one exporting market;
section 4 has the counterexample without it).  It has three parts:

- lemmas about plans: whatever the orders of the hash maps, a plan costs no more than
  the budget, and nothing when the budget is negative, each action has units that fit the space of its ship, no ship has two
  actions, and a delivery to the site is for a material that is missing, at most as much
  as is missing, and from a market from which none is under way (`PlansArePlans`);
- lemmas about leftovers: the batches of a cargo add up to it;
- one lemma per action for each part of `IInv` that it can disturb.

`IInv` (`Invariance`) has the types, the totals of cargos as sums of inventories, the
freshness of the stored cargo of a ship that is neither supplying nor `outdated`, that
tickets from a market come from one that exports the good (`FromExports`), and the
parts of the two properties.  `SuppliesAreNecessary` is inductive beside them only: a
new delivery is planned from `known`, which the condition `~misled` makes equal to
`missing`, and `OneSource` makes the one delivery under way exclude a second.  Assumed of a boost is that its
volume is at most that of its source, the minimum `trading.rs` takes, and of a leftover
cargo that it fits its ship and its total is its sum.

`AgentLifecycleProofs` proves, for any number of resets, crashes, failures and
requested restarts, `TypeCorrect` and the four safety properties of the run:
`Prepared`, `TokenAlwaysKept`, `OneResetEach` and `FleetsOnce`.  None of the four is
inductive.  `IInv` adds to the types (`Typed`)

- `Staged`: what the schema holds at each place the manager may stand, and that no
  status or token is of a later reset than the server's;
- `Kept`: a token of this reset is stored under the status of this reset, since an
  archived schema takes its token with it;
- `AtWork`: an agent works only for a manager that waits, with its token, and collects
  in order;
- `Undisturbed`: without a requested restart the fleets and their answers are those of
  the agent;
- `Own`: a schema's rows, and the token the manager carries, are of the status;
- `Whole`: unless a start ended between the two statements of a table, half a table is
  one that is being stored.

`TokenIsKept` needs `Staged` (a schema is renamed only when its status is not the
current one), `OneFleet` needs `AtWork`, `Own` and `Whole`.  Each action's effect is stated
field by field first, and the parts of the invariant follow from the effects.

What stays with TLC.  `OnlyHaulersAreLeftOut` depends on the types of the ships that the agent begins with, and
on what `Wanted` keeps of a list that is not given entry by entry, which is induction
over data: TLC evaluates it for every set of ships bought in the order of the list.
`ShipTrees` cannot hold theorems: `Size`, `Index` and `Rows` of
`BehaviorTree` and `Relax` of `Pathfinder` are RECURSIVE, and what they compute is
induction over data anyway.  Out of the prover's reach are every liveness property and
whatever speaks of ENABLED.

## 6. Plan

Modelled, and proved as far as section 5 says: treasurer and callers, ledger archive,
fleets and their runner, cargo transfers, behaviour trees with server and planner,
contracts, construction, the agent's life.  What could be added:

1. `ShipTrees` without RECURSIVE operators, so that what holds of every table of leaves
   (`ShipKnowsItself` of a single answer, the order of `ExecuteTrade` to `TradeStored`)
   could be proved.
2. The materialized supply chain, whose results are constants of other modules.

### Not modelled

- The web UI (it reads only), the text of reports, HTTP with its rate limiter, paging
  of listings, serialisation.
- The materialized supply chain and the scores of its routes: a pure computation over
  market data; its results are constants of `ConstructionPlan` and `ShipTrees`.
- The tour of an explorer (nearest neighbour), the waypoints that observation, mining
  and siphoning fleets give to their ships: pure, and without a state of their own.
- Of surveys, everything but whether a valid one is there and its exhaustion.
- Prices and credits within `ShipTrees`, contracts within `ConstructionFleet`: each is
  in the other module or in `Treasurer`, where its interleavings are.
- The SQL behind a statement, beyond its rows and keys.
- The in-memory universe's credits, transactions and listings.
