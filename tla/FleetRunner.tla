----------------------------- MODULE FleetRunner -----------------------------
(***************************************************************************)
(* FleetRunner and the state of FleetAdmiral it drives.                     *)
(*                                                                         *)
(* One fiber per ship runs the behaviour tree of the ship's task and sends  *)
(* reports.  A listener takes one report at a time and works on it under    *)
(* the admiral's mutex: it changes the admiral, writes to the database and  *)
(* starts fibers.  A second listener forwards what the ships did on their   *)
(* way, a third task starts the fibers of idle ships again every 30 s.      *)
(*                                                                         *)
(* `todo' holds the steps left of the report, or of the start, that has the *)
(* mutex.  A step that returns Err drops the steps after it; a step that    *)
(* panics ends the listener as well.                                        *)
(***************************************************************************)
EXTENDS FleetPlan

CONSTANTS InitialShips, \* the ships the agent owns at first
          Stopped,      \* the agent was stopped while it constructed the gate
          Capacity,     \* of a channel; 32 in the code
          MaxFibers,    \* bound on what the restart task may start for a ship: its running fibers
                        \* and the reports of ended ones; 0 leaves the restart task out
          MaxErrors,    \* bound on the behaviours that end with an error
          MaxCrashes,   \* bound on the crashes
          MaxFailures   \* bound on the steps that fail

NoTask == "none"
ShipTasks == {"explore", "observe", "trade", "mine"}

ASSUME RunnerAssumption ==
    /\ InitialShips \subseteq Ships /\ OfType(InitialShips, "frigate") # {}
    /\ Stopped \in BOOLEAN
    /\ Capacity \in Nat \ {0} /\ MaxFibers \in Nat
    /\ MaxErrors \in Nat /\ MaxCrashes \in Nat /\ MaxFailures \in Nat

VARIABLES
    \* the game server, the treasurer's ledger and the observed markets
    owned,      \* the agent's ships
    tickets,    \* active ship purchase tickets
    explored,   \* every market and shipyard has been visited once
    \* the tables of fleets, ships and tasks
    db,
    \* the process
    stage,      \* down, starting, running
    dead,       \* tasks of the process that have panicked or returned
    admiral,    \* FleetAdmiral
    todo,       \* what is left to do under the admiral's mutex
    report,     \* the report being processed
    relaunching, \* ships without a fiber that the listener has yet to relaunch
    launching,  \* run_fleets: ships yet to launch, its copies of tasks and assignment
    ship_ops,   \* the ships in FleetRunner.ship_ops
    fibers,     \* the fibers of each ship; the last is the one in ship_fibers
    sweep,      \* the restart task's copies
    actions,    \* channel of ActionEvents
    reports,    \* channel of ShipStatusReports
    errors, crashes, failures

world == <<owned, tickets, explored>>
under_lock == <<admiral, todo, report>>
fiber_vars == <<ship_ops, fibers>>
channels == <<actions, reports>>
bounds == <<errors, crashes, failures>>
vars == <<world, db, stage, dead, under_lock, relaunching, launching, fiber_vars, sweep, channels, bounds>>

-----------------------------------------------------------------------------
(* Data.  Maps are total functions with NoFleet, NoTask or "no_row" where    *)
(* the map has no entry; a fleet's list of tasks is its task or empty.       *)

Nobody == [s \in Ships |-> NoFleet]
NoTasks == [s \in Ships |-> NoTask]
NoRows == [f \in FleetTasks |-> "no_row"]
TaskRows(fleets) == [f \in FleetTasks |-> IF f \in fleets THEN "task" ELSE "no_row"]

Tickets == [type : ShipTypes, for : FleetTasks, ship : Ships]
Fibers == [task : ShipTasks, at : {"behaviour", "collected", "sending", "ended"}]

Message(type, s, task, fleet) == [type |-> type, ship |-> s, task |-> task, fleet |-> fleet]
Finished(s, task) == Message("finished", s, task, NoFleet)
Collected(s) == Message("collected", s, NoTask, NoFleet)
Purchased(new, fleet) == Message("purchased", new, NoTask, fleet)
Starting == [type |-> "start"]
NoReport == [type |-> "none"]
Messages == [type : {"finished", "collected", "purchased"}, ship : Ships,
             task : ShipTasks \cup {NoTask}, fleet : FleetTasks \cup {NoFleet}]

NoAdmiral == [all_ships |-> {}, fleets |-> {}, fleet_tasks |-> NoRows, assignment |-> Nobody,
              ship_tasks |-> NoTasks, completed |-> {}, phase |-> "InitialExploration",
              demand |-> <<>>, budgets |-> {}]
NoLaunch == [left |-> {}, tasks |-> NoTasks, assignment |-> Nobody]
NoSweep == [at |-> "asleep", ships |-> {}, tasks |-> NoTasks, assignment |-> Nobody]

Writes == {"StoreShips", "UpsertFleets", "UpsertFleetTasks", "UpsertAssignment",
           "SaveShipTasks", "SaveCompleted", "DeleteAssignments", "DeleteTasks", "DeleteFleet"}
Steps == Writes \cup {"Create", "Load", "ComputeTasks", "Listen", "Dismantle", "NewFleets",
                      "AssignShips", "LaunchIdle", "AssignTask", "Relaunch", "Register",
                      "LaunchNew"}

TypeOK ==
    /\ owned \subseteq Ships /\ tickets \subseteq Tickets /\ explored \in BOOLEAN
    /\ db.ships \subseteq Ships
    /\ stage \in {"down", "starting", "running"}
    /\ dead \subseteq {"launcher", "status", "actions", "restart"}
    /\ admiral.all_ships \subseteq Ships /\ admiral.phase \in Phases
    /\ \A m \in {db, admiral} :
          /\ m.fleets \subseteq FleetTasks /\ m.completed \subseteq FleetTasks
          /\ m.fleet_tasks \in [FleetTasks -> {"no_row", "empty", "task"}]
          /\ m.assignment \in [Ships -> FleetTasks \cup {NoFleet}]
          /\ m.ship_tasks \in [Ships -> ShipTasks \cup {NoTask}]
    /\ todo \in Seq(Steps)
    /\ report \in Messages \cup {Starting, NoReport} /\ relaunching \subseteq Ships
    /\ ship_ops \subseteq Ships
    /\ fibers \in [Ships -> Seq(Fibers)]
    /\ actions \in Seq(Messages) /\ reports \in Seq(Messages)
    /\ Len(actions) <= Capacity /\ Len(reports) <= Capacity
    /\ errors \in 0..MaxErrors /\ crashes \in 0..MaxCrashes /\ failures \in 0..MaxFailures

\* A stopped agent that was constructing the gate left such rows.
ConstructionRows ==
    LET fleets == PhaseTasks("ConstructJumpGate")
    IN  {[ships |-> InitialShips, fleets |-> Range(fleets), fleet_tasks |-> TaskRows(Range(fleets)),
          assignment |-> sent, ship_tasks |-> NoTasks, completed |-> {"InitialExploration"}] :
            sent \in ShipAssignments(fleets, InitialShips, ShoppingList("ConstructJumpGate"))}

NoDbRows == [ships |-> {}, fleets |-> {}, fleet_tasks |-> NoRows, assignment |-> Nobody,
             ship_tasks |-> NoTasks, completed |-> {}]

Init == /\ owned = InitialShips /\ tickets = {} /\ explored = Stopped
        /\ db \in IF Stopped THEN ConstructionRows ELSE {NoDbRows}
        /\ stage = "down" /\ dead = {}
        /\ admiral = NoAdmiral /\ todo = <<>> /\ report = NoReport /\ relaunching = {}
        /\ launching = NoLaunch /\ ship_ops = {} /\ fibers = [s \in Ships |-> <<>>]
        /\ sweep = NoSweep
        /\ actions = <<>> /\ reports = <<>>
        /\ errors = 0 /\ crashes = 0 /\ failures = 0

-----------------------------------------------------------------------------
(* What the admiral computes from its own state.                             *)

Crew(a, f) == {s \in a.all_ships : a.assignment[s] = f}

\* get_ship_purchaser: a stationary probe at the shipyard, the spawning ship or
\* the command frigate; it has to belong to a fleet
Purchasers(a) == {s \in a.all_ships : /\ a.ship_tasks[s] = "observe" \/ ShipTypeOf[s] = "frigate"
                                      /\ a.assignment[s] \in a.fleets}

\* create_ship_purchase_ticket pops the next entry.  With a ticket for this type
\* active, or too little money, the entry goes back; it is lost when no shipyard,
\* fleet or purchaser is found.
PurchaseOutcomes(a, plan) ==
    IF plan.demand = <<>> THEN {plan}
    ELSE LET item == Head(plan.demand)
             popped == [plan EXCEPT !.demand = Tail(@)]
             buyers == IF a.fleet_tasks[item.for] = "task" THEN Purchasers(a) ELSE {}
         IN  IF \E t \in plan.tickets : t.type = item.type THEN {plan}
             ELSE {popped} \cup (IF buyers = {} THEN {} ELSE {plan}) \cup
                  {[popped EXCEPT !.tickets = @ \cup {[type |-> item.type, for |-> item.for, ship |-> s]}] :
                      s \in buyers}

\* pure_compute_ship_tasks: the tasks it may give to ships.  The holder of a
\* purchase ticket trades; a construction ship trades if there is a trade, a
\* contract or cargo for it; the observation fleet covers free waypoints with
\* whoever does not observe; miners must be drones, surveyors or haulers.
NewShipTasks(a, active) ==
    LET IdleCrew(f) == IF f \in a.fleets THEN {s \in Crew(a, f) : a.ship_tasks[s] = NoTask} ELSE {}
        ticketed == {s \in UNION {IdleCrew(f) : f \in FleetTasks} : \E t \in active : t.ship = s}
        mines(s) == s \notin ticketed /\
                    \/ s \in IdleCrew("SiphonGases")
                    \/ /\ s \in IdleCrew("MineOres")
                       /\ ShipTypeOf[s] \in {"mining_drone", "surveyor", "hauler"}
        observers == IF "ObserveAllWaypoints" \in a.fleets THEN Crew(a, "ObserveAllWaypoints") ELSE {}
        observing == {s \in observers : a.ship_tasks[s] = "observe"}
        free == NumShipyards + NumMarkets - Cardinality(observing)
        traders == SUBSET (IdleCrew("ConstructJumpGate") \ ticketed)
        new_observers == kSubset(Min({free, Cardinality(observers \ observing)}), observers \ observing)
    IN  {[s \in Ships |-> IF s \in o THEN "observe"
                          ELSE IF s \in ticketed \cup t THEN "trade"
                          ELSE IF s \in IdleCrew("InitialExploration") THEN "explore"
                          ELSE IF mines(s) THEN "mine" ELSE NoTask] :
            t \in traders, o \in new_observers}

\* compute_ship_tasks: first a purchase ticket, then the tasks
ComputeOutcomes(a, plan) ==
    UNION {{[plan |-> p, tasks |-> n] : n \in NewShipTasks(a, p.tickets)} :
              p \in PurchaseOutcomes(a, plan)}

\* pure_compute_ship_tasks panics at a fleet without a budget
HasBudgets(a) == a.fleets \subseteq a.budgets

\* the fleets for which redistribute_distribute_fleet_budgets creates a budget
Budgeted(phase) == CASE phase = "InitialExploration" -> {"InitialExploration", "ObserveAllWaypoints"}
                     [] phase = "ConstructJumpGate"  -> {"ConstructJumpGate", "ObserveAllWaypoints",
                                                         "SiphonGases", "MineOres"}
                     [] phase = "TradeProfitably"    -> {}

\* assign_ship_tasks
WithTasks(a, new) ==
    [a EXCEPT !.ship_tasks = [s \in Ships |-> IF new[s] = NoTask THEN @[s] ELSE new[s]]]

\* the jump gate is not finished while we look
CurrentPhase(completed) == PhaseOf(explored, FALSE, completed)

-----------------------------------------------------------------------------
(* Steps under the admiral's mutex.                                          *)

\* mutant of Upserts: the fleet tasks are not written
UpsertsWithoutTasks == <<"UpsertFleets", "UpsertAssignment", "SaveShipTasks">>

\* upsert_fleets_data
Upserts == <<"UpsertFleets", "UpsertFleetTasks", "UpsertAssignment", "SaveShipTasks">>

Does(step) == todo # <<>> /\ Head(todo) = step

Free == todo = <<>>     \* nobody has the admiral's mutex

Proceed == /\ todo' = Tail(todo) /\ relaunching' = {}
           /\ report' = IF Tail(todo) = <<>> THEN NoReport ELSE report

\* an Err: the start ends, or the listener logs and takes the next report
GiveUp == /\ todo' = <<>> /\ report' = NoReport /\ relaunching' = {}
          /\ stage' = IF stage = "starting" THEN "down" ELSE stage

\* a panic, with the admiral in state a: the listener's receiver is dropped
PanicWith(a) ==
    /\ GiveUp
    /\ IF stage = "starting" THEN admiral' = NoAdmiral /\ UNCHANGED <<dead, reports>>
       ELSE admiral' = a /\ dead' = dead \cup {"status"} /\ reports' = <<>>

\* the rows that a statement inserts, updates or deletes
Keys(step) ==
    CASE step = "StoreShips" -> IF report = Starting THEN owned ELSE {report.ship}
      [] step = "UpsertFleets" -> admiral.fleets
      [] step = "UpsertFleetTasks" -> {f \in FleetTasks : admiral.fleet_tasks[f] # "no_row"}
      [] step = "UpsertAssignment" -> {s \in Ships : admiral.assignment[s] # NoFleet}
      [] step = "SaveShipTasks" -> {s \in Ships : admiral.ship_tasks[s] # NoTask}
      [] step = "SaveCompleted" -> {"InitialExploration"}
      [] OTHER -> {report.fleet}

\* The tables once the statement has done these of its rows.  The upserts go row
\* by row; no upsert removes a row.
Stored(step, rows) ==
    CASE step = "StoreShips" -> [db EXCEPT !.ships = @ \cup rows]
      [] step = "UpsertFleets" -> [db EXCEPT !.fleets = @ \cup rows]
      [] step = "UpsertFleetTasks" ->
            [db EXCEPT !.fleet_tasks = [f \in FleetTasks |-> IF f \in rows THEN admiral.fleet_tasks[f] ELSE @[f]]]
      [] step = "UpsertAssignment" ->
            [db EXCEPT !.assignment = [s \in Ships |-> IF s \in rows THEN admiral.assignment[s] ELSE @[s]]]
      [] step = "SaveShipTasks" ->
            [db EXCEPT !.ship_tasks = [s \in Ships |-> IF s \in rows THEN admiral.ship_tasks[s] ELSE @[s]]]
      [] step = "SaveCompleted" -> [db EXCEPT !.completed = @ \cup rows]
      [] step = "DeleteAssignments" ->
            [db EXCEPT !.assignment = [s \in Ships |-> IF @[s] \in rows THEN NoFleet ELSE @[s]]]
      [] step = "DeleteTasks" ->
            [db EXCEPT !.fleet_tasks = [f \in FleetTasks |-> IF f \in rows THEN "no_row" ELSE @[f]]]
      [] step = "DeleteFleet" -> [db EXCEPT !.fleets = @ \ rows]

\* the foreign keys of the tables
ForeignKeys(d) ==
    /\ \A f \in FleetTasks : d.fleet_tasks[f] # "no_row" => f \in d.fleets
    /\ \A s \in Ships : d.assignment[s] # NoFleet => s \in d.ships /\ d.assignment[s] \in d.fleets
    /\ \A s \in Ships : d.ship_tasks[s] # NoTask => s \in d.ships

Write(step) ==
    /\ Does(step) /\ step \in Writes
    /\ IF ForeignKeys(Stored(step, Keys(step)))
       THEN db' = Stored(step, Keys(step)) /\ Proceed /\ UNCHANGED <<stage, admiral>>
       ELSE /\ GiveUp
            /\ admiral' = IF stage = "starting" THEN NoAdmiral ELSE admiral
            /\ UNCHANGED db
    /\ UNCHANGED <<world, dead, launching, fiber_vars, sweep, channels, bounds>>

\* The tables a statement leaves that was cut off after some of its rows.
CutOff == IF todo # <<>> /\ Head(todo) \in Writes
          THEN {d \in {Stored(Head(todo), rows) : rows \in SUBSET Keys(Head(todo))} : ForeignKeys(d)}
          ELSE {db}

\* A statement, or a call of the database or the treasurer within a step, fails.
Fail == /\ todo # <<>> /\ failures < MaxFailures
        /\ Head(todo) \in Writes \cup {"Create", "Load", "NewFleets", "AssignShips", "ComputeTasks"}
        /\ db' \in CutOff
        /\ GiveUp
        /\ admiral' = IF stage = "starting" THEN NoAdmiral ELSE admiral
        /\ failures' = failures + 1
        /\ UNCHANGED <<world, dead, launching, fiber_vars, sweep, channels, errors, crashes>>

ComputeTasks ==
    /\ Does("ComputeTasks")
    /\ \E o \in ComputeOutcomes(admiral, [demand |-> admiral.demand, tickets |-> tickets]) :
          /\ tickets' = o.plan.tickets
          /\ LET next == [admiral EXCEPT !.demand = o.plan.demand]
             IN  IF HasBudgets(admiral)
                 THEN admiral' = WithTasks(next, o.tasks) /\ Proceed /\ UNCHANGED <<stage, dead, reports>>
                 ELSE PanicWith(next)
    /\ UNCHANGED <<owned, explored, db, launching, fiber_vars, sweep, actions, bounds>>

-----------------------------------------------------------------------------
(* Start-up: load_or_create, then run_fleets.                                *)

StartSteps == Upserts \o <<"ComputeTasks">> \o Upserts \o <<"Listen">>

Start ==
    /\ stage = "down"
    /\ stage' = "starting" /\ dead' = {}
    /\ report' = Starting
    /\ todo' = (IF db.fleets # {} /\ db.ships # {} THEN <<"Load">>
                ELSE IF db.ships = {} THEN <<"StoreShips", "Create">> ELSE <<"Create">>) \o StartSteps
    /\ UNCHANGED <<world, db, admiral, relaunching, launching, fiber_vars, sweep, channels, bounds>>

\* FleetAdmiral::create, with no fleet stored.  A probe becomes stationary while the
\* fleets run, whose rows are never all deleted: none is left out of the ships here.
Create ==
    /\ Does("Create")
    /\ LET phase == CurrentPhase(db.completed)
           fleets == Range(PhaseTasks(phase))
       IN  \E sent \in ShipAssignments(PhaseTasks(phase), db.ships, ShoppingList(phase)) :
             admiral' = [NoAdmiral EXCEPT
                 !.all_ships = db.ships, !.fleets = fleets, !.fleet_tasks = TaskRows(fleets),
                 !.assignment = sent, !.completed = db.completed, !.phase = phase,
                 !.demand = NextShipPurchases(db.ships, phase), !.budgets = Budgeted(phase)]
    /\ Proceed
    /\ UNCHANGED <<world, db, stage, dead, launching, fiber_vars, sweep, channels, bounds>>

\* mutant of Load: the start does not write back what it has computed
LoadWithoutStoring ==
    /\ Does("Load")
    /\ LET phase == CurrentPhase(db.completed)
           fleets == db.fleets \cup Range(PhaseTasks(phase))
       IN  /\ \A f \in db.fleets : db.fleet_tasks[f] = "task"
           /\ admiral' =
                  [all_ships |-> db.ships, fleets |-> fleets, fleet_tasks |-> TaskRows(fleets),
                   assignment |-> db.assignment, ship_tasks |-> db.ship_tasks,
                   completed |-> db.completed, phase |-> phase,
                   demand |-> NextShipPurchases(db.ships, phase), budgets |-> Budgeted(phase)]
    /\ todo' = <<"ComputeTasks", "Listen">>
    /\ UNCHANGED <<world, db, stage, dead, report, relaunching, launching, fiber_vars, sweep, channels, bounds>>

\* FleetAdmiral::load_admiral: the phase and the fleets it lacks are computed,
\* the assignment and the tasks of the ships are the stored ones.
\* compute_fleets_with_tasks panics at a stored fleet without a task.
Load ==
    /\ Does("Load")
    /\ LET phase == CurrentPhase(db.completed)
           fleets == db.fleets \cup Range(PhaseTasks(phase))
       IN  IF \A f \in db.fleets : db.fleet_tasks[f] = "task"
           THEN /\ admiral' =
                      [all_ships |-> db.ships, fleets |-> fleets, fleet_tasks |-> TaskRows(fleets),
                       assignment |-> db.assignment, ship_tasks |-> db.ship_tasks,
                       completed |-> db.completed, phase |-> phase,
                       demand |-> NextShipPurchases(db.ships, phase), budgets |-> Budgeted(phase)]
                /\ Proceed /\ UNCHANGED <<stage, dead, reports>>
           ELSE PanicWith(NoAdmiral)
    /\ UNCHANGED <<world, db, launching, fiber_vars, sweep, actions, bounds>>

\* run_fleets spawns the listeners and goes on to launch the ships, with copies
\* of the tasks and the assignment.
Listen ==
    /\ Does("Listen")
    /\ Proceed
    /\ stage' = "running"
    /\ launching' = [left |-> admiral.all_ships, tasks |-> admiral.ship_tasks,
                     assignment |-> admiral.assignment]
    /\ UNCHANGED <<world, db, dead, admiral, fiber_vars, sweep, channels, bounds>>

-----------------------------------------------------------------------------
(* Fibers.                                                                   *)

Alive(fiber) == fiber.at # "ended"

\* the JoinHandle in ship_fibers is replaced; a fiber that still runs goes on.  Of a
\* ship's fibers only the last may have ended.
Spawn(line, task) == Append(IF line # <<>> /\ ~Alive(Last(line)) THEN Front(line) ELSE line,
                            [task |-> task, at |-> "behaviour"])

\* launch_and_register_ship and relaunch_ship start a fiber for a ship that has
\* a task; relaunch_ship needs its ship_ops entry.
Launched(s, tasks) == IF tasks[s] = NoTask THEN fibers ELSE [fibers EXCEPT ![s] = Spawn(@, tasks[s])]
Relaunched(s, tasks) == IF s \in ship_ops THEN Launched(s, tasks) ELSE fibers

\* run_fleets panics at a ship without a fleet
LaunchShip(s) ==
    /\ stage = "running" /\ s \in launching.left
    /\ IF launching.assignment[s] = NoFleet
       THEN /\ launching' = NoLaunch /\ dead' = dead \cup {"launcher"}
            /\ UNCHANGED fiber_vars
       ELSE /\ launching' = IF launching.left = {s} THEN NoLaunch ELSE [launching EXCEPT !.left = @ \ {s}]
            /\ ship_ops' = ship_ops \cup {s} /\ fibers' = Launched(s, launching.tasks)
            /\ UNCHANGED dead
    /\ UNCHANGED <<world, db, stage, under_lock, relaunching, sweep, channels, bounds>>

\* The fibers of a ship take turns on its ship_ops mutex.
HasShip(s, i) == /\ i \in DOMAIN fibers[s]
                 /\ fibers[s][i].at \in {"behaviour", "collected"}
                 /\ \A j \in 1..(i - 1) : fibers[s][j].at \in {"sending", "ended"}

Moved(s, i, at) == IF at = "ended" /\ i < Len(fibers[s])
                   THEN [fibers EXCEPT ![s] = RemoveAt(@, i)]
                   ELSE [fibers EXCEPT ![s][i].at = at]

process_else == <<db, stage, dead, under_lock, relaunching, launching, ship_ops, sweep, bounds>>

\* CollectWaypointInfos, at the last open waypoint or before
Explore(s, i, last) ==
    /\ HasShip(s, i) /\ fibers[s][i].task = "explore"
    /\ "actions" \notin dead /\ Len(actions) < Capacity
    /\ explored' = (explored \/ last)
    /\ actions' = Append(actions, Collected(s))
    /\ fibers' = Moved(s, i, "collected")
    /\ UNCHANGED <<owned, tickets, reports, process_else>>

\* A ship that holds a purchase ticket buys the ship at the server.
BuyShip(s, i, t, new) ==
    /\ HasShip(s, i) /\ fibers[s][i].task \in {"trade", "observe"}
    /\ t \in tickets /\ t.ship = s
    /\ new \in OfType(Ships \ owned, t.type)
    /\ "actions" \notin dead /\ Len(actions) < Capacity
    /\ owned' = owned \cup {new} /\ tickets' = tickets \ {t}
    /\ actions' = Append(actions, Purchased(new, t.for))
    /\ UNCHANGED <<explored, fibers, reports, process_else>>

\* the behaviour of a ship that observes has no end
FinishBehaviour(s, i) ==
    /\ HasShip(s, i)
    /\ LET fiber == fibers[s][i]
       IN  \/ fiber.task = "explore" /\ fiber.at = "collected" /\ explored
           \/ fiber.task \in {"trade", "mine"}
    /\ fibers' = Moved(s, i, "sending")
    /\ UNCHANGED <<world, channels, process_else>>

BehaviourFails(s, i) ==
    /\ HasShip(s, i) /\ errors < MaxErrors
    /\ errors' = errors + 1
    /\ fibers' = Moved(s, i, "ended")
    /\ UNCHANGED <<world, channels, db, stage, dead, under_lock, relaunching, launching, ship_ops, sweep, crashes, failures>>

SendReport(s, i) ==
    /\ i \in DOMAIN fibers[s] /\ fibers[s][i].at = "sending"
    /\ IF "status" \in dead THEN UNCHANGED reports
       ELSE /\ Len(reports) < Capacity
            /\ reports' = Append(reports, Finished(s, fibers[s][i].task))
    /\ fibers' = Moved(s, i, "ended")
    /\ UNCHANGED <<world, actions, process_else>>

-----------------------------------------------------------------------------
(* The listeners.                                                            *)

\* mutant of ForwardAction: it does not wait for room in the channel
ForwardWithoutRoom ==
    /\ stage = "running" /\ actions # <<>> /\ "status" \notin dead
    /\ reports' = Append(reports, Head(actions)) /\ actions' = Tail(actions)
    /\ UNCHANGED <<world, db, stage, dead, under_lock, relaunching, launching, fiber_vars, sweep, bounds>>

\* listen_to_ship_action_update_messages returns when nobody receives
ForwardAction ==
    /\ stage = "running" /\ actions # <<>>
    /\ IF "status" \in dead
       THEN dead' = dead \cup {"actions"} /\ actions' = <<>> /\ UNCHANGED reports
       ELSE /\ Len(reports) < Capacity
            /\ reports' = Append(reports, Head(actions)) /\ actions' = Tail(actions)
            /\ UNCHANGED dead
    /\ UNCHANGED <<world, db, stage, under_lock, relaunching, launching, fiber_vars, sweep, bounds>>

Takes(type) == /\ stage = "running" /\ Free
               /\ reports # <<>> /\ Head(reports).type = type

Handle(msg, steps) == /\ todo' = steps /\ report' = (IF steps = <<>> THEN NoReport ELSE msg)
                      /\ relaunching' = {} /\ reports' = Tail(reports)

taker_else == <<owned, explored, db, launching, fiber_vars, sweep, actions, bounds>>

\* report_ship_action_completed: an explorer of the spawning fleet
TakeCollected ==
    /\ Takes("collected")
    /\ LET msg == Head(reports)
           exploring == /\ admiral.assignment[msg.ship] = "InitialExploration"
                        /\ "InitialExploration" \in admiral.fleets
                        /\ admiral.ship_tasks[msg.ship] = "explore"
       IN  \/ /\ exploring /\ explored /\ admiral.fleet_tasks["InitialExploration"] = "task"
              /\ admiral' = [admiral EXCEPT !.fleet_tasks["InitialExploration"] = "empty",
                                            !.completed = @ \cup {"InitialExploration"}]
              /\ Handle(msg, <<"SaveCompleted">>)
           \/ /\ exploring /\ ~explored
              /\ Handle(msg, <<"SaveShipTasks">>) /\ UNCHANGED admiral
           \/ /\ ~exploring \/ (explored /\ admiral.fleet_tasks["InitialExploration"] # "task")
              /\ Handle(msg, <<>>) /\ UNCHANGED admiral
    /\ UNCHANGED <<tickets, stage, dead, taker_else>>

WithoutTask(s) == [admiral EXCEPT !.ship_tasks[s] = NoTask]

\* mutant of DismantleSteps: delete_fleets in the other order
DeleteFleetFirst == <<"SaveShipTasks", "Dismantle", "DeleteFleet", "DeleteTasks", "DeleteAssignments",
                      "NewFleets", "AssignShips", "ComputeTasks", "LaunchIdle">> \o Upserts

DismantleSteps == <<"SaveShipTasks", "Dismantle", "DeleteAssignments", "DeleteTasks", "DeleteFleet",
                    "NewFleets", "AssignShips", "ComputeTasks", "LaunchIdle">> \o Upserts

\* An explorer has finished: its fleet is dismantled.  A ship without a fleet is
\* a panic.
TakeExplored ==
    /\ Takes("finished") /\ Head(reports).task = "explore"
    /\ LET msg == Head(reports)
           fleet == admiral.assignment[msg.ship]
       IN  IF fleet # NoFleet
           THEN /\ admiral' = WithoutTask(msg.ship)
                /\ Handle([msg EXCEPT !.fleet = fleet], DismantleSteps)
                /\ UNCHANGED <<stage, dead>>
           ELSE PanicWith(WithoutTask(msg.ship))
    /\ UNCHANGED <<tickets, taker_else>>

NewTaskSteps == <<"SaveShipTasks", "AssignTask">> \o Upserts \o <<"Relaunch">>

\* A trade is over: a purchase ticket is tried, new tasks are computed, and only
\* this ship's is used; none is an Err.
TakeTraded ==
    /\ Takes("finished") /\ Head(reports).task = "trade"
    /\ LET msg == Head(reports)
           a == WithoutTask(msg.ship)
       IN  \E p \in PurchaseOutcomes(a, [demand |-> a.demand, tickets |-> tickets]) :
           \E o \in ComputeOutcomes(a, p) :
              /\ tickets' = o.plan.tickets
              /\ LET next == [a EXCEPT !.demand = o.plan.demand]
                 IN  IF HasBudgets(a)
                     THEN /\ admiral' = next
                          /\ Handle([msg EXCEPT !.task = o.tasks[msg.ship]],
                                    IF o.tasks[msg.ship] = NoTask THEN <<>> ELSE NewTaskSteps)
                          /\ UNCHANGED <<stage, dead>>
                     ELSE PanicWith(next)
    /\ UNCHANGED taker_else

\* miners and siphoners keep their task
TakeMined ==
    /\ Takes("finished") /\ Head(reports).task = "mine"
    /\ admiral' = WithoutTask(Head(reports).ship)
    /\ Handle(Head(reports), NewTaskSteps)
    /\ UNCHANGED <<tickets, stage, dead, taker_else>>

NewShipSteps == <<"StoreShips", "Register", "ComputeTasks">> \o Upserts \o <<"LaunchNew">>

TakePurchased ==
    /\ Takes("purchased")
    /\ Handle(Head(reports), NewShipSteps)
    /\ UNCHANGED <<tickets, admiral, stage, dead, taker_else>>

step_else == <<world, db, launching, sweep, actions, bounds>>

Dismantled(f) ==
    [admiral EXCEPT !.completed = IF admiral.fleet_tasks[f] = "task" THEN @ \cup {f} ELSE @,
                    !.fleet_tasks[f] = "no_row",
                    !.assignment = [s \in Ships |-> IF s \in Crew(admiral, f) THEN NoFleet ELSE @[s]],
                    !.fleets = @ \ {f}, !.budgets = @ \ {f}]

\* FleetAdmiral::dismantle_fleets; a panic when the agent's credits are not what they
\* were before, because a ship has traded meanwhile
Dismantle ==
    /\ Does("Dismantle")
    /\ \/ admiral' = Dismantled(report.fleet) /\ Proceed /\ UNCHANGED <<stage, dead, reports>>
       \/ PanicWith(Dismantled(report.fleet))
    /\ UNCHANGED <<fiber_vars, step_else>>

\* the new phase, its fleets and its shopping list
NewFleets ==
    /\ Does("NewFleets")
    /\ LET phase == CurrentPhase(admiral.completed)
           fleets == admiral.fleets \cup Range(PhaseTasks(phase))
       IN  IF \A f \in admiral.fleets : admiral.fleet_tasks[f] = "task"
           THEN /\ admiral' = [admiral EXCEPT
                       !.fleets = fleets, !.fleet_tasks = TaskRows(fleets), !.phase = phase,
                       !.demand = NextShipPurchases(admiral.all_ships, phase)]
                /\ Proceed /\ UNCHANGED <<stage, dead, reports>>
           ELSE PanicWith(admiral)
    /\ UNCHANGED <<fiber_vars, step_else>>

\* assign_ships for the fleets in any order, then the budgets
AssignShips ==
    /\ Does("AssignShips")
    /\ \E order \in SetToSeqs(admiral.fleets) :
       \E sent \in ShipAssignments(order, admiral.all_ships, ShoppingList(admiral.phase)) :
          admiral' = [admiral EXCEPT !.assignment = sent, !.budgets = Budgeted(admiral.phase)]
    /\ Proceed
    /\ UNCHANGED <<stage, dead, fiber_vars, reports, step_else>>

IsFinished(s) == fibers[s] # <<>> /\ ~Alive(Last(fibers[s]))

\* mutant of NotRunning: ships that were never started only
NeverStarted(all_ships) == {s \in all_ships : fibers[s] = <<>>}

\* ships whose registered fiber has ended, and ships that have none
NotRunning(all_ships) == {s \in all_ships : fibers[s] = <<>>} \cup {s \in Ships : IsFinished(s)}

\* launch_ship_fibers_of_idle_or_new_ships, called by the status listener with the
\* admiral's maps: the ships without a fiber are listed first ...
LaunchIdle ==
    /\ Does("LaunchIdle") /\ relaunching = {}
    /\ IF NotRunning(admiral.all_ships) = {} THEN Proceed
       ELSE relaunching' = NotRunning(admiral.all_ships) /\ UNCHANGED <<todo, report>>
    /\ UNCHANGED <<stage, dead, admiral, fiber_vars, reports, step_else>>

\* ... and relaunched in any order, each under the runner's lock; one without a fleet
\* is a panic
RelaunchIdle(s) ==
    /\ Does("LaunchIdle") /\ s \in relaunching
    /\ IF admiral.assignment[s] = NoFleet THEN PanicWith(admiral) /\ UNCHANGED fibers
       ELSE /\ fibers' = Relaunched(s, admiral.ship_tasks)
            /\ IF relaunching = {s} THEN Proceed ELSE relaunching' = relaunching \ {s} /\ UNCHANGED <<todo, report>>
            /\ UNCHANGED <<stage, dead, admiral, reports>>
    /\ UNCHANGED <<ship_ops, step_else>>

\* panics when the ship has no fleet
AssignTask ==
    /\ Does("AssignTask")
    /\ LET next == [admiral EXCEPT !.ship_tasks[report.ship] = report.task]
       IN  IF admiral.assignment[report.ship] # NoFleet
           THEN admiral' = next /\ Proceed /\ UNCHANGED <<stage, dead, reports>>
           ELSE PanicWith(next)
    /\ UNCHANGED <<fiber_vars, step_else>>

Relaunch ==
    /\ Does("Relaunch")
    /\ fibers' = Relaunched(report.ship, admiral.ship_tasks)
    /\ Proceed
    /\ UNCHANGED <<stage, dead, admiral, ship_ops, reports, step_else>>

\* A bought ship joins its fleet; adjust_fleet_budget_after_ship_purchase returns
\* Err when the fleet is gone.
Register ==
    /\ Does("Register")
    /\ admiral' = [admiral EXCEPT !.all_ships = @ \cup {report.ship},
                                  !.assignment[report.ship] = report.fleet]
    /\ IF report.fleet \in admiral.fleets \cap admiral.budgets THEN Proceed /\ UNCHANGED stage ELSE GiveUp
    /\ UNCHANGED <<dead, fiber_vars, reports, step_else>>

\* mutant of LaunchNew: the ship is not registered
LaunchUnregistered ==
    /\ Does("LaunchNew")
    /\ fibers' = Launched(report.ship, admiral.ship_tasks)
    /\ Proceed
    /\ UNCHANGED <<stage, dead, admiral, ship_ops, reports, step_else>>

\* launch_and_register_ship for the new ship
LaunchNew ==
    /\ Does("LaunchNew")
    /\ ship_ops' = ship_ops \cup {report.ship}
    /\ fibers' = Launched(report.ship, admiral.ship_tasks)
    /\ Proceed
    /\ UNCHANGED <<stage, dead, admiral, reports, step_else>>

-----------------------------------------------------------------------------
(* The restart task: it copies the admiral's maps under the mutex, looks for  *)
(* ships without a running fiber after that, and then starts a fiber for each *)
(* of them with the copied task.                                             *)

SweepSnapshot ==
    /\ stage = "running" /\ "restart" \notin dead /\ sweep.at = "asleep" /\ Free
    /\ MaxFibers > 0
    /\ sweep' = [at |-> "copied", ships |-> admiral.all_ships, tasks |-> admiral.ship_tasks,
                 assignment |-> admiral.assignment]
    /\ UNCHANGED <<world, db, stage, dead, under_lock, relaunching, launching, fiber_vars, channels, bounds>>

SweepFilter ==
    /\ sweep.at = "copied"
    /\ LET idle == NotRunning(sweep.ships)
       IN  sweep' = IF idle = {} THEN NoSweep ELSE [sweep EXCEPT !.at = "relaunching", !.ships = idle]
    /\ UNCHANGED <<world, db, stage, dead, under_lock, relaunching, launching, fiber_vars, channels, bounds>>

\* fibers of a ship that run, and reports of a ship that nobody has taken yet
Outstanding(s) == Cardinality({i \in DOMAIN fibers[s] : Alive(fibers[s][i])})
                  + Cardinality({i \in DOMAIN reports : reports[i].type = "finished" /\ reports[i].ship = s})

\* The task ends at a ship without a fleet.  A ship that is at the bound is passed over.
SweepRelaunch(s) ==
    /\ sweep.at = "relaunching" /\ s \in sweep.ships
    /\ IF sweep.assignment[s] = NoFleet
       THEN sweep' = NoSweep /\ dead' = dead \cup {"restart"} /\ UNCHANGED fibers
       ELSE /\ sweep' = IF sweep.ships = {s} THEN NoSweep ELSE [sweep EXCEPT !.ships = @ \ {s}]
            /\ fibers' = IF Outstanding(s) < MaxFibers THEN Relaunched(s, sweep.tasks) ELSE fibers
            /\ UNCHANGED dead
    /\ UNCHANGED <<world, db, stage, under_lock, relaunching, launching, ship_ops, channels, bounds>>

-----------------------------------------------------------------------------
(* The process stops anywhere, within a statement too; the tables, the        *)
(* treasurer's ledger and the server's ships stay.                           *)
Crash ==
    /\ stage # "down" /\ crashes < MaxCrashes
    /\ crashes' = crashes + 1
    /\ db' \in CutOff
    /\ stage' = "down" /\ dead' = {}
    /\ admiral' = NoAdmiral /\ todo' = <<>> /\ report' = NoReport /\ relaunching' = {}
    /\ launching' = NoLaunch /\ ship_ops' = {} /\ fibers' = [s \in Ships |-> <<>>]
    /\ sweep' = NoSweep /\ actions' = <<>> /\ reports' = <<>>
    /\ UNCHANGED <<world, errors, failures>>

WriteStep == \E step \in Writes : Write(step)
StartUpStep == Create \/ Load \/ Listen
TakeStep == TakeCollected \/ TakeExplored \/ TakeTraded \/ TakeMined \/ TakePurchased
HandlerStep == \/ ComputeTasks \/ Dismantle \/ NewFleets \/ AssignShips
               \/ LaunchIdle \/ (\E s \in Ships : RelaunchIdle(s))
               \/ AssignTask \/ Relaunch \/ Register \/ LaunchNew
ExploreStep == \E s \in Ships : \E i \in DOMAIN fibers[s], last \in BOOLEAN : Explore(s, i, last)
BuyStep == \E s \in Ships : \E i \in DOMAIN fibers[s], t \in tickets, new \in Ships : BuyShip(s, i, t, new)
EndStep == \E s \in Ships : \E i \in DOMAIN fibers[s] : FinishBehaviour(s, i) \/ BehaviourFails(s, i)
SendStep(s) == \E i \in DOMAIN fibers[s] : SendReport(s, i)

Next == \/ Start \/ StartUpStep \/ WriteStep \/ HandlerStep \/ TakeStep \/ Fail
        \/ \E s \in Ships : LaunchShip(s) \/ SendStep(s) \/ SweepRelaunch(s)
        \/ ExploreStep \/ BuyStep \/ EndStep
        \/ ForwardAction \/ SweepSnapshot \/ SweepFilter \/ Crash

Spec == Init /\ [][Next]_vars

\* Every task of the process is polled when it can go on; tokio's mutex and its
\* channels serve who waits in order.  Nothing makes a behaviour end, a ship be
\* bought or a stopped process start again.
Fairness ==
    /\ WF_vars(StartUpStep) /\ WF_vars(WriteStep) /\ WF_vars(HandlerStep)
    /\ SF_vars(TakeStep) /\ SF_vars(ForwardAction)
    /\ SF_vars(SweepSnapshot) /\ WF_vars(SweepFilter)
    /\ \A s \in Ships : WF_vars(LaunchShip(s)) /\ SF_vars(SendStep(s)) /\ WF_vars(SweepRelaunch(s))

FairSpec == Spec /\ Fairness

-----------------------------------------------------------------------------
(* Properties.                                                               *)

\* Nobody has the admiral's mutex, and nothing has failed or panicked in the
\* listener so far.
Settled == /\ stage = "running" /\ Free /\ failures = 0
           /\ dead \cap {"launcher", "status"} = {}

\* The fleet of every ship exists.  Register breaks this when a fleet was dismantled
\* while a ship was being bought for it.
EveryFleetExists == \A s \in Ships : admiral.assignment[s] \in admiral.fleets \cup {NoFleet}

\* The order of the statements never violates a foreign key of the tables: as long
\* as the fleet of every ship exists no write is refused, whatever a crash or an
\* error has left (fleet_bmc.rs, upsert_fleets_data and delete_fleets).
WritesAreAccepted ==
    EveryFleetExists /\ todo # <<>> /\ Head(todo) \in Writes
        => ForeignKeys(Stored(Head(todo), Keys(Head(todo))))

\* When a report is done the tables are what a restart needs to go on: the same
\* fleets and ships, the fleet of every ship that has one, and every task a ship
\* has.  A ship that assign_ships leaves out keeps its old row.
SettledAdmiralIsStored ==
    Settled /\ EveryFleetExists =>
        /\ db.fleets = admiral.fleets /\ db.ships = admiral.all_ships
        /\ \A s \in Ships : /\ admiral.assignment[s] \in {NoFleet, db.assignment[s]}
                            /\ admiral.ship_tasks[s] \in {NoTask, db.ship_tasks[s]}

\* Between two reports the admiral has the fleets of its phase, each with a budget
\* and with a row of tasks in the tables.
FleetsFollowThePhase ==
    Settled => /\ admiral.fleets = Range(PhaseTasks(admiral.phase))
               /\ admiral.budgets = admiral.fleets
               /\ \A f \in admiral.fleets : db.fleet_tasks[f] # "no_row"

\* In a process that has run from the first start without a crash, every bought
\* ship is known and can be launched once the reports are worked off.
BoughtShipsAreKnown ==
    Settled /\ crashes = 0 /\ launching = NoLaunch /\ reports = <<>> /\ actions = <<>>
        => owned = admiral.all_ships /\ owned = ship_ops

Runs(s) == \E i \in DOMAIN fibers[s] : Alive(fibers[s][i])

\* A behaviour that ends with an error sends no report; the restart task brings
\* the ship back, as long as that task lives.
TaskedShipsRun ==
    \A s \in Ships : (stage = "running" /\ s \in ship_ops /\ admiral.ship_tasks[s] # NoTask)
        ~> (Runs(s) \/ admiral.ship_tasks[s] = NoTask \/ "restart" \in dead \/ stage # "running")

=============================================================================
