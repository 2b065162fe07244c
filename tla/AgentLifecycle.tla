--------------------------- MODULE AgentLifecycle ---------------------------
(***************************************************************************)
(* The agent across resets of the game server (agent_manager.rs, agent.rs, *)
(* db.rs): the status is asked, the database schema of a past reset is     *)
(* archived, the agent is registered or its token loaded, the data of the  *)
(* home system are collected and the fleets start, detached.               *)
(*                                                                         *)
(* Resets are numbered from 1; 0 stands for an entry that is not there.    *)
(* Faults: the process ends, a request or statement fails, the answer of   *)
(* the registration is lost.  The owner of the manager may ask it to       *)
(* restart the agent; the programs of this repository keep the sender and  *)
(* never use it.                                                           *)
(***************************************************************************)
EXTENDS Integers

CONSTANTS LastReset,    \* resets of the server
          MaxCrashes,   \* ends of the process
          MaxFailures,  \* failed requests and statements
          MaxSignals,   \* restarts the owner asks for
          GateFirst     \* resets in which the jump gate is the first waypoint listed

ASSUME LifecycleAssumption ==
  /\ LastReset \in Nat \ {0} /\ MaxCrashes \in Nat /\ MaxFailures \in Nat /\ MaxSignals \in Nat
  /\ GateFirst \subseteq 1..LastReset

VARIABLES
  server,    \* the reset it is in, and whether the agent's symbol is taken
  db,        \* the schema public
  archive,   \* reset -> the schema archived under its date
  mgr,       \* AgentManager: where run stands, the status and token it works with
  agent,     \* the task of spawn_and_get_handle, and its token
  fleets,    \* token -> run_fleets tasks at work with it
  answers,   \* tokens for which a fleet has an answer and has not stored it
  signals,   \* reset_rx
  faults,    \* auxiliary: crashes, failures, signals sent so far
  astray     \* auxiliary: how the token of this reset got lost

vars == <<server, db, archive, mgr, agent, fleets, answers, signals, faults, astray>>

Resets  == 1..LastReset
Entries == 0..LastReset

\* torn: tables of which only the first row was stored
NoRows(schema) ==
  [schema |-> schema, status |-> 0, token |-> 0,
   ships |-> {}, waypoints |-> 0, fleets |-> 0, torn |-> {}]
NoSchema  == NoRows("none")
NewSchema == NoRows("empty")

NoAgent == [pc |-> "none", token |-> 0]

NoFleets == [e \in Entries |-> 0]

ManagerAt(pc) == [pc |-> pc, status |-> 0, token |-> 0]
Off == ManagerAt("off")

Fault(kind, bound) == faults[kind] < bound /\ faults' = [faults EXCEPT ![kind] = @ + 1]

Fails == Fault("failures", MaxFailures)

\* ResetDetectionMiddleware: it sends to a channel whose receiver was dropped
\* when the client was made
Detected(n) == n

At(pc) == mgr.pc = pc

GoTo(pc) == mgr' = [mgr EXCEPT !.pc = pc]

\* run: an error of the initialisation, five seconds, the next attempt
TryAgain == mgr' = ManagerAt("status")

\* a request or a statement of the initialisation fails
InitialisationFails ==
  /\ mgr.pc \in {"status", "migrate", "load", "rename", "create", "remigrate", "insert", "registration"}
  /\ Fails /\ TryAgain
  /\ UNCHANGED <<server, db, archive, agent, fleets, answers, signals, astray>>

-----------------------------------------------------------------------------
(* initialize_and_start_db_agent, prepare_database_schema *)

OnlyManager == UNCHANGED <<server, db, archive, agent, fleets, answers, signals, faults, astray>>
Prepares    == UNCHANGED <<server, agent, fleets, answers, signals, faults, astray>>

GetStatus ==
  /\ At("status")
  /\ mgr' = [mgr EXCEPT !.pc = "migrate", !.status = server.reset]
  /\ OnlyManager

\* perform_migration; without the schema public it fails
Migrate ==
  /\ mgr.pc \in {"migrate", "remigrate"}
  /\ IF db.schema = "none"
     THEN TryAgain /\ UNCHANGED db
     ELSE /\ db' = [db EXCEPT !.schema = "migrated"]
          /\ GoTo(IF At("migrate") THEN "load" ELSE "insert")
  /\ UNCHANGED archive /\ Prepares

\* mutant of LoadStatus: the schema is kept and gets a new status
LoadStatusKept ==
  /\ At("load")
  /\ GoTo(IF db.status = mgr.status THEN "registration" ELSE "insert")
  /\ OnlyManager

LoadStatus ==
  /\ At("load")
  /\ GoTo(CASE db.status = 0          -> "insert"
            [] db.status = mgr.status -> "registration"
            [] OTHER                  -> "rename")
  /\ OnlyManager

RenameSchema ==
  /\ At("rename") /\ archive[db.status].schema = "none"
  /\ archive' = [archive EXCEPT ![db.status] = db]
  /\ db' = NoSchema
  /\ GoTo("create")
  /\ Prepares

\* mutant of CreateSchema: the new schema is not migrated
CreateSchemaOnly ==
  /\ At("create")
  /\ db' = NewSchema
  /\ GoTo("insert")
  /\ UNCHANGED archive /\ Prepares

CreateSchema ==
  /\ At("create")
  /\ db' = NewSchema
  /\ GoTo("remigrate")
  /\ UNCHANGED archive /\ Prepares

InsertStatus ==
  /\ At("insert")
  /\ db' = [db EXCEPT !.status = mgr.status]
  /\ GoTo("registration")
  /\ UNCHANGED archive /\ Prepares

-----------------------------------------------------------------------------
(* get_authenticated_client *)

LoadRegistration ==
  /\ At("registration")
  /\ mgr' = [mgr EXCEPT !.token = db.token, !.pc = IF db.token = 0 THEN "register" ELSE "spawn"]
  /\ OnlyManager

\* the manager panics
Panic == mgr' = Off

\* a second registration is refused; the answer may be lost
Register ==
  /\ At("register")
  /\ IF server.claimed
     THEN Panic /\ UNCHANGED <<server, faults, astray>>
     ELSE /\ server' = [server EXCEPT !.claimed = TRUE]
          /\ \/ /\ mgr' = [mgr EXCEPT !.token = server.reset, !.pc = "save"]
                /\ IF mgr.status = server.reset
                   THEN UNCHANGED <<faults, astray>>
                   ELSE faults' = [faults EXCEPT !["late"] = @ + 1] /\ astray' = astray \cup {"late"}
             \/ Fails /\ Panic /\ astray' = astray \cup {"answer"}
  /\ UNCHANGED <<db, archive, agent, fleets, answers, signals>>

RegistrationFails ==
  /\ At("register") /\ Fails /\ Panic
  /\ UNCHANGED <<server, db, archive, agent, fleets, answers, signals, astray>>

\* mutant of SaveRegistration: never stored
RegistrationNotSaved ==
  /\ At("save") /\ GoTo("spawn") /\ OnlyManager

\* the result of the statement is ignored
SaveRegistration ==
  /\ At("save")
  /\ GoTo("spawn")
  /\ \/ /\ db' = [db EXCEPT !.token = mgr.token]
        /\ UNCHANGED <<faults, astray>>
     \/ /\ Fails /\ astray' = (IF mgr.token = server.reset THEN astray \cup {"save"} ELSE astray)
        /\ UNCHANGED db
  /\ UNCHANGED <<server, archive, agent, fleets, answers, signals>>

Spawn ==
  /\ At("spawn")
  /\ agent' = [pc |-> "ask", token |-> mgr.token]
  /\ GoTo("waiting")
  /\ UNCHANGED <<server, db, archive, fleets, answers, signals, faults, astray>>

-----------------------------------------------------------------------------
(* run_agent, load_or_create, load_and_store_initial_data_in_bmcs *)

AgentAt(pc) == agent.pc = pc

AgentGoesTo(pc) == agent' = [agent EXCEPT !.pc = pc]

\* the server knows the token
Accepted(token) == token = server.reset

AgentOnly == UNCHANGED <<server, archive, mgr, answers, faults, astray>>

\* the task logs the error and completes; nobody is told
AgentEnds == AgentGoesTo("ended") /\ UNCHANGED <<db, fleets>>

\* the agent's entry is asked for and stored, then load_admiral
AskForAgent ==
  /\ AgentAt("ask")
  /\ IF Accepted(agent.token)
     THEN AgentGoesTo(IF db.fleets = 0 THEN "ships" ELSE "run") /\ UNCHANGED <<db, fleets, signals>>
     ELSE AgentEnds /\ signals' = Detected(signals)
  /\ AgentOnly

\* the step asks the server for what the table lacks and stores it
Collect(pc, missing, stored, next) ==
  /\ AgentAt(pc) /\ missing
  /\ IF Accepted(agent.token)
     THEN db' = stored /\ AgentGoesTo(next) /\ UNCHANGED <<fleets, signals>>
     ELSE AgentEnds /\ signals' = Detected(signals)
  /\ AgentOnly

\* a table with a row in it is not asked for
Skip(pc, missing, next) ==
  /\ AgentAt(pc) /\ ~missing
  /\ AgentGoesTo(next)
  /\ UNCHANGED <<db, fleets, signals>> /\ AgentOnly

\* mutant of CollectShips: a row that is there already makes the step fail
CollectShipsInserted ==
  \/ Collect("ships", db.ships = {},
             [db EXCEPT !.ships = {agent.token}, !.torn = @ \cup {"ships"}], "ship rows")
  \/ AgentAt("ships") /\ db.ships # {} /\ AgentEnds /\ UNCHANGED signals /\ AgentOnly

\* upsert_ships stores the first row by a statement of its own
CollectShips ==
  \/ Collect("ships", db.ships = {},
             [db EXCEPT !.ships = {agent.token}, !.torn = @ \cup {"ships"}], "ship rows")
  \/ Skip("ships", db.ships = {}, "waypoints")

\* upsert_waypoints as well
CollectWaypoints ==
  \/ Collect("waypoints", db.waypoints = 0,
             [db EXCEPT !.waypoints = agent.token, !.torn = @ \cup {"waypoints"}], "waypoint rows")
  \/ Skip("waypoints", db.waypoints = 0, "markets")

\* ... and all others by a second, in no transaction with it
StoreRest(pc, table, next) ==
  /\ AgentAt(pc)
  /\ db' = [db EXCEPT !.torn = @ \ {table}]
  /\ AgentGoesTo(next)
  /\ UNCHANGED <<fleets, signals>> /\ AgentOnly

\* mutant of StoreShips: the rest is stored by nobody
StoreShipsNot ==
  /\ AgentAt("ship rows")
  /\ AgentGoesTo("waypoints")
  /\ UNCHANGED <<db, fleets, signals>> /\ AgentOnly

StoreShips     == StoreRest("ship rows", "ships", "waypoints")
StoreWaypoints == StoreRest("waypoint rows", "waypoints", "markets")

NoGate == "waypoints" \in db.torn /\ db.waypoints \notin GateFirst

\* markets, shipyards, the construction site and the supply chain, every time;
\* without a jump gate the task panics
CollectMarkets ==
  \/ ~NoGate /\ Collect("markets", TRUE, db, "found")
  \/ NoGate /\ AgentAt("markets") /\ AgentEnds /\ UNCHANGED signals /\ AgentOnly

\* FleetAdmiral::create, upsert_fleets_data
FoundFleets ==
  /\ AgentAt("found")
  /\ db' = [db EXCEPT !.fleets = agent.token]
  /\ AgentGoesTo("run")
  /\ UNCHANGED <<fleets, signals>> /\ AgentOnly

\* run_fleets is spawned on its own, and the task of the agent is done
RunFleets ==
  /\ AgentAt("run")
  /\ fleets' = [fleets EXCEPT ![agent.token] = @ + 1]
  /\ AgentGoesTo("done")
  /\ UNCHANGED <<db, signals>> /\ AgentOnly

\* between the two statements of a table
InBetween == agent.pc \in {"ship rows", "waypoint rows"}

\* a fault that ends the agent; "torn" counts those that leave half a table
EndsAgent(kind, bound) ==
  /\ faults[kind] < bound
  /\ faults' = [faults EXCEPT ![kind] = @ + 1, !["torn"] = IF InBetween THEN @ + 1 ELSE @]

AgentFails ==
  /\ agent.pc \in {"ask", "ships", "ship rows", "waypoints", "waypoint rows", "markets", "found"}
  /\ EndsAgent("failures", MaxFailures) /\ AgentGoesTo("ended")
  /\ UNCHANGED <<server, db, archive, mgr, fleets, answers, signals, astray>>

-----------------------------------------------------------------------------
(* The fleets at work *)

FleetAsks(e) ==
  /\ fleets[e] > 0
  /\ IF Accepted(e) THEN answers' = answers \cup {e} /\ UNCHANGED signals
                    ELSE signals' = Detected(signals) /\ UNCHANGED answers
  /\ UNCHANGED <<server, db, archive, mgr, agent, fleets, faults, astray>>

\* a ship of the answer is upserted, in whatever schema is now public
FleetStores(e) ==
  /\ e \in answers
  /\ answers' = answers \ {e}
  /\ db' = IF db.schema = "migrated" THEN [db EXCEPT !.ships = @ \cup {e}] ELSE db
  /\ UNCHANGED <<server, archive, mgr, agent, fleets, signals, faults, astray>>

-----------------------------------------------------------------------------
(* Restarts *)

\* run after a signal: the task is told to stop and aborted, the fleets it has
\* spawned are not
RestartAgent ==
  /\ At("waiting") /\ signals > 0
  /\ signals' = signals - 1
  /\ agent' = NoAgent
  /\ TryAgain
  /\ UNCHANGED <<server, db, archive, fleets, answers, faults, astray>>

\* the owner of AgentManager uses the sender that new returns
SendReset ==
  /\ Fault("signals", MaxSignals) /\ ~At("off")
  /\ signals' = signals + 1
  /\ UNCHANGED <<server, db, archive, mgr, agent, fleets, answers, astray>>

ServerReset ==
  /\ server.reset < LastReset
  /\ server' = [reset |-> server.reset + 1, claimed |-> FALSE]
  /\ astray' = {}
  /\ UNCHANGED <<db, archive, mgr, agent, fleets, answers, signals, faults>>

Crash ==
  /\ ~At("off") /\ EndsAgent("crashes", MaxCrashes)
  /\ mgr' = Off /\ agent' = NoAgent
  /\ fleets' = NoFleets /\ answers' = {} /\ signals' = 0
  /\ astray' = IF At("save") /\ Accepted(mgr.token) THEN astray \cup {"save"} ELSE astray
  /\ UNCHANGED <<server, db, archive>>

\* the process is started; what is left of a manager that panicked ends with it
StartProcess ==
  /\ At("off")
  /\ mgr' = ManagerAt("status") /\ agent' = NoAgent
  /\ fleets' = NoFleets /\ answers' = {} /\ signals' = 0
  /\ UNCHANGED <<server, db, archive, faults, astray>>

Init ==
  /\ server = [reset |-> 1, claimed |-> FALSE]
  /\ db = NewSchema
  /\ archive = [e \in Resets |-> NoSchema]
  /\ mgr = Off /\ agent = NoAgent
  /\ fleets = NoFleets /\ answers = {} /\ signals = 0
  /\ faults = [k \in {"crashes", "failures", "signals", "late", "torn"} |-> 0]
  /\ astray = {}

ManagerStep ==
  \/ GetStatus \/ Migrate \/ LoadStatus \/ RenameSchema \/ CreateSchema \/ InsertStatus
  \/ LoadRegistration \/ Register \/ SaveRegistration \/ Spawn \/ RestartAgent

AgentStep ==
  \/ AskForAgent \/ CollectShips \/ StoreShips \/ CollectWaypoints \/ StoreWaypoints
  \/ CollectMarkets \/ FoundFleets \/ RunFleets

Next ==
  \/ ManagerStep \/ AgentStep
  \/ InitialisationFails \/ RegistrationFails \/ AgentFails
  \/ \E e \in Resets : FleetAsks(e) \/ FleetStores(e)
  \/ SendReset \/ ServerReset \/ Crash \/ StartProcess

Spec == Init /\ [][Next]_vars

\* the runtime polls both tasks, and an operator starts a process that is down
FairSpec == Spec /\ WF_vars(ManagerStep) /\ WF_vars(AgentStep) /\ WF_vars(StartProcess)

-----------------------------------------------------------------------------
(* Properties *)

Schemas ==
  [schema : {"none", "empty", "migrated"}, status : Entries, token : Entries,
   ships : SUBSET Resets, waypoints : Entries, fleets : Entries,
   torn : SUBSET {"ships", "waypoints"}]

TypeOK ==
  /\ server \in [reset : Resets, claimed : BOOLEAN]
  /\ db \in Schemas /\ archive \in [Resets -> Schemas]
  /\ mgr.status \in Entries /\ mgr.token \in Entries /\ agent.token \in Entries
  /\ fleets \in [Entries -> Nat] /\ answers \subseteq Resets /\ signals \in Nat
  /\ astray \subseteq {"answer", "save", "late"}
  /\ mgr.pc \in {"spawn", "waiting"} => mgr.token # 0

\* The agent's symbol can be registered once in a reset, and a start without
\* the token panics until the next one.  The token of the current reset is in
\* the database or about to be, whatever crashes and fails, but in three cases:
\* the answer was lost, it was not saved, or the server was reset between the
\* status and the registration (get_authenticated_client).
TokenIsKept ==
  server.claimed /\ astray = {} =>
    db.token = server.reset \/ (At("save") /\ mgr.token = server.reset)

Rows(d) == d.ships \cup ({d.token, d.waypoints, d.fleets} \ {0})

\* A schema holds the rows of the reset its status is of: the rows of a past
\* reset are archived before any of the next is stored, and each step stores
\* what the token it has was given for (prepare_database_schema).  A reset
\* between the status and the registration breaks this, and so does a restart
\* inside the process, which leaves the fleets of before at work.
DataOfOneReset ==
  faults["signals"] = 0 /\ faults["late"] = 0 =>
    \A d \in {db} \cup {archive[e] : e \in Resets} : Rows(d) \subseteq {d.status}

\* Whatever a crash left behind, a start goes on to the registration only with
\* all tables and with its own status stored (prepare_database_schema).
SchemaIsPrepared ==
  mgr.pc \in {"registration", "register", "save", "spawn", "waiting"} =>
    db.schema = "migrated" /\ db.status = mgr.status

\* A process runs the fleets once, and only on data of their own reset: every
\* table was collected, however often earlier starts failed half-way.  A start
\* that ends between the two statements of upsert_ships or upsert_waypoints
\* leaves the first row, no later start collects the others, and the fleets run
\* without them; that is the only way to rows that are missing.  Only a restart
\* that the owner asks for runs the fleets twice: the abort does not reach them.
OneFleet ==
  faults["signals"] = 0 =>
    /\ \A e, f \in Resets : fleets[e] <= 1 /\ (fleets[e] = 1 /\ fleets[f] = 1 => e = f)
    /\ faults["late"] = 0 =>
         \A e \in Resets : fleets[e] = 1 =>
           /\ db.fleets = e /\ db.ships = {e} /\ db.waypoints = e
           /\ faults["torn"] = 0 => db.torn = {}

Running == fleets[server.reset] > 0

\* nothing fails any more, and nothing has been lost
Quiet ==
  /\ server.reset = LastReset
  /\ faults["crashes"] = MaxCrashes /\ faults["failures"] = MaxFailures
  /\ faults["signals"] = MaxSignals /\ signals = 0
  /\ astray = {} /\ db.schema # "none"
  /\ db.status = server.reset => "waypoints" \notin db.torn

\* Once nothing fails, a start brings the fleets up, whatever an earlier start
\* left behind: a schema of a past reset, one without tables or status, a token
\* without fleets, some of the initial data.  Two things no
\* start repairs: a schema that was renamed and not created again, and waypoints
\* of this reset of which only the first row is there; unless that is the jump
\* gate, every start panics on it (load_and_store_initial_data_in_bmcs).
StartsRunTheFleets == (At("status") /\ Quiet) ~> Running
=============================================================================
