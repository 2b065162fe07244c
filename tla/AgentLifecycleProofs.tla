------------------------ MODULE AgentLifecycleProofs ------------------------
(***************************************************************************)
(* Proofs about AgentLifecycle, for any number of resets, crashes,         *)
(* failures and requested restarts.                                        *)
(*                                                                         *)
(* The invariants of the module are not inductive: what is in the schema   *)
(* follows from where the manager stands (Staged), the token of the reset  *)
(* from the status it was stored under (Kept), and whose rows there are    *)
(* from which agent and which fleets are at work (AtWork, Undisturbed,     *)
(* Whole).                                                                 *)
(***************************************************************************)
EXTENDS AgentLifecycle, TLAPS

ManagerPCs == {"off", "status", "migrate", "load", "rename", "create", "remigrate", "insert",
               "registration", "register", "save", "spawn", "waiting"}
AgentPCs   == {"none", "ask", "ships", "ship rows", "waypoints", "waypoint rows", "markets",
               "found", "run", "done", "ended"}
Kinds      == {"crashes", "failures", "signals", "late", "torn"}
Tables     == {"ships", "waypoints"}

ManagerType == [pc : ManagerPCs, status : Entries, token : Entries]
AgentType   == [pc : AgentPCs, token : Entries]
ServerType  == [reset : Resets, claimed : BOOLEAN]

Typed ==
  /\ server \in ServerType
  /\ db \in Schemas /\ archive \in [Resets -> Schemas]
  /\ mgr \in ManagerType
  /\ agent \in AgentType
  /\ fleets \in [Entries -> Nat]
  /\ answers \subseteq Resets
  /\ signals \in Nat
  /\ faults \in [Kinds -> Nat]
  /\ astray \subseteq {"answer", "save", "late"}

\* What the manager has found and done where it stands
Staged ==
  /\ db.schema # "migrated" => db.token = 0 /\ db.status = 0
  /\ db.status <= server.reset /\ db.token <= server.reset
  /\ mgr.status <= server.reset /\ mgr.token <= server.reset
  /\ mgr.pc \notin {"off", "status"} => mgr.status # 0 /\ db.status <= mgr.status
  /\ mgr.pc \in {"load", "rename", "insert", "registration", "register", "save", "spawn", "waiting"}
       => db.schema = "migrated"
  /\ mgr.pc = "rename" => db.status # 0 /\ db.status # mgr.status
  /\ mgr.pc \in {"create", "remigrate"} => db.schema # "migrated"
  /\ mgr.pc = "insert" => db.status = 0
  /\ mgr.pc \in {"registration", "register", "save", "spawn", "waiting"} => db.status = mgr.status
  /\ mgr.pc \in {"register", "save"} => db.token = 0
  /\ mgr.pc \in {"save", "spawn", "waiting"} => mgr.token # 0

\* A token of this reset is stored under the status of this reset
Kept ==
  /\ TokenIsKept
  /\ astray = {} /\ db.token = server.reset => db.status = server.reset
  /\ astray = {} /\ mgr.pc = "save" /\ mgr.token = server.reset => mgr.status = server.reset

\* An agent is at work only while its manager waits for it, and collects in order
AtWork ==
  /\ agent.pc # "none" => mgr.pc = "waiting" /\ agent.token = mgr.token
  /\ agent.pc \in {"ship rows", "waypoints", "waypoint rows", "markets", "found"} => db.ships # {}
  /\ agent.pc \in {"waypoint rows", "markets", "found"} => db.waypoints # 0
  /\ agent.pc \in {"run", "done"} => db.fleets # 0
  /\ db.fleets # 0 => db.ships # {} /\ db.waypoints # 0

\* Without a requested restart the fleets are those of the agent
Undisturbed ==
  /\ signals > 0 => faults["signals"] > 0
  /\ faults["signals"] = 0 =>
       /\ \A e \in Entries : fleets[e] > 0 => agent.pc = "done" /\ e = agent.token /\ fleets[e] = 1
       /\ \A e \in answers : agent.pc = "done" /\ e = agent.token

OwnRows(d) ==
  /\ d.ships \subseteq {d.status}
  /\ d.token \in {0, d.status} /\ d.waypoints \in {0, d.status} /\ d.fleets \in {0, d.status}

\* ... and what they store is of the reset of the schema's status
Own ==
  faults["signals"] = 0 /\ faults["late"] = 0 =>
    /\ mgr.pc \in {"save", "spawn", "waiting"} => mgr.token = mgr.status
    /\ OwnRows(db)
    /\ \A e \in Resets : OwnRows(archive[e])

\* Unless a start ended in between, half a table is one that is being stored
Whole ==
  faults["signals"] = 0 /\ faults["torn"] = 0 =>
    /\ "ships" \in db.torn => agent.pc = "ship rows"
    /\ "waypoints" \in db.torn => agent.pc = "waypoint rows"

Sound == Staged /\ Kept /\ AtWork /\ Undisturbed /\ Own /\ Whole

IInv == Typed /\ Sound

\* What a step leaves, field by field
ManagerAfter(pc, status, token) ==
  mgr'.pc = pc /\ mgr'.status = status /\ mgr'.token = token

SchemaAfter(schema, status, token, ships, waypoints, fleetRow) ==
  /\ db'.schema = schema /\ db'.status = status /\ db'.token = token
  /\ db'.ships = ships /\ db'.waypoints = waypoints /\ db'.fleets = fleetRow

TornAfter(tables) == db'.torn = tables

AgentAfter(pc, token) == agent'.pc = pc /\ agent'.token = token

FaultsAside == \A k \in {"signals", "late", "torn"} : faults'[k] = faults[k]

\* ... but for what EndsAgent counts
TornCounted ==
  /\ \A k \in {"signals", "late"} : faults'[k] = faults[k]
  /\ faults'["torn"] = IF InBetween THEN faults["torn"] + 1 ELSE faults["torn"]

-----------------------------------------------------------------------------
(* Types *)

LEMMA Ranges ==
  /\ LastReset \in Nat /\ 0 \in Entries /\ Resets \subseteq Entries /\ Resets \subseteq Nat
  /\ Entries \subseteq Nat /\ Entries \ {0} \subseteq Resets /\ 0 \notin Resets
  BY LifecycleAssumption DEF LifecycleAssumption, Entries, Resets

\* The rows of a schema, and what the code makes of them
LEMMA NewSchemas ==
  /\ NoSchema \in Schemas /\ NewSchema \in Schemas
  /\ NoSchema.schema = "none" /\ NewSchema.schema = "empty"
  /\ \A d \in {NoSchema, NewSchema} :
       d.status = 0 /\ d.token = 0 /\ d.ships = {} /\ d.waypoints = 0 /\ d.fleets = 0
       /\ d.torn = {}
  BY Ranges DEF NoSchema, NewSchema, NoRows, Schemas

LEMMA SchemaFields ==
  ASSUME NEW d \in Schemas
  PROVE  /\ d.schema \in {"none", "empty", "migrated"} /\ d.ships \subseteq Resets
         /\ d.status \in Entries /\ d.token \in Entries /\ d.waypoints \in Entries /\ d.fleets \in Entries
         /\ d.torn \subseteq Tables
  BY DEF Schemas, Tables

LEMMA SchemaUpdates ==
  ASSUME NEW d \in Schemas
  PROVE  /\ [d EXCEPT !.schema = "migrated"] \in Schemas
         /\ \A e \in Entries : /\ [d EXCEPT !.status = e] \in Schemas
                               /\ [d EXCEPT !.token = e] \in Schemas
                               /\ [d EXCEPT !.waypoints = e] \in Schemas
                               /\ [d EXCEPT !.fleets = e] \in Schemas
         /\ \A S \in SUBSET Resets : [d EXCEPT !.ships = S] \in Schemas
         /\ \A S \in SUBSET Resets, T \in SUBSET Tables : [d EXCEPT !.ships = S, !.torn = T] \in Schemas
         /\ \A e \in Entries, T \in SUBSET Tables : [d EXCEPT !.waypoints = e, !.torn = T] \in Schemas
         /\ \A T \in SUBSET Tables : [d EXCEPT !.torn = T] \in Schemas
  BY DEF Schemas, Tables

LEMMA ManagerTypes ==
  /\ \A pc \in ManagerPCs : ManagerAt(pc) \in ManagerType
  /\ NoAgent \in AgentType /\ NoFleets \in [Entries -> Nat]
  BY Ranges DEF ManagerAt, NoAgent, NoFleets, ManagerType, AgentType, AgentPCs

LEMMA ManagerUpdates ==
  ASSUME mgr \in ManagerType
  PROVE  /\ mgr.pc \in ManagerPCs /\ mgr.status \in Entries /\ mgr.token \in Entries
         /\ \A pc \in ManagerPCs, e \in Entries :
              /\ [mgr EXCEPT !.pc = pc] \in ManagerType
              /\ [mgr EXCEPT !.pc = pc, !.status = e] \in ManagerType
              /\ [mgr EXCEPT !.token = e, !.pc = pc] \in ManagerType
  BY DEF ManagerType

LEMMA AgentUpdates ==
  ASSUME agent \in AgentType
  PROVE  /\ agent.pc \in AgentPCs /\ agent.token \in Entries
         /\ \A pc \in AgentPCs : [agent EXCEPT !.pc = pc] \in AgentType
  BY DEF AgentType

LEMMA EndUpdates ==
  ASSUME faults \in [Kinds -> Nat], NEW kind \in {"crashes", "failures"}, NEW bound,
         EndsAgent(kind, bound)
  PROVE  faults' \in [Kinds -> Nat] /\ TornCounted
  BY DEF EndsAgent, Kinds, TornCounted

LEMMA FaultUpdates ==
  ASSUME faults \in [Kinds -> Nat], NEW kind \in Kinds, NEW bound, Fault(kind, bound)
  PROVE  faults' \in [Kinds -> Nat] /\ faults'[kind] = faults[kind] + 1
         /\ \A k \in Kinds \ {kind} : faults'[k] = faults[k]
  BY DEF Fault, Kinds

-----------------------------------------------------------------------------
(* Every step keeps the invariant *)

LEMMA TypedStep == Typed /\ Staged /\ AtWork /\ [Next]_vars => Typed'
<1> SUFFICES ASSUME Typed, Staged, AtWork, [Next]_vars PROVE Typed'
  OBVIOUS
<1>1. ASSUME GetStatus PROVE Typed'
  <2>1. mgr' \in ManagerType
    BY <1>1, Ranges, ManagerTypes, ManagerUpdates
       DEF Typed, ManagerPCs, ServerType, GetStatus, At, OnlyManager
  <2> QED
    BY <1>1, <2>1 DEF Typed, GetStatus, At, OnlyManager
<1>2. ASSUME Migrate PROVE Typed'
  <2>1. mgr' \in ManagerType
    BY <1>2, Ranges, ManagerTypes, ManagerUpdates
       DEF Typed, ManagerPCs, ServerType, Migrate, TryAgain, GoTo, Prepares, At
  <2>2. db' \in Schemas
    BY <1>2, Ranges, NewSchemas, SchemaFields, SchemaUpdates, AgentUpdates, ManagerUpdates
       DEF Typed, Migrate, TryAgain, GoTo, Prepares, At
  <2> QED
    BY <1>2, <2>1, <2>2 DEF Typed, Migrate, TryAgain, GoTo, Prepares, At
<1>3. ASSUME LoadStatus PROVE Typed'
  <2>1. mgr' \in ManagerType
    BY <1>3, Ranges, ManagerTypes, ManagerUpdates
       DEF Typed, ManagerPCs, ServerType, LoadStatus, GoTo, OnlyManager, At
  <2> QED
    BY <1>3, <2>1 DEF Typed, LoadStatus, GoTo, OnlyManager, At
<1>4. ASSUME RenameSchema PROVE Typed'
  <2>1. mgr' \in ManagerType
    BY <1>4, Ranges, ManagerTypes, ManagerUpdates
       DEF Typed, ManagerPCs, ServerType, RenameSchema, GoTo, Prepares, At
  <2>2. db' \in Schemas
    BY <1>4, Ranges, NewSchemas, SchemaFields, SchemaUpdates, AgentUpdates, ManagerUpdates
       DEF Typed, RenameSchema, GoTo, Prepares, At
  <2>3. archive' \in [Resets -> Schemas]
    BY <1>4, Ranges, SchemaFields DEF Typed, RenameSchema, GoTo, Prepares, At
  <2> QED
    BY <1>4, <2>1, <2>2, <2>3 DEF Typed, RenameSchema, GoTo, Prepares, At
<1>5. ASSUME CreateSchema PROVE Typed'
  <2>1. mgr' \in ManagerType
    BY <1>5, Ranges, ManagerTypes, ManagerUpdates
       DEF Typed, ManagerPCs, ServerType, CreateSchema, GoTo, Prepares, At
  <2>2. db' \in Schemas
    BY <1>5, Ranges, NewSchemas, SchemaFields, SchemaUpdates, AgentUpdates, ManagerUpdates
       DEF Typed, CreateSchema, GoTo, Prepares, At
  <2> QED
    BY <1>5, <2>1, <2>2 DEF Typed, CreateSchema, GoTo, Prepares, At
<1>6. ASSUME InsertStatus PROVE Typed'
  <2>1. mgr' \in ManagerType
    BY <1>6, Ranges, ManagerTypes, ManagerUpdates
       DEF Typed, ManagerPCs, ServerType, InsertStatus, GoTo, Prepares, At
  <2>2. db' \in Schemas
    BY <1>6, Ranges, NewSchemas, SchemaFields, SchemaUpdates, AgentUpdates, ManagerUpdates
       DEF Typed, InsertStatus, GoTo, Prepares, At
  <2> QED
    BY <1>6, <2>1, <2>2 DEF Typed, InsertStatus, GoTo, Prepares, At
<1>7. ASSUME LoadRegistration PROVE Typed'
  <2>1. mgr' \in ManagerType
    <3>1. db.token \in Entries
      BY SchemaFields DEF Typed
    <3>2. \A pc \in {"register", "spawn"} : [mgr EXCEPT !.token = db.token, !.pc = pc] \in ManagerType
      BY <3>1, ManagerUpdates DEF Typed, ManagerPCs
    <3> QED
      BY <1>7, <3>2 DEF LoadRegistration
  <2> QED
    BY <1>7, <2>1 DEF Typed, LoadRegistration, OnlyManager, At
<1>8. ASSUME Register PROVE Typed'
  <2>1. mgr' \in ManagerType
    <3>1. server.reset \in Entries
      BY Ranges DEF Typed, ServerType
    <3>2. [mgr EXCEPT !.token = server.reset, !.pc = "save"] \in ManagerType
      BY <3>1, ManagerUpdates DEF Typed, ManagerPCs
    <3>3. Off \in ManagerType
      BY ManagerTypes DEF Off, ManagerPCs
    <3> QED
      BY <1>8, <3>2, <3>3 DEF Register, Panic
  <2>2. server' \in ServerType
    BY <1>8, Ranges DEF Typed, ServerType, Register, Panic, Off, Fails, At
  <2>3. faults' \in [Kinds -> Nat]
    BY <1>8, Ranges, FaultUpdates DEF Typed, Kinds, Register, Panic, Off, Fails, At
  <2>4. astray' \subseteq {"answer", "save", "late"}
    BY <1>8, Ranges DEF Typed, Register, Panic, Off, Fails, At
  <2> QED
    BY <1>8, <2>1, <2>2, <2>3, <2>4 DEF Typed, Register, Panic, Off, Fails, At
<1>9. ASSUME SaveRegistration PROVE Typed'
  <2>1. mgr' \in ManagerType
    BY <1>9, Ranges, ManagerTypes, ManagerUpdates
       DEF Typed, ManagerPCs, ServerType, SaveRegistration, GoTo, Fails, At
  <2>2. db' \in Schemas
    <3>1. [db EXCEPT !.token = mgr.token] \in Schemas
      BY ManagerUpdates, SchemaUpdates DEF Typed
    <3> QED
      BY <1>9, <3>1 DEF Typed, SaveRegistration
  <2>3. faults' \in [Kinds -> Nat]
    BY <1>9, Ranges, FaultUpdates DEF Typed, Kinds, SaveRegistration, GoTo, Fails, At
  <2>4. astray' \subseteq {"answer", "save", "late"}
    BY <1>9, Ranges DEF Typed, SaveRegistration, GoTo, Fails, At
  <2> QED
    BY <1>9, <2>1, <2>2, <2>3, <2>4 DEF Typed, SaveRegistration, GoTo, Fails, At
<1>10. ASSUME Spawn PROVE Typed'
  <2>1. mgr' \in ManagerType
    BY <1>10, Ranges, ManagerTypes, ManagerUpdates
       DEF Typed, ManagerPCs, ServerType, Spawn, GoTo, At
  <2>2. agent' \in AgentType
    BY <1>10, ManagerUpdates DEF Typed, AgentType, AgentPCs, Spawn
  <2> QED
    BY <1>10, <2>1, <2>2 DEF Typed, Spawn, GoTo, At
<1>11. ASSUME RestartAgent PROVE Typed'
  <2>1. mgr' \in ManagerType
    BY <1>11, Ranges, ManagerTypes, ManagerUpdates
       DEF Typed, ManagerPCs, ServerType, RestartAgent, TryAgain, At
  <2>2. agent' \in AgentType
    BY <1>11, Ranges, ManagerTypes, AgentUpdates, ManagerUpdates
       DEF Typed, AgentPCs, RestartAgent, TryAgain, At
  <2>3. signals' \in Nat
    BY <1>11, Ranges DEF Typed, RestartAgent, TryAgain, At
  <2> QED
    BY <1>11, <2>1, <2>2, <2>3 DEF Typed, RestartAgent, TryAgain, At
<1>12. ASSUME AskForAgent PROVE Typed'
  <2>1. agent' \in AgentType
    BY <1>12, Ranges, ManagerTypes, AgentUpdates, ManagerUpdates
       DEF Typed, AgentPCs, AskForAgent, AgentAt, AgentGoesTo, AgentEnds, AgentOnly, Accepted,
           Detected
  <2>2. signals' \in Nat
    BY <1>12, Ranges
       DEF Typed, AskForAgent, AgentAt, AgentGoesTo, AgentEnds, AgentOnly, Accepted, Detected
  <2>3. db' \in Schemas
    BY <1>12, Ranges, NewSchemas, SchemaFields, SchemaUpdates, AgentUpdates, ManagerUpdates
       DEF Typed, AskForAgent, AgentAt, AgentGoesTo, AgentEnds, AgentOnly, Accepted, Detected
  <2>4. fleets' \in [Entries -> Nat]
    BY <1>12, Ranges, ManagerTypes, AgentUpdates
       DEF Typed, AskForAgent, AgentAt, AgentGoesTo, AgentEnds, AgentOnly, Accepted, Detected
  <2> QED
    BY <1>12, <2>1, <2>2, <2>3, <2>4
       DEF Typed, AskForAgent, AgentAt, AgentGoesTo, AgentEnds, AgentOnly, Accepted, Detected
<1>13. ASSUME CollectShips PROVE Typed'
  <2>1. agent' \in AgentType
    BY <1>13, AgentUpdates
       DEF Typed, AgentPCs, CollectShips, Collect, Skip, AgentGoesTo, AgentEnds
  <2>2. db' \in Schemas
    <3>1. db.torn \cup {"ships"} \in SUBSET Tables
      BY SchemaFields DEF Typed, Tables
    <3>2. CASE db' = [db EXCEPT !.ships = {agent.token}, !.torn = @ \cup {"ships"}] /\ Accepted(agent.token)
      <4>1. {agent.token} \in SUBSET Resets
        BY <3>2, Ranges DEF Accepted, Typed, ServerType
      <4> QED
        BY <3>1, <3>2, <4>1, SchemaUpdates DEF Typed
    <3>3. CASE db' = db
      BY <3>3 DEF Typed
    <3> QED
      BY <1>13, <3>2, <3>3 DEF CollectShips, Collect, Skip, AgentEnds
  <2> QED
    BY <1>13, <2>1, <2>2
       DEF Typed, CollectShips, Collect, Skip, AgentOnly, AgentEnds, Detected
<1>14. ASSUME CollectWaypoints PROVE Typed'
  <2>1. agent' \in AgentType
    BY <1>14, AgentUpdates
       DEF Typed, AgentPCs, CollectWaypoints, Collect, Skip, AgentGoesTo, AgentEnds
  <2>2. db' \in Schemas
    <3>1. db.torn \cup {"waypoints"} \in SUBSET Tables
      BY SchemaFields DEF Typed, Tables
    <3>2. CASE db' = [db EXCEPT !.waypoints = agent.token, !.torn = @ \cup {"waypoints"}] /\ Accepted(agent.token)
      <4>1. agent.token \in Entries
        BY <3>2, Ranges DEF Accepted, Typed, ServerType
      <4> QED
        BY <3>1, <3>2, <4>1, SchemaUpdates DEF Typed
    <3>3. CASE db' = db
      BY <3>3 DEF Typed
    <3> QED
      BY <1>14, <3>2, <3>3 DEF CollectWaypoints, Collect, Skip, AgentEnds
  <2> QED
    BY <1>14, <2>1, <2>2
       DEF Typed, CollectWaypoints, Collect, Skip, AgentOnly, AgentEnds, Detected
<1>15. ASSUME CollectMarkets PROVE Typed'
  <2>1. agent' \in AgentType
    BY <1>15, AgentUpdates DEF Typed, AgentPCs, CollectMarkets, Collect, AgentGoesTo, AgentEnds
  <2> QED
    BY <1>15, <2>1 DEF Typed, CollectMarkets, Collect, AgentOnly, AgentEnds, Detected
<1>16. ASSUME FoundFleets PROVE Typed'
  <2>1. agent' \in AgentType
    BY <1>16, Ranges, ManagerTypes, AgentUpdates, ManagerUpdates
       DEF Typed, AgentPCs, FoundFleets, AgentAt, AgentGoesTo, AgentOnly
  <2>2. db' \in Schemas
    BY <1>16, Ranges, NewSchemas, SchemaFields, SchemaUpdates, AgentUpdates, ManagerUpdates
       DEF Typed, FoundFleets, AgentAt, AgentGoesTo, AgentOnly
  <2> QED
    BY <1>16, <2>1, <2>2 DEF Typed, FoundFleets, AgentAt, AgentGoesTo, AgentOnly
<1>17. ASSUME RunFleets PROVE Typed'
  <2>1. agent' \in AgentType
    BY <1>17, Ranges, ManagerTypes, AgentUpdates, ManagerUpdates
       DEF Typed, AgentPCs, RunFleets, AgentAt, AgentGoesTo, AgentOnly
  <2>2. fleets' \in [Entries -> Nat]
    BY <1>17, Ranges, ManagerTypes, AgentUpdates
       DEF Typed, RunFleets, AgentAt, AgentGoesTo, AgentOnly
  <2> QED
    BY <1>17, <2>1, <2>2 DEF Typed, RunFleets, AgentAt, AgentGoesTo, AgentOnly
<1>18. ASSUME InitialisationFails PROVE Typed'
  <2>1. mgr' \in ManagerType
    BY <1>18, Ranges, ManagerTypes, ManagerUpdates
       DEF Typed, ManagerPCs, ServerType, InitialisationFails, TryAgain, Fails
  <2>2. faults' \in [Kinds -> Nat]
    BY <1>18, Ranges, FaultUpdates DEF Typed, Kinds, InitialisationFails, TryAgain, Fails
  <2> QED
    BY <1>18, <2>1, <2>2 DEF Typed, InitialisationFails, TryAgain, Fails
<1>19. ASSUME RegistrationFails PROVE Typed'
  <2>1. mgr' \in ManagerType
    BY <1>19, Ranges, ManagerTypes, ManagerUpdates
       DEF Typed, ManagerPCs, ServerType, RegistrationFails, Panic, Off, Fails, At
  <2>2. faults' \in [Kinds -> Nat]
    BY <1>19, Ranges, FaultUpdates DEF Typed, Kinds, RegistrationFails, Panic, Off, Fails, At
  <2> QED
    BY <1>19, <2>1, <2>2 DEF Typed, RegistrationFails, Panic, Off, Fails, At
<1>20. ASSUME AgentFails PROVE Typed'
  <2>1. agent' \in AgentType
    BY <1>20, Ranges, ManagerTypes, AgentUpdates, ManagerUpdates
       DEF Typed, AgentPCs, AgentFails, AgentGoesTo
  <2>2. faults' \in [Kinds -> Nat]
    BY <1>20, EndUpdates DEF Typed, AgentFails
  <2> QED
    BY <1>20, <2>1, <2>2 DEF Typed, AgentFails, AgentGoesTo
<1>21. ASSUME NEW e \in Resets, FleetAsks(e) PROVE Typed'
  <2>1. answers' \subseteq Resets
    BY <1>21, Ranges DEF Typed, FleetAsks, Accepted, Detected
  <2>2. signals' \in Nat
    BY <1>21, Ranges DEF Typed, FleetAsks, Accepted, Detected
  <2> QED
    BY <1>21, <2>1, <2>2 DEF Typed, FleetAsks, Accepted, Detected
<1>22. ASSUME NEW e \in Resets, FleetStores(e) PROVE Typed'
  <2>1. answers' \subseteq Resets
    BY <1>22, Ranges DEF Typed, FleetStores
  <2>2. db' \in Schemas
    BY <1>22, Ranges, NewSchemas, SchemaFields, SchemaUpdates, AgentUpdates, ManagerUpdates
       DEF Typed, FleetStores
  <2> QED
    BY <1>22, <2>1, <2>2 DEF Typed, FleetStores
<1>23. ASSUME SendReset PROVE Typed'
  <2>1. faults' \in [Kinds -> Nat]
    BY <1>23, Ranges, FaultUpdates DEF Typed, Kinds, SendReset, At
  <2>2. signals' \in Nat
    BY <1>23, Ranges DEF Typed, SendReset, At
  <2> QED
    BY <1>23, <2>1, <2>2 DEF Typed, SendReset, At
<1>24. ASSUME ServerReset PROVE Typed'
  <2>1. server' \in ServerType
    BY <1>24, Ranges DEF Typed, ServerType, Resets, ServerReset
  <2>2. astray' \subseteq {"answer", "save", "late"}
    BY <1>24, Ranges DEF Typed, ServerReset
  <2> QED
    BY <1>24, <2>1, <2>2 DEF Typed, ServerReset
<1>25. ASSUME Crash PROVE Typed'
  <2>1. mgr' \in ManagerType
    BY <1>25, Ranges, ManagerTypes, ManagerUpdates
       DEF Typed, ManagerPCs, ServerType, Crash, Off, At, Accepted
  <2>2. agent' \in AgentType
    BY <1>25, Ranges, ManagerTypes, AgentUpdates, ManagerUpdates
       DEF Typed, AgentPCs, Crash, Off, At, Accepted
  <2>3. fleets' \in [Entries -> Nat]
    BY <1>25, Ranges, ManagerTypes, AgentUpdates DEF Typed, Crash, Off, At, Accepted
  <2>4. answers' \subseteq Resets
    BY <1>25, Ranges DEF Typed, Crash, Off, At, Accepted
  <2>5. signals' \in Nat
    BY <1>25, Ranges DEF Typed, Crash, Off, At, Accepted
  <2>6. faults' \in [Kinds -> Nat]
    BY <1>25, EndUpdates DEF Typed, Crash
  <2>7. astray' \subseteq {"answer", "save", "late"}
    BY <1>25, Ranges DEF Typed, Crash, Off, At, Accepted
  <2> QED
    BY <1>25, <2>1, <2>2, <2>3, <2>4, <2>5, <2>6, <2>7 DEF Typed, Crash, Off, At, Accepted
<1>26. ASSUME StartProcess PROVE Typed'
  <2>1. mgr' \in ManagerType
    BY <1>26, Ranges, ManagerTypes, ManagerUpdates
       DEF Typed, ManagerPCs, ServerType, StartProcess, At
  <2>2. agent' \in AgentType
    BY <1>26, Ranges, ManagerTypes, AgentUpdates, ManagerUpdates
       DEF Typed, AgentPCs, StartProcess, At
  <2>3. fleets' \in [Entries -> Nat]
    BY <1>26, Ranges, ManagerTypes, AgentUpdates DEF Typed, StartProcess, At
  <2>4. answers' \subseteq Resets
    BY <1>26, Ranges DEF Typed, StartProcess, At
  <2>5. signals' \in Nat
    BY <1>26, Ranges DEF Typed, StartProcess, At
  <2> QED
    BY <1>26, <2>1, <2>2, <2>3, <2>4, <2>5 DEF Typed, StartProcess, At
<1>28. ASSUME StoreShips PROVE Typed'
  <2>1. agent' \in AgentType
    BY <1>28, AgentUpdates DEF Typed, AgentPCs, StoreShips, StoreRest, AgentGoesTo
  <2>2. db' \in Schemas
    <3>1. db.torn \ {"ships"} \in SUBSET Tables
      BY SchemaFields DEF Typed, Tables
    <3> QED
      BY <1>28, <3>1, SchemaUpdates DEF Typed, StoreShips, StoreRest
  <2> QED
    BY <1>28, <2>1, <2>2 DEF Typed, StoreShips, StoreRest, AgentOnly
<1>29. ASSUME StoreWaypoints PROVE Typed'
  <2>1. agent' \in AgentType
    BY <1>29, AgentUpdates DEF Typed, AgentPCs, StoreWaypoints, StoreRest, AgentGoesTo
  <2>2. db' \in Schemas
    <3>1. db.torn \ {"waypoints"} \in SUBSET Tables
      BY SchemaFields DEF Typed, Tables
    <3> QED
      BY <1>29, <3>1, SchemaUpdates DEF Typed, StoreWaypoints, StoreRest
  <2> QED
    BY <1>29, <2>1, <2>2 DEF Typed, StoreWaypoints, StoreRest, AgentOnly
<1>27. ASSUME UNCHANGED vars PROVE Typed'
  BY <1>27 DEF vars, Typed
<1> QED
  BY <1>1, <1>2, <1>3, <1>4, <1>5, <1>6, <1>7, <1>8, <1>9, <1>10, <1>11, <1>12, <1>13, <1>14,
     <1>15, <1>16, <1>17, <1>18, <1>19, <1>20, <1>21, <1>22, <1>23, <1>24, <1>25, <1>26, <1>27,
     <1>28, <1>29
     DEF Next, ManagerStep, AgentStep

LEMMA InvariantStep == IInv /\ [Next]_vars => Sound'
<1> SUFFICES ASSUME IInv, [Next]_vars PROVE Sound'
  OBVIOUS
<1> USE DEF IInv, Sound
<1>1. /\ server.reset \in Nat \ {0}
      /\ db.status \in Nat /\ db.token \in Nat /\ db.fleets \in Nat /\ db.waypoints \in Nat
      /\ mgr.status \in Nat /\ mgr.token \in Nat /\ agent.token \in Nat /\ mgr.pc \in ManagerPCs
      /\ faults["signals"] \in Nat /\ faults["late"] \in Nat /\ faults["torn"] \in Nat
      /\ signals \in Nat
  BY Ranges, SchemaFields, ManagerUpdates, AgentUpdates DEF Typed, ServerType, Kinds, Resets
<1>2. ASSUME GetStatus PROVE Sound'
  <2>1. /\ mgr.pc = "status"
        /\ ManagerAfter("migrate", server.reset, mgr.token)
        /\ UNCHANGED <<server, db, archive, agent, fleets, answers, signals, faults, astray>>
    BY <1>2, <1>1 DEF Typed, ManagerType, GetStatus, At, OnlyManager, ManagerAfter
  <2>2. Staged'
    BY <1>1, <2>1 DEF Staged, ManagerAfter
  <2>3. Kept'
    BY <1>1, <2>1 DEF Staged, Kept, TokenIsKept, At, ManagerAfter
  <2>4. AtWork'
    BY <1>1, <2>1 DEF AtWork, Staged, ManagerAfter
  <2>5. Undisturbed'
    BY <1>1, <2>1 DEF Undisturbed, AtWork, ManagerAfter
  <2>6. Own'
    BY <1>1, <2>1 DEF Own, Undisturbed, AtWork, Staged, OwnRows, ManagerAfter
  <2>7. Whole'
    BY <1>1, <2>1 DEF Whole, AtWork, Undisturbed, ManagerAfter
  <2> QED
    BY <2>2, <2>3, <2>4, <2>5, <2>6, <2>7
<1>3. ASSUME Migrate PROVE Sound'
  <2>1. /\ mgr.pc \in {"migrate", "remigrate"}
        /\ \/ /\ db.schema = "none" /\ ManagerAfter("status", 0, 0) /\ db' = db
           \/ /\ SchemaAfter("migrated", db.status, db.token, db.ships, db.waypoints, db.fleets)
              /\ TornAfter(db.torn)
              /\ ManagerAfter(IF mgr.pc = "migrate" THEN "load" ELSE "insert", mgr.status, mgr.token)
        /\ UNCHANGED <<server, archive, agent, fleets, answers, signals, faults, astray>>
    BY <1>3, <1>1
       DEF Typed, ManagerType, Schemas, ManagerAt, Migrate, TryAgain, GoTo, Prepares, At,
           ManagerAfter, SchemaAfter, TornAfter
  <2>2. Staged'
    BY <1>1, <2>1 DEF Staged, ManagerAfter, SchemaAfter, TornAfter
  <2>3. Kept'
    BY <1>1, <2>1 DEF Staged, Kept, TokenIsKept, At, ManagerAfter, SchemaAfter, TornAfter
  <2>4. AtWork'
    BY <1>1, <2>1 DEF AtWork, Staged, ManagerAfter, SchemaAfter, TornAfter
  <2>5. Undisturbed'
    BY <1>1, <2>1 DEF Undisturbed, AtWork, ManagerAfter, SchemaAfter, TornAfter
  <2>6. Own'
    BY <1>1, <2>1 DEF Own, Undisturbed, AtWork, Staged, OwnRows, ManagerAfter, SchemaAfter, TornAfter
  <2>7. Whole'
    BY <1>1, <2>1 DEF Whole, AtWork, Undisturbed, ManagerAfter, SchemaAfter, TornAfter
  <2> QED
    BY <2>2, <2>3, <2>4, <2>5, <2>6, <2>7
<1>4. ASSUME LoadStatus PROVE Sound'
  <2>1. /\ mgr.pc = "load"
        /\ mgr'.status = mgr.status /\ mgr'.token = mgr.token
        /\ \/ db.status = 0 /\ mgr'.pc = "insert"
           \/ db.status = mgr.status /\ mgr'.pc = "registration"
           \/ db.status # 0 /\ db.status # mgr.status /\ mgr'.pc = "rename"
        /\ UNCHANGED <<server, db, archive, agent, fleets, answers, signals, faults, astray>>
    <3>1. CASE db.status = 0
      BY <1>4, <3>1 DEF Typed, ManagerType, LoadStatus, GoTo, OnlyManager, At
    <3>2. CASE db.status # 0 /\ db.status = mgr.status
      BY <1>4, <3>2 DEF Typed, ManagerType, LoadStatus, GoTo, OnlyManager, At
    <3>3. CASE db.status # 0 /\ db.status # mgr.status
      BY <1>4, <3>3 DEF Typed, ManagerType, LoadStatus, GoTo, OnlyManager, At
    <3> QED
      BY <3>1, <3>2, <3>3
  <2>2. Staged'
    BY <1>1, <2>1 DEF Staged
  <2>3. Kept'
    BY <1>1, <2>1 DEF Staged, Kept, TokenIsKept, At
  <2>4. AtWork'
    BY <1>1, <2>1 DEF AtWork, Staged
  <2>5. Undisturbed'
    BY <1>1, <2>1 DEF Undisturbed, AtWork
  <2>6. Own'
    BY <1>1, <2>1 DEF Own, Undisturbed, AtWork, Staged, OwnRows
  <2>7. Whole'
    BY <1>1, <2>1 DEF Whole, AtWork, Undisturbed
  <2> QED
    BY <2>2, <2>3, <2>4, <2>5, <2>6, <2>7
<1>5. ASSUME RenameSchema PROVE Sound'
  <2>1. /\ mgr.pc = "rename"
        /\ ManagerAfter("create", mgr.status, mgr.token)
        /\ SchemaAfter("none", 0, 0, {}, 0, 0) /\ TornAfter({})
        /\ archive' = [archive EXCEPT ![db.status] = db]
        /\ UNCHANGED <<server, agent, fleets, answers, signals, faults, astray>>
    BY <1>5, <1>1, NewSchemas
       DEF Typed, ManagerType, RenameSchema, GoTo, Prepares, At, ManagerAfter, SchemaAfter, TornAfter
  <2>2. Staged'
    BY <1>1, <2>1 DEF Staged, ManagerAfter, SchemaAfter, TornAfter
  <2>3. Kept'
    BY <1>1, <2>1 DEF Staged, Kept, TokenIsKept, At, ManagerAfter, SchemaAfter, TornAfter
  <2>4. AtWork'
    BY <1>1, <2>1 DEF AtWork, Staged, ManagerAfter, SchemaAfter, TornAfter
  <2>5. Undisturbed'
    BY <1>1, <2>1 DEF Undisturbed, AtWork, ManagerAfter, SchemaAfter, TornAfter
  <2>6. Own'
    <3>1. OwnRows(db')
      BY <2>1 DEF OwnRows, SchemaAfter
    <3>2. ASSUME OwnRows(db), NEW e \in Resets, OwnRows(archive[e]) PROVE OwnRows(archive'[e])
      BY <2>1, <3>2 DEF Typed
    <3> QED
      BY <2>1, <3>1, <3>2 DEF Own, ManagerAfter
  <2>7. Whole'
    BY <1>1, <2>1 DEF Whole, AtWork, Undisturbed, ManagerAfter, SchemaAfter, TornAfter
  <2> QED
    BY <2>2, <2>3, <2>4, <2>5, <2>6, <2>7
<1>6. ASSUME CreateSchema PROVE Sound'
  <2>1. /\ mgr.pc = "create"
        /\ ManagerAfter("remigrate", mgr.status, mgr.token)
        /\ SchemaAfter("empty", 0, 0, {}, 0, 0) /\ TornAfter({})
        /\ UNCHANGED <<server, archive, agent, fleets, answers, signals, faults, astray>>
    BY <1>6, <1>1, NewSchemas
       DEF Typed, ManagerType, CreateSchema, GoTo, Prepares, At, ManagerAfter, SchemaAfter, TornAfter
  <2>2. Staged'
    BY <1>1, <2>1 DEF Staged, ManagerAfter, SchemaAfter, TornAfter
  <2>3. Kept'
    BY <1>1, <2>1 DEF Staged, Kept, TokenIsKept, At, ManagerAfter, SchemaAfter, TornAfter
  <2>4. AtWork'
    BY <1>1, <2>1 DEF AtWork, Staged, ManagerAfter, SchemaAfter, TornAfter
  <2>5. Undisturbed'
    BY <1>1, <2>1 DEF Undisturbed, AtWork, ManagerAfter, SchemaAfter, TornAfter
  <2>6. Own'
    BY <1>1, <2>1 DEF Own, Undisturbed, AtWork, Staged, OwnRows, ManagerAfter, SchemaAfter, TornAfter
  <2>7. Whole'
    BY <1>1, <2>1 DEF Whole, AtWork, Undisturbed, ManagerAfter, SchemaAfter, TornAfter
  <2> QED
    BY <2>2, <2>3, <2>4, <2>5, <2>6, <2>7
<1>7. ASSUME InsertStatus PROVE Sound'
  <2>1. /\ mgr.pc = "insert"
        /\ ManagerAfter("registration", mgr.status, mgr.token)
        /\ SchemaAfter(db.schema, mgr.status, db.token, db.ships, db.waypoints, db.fleets)
        /\ TornAfter(db.torn)
        /\ UNCHANGED <<server, archive, agent, fleets, answers, signals, faults, astray>>
    BY <1>7, <1>1
       DEF Typed, ManagerType, Schemas, InsertStatus, GoTo, Prepares, At, ManagerAfter,
           SchemaAfter, TornAfter
  <2>2. Staged'
    BY <1>1, <2>1 DEF Staged, ManagerAfter, SchemaAfter, TornAfter
  <2>3. Kept'
    BY <1>1, <2>1 DEF Staged, Kept, TokenIsKept, At, ManagerAfter, SchemaAfter, TornAfter
  <2>4. AtWork'
    BY <1>1, <2>1 DEF AtWork, Staged, ManagerAfter, SchemaAfter, TornAfter
  <2>5. Undisturbed'
    BY <1>1, <2>1 DEF Undisturbed, AtWork, ManagerAfter, SchemaAfter, TornAfter
  <2>6. Own'
    <3>1. db.ships \subseteq Resets /\ db.status = 0
      BY <1>1, <2>1, SchemaFields DEF Typed, Staged, ManagerAfter, SchemaAfter, TornAfter
    <3>2. ASSUME OwnRows(db) PROVE OwnRows(db')
      BY <2>1, <3>1, <3>2, Ranges DEF OwnRows, ManagerAfter, SchemaAfter, TornAfter
    <3> QED
      BY <2>1, <3>2 DEF Own, ManagerAfter, SchemaAfter, TornAfter
  <2>7. Whole'
    BY <1>1, <2>1 DEF Whole, AtWork, Undisturbed, ManagerAfter, SchemaAfter, TornAfter
  <2> QED
    BY <2>2, <2>3, <2>4, <2>5, <2>6, <2>7
<1>8. ASSUME LoadRegistration PROVE Sound'
  <2>1. /\ mgr.pc = "registration"
        /\ mgr'.status = mgr.status /\ mgr'.token = db.token
        /\ mgr'.pc = (IF db.token = 0 THEN "register" ELSE "spawn")
        /\ UNCHANGED <<server, db, archive, agent, fleets, answers, signals, faults, astray>>
    BY <1>8, <1>1 DEF Typed, ManagerType, LoadRegistration, OnlyManager, At
  <2>2. Staged'
    BY <1>1, <2>1 DEF Staged
  <2>3. Kept'
    BY <1>1, <2>1 DEF Staged, Kept, TokenIsKept, At
  <2>4. AtWork'
    BY <1>1, <2>1 DEF AtWork, Staged
  <2>5. Undisturbed'
    BY <1>1, <2>1 DEF Undisturbed, AtWork
  <2>6. Own'
    <3>1. CASE db.token = 0
      BY <1>1, <2>1, <3>1 DEF Own, OwnRows
    <3>2. CASE db.token # 0
      BY <1>1, <2>1, <3>2 DEF Own, Staged, OwnRows
    <3> QED
      BY <3>1, <3>2
  <2>7. Whole'
    BY <1>1, <2>1 DEF Whole, AtWork, Undisturbed
  <2> QED
    BY <2>2, <2>3, <2>4, <2>5, <2>6, <2>7
<1>9. ASSUME Register PROVE Sound'
  <2>1. /\ mgr.pc = "register"
        /\ \/ /\ ManagerAfter("off", 0, 0)
              /\ FaultsAside
              /\ \/ server.claimed /\ server' = server /\ astray' = astray
                 \/ server'.claimed /\ server'.reset = server.reset /\ astray' = astray \cup {"answer"}
           \/ /\ ~server.claimed /\ server'.claimed /\ server'.reset = server.reset
              /\ ManagerAfter("save", mgr.status, server.reset)
              /\ faults'["signals"] = faults["signals"] /\ faults'["torn"] = faults["torn"]
              /\ \/ mgr.status = server.reset /\ faults' = faults /\ astray' = astray
                 \/ faults'["late"] > 0 /\ astray' = astray \cup {"late"}
        /\ UNCHANGED <<db, archive, agent, fleets, answers, signals>>
    <3>1. CASE server.claimed
      BY <1>9, <3>1 DEF Typed, Register, Panic, Off, ManagerAt, At, ManagerAfter, FaultsAside
    <3>2. CASE /\ ~server.claimed /\ mgr.status = server.reset
               /\ mgr' = [mgr EXCEPT !.token = server.reset, !.pc = "save"]
               /\ UNCHANGED <<faults, astray>>
      BY <1>9, <3>2 DEF Typed, ServerType, ManagerType, Register, At, ManagerAfter, FaultsAside
    <3>3. CASE /\ ~server.claimed
               /\ mgr' = [mgr EXCEPT !.token = server.reset, !.pc = "save"]
               /\ faults' = [faults EXCEPT !["late"] = @ + 1] /\ astray' = astray \cup {"late"}
      BY <1>9, <3>3, <1>1
         DEF Typed, ServerType, ManagerType, Kinds, Register, At, ManagerAfter, FaultsAside
    <3>4. CASE ~server.claimed /\ Fails /\ Panic /\ astray' = astray \cup {"answer"}
      BY <1>9, <3>4, FaultUpdates
         DEF Typed, ServerType, Register, Panic, Off, ManagerAt, Kinds, Fails, At,
             ManagerAfter, FaultsAside
    <3> QED
      BY <1>9, <3>1, <3>2, <3>3, <3>4 DEF Register, ManagerAfter, FaultsAside
  <2>2. Staged'
    BY <1>1, <2>1 DEF Staged, ManagerAfter, FaultsAside
  <2>3. Kept'
    BY <1>1, <2>1 DEF Staged, Kept, TokenIsKept, At, ManagerAfter, FaultsAside
  <2>4. AtWork'
    BY <1>1, <2>1 DEF AtWork, Staged, ManagerAfter, FaultsAside
  <2>5. Undisturbed'
    BY <1>1, <2>1 DEF Undisturbed, AtWork, ManagerAfter, FaultsAside
  <2>6. Own'
    <3>1. CASE mgr'.pc = "off" /\ FaultsAside
      BY <2>1, <3>1 DEF Own, FaultsAside
    <3>2. CASE /\ ManagerAfter("save", mgr.status, server.reset) /\ mgr.status = server.reset
               /\ faults' = faults
      BY <2>1, <3>2 DEF Own, ManagerAfter
    <3>3. CASE faults'["late"] > 0
      BY <3>3 DEF Own
    <3> QED
      BY <2>1, <3>1, <3>2, <3>3 DEF ManagerAfter
  <2>7. Whole'
    <3>1. UNCHANGED <<db, agent>> /\ \A k \in {"signals", "torn"} : faults'[k] = faults[k]
      BY <2>1 DEF FaultsAside
    <3> QED
      BY <3>1 DEF Whole
  <2> QED
    BY <2>2, <2>3, <2>4, <2>5, <2>6, <2>7
<1>10. ASSUME SaveRegistration PROVE Sound'
  <2>1. /\ mgr.pc = "save"
        /\ ManagerAfter("spawn", mgr.status, mgr.token)
        /\ FaultsAside
        /\ \/ /\ SchemaAfter(db.schema, db.status, mgr.token, db.ships, db.waypoints, db.fleets)
              /\ TornAfter(db.torn) /\ astray' = astray
           \/ db' = db /\ astray' = (IF mgr.token = server.reset THEN astray \cup {"save"} ELSE astray)
        /\ UNCHANGED <<server, archive, agent, fleets, answers, signals>>
    <3>1. CASE db' = [db EXCEPT !.token = mgr.token] /\ UNCHANGED <<faults, astray>>
      BY <1>10, <3>1
         DEF Typed, ManagerType, Schemas, SaveRegistration, GoTo, At, ManagerAfter,
             SchemaAfter, TornAfter, FaultsAside
    <3>2. CASE /\ Fails /\ UNCHANGED db
               /\ astray' = (IF mgr.token = server.reset THEN astray \cup {"save"} ELSE astray)
      BY <1>10, <3>2, FaultUpdates
         DEF Typed, ManagerType, SaveRegistration, GoTo, Kinds, Fails, At, ManagerAfter,
             SchemaAfter, TornAfter, FaultsAside
    <3> QED
      BY <1>10, <3>1, <3>2 DEF SaveRegistration, ManagerAfter, SchemaAfter, TornAfter, FaultsAside
  <2>2. Staged'
    BY <1>1, <2>1 DEF Staged, ManagerAfter, SchemaAfter, TornAfter, FaultsAside
  <2>3. Kept'
    BY <1>1, <2>1 DEF Staged, Kept, TokenIsKept, At, ManagerAfter, SchemaAfter, TornAfter, FaultsAside
  <2>4. AtWork'
    BY <1>1, <2>1 DEF AtWork, Staged, ManagerAfter, SchemaAfter, TornAfter, FaultsAside
  <2>5. Undisturbed'
    BY <1>1, <2>1 DEF Undisturbed, AtWork, ManagerAfter, SchemaAfter, TornAfter, FaultsAside
  <2>6. Own'
    BY <1>1, <2>1
       DEF Own, Undisturbed, AtWork, Staged, OwnRows, ManagerAfter, SchemaAfter, TornAfter, FaultsAside
  <2>7. Whole'
    BY <1>1, <2>1 DEF Whole, AtWork, Undisturbed, ManagerAfter, SchemaAfter, TornAfter, FaultsAside
  <2> QED
    BY <2>2, <2>3, <2>4, <2>5, <2>6, <2>7
<1>11. ASSUME Spawn PROVE Sound'
  <2>1. /\ mgr.pc = "spawn"
        /\ ManagerAfter("waiting", mgr.status, mgr.token)
        /\ AgentAfter("ask", mgr.token)
        /\ UNCHANGED <<server, db, archive, fleets, answers, signals, faults, astray>>
    BY <1>11, <1>1 DEF Typed, ManagerType, Spawn, GoTo, At, ManagerAfter, AgentAfter
  <2>2. Staged'
    BY <1>1, <2>1 DEF Staged, ManagerAfter, AgentAfter
  <2>3. Kept'
    BY <1>1, <2>1 DEF Staged, Kept, TokenIsKept, At, ManagerAfter, AgentAfter
  <2>4. AtWork'
    BY <1>1, <2>1 DEF AtWork, Staged, ManagerAfter, AgentAfter
  <2>5. Undisturbed'
    BY <1>1, <2>1 DEF Undisturbed, AtWork, ManagerAfter, AgentAfter
  <2>6. Own'
    BY <1>1, <2>1 DEF Own, Undisturbed, AtWork, Staged, OwnRows, ManagerAfter, AgentAfter
  <2>7. Whole'
    BY <1>1, <2>1 DEF Whole, AtWork, Undisturbed, ManagerAfter, AgentAfter
  <2> QED
    BY <2>2, <2>3, <2>4, <2>5, <2>6, <2>7
<1>12. ASSUME RestartAgent PROVE Sound'
  <2>1. /\ mgr.pc = "waiting" /\ signals > 0
        /\ ManagerAfter("status", 0, 0)
        /\ AgentAfter("none", 0)
        /\ UNCHANGED <<server, db, archive, fleets, answers, faults, astray>>
    BY <1>12, <1>1
       DEF Typed, ManagerType, ManagerAt, NoAgent, RestartAgent, TryAgain, At, ManagerAfter,
           AgentAfter
  <2>2. Staged'
    BY <1>1, <2>1 DEF Staged, ManagerAfter, AgentAfter
  <2>3. Kept'
    BY <1>1, <2>1 DEF Staged, Kept, TokenIsKept, At, ManagerAfter, AgentAfter
  <2>4. AtWork'
    BY <1>1, <2>1 DEF AtWork, Staged, ManagerAfter, AgentAfter
  <2>5. Undisturbed'
    BY <1>1, <2>1 DEF Undisturbed
  <2>6. Own'
    BY <1>1, <2>1 DEF Own, Undisturbed, AtWork, Staged, OwnRows, ManagerAfter, AgentAfter
  <2>7. Whole'
    <3>1. faults'["signals"] # 0
      BY <1>1, <2>1 DEF Undisturbed
    <3> QED
      BY <3>1 DEF Whole
  <2> QED
    BY <2>2, <2>3, <2>4, <2>5, <2>6, <2>7
<1>13. ASSUME AskForAgent PROVE Sound'
  <2>1. /\ agent.pc = "ask"
        /\ agent'.token = agent.token
        /\ \/ agent'.pc = "ended"
           \/ db.fleets = 0 /\ agent'.pc = "ships"
           \/ db.fleets # 0 /\ agent'.pc = "run"
        /\ UNCHANGED <<db, fleets, signals>>
        /\ UNCHANGED <<server, db, archive, mgr, fleets, answers, signals, faults, astray>>
    <3>1. CASE ~Accepted(agent.token)
      BY <1>13, <3>1
         DEF Typed, AgentType, AskForAgent, AgentAt, AgentGoesTo, AgentEnds, AgentOnly,
             Detected
    <3>2. CASE Accepted(agent.token) /\ db.fleets = 0
      BY <1>13, <3>2 DEF Typed, AgentType, AskForAgent, AgentAt, AgentGoesTo, AgentOnly
    <3>3. CASE Accepted(agent.token) /\ db.fleets # 0
      BY <1>13, <3>3 DEF Typed, AgentType, AskForAgent, AgentAt, AgentGoesTo, AgentOnly
    <3> QED
      BY <3>1, <3>2, <3>3
  <2>2. Staged'
    BY <1>1, <2>1 DEF Staged
  <2>3. Kept'
    BY <1>1, <2>1 DEF Staged, Kept, TokenIsKept, At
  <2>4. AtWork'
    BY <1>1, <2>1 DEF AtWork, Staged
  <2>5. Undisturbed'
    BY <1>1, <2>1 DEF Undisturbed, AtWork
  <2>6. Own'
    BY <1>1, <2>1 DEF Own, Undisturbed, AtWork, Staged, OwnRows
  <2>7. Whole'
    BY <1>1, <2>1 DEF Whole, AtWork, Undisturbed
  <2> QED
    BY <2>2, <2>3, <2>4, <2>5, <2>6, <2>7
<1>14. ASSUME CollectShips PROVE Sound'
  <2>1. /\ agent.pc = "ships"
        /\ agent'.token = agent.token
        /\ \/ agent'.pc = "ended" /\ db' = db
           \/ agent'.pc = "waypoints" /\ ~(db.ships = {}) /\ db' = db
           \/ /\ agent'.pc = "ship rows"
              /\ SchemaAfter(db.schema, db.status, db.token, {agent.token}, db.waypoints, db.fleets)
              /\ TornAfter(db.torn \cup {"ships"})
        /\ UNCHANGED <<server, archive, mgr, fleets, answers, signals, faults, astray>>
    <3>1. CASE db.ships = {} /\ ~Accepted(agent.token)
      BY <1>14, <3>1
         DEF Typed, AgentType, CollectShips, Collect, Skip, AgentAt, AgentGoesTo, AgentEnds,
             AgentOnly, Detected
    <3>2. CASE db.ships = {} /\ Accepted(agent.token)
      BY <1>14, <3>2
         DEF Typed, AgentType, Schemas, CollectShips, Collect, Skip, AgentAt, AgentGoesTo, AgentOnly,
             SchemaAfter, TornAfter
    <3>3. CASE ~(db.ships = {})
      BY <1>14, <3>3
         DEF Typed, AgentType, CollectShips, Collect, Skip, AgentAt, AgentGoesTo, AgentOnly
    <3> QED
      BY <3>1, <3>2, <3>3
  <2>2. Staged'
    BY <1>1, <2>1 DEF Staged, SchemaAfter, TornAfter
  <2>3. Kept'
    BY <1>1, <2>1 DEF Staged, Kept, TokenIsKept, At, SchemaAfter, TornAfter
  <2>4. AtWork'
    BY <1>1, <2>1 DEF AtWork, Staged, SchemaAfter, TornAfter
  <2>5. Undisturbed'
    BY <1>1, <2>1 DEF Undisturbed, AtWork, SchemaAfter, TornAfter
  <2>6. Own'
    BY <1>1, <2>1 DEF Own, Undisturbed, AtWork, Staged, OwnRows, SchemaAfter, TornAfter
  <2>7. Whole'
    <3>1. CASE db' = db
      BY <2>1, <3>1 DEF Whole
    <3>2. CASE TornAfter(db.torn \cup {"ships"}) /\ agent'.pc = "ship rows"
      BY <2>1, <3>2 DEF Whole, TornAfter
    <3> QED
      BY <2>1, <3>1, <3>2
  <2> QED
    BY <2>2, <2>3, <2>4, <2>5, <2>6, <2>7
<1>15. ASSUME CollectWaypoints PROVE Sound'
  <2>1. /\ agent.pc = "waypoints"
        /\ agent'.token = agent.token
        /\ \/ agent'.pc = "ended" /\ db' = db
           \/ agent'.pc = "markets" /\ ~(db.waypoints = 0) /\ db' = db
           \/ /\ agent'.pc = "waypoint rows"
              /\ SchemaAfter(db.schema, db.status, db.token, db.ships, agent.token, db.fleets)
              /\ TornAfter(db.torn \cup {"waypoints"})
        /\ UNCHANGED <<server, archive, mgr, fleets, answers, signals, faults, astray>>
    <3>1. CASE db.waypoints = 0 /\ ~Accepted(agent.token)
      BY <1>15, <3>1
         DEF Typed, AgentType, CollectWaypoints, Collect, Skip, AgentAt, AgentGoesTo, AgentEnds,
             AgentOnly, Detected
    <3>2. CASE db.waypoints = 0 /\ Accepted(agent.token)
      BY <1>15, <3>2
         DEF Typed, AgentType, Schemas, CollectWaypoints, Collect, Skip, AgentAt, AgentGoesTo, AgentOnly,
             SchemaAfter, TornAfter
    <3>3. CASE ~(db.waypoints = 0)
      BY <1>15, <3>3
         DEF Typed, AgentType, CollectWaypoints, Collect, Skip, AgentAt, AgentGoesTo, AgentOnly
    <3> QED
      BY <3>1, <3>2, <3>3
  <2>2. Staged'
    BY <1>1, <2>1 DEF Staged, SchemaAfter, TornAfter
  <2>3. Kept'
    BY <1>1, <2>1 DEF Staged, Kept, TokenIsKept, At, SchemaAfter, TornAfter
  <2>4. AtWork'
    BY <1>1, <2>1 DEF AtWork, Staged, SchemaAfter, TornAfter
  <2>5. Undisturbed'
    BY <1>1, <2>1 DEF Undisturbed, AtWork, SchemaAfter, TornAfter
  <2>6. Own'
    BY <1>1, <2>1 DEF Own, Undisturbed, AtWork, Staged, OwnRows, SchemaAfter, TornAfter
  <2>7. Whole'
    <3>1. CASE db' = db
      BY <2>1, <3>1 DEF Whole
    <3>2. CASE TornAfter(db.torn \cup {"waypoints"}) /\ agent'.pc = "waypoint rows"
      BY <2>1, <3>2 DEF Whole, TornAfter
    <3> QED
      BY <2>1, <3>1, <3>2
  <2> QED
    BY <2>2, <2>3, <2>4, <2>5, <2>6, <2>7
<1>16. ASSUME CollectMarkets PROVE Sound'
  <2>1. /\ agent.pc = "markets"
        /\ agent'.token = agent.token
        /\ agent'.pc \in {"ended", "found"}
        /\ UNCHANGED <<server, db, archive, mgr, fleets, answers, signals, faults, astray>>
    BY <1>16, <1>1
       DEF Typed, AgentType, CollectMarkets, Collect, AgentAt, AgentGoesTo, AgentEnds,
           AgentOnly, Detected
  <2>2. Staged'
    BY <1>1, <2>1 DEF Staged
  <2>3. Kept'
    BY <1>1, <2>1 DEF Staged, Kept, TokenIsKept, At
  <2>4. AtWork'
    BY <1>1, <2>1 DEF AtWork, Staged
  <2>5. Undisturbed'
    BY <1>1, <2>1 DEF Undisturbed, AtWork
  <2>6. Own'
    BY <1>1, <2>1 DEF Own, Undisturbed, AtWork, Staged, OwnRows
  <2>7. Whole'
    BY <1>1, <2>1 DEF Whole, AtWork, Undisturbed
  <2> QED
    BY <2>2, <2>3, <2>4, <2>5, <2>6, <2>7
<1>17. ASSUME FoundFleets PROVE Sound'
  <2>1. /\ agent.pc = "found"
        /\ AgentAfter("run", agent.token)
        /\ SchemaAfter(db.schema, db.status, db.token, db.ships, db.waypoints, agent.token)
        /\ TornAfter(db.torn)
        /\ UNCHANGED <<server, archive, mgr, fleets, answers, signals, faults, astray>>
    BY <1>17, <1>1
       DEF Typed, AgentType, Schemas, FoundFleets, AgentAt, AgentGoesTo, AgentOnly,
           SchemaAfter, TornAfter, AgentAfter
  <2>2. Staged'
    BY <1>1, <2>1 DEF Staged, SchemaAfter, TornAfter, AgentAfter
  <2>3. Kept'
    BY <1>1, <2>1 DEF Staged, Kept, TokenIsKept, At, SchemaAfter, TornAfter, AgentAfter
  <2>4. AtWork'
    BY <1>1, <2>1 DEF AtWork, Staged, SchemaAfter, TornAfter, AgentAfter
  <2>5. Undisturbed'
    BY <1>1, <2>1 DEF Undisturbed, AtWork, SchemaAfter, TornAfter, AgentAfter
  <2>6. Own'
    BY <1>1, <2>1 DEF Own, Undisturbed, AtWork, Staged, OwnRows, SchemaAfter, TornAfter, AgentAfter
  <2>7. Whole'
    BY <1>1, <2>1 DEF Whole, AtWork, Undisturbed, SchemaAfter, TornAfter, AgentAfter
  <2> QED
    BY <2>2, <2>3, <2>4, <2>5, <2>6, <2>7
<1>18. ASSUME RunFleets PROVE Sound'
  <2>1. /\ agent.pc = "run"
        /\ AgentAfter("done", agent.token)
        /\ fleets' = [fleets EXCEPT ![agent.token] = @ + 1]
        /\ UNCHANGED <<server, db, archive, mgr, answers, signals, faults, astray>>
    BY <1>18, <1>1 DEF Typed, AgentType, RunFleets, AgentAt, AgentGoesTo, AgentOnly, AgentAfter
  <2>2. Staged'
    BY <1>1, <2>1 DEF Staged, AgentAfter
  <2>3. Kept'
    BY <1>1, <2>1 DEF Staged, Kept, TokenIsKept, At, AgentAfter
  <2>4. AtWork'
    BY <1>1, <2>1 DEF AtWork, Staged, AgentAfter
  <2>5. Undisturbed'
    <3>1. signals' > 0 => faults'["signals"] > 0
      BY <2>1 DEF Undisturbed, AgentAfter
    <3>2. ASSUME faults'["signals"] = 0, NEW f \in Entries, fleets'[f] > 0
          PROVE  f = agent.token /\ fleets'[f] = 1
      <4>1. fleets[f] \in Nat /\ ~(fleets[f] > 0) /\ agent.token \in Entries
        BY <2>1, <3>2, AgentUpdates DEF Undisturbed, Typed, AgentAfter
      <4> QED
        BY <2>1, <3>2, <4>1 DEF Typed, AgentAfter
    <3>3. ASSUME faults'["signals"] = 0, NEW f \in answers' PROVE FALSE
      BY <2>1, <3>3 DEF Undisturbed, AgentAfter
    <3> QED
      BY <2>1, <3>1, <3>2, <3>3 DEF Undisturbed, AgentAfter
  <2>6. Own'
    BY <1>1, <2>1 DEF Own, Undisturbed, AtWork, Staged, OwnRows, AgentAfter
  <2>7. Whole'
    BY <1>1, <2>1 DEF Whole, AtWork, Undisturbed, AgentAfter
  <2> QED
    BY <2>2, <2>3, <2>4, <2>5, <2>6, <2>7
<1>19. ASSUME InitialisationFails PROVE Sound'
  <2>1. /\ mgr.pc \notin {"register", "save", "spawn", "waiting"}
        /\ ManagerAfter("status", 0, 0)
        /\ FaultsAside
        /\ UNCHANGED <<server, db, archive, agent, fleets, answers, signals, astray>>
    BY <1>19, <1>1
       DEF Typed, ManagerType, ManagerAt, Kinds, Fault, InitialisationFails, TryAgain, Fails,
           ManagerAfter, FaultsAside
  <2>2. Staged'
    BY <1>1, <2>1 DEF Staged, ManagerAfter, FaultsAside
  <2>3. Kept'
    BY <1>1, <2>1 DEF Staged, Kept, TokenIsKept, At, ManagerAfter, FaultsAside
  <2>4. AtWork'
    BY <1>1, <2>1 DEF AtWork, Staged, ManagerAfter, FaultsAside
  <2>5. Undisturbed'
    BY <1>1, <2>1 DEF Undisturbed, AtWork, ManagerAfter, FaultsAside
  <2>6. Own'
    BY <1>1, <2>1 DEF Own, Undisturbed, AtWork, Staged, OwnRows, ManagerAfter, FaultsAside
  <2>7. Whole'
    BY <1>1, <2>1 DEF Whole, AtWork, Undisturbed, ManagerAfter, FaultsAside
  <2> QED
    BY <2>2, <2>3, <2>4, <2>5, <2>6, <2>7
<1>20. ASSUME RegistrationFails PROVE Sound'
  <2>1. /\ mgr.pc = "register"
        /\ ManagerAfter("off", 0, 0)
        /\ FaultsAside
        /\ UNCHANGED <<server, db, archive, agent, fleets, answers, signals, astray>>
    BY <1>20, <1>1
       DEF Typed, ManagerType, ManagerAt, Kinds, Fault, RegistrationFails, Panic, Off, Fails,
           At, ManagerAfter, FaultsAside
  <2>2. Staged'
    BY <1>1, <2>1 DEF Staged, ManagerAfter, FaultsAside
  <2>3. Kept'
    BY <1>1, <2>1 DEF Staged, Kept, TokenIsKept, At, ManagerAfter, FaultsAside
  <2>4. AtWork'
    BY <1>1, <2>1 DEF AtWork, Staged, ManagerAfter, FaultsAside
  <2>5. Undisturbed'
    BY <1>1, <2>1 DEF Undisturbed, AtWork, ManagerAfter, FaultsAside
  <2>6. Own'
    BY <1>1, <2>1 DEF Own, Undisturbed, AtWork, Staged, OwnRows, ManagerAfter, FaultsAside
  <2>7. Whole'
    BY <1>1, <2>1 DEF Whole, AtWork, Undisturbed, ManagerAfter, FaultsAside
  <2> QED
    BY <2>2, <2>3, <2>4, <2>5, <2>6, <2>7
<1>21. ASSUME AgentFails PROVE Sound'
  <2>1. /\ agent.pc \in {"ask", "ships", "ship rows", "waypoints", "waypoint rows", "markets", "found"}
        /\ AgentAfter("ended", agent.token)
        /\ TornCounted
        /\ UNCHANGED <<server, db, archive, mgr, fleets, answers, signals, astray>>
    BY <1>21, <1>1, EndUpdates
       DEF Typed, AgentType, AgentFails, AgentGoesTo, AgentAfter
  <2>2. Staged'
    BY <1>1, <2>1 DEF Staged, AgentAfter, TornCounted
  <2>3. Kept'
    BY <1>1, <2>1 DEF Staged, Kept, TokenIsKept, At, AgentAfter, TornCounted
  <2>4. AtWork'
    BY <1>1, <2>1 DEF AtWork, Staged, AgentAfter, TornCounted
  <2>5. Undisturbed'
    <3>1. signals' > 0 => faults'["signals"] > 0
      BY <2>1 DEF Undisturbed, AgentAfter, TornCounted
    <3>2. ASSUME faults'["signals"] = 0, NEW f \in Entries, fleets'[f] > 0 PROVE FALSE
      BY <2>1, <3>2 DEF Undisturbed, AgentAfter, TornCounted
    <3>3. ASSUME faults'["signals"] = 0, NEW f \in answers' PROVE FALSE
      BY <2>1, <3>3 DEF Undisturbed, AgentAfter, TornCounted
    <3> QED
      BY <3>1, <3>2, <3>3 DEF Undisturbed, AgentAfter, TornCounted
  <2>6. Own'
    BY <1>1, <2>1 DEF Own, Undisturbed, AtWork, Staged, OwnRows, AgentAfter, TornCounted
  <2>7. Whole'
    <3>1. ASSUME faults'["signals"] = 0, faults'["torn"] = 0
          PROVE  faults["signals"] = 0 /\ faults["torn"] = 0 /\ ~InBetween
      <4>1. CASE InBetween
        <5>1. faults'["torn"] = faults["torn"] + 1
          BY <2>1, <4>1 DEF TornCounted
        <5> QED
          BY <1>1, <3>1, <5>1
      <4>2. CASE ~InBetween
        BY <2>1, <3>1, <4>2 DEF TornCounted
      <4> QED
        BY <4>1, <4>2
    <3> QED
      BY <2>1, <3>1 DEF Whole, InBetween
  <2> QED
    BY <2>2, <2>3, <2>4, <2>5, <2>6, <2>7
<1>22. ASSUME NEW e \in Resets, FleetAsks(e) PROVE Sound'
  <2>1. /\ fleets[e] > 0
        /\ answers' \subseteq answers \cup {e}
        /\ signals' = signals
        /\ UNCHANGED <<server, db, archive, mgr, agent, fleets, signals, faults, astray>>
    BY <1>22, <1>1 DEF Typed, FleetAsks, Accepted, Detected
  <2>2. Staged'
    BY <1>1, <2>1 DEF Staged
  <2>3. Kept'
    BY <1>1, <2>1 DEF Staged, Kept, TokenIsKept, At
  <2>4. AtWork'
    BY <1>1, <2>1 DEF AtWork, Staged
  <2>5. Undisturbed'
    BY <1>1, <2>1, Ranges DEF Undisturbed
  <2>6. Own'
    BY <1>1, <2>1 DEF Own, Undisturbed, AtWork, Staged, OwnRows
  <2>7. Whole'
    BY <1>1, <2>1 DEF Whole, AtWork, Undisturbed
  <2> QED
    BY <2>2, <2>3, <2>4, <2>5, <2>6, <2>7
<1>23. ASSUME NEW e \in Resets, FleetStores(e) PROVE Sound'
  <2>1. /\ e \in answers
        /\ answers' \subseteq answers
        /\ \/ db' = db
           \/ /\ SchemaAfter(db.schema, db.status, db.token, db.ships \cup {e}, db.waypoints, db.fleets)
              /\ TornAfter(db.torn)
        /\ UNCHANGED <<server, archive, mgr, agent, fleets, signals, faults, astray>>
    <3>1. CASE db.schema = "migrated"
      BY <1>23, <3>1 DEF Typed, Schemas, FleetStores, SchemaAfter, TornAfter
    <3>2. CASE db.schema # "migrated"
      BY <1>23, <3>2 DEF FleetStores, SchemaAfter, TornAfter
    <3> QED
      BY <3>1, <3>2
  <2>2. Staged'
    BY <1>1, <2>1 DEF Staged, SchemaAfter, TornAfter
  <2>3. Kept'
    BY <1>1, <2>1 DEF Staged, Kept, TokenIsKept, At, SchemaAfter, TornAfter
  <2>4. AtWork'
    BY <1>1, <2>1 DEF AtWork, Staged, SchemaAfter, TornAfter
  <2>5. Undisturbed'
    BY <1>1, <2>1 DEF Undisturbed, AtWork, SchemaAfter, TornAfter
  <2>6. Own'
    BY <1>1, <2>1 DEF Own, Undisturbed, AtWork, Staged, OwnRows, SchemaAfter, TornAfter
  <2>7. Whole'
    BY <1>1, <2>1 DEF Whole, AtWork, Undisturbed, SchemaAfter, TornAfter
  <2> QED
    BY <2>2, <2>3, <2>4, <2>5, <2>6, <2>7
<1>24. ASSUME SendReset PROVE Sound'
  <2>1. /\ faults'["signals"] = faults["signals"] + 1 /\ faults'["late"] = faults["late"]
        /\ UNCHANGED <<server, db, archive, mgr, agent, fleets, answers, astray>>
    BY <1>24, <1>1 DEF Typed, Kinds, Fault, SendReset, At
  <2>2. Staged'
    BY <1>1, <2>1 DEF Staged
  <2>3. Kept'
    BY <1>1, <2>1 DEF Staged, Kept, TokenIsKept, At
  <2>4. AtWork'
    BY <1>1, <2>1 DEF AtWork, Staged
  <2>5. Undisturbed'
    BY <1>1, <2>1 DEF Undisturbed
  <2>6. Own'
    BY <1>1, <2>1 DEF Own
  <2>7. Whole'
    <3>1. faults'["signals"] # 0
      BY <1>1, <2>1
    <3> QED
      BY <3>1 DEF Whole
  <2> QED
    BY <2>2, <2>3, <2>4, <2>5, <2>6, <2>7
<1>25. ASSUME ServerReset PROVE Sound'
  <2>1. /\ server'.reset = server.reset + 1 /\ ~server'.claimed
        /\ astray' = {}
        /\ UNCHANGED <<db, archive, mgr, agent, fleets, answers, signals, faults>>
    BY <1>25, <1>1 DEF Typed, ServerType, ServerReset
  <2>2. Staged'
    BY <1>1, <2>1 DEF Staged
  <2>3. Kept'
    BY <1>1, <2>1 DEF Staged, Kept, TokenIsKept, At
  <2>4. AtWork'
    BY <1>1, <2>1 DEF AtWork, Staged
  <2>5. Undisturbed'
    BY <1>1, <2>1 DEF Undisturbed, AtWork
  <2>6. Own'
    BY <1>1, <2>1 DEF Own, Undisturbed, AtWork, Staged, OwnRows
  <2>7. Whole'
    BY <1>1, <2>1 DEF Whole, AtWork, Undisturbed
  <2> QED
    BY <2>2, <2>3, <2>4, <2>5, <2>6, <2>7
<1>26. ASSUME Crash PROVE Sound'
  <2>1. /\ ManagerAfter("off", 0, 0)
        /\ AgentAfter("none", 0)
        /\ fleets' = NoFleets /\ answers' = {} /\ signals' = 0
        /\ TornCounted
        /\ astray' = (IF mgr.pc = "save" /\ mgr.token = server.reset THEN astray \cup {"save"} ELSE astray)
        /\ UNCHANGED <<server, db, archive>>
    BY <1>26, <1>1, EndUpdates
       DEF Typed, ManagerType, ManagerAt, NoAgent, Crash, Off, At, Accepted,
           ManagerAfter, AgentAfter
  <2>2. Staged'
    BY <1>1, <2>1 DEF Staged, ManagerAfter, AgentAfter, TornCounted
  <2>3. Kept'
    BY <1>1, <2>1 DEF Staged, Kept, TokenIsKept, At, ManagerAfter, AgentAfter, TornCounted
  <2>4. AtWork'
    BY <1>1, <2>1 DEF AtWork, Staged, ManagerAfter, AgentAfter, TornCounted
  <2>5. Undisturbed'
    BY <1>1, <2>1 DEF Undisturbed, NoFleets, ManagerAfter, AgentAfter, TornCounted
  <2>6. Own'
    BY <1>1, <2>1
       DEF Own, Undisturbed, AtWork, Staged, OwnRows, ManagerAfter, AgentAfter, TornCounted
  <2>7. Whole'
    <3>1. ASSUME faults'["signals"] = 0, faults'["torn"] = 0
          PROVE  faults["signals"] = 0 /\ faults["torn"] = 0 /\ ~InBetween
      <4>1. CASE InBetween
        BY <1>1, <2>1, <3>1, <4>1 DEF TornCounted
      <4>2. CASE ~InBetween
        BY <2>1, <3>1, <4>2 DEF TornCounted
      <4> QED
        BY <4>1, <4>2
    <3> QED
      BY <2>1, <3>1 DEF Whole, InBetween
  <2> QED
    BY <2>2, <2>3, <2>4, <2>5, <2>6, <2>7
<1>27. ASSUME StartProcess PROVE Sound'
  <2>1. /\ mgr.pc = "off"
        /\ ManagerAfter("status", 0, 0)
        /\ AgentAfter("none", 0)
        /\ fleets' = NoFleets /\ answers' = {} /\ signals' = 0
        /\ UNCHANGED <<server, db, archive, faults, astray>>
    BY <1>27, <1>1
       DEF Typed, ManagerType, ManagerAt, NoAgent, StartProcess, At, ManagerAfter, AgentAfter
  <2>2. Staged'
    BY <1>1, <2>1 DEF Staged, ManagerAfter, AgentAfter
  <2>3. Kept'
    BY <1>1, <2>1 DEF Staged, Kept, TokenIsKept, At, ManagerAfter, AgentAfter
  <2>4. AtWork'
    BY <1>1, <2>1 DEF AtWork, Staged, ManagerAfter, AgentAfter
  <2>5. Undisturbed'
    BY <1>1, <2>1 DEF Undisturbed, NoFleets, ManagerAfter, AgentAfter
  <2>6. Own'
    BY <1>1, <2>1 DEF Own, Undisturbed, AtWork, Staged, OwnRows, ManagerAfter, AgentAfter
  <2>7. Whole'
    BY <1>1, <2>1 DEF Whole, AtWork, Undisturbed, ManagerAfter, AgentAfter
  <2> QED
    BY <2>2, <2>3, <2>4, <2>5, <2>6, <2>7
<1>29. ASSUME StoreShips PROVE Sound'
  <2>1. /\ agent.pc = "ship rows"
        /\ AgentAfter("waypoints", agent.token)
        /\ SchemaAfter(db.schema, db.status, db.token, db.ships, db.waypoints, db.fleets)
        /\ TornAfter(db.torn \ {"ships"})
        /\ UNCHANGED <<server, archive, mgr, fleets, answers, signals, faults, astray>>
    BY <1>29, <1>1
       DEF Typed, AgentType, Schemas, StoreShips, StoreRest, AgentAt, AgentGoesTo, AgentOnly,
           SchemaAfter, TornAfter, AgentAfter
  <2>2. Staged'
    BY <1>1, <2>1 DEF Staged, SchemaAfter, TornAfter, AgentAfter
  <2>3. Kept'
    BY <1>1, <2>1 DEF Staged, Kept, TokenIsKept, At, SchemaAfter, TornAfter, AgentAfter
  <2>4. AtWork'
    BY <1>1, <2>1 DEF AtWork, Staged, SchemaAfter, TornAfter, AgentAfter
  <2>5. Undisturbed'
    BY <1>1, <2>1 DEF Undisturbed, AtWork, SchemaAfter, TornAfter, AgentAfter
  <2>6. Own'
    BY <1>1, <2>1 DEF Own, Undisturbed, AtWork, Staged, OwnRows, SchemaAfter, TornAfter, AgentAfter
  <2>7. Whole'
    BY <1>1, <2>1 DEF Whole, AtWork, Undisturbed, SchemaAfter, TornAfter, AgentAfter
  <2> QED
    BY <2>2, <2>3, <2>4, <2>5, <2>6, <2>7
<1>30. ASSUME StoreWaypoints PROVE Sound'
  <2>1. /\ agent.pc = "waypoint rows"
        /\ AgentAfter("markets", agent.token)
        /\ SchemaAfter(db.schema, db.status, db.token, db.ships, db.waypoints, db.fleets)
        /\ TornAfter(db.torn \ {"waypoints"})
        /\ UNCHANGED <<server, archive, mgr, fleets, answers, signals, faults, astray>>
    BY <1>30, <1>1
       DEF Typed, AgentType, Schemas, StoreWaypoints, StoreRest, AgentAt, AgentGoesTo, AgentOnly,
           SchemaAfter, TornAfter, AgentAfter
  <2>2. Staged'
    BY <1>1, <2>1 DEF Staged, SchemaAfter, TornAfter, AgentAfter
  <2>3. Kept'
    BY <1>1, <2>1 DEF Staged, Kept, TokenIsKept, At, SchemaAfter, TornAfter, AgentAfter
  <2>4. AtWork'
    BY <1>1, <2>1 DEF AtWork, Staged, SchemaAfter, TornAfter, AgentAfter
  <2>5. Undisturbed'
    BY <1>1, <2>1 DEF Undisturbed, AtWork, SchemaAfter, TornAfter, AgentAfter
  <2>6. Own'
    BY <1>1, <2>1 DEF Own, Undisturbed, AtWork, Staged, OwnRows, SchemaAfter, TornAfter, AgentAfter
  <2>7. Whole'
    BY <1>1, <2>1 DEF Whole, AtWork, Undisturbed, SchemaAfter, TornAfter, AgentAfter
  <2> QED
    BY <2>2, <2>3, <2>4, <2>5, <2>6, <2>7
<1>28. ASSUME UNCHANGED vars PROVE Sound'
  <2>1. Staged' /\ Kept' /\ AtWork'
    BY <1>28 DEF vars, Staged, Kept, TokenIsKept, At, AtWork
  <2>2. Undisturbed' /\ Own' /\ Whole'
    BY <1>28 DEF vars, Undisturbed, Own, OwnRows, Whole
  <2> QED
    BY <2>1, <2>2
<1> QED
  BY <1>2, <1>3, <1>4, <1>5, <1>6, <1>7, <1>8, <1>9, <1>10, <1>11, <1>12, <1>13, <1>14, <1>15,
     <1>16, <1>17, <1>18, <1>19, <1>20, <1>21, <1>22, <1>23, <1>24, <1>25, <1>26, <1>27, <1>28,
     <1>29, <1>30
     DEF Next, ManagerStep, AgentStep

-----------------------------------------------------------------------------
(* Theorems *)

LEMMA InitIInv == Init => IInv
<1> SUFFICES ASSUME Init PROVE IInv
  OBVIOUS
<1>1. Typed
  <2>1. server \in ServerType
    BY Ranges, LifecycleAssumption DEF Init, ServerType, Resets, LifecycleAssumption
  <2>2. mgr \in ManagerType
    BY ManagerTypes DEF Init, Off, ManagerPCs
  <2>3. faults \in [Kinds -> Nat]
    BY DEF Init, Kinds
  <2> QED
    BY <2>1, <2>2, <2>3, NewSchemas, ManagerTypes DEF Init, Typed
<1>2. /\ server.reset = 1 /\ ~server.claimed /\ mgr.pc = "off" /\ mgr.status = 0 /\ mgr.token = 0
      /\ agent.pc = "none" /\ faults["signals"] = 0 /\ db.torn = {}
  BY NewSchemas DEF Init, Off, ManagerAt, NoAgent
<1>3. Staged /\ Kept /\ AtWork /\ Whole
  BY <1>2, NewSchemas DEF Init, Staged, Kept, TokenIsKept, AtWork, At, Whole
<1>4. Undisturbed
  BY <1>2 DEF Init, Undisturbed, NoFleets
<1>5. Own
  BY <1>2, NewSchemas DEF Init, Own, OwnRows
<1> QED
  BY <1>1, <1>3, <1>4, <1>5 DEF IInv, Sound

\* The invariant holds in every state.
THEOREM Invariance == Spec => []IInv
<1>1. IInv /\ [Next]_vars => IInv'
  BY TypedStep, InvariantStep DEF IInv, Sound
<1> QED
  BY InitIInv, <1>1, PTL DEF Spec

\* Every state is well typed, and whoever spawns an agent has a token.
THEOREM TypeCorrect == Spec => []TypeOK
<1>1. IInv => TypeOK
  BY ManagerUpdates, AgentUpdates, Ranges DEF IInv, Sound, Typed, Staged, ServerType, TypeOK
<1> QED
  BY <1>1, Invariance, PTL

\* A start goes on to the registration only with a prepared schema
\* (prepare_database_schema), whatever earlier starts left.
THEOREM Prepared == Spec => []SchemaIsPrepared
<1>1. IInv => SchemaIsPrepared
  BY DEF IInv, Sound, Staged, SchemaIsPrepared
<1> QED
  BY <1>1, Invariance, PTL

\* The token of the current reset is kept (get_authenticated_client), for any
\* number of crashes and failures that are not one of the three exceptions.
THEOREM TokenAlwaysKept == Spec => []TokenIsKept
<1>1. IInv => TokenIsKept
  BY DEF IInv, Sound, Kept
<1> QED
  BY <1>1, Invariance, PTL

\* Schemas and archives hold the rows of one reset (prepare_database_schema).
THEOREM OneResetEach == Spec => []DataOfOneReset
<1>1. ASSUME NEW d, OwnRows(d) PROVE Rows(d) \subseteq {d.status}
  BY <1>1 DEF OwnRows, Rows
<1>2. IInv => DataOfOneReset
  BY <1>1 DEF IInv, Sound, Own, DataOfOneReset
<1> QED
  BY <1>2, Invariance, PTL

\* The fleets run once, and on data of their own reset of which no table is
\* empty, and none half stored unless a start ended between its two statements
\* (load_or_create, load_and_store_initial_data_in_bmcs, run_fleets).
THEOREM FleetsOnce == Spec => []OneFleet
<1>1. ASSUME IInv, faults["signals"] = 0, NEW e \in Resets, fleets[e] > 0
      PROVE  fleets[e] = 1 /\ agent.pc = "done" /\ e = agent.token
  BY <1>1, Ranges DEF IInv, Sound, Undisturbed
<1>2. ASSUME IInv, faults["signals"] = 0, faults["late"] = 0, NEW e \in Resets, fleets[e] = 1
      PROVE  /\ db.fleets = e /\ db.ships = {e} /\ db.waypoints = e
             /\ faults["torn"] = 0 => db.torn = {}
  <2>1. /\ agent.pc = "done" /\ mgr.pc = "waiting" /\ e = db.status
        /\ db.fleets # 0 /\ db.ships # {} /\ db.waypoints # 0
    <3>1. /\ agent.pc = "done" /\ e = agent.token /\ mgr.pc = "waiting"
          /\ agent.token = mgr.token
      <4>1. fleets[e] > 0
        BY <1>2
      <4>2. agent.pc = "done" /\ e = agent.token
        BY <1>1, <1>2, <4>1
      <4> QED
        BY <1>2, <4>2 DEF IInv, Sound, AtWork
    <3>2. db.fleets # 0 /\ db.ships # {} /\ db.waypoints # 0
      BY <1>2, <3>1 DEF IInv, Sound, AtWork
    <3>3. mgr.token = mgr.status /\ db.status = mgr.status
      BY <1>2, <3>1 DEF IInv, Sound, Own, Staged
    <3> QED
      BY <3>1, <3>2, <3>3
  <2>2. faults["torn"] = 0 => db.torn = {}
    BY <1>2, <2>1, SchemaFields DEF IInv, Sound, Typed, Whole, Tables
  <2> QED
    BY <1>2, <2>1, <2>2 DEF IInv, Sound, Own, OwnRows
<1>3. ASSUME IInv, faults["signals"] = 0 PROVE \A e \in Resets : fleets[e] <= 1
  <2> TAKE e \in Resets
  <2>1. fleets[e] \in Nat
    BY <1>3, Ranges DEF IInv, Sound, Typed
  <2> QED
    BY <1>1, <1>3, <2>1
<1>4. IInv => OneFleet
  BY <1>1, <1>2, <1>3 DEF OneFleet
<1> QED
  BY <1>4, Invariance, PTL

====
