--------------------------- MODULE TransferCargo ---------------------------
(***************************************************************************)
(* Miners hand their cargo to haulers at a mining site.  The transfer      *)
(* cargo manager keeps the cargo of every waiting hauler behind a lock;    *)
(* a full miner takes the lock, plans one transfer per stack and asks the  *)
(* server for them one after the other.  A hauler waits in a polling loop  *)
(* until it is more than 80% full.  A task of its own, fed by a channel of *)
(* two messages, writes the cargo of the waiting hauler to the ship table. *)
(*                                                                         *)
(* Every ship has its cargo in three places: at the server, in the memory  *)
(* of its fiber and in the table.  A fault loses the server's reply to a   *)
(* transfer or a sale, ends a hauler's update task, ends a delivery with   *)
(* an error, or ends the process.                                          *)
(*                                                                         *)
(* The statements of a miner's leaves and of a pick-up are taken to        *)
(* succeed; a stack is sold with one ticket, for its batches.              *)
(***************************************************************************)
EXTENDS Cargo, FiniteSets, Sequences, Functions

CONSTANTS Miners, Haulers,
          MinerCapacity, HaulerCapacity,
          Yield,        \* what a miner's lasers extract at most at once
          Minerals,     \* the goods of the mining site
          Demanded,     \* the goods miners do not jettison
          StartCargos,  \* what a miner may carry when the process starts
          Sites,        \* the instances: ships at the site, bound on faults
          NotWaiting, Nobody

ASSUME CapacityAssumption ==
  /\ MinerCapacity \in Nat \ {0}
  /\ HaulerCapacity \in Nat \ {0}
  /\ Yield \in Nat \ {0}

ASSUME ShipAssumption ==
  /\ IsFiniteSet(Goods)
  /\ Demanded \subseteq Goods /\ Minerals \subseteq Goods
  /\ Miners \cap Haulers = {}
  /\ StartCargos \subseteq [units : 0..MinerCapacity, inv : [Goods -> 0..MinerCapacity]]
  /\ NotWaiting \notin Cargos
  /\ Nobody \notin Miners
  /\ Sites \subseteq [ships : SUBSET (Miners \cup Haulers), faults : Nat]

\* Cargo::units is the total of the inventory: the server sends it so, and
\* with_item_added_mut and with_units_removed_mut change both together.
ASSUME TotalAssumption == \A cargo \in StartCargos : cargo.units = SumFunctionOnSet(cargo.inv, Goods)

\* A miner's cargo fits into the last fifth of a hauler: drones hold 15 units,
\* the light haulers of the mining squad 80.
ASSUME RoomyHaulers == 5 * MinerCapacity <= HaulerCapacity

VARIABLES
  server,   \* cargo of every ship at the game server
  local,    \* cargo in the memory of the ship's fiber (ShipOperations)
  stored,   \* cargo in the ship table
  pc,       \* where the ship's behaviour stands
  waiting,  \* TransferCargoManager::waiting_haulers
  lock,     \* the miner that holds its mutex over an await
  plan,     \* tasks and cargos of the call that holds the mutex
  channel,  \* cargo updates on the way to a hauler's update task
  updater,  \* the update tasks that run
  sales,    \* the sell tickets of a hauler
  site,     \* the instance, which never changes
  faults    \* auxiliary: the kinds of faults so far, each kind once

vars == <<server, local, stored, pc, waiting, lock, plan, channel, updater, sales, site, faults>>

Ships == Miners \cup Haulers

Capacity(s) == IF s \in Miners THEN MinerCapacity ELSE HaulerCapacity

Tasks == [to : Haulers, good : Goods, units : Nat]

\* no hauler waits
NoHauler == [h \in Haulers |-> NotWaiting]

NoPlan == [left |-> {}, clone |-> NoHauler, tasks |-> <<>>, reply |-> FALSE, done |-> FALSE]

SellTickets == [good : Goods, units : Nat]

\* the tickets of this delivery, those of interrupted ones, the one whose sale
\* the server has booked and the ship does not know of
NoSales == [open |-> {}, old |-> {}, sold |-> {}]

\* the delivery ends before its tickets are completed: they stay active
Interrupted(sale) == [open |-> {}, old |-> sale.old \cup sale.open, sold |-> {}]

Fault(kind) ==
  /\ kind \notin faults /\ Cardinality(faults) < site.faults
  /\ faults' = faults \cup {kind}

-----------------------------------------------------------------------------
(* What the ships decide *)

\* ShipAction::HasCargoSpaceForMining
HasCargoSpaceForMining(m) == Yield < SpaceLeft(local[m], MinerCapacity)

\* mutant of FilledEnough: the hauler leaves when it is full
FilledUp(cargo) == cargo.units = HaulerCapacity

\* more than 80% of the capacity, in the polling loop and in
\* ShipAction::IsHaulerFilledEnoughForDelivery
FilledEnough(cargo) == 5 * cargo.units > 4 * HaulerCapacity

\* find_transfer_task scores a hauler by the goods it carries
Score(cargo, good) ==
  CASE InCargo(cargo) = {good}  -> 4
    [] good \in InCargo(cargo) /\ InCargo(cargo) # {good} -> 1
    [] OTHER -> 0

\* mutant of Candidates: only haulers that carry the good already
CandidatesWithCargo(clone, units) ==
  {h \in Haulers : /\ clone[h] # NotWaiting /\ InCargo(clone[h]) # {}
                   /\ Fits(clone[h], HaulerCapacity, units)}

\* the waiting haulers with space for a whole stack
Candidates(clone, units) ==
  {h \in Haulers : clone[h] # NotWaiting /\ Fits(clone[h], HaulerCapacity, units)}

\* max_by_key over a hash map: any of the candidates with the highest score
BestHaulers(clone, good, units) ==
  {h \in Candidates(clone, units) :
     \A k \in Candidates(clone, units) : Score(clone[k], good) <= Score(clone[h], good)}

-----------------------------------------------------------------------------
(* Miners *)

\* ShipAction::ExtractResources at the server, which wants space for the whole
\* yield
Extract(m, good, units) ==
  /\ pc[m] = "ready" /\ HasCargoSpaceForMining(m)
  /\ units \in 1..Yield /\ Fits(server[m], MinerCapacity, Yield)
  /\ server' = [server EXCEPT ![m] = WithItemAdded(@, MinerCapacity, good, units)]
  /\ pc' = [pc EXCEPT ![m] = "extracted"]
  /\ UNCHANGED <<local, stored, waiting, lock, plan, channel, updater, sales, site, faults>>

\* the rest of the leaf: the ship takes over the cargo of the answer and is stored
TakeOver(m) ==
  /\ pc[m] = "extracted"
  /\ local' = [local EXCEPT ![m] = server[m]]
  /\ stored' = [stored EXCEPT ![m] = server[m]]
  /\ pc' = [pc EXCEPT ![m] = "mined"]
  /\ UNCHANGED <<server, waiting, lock, plan, channel, updater, sales, site, faults>>

\* the cargo without what nobody demands
Kept(cargo) ==
  LET waste == {g \in InCargo(cargo) : g \notin Demanded}
  IN  IF waste = {} THEN cargo
      ELSE LET g == CHOOSE w \in waste : TRUE
           IN  WithUnitsRemoved(cargo, g, cargo.inv[g])

\* ShipAction::JettisonInvaluableMinerals, which does not store the ship.  One
\* extraction adds one good, so there is one stack at most to jettison.
Jettison(m) ==
  /\ pc[m] = "mined"
  /\ server' = [server EXCEPT ![m] = Kept(server[m])]
  /\ local' = [local EXCEPT ![m] = Kept(server[m])]
  /\ pc' = [pc EXCEPT ![m] = "ready"]
  /\ UNCHANGED <<stored, waiting, lock, plan, channel, updater, sales, site, faults>>

\* ShipAction::AttemptCargoTransfer: the call takes the lock and plans on a
\* copy of the waiting haulers.
BeginTransfer(m) ==
  /\ pc[m] = "ready" /\ ~HasCargoSpaceForMining(m)
  /\ lock = Nobody
  /\ lock' = m
  /\ plan' = [NoPlan EXCEPT !.left = InCargo(local[m]), !.clone = waiting]
  /\ pc' = [pc EXCEPT ![m] = "planning"]
  /\ UNCHANGED <<server, local, stored, waiting, channel, updater, sales, site, faults>>

\* mutant of PlanStack: the copy is not charged
PlanStackUncharged(m, good) ==
  /\ pc[m] = "planning" /\ good \in plan.left
  /\ LET best == BestHaulers(plan.clone, good, local[m].inv[good])
     IN  \/ best = {} /\ plan' = [plan EXCEPT !.left = @ \ {good}]
         \/ \E h \in best :
              plan' = [plan EXCEPT !.left = @ \ {good}, !.tasks =
                Append(@, [to |-> h, good |-> good, units |-> local[m].inv[good]])]
  /\ UNCHANGED <<server, local, stored, pc, waiting, lock, channel, updater, sales, site, faults>>

\* find_transfer_tasks: one stack goes to the best hauler, on the copy
PlanStack(m, good) ==
  /\ pc[m] = "planning" /\ good \in plan.left
  /\ LET units == local[m].inv[good]
         best  == BestHaulers(plan.clone, good, units)
     IN  \/ /\ best = {}
            /\ plan' = [plan EXCEPT !.left = @ \ {good}]
         \/ \E h \in best :
              plan' = [plan EXCEPT
                !.left = @ \ {good},
                !.clone[h] = WithItemAdded(@, HaulerCapacity, good, units),
                !.tasks = Append(@, [to |-> h, good |-> good, units |-> units])]
  /\ UNCHANGED <<server, local, stored, pc, waiting, lock, channel, updater, sales, site, faults>>

Planned(m) ==
  /\ pc[m] = "planning" /\ plan.left = {}
  /\ pc' = [pc EXCEPT ![m] = "executing"]
  /\ UNCHANGED <<server, local, stored, waiting, lock, plan, channel, updater, sales, site, faults>>

\* the server's checks in perform_transfer_cargo; the ships are at the site
Accepts(m, task) ==
  /\ HasInCargo(server[m], task.good, task.units)
  /\ Fits(server[task.to], HaulerCapacity, task.units)

\* execute_cargo_transfer_fn at the server, which moves the units
ServerTransfers(m) ==
  /\ pc[m] = "executing" /\ plan.tasks # <<>> /\ ~plan.reply
  /\ LET task == Head(plan.tasks)
     IN  /\ Accepts(m, task)
         /\ server' = [server EXCEPT
              ![m] = WithUnitsRemoved(@, task.good, task.units),
              ![task.to] = WithItemAdded(@, HaulerCapacity, task.good, task.units)]
  /\ plan' = [plan EXCEPT !.reply = TRUE]
  /\ UNCHANGED <<local, stored, pc, waiting, lock, channel, updater, sales, site, faults>>

\* the end of the call on every error: the guard goes, and the ship's own
\* cargo stays what it was although transfers may have happened
EndWithError(m) ==
  /\ lock' = Nobody
  /\ pc' = [pc EXCEPT ![m] = "ready"]
  /\ plan' = NoPlan
  /\ UNCHANGED <<local, stored>>

ServerRefuses(m) ==
  /\ pc[m] = "executing" /\ plan.tasks # <<>> /\ ~plan.reply
  /\ ~Accepts(m, Head(plan.tasks))
  /\ UNCHANGED <<server, waiting, channel, updater, sales, site, faults>>
  /\ EndWithError(m)

\* the request was served, its answer is lost
ReplyLost(m) ==
  /\ pc[m] = "executing" /\ plan.reply
  /\ Fault("reply lost")
  /\ UNCHANGED <<server, waiting, channel, updater, sales, site>>
  /\ EndWithError(m)

\* The reply updates the summary, then the update goes into the channel, which
\* holds the miner and the lock back while it is full.
Reply(m) ==
  /\ pc[m] = "executing" /\ plan.reply
  /\ LET h == Head(plan.tasks).to
     IN  /\ waiting' = [waiting EXCEPT ![h] = server[h]]
         /\ \/ /\ h \in updater /\ Len(channel[h]) < 2
               /\ channel' = [channel EXCEPT ![h] = Append(@, server[h])]
               /\ plan' = [plan EXCEPT !.tasks = Tail(@), !.reply = FALSE, !.done = TRUE]
               /\ UNCHANGED <<local, stored, pc, lock>>
            \/ /\ h \notin updater
               /\ UNCHANGED channel
               /\ EndWithError(m)
  /\ UNCHANGED <<server, updater, sales, site, faults>>

\* all tasks are done: the ship takes the last reply's cargo and stores it
EndTransfer(m) ==
  /\ pc[m] = "executing" /\ plan.tasks = <<>>
  /\ local' = [local EXCEPT ![m] = IF plan.done THEN server[m] ELSE @]
  /\ stored' = [stored EXCEPT ![m] = IF plan.done THEN server[m] ELSE @]
  /\ lock' = Nobody
  /\ plan' = NoPlan
  /\ pc' = [pc EXCEPT ![m] = "ready"]
  /\ UNCHANGED <<server, waiting, channel, updater, sales, site, faults>>

-----------------------------------------------------------------------------
(* Haulers *)

\* ShipAction::AnnounceHaulerReadyForPickup: a channel, its update task and
\* the registration, when the hauler is not filled enough to deliver or its
\* delivery has failed.  The update task of the trip before ends with its last
\* message, before the ship is back.
Announce(h) ==
  /\ \/ pc[h] = "ready" /\ ~FilledEnough(local[h])
     \/ pc[h] = "failed"
  /\ lock = Nobody
  /\ channel[h] = <<>>
  /\ waiting' = [waiting EXCEPT ![h] = local[h]]
  /\ updater' = updater \cup {h}
  /\ pc' = [pc EXCEPT ![h] = "waiting"]
  /\ UNCHANGED <<server, local, stored, lock, plan, channel, sales, site, faults>>

\* mutant of PickUp: the hauler leaves without taking its entry out
PickUpAndStayListed(h) ==
  /\ pc[h] = "waiting" /\ lock = Nobody
  /\ FilledEnough(waiting[h])
  /\ local' = [local EXCEPT ![h] = waiting[h]]
  /\ stored' = [stored EXCEPT ![h] = waiting[h]]
  /\ pc' = [pc EXCEPT ![h] = "loaded"]
  /\ UNCHANGED <<server, waiting, lock, plan, channel, updater, sales, site, faults>>

\* the polling loop finds the summary filled enough and takes it out
PickUp(h) ==
  /\ pc[h] = "waiting" /\ lock = Nobody
  /\ FilledEnough(waiting[h])
  /\ waiting' = [waiting EXCEPT ![h] = NotWaiting]
  /\ local' = [local EXCEPT ![h] = waiting[h]]
  /\ stored' = [stored EXCEPT ![h] = waiting[h]]
  /\ pc' = [pc EXCEPT ![h] = "loaded"]
  /\ UNCHANGED <<server, lock, plan, channel, updater, sales, site, faults>>

\* the update task stores what it receives, also after the hauler has left
StoreUpdate(h) ==
  /\ h \in updater /\ channel[h] # <<>>
  /\ stored' = [stored EXCEPT ![h] = Head(channel[h])]
  /\ channel' = [channel EXCEPT ![h] = Tail(@)]
  /\ UNCHANGED <<server, local, pc, waiting, lock, plan, updater, sales, site, faults>>

\* upsert_ship or the send of the changed state fails: the task panics
UpdaterPanics(h) ==
  /\ h \in updater /\ channel[h] # <<>>
  /\ Fault("updater panicked")
  /\ updater' = updater \ {h}
  /\ channel' = [channel EXCEPT ![h] = <<>>]
  /\ UNCHANGED <<server, local, stored, pc, waiting, lock, plan, sales, site>>

\* deliver_all_goods_behavior, in the first alternative of the hauler's Select
\* and at the end of the second, begins with CreateSellTicketsForAllCargoItems
Deliver(h) ==
  /\ \/ /\ pc[h] = "ready" /\ FilledEnough(local[h])
        /\ pc' = [pc EXCEPT ![h] = "selling"]
     \/ /\ pc[h] = "loaded"
        /\ pc' = [pc EXCEPT ![h] = "unloading"]
  /\ sales' = [sales EXCEPT ![h].open =
       {[good |-> g, units |-> local[h].inv[g]] : g \in InCargo(local[h])}]
  /\ UNCHANGED <<server, local, stored, waiting, lock, plan, channel, updater, site, faults>>

\* a delivery under way, whose next request is to be sent
Delivering(h) == pc[h] \in {"selling", "unloading"} /\ sales[h].sold = {}

\* after an error the Select goes on with its second alternative, or ends and
\* the fiber starts from its first leaf
DeliveryEnds(h) ==
  /\ pc' = [pc EXCEPT ![h] = IF @ = "selling" THEN "failed" ELSE "ready"]
  /\ sales' = [sales EXCEPT ![h] = Interrupted(@)]

\* PerformTradeActionAndMarkAsCompleted takes a ticket the ship's own cargo
\* covers, whether or not this delivery has created it
Covered(h, ticket) ==
  /\ Delivering(h)
  /\ ticket \in sales[h].open \cup sales[h].old
  /\ HasInCargo(local[h], ticket.good, ticket.units)

\* the server books the sale
Sell(h, ticket) ==
  /\ Covered(h, ticket)
  /\ HasInCargo(server[h], ticket.good, ticket.units)
  /\ server' = [server EXCEPT ![h] = WithUnitsRemoved(@, ticket.good, ticket.units)]
  /\ sales' = [sales EXCEPT ![h].sold = {ticket}]
  /\ UNCHANGED <<local, stored, pc, waiting, lock, plan, channel, updater, site, faults>>

\* the server does not know of the units
SaleRefused(h, ticket) ==
  /\ Covered(h, ticket)
  /\ ~HasInCargo(server[h], ticket.good, ticket.units)
  /\ DeliveryEnds(h)
  /\ UNCHANGED <<server, local, stored, waiting, lock, plan, channel, updater, site, faults>>

\* the ship takes over the cargo of the answer, is stored, and the ticket is
\* completed
SaleAnswered(h) ==
  /\ sales[h].sold # {}
  /\ local' = [local EXCEPT ![h] = server[h]]
  /\ stored' = [stored EXCEPT ![h] = server[h]]
  /\ sales' = [sales EXCEPT ![h] =
       [open |-> @.open \ @.sold,
        old  |-> IF @.sold \subseteq @.open THEN @.old ELSE @.old \ @.sold,
        sold |-> {}]]
  /\ UNCHANGED <<server, pc, waiting, lock, plan, channel, updater, site, faults>>

\* no ticket is left; a ticket of an interrupted delivery that nothing on board
\* covers keeps the ship in the loop
Delivered(h) ==
  /\ Delivering(h) /\ sales[h].open = {} /\ sales[h].old = {}
  /\ pc' = [pc EXCEPT ![h] = "ready"]
  /\ UNCHANGED <<server, local, stored, waiting, lock, plan, channel, updater, sales, site, faults>>

\* a request on the way, or the one to sell, fails before the server has seen it
DeliveryFails(h) ==
  /\ Delivering(h)
  /\ Fault("delivery failed")
  /\ DeliveryEnds(h)
  /\ UNCHANGED <<server, local, stored, waiting, lock, plan, channel, updater, site>>

\* the server has booked the sale, its answer is lost
SaleLost(h) ==
  /\ sales[h].sold # {}
  /\ Fault("sale lost")
  /\ DeliveryEnds(h)
  /\ UNCHANGED <<server, local, stored, waiting, lock, plan, channel, updater, site>>

\* the ship knows the answer, the upsert or the completion fails
SaleUnsaved(h) ==
  /\ sales[h].sold # {}
  /\ Fault("sale unsaved")
  /\ local' = [local EXCEPT ![h] = server[h]]
  /\ \/ UNCHANGED stored
     \/ stored' = [stored EXCEPT ![h] = server[h]]
  /\ DeliveryEnds(h)
  /\ UNCHANGED <<server, waiting, lock, plan, channel, updater, site>>

-----------------------------------------------------------------------------
\* The process ends and starts again: the fibers begin with the table's cargo.
Crash ==
  /\ Fault("crash")
  /\ local' = stored
  /\ pc' = [s \in Ships |-> "ready"]
  /\ waiting' = NoHauler
  /\ lock' = Nobody
  /\ plan' = NoPlan
  /\ channel' = [h \in Haulers |-> <<>>]
  /\ updater' = {}
  /\ sales' = [h \in Haulers |-> Interrupted(sales[h])]
  /\ UNCHANGED <<server, stored, site>>

Init ==
  /\ site \in Sites
  /\ server \in [Ships -> StartCargos]
  /\ \A s \in Ships : server[s] = EmptyCargo \/ s \in Miners \cap site.ships
  /\ local = server
  /\ stored = server
  /\ pc = [s \in Ships |-> "ready"]
  /\ waiting = NoHauler
  /\ lock = Nobody
  /\ plan = NoPlan
  /\ channel = [h \in Haulers |-> <<>>]
  /\ updater = {}
  /\ sales = [h \in Haulers |-> NoSales]
  /\ faults = {}

MinerStep(m) ==
  /\ m \in site.ships
  /\ \/ \E good \in Minerals, units \in 1..Yield : Extract(m, good, units)
     \/ TakeOver(m)
     \/ Jettison(m)
     \/ BeginTransfer(m)
     \/ \E good \in Goods : PlanStack(m, good)
     \/ Planned(m)
     \/ ServerTransfers(m)
     \/ ServerRefuses(m)
     \/ Reply(m)
     \/ EndTransfer(m)

HaulerStep(h) ==
  /\ h \in site.ships
  /\ \/ Announce(h)
     \/ PickUp(h)
     \/ Deliver(h)
     \/ \E ticket \in sales[h].open \cup sales[h].old : Sell(h, ticket) \/ SaleRefused(h, ticket)
     \/ SaleAnswered(h)
     \/ Delivered(h)

Next ==
  \/ \E m \in Miners : MinerStep(m) \/ ReplyLost(m)
  \/ \E h \in Haulers :
       \/ HaulerStep(h) \/ StoreUpdate(h) \/ UpdaterPanics(h)
       \/ DeliveryFails(h) \/ SaleLost(h) \/ SaleUnsaved(h)
  \/ Crash

Spec == Init /\ [][Next]_vars

\* Fibers and update tasks run on; the mutex is fair (tokio's Mutex hands over
\* first come, first served), so that a ship that asks again and again gets it.
FairSpec ==
  /\ Spec
  /\ \A m \in Miners : SF_vars(MinerStep(m))
  /\ \A h \in Haulers : SF_vars(HaulerStep(h)) /\ WF_vars(StoreUpdate(h))

-----------------------------------------------------------------------------
(* Properties *)

\* Every waiting hauler that is not filled enough to leave has space for every
\* stack of every miner: a hauler that waits for cargo and a miner that waits
\* for a hauler always match (find_transfer_task never splits a stack).
NoMissedMatch ==
  \A m \in Miners, h \in Haulers, g \in Goods :
    waiting[h] # NotWaiting => \/ FilledEnough(waiting[h])
                               \/ Fits(waiting[h], HaulerCapacity, local[m].inv[g])

\* Without faults the server accepts every transfer the manager has planned on
\* its copy of the summaries, also several stacks to one hauler.
PlannedTransfersAreAccepted ==
  \A m \in Miners :
    (faults = {} /\ pc[m] = "executing" /\ plan.tasks # <<>> /\ ~plan.reply)
      => Accepts(m, Head(plan.tasks))

\* The summary of a waiting hauler is never ahead of the server, whatever reply
\* to a transfer or update task was lost and however a delivery has failed but
\* for two ways: a sale whose answer was lost, and a crash before a sale is
\* stored.  In both the hauler announces again what it has sold.
SummariesLagAtMost ==
  \A h \in Haulers :
    (waiting[h] # NotWaiting /\ faults \cap {"crash", "sale lost"} = {})
      => waiting[h].units <= server[h].units

\* the cargo the ship believes to have is not the one the server knows
Stale(s) == local[s] # server[s]

\* nothing on board covers the tickets that are left: the loop of
\* trading_behavior does not end
Stuck(h) ==
  /\ Delivering(h) /\ sales[h].open \cup sales[h].old # {}
  /\ \A ticket \in sales[h].open \cup sales[h].old : ~Covered(h, ticket)

\* When every miner is out of space, one of them gets some, as long as no fault
\* has left a ship with a cargo the server does not know, or a hauler with
\* tickets of an interrupted delivery that it cannot complete.
SiteNeverStalls ==
  (\A m \in Miners \cap site.ships : ~HasCargoSpaceForMining(m))
    ~> ((\E m \in Miners \cap site.ships : HasCargoSpaceForMining(m))
        \/ (faults # {} /\ ((\E s \in Ships : Stale(s)) \/ (\E h \in Haulers : Stuck(h)))))
=============================================================================
