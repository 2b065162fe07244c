------------------------ MODULE TransferCargoProofs ------------------------
(***************************************************************************)
(* The safety properties of the transfers, for any number of miners,       *)
(* haulers, goods and faults.                                              *)
(*                                                                         *)
(* NoMissedMatch rests on the sums: every copy of a cargo keeps its total  *)
(* in step with its inventory, so that no stack of a miner is larger than  *)
(* the miner.  SummariesLagAtMost needs to know which ships the summary of *)
(* a hauler may be about.  PlannedTransfersAreAccepted needs the ledger of *)
(* the plan: what the tasks that are still to be done add to each hauler.  *)
(***************************************************************************)
EXTENDS TransferCargo, FiniteSums, SequenceTheorems

\* the cargos a ship may have: the total is that of the inventory and fits
CargosOf(s) == {c \in Cargos : c.units = Sum(c.inv, Goods) /\ c.units <= Capacity(s)}

MinerStates == {"ready", "extracted", "mined", "planning", "executing"}

HaulerStates == {"ready", "waiting", "loaded", "selling", "unloading", "failed"}

Sales == [open : SUBSET SellTickets, old : SUBSET SellTickets, sold : SUBSET SellTickets]

Plans == [left : SUBSET Goods, clone : [Haulers -> Cargos \cup {NotWaiting}],
          tasks : Seq(Tasks), reply : BOOLEAN, done : BOOLEAN]

Typed ==
  /\ server \in [Ships -> Cargos] /\ local \in [Ships -> Cargos] /\ stored \in [Ships -> Cargos]
  /\ pc \in [Ships -> MinerStates \cup HaulerStates]
  /\ waiting \in [Haulers -> Cargos \cup {NotWaiting}]
  /\ lock \in Miners \cup {Nobody}
  /\ plan \in Plans
  /\ channel \in [Haulers -> Seq(Cargos)]
  /\ updater \subseteq Haulers
  /\ sales \in [Haulers -> Sales]

\* every copy of a ship's cargo is a cargo that the ship may have
Totalled ==
  /\ \A s \in Ships : /\ server[s] \in CargosOf(s)
                      /\ local[s] \in CargosOf(s)
                      /\ stored[s] \in CargosOf(s)
  /\ \A h \in Haulers : /\ waiting[h] \in CargosOf(h) \cup {NotWaiting}
                        /\ plan.clone[h] \in CargosOf(h) \cup {NotWaiting}
                        /\ \A i \in DOMAIN channel[h] : channel[h][i] \in CargosOf(h)

\* who holds the mutex, who waits, and what a plan may say
Phased ==
  /\ \A m \in Miners : /\ pc[m] \in MinerStates
                       /\ pc[m] \in {"planning", "executing"} <=> lock = m
  /\ \A h \in Haulers : /\ pc[h] \in HaulerStates
                        /\ sales[h].sold # {} => pc[h] \in {"selling", "unloading"}
                        /\ pc[h] = "waiting" <=> waiting[h] # NotWaiting
  /\ plan.reply => plan.tasks # <<>> /\ lock # Nobody /\ pc[lock] = "executing"
  /\ lock = Nobody => plan = NoPlan
  /\ \A h \in Haulers : plan.clone[h] # NotWaiting => waiting[h] # NotWaiting
  /\ \A i \in DOMAIN plan.tasks : waiting[plan.tasks[i].to] # NotWaiting

\* a hauler away from the site that does not expect the answer to a sale
Settled(h) == pc[h] # "waiting" /\ sales[h].sold = {}

\* neither a crash nor the lost answer to a sale has happened
Answered == faults \cap {"crash", "sale lost"} = {}

Lagging ==
  Answered =>
    \A h \in Haulers : /\ waiting[h] # NotWaiting => waiting[h].units <= server[h].units
                       /\ Settled(h) => local[h].units <= server[h].units

\* the tasks that the server has yet to serve
Pending == {plan.tasks[i] : i \in {j \in DOMAIN plan.tasks : j > 1 \/ ~plan.reply}}

\* what the tasks bring to a hauler, good by good
Load(tasks, h) == [g \in Goods |-> IF \E t \in tasks : t.to = h /\ t.good = g
                                   THEN local[lock].inv[g] ELSE 0]

\* the ship knows what the server knows, between calls and while it plans
Fresh == /\ \A m \in Miners : pc[m] \in {"ready", "planning"} => local[m] = server[m]
         /\ \A h \in Haulers : Settled(h) => local[h] = server[h]

\* so does the manager, but for the answer on its way, and an update task runs
Known == \A h \in Haulers : waiting[h] # NotWaiting =>
           /\ h \in updater
           /\ waiting[h] = server[h] \/ (plan.reply /\ Head(plan.tasks).to = h)

\* one task per good, for the whole stack
OneTaskPerGood ==
  lock # Nobody =>
    /\ \A i, j \in DOMAIN plan.tasks : plan.tasks[i].good = plan.tasks[j].good => i = j
    /\ \A i \in DOMAIN plan.tasks : /\ plan.tasks[i].good \notin plan.left
                                    /\ plan.tasks[i].units = local[lock].inv[plan.tasks[i].good]

\* the ledger of a plan under way
Backed ==
  lock # Nobody =>
    /\ \A t \in Pending : server[lock].inv[t.good] = local[lock].inv[t.good]
    /\ \A h \in Haulers : waiting[h] # NotWaiting =>
         server[h].units + Sum(Load(Pending, h), Goods) <= HaulerCapacity
    /\ ~plan.done /\ ~plan.reply => local[lock] = server[lock]
    /\ pc[lock] = "planning" =>
         \A h \in Haulers : plan.clone[h] # NotWaiting =>
           server[h].units + Sum(Load(Pending, h), Goods) <= plan.clone[h].units

Faultless == faults = {} => Fresh /\ Known /\ OneTaskPerGood /\ Backed

IInv == Typed /\ Totalled /\ Phased /\ Lagging /\ Faultless

-----------------------------------------------------------------------------
(* Cargos *)

\* A sum of nothing but zeros is 0.
LEMMA SumOfZeros ==
  ASSUME NEW f \in [Goods -> Int], \A g \in Goods : f[g] = 0
  PROVE  Sum(f, Goods) = 0
  <1>1. IsFiniteSet(Goods) BY ShipAssumption
  <1>2. \A g \in Goods : f[g] = f[g] + f[g]
    <2> TAKE g \in Goods
    <2>1. f[g] = 0 OBVIOUS
    <2> QED BY <2>1
  <1>3. Sum(f, Goods) = Sum(f, Goods) + Sum(f, Goods) BY <1>1, <1>2, SumPlus
  <1>4. Sum(f, Goods) \in Int BY <1>1, SumType
  <1> QED BY <1>3, <1>4

\* A cargo has a total and, good by good, an inventory.
LEMMA Parts ==
  ASSUME NEW s, NEW c \in CargosOf(s)
  PROVE  /\ c \in Cargos
         /\ c.units \in Nat /\ c.inv \in [Goods -> Nat] /\ c.inv \in [Goods -> Int]
         /\ c.units = Sum(c.inv, Goods) /\ c.units <= Capacity(s)
         /\ c = [units |-> c.units, inv |-> c.inv]
         /\ c # NotWaiting
  <1>1. c \in Cargos /\ c.units = Sum(c.inv, Goods) /\ c.units <= Capacity(s) BY DEF CargosOf
  <1>2. c.units \in Nat /\ c.inv \in [Goods -> Nat] /\ c = [units |-> c.units, inv |-> c.inv]
    BY <1>1 DEF Cargos, Inventories
  <1>3. c.inv \in [Goods -> Int] BY <1>2
  <1>4. NotWaiting \notin Cargos BY ShipAssumption
  <1> QED BY <1>1, <1>2, <1>3, <1>4

\* A capacity is a natural number.
LEMMA CapacityType == \A s : Capacity(s) \in Nat
  BY CapacityAssumption DEF Capacity

\* What a record of a total and an inventory has to satisfy to be a cargo.
LEMMA MakeCargo ==
  ASSUME NEW s, NEW n \in Int, NEW inv \in [Goods -> Nat], n = Sum(inv, Goods), n <= Capacity(s)
  PROVE  [units |-> n, inv |-> inv] \in CargosOf(s)
  <1>1. IsFiniteSet(Goods) /\ inv \in [Goods -> Int] BY ShipAssumption
  <1>2. \A g \in Goods : inv[g] >= 0 OBVIOUS
  <1>3. Sum(inv, Goods) >= 0 BY <1>1, <1>2, SumNonNegative
  <1>4. n \in Nat BY <1>3
  <1> QED BY <1>4 DEF CargosOf, Cargos, Inventories

\* The empty cargo is one that every ship may have.
LEMMA EmptyIsCargo == \A s : EmptyCargo \in CargosOf(s)
  <1> TAKE s
  <1> DEFINE none == [g \in Goods |-> 0]
  <1>1. none \in [Goods -> Nat] /\ none \in [Goods -> Int] /\ \A g \in Goods : none[g] = 0
    OBVIOUS
  <1> HIDE DEF none
  <1>2. Sum(none, Goods) = 0 BY <1>1, SumOfZeros
  <1>3. [units |-> 0, inv |-> none] \in CargosOf(s) BY <1>1, <1>2, CapacityType, MakeCargo
  <1> QED BY <1>3 DEF EmptyCargo, none

\* No stack is larger than the total.
LEMMA StackInTotal ==
  ASSUME NEW s, NEW c \in CargosOf(s), NEW g \in Goods
  PROVE  c.inv[g] <= c.units
  <1>1. IsFiniteSet(Goods) BY ShipAssumption
  <1>2. c.inv \in [Goods -> Int] /\ c.inv \in [Goods -> Nat] /\ c.units = Sum(c.inv, Goods)
    BY Parts
  <1>3. Sum(c.inv, Goods) = c.inv[g] + Sum(c.inv, Goods \ {g}) BY <1>1, <1>2, SumSplit
  <1>4. \A x \in Goods \ {g} : c.inv[x] >= 0 BY <1>2
  <1>5. Sum(c.inv, Goods \ {g}) >= 0 BY <1>1, <1>2, <1>4, SumNonNegative
  <1>6. Sum(c.inv, Goods \ {g}) \in Int BY <1>1, <1>2, SumType
  <1>7. c.inv[g] \in Nat BY <1>2
  <1> QED BY <1>2, <1>3, <1>5, <1>6, <1>7

\* Changed changes the total and one entry by the same number.
LEMMA ChangedParts ==
  ASSUME NEW s, NEW c \in CargosOf(s), NEW good \in Goods, NEW n \in Int,
         c.inv[good] + n >= 0, c.units + n <= Capacity(s)
  PROVE  /\ Changed(c, good, n) \in CargosOf(s)
         /\ Changed(c, good, n).units = c.units + n
         /\ \A g \in Goods \ {good} : Changed(c, good, n).inv[g] = c.inv[g]
  <1> DEFINE inv == [c.inv EXCEPT ![good] = @ + n]
  <1>1. IsFiniteSet(Goods) BY ShipAssumption
  <1>2. c.inv \in [Goods -> Int] /\ c.inv \in [Goods -> Nat] /\ c.units = Sum(c.inv, Goods)
        /\ c.units \in Nat
    BY Parts
  <1>3. inv \in [Goods -> Nat] /\ inv \in [Goods -> Int] BY <1>2
  <1>4. inv[good] = c.inv[good] + n /\ \A g \in Goods \ {good} : inv[g] = c.inv[g] BY <1>2
  <1>c. Changed(c, good, n) = [units |-> c.units + n, inv |-> inv] BY DEF Changed
  <1>i. c.inv[good] \in Int BY <1>2
  <1> HIDE DEF inv
  <1>5. Sum(inv, Goods) = Sum(c.inv, Goods) - c.inv[good] + inv[good]
    BY <1>1, <1>2, <1>3, <1>4, SumChange
  <1>6. c.units + n = Sum(inv, Goods) BY <1>2, <1>4, <1>5, <1>i
  <1>7. [units |-> c.units + n, inv |-> inv] \in CargosOf(s)
    BY <1>2, <1>3, <1>6, MakeCargo
  <1> QED BY <1>4, <1>7, <1>c

\* with_item_added_mut: the cargo stays one that the ship may have.
LEMMA AddedParts ==
  ASSUME NEW s, NEW c \in CargosOf(s), NEW good \in Goods, NEW n \in Nat
  PROVE  /\ WithItemAdded(c, Capacity(s), good, n) \in CargosOf(s)
         /\ Fits(c, Capacity(s), n) =>
              WithItemAdded(c, Capacity(s), good, n).units = c.units + n
         /\ WithItemAdded(c, Capacity(s), good, n).units >= c.units
  <1>1. c.units \in Nat /\ c.inv[good] \in Nat /\ Capacity(s) \in Nat BY Parts, CapacityType
  <1>2. CASE Fits(c, Capacity(s), n)
    <2>1. c.inv[good] + n >= 0 /\ c.units + n <= Capacity(s) BY <1>1, <1>2 DEF Fits, SpaceLeft
    <2>2. /\ Changed(c, good, n) \in CargosOf(s)
          /\ Changed(c, good, n).units = c.units + n
      BY <2>1, ChangedParts
    <2> QED BY <1>1, <1>2, <2>2 DEF WithItemAdded
  <1>3. CASE ~Fits(c, Capacity(s), n) BY <1>1, <1>3 DEF WithItemAdded
  <1> QED BY <1>2, <1>3

\* with_units_removed_mut: the same, and the other entries stay.
LEMMA RemovedParts ==
  ASSUME NEW s, NEW c \in CargosOf(s), NEW good \in Goods, NEW n \in Nat
  PROVE  /\ WithUnitsRemoved(c, good, n) \in CargosOf(s)
         /\ WithUnitsRemoved(c, good, n).units <= c.units
         /\ \A g \in Goods \ {good} : WithUnitsRemoved(c, good, n).inv[g] = c.inv[g]
  <1>1. c.units \in Nat /\ c.inv[good] \in Nat /\ Capacity(s) \in Nat /\ c.units <= Capacity(s)
    BY Parts, CapacityType
  <1>2. CASE HasInCargo(c, good, n)
    <2>1. -n \in Int /\ c.inv[good] + (-n) >= 0 /\ c.units + (-n) <= Capacity(s)
      BY <1>1, <1>2 DEF HasInCargo
    <2>2. /\ Changed(c, good, -n) \in CargosOf(s)
          /\ Changed(c, good, -n).units = c.units + (-n)
          /\ \A g \in Goods \ {good} : Changed(c, good, -n).inv[g] = c.inv[g]
      BY <2>1, ChangedParts
    <2> QED BY <1>1, <1>2, <2>2 DEF WithUnitsRemoved
  <1>3. CASE ~HasInCargo(c, good, n) BY <1>1, <1>3 DEF WithUnitsRemoved
  <1> QED BY <1>2, <1>3

\* Jettisoning leaves a cargo.
LEMMA KeptParts ==
  ASSUME NEW s, NEW c \in CargosOf(s)
  PROVE  Kept(c) \in CargosOf(s)
  <1> DEFINE waste == {g \in InCargo(c) : g \notin Demanded}
             w == CHOOSE x \in waste : TRUE
  <1>1. CASE waste = {} BY <1>1 DEF Kept
  <1>2. CASE waste # {}
    <2>1. w \in waste BY <1>2
    <2>2. w \in Goods BY <2>1 DEF InCargo
    <2>3. c.inv[w] \in Nat BY <2>2, Parts
    <2>k. Kept(c) = WithUnitsRemoved(c, w, c.inv[w]) BY <1>2 DEF Kept
    <2> HIDE DEF w
    <2>4. WithUnitsRemoved(c, w, c.inv[w]) \in CargosOf(s) BY <2>2, <2>3, RemovedParts
    <2> QED BY <2>k, <2>4
  <1> QED BY <1>1, <1>2

-----------------------------------------------------------------------------
(* Steps.  Each lemma is about one action and the whole invariant. *)

\* nobody is a miner, and the two kinds of ships are disjoint
LEMMA WhoIsWho == /\ Nobody \notin Miners /\ Miners \subseteq Ships /\ Haulers \subseteq Ships
                  /\ Ships = Miners \cup Haulers /\ \A m \in Miners : m \notin Haulers
                  /\ \A m \in Miners : Capacity(m) = MinerCapacity
                  /\ \A h \in Haulers : Capacity(h) = HaulerCapacity
  BY ShipAssumption DEF Ships, Capacity

\* the invariant, unfolded to what the steps need of the types
LEMMA Unfold ==
  ASSUME IInv
  PROVE  /\ DOMAIN server = Ships /\ DOMAIN local = Ships /\ DOMAIN stored = Ships
         /\ DOMAIN pc = Ships /\ DOMAIN waiting = Haulers /\ DOMAIN channel = Haulers
         /\ plan.tasks \in Seq(Tasks) /\ plan.reply \in BOOLEAN /\ plan.done \in BOOLEAN
         /\ plan.left \subseteq Goods /\ DOMAIN plan.clone = Haulers
         /\ DOMAIN plan.tasks = 1..Len(plan.tasks) /\ Len(plan.tasks) \in Nat
         /\ \A i \in DOMAIN plan.tasks : plan.tasks[i] \in Tasks
         /\ \A t \in Tasks : t.to \in Haulers /\ t.good \in Goods /\ t.units \in Nat
         /\ Pending \subseteq Tasks
  <1>1. /\ DOMAIN server = Ships /\ DOMAIN local = Ships /\ DOMAIN stored = Ships
        /\ DOMAIN pc = Ships /\ DOMAIN waiting = Haulers /\ DOMAIN channel = Haulers
        /\ plan.tasks \in Seq(Tasks) /\ plan.reply \in BOOLEAN /\ plan.done \in BOOLEAN
        /\ plan.left \subseteq Goods /\ DOMAIN plan.clone = Haulers
    BY DEF IInv, Typed, Plans
  <1>2. DOMAIN plan.tasks = 1..Len(plan.tasks) /\ Len(plan.tasks) \in Nat BY <1>1, LenProperties
  <1>3. \A i \in DOMAIN plan.tasks : plan.tasks[i] \in Tasks BY <1>1, <1>2, ElementOfSeq
  <1>4. \A t \in Tasks : t.to \in Haulers /\ t.good \in Goods /\ t.units \in Nat BY DEF Tasks
  <1>5. Pending \subseteq Tasks BY <1>3 DEF Pending
  <1> QED BY <1>1, <1>2, <1>3, <1>4, <1>5

\* A plan that is not there has nothing pending.
LEMMA EmptyPlan ==
  /\ NoPlan \in Plans /\ NoPlan.tasks = <<>> /\ ~NoPlan.reply /\ ~NoPlan.done /\ NoPlan.left = {}
  /\ NoPlan.clone = NoHauler
  /\ DOMAIN NoPlan.tasks = {}
  /\ \A h \in Haulers : NoHauler[h] = NotWaiting
  <1>1. <<>> \in Seq(Tasks) /\ DOMAIN <<>> = {} BY EmptySeq
  <1>2. NoHauler \in [Haulers -> Cargos \cup {NotWaiting}] BY DEF NoHauler
  <1> QED BY <1>1, <1>2 DEF NoPlan, Plans, NoHauler

\* Nothing changes.
LEMMA StutterKeeps == IInv /\ UNCHANGED vars => IInv'
  <1> SUFFICES ASSUME IInv, UNCHANGED vars PROVE IInv' OBVIOUS
  <1> USE DEF IInv, vars
  <1>1. Typed' BY DEF Typed
  <1>2. Totalled' BY DEF Totalled
  <1>3. Phased' BY DEF Phased
  <1>4. Lagging' BY WhoIsWho DEF Lagging, Answered, Settled
  <1>5. Faultless'
    <2>1. Fresh' <=> Fresh BY WhoIsWho DEF Fresh, Settled
    <2>2. Known' <=> Known BY DEF Known
    <2>3. OneTaskPerGood' <=> OneTaskPerGood BY DEF OneTaskPerGood
    <2>4. Pending' = Pending /\ \A h : Load(Pending, h)' = Load(Pending, h) BY DEF Pending, Load
    <2>5. Backed' <=> Backed BY <2>4 DEF Backed
    <2> QED BY <2>1, <2>2, <2>3, <2>5 DEF Faultless
  <1> QED BY <1>1, <1>2, <1>3, <1>4, <1>5

\* A step that leaves the plan, its miner and the waiting haulers at the server
\* alone keeps the ledger of the plan.
LEMMA LedgerStays ==
  ASSUME Typed, OneTaskPerGood, Backed, UNCHANGED <<plan, lock, waiting>>,
         lock # Nobody => /\ server'[lock] = server[lock] /\ local'[lock] = local[lock]
                          /\ pc'[lock] = pc[lock],
         \A h \in Haulers : waiting[h] # NotWaiting => server'[h] = server[h],
         Phased
  PROVE  OneTaskPerGood' /\ Backed'
  <1>w. \A h \in Haulers : plan'.clone[h] # NotWaiting => waiting'[h] # NotWaiting BY DEF Phased
  <1>1. OneTaskPerGood' BY DEF OneTaskPerGood
  <1>2. CASE lock = Nobody BY <1>1, <1>2 DEF Backed
  <1>3. CASE lock # Nobody
    <2>1. Pending' = Pending BY DEF Pending
    <2>2. \A h : Load(Pending, h)' = Load(Pending, h) BY <1>3, <2>1 DEF Load
    <2>3. \A t \in Pending' : server'[lock'].inv[t.good] = local'[lock'].inv[t.good]
      BY <1>3, <2>1 DEF Backed
    <2>4. \A h \in Haulers : waiting'[h] # NotWaiting =>
            server'[h].units + Sum(Load(Pending, h)', Goods) <= HaulerCapacity
      BY <1>3, <2>2 DEF Backed
    <2>5. ~plan'.done /\ ~plan'.reply => local'[lock'] = server'[lock'] BY <1>3 DEF Backed
    <2>6. pc'[lock'] = "planning" =>
            \A h \in Haulers : plan'.clone[h] # NotWaiting =>
              server'[h].units + Sum(Load(Pending, h)', Goods) <= plan'.clone[h].units
      BY <1>3, <1>w, <2>2 DEF Backed
    <2> QED BY <1>1, <2>3, <2>4, <2>5, <2>6 DEF Backed
  <1> QED BY <1>2, <1>3

\* ExtractResources at the server: only the cargo of the miner changes.
LEMMA ExtractKeeps ==
  ASSUME IInv, NEW m \in Miners, NEW good \in Minerals, NEW units \in 1..Yield,
         Extract(m, good, units)
  PROVE  IInv'
  <1> USE DEF IInv
  <1> DEFINE new == WithItemAdded(server[m], MinerCapacity, good, units)
  <1>0. good \in Goods /\ units \in Nat BY ShipAssumption, CapacityAssumption
  <1>1. /\ server' = [server EXCEPT ![m] = new] /\ pc' = [pc EXCEPT ![m] = "extracted"]
        /\ pc[m] = "ready" /\ m \in Ships
        /\ UNCHANGED <<local, stored, waiting, lock, plan, channel, updater, sales, site, faults>>
    BY WhoIsWho DEF Extract
  <1>2. new \in CargosOf(m)
    <2>1. server[m] \in CargosOf(m) BY <1>1 DEF Totalled
    <2> QED BY <2>1, <1>0, AddedParts, WhoIsWho
  <1>3. new \in Cargos BY <1>2, Parts
  <1> HIDE DEF new
  <1>4. Typed' BY <1>1, <1>3 DEF Typed, MinerStates, HaulerStates
  <1>5. Totalled' BY <1>1, <1>2, Unfold DEF Totalled
  <1>6. Phased' BY <1>1, Unfold, WhoIsWho DEF Phased, MinerStates, HaulerStates
  <1>7. Lagging' BY <1>1, Unfold, WhoIsWho DEF Lagging, Answered, Settled
  <1>8. Faultless'
    <2> SUFFICES ASSUME faults' = {} PROVE (Fresh /\ Known /\ OneTaskPerGood /\ Backed)'
      BY DEF Faultless
    <2>1. Fresh /\ Known /\ OneTaskPerGood /\ Backed BY <1>1 DEF Faultless
    <2>2. Fresh' BY <1>1, <2>1, Unfold, WhoIsWho DEF Fresh, Settled
    <2>3. Known' BY <1>1, <2>1, Unfold, WhoIsWho DEF Known
    <2>4. lock # m BY <1>1 DEF Phased
    <2>5. OneTaskPerGood' /\ Backed'
      <3>1. \A s \in Ships : s # m => server'[s] = server[s] /\ pc'[s] = pc[s] BY <1>1, Unfold
      <3>2. lock # Nobody => lock \in Ships BY WhoIsWho DEF Typed
      <3> QED BY <1>1, <2>1, <2>4, <3>1, <3>2, WhoIsWho, LedgerStays
    <2> QED BY <2>2, <2>3, <2>5
  <1> QED BY <1>4, <1>5, <1>6, <1>7, <1>8

\* The rest of the extraction: the miner takes over its cargo.
LEMMA TakeOverKeeps ==
  ASSUME IInv, NEW m \in Miners, TakeOver(m)
  PROVE  IInv'
  <1> USE DEF IInv
  <1>1. /\ local' = [local EXCEPT ![m] = server[m]] /\ stored' = [stored EXCEPT ![m] = server[m]]
        /\ pc[m] = "extracted" /\ pc' = [pc EXCEPT ![m] = "mined"] /\ m \in Ships
        /\ UNCHANGED <<server, waiting, lock, plan, channel, updater, sales, site, faults>>
    BY WhoIsWho DEF TakeOver
  <1>2. server[m] \in CargosOf(m) /\ server[m] \in Cargos BY <1>1 DEF Totalled, Typed
  <1>m. lock # m /\ m # Nobody BY <1>1, WhoIsWho DEF Phased
  <1>4. Typed' BY <1>1, <1>2 DEF Typed, MinerStates
  <1>5. Totalled' BY <1>1, <1>2, Unfold DEF Totalled
  <1>6. Phased' BY <1>1, <1>m, Unfold, WhoIsWho DEF Phased, MinerStates
  <1>7. Lagging' BY <1>1, Unfold, WhoIsWho DEF Lagging, Answered, Settled
  <1>8. Faultless'
    <2> SUFFICES ASSUME faults' = {} PROVE (Fresh /\ Known /\ OneTaskPerGood /\ Backed)'
      BY DEF Faultless
    <2>1. Fresh /\ Known /\ OneTaskPerGood /\ Backed BY <1>1 DEF Faultless
    <2>2. Fresh' BY <1>1, <2>1, Unfold, WhoIsWho DEF Fresh, Settled
    <2>3. Known' BY <1>1, <2>1, Unfold, WhoIsWho DEF Known
    <2>5. OneTaskPerGood' /\ Backed'
      <3>1. \A x \in Ships : x # m => local'[x] = local[x] /\ pc'[x] = pc[x] BY <1>1, Unfold
      <3>2. lock # Nobody => lock \in Ships BY WhoIsWho DEF Typed
      <3> QED BY <1>1, <1>m, <2>1, <3>1, <3>2, WhoIsWho, LedgerStays
    <2> QED BY <2>2, <2>3, <2>5
  <1> QED BY <1>4, <1>5, <1>6, <1>7, <1>8

\* Jettisoning changes the server's copy and the ship's in the same way.
LEMMA JettisonKeeps ==
  ASSUME IInv, NEW m \in Miners, Jettison(m)
  PROVE  IInv'
  <1> USE DEF IInv
  <1> DEFINE new == Kept(server[m])
  <1>1. /\ server' = [server EXCEPT ![m] = new] /\ pc' = [pc EXCEPT ![m] = "ready"]
        /\ local' = [local EXCEPT ![m] = new]
        /\ pc[m] = "mined" /\ m \in Ships
        /\ UNCHANGED <<stored, waiting, lock, plan, channel, updater, sales, site, faults>>
    BY WhoIsWho DEF Jettison
  <1>2. new \in CargosOf(m)
    <2>1. server[m] \in CargosOf(m) BY <1>1 DEF Totalled
    <2> QED BY <2>1, KeptParts
  <1>3. new \in Cargos BY <1>2, Parts
  <1> HIDE DEF new
  <1>m. lock # m BY <1>1 DEF Phased
  <1>4. Typed' BY <1>1, <1>3 DEF Typed, MinerStates, HaulerStates
  <1>5. Totalled' BY <1>1, <1>2, Unfold DEF Totalled
  <1>6. Phased' BY <1>1, <1>m, Unfold, WhoIsWho DEF Phased, MinerStates, HaulerStates
  <1>7. Lagging' BY <1>1, Unfold, WhoIsWho DEF Lagging, Answered, Settled
  <1>8. Faultless'
    <2> SUFFICES ASSUME faults' = {} PROVE (Fresh /\ Known /\ OneTaskPerGood /\ Backed)'
      BY DEF Faultless
    <2>1. Fresh /\ Known /\ OneTaskPerGood /\ Backed BY <1>1 DEF Faultless
    <2>2. Fresh' BY <1>1, <2>1, Unfold, WhoIsWho DEF Fresh, Settled
    <2>3. Known' BY <1>1, <2>1, Unfold, WhoIsWho DEF Known
    <2>5. OneTaskPerGood' /\ Backed'
      <3>1. \A s \in Ships : s # m => /\ server'[s] = server[s] /\ local'[s] = local[s]
                                      /\ pc'[s] = pc[s]
        BY <1>1, Unfold
      <3>2. lock # Nobody => lock \in Ships BY WhoIsWho DEF Typed
      <3> QED BY <1>1, <1>m, <2>1, <3>1, <3>2, WhoIsWho, LedgerStays
    <2> QED BY <2>2, <2>3, <2>5
  <1> QED BY <1>4, <1>5, <1>6, <1>7, <1>8

\* AttemptCargoTransfer takes the lock: nothing is planned yet, and the copies of
\* the waiting haulers are what the server has.
LEMMA BeginTransferKeeps ==
  ASSUME IInv, NEW m \in Miners, BeginTransfer(m)
  PROVE  IInv'
  <1> USE DEF IInv
  <1>1. /\ pc[m] = "ready" /\ m \in Ships /\ lock = Nobody /\ lock' = m
        /\ pc' = [pc EXCEPT ![m] = "planning"]
        /\ UNCHANGED <<server, local, stored, waiting, channel, updater, sales, site, faults>>
    BY WhoIsWho DEF BeginTransfer
  <1>2. /\ plan' \in Plans
        /\ plan'.left \subseteq Goods /\ plan'.clone = waiting /\ plan'.tasks = <<>>
        /\ ~plan'.reply /\ ~plan'.done /\ DOMAIN plan'.tasks = {}
    <2>1. plan' = [NoPlan EXCEPT !.left = InCargo(local[m]), !.clone = waiting]
      BY DEF BeginTransfer
    <2>2. InCargo(local[m]) \subseteq Goods BY DEF InCargo
    <2>3. waiting \in [Haulers -> Cargos \cup {NotWaiting}] BY DEF Typed
    <2> QED BY <2>1, <2>2, <2>3, EmptyPlan DEF Plans
  <1>4. Typed' BY <1>1, <1>2 DEF Typed, MinerStates, HaulerStates
  <1>5. Totalled' BY <1>1, <1>2, Unfold DEF Totalled
  <1>6. Phased' BY <1>1, <1>2, Unfold, WhoIsWho DEF Phased, MinerStates, HaulerStates
  <1>7. Lagging' BY <1>1, Unfold, WhoIsWho DEF Lagging, Answered, Settled
  <1>8. Faultless'
    <2> SUFFICES ASSUME faults' = {} PROVE (Fresh /\ Known /\ OneTaskPerGood /\ Backed)'
      BY DEF Faultless
    <2>1. Fresh /\ Known /\ OneTaskPerGood /\ Backed BY <1>1 DEF Faultless
    <2>2. Fresh' BY <1>1, <2>1, Unfold, WhoIsWho DEF Fresh, Settled
    <2>r. ~plan.reply BY <1>1 DEF Phased
    <2>3. Known' BY <1>1, <2>1, <2>r DEF Known
    <2>4. OneTaskPerGood' BY <1>2 DEF OneTaskPerGood
    <2>5. Pending' = {} BY <1>2 DEF Pending
    <2>6. \A h \in Haulers : Sum(Load(Pending, h)', Goods) = 0
      <3> TAKE h \in Haulers
      <3>1. Load(Pending, h)' = [g \in Goods |-> 0] BY <2>5 DEF Load
      <3> DEFINE none == [g \in Goods |-> 0]
      <3>2. none \in [Goods -> Int] /\ \A g \in Goods : none[g] = 0 OBVIOUS
      <3> HIDE DEF none
      <3>3. Sum(none, Goods) = 0 BY <3>2, SumOfZeros
      <3> QED BY <3>1, <3>3 DEF none
    <2>7. \A h \in Haulers : waiting[h] # NotWaiting =>
            /\ waiting[h] = server[h] /\ server[h].units \in Nat
            /\ server[h].units <= HaulerCapacity
      BY <2>1, <2>r, WhoIsWho, Parts DEF Known, Totalled
    <2>8. \A h \in Haulers : waiting'[h] # NotWaiting =>
            server'[h].units + Sum(Load(Pending, h)', Goods) <= HaulerCapacity
      BY <1>1, <2>6, <2>7
    <2>9. \A h \in Haulers : plan'.clone[h] # NotWaiting =>
              server'[h].units + Sum(Load(Pending, h)', Goods) <= plan'.clone[h].units
      <3> TAKE h \in Haulers
      <3> HAVE plan'.clone[h] # NotWaiting
      <3>1. plan'.clone[h] = waiting[h] /\ waiting[h] # NotWaiting BY <1>2
      <3>2. server'[h].units + Sum(Load(Pending, h)', Goods) = server[h].units BY <1>1, <2>6, <2>7, <3>1
      <3> QED BY <1>1, <2>7, <3>1, <3>2
    <2>10. Backed'
      <3>1. local'[lock'] = server'[lock'] BY <1>1, <2>1 DEF Fresh
      <3> QED BY <2>5, <2>8, <2>9, <3>1 DEF Backed
    <2> QED BY <2>2, <2>3, <2>4, <2>10
  <1> QED BY <1>4, <1>5, <1>6, <1>7, <1>8
\* A cargo of the waiting list's copy that is charged with a stack.
LEMMA Charged ==
  ASSUME NEW clone, clone \in [Haulers -> Cargos \cup {NotWaiting}],
         NEW h \in Haulers, clone[h] \in CargosOf(h), NEW good \in Goods, NEW units \in Nat,
         Fits(clone[h], HaulerCapacity, units)
  PROVE  LET new == WithItemAdded(clone[h], HaulerCapacity, good, units)
         IN  new \in CargosOf(h) /\ new \in Cargos /\ new.units = clone[h].units + units
  BY WhoIsWho, AddedParts, Parts

\* One more task raises the load of its hauler by the stack and no other's.
LEMMA OneMoreTask ==
  ASSUME NEW tasks, tasks \subseteq Tasks, NEW task \in Tasks, NEW h \in Haulers,
         lock \in Ships, local[lock].inv \in [Goods -> Nat],
         task.units = local[lock].inv[task.good],
         \A t \in tasks : t.good # task.good
  PROVE  /\ Sum(Load(tasks, h), Goods) \in Nat
         /\ task.to = h =>
              Sum(Load(tasks \cup {task}, h), Goods) = Sum(Load(tasks, h), Goods) + task.units
         /\ task.to # h => Load(tasks \cup {task}, h) = Load(tasks, h)
  <1> DEFINE f == Load(tasks, h)
             k == Load(tasks \cup {task}, h)
  <1>0. IsFiniteSet(Goods) /\ task.good \in Goods /\ task.units \in Nat BY ShipAssumption DEF Tasks
  <1>1. f \in [Goods -> Int] /\ k \in [Goods -> Int] /\ \A g \in Goods : f[g] >= 0 BY DEF Load
  <1>2. \A g \in Goods \ {task.good} : k[g] = f[g]
    <2> TAKE g \in Goods \ {task.good}
    <2>1. (\E t \in tasks : t.to = h /\ t.good = g)
            <=> (\E t \in tasks \cup {task} : t.to = h /\ t.good = g) OBVIOUS
    <2> QED BY <2>1 DEF Load
  <1>3. f[task.good] = 0 BY <1>0 DEF Load
  <1>4. task.to = h => k[task.good] = task.units BY <1>0 DEF Load
  <1>5. task.to # h => k[task.good] = 0 BY <1>0 DEF Load
  <1>6. Sum(f, Goods) \in Int /\ Sum(f, Goods) >= 0 BY <1>0, <1>1, SumType, SumNonNegative
  <1>7. task.to # h => k = f
    <2> HAVE task.to # h
    <2>1. \A g \in Goods : k[g] = f[g] BY <1>2, <1>3, <1>5
    <2>2. k = [g \in Goods |-> k[g]] /\ f = [g \in Goods |-> f[g]] BY DEF Load
    <2> HIDE DEF k, f
    <2> QED BY <2>1, <2>2
  <1>8. task.to = h => Sum(k, Goods) = Sum(f, Goods) + task.units
    <2> HAVE task.to = h
    <2> HIDE DEF k, f
    <2>1. Sum(k, Goods) = Sum(f, Goods) - f[task.good] + k[task.good]
      BY <1>0, <1>1, <1>2, SumChange
    <2> QED BY <2>1, <1>0, <1>3, <1>4, <1>6
  <1> QED BY <1>6, <1>7, <1>8
\* A stack for which no hauler has space is left where it is.
LEMMA SkippedStackKeeps ==
  ASSUME IInv, NEW m \in Miners, NEW good, pc[m] = "planning",
         plan' = [plan EXCEPT !.left = @ \ {good}],
         UNCHANGED <<server, local, stored, pc, waiting, lock, channel, updater, sales, site, faults>>
  PROVE  IInv'
  <1> USE DEF IInv
  <1>1. /\ plan' \in Plans /\ plan'.left \subseteq plan.left
        /\ plan'.clone = plan.clone /\ plan'.tasks = plan.tasks
        /\ plan'.reply = plan.reply /\ plan'.done = plan.done
    BY DEF Typed, Plans
  <1>2. lock = m /\ lock # Nobody BY WhoIsWho DEF Phased
  <1>3. Typed' BY <1>1 DEF Typed
  <1>4. Totalled' BY <1>1 DEF Totalled
  <1>5. Phased' BY <1>1, <1>2 DEF Phased
  <1>6. Lagging' BY WhoIsWho DEF Lagging, Answered, Settled
  <1>7. Pending' = Pending /\ \A h : Load(Pending, h)' = Load(Pending, h)
    BY <1>1 DEF Pending, Load
  <1>8. Faultless'
    <2>1. Fresh' <=> Fresh BY WhoIsWho DEF Fresh, Settled
    <2>2. Known' <=> Known BY <1>1 DEF Known
    <2>3. OneTaskPerGood => OneTaskPerGood' BY <1>1 DEF OneTaskPerGood
    <2>4. Backed' <=> Backed BY <1>1, <1>7 DEF Backed
    <2> QED BY <2>1, <2>2, <2>3, <2>4 DEF Faultless
  <1> QED BY <1>3, <1>4, <1>5, <1>6, <1>8

\* find_transfer_tasks gives a stack to a hauler of the copy with space for it.
LEMMA PlannedStackKeeps ==
  ASSUME IInv, NEW m \in Miners, NEW good \in plan.left, NEW h \in Haulers, pc[m] = "planning",
         plan.clone[h] # NotWaiting, Fits(plan.clone[h], HaulerCapacity, local[m].inv[good]),
         plan' = [plan EXCEPT
                !.left = @ \ {good},
                !.clone[h] = WithItemAdded(@, HaulerCapacity, good, local[m].inv[good]),
                !.tasks = Append(@, [to |-> h, good |-> good, units |-> local[m].inv[good]])],
         UNCHANGED <<server, local, stored, pc, waiting, lock, channel, updater, sales, site, faults>>
  PROVE  IInv'
  <1> USE DEF IInv
  <1> DEFINE units == local[m].inv[good]
             new == WithItemAdded(plan.clone[h], HaulerCapacity, good, units)
             task == [to |-> h, good |-> good, units |-> units]
  <1>1. lock = m /\ lock # Nobody /\ ~plan.reply /\ m \in Ships /\ good \in Goods
    BY WhoIsWho, Unfold DEF Phased
  <1>2. local[m] \in CargosOf(m) /\ local[m].inv \in [Goods -> Nat] /\ units \in Nat
    BY <1>1, Parts DEF Totalled
  <1>3. task \in Tasks BY <1>1, <1>2 DEF Tasks
  <1>4. new \in CargosOf(h) /\ new \in Cargos /\ new.units = plan.clone[h].units + units
    <2>1. plan.clone[h] \in CargosOf(h) BY DEF Totalled
    <2>2. plan.clone \in [Haulers -> Cargos \cup {NotWaiting}] BY DEF Typed, Plans
    <2> QED BY <1>1, <1>2, <2>1, <2>2, Charged
  <1>5. plan.tasks \in Seq(Tasks) /\ DOMAIN plan.tasks = 1..Len(plan.tasks) /\ Len(plan.tasks) \in Nat
    BY Unfold
  <1> DEFINE n == Len(plan.tasks)
             longer == Append(plan.tasks, task)
  <1>6. /\ longer \in Seq(Tasks) /\ DOMAIN longer = 1..(n + 1)
        /\ \A i \in 1..n : longer[i] = plan.tasks[i]
        /\ longer[n + 1] = task
    BY <1>3, <1>5, AppendProperties, LenProperties
  <1>7. /\ plan'.left = plan.left \ {good} /\ plan'.clone = [plan.clone EXCEPT ![h] = new]
        /\ plan'.tasks = longer /\ plan'.reply = plan.reply /\ plan'.done = plan.done
    BY DEF Typed, Plans
  <1>8. plan' \in Plans
    <2>1. plan' = [left |-> plan'.left, clone |-> plan'.clone, tasks |-> plan'.tasks,
                   reply |-> plan'.reply, done |-> plan'.done]
      BY DEF Typed, Plans
    <2>2. plan'.clone \in [Haulers -> Cargos \cup {NotWaiting}] BY <1>4, <1>7 DEF Typed, Plans
    <2> HIDE DEF longer
    <2> QED BY <1>6, <1>7, <2>1, <2>2, Unfold DEF Plans
  <1>t. task.to = h /\ task.good = good /\ task.units = units OBVIOUS
  <1> HIDE DEF units, new, task, longer
  <1>9. Pending = {plan.tasks[i] : i \in 1..n} /\ Pending' = Pending \cup {task}
    <2>1. Pending = {plan.tasks[i] : i \in 1..n} BY <1>1, <1>5 DEF Pending
    <2>2. Pending' = {longer[i] : i \in 1..(n + 1)} BY <1>1, <1>6, <1>7 DEF Pending
    <2>3. 1..(n + 1) = 1..n \cup {n + 1} BY <1>5
    <2> QED BY <2>1, <2>2, <2>3, <1>6
  <1>10. Typed' BY <1>8 DEF Typed
  <1>11. Totalled' BY <1>4, <1>7, Unfold DEF Totalled
  <1>12. Phased'
    <2>1. \A i \in DOMAIN plan'.tasks : waiting'[plan'.tasks[i].to] # NotWaiting
      BY <1>5, <1>6, <1>7, <1>t DEF Phased
    <2>2. \A k \in Haulers : plan'.clone[k] # NotWaiting => waiting'[k] # NotWaiting
      BY <1>7, Unfold DEF Phased
    <2> QED BY <1>1, <1>7, <2>1, <2>2 DEF Phased
  <1>13. Lagging' BY WhoIsWho DEF Lagging, Answered, Settled
  <1>14. ASSUME faults' = {} PROVE (Fresh /\ Known /\ OneTaskPerGood /\ Backed)'
    <2>1. Fresh /\ Known /\ OneTaskPerGood /\ Backed BY <1>14 DEF Faultless
    <2>2. Fresh' BY <2>1, WhoIsWho DEF Fresh, Settled
    <2>3. Known' BY <1>1, <1>7, <2>1 DEF Known
    <2>4. OneTaskPerGood'
      <3>1. \A i \in 1..n : /\ plan.tasks[i].good \notin plan.left
                            /\ plan.tasks[i].units = local[m].inv[plan.tasks[i].good]
        BY <1>1, <1>5, <2>1 DEF OneTaskPerGood
      <3>2. \A i, j \in 1..n : plan.tasks[i].good = plan.tasks[j].good => i = j
        BY <1>1, <1>5, <2>1 DEF OneTaskPerGood
      <3>3. task.units = local[m].inv[task.good] BY <1>t DEF units
      <3>4. DOMAIN longer = 1..n \cup {n + 1} BY <1>5, <1>6
      <3>5. \A i, j \in DOMAIN longer : longer[i].good = longer[j].good => i = j
        BY <1>6, <1>t, <3>1, <3>2, <3>4
      <3>6. \A i \in DOMAIN longer : /\ longer[i].good \notin plan.left \ {good}
                                     /\ longer[i].units = local[m].inv[longer[i].good]
        BY <1>6, <1>t, <3>1, <3>3, <3>4
      <3> QED BY <1>1, <1>7, <3>5, <3>6 DEF OneTaskPerGood
    <2>5. Backed'
      <3>1. \A t \in Pending : t.good # task.good
        BY <1>1, <1>5, <1>9, <1>t, <2>1 DEF OneTaskPerGood
      <3>2. Pending \subseteq Tasks BY Unfold
      <3>3. \A k : Load(Pending, k)' = Load(Pending \cup {task}, k) BY <1>9 DEF Load
      <3>4. \A k \in Haulers :
              /\ Sum(Load(Pending, k), Goods) \in Nat
              /\ h = k => Sum(Load(Pending, k)', Goods) = Sum(Load(Pending, k), Goods) + units
              /\ h # k => Sum(Load(Pending, k)', Goods) = Sum(Load(Pending, k), Goods)
        <4> TAKE k \in Haulers
        <4>1. task.units = local[lock].inv[task.good] BY <1>1, <1>t DEF units
        <4>2. lock \in Ships /\ local[lock].inv \in [Goods -> Nat] BY <1>1, <1>2
        <4> QED BY <1>3, <1>t, <3>1, <3>2, <3>3, <4>1, <4>2, OneMoreTask
      <3>5. server[m] = local[m] BY <1>1, <2>1 DEF Fresh
      <3>6. \A t \in Pending' : server'[lock'].inv[t.good] = local'[lock'].inv[t.good]
        BY <1>1, <3>5
      <3>7. \A k \in Haulers : server[k].units \in Nat /\ server'[k] = server[k]
        BY WhoIsWho, Parts DEF Totalled
      <3>8. \A k \in Haulers : plan'.clone[k] # NotWaiting =>
              server'[k].units + Sum(Load(Pending, k)', Goods) <= plan'.clone[k].units
        <4> TAKE k \in Haulers
        <4> HAVE plan'.clone[k] # NotWaiting
        <4>0. plan.clone[h].units \in Nat
          <5>1. plan.clone[h] \in CargosOf(h) BY DEF Totalled
          <5> QED BY <5>1, Parts
        <4>1. CASE k = h
          <5>1. server[h].units + Sum(Load(Pending, h), Goods) <= plan.clone[h].units
            BY <1>1, <2>1 DEF Backed
          <5>2. plan'.clone[h].units = plan.clone[h].units + units BY <1>4, <1>7, Unfold
          <5>3. server'[h].units = server[h].units /\ server[h].units \in Nat BY <3>7
          <5>4. Sum(Load(Pending, h)', Goods) = Sum(Load(Pending, h), Goods) + units
                /\ Sum(Load(Pending, h), Goods) \in Nat
            BY <3>4
          <5> QED BY <1>2, <4>0, <4>1, <5>1, <5>2, <5>3, <5>4 DEF units
        <4>2. CASE k # h
          <5>1. plan'.clone[k] = plan.clone[k] BY <1>7, <4>2, Unfold
          <5>2. server[k].units + Sum(Load(Pending, k), Goods) <= plan.clone[k].units
            BY <1>1, <2>1, <5>1 DEF Backed
          <5> QED BY <3>4, <3>7, <4>2, <5>1, <5>2
        <4> QED BY <4>1, <4>2
      <3>9. \A k \in Haulers : waiting'[k] # NotWaiting =>
              server'[k].units + Sum(Load(Pending, k)', Goods) <= HaulerCapacity
        <4> TAKE k \in Haulers
        <4> HAVE waiting'[k] # NotWaiting
        <4>0. HaulerCapacity \in Nat BY CapacityAssumption
        <4>1. CASE k = h
          <5>1. plan'.clone[h] \in CargosOf(h) /\ plan'.clone[h] # NotWaiting
            BY <1>4, <1>7, Unfold, Parts
          <5>2. plan'.clone[h].units \in Nat /\ plan'.clone[h].units <= HaulerCapacity
            BY <5>1, Parts, WhoIsWho
          <5>3. server'[h].units + Sum(Load(Pending, h)', Goods) <= plan'.clone[h].units
            BY <3>8, <5>1
          <5>4. /\ server'[h].units \in Nat /\ units \in Nat
                /\ Sum(Load(Pending, h)', Goods) \in Nat
            BY <3>4, <3>7, <1>2 DEF units
          <5> QED BY <4>0, <4>1, <5>2, <5>3, <5>4
        <4>2. CASE k # h
          <5>1. server[k].units + Sum(Load(Pending, k), Goods) <= HaulerCapacity
            BY <1>1, <2>1 DEF Backed
          <5> QED BY <3>4, <3>7, <4>2, <5>1
        <4> QED BY <4>1, <4>2
      <3>10. local'[lock'] = server'[lock'] BY <1>1, <3>5
      <3> QED BY <3>6, <3>8, <3>9, <3>10 DEF Backed
    <2> QED BY <2>2, <2>3, <2>4, <2>5
  <1>15. Faultless' BY <1>14 DEF Faultless
  <1> QED BY <1>10, <1>11, <1>12, <1>13, <1>15
\* The plan is made: the miner goes on to execute it.
LEMMA PlannedKeeps ==
  ASSUME IInv, NEW m \in Miners, Planned(m)
  PROVE  IInv'
  <1> USE DEF IInv
  <1>1. /\ pc[m] = "planning" /\ m \in Ships /\ lock = m /\ lock # Nobody
        /\ pc' = [pc EXCEPT ![m] = "executing"]
        /\ UNCHANGED <<server, local, stored, waiting, lock, plan, channel, updater, sales, site, faults>>
    BY WhoIsWho DEF Planned, Phased
  <1>2. Typed' BY <1>1 DEF Typed, MinerStates, HaulerStates
  <1>3. Totalled' BY <1>1 DEF Totalled
  <1>4. Phased' BY <1>1, Unfold, WhoIsWho DEF Phased, MinerStates, HaulerStates
  <1>5. Lagging' BY <1>1, Unfold, WhoIsWho DEF Lagging, Answered, Settled
  <1>6. Pending' = Pending /\ \A h : Load(Pending, h)' = Load(Pending, h)
    BY <1>1 DEF Pending, Load
  <1>7. Faultless'
    <2> SUFFICES ASSUME faults' = {} PROVE (Fresh /\ Known /\ OneTaskPerGood /\ Backed)'
      BY DEF Faultless
    <2>1. Fresh /\ Known /\ OneTaskPerGood /\ Backed BY <1>1 DEF Faultless
    <2>2. Fresh' BY <1>1, <2>1, Unfold, WhoIsWho DEF Fresh, Settled
    <2>3. Known' BY <1>1, <2>1 DEF Known
    <2>4. OneTaskPerGood' BY <1>1, <2>1 DEF OneTaskPerGood
    <2>5. pc'[lock'] # "planning" /\ local'[lock'] = server'[lock'] BY <1>1, <2>1, Unfold DEF Fresh
    <2>6. Backed' BY <1>1, <1>6, <2>1, <2>5 DEF Backed
    <2> QED BY <2>2, <2>3, <2>4, <2>6
  <1> QED BY <1>2, <1>3, <1>4, <1>5, <1>7

\* The first of the tasks.
LEMMA FirstTask ==
  ASSUME IInv, plan.tasks # <<>>
  PROVE  /\ 1 \in DOMAIN plan.tasks /\ Head(plan.tasks) = plan.tasks[1]
         /\ Head(plan.tasks) \in Tasks /\ Head(plan.tasks).to \in Haulers
         /\ Head(plan.tasks).good \in Goods /\ Head(plan.tasks).units \in Nat
         /\ waiting[Head(plan.tasks).to] # NotWaiting
         /\ ~plan.reply => Head(plan.tasks) \in Pending
         /\ Tail(plan.tasks) \in Seq(Tasks)
         /\ DOMAIN Tail(plan.tasks) = 1..(Len(plan.tasks) - 1)
         /\ \A i \in 1..(Len(plan.tasks) - 1) : Tail(plan.tasks)[i] = plan.tasks[i + 1]
  <1>1. plan.tasks \in Seq(Tasks) /\ DOMAIN plan.tasks = 1..Len(plan.tasks) /\ Len(plan.tasks) \in Nat
    BY Unfold
  <1>2. Len(plan.tasks) > 0 BY <1>1, EmptySeq
  <1>3. /\ Head(plan.tasks) = plan.tasks[1] /\ Tail(plan.tasks) \in Seq(Tasks)
        /\ Len(Tail(plan.tasks)) = Len(plan.tasks) - 1
        /\ \A i \in 1..Len(Tail(plan.tasks)) : Tail(plan.tasks)[i] = plan.tasks[i + 1]
    BY <1>1, HeadTailProperties
  <1>4. DOMAIN Tail(plan.tasks) = 1..(Len(plan.tasks) - 1) BY <1>3, LenProperties
  <1>5. 1 \in DOMAIN plan.tasks BY <1>1, <1>2
  <1>6. plan.tasks[1] \in Tasks BY <1>5, Unfold
  <1>7. waiting[plan.tasks[1].to] # NotWaiting BY <1>5 DEF IInv, Phased
  <1>8. ~plan.reply => plan.tasks[1] \in Pending BY <1>5 DEF Pending
  <1> QED BY <1>3, <1>4, <1>5, <1>6, <1>7, <1>8, Unfold

\* The server moves the units of the first task: what is pending for the hauler
\* shrinks by what it gets.
LEMMA ServerTransfersKeeps ==
  ASSUME IInv, NEW m \in Miners, ServerTransfers(m)
  PROVE  IInv'
  <1> USE DEF IInv
  <1> DEFINE task == Head(plan.tasks)
             less == WithUnitsRemoved(server[m], task.good, task.units)
             more == WithItemAdded(server[task.to], HaulerCapacity, task.good, task.units)
             n == Len(plan.tasks)
             rest == {plan.tasks[i] : i \in 2..n}
  <1>1. /\ pc[m] = "executing" /\ plan.tasks # <<>> /\ ~plan.reply
        /\ HasInCargo(server[m], task.good, task.units)
        /\ Fits(server[task.to], HaulerCapacity, task.units)
        /\ server' = [server EXCEPT ![m] = less, ![task.to] = more]
        /\ plan' = [plan EXCEPT !.reply = TRUE]
        /\ UNCHANGED <<local, stored, pc, waiting, lock, channel, updater, sales, site, faults>>
    BY DEF ServerTransfers, Accepts
  <1>2. /\ 1 \in DOMAIN plan.tasks /\ task = plan.tasks[1] /\ task \in Tasks
        /\ task.to \in Haulers /\ task.good \in Goods /\ task.units \in Nat
        /\ waiting[task.to] # NotWaiting /\ task \in Pending
    BY <1>1, FirstTask
  <1>3. /\ plan' \in Plans /\ plan'.left = plan.left /\ plan'.clone = plan.clone
        /\ plan'.tasks = plan.tasks /\ plan'.reply = TRUE /\ plan'.done = plan.done
    BY <1>1 DEF Typed, Plans
  <1>4. lock = m /\ lock # Nobody /\ m \in Ships /\ task.to \in Ships /\ task.to # m
    BY <1>1, <1>2, WhoIsWho DEF Phased
  <1>5. /\ less \in CargosOf(m) /\ less \in Cargos
        /\ \A g \in Goods \ {task.good} : less.inv[g] = server[m].inv[g]
    <2>1. server[m] \in CargosOf(m) BY <1>4 DEF Totalled
    <2> HIDE DEF task
    <2>g. task.good \in Goods /\ task.units \in Nat BY <1>2
    <2>2. less \in CargosOf(m) BY <2>g, <2>1, RemovedParts
    <2>3. \A g \in Goods \ {task.good} : less.inv[g] = server[m].inv[g]
      BY <2>g, <2>1, RemovedParts
    <2> HIDE DEF less
    <2> QED BY <2>2, <2>3, Parts
  <1>6. /\ more \in CargosOf(task.to) /\ more \in Cargos
        /\ more.units = server[task.to].units + task.units
        /\ server[task.to].units \in Nat
    <2>1. server[task.to] \in CargosOf(task.to) BY <1>4 DEF Totalled
    <2> HIDE DEF task
    <2>2. Capacity(task.to) = HaulerCapacity BY <1>2, WhoIsWho
    <2>3. more \in CargosOf(task.to) /\ more.units = server[task.to].units + task.units
      BY <1>1, <1>2, <2>1, <2>2, AddedParts
    <2> HIDE DEF more
    <2> QED BY <2>1, <2>3, Parts
  <1> HIDE DEF task, less, more
  <1>7. /\ server'[m] = less /\ server'[task.to] = more /\ server' \in [Ships -> Cargos]
        /\ \A s \in Ships : s # m /\ s # task.to => server'[s] = server[s]
    BY <1>1, <1>4, <1>5, <1>6 DEF Typed
  <1>8. Typed' BY <1>1, <1>3, <1>7 DEF Typed
  <1>9. Totalled' BY <1>1, <1>3, <1>5, <1>6, <1>7 DEF Totalled
  <1>10. Phased' BY <1>1, <1>3, <1>4 DEF Phased
  <1>11. Lagging'
    <2>1. \A h \in Haulers : /\ server'[h].units >= server[h].units
                             /\ server[h].units \in Nat /\ server'[h].units \in Nat
                             /\ local[h].units \in Nat
                             /\ waiting[h] # NotWaiting => waiting[h].units \in Nat
      <3> TAKE h \in Haulers
      <3>1. h \in Ships /\ h # m BY WhoIsWho
      <3>2. server[h].units \in Nat /\ server'[h].units \in Nat /\ local[h].units \in Nat
        BY <1>9, <3>1, Parts DEF Totalled
      <3>3. server'[h].units >= server[h].units BY <1>2, <1>6, <1>7, <3>1, <3>2
      <3>4. waiting[h] # NotWaiting => waiting[h].units \in Nat BY Parts DEF Totalled
      <3> QED BY <3>2, <3>3, <3>4
    <2>2. ASSUME Answered', NEW h \in Haulers
          PROVE  /\ waiting'[h] # NotWaiting => waiting'[h].units <= server'[h].units
                 /\ Settled(h)' => local'[h].units <= server'[h].units
      <3>1. /\ waiting[h] # NotWaiting => waiting[h].units <= server[h].units
            /\ Settled(h) => local[h].units <= server[h].units
        BY <1>1, <2>2 DEF Lagging, Answered
      <3>2. waiting[h] # NotWaiting => waiting[h].units <= server'[h].units BY <2>1, <3>1
      <3>3. Settled(h) => local[h].units <= server'[h].units BY <2>1, <3>1
      <3> QED BY <1>1, <3>2, <3>3 DEF Settled
    <2> QED BY <2>2 DEF Lagging, Answered
  <1>12. DOMAIN plan.tasks = 1..n /\ n \in Nat /\ n >= 1
    <2>1. DOMAIN plan.tasks = 1..n /\ n \in Nat BY Unfold
    <2> QED BY <1>2, <2>1
  <1>13. Pending' = rest /\ Pending = rest \cup {task}
    <2>1. Pending' = {plan.tasks[i] : i \in {j \in 1..n : j > 1}} BY <1>3, <1>12 DEF Pending
    <2>2. {j \in 1..n : j > 1} = 2..n BY <1>12
    <2>3. Pending = {plan.tasks[i] : i \in 1..n} BY <1>1, <1>12 DEF Pending
    <2>4. 1..n = 2..n \cup {1} BY <1>12
    <2> QED BY <1>2, <2>1, <2>2, <2>3, <2>4
  <1>14. ASSUME faults' = {} PROVE (Fresh /\ Known /\ OneTaskPerGood /\ Backed)'
    <2>1. Fresh /\ Known /\ OneTaskPerGood /\ Backed BY <1>1, <1>14 DEF Faultless
    <2>2. Fresh'
      <3>1. pc[m] \notin {"ready", "planning"} /\ ~Settled(task.to)
        BY <1>1, <1>2 DEF Phased, Settled
      <3>2. \A k \in Miners : pc'[k] \in {"ready", "planning"} => local'[k] = server'[k]
        BY <1>1, <1>2, <1>7, <2>1, <3>1, WhoIsWho DEF Fresh
      <3>3. \A k \in Haulers : Settled(k)' => k # task.to /\ k # m /\ Settled(k)
        BY <1>1, <3>1, WhoIsWho DEF Settled
      <3>4. \A k \in Haulers : Settled(k)' => local'[k] = server'[k]
        BY <1>1, <1>7, <2>1, <3>3, WhoIsWho DEF Fresh
      <3> QED BY <3>2, <3>4 DEF Fresh
    <2>3. Known'
      <3>1. plan'.reply /\ Head(plan'.tasks).to = task.to BY <1>3 DEF task
      <3>2. \A h \in Haulers : h # task.to => server'[h] = server[h] BY <1>7, WhoIsWho
      <3> QED BY <1>1, <3>1, <3>2, <2>1 DEF Known
    <2>4. OneTaskPerGood' BY <1>1, <1>3, <2>1 DEF OneTaskPerGood
    <2>5. \A t \in rest : t.good # task.good /\ t \in Tasks
      <3>1. \A i \in 2..n : plan.tasks[i].good # plan.tasks[1].good
        BY <1>4, <1>12, <2>1 DEF OneTaskPerGood
      <3>2. rest \subseteq Tasks BY <1>13, Unfold
      <3> QED BY <1>2, <3>1, <3>2
    <2>6. task.units = local[lock].inv[task.good] BY <1>2, <1>4, <2>1 DEF OneTaskPerGood
    <2>7. \A h : Load(Pending, h)' = Load(rest, h) BY <1>1, <1>13 DEF Load
    <2>8. \A h \in Haulers :
            /\ Sum(Load(rest, h), Goods) \in Nat
            /\ task.to = h => Sum(Load(Pending, h), Goods) = Sum(Load(rest, h), Goods) + task.units
            /\ task.to # h => Sum(Load(Pending, h), Goods) = Sum(Load(rest, h), Goods)
      <3> TAKE h \in Haulers
      <3>1. lock \in Ships /\ local[lock].inv \in [Goods -> Nat]
        BY <1>4, Parts DEF Totalled
      <3>2. rest \subseteq Tasks BY <2>5
      <3> HIDE DEF rest
      <3> QED BY <1>2, <1>13, <2>5, <2>6, <3>1, <3>2, OneMoreTask
    <2>9. \A t \in Pending' : server'[lock'].inv[t.good] = local'[lock'].inv[t.good]
      <3> SUFFICES ASSUME NEW t \in rest
                   PROVE  server'[m].inv[t.good] = local[m].inv[t.good]
        BY <1>1, <1>4, <1>13
      <3>1. t \in Pending /\ t.good \in Goods \ {task.good} BY <1>13, <2>5, Unfold
      <3>2. server[m].inv[t.good] = local[m].inv[t.good] BY <1>4, <2>1, <3>1 DEF Backed
      <3> QED BY <1>5, <1>7, <3>1, <3>2
    <2>10. \A h \in Haulers : waiting'[h] # NotWaiting =>
             server'[h].units + Sum(Load(Pending, h)', Goods) <= HaulerCapacity
      <3> TAKE h \in Haulers
      <3> HAVE waiting'[h] # NotWaiting
      <3>1. server[h].units + Sum(Load(Pending, h), Goods) <= HaulerCapacity
        BY <1>1, <1>4, <2>1 DEF Backed
      <3>2. Sum(Load(Pending, h)', Goods) = Sum(Load(rest, h), Goods) BY <2>7
      <3>3. CASE h = task.to
        <4>1. server'[h].units = server[h].units + task.units /\ server[h].units \in Nat
          BY <1>6, <1>7, <3>3
        <4>2. Sum(Load(Pending, h), Goods) = Sum(Load(rest, h), Goods) + task.units
              /\ Sum(Load(rest, h), Goods) \in Nat
          BY <2>8, <3>3
        <4> QED BY <1>2, <3>1, <3>2, <4>1, <4>2
      <3>4. CASE h # task.to
        <4>1. server'[h] = server[h] BY <1>7, <3>4, WhoIsWho
        <4> QED BY <2>8, <3>1, <3>2, <3>4, <4>1
      <3> QED BY <3>3, <3>4
    <2>11. Backed'
      <3>1. pc'[lock'] # "planning" /\ plan'.reply BY <1>1, <1>3, <1>4
      <3> QED BY <2>9, <2>10, <3>1 DEF Backed
    <2> QED BY <2>2, <2>3, <2>4, <2>11
  <1>15. Faultless' BY <1>14 DEF Faultless
  <1> QED BY <1>8, <1>9, <1>10, <1>11, <1>15
\* The end of a call, well or with an error: the mutex is free again.
LEMMA CallEndKeeps ==
  ASSUME IInv, NEW m \in Miners, pc[m] = "executing",
         lock' = Nobody, plan' = NoPlan, pc' = [pc EXCEPT ![m] = "ready"],
         UNCHANGED <<server, channel, updater, sales, site>>,
         local' \in [Ships -> Cargos], stored' \in [Ships -> Cargos],
         local'[m] \in CargosOf(m), stored'[m] \in CargosOf(m),
         \A s \in Ships \ {m} : local'[s] = local[s] /\ stored'[s] = stored[s],
         \/ waiting' = waiting
         \/ \E h \in Haulers : waiting[h] # NotWaiting /\ waiting' = [waiting EXCEPT ![h] = server[h]],
         faults \subseteq faults',
         faults' = {} => local'[m] = server[m] /\ ~plan.reply
  PROVE  IInv'
  <1> USE DEF IInv
  <1>1. m \in Ships /\ lock = m /\ lock # Nobody BY WhoIsWho DEF Phased
  <1>w. /\ waiting' \in [Haulers -> Cargos \cup {NotWaiting}]
        /\ \A h \in Haulers : \/ waiting'[h] = waiting[h]
                              \/ waiting[h] # NotWaiting /\ waiting'[h] = server[h]
        /\ \A h \in Haulers : waiting'[h] = NotWaiting <=> waiting[h] = NotWaiting
        /\ \A h \in Haulers : waiting'[h] \in CargosOf(h) \cup {NotWaiting}
    <2>1. waiting \in [Haulers -> Cargos \cup {NotWaiting}] BY DEF Typed
    <2>2. \A h \in Haulers : server[h] \in Cargos /\ server[h] # NotWaiting /\ server[h] \in CargosOf(h)
      BY WhoIsWho, Parts DEF Totalled
    <2>3. CASE waiting' = waiting BY <2>1, <2>3 DEF Totalled
    <2>4. CASE \E h \in Haulers : waiting[h] # NotWaiting /\ waiting' = [waiting EXCEPT ![h] = server[h]]
      BY <2>1, <2>2, <2>4 DEF Totalled
    <2> QED BY <2>3, <2>4
  <1>2. Typed' BY <1>1, <1>w, EmptyPlan DEF Typed, MinerStates, HaulerStates
  <1>3. Totalled' BY <1>1, <1>w, EmptyPlan DEF Totalled
  <1>4. Phased' BY <1>1, <1>w, EmptyPlan, Unfold, WhoIsWho DEF Phased, MinerStates, HaulerStates
  <1>5. Lagging'
    <2> SUFFICES ASSUME Answered', NEW h \in Haulers
                 PROVE  /\ waiting'[h] # NotWaiting => waiting'[h].units <= server'[h].units
                        /\ Settled(h)' => local'[h].units <= server'[h].units
      BY DEF Lagging
    <2>0. Answered BY DEF Answered
    <2>1. waiting[h] # NotWaiting => waiting[h].units <= server[h].units BY <2>0 DEF Lagging, Answered
    <2>s. Settled(h) => local[h].units <= server[h].units BY <2>0 DEF Lagging, Answered
    <2>2. h \in Ships /\ h # m /\ server[h].units \in Nat BY WhoIsWho, Parts DEF Totalled
    <2>3. waiting'[h] # NotWaiting => waiting'[h].units <= server[h].units
      <3>0. waiting[h] # NotWaiting => waiting[h].units \in Nat BY Parts DEF Totalled
      <3>1. CASE waiting'[h] = waiting[h] BY <2>1, <2>2, <3>0, <3>1
      <3>2. CASE waiting'[h] = server[h]
        <4>1. server[h].units <= server[h].units BY <2>2
        <4> QED BY <3>2, <4>1
      <3> QED BY <1>w, <3>1, <3>2
    <2>4. pc'[h] = pc[h] /\ local'[h] = local[h] BY <2>2, Unfold
    <2> QED BY <2>s, <2>3, <2>4 DEF Settled
  <1>6. Faultless'
    <2> SUFFICES ASSUME faults' = {} PROVE (Fresh /\ Known /\ OneTaskPerGood /\ Backed)'
      BY DEF Faultless
    <2>1. Fresh /\ Known /\ ~plan.reply /\ local'[m] = server[m] BY DEF Faultless
    <2>2. Fresh' BY <1>1, <2>1, Unfold, WhoIsWho DEF Fresh, Settled
    <2>3. Known' BY <1>w, <2>1 DEF Known
    <2>4. OneTaskPerGood' /\ Backed' BY DEF OneTaskPerGood, Backed
    <2> QED BY <2>2, <2>3, <2>4
  <1> QED BY <1>2, <1>3, <1>4, <1>5, <1>6

\* A fault is remembered.
LEMMA Remembered ==
  ASSUME NEW kind, Fault(kind)
  PROVE  faults \subseteq faults' /\ faults' # {} /\ kind \in faults'
  BY DEF Fault

\* Without faults the server refuses no transfer of a plan.
LEMMA FirstIsAccepted ==
  ASSUME IInv, faults = {}, NEW m \in Miners, pc[m] = "executing", plan.tasks # <<>>, ~plan.reply
  PROVE  Accepts(m, Head(plan.tasks))
  <1> USE DEF IInv
  <1> DEFINE task == Head(plan.tasks)
             n == Len(plan.tasks)
             rest == {plan.tasks[i] : i \in 2..n}
  <1>1. /\ 1 \in DOMAIN plan.tasks /\ task = plan.tasks[1] /\ task \in Tasks
        /\ task.to \in Haulers /\ task.good \in Goods /\ task.units \in Nat
        /\ waiting[task.to] # NotWaiting /\ task \in Pending
    BY FirstTask
  <1> HIDE DEF task
  <1>2. m \in Ships /\ lock = m /\ lock # Nobody BY WhoIsWho DEF Phased
  <1>3. OneTaskPerGood /\ Backed BY DEF Faultless
  <1>4. task.units = local[m].inv[task.good] BY <1>1, <1>2, <1>3 DEF OneTaskPerGood
  <1>5. server[m].inv[task.good] = local[m].inv[task.good] BY <1>1, <1>2, <1>3 DEF Backed
  <1>6. HasInCargo(server[m], task.good, task.units) BY <1>1, <1>4, <1>5 DEF HasInCargo
  <1>7. server[task.to].units + Sum(Load(Pending, task.to), Goods) <= HaulerCapacity
    BY <1>1, <1>2, <1>3 DEF Backed
  <1>8. Sum(Load(Pending, task.to), Goods) >= task.units
    <2> DEFINE f == Load(Pending, task.to)
    <2>1. local[m].inv \in [Goods -> Nat] BY <1>2, Parts DEF Totalled
    <2>2. IsFiniteSet(Goods) BY ShipAssumption
    <2>3. f \in [Goods -> Int] /\ \A g \in Goods : f[g] >= 0 BY <1>2, <2>1 DEF Load
    <2>4. f[task.good] = task.units BY <1>1, <1>2, <1>4 DEF Load
    <2> HIDE DEF f
    <2>5. Sum(f, Goods) = f[task.good] + Sum(f, Goods \ {task.good}) BY <1>1, <2>2, <2>3, SumSplit
    <2>6. Sum(f, Goods \ {task.good}) \in Int /\ Sum(f, Goods \ {task.good}) >= 0
      BY <2>2, <2>3, SumType, SumNonNegative
    <2>7. Sum(f, Goods) >= task.units BY <1>1, <2>4, <2>5, <2>6
    <2> QED BY <2>7 DEF f
  <1>9. Fits(server[task.to], HaulerCapacity, task.units)
    <2>1. server[task.to].units \in Nat BY <1>1, WhoIsWho, Parts DEF Totalled
    <2>2. Sum(Load(Pending, task.to), Goods) \in Int
      <3>1. local[m].inv \in [Goods -> Nat] BY <1>2, Parts DEF Totalled
      <3>2. Load(Pending, task.to) \in [Goods -> Int] BY <1>2, <3>1 DEF Load
      <3> QED BY <3>2, ShipAssumption, SumType
    <2>3. HaulerCapacity \in Nat BY CapacityAssumption
    <2> QED BY <1>1, <1>7, <1>8, <2>1, <2>2, <2>3 DEF Fits, SpaceLeft
  <1> QED BY <1>6, <1>9 DEF Accepts, task

\* The server refuses a transfer, or its reply is lost: the call ends, and the ship's
\* own copy of its cargo may be stale from here on.
LEMMA ErrorKeeps ==
  ASSUME IInv, NEW m \in Miners, ServerRefuses(m) \/ ReplyLost(m)
  PROVE  IInv'
  <1>1. /\ pc[m] = "executing"
        /\ lock' = Nobody /\ plan' = NoPlan /\ pc' = [pc EXCEPT ![m] = "ready"]
        /\ UNCHANGED <<server, channel, updater, sales, site, waiting, local, stored>>
    BY DEF ServerRefuses, ReplyLost, EndWithError
  <1>2. faults \subseteq faults' /\ faults' # {}
    <2>1. CASE ServerRefuses(m)
      <3>1. faults' = faults BY <2>1 DEF ServerRefuses
      <3>2. faults # {} BY <2>1, FirstIsAccepted DEF ServerRefuses
      <3> QED BY <3>1, <3>2
    <2>2. CASE ReplyLost(m) BY <2>2, Remembered DEF ReplyLost
    <2> QED BY <2>1, <2>2
  <1>3. /\ local' \in [Ships -> Cargos] /\ stored' \in [Ships -> Cargos]
        /\ local'[m] \in CargosOf(m) /\ stored'[m] \in CargosOf(m)
    BY <1>1, WhoIsWho DEF IInv, Typed, Totalled
  <1> QED BY <1>1, <1>2, <1>3, CallEndKeeps

\* All tasks are done: the ship has what the server has, also when it had nothing
\* to transfer.
LEMMA EndTransferKeeps ==
  ASSUME IInv, NEW m \in Miners, EndTransfer(m)
  PROVE  IInv'
  <1> USE DEF IInv
  <1>1. /\ pc[m] = "executing" /\ plan.tasks = <<>> /\ m \in Ships
        /\ local' = [local EXCEPT ![m] = IF plan.done THEN server[m] ELSE @]
        /\ stored' = [stored EXCEPT ![m] = IF plan.done THEN server[m] ELSE @]
        /\ lock' = Nobody /\ plan' = NoPlan /\ pc' = [pc EXCEPT ![m] = "ready"]
        /\ UNCHANGED <<server, waiting, channel, updater, sales, site, faults>>
    BY WhoIsWho DEF EndTransfer
  <1>2. ~plan.reply /\ lock = m /\ lock # Nobody BY <1>1, WhoIsWho DEF Phased
  <1>3. server[m] \in CargosOf(m) /\ local[m] \in CargosOf(m) /\ stored[m] \in CargosOf(m)
        /\ server[m] \in Cargos /\ local[m] \in Cargos /\ stored[m] \in Cargos
    BY <1>1 DEF Totalled, Typed
  <1>4. /\ local' \in [Ships -> Cargos] /\ stored' \in [Ships -> Cargos]
        /\ local'[m] = IF plan.done THEN server[m] ELSE local[m]
        /\ stored'[m] = IF plan.done THEN server[m] ELSE stored[m]
        /\ \A s \in Ships \ {m} : local'[s] = local[s] /\ stored'[s] = stored[s]
    BY <1>1, <1>3 DEF Typed
  <1>5. local'[m] \in CargosOf(m) /\ stored'[m] \in CargosOf(m) BY <1>3, <1>4
  <1>6. faults' = {} => local'[m] = server[m] BY <1>1, <1>2, <1>4 DEF Faultless, Backed
  <1> QED BY <1>1, <1>2, <1>4, <1>5, <1>6, CallEndKeeps
\* The reply updates the summary, and the update goes into the channel: what is
\* pending stays pending.
LEMMA ReplyKeeps ==
  ASSUME IInv, NEW m \in Miners, Reply(m)
  PROVE  IInv'
  <1> USE DEF IInv
  <1> DEFINE task == Head(plan.tasks)
             h == task.to
             n == Len(plan.tasks)
  <1>1. /\ pc[m] = "executing" /\ plan.reply
        /\ waiting' = [waiting EXCEPT ![h] = server[h]]
        /\ UNCHANGED <<server, updater, sales, site, faults>>
    BY DEF Reply
  <1>2. plan.tasks # <<>> /\ lock = m /\ lock # Nobody /\ m \in Ships
    BY <1>1, WhoIsWho DEF Phased
  <1>3. /\ 1 \in DOMAIN plan.tasks /\ task = plan.tasks[1] /\ h \in Haulers
        /\ waiting[h] # NotWaiting
        /\ Tail(plan.tasks) \in Seq(Tasks)
        /\ DOMAIN Tail(plan.tasks) = 1..(n - 1)
        /\ \A i \in 1..(n - 1) : Tail(plan.tasks)[i] = plan.tasks[i + 1]
        /\ DOMAIN plan.tasks = 1..n /\ n \in Nat
    BY <1>2, FirstTask, Unfold
  <1> HIDE DEF task, n
  <1>4. CASE /\ h \in updater /\ Len(channel[h]) < 2
             /\ channel' = [channel EXCEPT ![h] = Append(@, server[h])]
             /\ plan' = [plan EXCEPT !.tasks = Tail(@), !.reply = FALSE, !.done = TRUE]
             /\ UNCHANGED <<local, stored, pc, lock>>
    <2>1. /\ plan' \in Plans /\ plan'.left = plan.left /\ plan'.clone = plan.clone
          /\ plan'.tasks = Tail(plan.tasks) /\ plan'.reply = FALSE /\ plan'.done = TRUE
      <3>1. plan' = [left |-> plan.left, clone |-> plan.clone, tasks |-> Tail(plan.tasks),
                     reply |-> FALSE, done |-> TRUE]
        BY <1>4 DEF Typed, Plans
      <3>2. plan.clone \in [Haulers -> Cargos \cup {NotWaiting}] BY DEF Typed, Plans
      <3> QED BY <1>3, <3>1, <3>2, Unfold DEF Plans
    <2>2. server[h] \in CargosOf(h) /\ server[h] \in Cargos /\ server[h] # NotWaiting
      BY <1>3, WhoIsWho, Parts DEF Totalled
    <2>3. /\ waiting' \in [Haulers -> Cargos \cup {NotWaiting}] /\ waiting'[h] = server[h]
          /\ \A k \in Haulers : k # h => waiting'[k] = waiting[k]
      BY <1>1, <1>3, <2>2 DEF Typed
    <2>4. /\ channel' \in [Haulers -> Seq(Cargos)]
          /\ \A k \in Haulers : k # h => channel'[k] = channel[k]
          /\ \A i \in DOMAIN channel'[h] : channel'[h][i] \in CargosOf(h)
      <3>1. channel[h] \in Seq(Cargos) BY <1>3 DEF Typed
      <3>2. Append(channel[h], server[h]) \in Seq(Cargos) BY <2>2, <3>1, AppendProperties
      <3>3. /\ channel' \in [Haulers -> Seq(Cargos)] /\ channel'[h] = Append(channel[h], server[h])
            /\ \A k \in Haulers : k # h => channel'[k] = channel[k]
        BY <1>3, <1>4, <3>2 DEF Typed
      <3>4. /\ DOMAIN channel[h] = 1..Len(channel[h]) /\ Len(channel[h]) \in Nat
            /\ DOMAIN channel'[h] = 1..(Len(channel[h]) + 1)
            /\ \A i \in 1..Len(channel[h]) : channel'[h][i] = channel[h][i]
            /\ channel'[h][Len(channel[h]) + 1] = server[h]
        BY <2>2, <3>1, <3>2, <3>3, AppendProperties, LenProperties
      <3>5. \A i \in DOMAIN channel[h] : channel[h][i] \in CargosOf(h) BY <1>3 DEF Totalled
      <3>6. \A i \in DOMAIN channel'[h] : i \in DOMAIN channel[h] \/ i = Len(channel[h]) + 1
        BY <3>4
      <3>7. \A i \in DOMAIN channel'[h] : channel'[h][i] \in CargosOf(h)
        BY <2>2, <3>4, <3>5, <3>6
      <3> QED BY <3>3, <3>7
    <2>5. Typed' BY <1>1, <1>4, <2>1, <2>3, <2>4 DEF Typed
    <2>6. Totalled'
      <3>1. \A k \in Haulers : /\ waiting'[k] \in CargosOf(k) \cup {NotWaiting}
                              /\ \A i \in DOMAIN channel'[k] : channel'[k][i] \in CargosOf(k)
        BY <2>2, <2>3, <2>4 DEF Totalled
      <3> QED BY <1>1, <1>4, <2>1, <3>1 DEF Totalled
    <2>7. \A k \in Haulers : waiting'[k] = NotWaiting <=> waiting[k] = NotWaiting
      BY <1>3, <2>2, <2>3
    <2>8. Phased'
      <3>1. \A i \in DOMAIN plan'.tasks : waiting'[plan'.tasks[i].to] # NotWaiting
        <4> TAKE i \in DOMAIN plan'.tasks
        <4>1. i \in 1..(n - 1) /\ plan'.tasks[i] = plan.tasks[i + 1] BY <1>3, <2>1
        <4>2. i + 1 \in DOMAIN plan.tasks BY <1>3, <4>1
        <4>3. waiting[plan.tasks[i + 1].to] # NotWaiting /\ plan.tasks[i + 1].to \in Haulers
          BY <4>2, Unfold DEF Phased
        <4> QED BY <2>7, <4>1, <4>3
      <3>2. UNCHANGED <<pc, lock, sales>> /\ ~plan'.reply /\ lock # Nobody /\ plan'.clone = plan.clone
        BY <1>1, <1>2, <1>4, <2>1
      <3>3. \A k \in Haulers : /\ pc'[k] = "waiting" <=> waiting'[k] # NotWaiting
                               /\ plan'.clone[k] # NotWaiting => waiting'[k] # NotWaiting
        BY <2>7, <3>2 DEF Phased
      <3>4. /\ \A k \in Miners : /\ pc'[k] \in MinerStates
                                 /\ pc'[k] \in {"planning", "executing"} <=> lock' = k
            /\ \A k \in Haulers : /\ pc'[k] \in HaulerStates
                                  /\ sales'[k].sold # {} => pc'[k] \in {"selling", "unloading"}
        BY <3>2 DEF Phased
      <3> QED BY <3>1, <3>2, <3>3, <3>4 DEF Phased
    <2>9. Lagging'
      <3>1. \A k \in Haulers : server[k].units \in Nat BY WhoIsWho, Parts DEF Totalled
      <3>2. UNCHANGED <<server, local, pc, sales, faults>> BY <1>1, <1>4
      <3>3. SUFFICES ASSUME Answered, NEW k \in Haulers
                     PROVE  /\ waiting'[k] # NotWaiting => waiting'[k].units <= server[k].units
                            /\ Settled(k) => local[k].units <= server[k].units
        BY <3>2 DEF Lagging, Settled, Answered
      <3>4. /\ waiting[k] # NotWaiting => waiting[k].units <= server[k].units
            /\ Settled(k) => local[k].units <= server[k].units
        BY <3>3 DEF Lagging
      <3>5. CASE k = h BY <2>3, <3>1, <3>4, <3>5
      <3>6. CASE k # h BY <2>3, <3>4, <3>6
      <3> QED BY <3>5, <3>6
    <2>10. Pending' = Pending
      <3>1. Pending' = {Tail(plan.tasks)[i] : i \in 1..(n - 1)} BY <1>3, <2>1 DEF Pending
      <3>2. Pending = {plan.tasks[i] : i \in {j \in 1..n : j > 1}} BY <1>1, <1>3 DEF Pending
      <3>3. \A i \in 1..(n - 1) : i + 1 \in {j \in 1..n : j > 1} BY <1>3
      <3>4. \A i \in {j \in 1..n : j > 1} : i - 1 \in 1..(n - 1) /\ (i - 1) + 1 = i BY <1>3
      <3>5. Pending' \subseteq Pending BY <1>3, <3>1, <3>2, <3>3
      <3>6. Pending \subseteq Pending'
        <4> SUFFICES ASSUME NEW i \in {j \in 1..n : j > 1} PROVE plan.tasks[i] \in Pending' BY <3>2
        <4>1. i - 1 \in 1..(n - 1) /\ (i - 1) + 1 = i BY <3>4
        <4>2. Tail(plan.tasks)[i - 1] = plan.tasks[i] BY <1>3, <4>1
        <4> QED BY <3>1, <4>1, <4>2
      <3> QED BY <3>5, <3>6
    <2>11. \A k : Load(Pending, k)' = Load(Pending, k) BY <1>4, <2>10 DEF Load
    <2>12. Faultless'
      <3> SUFFICES ASSUME faults' = {} PROVE (Fresh /\ Known /\ OneTaskPerGood /\ Backed)'
        BY DEF Faultless
      <3>1. Fresh /\ Known /\ OneTaskPerGood /\ Backed BY <1>1 DEF Faultless
      <3>2. Fresh' BY <1>1, <1>4, <3>1, WhoIsWho DEF Fresh, Settled
      <3>3. Known'
        <4>1. \A k \in Haulers : k # h /\ waiting[k] # NotWaiting => waiting[k] = server[k] /\ k \in updater
          BY <3>1 DEF Known, task
        <4> QED BY <1>1, <1>4, <2>3, <4>1 DEF Known
      <3>4. OneTaskPerGood'
        <4>1. \A i \in 1..(n - 1) : i + 1 \in DOMAIN plan.tasks BY <1>3
        <4>2. \A i \in 1..(n - 1) : /\ plan.tasks[i + 1].good \notin plan.left
                                   /\ plan.tasks[i + 1].units = local[m].inv[plan.tasks[i + 1].good]
          BY <1>2, <3>1, <4>1 DEF OneTaskPerGood
        <4>3. \A i, j \in 1..(n - 1) : plan.tasks[i + 1].good = plan.tasks[j + 1].good => i + 1 = j + 1
          BY <1>2, <3>1, <4>1 DEF OneTaskPerGood
        <4>4. \A i, j \in 1..(n - 1) : i + 1 = j + 1 => i = j BY <1>3
        <4>5. \A i, j \in 1..(n - 1) :
                Tail(plan.tasks)[i].good = Tail(plan.tasks)[j].good => i = j
          BY <1>3, <4>3, <4>4
        <4>6. \A i \in 1..(n - 1) :
                /\ Tail(plan.tasks)[i].good \notin plan.left
                /\ Tail(plan.tasks)[i].units = local[m].inv[Tail(plan.tasks)[i].good]
          BY <1>3, <4>2
        <4> QED BY <1>2, <1>3, <1>4, <2>1, <4>5, <4>6 DEF OneTaskPerGood
      <3>5. Backed'
        <4>1. pc[lock] # "planning" /\ plan'.done BY <1>1, <1>2, <2>1
        <4> QED BY <1>1, <1>2, <1>4, <2>7, <2>10, <2>11, <3>1, <4>1 DEF Backed
      <3> QED BY <3>2, <3>3, <3>4, <3>5
    <2> QED BY <2>5, <2>6, <2>8, <2>9, <2>12
  <1>5. CASE h \notin updater /\ UNCHANGED channel /\ EndWithError(m)
    <2>1. /\ lock' = Nobody /\ plan' = NoPlan /\ pc' = [pc EXCEPT ![m] = "ready"]
          /\ UNCHANGED <<local, stored>>
      BY <1>5 DEF EndWithError
    <2>2. faults # {} BY <1>3, <1>5 DEF Faultless, Known
    <2>3. /\ local' \in [Ships -> Cargos] /\ stored' \in [Ships -> Cargos]
          /\ local'[m] \in CargosOf(m) /\ stored'[m] \in CargosOf(m)
      BY <2>1, <1>2 DEF Typed, Totalled
    <2> QED BY <1>1, <1>3, <1>5, <2>1, <2>2, <2>3, CallEndKeeps
  <1> QED BY <1>4, <1>5 DEF Reply, task
\* A hauler registers with the cargo it has in memory.
LEMMA AnnounceKeeps ==
  ASSUME IInv, NEW h \in Haulers, Announce(h)
  PROVE  IInv'
  <1> USE DEF IInv
  <1>1. /\ pc[h] \in {"ready", "failed"} /\ lock = Nobody /\ h \in Ships
        /\ waiting' = [waiting EXCEPT ![h] = local[h]] /\ updater' = updater \cup {h}
        /\ pc' = [pc EXCEPT ![h] = "waiting"]
        /\ UNCHANGED <<server, local, stored, lock, plan, channel, sales, site, faults>>
    BY WhoIsWho DEF Announce
  <1>2. local[h] \in CargosOf(h) /\ local[h] \in Cargos /\ local[h] # NotWaiting
    BY <1>1, Parts DEF Totalled
  <1>3. plan = NoPlan BY <1>1 DEF Phased
  <1>s. Settled(h) BY <1>1 DEF Phased, Settled
  <1>4. Typed' BY <1>1, <1>2 DEF Typed, MinerStates, HaulerStates
  <1>5. Totalled' BY <1>1, <1>2, Unfold DEF Totalled
  <1>6. Phased' BY <1>1, <1>2, <1>3, EmptyPlan, Unfold, WhoIsWho DEF Phased, HaulerStates
  <1>7. Lagging'
    <2>1. \A k \in Haulers : server[k].units \in Nat BY WhoIsWho, Parts DEF Totalled
    <2> QED BY <1>1, <1>s, <2>1, Unfold, WhoIsWho DEF Lagging, Answered, Settled
  <1>8. Faultless'
    <2> SUFFICES ASSUME faults' = {} PROVE (Fresh /\ Known /\ OneTaskPerGood /\ Backed)'
      BY DEF Faultless
    <2>1. Fresh /\ Known BY <1>1 DEF Faultless
    <2>2. Fresh' BY <1>1, <2>1, Unfold, WhoIsWho DEF Fresh, Settled
    <2>3. Known'
      <3>1. local[h] = server[h] BY <1>s, <2>1 DEF Fresh
      <3> QED BY <1>1, <2>1, <3>1, Unfold DEF Known
    <2>4. OneTaskPerGood' /\ Backed' BY <1>1 DEF OneTaskPerGood, Backed
    <2> QED BY <2>2, <2>3, <2>4
  <1> QED BY <1>4, <1>5, <1>6, <1>7, <1>8

\* A hauler that is filled enough takes the summary for its cargo and leaves.
LEMMA PickUpKeeps ==
  ASSUME IInv, NEW h \in Haulers, PickUp(h)
  PROVE  IInv'
  <1> USE DEF IInv
  <1>1. /\ pc[h] = "waiting" /\ lock = Nobody /\ h \in Ships
        /\ waiting' = [waiting EXCEPT ![h] = NotWaiting]
        /\ local' = [local EXCEPT ![h] = waiting[h]] /\ stored' = [stored EXCEPT ![h] = waiting[h]]
        /\ pc' = [pc EXCEPT ![h] = "loaded"]
        /\ UNCHANGED <<server, lock, plan, channel, updater, sales, site, faults>>
    BY WhoIsWho DEF PickUp
  <1>2. waiting[h] # NotWaiting /\ waiting[h] \in CargosOf(h) /\ waiting[h] \in Cargos
    BY <1>1, Parts DEF Totalled, Phased
  <1>3. plan = NoPlan BY <1>1 DEF Phased
  <1>4. Typed' BY <1>1, <1>2 DEF Typed, MinerStates, HaulerStates
  <1>5. Totalled' BY <1>1, <1>2, Unfold DEF Totalled
  <1>6. Phased' BY <1>1, <1>2, <1>3, EmptyPlan, Unfold, WhoIsWho DEF Phased, MinerStates, HaulerStates
  <1>7. Lagging' BY <1>1, <1>2, Unfold, WhoIsWho DEF Lagging, Answered, Settled
  <1>8. Faultless'
    <2> SUFFICES ASSUME faults' = {} PROVE (Fresh /\ Known /\ OneTaskPerGood /\ Backed)'
      BY DEF Faultless
    <2>1. Fresh /\ Known BY <1>1 DEF Faultless
    <2>2. Fresh'
      <3>1. waiting[h] = server[h] BY <1>2, <1>3, <2>1, EmptyPlan DEF Known
      <3> QED BY <1>1, <2>1, <3>1, Unfold, WhoIsWho DEF Fresh, Settled
    <2>3. Known' BY <1>1, <2>1, Unfold DEF Known
    <2>4. OneTaskPerGood' /\ Backed' BY <1>1 DEF OneTaskPerGood, Backed
    <2> QED BY <2>2, <2>3, <2>4
  <1> QED BY <1>4, <1>5, <1>6, <1>7, <1>8

\* The update task stores one cargo of its channel, or panics and drops them all.
LEMMA UpdaterKeeps ==
  ASSUME IInv, NEW h \in Haulers, StoreUpdate(h) \/ UpdaterPanics(h)
  PROVE  IInv'
  <1> USE DEF IInv
  <1>1. /\ UNCHANGED <<server, local, pc, waiting, lock, plan, sales, site>>
        /\ faults \subseteq faults' /\ (faults' = {} => faults = {} /\ updater' = updater)
        /\ updater' \subseteq updater /\ channel[h] # <<>> /\ h \in Ships
    <2>1. CASE StoreUpdate(h) BY <2>1, WhoIsWho DEF StoreUpdate
    <2>2. CASE UpdaterPanics(h) BY <2>2, Remembered, WhoIsWho DEF UpdaterPanics
    <2> QED BY <2>1, <2>2
  <1>2. /\ channel[h] \in Seq(Cargos) /\ DOMAIN channel[h] = 1..Len(channel[h])
        /\ Head(channel[h]) \in Cargos /\ Tail(channel[h]) \in Seq(Cargos)
        /\ Head(channel[h]) \in CargosOf(h)
        /\ \A i \in DOMAIN Tail(channel[h]) : Tail(channel[h])[i] \in CargosOf(h)
    <2>1. channel[h] \in Seq(Cargos) BY DEF Typed
    <2>2. /\ DOMAIN channel[h] = 1..Len(channel[h]) /\ Len(channel[h]) \in Nat
          /\ Len(channel[h]) # 0
      BY <1>1, <2>1, EmptySeq, LenProperties
    <2>3. /\ Head(channel[h]) = channel[h][1]
          /\ Head(channel[h]) \in Cargos /\ Tail(channel[h]) \in Seq(Cargos)
          /\ Len(Tail(channel[h])) = Len(channel[h]) - 1
          /\ \A i \in 1..Len(Tail(channel[h])) : Tail(channel[h])[i] = channel[h][i + 1]
      BY <1>1, <2>1, HeadTailProperties
    <2>4. DOMAIN Tail(channel[h]) = 1..(Len(channel[h]) - 1) BY <2>3, LenProperties
    <2>5. \A i \in DOMAIN channel[h] : channel[h][i] \in CargosOf(h) BY DEF Totalled
    <2>6. 1 \in DOMAIN channel[h] /\ \A i \in DOMAIN Tail(channel[h]) : i + 1 \in DOMAIN channel[h]
      BY <2>2, <2>4
    <2>7. \A i \in DOMAIN Tail(channel[h]) : Tail(channel[h])[i] \in CargosOf(h)
      BY <2>3, <2>4, <2>5, <2>6
    <2> QED BY <2>1, <2>2, <2>3, <2>5, <2>6, <2>7
  <1>3. /\ channel' \in [Haulers -> Seq(Cargos)] /\ stored' \in [Ships -> Cargos]
        /\ \A s \in Ships : stored'[s] \in CargosOf(s)
        /\ \A k \in Haulers : \A i \in DOMAIN channel'[k] : channel'[k][i] \in CargosOf(k)
    <2>1. CASE StoreUpdate(h)
      <3>1. /\ stored' = [stored EXCEPT ![h] = Head(channel[h])]
            /\ channel' = [channel EXCEPT ![h] = Tail(@)]
        BY <2>1 DEF StoreUpdate
      <3>2. channel' \in [Haulers -> Seq(Cargos)] /\ stored' \in [Ships -> Cargos]
        BY <1>2, <3>1 DEF Typed
      <3>3. \A s \in Ships : stored'[s] \in CargosOf(s) BY <1>1, <1>2, <3>1, Unfold DEF Totalled
      <3>4. \A k \in Haulers : channel'[k] = IF k = h THEN Tail(channel[h]) ELSE channel[k]
        BY <3>1, Unfold
      <3> QED BY <1>2, <3>2, <3>3, <3>4 DEF Totalled
    <2>2. CASE UpdaterPanics(h)
      <3>1. stored' = stored /\ channel' = [channel EXCEPT ![h] = <<>>] BY <2>2 DEF UpdaterPanics
      <3>2. <<>> \in Seq(Cargos) /\ DOMAIN <<>> = {} BY EmptySeq
      <3>3. channel' \in [Haulers -> Seq(Cargos)] BY <3>1, <3>2 DEF Typed
      <3>4. \A k \in Haulers : channel'[k] = IF k = h THEN <<>> ELSE channel[k] BY <3>1, Unfold
      <3> QED BY <3>1, <3>2, <3>3, <3>4 DEF Typed, Totalled
    <2> QED BY <2>1, <2>2
  <1>4. Typed' BY <1>1, <1>3 DEF Typed
  <1>5. Totalled' BY <1>1, <1>3 DEF Totalled
  <1>6. Phased' BY <1>1 DEF Phased
  <1>7. Lagging' BY <1>1, WhoIsWho DEF Lagging, Answered, Settled
  <1>8. Faultless'
    <2> SUFFICES ASSUME faults' = {} PROVE (Fresh /\ Known /\ OneTaskPerGood /\ Backed)'
      BY DEF Faultless
    <2>1. Fresh /\ Known /\ OneTaskPerGood /\ Backed /\ updater' = updater BY <1>1 DEF Faultless
    <2>2. Fresh' BY <1>1, <2>1, WhoIsWho DEF Fresh, Settled
    <2>3. Known' BY <1>1, <2>1 DEF Known
    <2>4. OneTaskPerGood' /\ Backed' BY <1>1, <2>1, LedgerStays
    <2> QED BY <2>2, <2>3, <2>4
  <1> QED BY <1>4, <1>5, <1>6, <1>7, <1>8

\* What a step of a delivery may do that the server has no part in: the hauler
\* goes on, its tickets change, and it may take over the cargo of the server.
DeliveryStep(h) ==
  /\ UNCHANGED <<server, waiting, lock, plan, channel, updater>>
  /\ faults \subseteq faults'
  /\ local' \in {local, [local EXCEPT ![h] = server[h]]}
  /\ stored' \in {stored, [stored EXCEPT ![h] = server[h]]}
  /\ \E p \in HaulerStates \ {"waiting"}, q \in Sales :
       /\ pc[h] # "waiting" /\ pc' = [pc EXCEPT ![h] = p]
       /\ sales' = [sales EXCEPT ![h] = q] /\ q.sold = {}
  /\ \/ local'[h] = server[h]
     \/ local' = local /\ (sales[h].sold = {} \/ "sale lost" \in faults')

LEMMA DeliveryStepKeeps ==
  ASSUME IInv, NEW h \in Haulers, DeliveryStep(h)
  PROVE  IInv'
  <1> USE DEF IInv
  <1>p. PICK p \in HaulerStates \ {"waiting"}, q \in Sales :
          /\ pc[h] # "waiting" /\ pc' = [pc EXCEPT ![h] = p]
          /\ sales' = [sales EXCEPT ![h] = q] /\ q.sold = {}
    BY DEF DeliveryStep
  <1>1. /\ UNCHANGED <<server, waiting, lock, plan, channel, updater>>
        /\ faults \subseteq faults' /\ h \in Ships
        /\ local' \in {local, [local EXCEPT ![h] = server[h]]}
        /\ stored' \in {stored, [stored EXCEPT ![h] = server[h]]}
        /\ \/ local'[h] = server[h]
           \/ local' = local /\ (sales[h].sold = {} \/ "sale lost" \in faults')
    BY WhoIsWho DEF DeliveryStep
  <1>2. server[h] \in CargosOf(h) /\ server[h] \in Cargos /\ server[h].units \in Nat
    BY <1>1, Parts DEF Totalled
  <1>3. /\ \A s \in Ships : s # h => local'[s] = local[s] /\ stored'[s] = stored[s] /\ pc'[s] = pc[s]
        /\ pc'[h] = p /\ pc'[h] # "waiting" /\ sales'[h] = q
        /\ \A k \in Haulers : k # h => sales'[k] = sales[k]
        /\ local'[h] \in {local[h], server[h]} /\ stored'[h] \in {stored[h], server[h]}
    <2>1. DOMAIN sales = Haulers BY DEF Typed
    <2> QED BY <1>1, <1>p, <2>1, Unfold
  <1>m. lock # Nobody => lock # h /\ lock \in Ships BY WhoIsWho DEF Typed
  <1>4. Typed'
    <2>1. pc' \in [Ships -> MinerStates \cup HaulerStates] BY <1>p DEF Typed
    <2>2. sales' \in [Haulers -> Sales] BY <1>p DEF Typed
    <2>3. local' \in [Ships -> Cargos] /\ stored' \in [Ships -> Cargos] BY <1>1, <1>2 DEF Typed
    <2> QED BY <1>1, <2>1, <2>2, <2>3 DEF Typed
  <1>5. Totalled'
    <2>1. \A s \in Ships : local'[s] \in CargosOf(s) /\ stored'[s] \in CargosOf(s)
      BY <1>2, <1>3 DEF Totalled
    <2> QED BY <1>1, <2>1 DEF Totalled
  <1>6. Phased'
    <2>1. \A m \in Miners : pc'[m] = pc[m] BY <1>3, WhoIsWho
    <2>2. plan.reply => pc'[lock] = pc[lock] BY <1>3, <1>m DEF Phased
    <2>3. \A k \in Haulers : /\ pc'[k] \in HaulerStates
                             /\ sales'[k].sold # {} => pc'[k] \in {"selling", "unloading"}
                             /\ pc'[k] = "waiting" <=> pc[k] = "waiting"
      BY <1>3, <1>p, WhoIsWho DEF Phased
    <2> QED BY <1>1, <2>1, <2>2, <2>3 DEF Phased
  <1>7. Lagging'
    <2> SUFFICES ASSUME Answered', NEW k \in Haulers
                 PROVE  /\ waiting'[k] # NotWaiting => waiting'[k].units <= server'[k].units
                        /\ Settled(k)' => local'[k].units <= server'[k].units
      BY DEF Lagging
    <2>0. Answered /\ "sale lost" \notin faults' BY <1>1 DEF Answered
    <2>1. /\ waiting[k] # NotWaiting => waiting[k].units <= server[k].units
          /\ Settled(k) => local[k].units <= server[k].units
      BY <2>0 DEF Lagging
    <2>2. CASE k # h BY <1>1, <1>3, <2>1, <2>2, WhoIsWho DEF Settled
    <2>3. CASE k = h
      <3>1. CASE local'[h] = server[h]
        <4>1. waiting' = waiting /\ server' = server BY <1>1
        <4>n. /\ waiting[k] # NotWaiting => waiting[k].units \in Nat
              /\ server[k].units \in Nat
          BY <1>2, <2>3, Parts DEF Totalled
        <4>2. waiting'[k] # NotWaiting => waiting'[k].units <= server'[k].units
          BY <2>1, <4>1, <4>n
        <4>3. server[k].units <= server[k].units BY <4>n
        <4>4. local'[k].units <= server'[k].units BY <2>3, <3>1, <4>1, <4>3
        <4> QED BY <4>2, <4>4
      <3>2. CASE local' = local /\ sales[h].sold = {}
        <4>1. Settled(h) BY <1>p, <3>2 DEF Settled
        <4> QED BY <1>1, <2>1, <2>3, <3>2, <4>1
      <3> QED BY <1>1, <2>0, <3>1, <3>2
    <2> QED BY <2>2, <2>3
  <1>8. Faultless'
    <2> SUFFICES ASSUME faults' = {} PROVE (Fresh /\ Known /\ OneTaskPerGood /\ Backed)'
      BY DEF Faultless
    <2>1. Fresh /\ Known /\ OneTaskPerGood /\ Backed BY <1>1 DEF Faultless
    <2>2. Fresh'
      <3>1. \A m \in Miners : pc'[m] \in {"ready", "planning"} => local'[m] = server'[m]
        BY <1>1, <1>3, <2>1, WhoIsWho DEF Fresh
      <3>2. ASSUME NEW k \in Haulers, Settled(k)' PROVE local'[k] = server'[k]
        <4>1. CASE k # h BY <1>1, <1>3, <2>1, <3>2, <4>1, WhoIsWho DEF Fresh, Settled
        <4>2. CASE k = h
          <5>1. CASE local'[h] = server[h] BY <1>1, <4>2, <5>1
          <5>2. CASE local' = local /\ sales[h].sold = {}
            <6>1. Settled(h) BY <1>p, <5>2 DEF Settled
            <6> QED BY <1>1, <2>1, <4>2, <5>2, <6>1 DEF Fresh
          <5> QED BY <1>1, <5>1, <5>2
        <4> QED BY <4>1, <4>2
      <3> QED BY <3>1, <3>2 DEF Fresh
    <2>3. Known' BY <1>1, <2>1 DEF Known
    <2>5. OneTaskPerGood' /\ Backed' BY <1>1, <1>3, <1>m, <2>1, LedgerStays
    <2> QED BY <2>2, <2>3, <2>5
  <1> QED BY <1>4, <1>5, <1>6, <1>7, <1>8

\* Interrupted keeps tickets tickets.
LEMMA InterruptedType ==
  ASSUME NEW q \in Sales
  PROVE  Interrupted(q) \in Sales /\ Interrupted(q).sold = {}
  BY DEF Sales, Interrupted

\* The steps of a delivery but the sale itself.
LEMMA DeliveryKeeps ==
  ASSUME IInv, NEW h \in Haulers,
         \/ Deliver(h) \/ SaleAnswered(h) \/ Delivered(h)
         \/ \E ticket \in sales[h].open \cup sales[h].old : SaleRefused(h, ticket)
         \/ DeliveryFails(h) \/ SaleLost(h) \/ SaleUnsaved(h)
  PROVE  IInv'
  <1>1. /\ sales[h] \in Sales /\ DOMAIN sales = Haulers /\ DOMAIN local = Ships /\ h \in Ships
        /\ sales[h].sold # {} => pc[h] \in {"selling", "unloading"}
        /\ local[h] \in Cargos /\ DOMAIN pc = Ships
    BY WhoIsWho, Unfold DEF IInv, Typed, Phased
  <1>e. ASSUME DeliveryEnds(h), pc[h] \in {"selling", "unloading"}
        PROVE  \E p \in HaulerStates \ {"waiting"}, q \in Sales :
                 /\ pc[h] # "waiting" /\ pc' = [pc EXCEPT ![h] = p]
                 /\ sales' = [sales EXCEPT ![h] = q] /\ q.sold = {}
    <2> DEFINE p == IF pc[h] = "selling" THEN "failed" ELSE "ready"
    <2>1. p \in HaulerStates \ {"waiting"} BY DEF HaulerStates
    <2>2. pc' = [pc EXCEPT ![h] = p] /\ sales' = [sales EXCEPT ![h] = Interrupted(sales[h])]
      BY <1>e DEF DeliveryEnds
    <2> HIDE DEF p
    <2> QED BY <1>1, <1>e, <2>1, <2>2, InterruptedType
  <1>2. CASE Deliver(h)
    <2> DEFINE new == {[good |-> g, units |-> local[h].inv[g]] : g \in InCargo(local[h])}
               q == [sales[h] EXCEPT !.open = new]
               p == IF pc[h] = "ready" THEN "selling" ELSE "unloading"
    <2>1. new \subseteq SellTickets BY <1>1 DEF InCargo, SellTickets, Cargos, Inventories
    <2>2. pc[h] \in {"ready", "loaded"} /\ pc' = [pc EXCEPT ![h] = p]
          /\ sales' = [sales EXCEPT ![h].open = new]
          /\ UNCHANGED <<server, local, stored, waiting, lock, plan, channel, updater, faults>>
      BY <1>2 DEF Deliver
    <2>3. p \in HaulerStates \ {"waiting"} /\ pc[h] # "waiting" BY <2>2 DEF HaulerStates
    <2>4. sales[h].sold = {} BY <1>1, <2>2
    <2> HIDE DEF new, p
    <2>5. q \in Sales /\ q.sold = {} BY <1>1, <2>1, <2>4 DEF Sales
    <2>6. sales' = [sales EXCEPT ![h] = q] BY <1>1, <2>2
    <2> HIDE DEF q
    <2>7. \E x \in HaulerStates \ {"waiting"}, y \in Sales :
            /\ pc[h] # "waiting" /\ pc' = [pc EXCEPT ![h] = x]
            /\ sales' = [sales EXCEPT ![h] = y] /\ y.sold = {}
      BY <2>2, <2>3, <2>5, <2>6
    <2>8. DeliveryStep(h) BY <2>2, <2>4, <2>7 DEF DeliveryStep
    <2> QED BY <2>8, DeliveryStepKeeps
  <1>3. CASE SaleAnswered(h)
    <2> DEFINE q == [open |-> sales[h].open \ sales[h].sold,
                     old  |-> IF sales[h].sold \subseteq sales[h].open THEN sales[h].old
                                                                      ELSE sales[h].old \ sales[h].sold,
                     sold |-> {}]
    <2>1. /\ sales[h].sold # {} /\ pc' = pc /\ sales' = [sales EXCEPT ![h] = q]
          /\ local' = [local EXCEPT ![h] = server[h]] /\ stored' = [stored EXCEPT ![h] = server[h]]
          /\ UNCHANGED <<server, waiting, lock, plan, channel, updater, faults>>
      BY <1>3 DEF SaleAnswered
    <2>2. q \in Sales /\ q.sold = {} BY <1>1 DEF Sales
    <2> HIDE DEF q
    <2>3. pc[h] \in HaulerStates \ {"waiting"} /\ pc[h] # "waiting" BY <1>1, <2>1 DEF HaulerStates
    <2>4. pc' = [pc EXCEPT ![h] = pc[h]] BY <1>1, <2>1 DEF IInv, Typed
    <2>5. local'[h] = server[h] BY <1>1, <2>1
    <2>6. \E x \in HaulerStates \ {"waiting"}, y \in Sales :
            /\ pc[h] # "waiting" /\ pc' = [pc EXCEPT ![h] = x]
            /\ sales' = [sales EXCEPT ![h] = y] /\ y.sold = {}
      BY <2>1, <2>2, <2>3, <2>4
    <2>7. DeliveryStep(h) BY <2>1, <2>5, <2>6 DEF DeliveryStep
    <2> QED BY <2>7, DeliveryStepKeeps
  <1>4. CASE Delivered(h)
    <2>1. /\ pc[h] \in {"selling", "unloading"} /\ sales[h].sold = {}
          /\ pc' = [pc EXCEPT ![h] = "ready"]
          /\ UNCHANGED <<server, local, stored, waiting, lock, plan, channel, updater, sales, faults>>
      BY <1>4 DEF Delivered, Delivering
    <2>2. sales' = [sales EXCEPT ![h] = sales[h]] BY <1>1, <2>1 DEF IInv, Typed
    <2>3. "ready" \in HaulerStates \ {"waiting"} /\ pc[h] # "waiting" BY <2>1 DEF HaulerStates
    <2>4. \E x \in HaulerStates \ {"waiting"}, y \in Sales :
            /\ pc[h] # "waiting" /\ pc' = [pc EXCEPT ![h] = x]
            /\ sales' = [sales EXCEPT ![h] = y] /\ y.sold = {}
      BY <1>1, <2>1, <2>2, <2>3
    <2>5. DeliveryStep(h) BY <2>1, <2>4 DEF DeliveryStep
    <2> QED BY <2>5, DeliveryStepKeeps
  <1>5. ASSUME NEW ticket \in sales[h].open \cup sales[h].old, SaleRefused(h, ticket)
        PROVE  IInv'
    <2>1. /\ pc[h] \in {"selling", "unloading"} /\ sales[h].sold = {} /\ DeliveryEnds(h)
          /\ UNCHANGED <<server, local, stored, waiting, lock, plan, channel, updater, faults>>
      BY <1>5 DEF SaleRefused, Covered, Delivering
    <2>2. DeliveryStep(h) BY <1>e, <2>1 DEF DeliveryStep
    <2> QED BY <2>2, DeliveryStepKeeps
  <1>6. CASE DeliveryFails(h)
    <2>1. /\ pc[h] \in {"selling", "unloading"} /\ sales[h].sold = {} /\ DeliveryEnds(h)
          /\ faults \subseteq faults'
          /\ UNCHANGED <<server, local, stored, waiting, lock, plan, channel, updater>>
      BY <1>6, Remembered DEF DeliveryFails, Delivering
    <2>2. DeliveryStep(h) BY <1>e, <2>1 DEF DeliveryStep
    <2> QED BY <2>2, DeliveryStepKeeps
  <1>7. CASE SaleLost(h)
    <2>1. /\ pc[h] \in {"selling", "unloading"} /\ DeliveryEnds(h)
          /\ faults \subseteq faults' /\ "sale lost" \in faults'
          /\ UNCHANGED <<server, local, stored, waiting, lock, plan, channel, updater>>
      BY <1>1, <1>7, Remembered DEF SaleLost
    <2>2. DeliveryStep(h) BY <1>e, <2>1 DEF DeliveryStep
    <2> QED BY <2>2, DeliveryStepKeeps
  <1>8. CASE SaleUnsaved(h)
    <2>1. /\ pc[h] \in {"selling", "unloading"} /\ DeliveryEnds(h)
          /\ faults \subseteq faults'
          /\ local' = [local EXCEPT ![h] = server[h]]
          /\ stored' \in {stored, [stored EXCEPT ![h] = server[h]]}
          /\ UNCHANGED <<server, waiting, lock, plan, channel, updater>>
      BY <1>1, <1>8, Remembered DEF SaleUnsaved
    <2>2. local'[h] = server[h] BY <1>1, <2>1
    <2>3. DeliveryStep(h) BY <1>e, <2>1, <2>2 DEF DeliveryStep
    <2> QED BY <2>3, DeliveryStepKeeps
  <1> QED BY <1>2, <1>3, <1>4, <1>5, <1>6, <1>7, <1>8

\* A sale takes from the server's copy what the ship still counts.
LEMMA SellKeeps ==
  ASSUME IInv, NEW h \in Haulers, NEW ticket \in sales[h].open \cup sales[h].old, Sell(h, ticket)
  PROVE  IInv'
  <1> USE DEF IInv
  <1> DEFINE new == WithUnitsRemoved(server[h], ticket.good, ticket.units)
  <1>t. sales[h] \in Sales /\ DOMAIN sales = Haulers BY DEF Typed
  <1>0. ticket \in SellTickets /\ ticket.good \in Goods /\ ticket.units \in Nat
    BY <1>t DEF Sales, SellTickets
  <1>1. /\ pc[h] \in {"selling", "unloading"} /\ h \in Ships
        /\ server' = [server EXCEPT ![h] = new]
        /\ sales' = [sales EXCEPT ![h].sold = {ticket}]
        /\ UNCHANGED <<local, stored, pc, waiting, lock, plan, channel, updater, faults>>
    BY WhoIsWho DEF Sell, Covered, Delivering
  <1>2. new \in CargosOf(h)
    <2>1. server[h] \in CargosOf(h) BY <1>1 DEF Totalled
    <2> QED BY <1>0, <2>1, RemovedParts
  <1>3. new \in Cargos BY <1>2, Parts
  <1> HIDE DEF new
  <1>q. /\ sales' \in [Haulers -> Sales] /\ sales'[h].sold = {ticket}
        /\ \A k \in Haulers : k # h => sales'[k] = sales[k]
    <2>1. [sales[h] EXCEPT !.sold = {ticket}] \in Sales BY <1>0, <1>t DEF Sales
    <2>2. sales' = [sales EXCEPT ![h] = [sales[h] EXCEPT !.sold = {ticket}]] BY <1>1, <1>t
    <2>3. sales'[h] = [sales[h] EXCEPT !.sold = {ticket}] BY <1>t, <2>2
    <2>4. sales'[h].sold = {ticket} BY <1>t, <2>3 DEF Sales
    <2> QED BY <1>t, <2>1, <2>2, <2>4 DEF Typed
  <1>m. waiting[h] = NotWaiting /\ (lock # Nobody => lock # h /\ lock \in Ships)
    BY <1>1, WhoIsWho DEF Phased, Typed
  <1>v. \A s \in Ships : s # h => server'[s] = server[s] BY <1>1, Unfold
  <1>4. Typed' BY <1>1, <1>3, <1>q DEF Typed
  <1>5. Totalled' BY <1>1, <1>2, Unfold DEF Totalled
  <1>6. Phased' BY <1>1, <1>q, <1>m, Unfold, WhoIsWho DEF Phased
  <1>7. Lagging' BY <1>1, <1>q, <1>m, <1>v, WhoIsWho DEF Lagging, Answered, Settled
  <1>8. Faultless'
    <2> SUFFICES ASSUME faults' = {} PROVE (Fresh /\ Known /\ OneTaskPerGood /\ Backed)'
      BY DEF Faultless
    <2>1. Fresh /\ Known /\ OneTaskPerGood /\ Backed BY <1>1 DEF Faultless
    <2>2. Fresh' BY <1>1, <1>q, <1>v, <2>1, WhoIsWho DEF Fresh, Settled
    <2>3. Known' BY <1>1, <1>m, <1>v, <2>1, WhoIsWho DEF Known
    <2>5. OneTaskPerGood' /\ Backed' BY <1>1, <1>m, <1>v, <2>1, WhoIsWho, LedgerStays
    <2> QED BY <2>2, <2>3, <2>5
  <1> QED BY <1>4, <1>5, <1>6, <1>7, <1>8

\* After a crash every ship begins with the cargo of the table.
LEMMA CrashKeeps ==
  ASSUME IInv, Crash
  PROVE  IInv'
  <1> USE DEF IInv
  <1>1. /\ local' = stored /\ pc' = [s \in Ships |-> "ready"] /\ waiting' = NoHauler
        /\ lock' = Nobody /\ plan' = NoPlan /\ channel' = [h \in Haulers |-> <<>>]
        /\ updater' = {} /\ UNCHANGED <<server, stored, site>>
        /\ sales' = [h \in Haulers |-> Interrupted(sales[h])]
        /\ "crash" \in faults'
    BY Remembered DEF Crash
  <1>2. <<>> \in Seq(Cargos) /\ DOMAIN <<>> = {} BY EmptySeq
  <1>q. sales' \in [Haulers -> Sales] /\ \A h \in Haulers : sales'[h].sold = {}
    <2>1. \A h \in Haulers : Interrupted(sales[h]) \in Sales /\ Interrupted(sales[h]).sold = {}
      BY InterruptedType DEF Typed
    <2> QED BY <1>1, <2>1
  <1>3. Typed' BY <1>1, <1>2, <1>q, EmptyPlan DEF Typed, MinerStates, HaulerStates, NoHauler
  <1>4. Totalled' BY <1>1, <1>2, EmptyPlan DEF Totalled
  <1>5. Phased' BY <1>1, <1>q, EmptyPlan, WhoIsWho DEF Phased, MinerStates, HaulerStates
  <1>6. Lagging' BY <1>1 DEF Lagging, Answered
  <1>7. Faultless' BY <1>1 DEF Faultless
  <1> QED BY <1>3, <1>4, <1>5, <1>6, <1>7

\* At the start every copy of a cargo is the server's.
LEMMA Initially == Init => IInv
  <1> SUFFICES ASSUME Init PROVE IInv OBVIOUS
  <1>1. /\ server \in [Ships -> StartCargos]
        /\ \A s \in Ships : server[s] = EmptyCargo \/ s \in Miners
        /\ local = server /\ stored = server /\ pc = [s \in Ships |-> "ready"]
        /\ waiting = NoHauler /\ lock = Nobody /\ plan = NoPlan
        /\ channel = [h \in Haulers |-> <<>>] /\ updater = {}
        /\ sales = [h \in Haulers |-> NoSales]
    BY DEF Init
  <1>2. \A s \in Ships : server[s] \in CargosOf(s)
    <2> TAKE s \in Ships
    <2>1. CASE server[s] = EmptyCargo BY <2>1, EmptyIsCargo
    <2>2. CASE s \in Miners
      <3>1. /\ server[s] \in [units : 0..MinerCapacity, inv : [Goods -> 0..MinerCapacity]]
            /\ server[s].units = Sum(server[s].inv, Goods)
        BY <1>1, ShipAssumption, TotalAssumption DEF Sum
      <3>2. /\ server[s].units \in Nat /\ server[s].units <= Capacity(s)
            /\ server[s].inv \in [Goods -> Nat]
        BY <2>2, <3>1, CapacityAssumption DEF Capacity
      <3>3. server[s] \in Cargos BY <3>1, <3>2 DEF Cargos, Inventories
      <3> QED BY <3>1, <3>2, <3>3 DEF CargosOf
    <2> QED BY <1>1, <2>1, <2>2
  <1>3. server \in [Ships -> Cargos] BY <1>1, <1>2, Parts
  <1>4. <<>> \in Seq(Cargos) /\ DOMAIN <<>> = {} BY EmptySeq
  <1>q. NoSales \in Sales /\ NoSales.sold = {} BY DEF NoSales, Sales
  <1>5. Typed BY <1>1, <1>3, <1>4, <1>q, EmptyPlan DEF Typed, MinerStates, HaulerStates, NoHauler
  <1>6. Totalled BY <1>1, <1>2, <1>4, EmptyPlan DEF Totalled
  <1>7. Phased BY <1>1, <1>q, EmptyPlan, WhoIsWho DEF Phased, MinerStates, HaulerStates
  <1>8. Lagging
    <2>1. \A h \in Haulers : h \in Ships /\ server[h].units \in Nat BY <1>2, WhoIsWho, Parts
    <2>2. \A h \in Haulers : local[h].units <= server[h].units BY <1>1, <2>1
    <2>3. \A h \in Haulers : waiting[h] = NotWaiting BY <1>1, EmptyPlan
    <2> QED BY <2>2, <2>3 DEF Lagging, Answered
  <1>9. Faultless
    <2>1. Fresh BY <1>1 DEF Fresh
    <2>2. Known BY <1>1, EmptyPlan DEF Known
    <2>3. OneTaskPerGood /\ Backed BY <1>1 DEF OneTaskPerGood, Backed
    <2> QED BY <2>1, <2>2, <2>3 DEF Faultless
  <1> QED BY <1>5, <1>6, <1>7, <1>8, <1>9 DEF IInv

\* find_transfer_tasks, either way.
LEMMA PlanStackKeeps ==
  ASSUME IInv, NEW m \in Miners, NEW good \in Goods, PlanStack(m, good)
  PROVE  IInv'
  <1> DEFINE units == local[m].inv[good]
             best  == BestHaulers(plan.clone, good, units)
  <1>1. /\ pc[m] = "planning" /\ good \in plan.left
        /\ UNCHANGED <<server, local, stored, pc, waiting, lock, channel, updater, sales, site, faults>>
    BY DEF PlanStack
  <1>2. CASE best = {} /\ plan' = [plan EXCEPT !.left = @ \ {good}]
    BY <1>1, <1>2, SkippedStackKeeps
  <1>3. ASSUME NEW h \in best,
               plan' = [plan EXCEPT
                !.left = @ \ {good},
                !.clone[h] = WithItemAdded(@, HaulerCapacity, good, units),
                !.tasks = Append(@, [to |-> h, good |-> good, units |-> units])]
        PROVE  IInv'
    <2>1. h \in Haulers /\ plan.clone[h] # NotWaiting /\ Fits(plan.clone[h], HaulerCapacity, units)
      BY DEF BestHaulers, Candidates
    <2> QED BY <1>1, <1>3, <2>1, PlannedStackKeeps
  <1> QED BY <1>2, <1>3 DEF PlanStack

\* No step of a ship, of the manager or of a fault disturbs the invariant.
LEMMA StepKeeps == IInv /\ [Next]_vars => IInv'
  <1> SUFFICES ASSUME IInv, [Next]_vars PROVE IInv' OBVIOUS
  <1>1. ASSUME NEW m \in Miners, MinerStep(m) PROVE IInv'
    <2>2. ASSUME NEW good \in Minerals, NEW units \in 1..Yield, Extract(m, good, units) PROVE IInv'
      BY <2>2, ExtractKeeps
    <2>3. CASE TakeOver(m) BY <2>3, TakeOverKeeps
    <2>4. CASE Jettison(m) BY <2>4, JettisonKeeps
    <2>5. CASE BeginTransfer(m) BY <2>5, BeginTransferKeeps
    <2>6. ASSUME NEW good \in Goods, PlanStack(m, good) PROVE IInv' BY <2>6, PlanStackKeeps
    <2>7. CASE Planned(m) BY <2>7, PlannedKeeps
    <2>8. CASE ServerTransfers(m) BY <2>8, ServerTransfersKeeps
    <2>9. CASE ServerRefuses(m) BY <2>9, ErrorKeeps
    <2>10. CASE Reply(m) BY <2>10, ReplyKeeps
    <2>11. CASE EndTransfer(m) BY <2>11, EndTransferKeeps
    <2> QED BY <1>1, <2>2, <2>3, <2>4, <2>5, <2>6, <2>7, <2>8, <2>9, <2>10, <2>11 DEF MinerStep
  <1>2. ASSUME NEW m \in Miners, ReplyLost(m) PROVE IInv' BY <1>2, ErrorKeeps
  <1>3. ASSUME NEW h \in Haulers, HaulerStep(h) PROVE IInv'
    <2>2. CASE Announce(h) BY <2>2, AnnounceKeeps
    <2>3. CASE PickUp(h) BY <2>3, PickUpKeeps
    <2>4. CASE Deliver(h) \/ SaleAnswered(h) \/ Delivered(h) BY <2>4, DeliveryKeeps
    <2>5. ASSUME NEW ticket \in sales[h].open \cup sales[h].old, Sell(h, ticket) PROVE IInv'
      BY <2>5, SellKeeps
    <2>6. ASSUME NEW ticket \in sales[h].open \cup sales[h].old, SaleRefused(h, ticket) PROVE IInv'
      BY <2>6, DeliveryKeeps
    <2> QED BY <1>3, <2>2, <2>3, <2>4, <2>5, <2>6 DEF HaulerStep
  <1>4. ASSUME NEW h \in Haulers, StoreUpdate(h) \/ UpdaterPanics(h) PROVE IInv'
    BY <1>4, UpdaterKeeps
  <1>5. CASE Crash BY <1>5, CrashKeeps
  <1>6. CASE UNCHANGED vars BY <1>6, StutterKeeps
  <1>7. ASSUME NEW h \in Haulers, DeliveryFails(h) \/ SaleLost(h) \/ SaleUnsaved(h) PROVE IInv'
    BY <1>7, DeliveryKeeps
  <1> QED BY <1>1, <1>2, <1>3, <1>4, <1>5, <1>6, <1>7 DEF Next

-----------------------------------------------------------------------------
\* Every reachable state of the site has sound cargos, one planner at a time and,
\* without faults, a plan the server can execute.
THEOREM Invariance == Spec => []IInv
  BY Initially, StepKeeps, PTL DEF Spec

\* A waiting hauler that is not filled enough to leave has space for every stack of
\* every miner, whatever was lost and whoever has crashed: find_transfer_task never
\* leaves a miner and a hauler waiting for each other.
THEOREM AlwaysMatch == Spec => []NoMissedMatch
  <1>1. IInv => NoMissedMatch
    <2> SUFFICES ASSUME IInv, NEW m \in Miners, NEW h \in Haulers, NEW g \in Goods,
                        waiting[h] # NotWaiting, ~FilledEnough(waiting[h])
                 PROVE  Fits(waiting[h], HaulerCapacity, local[m].inv[g])
      BY DEF NoMissedMatch
    <2>1. local[m] \in CargosOf(m) /\ waiting[h] \in CargosOf(h)
      BY WhoIsWho DEF IInv, Totalled
    <2>2. /\ local[m].inv[g] <= local[m].units /\ local[m].units <= MinerCapacity
          /\ local[m].inv[g] \in Nat /\ local[m].units \in Nat /\ waiting[h].units \in Nat
      BY <2>1, StackInTotal, Parts, WhoIsWho
    <2>3. 5 * waiting[h].units <= 4 * HaulerCapacity
      BY <2>2, CapacityAssumption DEF FilledEnough
    <2>4. MinerCapacity \in Nat /\ HaulerCapacity \in Nat /\ 5 * MinerCapacity <= HaulerCapacity
      BY CapacityAssumption, RoomyHaulers
    <2> QED BY <2>2, <2>3, <2>4 DEF Fits, SpaceLeft
  <1> QED BY <1>1, Invariance, PTL

\* Without faults the server accepts every transfer of a plan, also several stacks
\* for one hauler, although the plan is made on copies.
THEOREM PlansHold == Spec => []PlannedTransfersAreAccepted
  <1>1. IInv => PlannedTransfersAreAccepted BY FirstIsAccepted DEF PlannedTransfersAreAccepted
  <1> QED BY <1>1, Invariance, PTL

\* The summary of a waiting hauler is never ahead of the server, whichever replies to
\* transfers and update tasks are lost and however deliveries fail, as long as no
\* answer to a sale is lost and the process has not ended.
THEOREM NeverAhead == Spec => []SummariesLagAtMost
  <1>1. IInv => SummariesLagAtMost BY DEF IInv, Lagging, Answered, SummariesLagAtMost
  <1> QED BY <1>1, Invariance, PTL
=============================================================================
