---------------------- MODULE ConstructionFleetProofs ----------------------
(***************************************************************************)
(* That what the admiral plans for the construction fleet can be executed: *)
(* it is paid for, it fits, and what is delivered is there.  The first     *)
(* part is about the plan (ConstructionPlan), the second about the cargo   *)
(* that is sold in batches, the third about the steps of the fleet.        *)
(***************************************************************************)
EXTENDS ConstructionFleet, FiniteSums, SequenceTheorems

TaskStates == {"idle", "stranded", "trading", "supplied", "reported"}

TicketSet ==
  [ship : Ships, kind : {"Purchase", "Sell", "Supply"}, good : Goods, at : Waypoints,
   units : Nat, price : Nat, from : Waypoints \cup {Nowhere}, nr : Nat]

Typed ==
  /\ fleet \in SUBSET Ships /\ task \in [Ships -> TaskStates] /\ at \in [Ships -> Waypoints]
  /\ hold \in [Ships -> Cargos] /\ stored \in [Ships -> Cargos]
  /\ tickets \in SUBSET TicketSet /\ IsFiniteSet(tickets)
  /\ capital \in Int /\ fuel \in Nat
  /\ missing \in [Goods -> Nat] /\ known \in [Goods -> Nat] /\ answer \in [Ships -> [Goods -> Nat]]
  /\ stocked \in SUBSET MaterialExports
  /\ misled \in BOOLEAN /\ outdated \in SUBSET Ships

IsTotal(cargo) == cargo.units = SumFunctionOnSet(cargo.inv, Goods)

\* the database is never short of what is on board
Totalled ==
  \A s \in Ships : /\ IsTotal(hold[s]) /\ IsTotal(stored[s])
                   /\ hold[s].units <= stored[s].units

\* but for a supply that is being reported, the database knows the cargo
Fresh == \A s \in Ships \ outdated : stored[s] = hold[s] \/ task[s] = "supplied"

\* a supply that has a purchase comes from an export of the material
FromExports ==
  \A k \in tickets : (k.kind = "Supply" /\ k.from # Nowhere) =>
     \E e \in MaterialExports : e.good = k.good /\ e.at = k.from

\* each material of the construction is exported at one place
OneSource == \A e, f \in MaterialExports : e.good = f.good => e.at = f.at

IInv ==
  /\ Typed /\ Totalled /\ Fresh /\ FromExports
  /\ PurchasesAreCovered /\ PurchasesFitTogether /\ DeliveriesAreBacked
  /\ OneSource => SuppliesAreNecessary

-----------------------------------------------------------------------------
(* The plan *)

\* what the plan is told of a ship
ShipFacts == [name : Ships, at : Waypoints, space : Nat]

\* a trade that one of the ships can make with c credits
IsTradeOf(t, ships, c) ==
  /\ t.kind = "Trade" /\ t.good \in Goods /\ t.from \in Waypoints /\ t.to \in Waypoints
  /\ t.units \in Nat /\ t.price \in Nat /\ t.sell \in Nat
  /\ t.gain \in Int /\ t.costs \in Nat
  /\ t.price * t.units <= c
  /\ \E s \in ships : t.ship = s.name /\ t.units <= s.space

\* what a ship can be told to do
IsAction(a, ships) ==
  /\ a.kind \in {"Trade", "Deliver", "Boost"} /\ a.good \in Goods
  /\ a.from \in Waypoints /\ a.to \in Waypoints
  /\ a.units \in Nat /\ a.price \in Nat /\ a.sell \in Nat
  /\ \E s \in ships : a.ship = s.name /\ a.units <= s.space

\* a delivery of what is missing, from an export no other ship delivers from
IsNecessary(a, lack, stock, routes) ==
  /\ a.units <= lack[a.good]
  /\ \E e \in stock : /\ e.good = a.good /\ e.at = a.from
                      /\ \A r \in routes : r.from # a.from \/ r.good # a.good

\* one of the actions the plan chooses from; only trades name their ship
IsChoice(a, trades, lack, stock, routes) ==
  \/ a.kind = "Trade" /\ a \in trades
  \/ /\ a.kind \in {"Deliver", "Boost"} /\ a.good \in Goods
     /\ a.from \in Waypoints /\ a.to \in Waypoints
     /\ a.units \in Nat /\ a.price \in Nat /\ a.sell \in Nat /\ a.costs \in Nat
     /\ a.price * a.units <= a.costs
     /\ a.kind = "Deliver" => IsNecessary(a, lack, stock, routes)

CostOfPlan(plan) == Sum([a \in plan |-> a.price * a.units], plan)

IsPlan(plan, ships, budget, lack, stock, routes) ==
  /\ IsFiniteSet(plan)
  /\ \A a \in plan : IsAction(a, ships)
  /\ \A a \in plan : a.kind = "Deliver" => plan = {a} /\ IsNecessary(a, lack, stock, routes)
  /\ \A a, b \in plan : a.ship = b.ship => a = b
  /\ CostOfPlan(plan) <= budget

\* The values of a function on a finite set are finite, and not more.
LEMMA FiniteImage ==
  ASSUME NEW S, IsFiniteSet(S), NEW f
  PROVE  /\ IsFiniteSet({f[x] : x \in S})
         /\ Cardinality({f[x] : x \in S}) <= Cardinality(S)
  <1> DEFINE T == {f[x] : x \in S}
             h == [x \in S |-> f[x]]
  <1>1. h \in Surjection(S, T) BY DEF Surjection
  <1> HIDE DEF T, h
  <1>2. IsFiniteSet(T) /\ Cardinality(T) <= Cardinality(S) BY <1>1, FS_Surjection
  <1> QED BY <1>2 DEF T

\* The trade goods of the markets, field by field.
LEMMA EntryType ==
  ASSUME NEW e \in Range(Entries)
  PROVE  /\ e.at \in Waypoints /\ e.good \in Goods /\ e.type \in Types
         /\ e.trade_volume \in Nat \ {0} /\ e.purchase_price \in Nat \ {0}
         /\ e.sell_price \in Nat \ {0}
  <1>1. PICK i \in DOMAIN Entries : e = Entries[i] BY DEF Range
  <1>2. e \in [at : Waypoints, good : Goods, type : Types, trade_volume : Nat \ {0},
               purchase_price : Nat \ {0}, sell_price : Nat \ {0}]
    <2> DEFINE T == [at : Waypoints, good : Goods, type : Types, trade_volume : Nat \ {0},
                     purchase_price : Nat \ {0}, sell_price : Nat \ {0}]
    <2>1. Entries \in Seq(T) BY PlanAssumption
    <2> HIDE DEF T
    <2>2. i \in 1..Len(Entries) BY <1>1, <2>1, LenProperties
    <2>3. Entries[i] \in T BY <2>1, <2>2, ElementOfSeq
    <2> QED BY <1>1, <2>3 DEF T
  <1> QED BY <1>2

\* There are finitely many of them.
LEMMA FiniteEntries == IsFiniteSet(Range(Entries))
  <1> DEFINE E == Range(Entries)
  <1>1. /\ Entries \in [1..Len(Entries) -> E] /\ Len(Entries) \in Nat
        /\ DOMAIN Entries = 1..Len(Entries)
    <2>1. Entries \in Seq([at : Waypoints, good : Goods, type : Types, trade_volume : Nat \ {0},
                           purchase_price : Nat \ {0}, sell_price : Nat \ {0}])
      BY PlanAssumption
    <2>2. /\ DOMAIN Entries = 1..Len(Entries) /\ Len(Entries) \in Nat
          /\ Entries = [i \in DOMAIN Entries |-> Entries[i]]
      BY <2>1, LenProperties
    <2> QED BY <2>2 DEF Range
  <1>2. IsFiniteSet(1..Len(Entries)) BY <1>1, FS_Interval
  <1>3. Entries \in Surjection(1..Len(Entries), E)
    <2>1. \A e \in E : \E i \in 1..Len(Entries) : Entries[i] = e BY <1>1 DEF Range
    <2> QED BY <1>1, <2>1 DEF Surjection
  <1> HIDE DEF E
  <1>4. IsFiniteSet(E) BY <1>2, <1>3, FS_Surjection
  <1> QED BY <1>4 DEF E

\* What is affordable at a price does not cost more than the budget.
LEMMA AffordableUnits ==
  \A price \in Nat \ {0}, units, budget \in Nat : units <= budget \div price => price * units <= budget
  OBVIOUS

\* The trades that are considered can be made by the ships they are meant for,
\* each with its share of the budget.
LEMMA TradesType ==
  ASSUME NEW ships \in SUBSET ShipFacts, IsFiniteSet(ships), NEW budget \in Nat,
         NEW t \in EvaluatedTrades(ships, budget)
  PROVE  IsTradeOf(t, ships, BudgetOfShip(budget, ships))
  <1> DEFINE c == BudgetOfShip(budget, ships)
  <1>1. PICK o \in Opportunities, s \in ships : t = Evaluated(o, s, c) BY DEF EvaluatedTrades
  <1>2. PICK e \in Sources, f \in Sinks : o = Opportunity(e, f) BY <1>1 DEF Opportunities
  <1>3. e \in Range(Entries) /\ f \in Range(Entries) BY <1>2 DEF Sources, Sinks
  <1>4. /\ o.good \in Goods /\ o.from \in Waypoints /\ o.to \in Waypoints
        /\ o.volume \in Nat \ {0} /\ o.price \in Nat \ {0} /\ o.sell \in Nat \ {0}
    <2>1. /\ e.at \in Waypoints /\ e.good \in Goods /\ e.trade_volume \in Nat \ {0}
          /\ e.purchase_price \in Nat \ {0}
          /\ f.at \in Waypoints /\ f.trade_volume \in Nat \ {0} /\ f.sell_price \in Nat \ {0}
      BY <1>3, EntryType
    <2> QED BY <1>2, <2>1 DEF Opportunity, LowerOf
  <1>5. s.name \in Ships /\ s.at \in Waypoints /\ s.space \in Nat BY DEF ShipFacts
  <1>6. c \in Nat
    <2>1. ships # {} BY <1>1
    <2>2. Cardinality(ships) \in Nat /\ Cardinality(ships) # 0 BY <2>1, FS_CardinalityType, FS_EmptySet
    <2>3. c = HigherOf(budget, 0) \div Cardinality(ships) BY <2>1 DEF BudgetOfShip
    <2>4. HigherOf(budget, 0) = budget BY DEF HigherOf
    <2> QED BY <2>2, <2>3, <2>4
  <1> HIDE DEF c
  <1> DEFINE u == UnitsOf(o, s.space, c)
  <1>7. u \in Nat /\ u <= s.space /\ u <= c \div o.price
    <2>1. c \div o.price \in Nat BY <1>4, <1>6
    <2> QED BY <1>4, <1>5, <2>1 DEF UnitsOf, LowerOf
  <1>8. o.price * u <= c BY <1>4, <1>6, <1>7, AffordableUnits
  <1>9. GainOf(o, u, s.at) \in Int
    <2> DEFINE a == Distance[s.at, o.from]
               b == Distance[o.from, o.to]
               profit == (o.sell - o.price) * u
               way == HigherOf(1, a + HigherOf(1, b))
    <2>1. a \in Nat /\ b \in Nat BY <1>4, <1>5, PlanAssumption
    <2>2. profit \in Int BY <1>4, <1>7
    <2>3. GainOf(o, u, s.at) = profit \div way BY DEF GainOf
    <2> HIDE DEF a, b, profit
    <2>4. way \in Nat \ {0} BY <2>1 DEF HigherOf
    <2> HIDE DEF way
    <2> QED BY <2>2, <2>3, <2>4
  <1> HIDE DEF u
  <1>10. /\ t.kind = "Trade" /\ t.ship = s.name /\ t.good = o.good /\ t.from = o.from /\ t.to = o.to
         /\ t.units = u /\ t.price = o.price /\ t.sell = o.sell /\ t.gain = GainOf(o, u, s.at)
         /\ t.costs = o.price * o.volume
    BY <1>1 DEF Evaluated, u
  <1> QED BY <1>4, <1>7, <1>8, <1>9, <1>10 DEF IsTradeOf, c

\* There are finitely many trades.
LEMMA FiniteTrades ==
  ASSUME NEW ships, IsFiniteSet(ships), NEW budget
  PROVE  IsFiniteSet(EvaluatedTrades(ships, budget))
  <1>1. IsFiniteSet(Sources) /\ IsFiniteSet(Sinks)
    BY FiniteEntries, FS_Subset DEF Sources, Sinks
  <1> DEFINE pairs == {p \in Sources \X Sinks :
      /\ p[1].at # p[2].at /\ p[1].good = p[2].good /\ p[1].good \notin NoGoGoods
      /\ p[2].sell_price > p[1].purchase_price}
  <1>2. IsFiniteSet(pairs) BY <1>1, FS_Product, FS_Subset
  <1> DEFINE opportunity == [p \in pairs |-> Opportunity(p[1], p[2])]
  <1>3. IsFiniteSet({opportunity[p] : p \in pairs})
    <2> HIDE DEF opportunity, pairs
    <2> QED BY <1>2, FiniteImage
  <1>4. IsFiniteSet(Opportunities) BY <1>3 DEF Opportunities
  <1> DEFINE all == {Evaluated(p[1], p[2], BudgetOfShip(budget, ships)) : p \in Opportunities \X ships}
  <1>5. IsFiniteSet(Opportunities \X ships) BY <1>4, FS_Product
  <1> DEFINE evaluated == [p \in Opportunities \X ships |-> Evaluated(p[1], p[2], BudgetOfShip(budget, ships))]
  <1>6. IsFiniteSet(all)
    <2>1. all = {evaluated[p] : p \in Opportunities \X ships} OBVIOUS
    <2> HIDE DEF evaluated, all
    <2> QED BY <1>5, <2>1, FiniteImage
  <1>7. EvaluatedTrades(ships, budget) \subseteq all BY DEF EvaluatedTrades
  <1> QED BY <1>6, <1>7, FS_Subset

\* A ship with a trade has a best one.
LEMMA BestTrade ==
  ASSUME NEW options, IsFiniteSet(options), \A t \in options : t.gain \in Int,
         NEW ship, \E t \in options : t.ship = ship
  PROVE  \E t \in options : t.ship = ship /\ \A u \in options : u.ship = ship => u.gain <= t.gain
  <1> DEFINE mine == {t \in options : t.ship = ship}
             R == {p \in mine \X mine : p[1].gain <= p[2].gain}
  <1>1. IsFiniteSet(mine) /\ mine # {} BY FS_Subset
  <1>2. \A x, y \in mine : <<x, y>> \in R <=> x.gain <= y.gain OBVIOUS
  <1>3. \A x \in mine : x.gain \in Int OBVIOUS
  <1> HIDE DEF mine, R
  <1>4. \A x, y \in mine : <<x, y>> \in R \/ <<y, x>> \in R
    <2> TAKE x, y \in mine
    <2>1. x.gain <= y.gain \/ y.gain <= x.gain BY <1>3
    <2> QED BY <1>2, <2>1
  <1>5. \A x, y, z \in mine : <<x, y>> \in R /\ <<y, z>> \in R => <<x, z>> \in R BY <1>2, <1>3
  <1>6. PICK m \in mine : \A x \in mine : <<x, m>> \in R BY <1>1, <1>4, <1>5, LastOfAll
  <1>7. \A x \in mine : x.gain <= m.gain BY <1>2, <1>6
  <1> QED BY <1>6, <1>7 DEF mine

\* A permutation of a finite set lists all of its members.
LEMMA OrdersAreComplete ==
  ASSUME NEW S, IsFiniteSet(S), NEW order \in SetToSeqs(S)
  PROVE  \A x \in S : \E i \in DOMAIN order : order[i] = x
  <1> DEFINE n == Cardinality(S)
  <1>1. n \in Nat /\ order \in [1..n -> S] /\ \A i, j \in 1..n : i # j => order[i] # order[j]
    BY FS_CardinalityType DEF SetToSeqs
  <1>2. order \in Injection(1..n, S) BY <1>1 DEF Injection, IsInjective
  <1>3. IsFiniteSet(1..n) /\ Cardinality(1..n) = n BY <1>1, FS_Interval
  <1>4. order \in Surjection(1..n, S) BY <1>2, <1>3, FS_Injection
  <1> QED BY <1>1, <1>4 DEF Surjection

\* No ship gets two trades.
LEMMA OneTradeEach ==
  ASSUME NEW options, IsFiniteSet(options), \A t \in options : t.gain \in Int,
         NEW active, NEW trades \in OptimalRoutes(options, active)
  PROVE  /\ trades \in SUBSET options
         /\ \A t, u \in trades : t.ship = u.ship => t = u
  <1> DEFINE ships  == {t.ship : t \in options}
             orders == SetToSeqs(ships)
             rounds == {Range(picks) : picks \in {p \in [ships -> options] :
                          \E order \in orders : InTurns(p, order, options, active)}}
             gained == {r \in rounds : GainOfAll(r) > 0}
             best(ship) == CHOOSE t \in options :
                      t.ship = ship /\ \A u \in options : u.ship = ship => u.gain <= t.gain
  <1>1. \/ trades = {best(ship) : ship \in ships}
        \/ trades \in rounds
    BY DEF OptimalRoutes
  <1>2. CASE trades = {best(ship) : ship \in ships}
    <2>1. \A ship \in ships : best(ship) \in options /\ best(ship).ship = ship
      <3> TAKE ship \in ships
      <3>1. \E t \in options : t.ship = ship /\ \A u \in options : u.ship = ship => u.gain <= t.gain
        BY BestTrade
      <3> QED BY <3>1
    <2> HIDE DEF best, ships
    <2> QED BY <1>2, <2>1
  <1>3. CASE trades \in rounds
    <2>1. PICK p \in [ships -> options], order \in orders :
             trades = Range(p) /\ InTurns(p, order, options, active)
      BY <1>3
    <2>2. IsFiniteSet(ships)
      <3> DEFINE owner == [t \in options |-> t.ship]
      <3>1. ships = {owner[t] : t \in options} OBVIOUS
      <3> HIDE DEF owner, ships
      <3> QED BY <3>1, FiniteImage
    <2>3. \A s \in ships : \E i \in DOMAIN order : order[i] = s
      <3> HIDE DEF ships
      <3> QED BY <2>2, OrdersAreComplete
    <2>4. \A s \in ships : p[s].ship = s BY <2>1, <2>3 DEF InTurns
    <2>5. \A t \in trades : \E s \in ships : t = p[s] BY <2>1 DEF Range
    <2> HIDE DEF ships
    <2> QED BY <2>1, <2>4, <2>5
  <1> QED BY <1>1, <1>2, <1>3

\* What the shares of the budget add up to.
LEMMA SharesOfBudget ==
  ASSUME NEW ships, IsFiniteSet(ships), NEW budget \in Nat, NEW n \in Nat, n <= Cardinality(ships)
  PROVE  /\ BudgetOfShip(budget, ships) \in Nat
         /\ BudgetOfShip(budget, ships) * n <= budget
  <1> DEFINE m == Cardinality(ships)
  <1>1. m \in Nat /\ (ships = {} <=> m = 0) BY FS_CardinalityType, FS_EmptySet
  <1>2. HigherOf(budget, 0) = budget BY DEF HigherOf
  <1>3. CASE ships = {}
    <2>1. BudgetOfShip(budget, ships) = 0 BY <1>3 DEF BudgetOfShip
    <2> QED BY <2>1
  <1>4. CASE ships # {}
    <2> DEFINE c == budget \div m
    <2>1. BudgetOfShip(budget, ships) = c BY <1>2, <1>4 DEF BudgetOfShip
    <2>2. m \in Nat \ {0} /\ n <= m BY <1>1, <1>4
    <2> HIDE DEF m
    <2>3. c \in Nat /\ m * c <= budget BY <2>2
    <2> HIDE DEF c
    <2>4. c * n <= m * c BY <2>2, <2>3
    <2>5. c * n <= budget BY <2>2, <2>3, <2>4
    <2> QED BY <2>1, <2>3, <2>5
  <1> QED BY <1>3, <1>4

\* Trades for different ships make a plan.
LEMMA TradesArePlan ==
  ASSUME NEW ships \in SUBSET ShipFacts, IsFiniteSet(ships), NEW budget \in Nat,
         NEW trades \in SUBSET EvaluatedTrades(ships, budget),
         \A t, u \in trades : t.ship = u.ship => t = u,
         NEW lack, NEW stock, NEW routes
  PROVE  IsPlan({Task(t) : t \in trades}, ships, budget, lack, stock, routes)
  <1> DEFINE plan == {Task(t) : t \in trades}
             c == BudgetOfShip(budget, ships)
             task_of == [t \in trades |-> Task(t)]
  <1>1. IsFiniteSet(plan)
    <2>1. IsFiniteSet(trades) BY FiniteTrades, FS_Subset
    <2>2. plan = {task_of[t] : t \in trades} OBVIOUS
    <2> HIDE DEF plan, task_of
    <2> QED BY <2>1, <2>2, FiniteImage
  <1>2. \A t \in trades : IsTradeOf(t, ships, c) BY TradesType
  <1>3. \A a \in plan : \E t \in trades :
          /\ a = Task(t) /\ IsTradeOf(t, ships, c)
          /\ a.kind = t.kind /\ a.ship = t.ship /\ a.good = t.good /\ a.from = t.from /\ a.to = t.to
          /\ a.units = t.units /\ a.price = t.price /\ a.sell = t.sell
    BY <1>2 DEF Task
  <1> HIDE DEF plan
  <1>4. \A a \in plan : IsAction(a, ships) /\ a.kind = "Trade" BY <1>3 DEF IsAction, IsTradeOf
  <1>5. \A a, b \in plan : a.ship = b.ship => a = b BY <1>3
  <1> DEFINE f == [a \in plan |-> a.price * a.units]
  <1>6. f \in [plan -> Int] /\ \A a \in plan : f[a] <= c BY <1>3 DEF IsTradeOf
  <1>7. Cardinality(plan) \in Nat /\ Cardinality(plan) <= Cardinality(ships)
    <2> DEFINE owner == [a \in plan |-> CHOOSE s \in ships : s.name = a.ship]
    <2>1. \A a \in plan : owner[a] \in ships /\ owner[a].name = a.ship BY <1>4 DEF IsAction
    <2>2. owner \in [plan -> ships]
      <3>1. \A a \in plan : (CHOOSE s \in ships : s.name = a.ship) \in ships BY <2>1
      <3> QED BY <3>1
    <2> HIDE DEF owner
    <2>3. owner \in Injection(plan, ships) BY <1>5, <2>1, <2>2 DEF Injection, IsInjective
    <2> QED BY <1>1, <2>3, FS_Injection, FS_CardinalityType
  <1> HIDE DEF f
  <1> DEFINE n == Cardinality(plan)
  <1>8. c \in Nat /\ c * n <= budget BY <1>7, SharesOfBudget
  <1>9. Sum(f, plan) <= c * n
    <2>1. plan \in SUBSET plan OBVIOUS
    <2> HIDE DEF c, n
    <2> USE DEF n
    <2> QED BY <1>1, <1>6, <1>8, <2>1, SumAtMost
  <1>10. Sum(f, plan) \in Int BY <1>1, <1>6, SumType
  <1>11. Sum(f, plan) <= budget
    <2> HIDE DEF c
    <2> QED BY <1>7, <1>8, <1>9, <1>10
  <1>12. CostOfPlan(plan) <= budget BY <1>11 DEF CostOfPlan, f
  <1> QED BY <1>1, <1>4, <1>5, <1>12 DEF IsPlan, plan

\* Nothing to do, and one action that is affordable, are plans.
LEMMA SmallPlans ==
  ASSUME NEW ships, NEW budget \in Nat, NEW lack, NEW stock, NEW routes
  PROVE  /\ IsPlan({}, ships, budget, lack, stock, routes)
         /\ \A a : /\ IsAction(a, ships) /\ a.price * a.units <= budget
                   /\ a.kind = "Deliver" => IsNecessary(a, lack, stock, routes)
                   => IsPlan({a}, ships, budget, lack, stock, routes)
  <1>1. IsFiniteSet({}) BY FS_EmptySet
  <1>2. CostOfPlan({}) = 0
    <2> DEFINE f == [a \in {} |-> a.price * a.units]
    <2>1. f \in [{} -> Int] OBVIOUS
    <2> HIDE DEF f
    <2>2. Sum(f, {}) = 0 BY <1>1, <2>1, SumEmpty
    <2> QED BY <2>2 DEF CostOfPlan, f
  <1>3. IsPlan({}, ships, budget, lack, stock, routes) BY <1>1, <1>2 DEF IsPlan
  <1>4. ASSUME NEW a, IsAction(a, ships), a.price * a.units <= budget,
               a.kind = "Deliver" => IsNecessary(a, lack, stock, routes)
        PROVE  IsPlan({a}, ships, budget, lack, stock, routes)
    <2> DEFINE f == [b \in {a} |-> b.price * b.units]
    <2>1. IsFiniteSet({a}) BY FS_Singleton
    <2>2. f \in [{a} -> Int] /\ f[a] = a.price * a.units BY <1>4 DEF IsAction
    <2> HIDE DEF f
    <2>3. a \in {a} /\ {a} \in SUBSET {a} /\ {a} \ {a} = {} OBVIOUS
    <2>4. Sum(f, {a}) = f[a] + Sum(f, {a} \ {a}) BY <2>1, <2>2, <2>3, SumSplit
    <2>5. Sum(f, {}) = 0 BY <2>1, <2>2, SumEmpty
    <2>6. a.price * a.units \in Int BY <1>4 DEF IsAction
    <2>7. Sum(f, {a}) = a.price * a.units BY <2>2, <2>3, <2>4, <2>5, <2>6
    <2>8. CostOfPlan({a}) <= budget BY <1>4, <2>7 DEF CostOfPlan, f
    <2> QED BY <1>4, <2>1, <2>8 DEF IsPlan
  <1> QED BY <1>3, <1>4

\* The actions in order of priority come from one of the three lists.
LEMMA PlacesOfThree ==
  ASSUME NEW a, NEW b, NEW c, IsFiniteSet(DOMAIN a), IsFiniteSet(DOMAIN b), IsFiniteSet(DOMAIN c)
  PROVE  LET actions == Prioritized(<<a, b, c>>) IN
         /\ IsFiniteSet(DOMAIN actions)
         /\ \A p \in DOMAIN actions :
              /\ p = <<p[1], p[2]>>
              /\ \/ p[1] = 1 /\ p[2] \in DOMAIN a /\ actions[p] = a[p[2]]
                 \/ p[1] = 2 /\ p[2] \in DOMAIN b /\ actions[p] = b[p[2]]
                 \/ p[1] = 3 /\ p[2] \in DOMAIN c /\ actions[p] = c[p[2]]
  <1> DEFINE lists == <<a, b, c>>
             A == {1} \X DOMAIN a
             B == {2} \X DOMAIN b
             C == {3} \X DOMAIN c
             places == UNION {{n} \X DOMAIN lists[n] : n \in DOMAIN lists}
             actions == [p \in places |-> lists[p[1]][p[2]]]
  <1>1. DOMAIN lists = {1, 2, 3} /\ lists[1] = a /\ lists[2] = b /\ lists[3] = c OBVIOUS
  <1>2. Prioritized(<<a, b, c>>) = actions BY DEF Prioritized
  <1> HIDE DEF lists
  <1>3. places = A \cup B \cup C
    <2>1. {{n} \X DOMAIN lists[n] : n \in DOMAIN lists} = {A, B, C} BY <1>1
    <2> HIDE DEF A, B, C
    <2> QED BY <2>1
  <1>4. IsFiniteSet({1}) /\ IsFiniteSet({2}) /\ IsFiniteSet({3}) BY FS_Singleton
  <1>5. IsFiniteSet(A) /\ IsFiniteSet(B) /\ IsFiniteSet(C) BY <1>4, FS_Product
  <1>6. IsFiniteSet(places)
    <2> HIDE DEF A, B, C, places
    <2> QED BY <1>3, <1>5, FS_Union
  <1>7. ASSUME NEW p \in places
        PROVE  /\ p = <<p[1], p[2]>>
               /\ \/ p[1] = 1 /\ p[2] \in DOMAIN a
                  \/ p[1] = 2 /\ p[2] \in DOMAIN b
                  \/ p[1] = 3 /\ p[2] \in DOMAIN c
    BY <1>3, <1>7
  <1>8. DOMAIN actions = places /\ \A p \in places : actions[p] = lists[p[1]][p[2]] OBVIOUS
  <1> HIDE DEF places, actions
  <1> QED BY <1>1, <1>2, <1>6, <1>7, <1>8

\* What is selected is affordable, action by action.
LEMMA SelectedIsAffordable ==
  ASSUME NEW actions, IsFiniteSet(DOMAIN actions), NEW budget \in Nat,
         \A p \in DOMAIN actions : actions[p].costs \in Nat,
         NEW sel \in WithinBudget(actions, budget)
  PROVE  /\ sel \in SUBSET DOMAIN actions
         /\ \A p \in sel : actions[p].costs <= budget
  <1>1. sel \in SUBSET DOMAIN actions BY DEF WithinBudget
  <1>2. ASSUME NEW p \in sel PROVE actions[p].costs <= budget
    <2> DEFINE earlier == {q \in sel : Before(q, p)}
               f == [q \in earlier |-> actions[q].costs]
    <2>1. actions[p].costs + CostsOf(actions, earlier) <= budget BY <1>1 DEF WithinBudget
    <2>2. IsFiniteSet(earlier) BY <1>1, FS_Subset
    <2>3. f \in [earlier -> Int] /\ \A q \in earlier : f[q] >= 0 BY <1>1
    <2>4. CostsOf(actions, earlier) = Sum(f, earlier) BY DEF CostsOf, Sum
    <2>5. actions[p].costs \in Nat BY <1>1
    <2> HIDE DEF earlier, f
    <2>6. earlier \in SUBSET earlier OBVIOUS
    <2>7. Sum(f, earlier) \in Int /\ Sum(f, earlier) >= 0
      BY <2>2, <2>3, <2>6, SumType, SumNonNegative
    <2> QED BY <2>1, <2>4, <2>5, <2>7
  <1> QED BY <1>1, <1>2

\* No way is shorter than the 0 the search starts from.
LEMMA NoPairingIsShorter ==
  ASSUME NEW ships \in SUBSET ShipFacts, NEW actions, NEW places, IsFiniteSet(places),
         \A p \in places : actions[p].from \in Waypoints /\ actions[p].to \in Waypoints
  PROVE  BestPairings(actions, places, ships) = {{}}
  <1>1. ASSUME NEW c \in Pairings(places, ships) PROVE ~(TotalWay(actions, c) < 0)
    <2> DEFINE f == [p \in DOMAIN c |-> WayOf(actions[p], c[p])]
    <2>1. DOMAIN c = places /\ \A p \in places : c[p] \in ships BY DEF Pairings
    <2>2. \A p \in places : WayOf(actions[p], c[p]) \in Nat
      <3> TAKE p \in places
      <3>1. c[p].at \in Waypoints BY <2>1 DEF ShipFacts
      <3>2. actions[p].from \in Waypoints /\ actions[p].to \in Waypoints OBVIOUS
      <3>3. Distance \in [Waypoints \X Waypoints -> Nat] BY PlanAssumption
      <3> DEFINE x == Distance[c[p].at, actions[p].from]
                 y == Distance[actions[p].from, actions[p].to]
      <3>4. x \in Nat /\ y \in Nat BY <3>1, <3>2, <3>3
      <3>5. WayOf(actions[p], c[p]) = x + y BY DEF WayOf
      <3> HIDE DEF x, y
      <3> QED BY <3>4, <3>5
    <2>3. f \in [places -> Int] /\ \A p \in places : f[p] >= 0 BY <2>1, <2>2
    <2>4. TotalWay(actions, c) = Sum(f, places) BY <2>1 DEF TotalWay, Sum
    <2> HIDE DEF f
    <2>5. places \in SUBSET places OBVIOUS
    <2>6. Sum(f, places) \in Int /\ Sum(f, places) >= 0 BY <2>3, <2>5, SumType, SumNonNegative
    <2> QED BY <2>4, <2>6
  <1>2. ShorterPairings(actions, places, ships) = {} BY <1>1 DEF ShorterPairings
  <1> QED BY <1>2 DEF BestPairings

\* An action that is given to a ship, or a trade that has one.
LEMMA GivenAction ==
  ASSUME NEW ships \in SUBSET ShipFacts, NEW s \in ships, NEW a, NEW trades, NEW budget \in Nat,
         NEW lack \in [Goods -> Nat], NEW stock, NEW routes,
         IsChoice(a, trades, lack, stock, routes), a.kind # "Trade", a.costs <= budget
  PROVE  LET given == GivenTo(a, s) IN
         /\ IsAction(given, ships) /\ given.price * given.units <= budget
         /\ given.kind = "Deliver" => IsNecessary(given, lack, stock, routes)
  <1> DEFINE given == GivenTo(a, s)
  <1>1. /\ a.kind \in {"Deliver", "Boost"} /\ a.good \in Goods
        /\ a.from \in Waypoints /\ a.to \in Waypoints
        /\ a.units \in Nat /\ a.price \in Nat /\ a.sell \in Nat /\ a.costs \in Nat
        /\ a.price * a.units <= a.costs
        /\ a.kind = "Deliver" => IsNecessary(a, lack, stock, routes)
    BY DEF IsChoice
  <1>2. s.space \in Nat BY DEF ShipFacts
  <1>3. /\ given.kind = a.kind /\ given.ship = s.name /\ given.good = a.good /\ given.from = a.from
        /\ given.to = a.to /\ given.units = LowerOf(a.units, s.space) /\ given.price = a.price
        /\ given.sell = a.sell
    BY DEF GivenTo
  <1> HIDE DEF given
  <1>4. given.units \in Nat /\ given.units <= a.units /\ given.units <= s.space
    BY <1>1, <1>2, <1>3 DEF LowerOf
  <1>5. IsAction(given, ships) BY <1>1, <1>3, <1>4 DEF IsAction
  <1>6. given.price * given.units <= budget
    <2>1. \A x, y, z \in Nat : x <= y => z * x <= z * y OBVIOUS
    <2>2. a.price * given.units <= a.price * a.units BY <1>1, <1>4, <2>1
    <2>3. a.price * given.units \in Nat /\ a.price * a.units \in Nat BY <1>1, <1>4
    <2> QED BY <1>1, <1>3, <2>2, <2>3
  <1>7. given.kind = "Deliver" => IsNecessary(given, lack, stock, routes)
    <2> SUFFICES ASSUME given.kind = "Deliver" PROVE IsNecessary(given, lack, stock, routes)
      OBVIOUS
    <2>1. IsNecessary(a, lack, stock, routes) BY <1>1, <1>3
    <2>2. lack[a.good] \in Nat BY <1>1
    <2> QED BY <1>1, <1>3, <1>4, <2>1, <2>2 DEF IsNecessary
  <1> QED BY <1>5, <1>6, <1>7 DEF given

\* find_best_combination makes a plan of actions it can choose from.
LEMMA CombinationsArePlans ==
  ASSUME NEW ships \in SUBSET ShipFacts, IsFiniteSet(ships), NEW budget \in Nat,
         NEW trades \in SUBSET EvaluatedTrades(ships, budget),
         \A t, u \in trades : t.ship = u.ship => t = u,
         NEW lack \in [Goods -> Nat], NEW stock, NEW routes,
         NEW a, NEW b, NEW c,
         IsFiniteSet(DOMAIN a), IsFiniteSet(DOMAIN b), IsFiniteSet(DOMAIN c),
         DOMAIN a \subseteq Nat, DOMAIN b \subseteq Nat, DOMAIN c \subseteq Nat,
         \A i \in DOMAIN a : IsChoice(a[i], trades, lack, stock, routes),
         \A i \in DOMAIN b : IsChoice(b[i], trades, lack, stock, routes),
         \A i \in DOMAIN c : IsChoice(c[i], trades, lack, stock, routes),
         NEW plan \in BestCombinations(ships, Prioritized(<<a, b, c>>), budget)
  PROVE  IsPlan(plan, ships, budget, lack, stock, routes)
  <1> DEFINE actions == Prioritized(<<a, b, c>>)
             share == BudgetOfShip(budget, ships)
  <1>1. /\ IsFiniteSet(DOMAIN actions)
        /\ \A p \in DOMAIN actions :
             /\ p = <<p[1], p[2]>> /\ p[1] \in Nat /\ p[2] \in Nat
             /\ IsChoice(actions[p], trades, lack, stock, routes)
    <2>1. /\ IsFiniteSet(DOMAIN actions)
          /\ \A p \in DOMAIN actions :
               /\ p = <<p[1], p[2]>>
               /\ \/ p[1] = 1 /\ p[2] \in DOMAIN a /\ actions[p] = a[p[2]]
                  \/ p[1] = 2 /\ p[2] \in DOMAIN b /\ actions[p] = b[p[2]]
                  \/ p[1] = 3 /\ p[2] \in DOMAIN c /\ actions[p] = c[p[2]]
      BY PlacesOfThree
    <2> HIDE DEF actions
    <2> QED BY <2>1
  <1>2. \A t \in trades : IsTradeOf(t, ships, share) BY TradesType
  <1> HIDE DEF share
  <1>3. \A p \in DOMAIN actions : actions[p].costs \in Nat
    <2> HIDE DEF actions
    <2> QED BY <1>1, <1>2 DEF IsChoice, IsTradeOf
  <1>4. PICK sel \in WithinBudget(actions, budget) :
           IF Cardinality(ships) = 1 THEN plan = ForOneShip(ships, actions, sel)
           ELSE plan \in ForManyShips(ships, actions, sel)
    BY DEF BestCombinations
  <1> HIDE DEF actions
  <1>5. sel \in SUBSET DOMAIN actions /\ \A p \in sel : actions[p].costs <= budget
    BY <1>1, <1>3, SelectedIsAffordable
  <1>6. CASE Cardinality(ships) = 1
    <2>1. PICK s : ships = {s} BY <1>6, FS_Singleton
    <2> DEFINE first == {q \in sel : \A r \in sel : ~Before(r, q)}
               do(p) == IF actions[p].kind = "Trade" THEN Task(actions[p]) ELSE GivenTo(actions[p], s)
    <2>2. plan = {do(p) : p \in first}
      <3>1. plan = {IF actions[p].kind = "Trade" THEN Task(actions[p]) ELSE GivenTo(actions[p], x) :
                      x \in {s}, p \in first}
        BY <1>4, <1>6, <2>1 DEF ForOneShip
      <3> QED BY <3>1
    <2>3. \A p, q \in first : p = q
      <3> TAKE p, q \in first
      <3>1. ~Before(p, q) /\ ~Before(q, p) OBVIOUS
      <3>2. /\ p = <<p[1], p[2]>> /\ p[1] \in Nat /\ p[2] \in Nat
            /\ q = <<q[1], q[2]>> /\ q[1] \in Nat /\ q[2] \in Nat
        BY <1>1, <1>5
      <3>3. p[1] = q[1] /\ p[2] = q[2] BY <3>1, <3>2 DEF Before
      <3> QED BY <3>2, <3>3
    <2>4. ASSUME NEW p \in first
          PROVE  /\ IsAction(do(p), ships) /\ do(p).price * do(p).units <= budget
                 /\ do(p).kind = "Deliver" => IsNecessary(do(p), lack, stock, routes)
      <3> DEFINE act == actions[p]
      <3>1. IsChoice(act, trades, lack, stock, routes) /\ act.costs <= budget BY <1>1, <1>5
      <3>2. s \in ships BY <2>1
      <3>3. CASE act.kind = "Trade"
        <4>1. act \in trades BY <3>1, <3>3 DEF IsChoice
        <4>2. IsTradeOf(act, ships, share) BY <1>2, <4>1
        <4>3. share \in Nat /\ share * 1 <= budget BY <1>6, SharesOfBudget DEF share
        <4>4. do(p) = Task(act) BY <3>3
        <4> HIDE DEF act, do
        <4>5. /\ do(p).kind = "Trade" /\ do(p).ship = act.ship /\ do(p).good = act.good
              /\ do(p).from = act.from /\ do(p).to = act.to /\ do(p).units = act.units
              /\ do(p).price = act.price /\ do(p).sell = act.sell
          BY <3>3, <4>4 DEF Task
        <4>6. IsAction(do(p), ships) BY <4>2, <4>5 DEF IsAction, IsTradeOf
        <4>7. do(p).price * do(p).units <= budget BY <4>2, <4>3, <4>5 DEF IsTradeOf
        <4> QED BY <4>5, <4>6, <4>7
      <3>4. CASE act.kind # "Trade"
        <4>1. do(p) = GivenTo(act, s) BY <3>4
        <4> HIDE DEF act, do
        <4>2. /\ IsAction(GivenTo(act, s), ships)
              /\ GivenTo(act, s).price * GivenTo(act, s).units <= budget
              /\ GivenTo(act, s).kind = "Deliver" => IsNecessary(GivenTo(act, s), lack, stock, routes)
          BY <3>1, <3>2, <3>4, GivenAction
        <4> QED BY <4>1, <4>2
      <3> QED BY <3>3, <3>4
    <2> HIDE DEF do, first
    <2>5. CASE first = {}
      <3>1. plan = {} BY <2>2, <2>5
      <3> QED BY <3>1, SmallPlans
    <2>6. CASE first # {}
      <3>1. PICK p : p \in first BY <2>6
      <3>2. first = {p} BY <2>3, <3>1
      <3>3. plan = {do(p)} BY <2>2, <3>2
      <3> QED BY <2>4, <3>1, <3>3, SmallPlans
    <2> QED BY <2>5, <2>6
  <1>7. CASE Cardinality(ships) # 1
    <2> DEFINE made   == {actions[p] : p \in {q \in sel : actions[q].kind = "Trade"}}
               others == {p \in sel : actions[p].kind # "Trade"}
               idle   == {s \in ships : \A t \in made : t.ship # s.name}
    <2>1. PICK given \in BestPairings(actions, others, idle) : plan = {Task(t) : t \in made} \cup given
      BY <1>4, <1>7 DEF ForManyShips
    <2>2. IsFiniteSet(others) BY <1>1, <1>5, FS_Subset
    <2>3. \A p \in others : actions[p].from \in Waypoints /\ actions[p].to \in Waypoints
      BY <1>1, <1>5 DEF IsChoice
    <2>4. idle \in SUBSET ShipFacts OBVIOUS
    <2>5. made \in SUBSET trades BY <1>1, <1>5 DEF IsChoice
    <2> HIDE DEF made, others, idle
    <2>6. given = {} BY <2>1, <2>2, <2>3, <2>4, NoPairingIsShorter
    <2>7. plan = {Task(t) : t \in made} BY <2>1, <2>6
    <2>8. made \in SUBSET EvaluatedTrades(ships, budget) /\ \A t, u \in made : t.ship = u.ship => t = u
      BY <2>5
    <2> QED BY <2>7, <2>8, TradesArePlan
  <1> QED BY <1>6, <1>7

\* The lists the plan chooses from hold actions it can choose.
LEMMA DeliveriesAreChoices ==
  ASSUME NEW lack \in [Goods -> Nat], NEW stock, NEW budget, NEW routes, NEW trades
  PROVE  LET a == MaterialDeliveries(lack, stock, budget, routes) IN
         /\ IsFiniteSet(DOMAIN a) /\ DOMAIN a \subseteq Nat
         /\ \A i \in DOMAIN a : IsChoice(a[i], trades, lack, stock, routes)
  <1> DEFINE places == MaterialSources(lack, stock, budget, routes)
             a == [i \in places |-> Delivery(Entries[i], lack)]
  <1>1. DOMAIN Entries = 1..Len(Entries) /\ Len(Entries) \in Nat
    <2> DEFINE T == [at : Waypoints, good : Goods, type : Types, trade_volume : Nat \ {0},
                     purchase_price : Nat \ {0}, sell_price : Nat \ {0}]
    <2>1. Entries \in Seq(T) BY PlanAssumption
    <2> HIDE DEF T
    <2> QED BY <2>1, LenProperties
  <1>2. places \in SUBSET DOMAIN Entries BY DEF MaterialSources
  <1>3. IsFiniteSet(places) /\ places \subseteq Nat
    <2>1. IsFiniteSet(1..Len(Entries)) BY <1>1, FS_Interval
    <2> HIDE DEF places
    <2> QED BY <1>1, <1>2, <2>1, FS_Subset
  <1>4. ASSUME NEW i \in places PROVE IsChoice(a[i], trades, lack, stock, routes)
    <2> DEFINE e == Entries[i]
               d == Delivery(e, lack)
    <2>1. e \in Range(Entries) BY <1>2 DEF Range
    <2>2. /\ e.at \in Waypoints /\ e.good \in Goods /\ e.trade_volume \in Nat \ {0}
          /\ e.purchase_price \in Nat \ {0}
      BY <2>1, EntryType
    <2>3. e \in stock /\ \A r \in routes : r.from # e.at \/ r.good # e.good
      BY DEF MaterialSources
    <2> HIDE DEF e
    <2> DEFINE n == DeliveredUnits(e, lack)
    <2>4. lack[e.good] \in Nat BY <2>2
    <2>5. n \in Nat /\ n <= lack[e.good] BY <2>2, <2>4 DEF DeliveredUnits, LowerOf
    <2> HIDE DEF n
    <2>6. /\ d.kind = "Deliver" /\ d.good = e.good /\ d.from = e.at /\ d.to = SiteAt
          /\ d.units = n /\ d.price = e.purchase_price /\ d.sell = 0
          /\ d.costs = e.purchase_price * n
      BY DEF Delivery, n
    <2>7. a[i] = d BY DEF e
    <2> HIDE DEF d, a
    <2>8. IsNecessary(d, lack, stock, routes) BY <2>3, <2>5, <2>6 DEF IsNecessary
    <2>9. d.price * d.units = d.costs /\ d.costs \in Nat BY <2>2, <2>5, <2>6
    <2>10. SiteAt \in Waypoints BY PlanAssumption
    <2> QED BY <2>2, <2>5, <2>6, <2>7, <2>8, <2>9, <2>10 DEF IsChoice
  <1>5. MaterialDeliveries(lack, stock, budget, routes) = a BY DEF MaterialDeliveries
  <1>6. DOMAIN a = places OBVIOUS
  <1> HIDE DEF a, places
  <1> QED BY <1>3, <1>4, <1>5, <1>6

LEMMA BoostsAreChoices ==
  ASSUME NEW lack, NEW stock, NEW routes, NEW trades, NEW m
  PROVE  LET b == BoostedRoutes(routes, m) IN
         /\ IsFiniteSet(DOMAIN b) /\ DOMAIN b \subseteq Nat
         /\ \A i \in DOMAIN b : IsChoice(b[i], trades, lack, stock, routes)
  <1> DEFINE T == [from : Waypoints, to : Waypoints, good : Goods, source_volume : Nat \ {0},
                   volume : Nat \ {0}, price : Nat \ {0}, sell : Nat \ {0}, allowed : Nat]
             open == OpenBoosts(routes)
             places == {j \in open : Cardinality({l \in open : l <= j}) <= m}
             b == [i \in places |-> Boost(Boosts[i])]
  <1>t. Boosts \in Seq(T) BY PlanAssumption
  <1>1. /\ DOMAIN Boosts = 1..Len(Boosts) /\ Len(Boosts) \in Nat
        /\ \A i \in DOMAIN Boosts : Boosts[i] \in T
    <2> HIDE DEF T
    <2> QED BY <1>t, LenProperties, ElementOfSeq
  <1>2. places \in SUBSET DOMAIN Boosts BY DEF OpenBoosts
  <1>5. BoostedRoutes(routes, m) = b BY DEF BoostedRoutes
  <1>6. DOMAIN b = places /\ \A i \in places : b[i] = Boost(Boosts[i]) OBVIOUS
  <1> HIDE DEF b, places
  <1>3. IsFiniteSet(places) /\ places \subseteq Nat
    <2>1. IsFiniteSet(1..Len(Boosts)) BY <1>1, FS_Interval
    <2> QED BY <1>1, <1>2, <2>1, FS_Subset
  <1>4. ASSUME NEW i \in places PROVE IsChoice(b[i], trades, lack, stock, routes)
    <2> DEFINE r == Boosts[i]
               d == Boost(r)
    <2>1. /\ r.from \in Waypoints /\ r.to \in Waypoints /\ r.good \in Goods
          /\ r.source_volume \in Nat /\ r.volume \in Nat /\ r.price \in Nat /\ r.sell \in Nat
      BY <1>1, <1>2
    <2>2. r.volume <= r.source_volume BY <1>2, PlanAssumption
    <2> HIDE DEF r
    <2>3. /\ d.kind = "Boost" /\ d.good = r.good /\ d.from = r.from /\ d.to = r.to
          /\ d.units = r.volume /\ d.price = r.price /\ d.sell = r.sell
          /\ d.costs = r.price * r.source_volume
      BY DEF Boost
    <2>4. b[i] = d BY <1>6 DEF r
    <2> HIDE DEF d
    <2>5. d.price * d.units <= d.costs /\ d.costs \in Nat
      <3>1. \A x, y, z \in Nat : x <= y => z * x <= z * y OBVIOUS
      <3>2. r.price * r.volume <= r.price * r.source_volume BY <2>1, <2>2, <3>1
      <3> QED BY <2>1, <2>3, <3>2
    <2> QED BY <2>1, <2>3, <2>4, <2>5 DEF IsChoice
  <1> QED BY <1>3, <1>4, <1>5, <1>6

LEMMA TradesAreChoices ==
  ASSUME NEW lack, NEW stock, NEW routes, NEW trades, IsFiniteSet(trades),
         \A t \in trades : t.kind = "Trade", NEW c \in SetToSeqs(trades)
  PROVE  /\ IsFiniteSet(DOMAIN c) /\ DOMAIN c \subseteq Nat
         /\ \A i \in DOMAIN c : IsChoice(c[i], trades, lack, stock, routes)
  <1> DEFINE n == Cardinality(trades)
  <1>1. n \in Nat /\ c \in [1..n -> trades] BY FS_CardinalityType DEF SetToSeqs
  <1>2. IsFiniteSet(1..n) BY <1>1, FS_Interval
  <1>3. \A i \in DOMAIN c : c[i] \in trades /\ c[i].kind = "Trade" BY <1>1
  <1> QED BY <1>1, <1>2, <1>3 DEF IsChoice

\* What compute_ship_tasks finds for the free ships can be paid for, fits and
\* is necessary.  A fleet in debt has nothing to spend.
LEMMA PlansArePlans ==
  ASSUME NEW ships \in SUBSET ShipFacts, IsFiniteSet(ships), NEW budget \in Int,
         NEW lack \in [Goods -> Nat], NEW stock, NEW routes, NEW members,
         NEW traders, IsFiniteSet(traders),
         NEW plan \in Plans(ships, members, traders, lack, stock, budget, routes)
  PROVE  IsPlan(plan, ships, HigherOf(budget, 0), lack, stock, routes)
  <1> DEFINE money == HigherOf(budget, 0)
  <1>a. money \in Nat /\ HigherOf(money, 0) = money /\ (budget >= 0 => money = budget)
    BY DEF HigherOf
  <1> HIDE DEF money
  <1>b. EvaluatedTrades(ships, budget) = EvaluatedTrades(ships, money)
    <2>1. BudgetOfShip(budget, ships) = BudgetOfShip(money, ships) BY <1>a DEF BudgetOfShip, money
    <2> QED BY <2>1 DEF EvaluatedTrades
  <1> DEFINE options == EvaluatedTrades(ships, budget)
             n == Cardinality(traders)
  <1>1. PICK trades \in OptimalRoutes(options, {RouteOf(r) : r \in routes}) :
           plan \in IF Cardinality(members) > 2
                    THEN FleetActions(ships, trades, lack, stock, budget, n, routes)
                    ELSE {OnlyTrades(trades)}
    BY DEF Plans
  <1>n. n \in Nat BY FS_CardinalityType
  <1> HIDE DEF n
  <1>2. IsFiniteSet(options) BY FiniteTrades
  <1>3. \A t \in options : t.gain \in Int /\ t.kind = "Trade" BY <1>a, <1>b, TradesType DEF IsTradeOf
  <1> HIDE DEF options
  <1>4. trades \in SUBSET options /\ \A t, u \in trades : t.ship = u.ship => t = u
    BY <1>2, <1>3, OneTradeEach
  <1>5. trades \in SUBSET EvaluatedTrades(ships, money) BY <1>4, <1>b DEF options
  <1>6. IsPlan({Task(t) : t \in trades}, ships, money, lack, stock, routes)
    BY <1>4, <1>5, <1>a, TradesArePlan
  <1>7. CASE plan = {Task(t) : t \in trades} BY <1>6, <1>7 DEF money
  <1>8. CASE plan # {Task(t) : t \in trades}
    <2>m. budget = money
      <3>1. ~(budget < PerTrader * n) BY <1>1, <1>8 DEF FleetActions, OnlyTrades
      <3> DEFINE least == PerTrader * n
      <3>2. least \in Nat BY <1>n, PlanAssumption
      <3> HIDE DEF least
      <3>3. budget >= 0
        <4>1. ~(budget < least) BY <3>1 DEF least
        <4> QED BY <3>2, <4>1
      <3> QED BY <1>a, <3>3
    <2> DEFINE a == MaterialDeliveries(lack, stock, budget, routes)
               b == BoostedRoutes(routes, Cardinality(ships))
    <2>1. PICK c \in SetToSeqs(trades) :
             plan \in BestCombinations(ships, Prioritized(<<a, b, c>>), money)
      BY <1>1, <1>8, <2>m DEF FleetActions, OnlyTrades
    <2>2. IsFiniteSet(trades) /\ \A t \in trades : t.kind = "Trade" BY <1>2, <1>3, <1>4, FS_Subset
    <2>3. /\ IsFiniteSet(DOMAIN a) /\ DOMAIN a \subseteq Nat
          /\ \A i \in DOMAIN a : IsChoice(a[i], trades, lack, stock, routes)
      BY DeliveriesAreChoices
    <2>4. /\ IsFiniteSet(DOMAIN b) /\ DOMAIN b \subseteq Nat
          /\ \A i \in DOMAIN b : IsChoice(b[i], trades, lack, stock, routes)
      BY BoostsAreChoices
    <2>5. /\ IsFiniteSet(DOMAIN c) /\ DOMAIN c \subseteq Nat
          /\ \A i \in DOMAIN c : IsChoice(c[i], trades, lack, stock, routes)
      BY <2>2, TradesAreChoices
    <2> HIDE DEF a, b
    <2> QED BY <1>4, <1>5, <1>a, <2>1, <2>3, <2>4, <2>5, CombinationsArePlans DEF money
  <1> QED BY <1>7, <1>8

-----------------------------------------------------------------------------
(* Units and costs of sets of tickets *)

LEMMA UnitsOfSets ==
  ASSUME NEW S, IsFiniteSet(S), \A k \in S : k.units \in Nat
  PROVE  /\ UnitsOfAll({}) = 0
         /\ \A T \in SUBSET S : UnitsOfAll(T) \in Nat
         /\ \A k \in S : UnitsOfAll({k}) = k.units
         /\ \A T, U \in SUBSET S : T \cap U = {} => UnitsOfAll(T \cup U) = UnitsOfAll(T) + UnitsOfAll(U)
  <1> DEFINE f == [k \in S |-> k.units]
  <1>1. f \in [S -> Int] /\ \A k \in S : f[k] = k.units /\ f[k] >= 0 OBVIOUS
  <1>2. ASSUME NEW T \in SUBSET S PROVE UnitsOfAll(T) = Sum(f, T)
    <2> DEFINE h == [k \in T |-> k.units]
    <2>1. h \in [T -> Int] /\ \A k \in T : h[k] = f[k] OBVIOUS
    <2>2. UnitsOfAll(T) = Sum(h, T) BY DEF UnitsOfAll, Sum
    <2> HIDE DEF h, f
    <2>3. Sum(h, T) = Sum(f, T) BY <1>1, <2>1, SumRestrict
    <2> QED BY <2>2, <2>3
  <1> HIDE DEF f
  <1>3. {} \in SUBSET S /\ Sum(f, {}) = 0 BY <1>1, SumEmpty
  <1>4. ASSUME NEW T \in SUBSET S PROVE UnitsOfAll(T) \in Nat
    <2>1. Sum(f, T) \in Int /\ Sum(f, T) >= 0 BY <1>1, SumType, SumNonNegative
    <2> QED BY <1>2, <2>1
  <1>5. ASSUME NEW k \in S PROVE UnitsOfAll({k}) = k.units
    <2>1. k \in {k} /\ {k} \in SUBSET S /\ {k} \ {k} = {} OBVIOUS
    <2>2. Sum(f, {k}) = f[k] + Sum(f, {k} \ {k}) BY <1>1, <2>1, SumSplit
    <2>3. f[k] = k.units /\ f[k] \in Int BY <1>1
    <2> QED BY <1>2, <1>3, <2>1, <2>2, <2>3
  <1>6. ASSUME NEW T \in SUBSET S, NEW U \in SUBSET S, T \cap U = {}
        PROVE  UnitsOfAll(T \cup U) = UnitsOfAll(T) + UnitsOfAll(U)
    <2>1. Sum(f, T \cup U) = Sum(f, T) + Sum(f, U) BY <1>1, <1>6, SumUnion
    <2>2. T \cup U \in SUBSET S OBVIOUS
    <2> QED BY <1>2, <2>1, <2>2
  <1> QED BY <1>2, <1>3, <1>4, <1>5, <1>6

LEMMA CostsOfSets ==
  ASSUME NEW S, IsFiniteSet(S), \A k \in S : k.units \in Nat /\ k.price \in Nat
  PROVE  /\ ReservedBy({}) = 0
         /\ \A T \in SUBSET S : ReservedBy(T) \in Nat
         /\ \A k \in S : ReservedBy({k}) = Cost(k) /\ Cost(k) \in Nat
         /\ \A T, U \in SUBSET S : T \cap U = {} => ReservedBy(T \cup U) = ReservedBy(T) + ReservedBy(U)
  <1> DEFINE f == [k \in S |-> Cost(k)]
  <1>1. f \in [S -> Int] /\ \A k \in S : f[k] = Cost(k) /\ f[k] >= 0 /\ Cost(k) \in Nat BY DEF Cost
  <1>2. ASSUME NEW T \in SUBSET S PROVE ReservedBy(T) = Sum(f, T)
    <2> DEFINE h == [k \in T |-> Cost(k)]
    <2>1. h \in [T -> Int] /\ \A k \in T : h[k] = f[k] BY <1>1
    <2>2. ReservedBy(T) = Sum(h, T) BY DEF ReservedBy, Sum
    <2> HIDE DEF h, f
    <2>3. Sum(h, T) = Sum(f, T) BY <1>1, <2>1, SumRestrict
    <2> QED BY <2>2, <2>3
  <1> HIDE DEF f
  <1>3. {} \in SUBSET S /\ Sum(f, {}) = 0 BY <1>1, SumEmpty
  <1>4. ASSUME NEW T \in SUBSET S PROVE ReservedBy(T) \in Nat
    <2>1. Sum(f, T) \in Int /\ Sum(f, T) >= 0 BY <1>1, SumType, SumNonNegative
    <2> QED BY <1>2, <2>1
  <1>5. ASSUME NEW k \in S PROVE ReservedBy({k}) = Cost(k) /\ Cost(k) \in Nat
    <2>1. k \in {k} /\ {k} \in SUBSET S /\ {k} \ {k} = {} OBVIOUS
    <2>2. Sum(f, {k}) = f[k] + Sum(f, {k} \ {k}) BY <1>1, <2>1, SumSplit
    <2>3. f[k] = Cost(k) /\ f[k] \in Int /\ Cost(k) \in Nat BY <1>1
    <2> QED BY <1>2, <1>3, <2>1, <2>2, <2>3
  <1>6. ASSUME NEW T \in SUBSET S, NEW U \in SUBSET S, T \cap U = {}
        PROVE  ReservedBy(T \cup U) = ReservedBy(T) + ReservedBy(U)
    <2>1. Sum(f, T \cup U) = Sum(f, T) + Sum(f, U) BY <1>1, <1>6, SumUnion
    <2>2. T \cup U \in SUBSET S OBVIOUS
    <2> QED BY <1>2, <2>1, <2>2
  <1> QED BY <1>2, <1>3, <1>4, <1>5, <1>6

-----------------------------------------------------------------------------
(* Cargo without tickets *)

\* What one market asks for a good in relation to the way there can be compared.
LEMMA WorthIsOrdered ==
  ASSUME NEW p \in Nat, NEW q \in Nat, NEW r \in Nat,
         NEW a \in Nat \ {0}, NEW b \in Nat \ {0}, NEW c \in Nat \ {0}
  PROVE  /\ p * b <= q * a \/ q * a <= p * b
         /\ p * b <= q * a /\ q * c <= r * b => p * c <= r * a
  <1>1. p * b \in Nat /\ q * a \in Nat OBVIOUS
  <1>2. ASSUME p * b <= q * a, q * c <= r * b PROVE p * c <= r * a
    <2>1. (p * b) * c <= (q * a) * c /\ (q * c) * a <= (r * b) * a
      <3>1. \A x, y, z \in Nat : x <= y => x * z <= y * z OBVIOUS
      <3>2. p * b \in Nat /\ q * a \in Nat /\ q * c \in Nat /\ r * b \in Nat OBVIOUS
      <3> QED BY <1>2, <3>1, <3>2
    <2>2. /\ (p * b) * c = (p * c) * b /\ (q * a) * c = (q * c) * a
          /\ (r * b) * a = (r * a) * b
      OBVIOUS
    <2> DEFINE u == p * c
               v == r * a
               w == (q * c) * a
    <2>3. u \in Nat /\ v \in Nat /\ w \in Nat OBVIOUS
    <2>4. u * b <= w /\ w <= v * b BY <2>1, <2>2
    <2> HIDE DEF u, v, w
    <2>5. u * b <= v * b BY <2>3, <2>4
    <2>6. u <= v
      <3>1. u > v => u * b > v * b BY <2>3
      <3> QED BY <2>3, <2>5, <3>1
    <2> QED BY <2>6 DEF u, v
  <1> QED BY <1>1, <1>2

\* A good that is sold somewhere has a best place to sell it.
LEMMA SellingEntryType ==
  ASSUME NEW good, NEW wp \in Waypoints, IsSold(good)
  PROVE  SellingEntry(good, wp) \in Sinks
  <1> DEFINE buyers == {e \in Sinks : e.good = good}
             price(e) == WorthOf(e, wp).price
             way(e) == WorthOf(e, wp).way
             R == {p \in buyers \X buyers : price(p[1]) * way(p[2]) <= price(p[2]) * way(p[1])}
  <1>1. IsFiniteSet(buyers) /\ buyers # {}
    <2>1. buyers \subseteq Range(Entries) BY DEF Sinks
    <2>2. buyers # {} BY DEF IsSold
    <2> QED BY <2>1, <2>2, FiniteEntries, FS_Subset
  <1>2. \A e \in buyers : price(e) \in Nat /\ way(e) \in Nat \ {0}
    <2> TAKE e \in buyers
    <2>1. e \in Range(Entries) BY DEF Sinks
    <2>2. e.at \in Waypoints /\ e.purchase_price \in Nat BY <2>1, EntryType
    <2>3. Distance[wp, e.at] \in Nat BY <2>2, PlanAssumption
    <2>4. price(e) = e.purchase_price /\ way(e) = HigherOf(1, Distance[wp, e.at]) BY DEF WorthOf
    <2> HIDE DEF price, way
    <2> DEFINE d == Distance[wp, e.at]
    <2>d. d \in Nat BY <2>3
    <2> HIDE DEF d
    <2>5. HigherOf(1, d) \in Nat \ {0} BY <2>d DEF HigherOf
    <2> QED BY <2>2, <2>4, <2>5 DEF d
  <1>3. \A x, y \in buyers : <<x, y>> \in R <=> price(x) * way(y) <= price(y) * way(x) OBVIOUS
  <1>4. SellingEntry(good, wp) = CHOOSE e \in buyers : \A f \in buyers : price(f) * way(e) <= price(e) * way(f)
    BY DEF SellingEntry
  <1> HIDE DEF R, buyers, price, way
  <1>5. \A x, y \in buyers : <<x, y>> \in R \/ <<y, x>> \in R
    <2> TAKE x, y \in buyers
    <2>1. price(x) * way(y) <= price(y) * way(x) \/ price(y) * way(x) <= price(x) * way(y)
      BY <1>2, WorthIsOrdered
    <2> QED BY <1>3, <2>1
  <1>6. \A x, y, z \in buyers : <<x, y>> \in R /\ <<y, z>> \in R => <<x, z>> \in R
    <2> TAKE x, y, z \in buyers
    <2> HAVE <<x, y>> \in R /\ <<y, z>> \in R
    <2>1. price(x) * way(y) <= price(y) * way(x) /\ price(y) * way(z) <= price(z) * way(y)
      BY <1>3
    <2>2. price(x) * way(z) <= price(z) * way(x) BY <1>2, <2>1, WorthIsOrdered
    <2> QED BY <1>3, <2>2
  <1>7. \E m \in buyers : \A x \in buyers : <<x, m>> \in R BY <1>1, <1>5, <1>6, LastOfAll
  <1>8. \E e \in buyers : \A f \in buyers : price(f) * way(e) <= price(e) * way(f) BY <1>3, <1>7
  <1>9. SellingEntry(good, wp) \in buyers BY <1>4, <1>8
  <1> QED BY <1>9 DEF buyers

\* A cargo is sold in batches that are together the cargo.
LEMMA BatchesType ==
  ASSUME NEW n \in Nat, NEW v \in Nat \ {0}
  PROVE  LET batches == Batches(n, v)
             q == n \div v
             r == n % v
         IN  /\ q \in Nat /\ r \in Nat /\ (v * q) + r = n
             /\ \/ DOMAIN batches = {} /\ n = 0
                \/ DOMAIN batches = {1} /\ batches[1] = n
                \/ /\ DOMAIN batches = 1..(q + 1)
                   /\ \A i \in 1..q : batches[i] = v
                   /\ batches[q + 1] = r
  <1> DEFINE q == n \div v
             r == n % v
  <1>1. q \in Nat /\ r \in Nat /\ (v * q) + r = n OBVIOUS
  <1>2. CASE n = 0
    <2>1. Batches(n, v) = <<>> BY <1>2 DEF Batches
    <2> QED BY <1>1, <1>2, <2>1
  <1>3. CASE n # 0 /\ n <= v
    <2>1. Batches(n, v) = <<n>> BY <1>3 DEF Batches
    <2> QED BY <1>1, <2>1
  <1>4. CASE ~(n = 0) /\ ~(n <= v)
    <2> DEFINE full == [i \in 1..q |-> v]
               last == <<r>>
    <2>1. Batches(n, v) = full \o last BY <1>4 DEF Batches
    <2> HIDE DEF q, r
    <2>2. full \in Seq(Nat) /\ Len(full) = q /\ \A i \in 1..q : full[i] = v BY <1>1
    <2>3. last \in Seq(Nat) /\ Len(last) = 1 /\ last[1] = r BY <1>1
    <2> HIDE DEF full, last
    <2>4. /\ Len(full \o last) = q + 1 /\ full \o last \in Seq(Nat)
          /\ \A i \in 1..(q + 1) : (full \o last)[i] = IF i <= q THEN full[i] ELSE last[i - q]
      <3>1. full \in Seq(Nat) /\ last \in Seq(Nat) BY <2>2, <2>3
      <3>2. /\ full \o last \in Seq(Nat)
            /\ Len(full \o last) = Len(full) + Len(last)
            /\ \A i \in 1..(Len(full) + Len(last)) :
                 (full \o last)[i] = IF i <= Len(full) THEN full[i] ELSE last[i - Len(full)]
        BY ONLY <3>1, ConcatProperties
      <3> QED BY <2>2, <2>3, <3>2
    <2>5. DOMAIN (full \o last) = 1..(q + 1) BY <2>4, LenProperties
    <2>6. \A i \in 1..q : (full \o last)[i] = v BY <1>1, <2>2, <2>4
    <2>7. (full \o last)[q + 1] = r
      <3>1. q + 1 \in 1..(q + 1) /\ ~(q + 1 <= q) /\ (q + 1) - q = 1 BY <1>1
      <3> QED BY <2>3, <2>4, <3>1
    <2> QED BY <1>1, <2>1, <2>5, <2>6, <2>7 DEF q, r
  <1> QED BY <1>2, <1>3, <1>4

\* The tickets for a good on board are for no more than there is of it.
LEMMA LeftoverUnits ==
  ASSUME Typed, NEW s \in Ships, NEW g \in Goods
  PROVE  LET left == LeftoverTickets(s, g) IN
         /\ left \in SUBSET TicketSet /\ IsFiniteSet(left)
         /\ \A k \in left : /\ k.ship = s /\ k.good = g /\ k.from = Nowhere
                            /\ k.kind \in {"Sell", "Supply"}
         /\ UnitsOfAll(left) <= stored[s].inv[g]
  <1> DEFINE left == LeftoverTickets(s, g)
             n == stored[s].inv[g]
             entry == SellingEntry(g, at[s])
             batches == Batches(n, entry.trade_volume)
             sale(i) == Ticket(s, "Sell", g, entry.at, batches[i], entry.sell_price, Nowhere, i)
  <1>1. n \in Nat /\ at[s] \in Waypoints /\ known[g] \in Nat /\ SiteAt \in Waypoints
    BY PlanAssumption DEF Typed, Cargos, Inventories
  <1>2. CASE known[g] > 0
    <2> DEFINE k == Ticket(s, "Supply", g, SiteAt, LowerOf(known[g], n), 0, Nowhere, 0)
    <2>1. left = {k} BY <1>2 DEF LeftoverTickets
    <2>2. LowerOf(known[g], n) \in Nat /\ LowerOf(known[g], n) <= n BY <1>1 DEF LowerOf
    <2>3. /\ k \in TicketSet /\ k.ship = s /\ k.good = g /\ k.from = Nowhere /\ k.kind = "Supply"
          /\ k.units \in Nat /\ k.units <= n
      BY <1>1, <2>2 DEF Ticket, TicketSet
    <2> HIDE DEF k, left, n
    <2>4. IsFiniteSet({k}) BY FS_Singleton
    <2>5. UnitsOfAll({k}) = k.units BY <2>3, <2>4, UnitsOfSets
    <2> QED BY <2>1, <2>3, <2>4, <2>5 DEF left, n
  <1>3. CASE ~(known[g] > 0) /\ ~IsSold(g)
    <2>1. left = {} BY <1>3 DEF LeftoverTickets
    <2>2. IsFiniteSet({}) BY FS_EmptySet
    <2>3. UnitsOfAll({}) = 0 BY <2>2, UnitsOfSets
    <2> HIDE DEF left, n
    <2> QED BY <1>1, <2>1, <2>2, <2>3 DEF left, n
  <1>4. CASE ~(known[g] > 0) /\ IsSold(g)
    <2>1. entry \in Range(Entries) BY <1>1, <1>4, SellingEntryType DEF Sinks
    <2>2. entry.at \in Waypoints /\ entry.trade_volume \in Nat \ {0} /\ entry.sell_price \in Nat
      BY <2>1, EntryType
    <2> DEFINE v == entry.trade_volume
               q == n \div v
               r == n % v
    <2>3. /\ q \in Nat /\ r \in Nat /\ (v * q) + r = n
          /\ \/ DOMAIN batches = {} /\ n = 0
             \/ DOMAIN batches = {1} /\ batches[1] = n
             \/ /\ DOMAIN batches = 1..(q + 1)
                /\ \A i \in 1..q : batches[i] = v
                /\ batches[q + 1] = r
      BY <1>1, <2>2, BatchesType
    <2>4. left = {sale(i) : i \in DOMAIN batches} BY <1>4 DEF LeftoverTickets
    <2> DEFINE D == DOMAIN batches
    <2>5. D \subseteq Nat /\ IsFiniteSet(D)
      <3> HIDE DEF batches, left, n, v, q, r
      <3>1. IsFiniteSet({}) BY FS_EmptySet
      <3>2. IsFiniteSet({1}) BY FS_Singleton
      <3>3. 1 \in Int /\ q + 1 \in Int BY <2>3
      <3>4. IsFiniteSet(1..(q + 1)) BY <3>3, FS_Interval
      <3> QED BY <2>3, <3>1, <3>2, <3>4
    <2>v. v \in Nat \ {0} BY <2>2
    <2> HIDE DEF batches, left, n, v, q, r
    <2>6. \A i \in D : batches[i] \in Nat BY <1>1, <2>v, <2>3
    <2>7. \A i \in D : /\ sale(i) \in TicketSet /\ sale(i).ship = s /\ sale(i).good = g
                       /\ sale(i).from = Nowhere /\ sale(i).kind = "Sell"
                       /\ sale(i).units = batches[i] /\ sale(i).nr = i
      BY <1>1, <2>2, <2>5, <2>6 DEF Ticket, TicketSet
    <2> HIDE DEF sale, entry
    <2> DEFINE f == [i \in D |-> sale(i)]
    <2>8. \A I \in SUBSET D : /\ IsFiniteSet({sale(i) : i \in I})
                              /\ Cardinality({sale(i) : i \in I}) <= Cardinality(I)
      <3> TAKE I \in SUBSET D
      <3>1. {sale(i) : i \in I} = {f[i] : i \in I} OBVIOUS
      <3> HIDE DEF f, D
      <3>2. IsFiniteSet(I) BY <2>5, FS_Subset
      <3> QED BY <3>1, <3>2, FiniteImage
    <2>9. IsFiniteSet(left) /\ \A k \in left : k \in TicketSet /\ k.units \in Nat
      <3>1. D \in SUBSET D OBVIOUS
      <3>2. IsFiniteSet(left) BY <2>4, <2>8, <3>1
      <3>3. \A k \in left : k \in TicketSet /\ k.units \in Nat BY <2>4, <2>6, <2>7
      <3> QED BY <3>2, <3>3
    <2>10. UnitsOfAll(left) <= n
      <3>1. CASE D = {} /\ n = 0
        <4>1. left = {} BY <2>4, <3>1
        <4>2. UnitsOfAll({}) = 0 BY <2>9, UnitsOfSets
        <4> QED BY <3>1, <4>1, <4>2
      <3>2. CASE D = {1} /\ batches[1] = n
        <4>1. left = {sale(1)} /\ sale(1) \in left BY <2>4, <3>2
        <4>2. UnitsOfAll({sale(1)}) = sale(1).units BY <2>9, <4>1, UnitsOfSets
        <4>3. sale(1).units = n BY <2>7, <3>2
        <4> QED BY <1>1, <4>1, <4>2, <4>3 DEF n
      <3>3. CASE /\ D = 1..(q + 1)
                 /\ \A i \in 1..q : batches[i] = v
                 /\ batches[q + 1] = r
        <4> DEFINE full == {sale(i) : i \in 1..q}
                   last == sale(q + 1)
        <4>1. 1..q \subseteq D /\ q + 1 \in D /\ q + 1 \notin 1..q BY <2>3, <3>3
        <4>2. left = full \cup {last}
          <5>1. D = (1..q) \cup {q + 1} BY <2>3, <3>3
          <5> QED BY <2>4, <5>1
        <4>3. last.units = r /\ last.nr = q + 1 BY <2>7, <3>3, <4>1
        <4>4. \A k \in full : k.units = v /\ k.nr # q + 1 BY <2>7, <3>3, <4>1
        <4>5. full \cap {last} = {} BY <4>3, <4>4
        <4>6. Cardinality(full) \in Nat /\ Cardinality(full) <= q
          <5>1. Cardinality(1..q) = q BY <2>3, FS_Interval
          <5>2. IsFiniteSet(full) /\ Cardinality(full) <= Cardinality(1..q) BY <2>8, <4>1
          <5> QED BY <5>1, <5>2, FS_CardinalityType
        <4> HIDE DEF full, last, D
        <4>7. full \in SUBSET left /\ {last} \in SUBSET left /\ last \in left BY <4>2
        <4> DEFINE h == [k \in left |-> k.units]
        <4>8. h \in [left -> Int] /\ \A k \in full : h[k] <= v
          <5>1. v \in Nat /\ v <= v BY <2>v
          <5> QED BY <2>9, <4>4, <4>7, <5>1
        <4>9. UnitsOfAll(full) <= v * Cardinality(full)
          <5> DEFINE u == [k \in full |-> k.units]
          <5>1. u \in [full -> Int] /\ \A k \in full : u[k] <= v
            <6>1. \A k \in full : k.units \in Nat /\ k.units <= v BY <2>9, <4>4, <4>7, <2>v
            <6> QED BY <6>1
          <5>2. UnitsOfAll(full) = Sum(u, full) BY DEF UnitsOfAll, Sum
          <5>3. IsFiniteSet(full) /\ full \in SUBSET full /\ v \in Nat BY <2>9, <4>7, <2>v, FS_Subset
          <5> HIDE DEF u
          <5>4. Sum(u, full) <= v * Cardinality(full) BY ONLY <5>1, <5>3, SumAtMost
          <5> QED BY <5>2, <5>4
        <4>10. v * Cardinality(full) <= v * q
          <5>1. \A x, y, z \in Nat : x <= y => z * x <= z * y OBVIOUS
          <5> QED BY <2>v, <2>3, <4>6, <5>1
        <4>11. UnitsOfAll(left) = UnitsOfAll(full) + UnitsOfAll({last})
          BY <2>9, <4>2, <4>5, <4>7, UnitsOfSets
        <4>12. UnitsOfAll({last}) = r BY <2>9, <4>3, <4>7, UnitsOfSets
        <4>13. UnitsOfAll(full) \in Nat BY <2>9, <4>7, UnitsOfSets
        <4>14. v * Cardinality(full) \in Nat /\ v * q \in Nat BY <2>v, <2>3, <4>6
        <4> QED BY <2>3, <4>9, <4>10, <4>11, <4>12, <4>13, <4>14, <1>1
      <3> QED BY <2>3, <3>1, <3>2, <3>3
    <2>11. \A k \in left : k.ship = s /\ k.good = g /\ k.from = Nowhere /\ k.kind = "Sell"
      BY <2>4, <2>7
    <2> QED BY <2>9, <2>10, <2>11 DEF left, n
  <1> QED BY <1>2, <1>3, <1>4

-----------------------------------------------------------------------------
(* The tickets that compute_ship_tasks makes *)

\* A ticket has what a ticket has.
LEMMA TicketType ==
  ASSUME NEW k \in TicketSet
  PROVE  /\ k.ship \in Ships /\ k.kind \in {"Purchase", "Sell", "Supply"} /\ k.good \in Goods
         /\ k.at \in Waypoints /\ k.units \in Nat /\ k.price \in Nat
         /\ k.from \in Waypoints \cup {Nowhere} /\ k.nr \in Nat
  BY DEF TicketSet

LEMMA CargoType ==
  ASSUME NEW cargo \in Cargos
  PROVE  /\ cargo.units \in Nat /\ cargo.inv \in [Goods -> Nat]
         /\ cargo = [units |-> cargo.units, inv |-> cargo.inv]
  BY DEF Cargos, Inventories

\* What the purchases leave of the fleet's capital.
LEMMA AvailableType ==
  ASSUME Typed, PurchasesAreCovered
  PROVE  /\ Available \in Int /\ Available = capital - ReservedBy(Purchases)
         /\ ReservedBy(Purchases) \in Nat /\ ReservedBy(Purchases) <= capital + fuel
  <1>1. IsFiniteSet(tickets) /\ \A k \in tickets : k.units \in Nat /\ k.price \in Nat
    BY TicketType DEF Typed
  <1>2. Purchases \in SUBSET tickets BY DEF Purchases
  <1>3. ReservedBy(Purchases) \in Nat BY <1>1, <1>2, CostsOfSets
  <1>4. capital \in Int /\ ReservedBy(Purchases) <= capital + fuel BY DEF Typed, PurchasesAreCovered
  <1> QED BY <1>3, <1>4 DEF Available

\* The plan is one for the free ships, whose holds are empty.
LEMMA PlanForFreeShips ==
  ASSUME Typed, PurchasesAreCovered, NEW members \in SUBSET Ships, NEW idle \in SUBSET members,
         NEW plan \in ReadyPlans(FreeOf(idle), members)
  PROVE  /\ IsFiniteSet(plan)
         /\ \A a \in plan :
              /\ a.kind \in {"Trade", "Deliver", "Boost"} /\ a.good \in Goods
              /\ a.from \in Waypoints /\ a.to \in Waypoints
              /\ a.units \in Nat /\ a.price \in Nat /\ a.sell \in Nat
              /\ a.ship \in FreeOf(idle) /\ a.ship \in Ships
              /\ stored[a.ship].units = 0 /\ a.units <= Capacity[a.ship]
              /\ TicketsOf(a.ship) = {}
         /\ \A a \in plan : a.kind = "Deliver" => plan = {a} /\ IsNecessary(a, known, stocked, Routes)
         /\ \A a, b \in plan : a.ship = b.ship => a = b
         /\ CostOfPlan(plan) <= HigherOf(Available, 0)
  <1> DEFINE free == FreeOf(idle)
             ships == {Facts(s) : s \in free}
  <1>1. ASSUME NEW s \in free
        PROVE  s \in Ships /\ stored[s].units = 0 /\ TicketsOf(s) = {}
    <2>1. s \in idle /\ s \notin Waiting(idle) /\ s \notin Loaded(idle) BY DEF FreeOf
    <2>2. s \in Ships /\ TicketsOf(s) = {} /\ ~(stored[s].units > 0) BY <2>1 DEF Waiting, Loaded
    <2>3. stored[s].units \in Nat BY <2>2, CargoType DEF Typed
    <2> QED BY <2>2, <2>3
  <1>2. \A s \in free : /\ Facts(s) \in ShipFacts /\ Facts(s).name = s /\ Facts(s).space = Capacity[s]
    <2> TAKE s \in free
    <2>1. s \in Ships /\ stored[s].units = 0 /\ at[s] \in Waypoints /\ Capacity[s] \in Nat
      BY <1>1, FleetAssumption DEF Typed
    <2>2. SpaceLeft(stored[s], Capacity[s]) = Capacity[s] BY <2>1 DEF SpaceLeft
    <2> QED BY <2>1, <2>2 DEF Facts, ShipFacts
  <1>3. IsFiniteSet(ships)
    <2>1. free \in SUBSET Ships BY <1>1
    <2>2. IsFiniteSet(free) BY <2>1, FleetAssumption, FS_Subset
    <2> DEFINE facts == [s \in free |-> Facts(s)]
    <2>3. ships = {facts[s] : s \in free} OBVIOUS
    <2> HIDE DEF facts, free, ships
    <2> QED BY <2>2, <2>3, FiniteImage
  <1>4. ships \in SUBSET ShipFacts BY <1>2
  <1>5. Available \in Int /\ IsFiniteSet(members) BY AvailableType, FleetAssumption, FS_Subset
  <1>6. known \in [Goods -> Nat] BY DEF Typed
  <1>7. plan \in Plans(ships, members, members, known, stocked, Available, Routes) BY DEF ReadyPlans
  <1>8. \A x \in ships : \E s \in free : x.name = s /\ x.space = Capacity[s] BY <1>2
  <1> HIDE DEF ships, free
  <1>9. IsPlan(plan, ships, HigherOf(Available, 0), known, stocked, Routes)
    BY <1>3, <1>4, <1>5, <1>6, <1>7, PlansArePlans
  <1>10. \A a \in plan : \E s \in free : a.ship = s /\ a.units <= Capacity[s]
    BY <1>8, <1>9 DEF IsPlan, IsAction
  <1>11. \A a \in plan : /\ a.ship \in free /\ a.units <= Capacity[a.ship] /\ a.ship \in Ships
                         /\ stored[a.ship].units = 0 /\ TicketsOf(a.ship) = {}
    BY <1>1, <1>10
  <1>12. \A a \in plan :
              /\ a.kind \in {"Trade", "Deliver", "Boost"} /\ a.good \in Goods
              /\ a.from \in Waypoints /\ a.to \in Waypoints
              /\ a.units \in Nat /\ a.price \in Nat /\ a.sell \in Nat
    BY <1>9 DEF IsPlan, IsAction
  <1> QED BY <1>9, <1>11, <1>12 DEF IsPlan, free

\* The tickets for the cargo of the loaded ships.
LeftoversOf(idle) == UNION {UNION {LeftoverTickets(s, g) : g \in InCargo(stored[s])} : s \in Loaded(idle)}

LEMMA LeftoversType ==
  ASSUME Typed, NEW idle \in SUBSET Ships
  PROVE  /\ IsFiniteSet(LeftoversOf(idle))
         /\ \A k \in LeftoversOf(idle) :
              /\ k \in TicketSet /\ k.from = Nowhere /\ k.kind \in {"Sell", "Supply"}
              /\ k.ship \in Loaded(idle) /\ k \in LeftoverTickets(k.ship, k.good)
  <1> DEFINE ofShip(s) == UNION {LeftoverTickets(s, g) : g \in InCargo(stored[s])}
  <1>1. \A s \in Ships, g \in Goods :
          /\ LeftoverTickets(s, g) \in SUBSET TicketSet /\ IsFiniteSet(LeftoverTickets(s, g))
          /\ \A k \in LeftoverTickets(s, g) :
               k.ship = s /\ k.good = g /\ k.from = Nowhere /\ k.kind \in {"Sell", "Supply"}
    BY LeftoverUnits
  <1>2. ASSUME NEW s \in Ships PROVE IsFiniteSet(ofShip(s))
    <2> DEFINE G == InCargo(stored[s])
               f == [g \in G |-> LeftoverTickets(s, g)]
    <2>1. G \in SUBSET Goods BY DEF InCargo
    <2>2. IsFiniteSet(G) BY <2>1, FleetAssumption, FS_Subset
    <2>3. \A g \in G : IsFiniteSet(f[g]) BY <1>1, <2>1
    <2>4. ofShip(s) = UNION {f[g] : g \in G} OBVIOUS
    <2> HIDE DEF f, G, ofShip
    <2>5. IsFiniteSet({f[g] : g \in G}) BY <2>2, FiniteImage
    <2>6. \A T \in {f[g] : g \in G} : IsFiniteSet(T) BY <2>3
    <2> QED BY <2>4, <2>5, <2>6, FS_UNION
  <1>3. Loaded(idle) \in SUBSET Ships BY DEF Loaded
  <1>4. IsFiniteSet(LeftoversOf(idle))
    <2> DEFINE S == Loaded(idle)
               f == [s \in S |-> ofShip(s)]
    <2>1. IsFiniteSet(S) BY <1>3, FleetAssumption, FS_Subset
    <2>2. \A s \in S : IsFiniteSet(f[s]) BY <1>2, <1>3
    <2>3. LeftoversOf(idle) = UNION {f[s] : s \in S} BY DEF LeftoversOf
    <2> HIDE DEF f, S
    <2>4. IsFiniteSet({f[s] : s \in S}) BY <2>1, FiniteImage
    <2>5. \A T \in {f[s] : s \in S} : IsFiniteSet(T) BY <2>2
    <2> QED BY <2>3, <2>4, <2>5, FS_UNION
  <1>5. ASSUME NEW k \in LeftoversOf(idle)
        PROVE  /\ k \in TicketSet /\ k.from = Nowhere /\ k.kind \in {"Sell", "Supply"}
               /\ k.ship \in Loaded(idle) /\ k \in LeftoverTickets(k.ship, k.good)
    <2>0. PICK s \in Loaded(idle) : k \in UNION {LeftoverTickets(s, g) : g \in InCargo(stored[s])}
      BY DEF LeftoversOf
    <2>1. PICK g \in InCargo(stored[s]) : k \in LeftoverTickets(s, g) BY <2>0
    <2>2. s \in Ships /\ g \in Goods BY <1>3 DEF InCargo
    <2>3. k \in TicketSet /\ k.ship = s /\ k.good = g /\ k.from = Nowhere /\ k.kind \in {"Sell", "Supply"}
      BY <1>1, <2>1, <2>2
    <2> QED BY <2>1, <2>3
  <1> QED BY <1>4, <1>5

\* The two tickets of an action.
LEMMA TicketsOfAction ==
  ASSUME NEW a, a.good \in Goods, a.from \in Waypoints, a.to \in Waypoints, a.units \in Nat,
         a.price \in Nat, a.sell \in Nat, a.ship \in Ships
  PROVE  /\ PurchaseOf(a) \in TicketSet /\ DeliveryOf(a) \in TicketSet
         /\ PurchaseOf(a).ship = a.ship /\ PurchaseOf(a).kind = "Purchase"
         /\ PurchaseOf(a).good = a.good /\ PurchaseOf(a).units = a.units
         /\ PurchaseOf(a).price = a.price
         /\ DeliveryOf(a).ship = a.ship /\ DeliveryOf(a).kind \in {"Sell", "Supply"}
         /\ DeliveryOf(a).kind = "Supply" <=> a.kind = "Deliver"
         /\ DeliveryOf(a).good = a.good /\ DeliveryOf(a).units = a.units
         /\ DeliveryOf(a).from = a.from /\ a.from # Nowhere
         /\ PurchaseOf(a) # DeliveryOf(a)
  <1>1. PurchaseOf(a) = [ship |-> a.ship, kind |-> "Purchase", good |-> a.good, at |-> a.from,
                         units |-> a.units, price |-> a.price, from |-> Nowhere, nr |-> 0]
    BY DEF PurchaseOf, Ticket
  <1>2. PICK kind \in {"Sell", "Supply"} :
          /\ kind = "Supply" <=> a.kind = "Deliver"
          /\ DeliveryOf(a) = [ship |-> a.ship, kind |-> kind, good |-> a.good, at |-> a.to,
                              units |-> a.units, price |-> a.sell, from |-> a.from, nr |-> 0]
    <2>1. CASE a.kind = "Deliver" BY <2>1 DEF DeliveryOf, Ticket
    <2>2. CASE a.kind # "Deliver" BY <2>2 DEF DeliveryOf, Ticket
    <2> QED BY <2>1, <2>2
  <1>3. a.from # Nowhere BY PlanAssumption
  <1>4. PurchaseOf(a) \in TicketSet /\ DeliveryOf(a) \in TicketSet BY <1>1, <1>2 DEF TicketSet
  <1>5. PurchaseOf(a).kind = "Purchase" /\ DeliveryOf(a).kind # "Purchase" BY <1>1, <1>2
  <1> QED BY <1>1, <1>2, <1>3, <1>4, <1>5

\* What compute_ship_tasks adds to the tickets.
LEMMA NewTickets ==
  ASSUME Typed, PurchasesAreCovered, NEW members \in SUBSET Ships, NEW idle \in SUBSET members,
         NEW plan \in ReadyPlans(FreeOf(idle), members)
  PROVE  LET new == WithTickets(idle, plan) IN
         /\ new \in SUBSET TicketSet /\ IsFiniteSet(new)
         /\ new = tickets \cup LeftoversOf(idle) \cup {PurchaseOf(a) : a \in plan}
                          \cup {DeliveryOf(a) : a \in plan}
         /\ \A a \in plan : /\ PurchaseOf(a) \in TicketSet /\ DeliveryOf(a) \in TicketSet
                            /\ PurchaseOf(a).ship = a.ship /\ DeliveryOf(a).ship = a.ship
  <1> DEFINE P == {PurchaseOf(a) : a \in plan}
             D == {DeliveryOf(a) : a \in plan}
  <1>1. WithTickets(idle, plan) = tickets \cup LeftoversOf(idle) \cup P \cup D
    BY DEF WithTickets, LeftoversOf
  <1>2. /\ IsFiniteSet(plan)
        /\ \A a \in plan : /\ a.good \in Goods /\ a.from \in Waypoints /\ a.to \in Waypoints
                           /\ a.units \in Nat /\ a.price \in Nat /\ a.sell \in Nat /\ a.ship \in Ships
    BY PlanForFreeShips
  <1>3. \A a \in plan : /\ PurchaseOf(a) \in TicketSet /\ DeliveryOf(a) \in TicketSet
                        /\ PurchaseOf(a).ship = a.ship /\ DeliveryOf(a).ship = a.ship
    BY <1>2, TicketsOfAction
  <1>4. IsFiniteSet(P)
    <2> DEFINE f == [a \in plan |-> PurchaseOf(a)]
    <2>1. P = {f[a] : a \in plan} OBVIOUS
    <2> HIDE DEF f, P
    <2> QED BY <1>2, <2>1, FiniteImage
  <1>5. IsFiniteSet(D)
    <2> DEFINE f == [a \in plan |-> DeliveryOf(a)]
    <2>1. D = {f[a] : a \in plan} OBVIOUS
    <2> HIDE DEF f, D
    <2> QED BY <1>2, <2>1, FiniteImage
  <1>6. IsFiniteSet(LeftoversOf(idle)) /\ LeftoversOf(idle) \in SUBSET TicketSet
    <2>1. idle \in SUBSET Ships OBVIOUS
    <2> QED BY <2>1, LeftoversType
  <1>7. P \in SUBSET TicketSet /\ D \in SUBSET TicketSet BY <1>3
  <1>8. tickets \in SUBSET TicketSet /\ IsFiniteSet(tickets) BY DEF Typed
  <1> HIDE DEF P, D
  <1>9. IsFiniteSet(tickets \cup LeftoversOf(idle)) BY <1>6, <1>8, FS_Union
  <1>10. IsFiniteSet(tickets \cup LeftoversOf(idle) \cup P) BY <1>4, <1>9, FS_Union
  <1>11. IsFiniteSet(tickets \cup LeftoversOf(idle) \cup P \cup D) BY <1>5, <1>10, FS_Union
  <1> QED BY <1>1, <1>3, <1>6, <1>7, <1>8, <1>11 DEF P, D

TicketsIn(set, s) == {k \in set : k.ship = s}

\* A ship has its old tickets, those for its cargo, or the two of its action.
LEMMA NewTicketsOfShip ==
  ASSUME Typed, PurchasesAreCovered, NEW members \in SUBSET Ships, NEW idle \in SUBSET members,
         NEW plan \in ReadyPlans(FreeOf(idle), members), NEW s \in Ships
  PROVE  LET mine == TicketsIn(WithTickets(idle, plan), s) IN
         \/ mine = TicketsOf(s) /\ s \notin Loaded(idle)
         \/ /\ s \in Loaded(idle)
            /\ mine = UNION {LeftoverTickets(s, g) : g \in InCargo(stored[s])}
         \/ \E a \in plan : a.ship = s /\ mine = {PurchaseOf(a), DeliveryOf(a)}
  <1> DEFINE new == WithTickets(idle, plan)
             mine == TicketsIn(new, s)
             left == UNION {LeftoverTickets(s, g) : g \in InCargo(stored[s])}
  <1>1. /\ new = tickets \cup LeftoversOf(idle) \cup {PurchaseOf(a) : a \in plan}
                         \cup {DeliveryOf(a) : a \in plan}
        /\ \A a \in plan : PurchaseOf(a).ship = a.ship /\ DeliveryOf(a).ship = a.ship
    BY NewTickets
  <1>2. /\ \A a \in plan : a.ship \in FreeOf(idle) /\ TicketsOf(a.ship) = {}
        /\ \A a, b \in plan : a.ship = b.ship => a = b
    BY PlanForFreeShips
  <1>3. \A k \in LeftoversOf(idle) : k.ship \in Loaded(idle)
    <2>1. idle \in SUBSET Ships OBVIOUS
    <2> QED BY <2>1, LeftoversType
  <1>4. \A u \in Loaded(idle) : u \notin FreeOf(idle) /\ TicketsOf(u) = {} /\ u \in Ships
    BY DEF Loaded, FreeOf, Waiting
  <1>5. \A k \in LeftoversOf(idle) : k.ship = s => k \in left
    <2> TAKE k \in LeftoversOf(idle)
    <2> HAVE k.ship = s
    <2>1. PICK u \in Loaded(idle) : k \in UNION {LeftoverTickets(u, g) : g \in InCargo(stored[u])}
      BY DEF LeftoversOf
    <2>2. PICK g \in InCargo(stored[u]) : k \in LeftoverTickets(u, g) BY <2>1
    <2>3. u \in Ships /\ g \in Goods BY <1>4 DEF InCargo
    <2>4. k.ship = u BY <2>2, <2>3, LeftoverUnits
    <2> QED BY <2>2, <2>4
  <1>6. s \in Loaded(idle) => left \subseteq LeftoversOf(idle) /\ \A k \in left : k.ship = s
    <2> HAVE s \in Loaded(idle)
    <2>1. left \subseteq LeftoversOf(idle) BY DEF LeftoversOf
    <2>2. ASSUME NEW k \in left PROVE k.ship = s
      <3>1. PICK g \in InCargo(stored[s]) : k \in LeftoverTickets(s, g) OBVIOUS
      <3>2. g \in Goods BY DEF InCargo
      <3> QED BY <3>1, <3>2, LeftoverUnits
    <2> QED BY <2>1, <2>2
  <1> HIDE DEF new, left
  <1>7. \A k \in tickets : k.ship = s <=> k \in TicketsOf(s) BY DEF TicketsOf
  <1>8. CASE s \in Loaded(idle)
    <2>1. TicketsOf(s) = {} /\ \A a \in plan : a.ship # s BY <1>2, <1>4, <1>8
    <2>2. mine = left BY <1>1, <1>5, <1>6, <1>7, <1>8, <2>1 DEF TicketsIn
    <2> QED BY <1>8, <2>2 DEF new, left
  <1>9. CASE s \notin Loaded(idle) /\ \E a \in plan : a.ship = s
    <2>1. PICK a \in plan : a.ship = s BY <1>9
    <2>2. \A b \in plan : b.ship = s => b = a BY <1>2, <2>1
    <2>3. TicketsOf(s) = {} BY <1>2, <2>1
    <2>4. \A k \in LeftoversOf(idle) : k.ship # s BY <1>3, <1>9
    <2>5. mine = {PurchaseOf(a), DeliveryOf(a)} BY <1>1, <1>7, <2>1, <2>2, <2>3, <2>4 DEF TicketsIn
    <2> QED BY <2>1, <2>5 DEF new
  <1>10. CASE s \notin Loaded(idle) /\ \A a \in plan : a.ship # s
    <2>1. \A k \in LeftoversOf(idle) : k.ship # s BY <1>3, <1>10
    <2>2. TicketsOf(s) \subseteq tickets /\ \A k \in TicketsOf(s) : k.ship = s BY DEF TicketsOf
    <2>3. mine = TicketsOf(s) BY <1>1, <1>7, <1>10, <2>1, <2>2 DEF TicketsIn
    <2> QED BY <1>10, <2>3 DEF new
  <1> QED BY <1>8, <1>9, <1>10

\* The fleet has the money for the new purchases, too.
LEMMA NewPurchasesAreCovered ==
  ASSUME Typed, PurchasesAreCovered, NEW members \in SUBSET Ships, NEW idle \in SUBSET members,
         NEW plan \in ReadyPlans(FreeOf(idle), members)
  PROVE  ReservedBy({k \in WithTickets(idle, plan) : k.kind = "Purchase"}) <= capital + fuel
  <1> DEFINE new == WithTickets(idle, plan)
             P == {PurchaseOf(a) : a \in plan}
             D == {DeliveryOf(a) : a \in plan}
  <1>1. /\ new \in SUBSET TicketSet /\ IsFiniteSet(new)
        /\ new = tickets \cup LeftoversOf(idle) \cup P \cup D
    BY NewTickets
  <1>2. /\ IsFiniteSet(plan)
        /\ \A a \in plan : /\ a.good \in Goods /\ a.from \in Waypoints /\ a.to \in Waypoints
                           /\ a.units \in Nat /\ a.price \in Nat /\ a.sell \in Nat /\ a.ship \in Ships
                           /\ TicketsOf(a.ship) = {}
        /\ \A a, b \in plan : a.ship = b.ship => a = b
        /\ CostOfPlan(plan) <= HigherOf(Available, 0)
    BY PlanForFreeShips
  <1>3. \A a \in plan : /\ PurchaseOf(a).ship = a.ship /\ PurchaseOf(a).kind = "Purchase"
                        /\ PurchaseOf(a).price = a.price /\ PurchaseOf(a).units = a.units
                        /\ DeliveryOf(a).kind \in {"Sell", "Supply"}
    BY <1>2, TicketsOfAction
  <1>4. \A k \in LeftoversOf(idle) : k.kind \in {"Sell", "Supply"}
    <2>1. idle \in SUBSET Ships OBVIOUS
    <2> QED BY <2>1, LeftoversType
  <1>5. P \cap Purchases = {}
    <2>1. ASSUME NEW k \in P, k \in Purchases PROVE FALSE
      <3>1. PICK a \in plan : k = PurchaseOf(a) OBVIOUS
      <3>2. k.ship = a.ship BY <1>3, <3>1
      <3>3. k \in TicketsOf(a.ship) BY <2>1, <3>2 DEF TicketsOf, Purchases
      <3> QED BY <1>2, <3>3
    <2> QED BY <2>1
  <1>6. ReservedBy(P) = CostOfPlan(plan)
    <2> DEFINE f == [a \in plan |-> a.price * a.units]
               m == [a \in plan |-> PurchaseOf(a)]
               h == [k \in P |-> Cost(k)]
    <2>1. f \in [plan -> Int] BY <1>2
    <2>2. \A a, b \in plan : m[a] = m[b] => a = b BY <1>2, <1>3
    <2>3. P = {m[a] : a \in plan} OBVIOUS
    <2>4. \A a \in plan : m[a] \in P /\ Cost(m[a]) = f[a]
      <3> TAKE a \in plan
      <3>1. m[a] = PurchaseOf(a) /\ m[a] \in P OBVIOUS
      <3>2. m[a].price = a.price /\ m[a].units = a.units BY <1>3, <3>1
      <3>3. Cost(m[a]) = a.price * a.units BY <3>2 DEF Cost
      <3> QED BY <3>1, <3>3
    <2>5. h \in [P -> Int]
      <3>1. \A k \in P : Cost(k) \in Int
        <4> TAKE k \in P
        <4>1. PICK a \in plan : k = m[a] OBVIOUS
        <4>2. f[a] \in Int BY <2>1
        <4> QED BY <2>4, <4>1, <4>2
      <3> QED BY <3>1
    <2>6. \A a \in plan : h[m[a]] = f[a] BY <2>4
    <2>7. ReservedBy(P) = Sum(h, P) BY DEF ReservedBy, Sum
    <2>8. CostOfPlan(plan) = Sum(f, plan) BY DEF CostOfPlan
    <2> HIDE DEF f, m, h, P
    <2>9. Sum(h, P) = Sum(f, plan) BY <1>2, <2>1, <2>2, <2>3, <2>5, <2>6, SumImage
    <2> QED BY <2>7, <2>8, <2>9
  <1>7. {k \in new : k.kind = "Purchase"} = P \cup Purchases
    <2>1. \A k \in P : k.kind = "Purchase" BY <1>3
    <2>2. \A k \in D : k.kind # "Purchase" BY <1>3
    <2> HIDE DEF P, D, new
    <2> QED BY <1>1, <1>4, <2>1, <2>2 DEF Purchases
  <1>8. P \in SUBSET new /\ Purchases \in SUBSET new BY <1>1 DEF Purchases
  <1>9. \A k \in new : k.units \in Nat /\ k.price \in Nat BY <1>1, TicketType
  <1> SUFFICES ReservedBy({k \in new : k.kind = "Purchase"}) <= capital + fuel OBVIOUS
  <1> HIDE DEF P, D, new
  <1>10. ReservedBy(P \cup Purchases) = ReservedBy(P) + ReservedBy(Purchases) /\ ReservedBy(P) \in Nat
    BY <1>1, <1>5, <1>8, <1>9, CostsOfSets
  <1>11. /\ Available = capital - ReservedBy(Purchases) /\ ReservedBy(Purchases) \in Nat
         /\ ReservedBy(Purchases) <= capital + fuel
    BY AvailableType
  <1>12. capital \in Int /\ fuel \in Nat BY DEF Typed
  <1>13. ReservedBy(P) <= HigherOf(Available, 0) BY <1>2, <1>6
  <1>14. ReservedBy(P \cup Purchases) <= capital + fuel
    <2>1. CASE Available <= 0
      <3>1. ReservedBy(P) = 0 BY <1>10, <1>13, <2>1 DEF HigherOf
      <3> QED BY <1>10, <1>11, <1>12, <3>1
    <2>2. CASE ~(Available <= 0)
      <3>1. ReservedBy(P) <= capital - ReservedBy(Purchases)
        <4>1. HigherOf(Available, 0) = Available BY <1>11, <1>12, <2>2 DEF HigherOf
        <4> QED BY <1>11, <1>13, <4>1
      <3> QED BY <1>10, <1>11, <1>12, <3>1
    <2> QED BY <2>1, <2>2
  <1> QED BY <1>7, <1>14

\* The ships have the space for them.
LEMMA NewPurchasesFit ==
  ASSUME Typed, Totalled, PurchasesAreCovered, PurchasesFitTogether,
         NEW members \in SUBSET Ships, NEW idle \in SUBSET members,
         NEW plan \in ReadyPlans(FreeOf(idle), members), NEW s \in Ships
  PROVE  hold[s].units + UnitsOfAll({k \in WithTickets(idle, plan) : k.kind = "Purchase" /\ k.ship = s})
           <= Capacity[s]
  <1> DEFINE new == WithTickets(idle, plan)
             mine == TicketsIn(new, s)
             set == {k \in new : k.kind = "Purchase" /\ k.ship = s}
             old == {k \in Purchases : k.ship = s}
  <1>1. new \in SUBSET TicketSet /\ IsFiniteSet(new) /\ tickets \subseteq new BY NewTickets
  <1>2. \A k \in new : k.units \in Nat BY <1>1, TicketType
  <1>3. set = {k \in mine : k.kind = "Purchase"} BY DEF TicketsIn
  <1>4. hold[s].units + UnitsOfAll(old) <= Capacity[s] BY DEF PurchasesFitTogether
  <1>5. old \in SUBSET new BY <1>1 DEF Purchases
  <1>6. /\ hold[s].units \in Nat /\ stored[s].units \in Nat /\ hold[s].units <= stored[s].units
        /\ Capacity[s] \in Nat
    BY FleetAssumption, CargoType DEF Typed, Totalled
  <1> SUFFICES hold[s].units + UnitsOfAll(set) <= Capacity[s] OBVIOUS
  <1> HIDE DEF new, old, set, mine
  <1>7. UnitsOfAll(old) \in Nat BY <1>1, <1>2, <1>5, UnitsOfSets
  <1>8. CASE mine = TicketsOf(s)
    <2>1. set = old BY <1>3, <1>8 DEF TicketsOf, old, Purchases
    <2> QED BY <1>4, <2>1
  <1>9. CASE mine = UNION {LeftoverTickets(s, g) : g \in InCargo(stored[s])}
    <2>1. ASSUME NEW k \in mine PROVE k.kind # "Purchase"
      <3>1. PICK g \in InCargo(stored[s]) : k \in LeftoverTickets(s, g) BY <1>9
      <3>2. g \in Goods BY DEF InCargo
      <3> QED BY <3>1, <3>2, LeftoverUnits
    <2>2. set = {} BY <1>3, <2>1
    <2>3. UnitsOfAll({}) = 0 BY <1>1, <1>2, UnitsOfSets
    <2> QED BY <1>4, <1>6, <1>7, <2>2, <2>3
  <1>10. CASE \E a \in plan : a.ship = s /\ mine = {PurchaseOf(a), DeliveryOf(a)}
    <2>1. PICK a \in plan : a.ship = s /\ mine = {PurchaseOf(a), DeliveryOf(a)} BY <1>10
    <2>2. /\ a.good \in Goods /\ a.from \in Waypoints /\ a.to \in Waypoints
          /\ a.units \in Nat /\ a.price \in Nat /\ a.sell \in Nat /\ a.ship \in Ships
          /\ stored[a.ship].units = 0 /\ a.units <= Capacity[a.ship]
      BY PlanForFreeShips
    <2>3. /\ PurchaseOf(a).kind = "Purchase" /\ PurchaseOf(a).units = a.units
          /\ DeliveryOf(a).kind # "Purchase"
      BY <2>2, TicketsOfAction
    <2>4. set = {PurchaseOf(a)} /\ PurchaseOf(a) \in new BY <1>3, <2>1, <2>3 DEF mine, TicketsIn
    <2>5. UnitsOfAll({PurchaseOf(a)}) = a.units BY <1>1, <1>2, <2>3, <2>4, UnitsOfSets
    <2>6. hold[s].units = 0 BY <1>6, <2>1, <2>2
    <2> QED BY <2>1, <2>2, <2>4, <2>5, <2>6
  <1>11. \/ mine = TicketsOf(s)
         \/ mine = UNION {LeftoverTickets(s, g) : g \in InCargo(stored[s])}
         \/ \E a \in plan : a.ship = s /\ mine = {PurchaseOf(a), DeliveryOf(a)}
    BY NewTicketsOfShip DEF mine, new
  <1> QED BY <1>8, <1>9, <1>10, <1>11

\* What a ship is to deliver is there, if the database knows the cargo it is for.
LEMMA NewDeliveriesAreBacked ==
  ASSUME Typed, PurchasesAreCovered,
         NEW members \in SUBSET Ships, NEW idle \in SUBSET members,
         NEW plan \in ReadyPlans(FreeOf(idle), members), NEW s \in Ships, NEW g \in Goods,
         s \in Loaded(idle) => stored[s] = hold[s],
         TicketsOf(s) # {} => UnitsIn(tickets, s, {"Sell", "Supply"}, g)
                                <= hold[s].inv[g] + UnitsIn(tickets, s, {"Purchase"}, g)
  PROVE  UnitsIn(WithTickets(idle, plan), s, {"Sell", "Supply"}, g)
           <= hold[s].inv[g] + UnitsIn(WithTickets(idle, plan), s, {"Purchase"}, g)
  <1> DEFINE new == WithTickets(idle, plan)
             mine == TicketsIn(new, s)
             out == {k \in new : k.ship = s /\ k.kind \in {"Sell", "Supply"} /\ k.good = g}
             in == {k \in new : k.ship = s /\ k.kind \in {"Purchase"} /\ k.good = g}
  <1>1. new \in SUBSET TicketSet /\ IsFiniteSet(new) /\ tickets \subseteq new BY NewTickets
  <1>2. \A k \in new : k.units \in Nat BY <1>1, TicketType
  <1>3. /\ out = {k \in mine : k.kind \in {"Sell", "Supply"} /\ k.good = g}
        /\ in = {k \in mine : k.kind \in {"Purchase"} /\ k.good = g}
    BY DEF TicketsIn
  <1>4. out \in SUBSET new /\ in \in SUBSET new /\ mine \in SUBSET new BY DEF TicketsIn
  <1>5. hold[s].inv[g] \in Nat BY CargoType DEF Typed
  <1> SUFFICES UnitsOfAll(out) <= hold[s].inv[g] + UnitsOfAll(in)
    BY DEF UnitsIn
  <1>6. /\ \/ mine = TicketsOf(s) /\ s \notin Loaded(idle)
           \/ /\ s \in Loaded(idle)
              /\ mine = UNION {LeftoverTickets(s, h) : h \in InCargo(stored[s])}
           \/ \E a \in plan : a.ship = s /\ mine = {PurchaseOf(a), DeliveryOf(a)}
    BY NewTicketsOfShip
  <1> HIDE DEF new, mine, out, in
  <1>7. UnitsOfAll(out) \in Nat /\ UnitsOfAll(in) \in Nat /\ UnitsOfAll({}) = 0
    BY <1>1, <1>2, <1>4, UnitsOfSets
  <1>8. CASE out = {} BY <1>5, <1>7, <1>8
  <1>9. CASE mine = TicketsOf(s) /\ TicketsOf(s) # {}
    <2>1. /\ out = {k \in tickets : k.ship = s /\ k.kind \in {"Sell", "Supply"} /\ k.good = g}
          /\ in = {k \in tickets : k.ship = s /\ k.kind \in {"Purchase"} /\ k.good = g}
      BY <1>3, <1>9 DEF TicketsOf
    <2>2. UnitsOfAll(out) = UnitsIn(tickets, s, {"Sell", "Supply"}, g) BY <2>1 DEF UnitsIn
    <2>3. UnitsOfAll(in) = UnitsIn(tickets, s, {"Purchase"}, g) BY <2>1 DEF UnitsIn
    <2> QED BY <1>9, <2>2, <2>3
  <1>10. CASE mine = TicketsOf(s) /\ TicketsOf(s) = {} BY <1>3, <1>8, <1>10
  <1>11. CASE s \in Loaded(idle) /\ mine = UNION {LeftoverTickets(s, h) : h \in InCargo(stored[s])}
    <2>1. \A h \in InCargo(stored[s]) : \A k : k \in LeftoverTickets(s, h) =>
            k.good = h /\ k.kind \in {"Sell", "Supply"}
      <3> TAKE h \in InCargo(stored[s])
      <3> TAKE k
      <3>1. h \in Goods BY DEF InCargo
      <3> QED BY <3>1, LeftoverUnits
    <2>2. CASE g \in InCargo(stored[s])
      <3>1. out = LeftoverTickets(s, g) BY <1>3, <1>11, <2>1, <2>2
      <3>2. UnitsOfAll(out) <= stored[s].inv[g] BY <3>1, LeftoverUnits
      <3>3. stored[s] = hold[s] BY <1>11
      <3> QED BY <1>5, <1>7, <3>2, <3>3
    <2>3. CASE g \notin InCargo(stored[s])
      <3>1. out = {} BY <1>3, <1>11, <2>1, <2>3
      <3> QED BY <1>8, <3>1
    <2> QED BY <2>2, <2>3
  <1>12. CASE \E a \in plan : a.ship = s /\ mine = {PurchaseOf(a), DeliveryOf(a)}
    <2>1. PICK a \in plan : a.ship = s /\ mine = {PurchaseOf(a), DeliveryOf(a)} BY <1>12
    <2>2. /\ a.good \in Goods /\ a.from \in Waypoints /\ a.to \in Waypoints
          /\ a.units \in Nat /\ a.price \in Nat /\ a.sell \in Nat /\ a.ship \in Ships
      BY PlanForFreeShips
    <2>3. /\ PurchaseOf(a).kind = "Purchase" /\ PurchaseOf(a).units = a.units
          /\ PurchaseOf(a).good = a.good
          /\ DeliveryOf(a).kind \in {"Sell", "Supply"} /\ DeliveryOf(a).units = a.units
          /\ DeliveryOf(a).good = a.good
      BY <2>2, TicketsOfAction
    <2>4. PurchaseOf(a) \in new /\ DeliveryOf(a) \in new BY <1>4, <2>1
    <2>5. UnitsOfAll({PurchaseOf(a)}) = a.units /\ UnitsOfAll({DeliveryOf(a)}) = a.units
      BY <1>1, <1>2, <2>3, <2>4, UnitsOfSets
    <2>6. CASE a.good = g
      <3>1. out = {DeliveryOf(a)} /\ in = {PurchaseOf(a)} BY <1>3, <2>1, <2>3, <2>6
      <3> QED BY <1>5, <2>2, <2>5, <3>1
    <2>7. CASE a.good # g
      <3>1. out = {} BY <1>3, <2>1, <2>3, <2>7
      <3> QED BY <1>8, <3>1
    <2> QED BY <2>6, <2>7
  <1> QED BY <1>6, <1>9, <1>10, <1>11, <1>12

\* If each material has one source, the new supplies are for what no other
\* supply is for, as long as the admiral knows the site.
LEMMA NewSuppliesAreNecessary ==
  ASSUME Typed, FromExports, OneSource, SuppliesAreNecessary, PurchasesAreCovered,
         NEW members \in SUBSET Ships, NEW idle \in SUBSET members,
         NEW plan \in ReadyPlans(FreeOf(idle), members), NEW g \in Goods,
         known = missing, ~misled \/ \A k \in tickets : k.kind # "Supply",
         \A k \in WithTickets(idle, plan) : k.kind # "Supply" \/ k.from # Nowhere
  PROVE  UnitsOfAll({k \in WithTickets(idle, plan) : k.kind = "Supply" /\ k.good = g}) <= missing[g]
  <1> DEFINE new == WithTickets(idle, plan)
             set == {k \in new : k.kind = "Supply" /\ k.good = g}
             old == {k \in tickets : k.kind = "Supply" /\ k.good = g}
  <1>1. /\ new \in SUBSET TicketSet /\ IsFiniteSet(new)
        /\ new = tickets \cup LeftoversOf(idle) \cup {PurchaseOf(a) : a \in plan}
                         \cup {DeliveryOf(a) : a \in plan}
    BY NewTickets
  <1>2. \A k \in new : k.units \in Nat BY <1>1, TicketType
  <1>3. \A k \in LeftoversOf(idle) : k.kind # "Supply"
    <2>1. idle \in SUBSET Ships OBVIOUS
    <2>2. \A k \in LeftoversOf(idle) : k.from = Nowhere /\ k \in new BY <1>1, <2>1, LeftoversType
    <2> QED BY <2>2
  <1>4. /\ \A a \in plan : /\ a.good \in Goods /\ a.from \in Waypoints /\ a.to \in Waypoints
                           /\ a.units \in Nat /\ a.price \in Nat /\ a.sell \in Nat /\ a.ship \in Ships
        /\ \A a \in plan : a.kind = "Deliver" =>
             plan = {a} /\ IsNecessary(a, known, stocked, Routes)
    BY PlanForFreeShips
  <1>5. \A a \in plan : /\ PurchaseOf(a).kind = "Purchase"
                        /\ DeliveryOf(a).kind = "Supply" <=> a.kind = "Deliver"
                        /\ DeliveryOf(a).good = a.good /\ DeliveryOf(a).units = a.units
    BY <1>4, TicketsOfAction
  <1>6. missing[g] \in Nat BY DEF Typed
  <1> SUFFICES UnitsOfAll(set) <= missing[g] OBVIOUS
  <1>7. old \in SUBSET new BY <1>1
  <1>8. UnitsOfAll(old) <= missing[g]
    <2>1. CASE ~misled BY <2>1 DEF SuppliesAreNecessary
    <2>2. CASE \A k \in tickets : k.kind # "Supply"
      <3>1. old = {} BY <2>2
      <3>2. UnitsOfAll({}) = 0 BY <1>1, <1>2, UnitsOfSets
      <3> QED BY <1>6, <3>1, <3>2
    <2> QED BY <2>1, <2>2
  <1>9. CASE \A a \in plan : ~(a.kind = "Deliver" /\ a.good = g)
    <2>1. \A a \in plan : DeliveryOf(a) \notin set /\ PurchaseOf(a) \notin set BY <1>5, <1>9
    <2>2. set = old BY <1>1, <1>3, <2>1
    <2> QED BY <1>8, <2>2
  <1>10. CASE \E a \in plan : a.kind = "Deliver" /\ a.good = g
    <2>1. PICK a \in plan : a.kind = "Deliver" /\ a.good = g BY <1>10
    <2>2. plan = {a} /\ IsNecessary(a, known, stocked, Routes) BY <1>4, <2>1
    <2>3. a.units <= missing[g] BY <2>1, <2>2 DEF IsNecessary
    <2>4. PICK e \in stocked : /\ e.good = a.good /\ e.at = a.from
                               /\ \A r \in Routes : r.from # a.from \/ r.good # a.good
      BY <2>2 DEF IsNecessary
    <2>5. old = {}
      <3>1. ASSUME NEW k \in old PROVE FALSE
        <4>1. k \in tickets /\ k.kind = "Supply" /\ k.good = g /\ k.from # Nowhere BY <1>7
        <4>2. PICK f \in MaterialExports : f.good = k.good /\ f.at = k.from
          BY <4>1 DEF FromExports
        <4>3. e \in MaterialExports BY DEF Typed
        <4>4. e.at = f.at BY <2>1, <2>4, <4>1, <4>2, <4>3 DEF OneSource
        <4> DEFINE r == [from |-> k.from, to |-> k.at, good |-> k.good, ship |-> k.ship]
        <4>5. r \in Routes BY <4>1 DEF Routes
        <4>6. r.from = a.from /\ r.good = a.good BY <2>1, <2>4, <4>1, <4>2, <4>4
        <4> HIDE DEF r
        <4> QED BY <2>4, <4>5, <4>6
      <3> QED BY <3>1
    <2>6. set = {DeliveryOf(a)}
      <3>1. DeliveryOf(a) \in set /\ PurchaseOf(a) \notin set BY <1>1, <1>5, <2>1
      <3>2. \A k \in set : k \in tickets \/ k = PurchaseOf(a) \/ k = DeliveryOf(a) BY <1>1, <1>3, <2>2
      <3> QED BY <2>5, <3>1, <3>2
    <2>7. DeliveryOf(a).units = a.units /\ DeliveryOf(a) \in new BY <1>1, <1>5
    <2>8. UnitsOfAll({DeliveryOf(a)}) = a.units BY <1>1, <1>2, <2>7, UnitsOfSets
    <2> QED BY <2>3, <2>6, <2>8
  <1> QED BY <1>9, <1>10

\* compute_ship_tasks keeps the invariant, whoever calls it.
LEMMA Planning ==
  ASSUME IInv, NEW members \in SUBSET Ships, NEW tasks \in [Ships -> TaskStates], NEW callers,
         ComputeShipTasks(members, tasks, callers),
         fleet' \in SUBSET Ships, answer' \in [Ships -> [Goods -> Nat]],
         UNCHANGED <<at, hold, stored, capital, missing, known, stocked, fuel>>
  PROVE  IInv'
  <1> DEFINE idle == IdleOf(members, tasks)
  <1>1. PICK plan \in ReadyPlans(FreeOf(idle), members) :
          /\ tickets' = WithTickets(idle, plan)
          /\ task' = WithTasks(tasks, PassedOn(Tasked(idle, plan), callers))
    BY DEF ComputeShipTasks
  <1>2. /\ misled' = \/ misled /\ \E k \in tickets : k.kind = "Supply"
                     \/ known # missing
                     \/ \E k \in tickets' : k.kind = "Supply" /\ k.from = Nowhere
        /\ outdated' = {s \in Ships : stored[s] # hold[s] /\ tasks[s] # "supplied"}
                         \cup {s \in outdated : TicketsOf(s) # {}}
    BY DEF ComputeShipTasks
  <1>3. /\ idle \in SUBSET members /\ idle \in SUBSET Ships
        /\ \A s \in idle : tasks[s] \in {"idle", "stranded"}
    BY DEF IdleOf
  <1> HIDE DEF idle
  <1>4. /\ at' = at /\ hold' = hold /\ stored' = stored /\ capital' = capital
        /\ missing' = missing /\ known' = known /\ stocked' = stocked /\ fuel' = fuel
    OBVIOUS
  <1>5. /\ Typed /\ Totalled /\ FromExports /\ PurchasesAreCovered /\ PurchasesFitTogether
        /\ DeliveriesAreBacked
    BY DEF IInv
  <1>6. /\ tickets' \in SUBSET TicketSet /\ IsFiniteSet(tickets')
        /\ tickets' = tickets \cup LeftoversOf(idle) \cup {PurchaseOf(a) : a \in plan}
                              \cup {DeliveryOf(a) : a \in plan}
    BY <1>1, <1>3, <1>5, NewTickets
  <1>7. \A a \in plan :
          /\ a.good \in Goods /\ a.from \in Waypoints /\ a.to \in Waypoints
          /\ a.units \in Nat /\ a.price \in Nat /\ a.sell \in Nat /\ a.ship \in Ships
          /\ a.ship \in idle
          /\ a.kind = "Deliver" => IsNecessary(a, known, stocked, Routes)
    <2>1. FreeOf(idle) \subseteq idle BY DEF FreeOf
    <2> QED BY <1>3, <1>5, <2>1, PlanForFreeShips
  <1>8. Typed'
    <2>1. task' \in [Ships -> TaskStates] BY <1>1 DEF WithTasks, TaskStates
    <2>2. misled' \in BOOLEAN BY <1>2
    <2>3. outdated' \in SUBSET Ships BY <1>2, <1>5 DEF Typed
    <2> QED BY <1>4, <1>5, <1>6, <2>1, <2>2, <2>3 DEF Typed
  <1>9. Totalled' BY <1>4, <1>5 DEF Totalled
  <1>10. Fresh'
    <2>1. ASSUME NEW s \in Ships, s \notin outdated' PROVE stored[s] = hold[s] \/ task'[s] = "supplied"
      <3>1. stored[s] = hold[s] \/ tasks[s] = "supplied" BY <1>2, <2>1
      <3>2. Tasked(idle, plan) \subseteq idle BY <1>3, <1>7 DEF Tasked, Waiting, Loaded
      <3>3. CASE s \in PassedOn(Tasked(idle, plan), callers)
        <4>1. s \in idle BY <3>2, <3>3 DEF PassedOn
        <4> QED BY <1>3, <3>1, <4>1
      <3>4. CASE s \notin PassedOn(Tasked(idle, plan), callers)
        <4>1. task'[s] = tasks[s] BY <1>1, <3>4 DEF WithTasks
        <4> QED BY <3>1, <4>1
      <3> QED BY <3>3, <3>4
    <2> QED BY <1>4, <2>1 DEF Fresh
  <1>11. FromExports'
    <2>1. ASSUME NEW k \in tickets', k.kind = "Supply", k.from # Nowhere
          PROVE  \E e \in MaterialExports : e.good = k.good /\ e.at = k.from
      <3>1. CASE k \in tickets BY <1>5, <2>1, <3>1 DEF FromExports
      <3>2. CASE k \in LeftoversOf(idle)
        <4>1. k.from = Nowhere BY <1>3, <1>5, <3>2, LeftoversType
        <4> QED BY <2>1, <4>1
      <3>3. CASE \E a \in plan : k = PurchaseOf(a) \/ k = DeliveryOf(a)
        <4>1. PICK a \in plan : k = PurchaseOf(a) \/ k = DeliveryOf(a) BY <3>3
        <4>2. /\ PurchaseOf(a).kind = "Purchase"
              /\ DeliveryOf(a).kind = "Supply" <=> a.kind = "Deliver"
              /\ DeliveryOf(a).good = a.good /\ DeliveryOf(a).from = a.from
          BY <1>7, TicketsOfAction
        <4>3. k = DeliveryOf(a) /\ a.kind = "Deliver" BY <2>1, <4>1, <4>2
        <4>4. IsNecessary(a, known, stocked, Routes) BY <1>7, <4>3
        <4>5. PICK e \in stocked : e.good = a.good /\ e.at = a.from BY <4>4 DEF IsNecessary
        <4>6. e \in MaterialExports BY <1>5 DEF Typed
        <4> QED BY <4>2, <4>3, <4>5, <4>6
      <3> QED BY <1>6, <3>1, <3>2, <3>3
    <2> QED BY <2>1 DEF FromExports
  <1>12. PurchasesAreCovered'
    <2>1. ReservedBy({k \in tickets' : k.kind = "Purchase"}) <= capital + fuel
      BY <1>1, <1>3, <1>5, NewPurchasesAreCovered
    <2> QED BY <1>4, <2>1 DEF PurchasesAreCovered, Purchases
  <1>13. PurchasesFitTogether'
    <2>1. ASSUME NEW s \in Ships
          PROVE  hold'[s].units + UnitsOfAll({k \in Purchases' : k.ship = s}) <= Capacity[s]
      <3>1. hold[s].units + UnitsOfAll({k \in tickets' : k.kind = "Purchase" /\ k.ship = s}) <= Capacity[s]
        BY <1>1, <1>3, <1>5, NewPurchasesFit
      <3>2. {k \in Purchases' : k.ship = s} = {k \in tickets' : k.kind = "Purchase" /\ k.ship = s}
        BY DEF Purchases
      <3> QED BY <1>4, <3>1, <3>2
    <2> QED BY <2>1 DEF PurchasesFitTogether
  <1>14. DeliveriesAreBacked'
    <2>1. ASSUME NEW s \in Ships, s \notin outdated', NEW g \in Goods
          PROVE  UnitsIn(tickets', s, {"Sell", "Supply"}, g)
                   <= hold[s].inv[g] + UnitsIn(tickets', s, {"Purchase"}, g)
      <3>1. stored[s] = hold[s] \/ tasks[s] = "supplied" BY <1>2, <2>1
      <3>2. s \in Loaded(idle) => stored[s] = hold[s]
        <4>1. s \in Loaded(idle) => s \in idle BY DEF Loaded
        <4> QED BY <1>3, <3>1, <4>1
      <3>3. TicketsOf(s) # {} => s \in Ships \ outdated BY <1>2, <2>1
      <3>4. TicketsOf(s) # {} => UnitsIn(tickets, s, {"Sell", "Supply"}, g)
                                   <= hold[s].inv[g] + UnitsIn(tickets, s, {"Purchase"}, g)
        BY <1>5, <3>3 DEF DeliveriesAreBacked
      <3> QED BY <1>1, <1>3, <1>5, <3>2, <3>4, NewDeliveriesAreBacked
    <2> QED BY <1>4, <2>1 DEF DeliveriesAreBacked
  <1>15. OneSource => SuppliesAreNecessary'
    <2> SUFFICES ASSUME OneSource, ~misled', NEW g \in Goods
                 PROVE  UnitsOfAll({k \in tickets' : k.kind = "Supply" /\ k.good = g}) <= missing[g]
      BY <1>4 DEF SuppliesAreNecessary
    <2>1. known = missing /\ (~misled \/ \A k \in tickets : k.kind # "Supply") BY <1>2
    <2>2. \A k \in tickets' : k.kind # "Supply" \/ k.from # Nowhere BY <1>2
    <2>3. SuppliesAreNecessary BY DEF IInv
    <2> QED BY <1>1, <1>3, <1>5, <2>1, <2>2, <2>3, NewSuppliesAreNecessary
  <1> QED BY <1>8, <1>9, <1>10, <1>11, <1>12, <1>13, <1>14, <1>15 DEF IInv, OneSource

-----------------------------------------------------------------------------
(* The tickets that the ships complete *)

\* One ticket less.
LEMMA WithoutTicket ==
  ASSUME NEW S, IsFiniteSet(S), \A k \in S : k.units \in Nat, NEW k \in S, NEW T \in SUBSET S
  PROVE  /\ UnitsOfAll(T \ {k}) \in Nat
         /\ k \in T => UnitsOfAll(T) = UnitsOfAll(T \ {k}) + k.units
         /\ k \notin T => T \ {k} = T
  <1>1. T \ {k} \in SUBSET S /\ {k} \in SUBSET S /\ (T \ {k}) \cap {k} = {} OBVIOUS
  <1>2. UnitsOfAll((T \ {k}) \cup {k}) = UnitsOfAll(T \ {k}) + UnitsOfAll({k}) BY <1>1, UnitsOfSets
  <1>3. UnitsOfAll({k}) = k.units /\ UnitsOfAll(T \ {k}) \in Nat BY <1>1, UnitsOfSets
  <1>4. k \in T => (T \ {k}) \cup {k} = T OBVIOUS
  <1> QED BY <1>2, <1>3, <1>4

\* The total of a cargo follows its inventory.
LEMMA ChangedCargo ==
  ASSUME NEW cargo \in Cargos, IsTotal(cargo), NEW good \in Goods, NEW n \in Int,
         cargo.inv[good] + n >= 0
  PROVE  LET changed == Changed(cargo, good, n) IN
         /\ changed \in Cargos /\ IsTotal(changed)
         /\ changed.units = cargo.units + n
         /\ changed.inv[good] = cargo.inv[good] + n
         /\ \A g \in Goods \ {good} : changed.inv[g] = cargo.inv[g]
  <1> DEFINE inv == [cargo.inv EXCEPT ![good] = @ + n]
  <1>1. IsFiniteSet(Goods) BY FleetAssumption
  <1>2. /\ cargo.units \in Nat /\ cargo.inv \in [Goods -> Nat] /\ cargo.inv \in [Goods -> Int]
        /\ cargo.units = Sum(cargo.inv, Goods)
    BY CargoType DEF IsTotal, Sum
  <1>3. inv \in [Goods -> Nat] /\ inv \in [Goods -> Int] BY <1>2
  <1>4. inv[good] = cargo.inv[good] + n /\ \A g \in Goods \ {good} : inv[g] = cargo.inv[g] BY <1>2
  <1>5. Changed(cargo, good, n) = [units |-> cargo.units + n, inv |-> inv] BY DEF Changed
  <1>6. cargo.inv[good] \in Int BY <1>2
  <1> HIDE DEF inv
  <1>7. Sum(inv, Goods) = Sum(cargo.inv, Goods) - cargo.inv[good] + inv[good]
    BY <1>1, <1>2, <1>3, <1>4, SumChange
  <1>8. cargo.units + n = Sum(inv, Goods) BY <1>2, <1>4, <1>6, <1>7
  <1>9. \A g \in Goods : inv[g] >= 0 BY <1>3
  <1>10. cargo.units + n \in Nat BY <1>1, <1>2, <1>3, <1>8, <1>9, SumNonNegative
  <1> QED BY <1>3, <1>4, <1>5, <1>8, <1>10 DEF Cargos, Inventories, IsTotal, Sum

\* What every completed ticket keeps; n is the change of the ship's cargo.
LEMMA Completing ==
  ASSUME IInv, NEW s \in Ships, NEW k \in tickets, k.ship = s, NEW n \in Int,
         k.kind = "Purchase" => n = k.units, k.kind # "Purchase" => n = -k.units,
         hold[s].inv[k.good] + n >= 0,
         NEW proceeds \in Int,
         k.kind = "Purchase" => proceeds = -Cost(k), k.kind # "Purchase" => proceeds >= 0,
         Complete(s, k, Changed(hold[s], k.good, n), proceeds),
         outdated' = outdated, fuel' = fuel
  PROVE  /\ at' \in [Ships -> Waypoints] /\ hold' \in [Ships -> Cargos]
         /\ tickets' \in SUBSET tickets /\ IsFiniteSet(tickets') /\ capital' \in Int
         /\ hold'[s].units = hold[s].units + n /\ \A u \in Ships : IsTotal(hold'[u])
         /\ \A u \in Ships \ {s} : hold'[u] = hold[u]
         /\ FromExports' /\ PurchasesAreCovered' /\ PurchasesFitTogether' /\ DeliveriesAreBacked'
  <1> DEFINE cargo == Changed(hold[s], k.good, n)
             left == tickets \ {k}
             bought == {x \in left : x.kind = "Purchase"}
  <1>1. /\ Typed /\ Totalled /\ FromExports /\ PurchasesAreCovered /\ PurchasesFitTogether
        /\ DeliveriesAreBacked
    BY DEF IInv
  <1>2. /\ tickets' = left
        /\ capital' = LowerOf(capital + proceeds, Budget + ReservedBy(bought))
        /\ at' = [at EXCEPT ![s] = k.at] /\ hold' = [hold EXCEPT ![s] = cargo]
    BY DEF Complete, Settled
  <1>3. IsFiniteSet(tickets) /\ tickets \in SUBSET TicketSet BY <1>1 DEF Typed
  <1>4. \A x \in tickets : /\ x.units \in Nat /\ x.price \in Nat /\ x.good \in Goods
                           /\ x.at \in Waypoints
    BY <1>3, TicketType
  <1>5. /\ hold \in [Ships -> Cargos] /\ hold[s] \in Cargos /\ IsTotal(hold[s])
        /\ \A u \in Ships : hold[u].units \in Nat /\ hold[u].inv \in [Goods -> Nat]
    BY <1>1, CargoType DEF Typed, Totalled
  <1>6. /\ cargo \in Cargos /\ IsTotal(cargo) /\ cargo.units = hold[s].units + n
        /\ cargo.inv[k.good] = hold[s].inv[k.good] + n
        /\ \A g \in Goods \ {k.good} : cargo.inv[g] = hold[s].inv[g]
    BY <1>4, <1>5, ChangedCargo
  <1> HIDE DEF cargo, left, bought
  <1>7. /\ hold' \in [Ships -> Cargos] /\ hold'[s] = cargo
        /\ \A u \in Ships \ {s} : hold'[u] = hold[u]
        /\ at' \in [Ships -> Waypoints]
    BY <1>1, <1>2, <1>4, <1>5, <1>6 DEF Typed
  <1>8. left \in SUBSET tickets /\ IsFiniteSet(left) BY <1>3, FS_Subset DEF left
  <1>9. \A u \in Ships : IsTotal(hold'[u]) BY <1>1, <1>6, <1>7 DEF Totalled
  <1>10. FromExports' BY <1>1, <1>2, <1>8 DEF FromExports
  <1>11. capital' \in Int /\ ReservedBy(bought) <= capital' + fuel
    <2>1. /\ ReservedBy(Purchases) \in Nat /\ ReservedBy(bought) \in Nat
          /\ capital + proceeds + fuel >= ReservedBy(bought) /\ capital + proceeds \in Int
          /\ fuel \in Nat
      <3>1. Purchases \in SUBSET tickets /\ bought \in SUBSET tickets BY DEF Purchases, bought, left
      <3>2. ReservedBy(Purchases) \in Nat /\ ReservedBy(bought) \in Nat BY <1>3, <1>4, <3>1, CostsOfSets
      <3>3. capital \in Int /\ fuel \in Nat /\ ReservedBy(Purchases) <= capital + fuel
        BY <1>1 DEF Typed, PurchasesAreCovered
      <3>4. CASE k.kind = "Purchase"
        <4>1. /\ bought \cap {k} = {} /\ Purchases = bought \cup {k} /\ {k} \in SUBSET tickets
          BY <3>4 DEF Purchases, bought, left
        <4>2. ReservedBy(bought \cup {k}) = ReservedBy(bought) + ReservedBy({k})
          BY <1>3, <1>4, <3>1, <4>1, CostsOfSets
        <4>3. ReservedBy({k}) = Cost(k) /\ Cost(k) \in Nat BY <1>3, <1>4, CostsOfSets
        <4>4. ReservedBy(Purchases) = ReservedBy(bought) + Cost(k) BY <4>1, <4>2, <4>3
        <4>5. proceeds = -Cost(k) BY <3>4
        <4> QED BY <3>2, <3>3, <4>3, <4>4, <4>5
      <3>5. CASE k.kind # "Purchase"
        <4>1. bought = Purchases BY <3>5 DEF Purchases, bought, left
        <4>2. proceeds >= 0 BY <3>5
        <4> QED BY <3>2, <3>3, <4>1, <4>2
      <3> QED BY <3>4, <3>5
    <2>2. Budget \in Nat BY FleetAssumption
    <2> QED BY <1>2, <2>1, <2>2 DEF LowerOf
  <1>12. PurchasesAreCovered' BY <1>2, <1>11 DEF PurchasesAreCovered, Purchases, bought
  <1>13. PurchasesFitTogether'
    <2>1. ASSUME NEW u \in Ships
          PROVE  hold'[u].units + UnitsOfAll({x \in bought : x.ship = u}) <= Capacity[u]
      <3> DEFINE old == {x \in Purchases : x.ship = u}
      <3>1. hold[u].units + UnitsOfAll(old) <= Capacity[u] BY <1>1 DEF PurchasesFitTogether
      <3>2. {x \in bought : x.ship = u} = old \ {k} BY DEF bought, left, Purchases
      <3>3. old \in SUBSET tickets BY DEF Purchases
      <3>4. k \in old <=> u = s /\ k.kind = "Purchase" BY DEF Purchases
      <3> HIDE DEF old
      <3>5. /\ UnitsOfAll(old \ {k}) \in Nat
            /\ k \in old => UnitsOfAll(old) = UnitsOfAll(old \ {k}) + k.units
            /\ k \notin old => old \ {k} = old
        BY <1>3, <1>4, <3>3, WithoutTicket
      <3>6. Capacity[u] \in Nat /\ k.units \in Nat /\ hold[u].units \in Nat
        BY <1>4, <1>5, FleetAssumption
      <3>7. CASE u = s
        <4>1. hold'[u].units = hold[u].units + n BY <1>6, <1>7, <3>7
        <4>2. CASE k.kind = "Purchase"
          <5>1. n = k.units /\ k \in old BY <3>4, <3>7, <4>2
          <5>2. UnitsOfAll(old) = UnitsOfAll(old \ {k}) + k.units /\ UnitsOfAll(old \ {k}) \in Nat
            BY <3>5, <5>1
          <5>3. hold'[u].units + UnitsOfAll(old \ {k}) <= Capacity[u]
            BY <3>1, <3>6, <4>1, <5>1, <5>2
          <5> QED BY <3>2, <5>3
        <4>3. CASE k.kind # "Purchase"
          <5>1. n = -k.units /\ old \ {k} = old BY <3>4, <3>5, <4>3
          <5>2. UnitsOfAll(old) \in Nat BY <3>5, <5>1
          <5>3. hold'[u].units + UnitsOfAll(old) <= Capacity[u] BY <3>1, <3>6, <4>1, <5>1, <5>2
          <5> QED BY <3>2, <5>1, <5>3
        <4> QED BY <4>2, <4>3
      <3>8. CASE u # s
        <4>1. hold'[u] = hold[u] /\ k \notin old BY <1>7, <3>4, <3>8
        <4> QED BY <3>1, <3>2, <3>5, <4>1
      <3> QED BY <3>7, <3>8
    <2>2. Purchases' = bought BY <1>2 DEF Purchases, bought
    <2> QED BY <2>1, <2>2 DEF PurchasesFitTogether
  <1>14. DeliveriesAreBacked'
    <2>1. ASSUME NEW u \in Ships \ outdated, NEW g \in Goods
          PROVE  UnitsIn(left, u, {"Sell", "Supply"}, g)
                   <= hold'[u].inv[g] + UnitsIn(left, u, {"Purchase"}, g)
      <3> DEFINE out == {x \in tickets : x.ship = u /\ x.kind \in {"Sell", "Supply"} /\ x.good = g}
                 in == {x \in tickets : x.ship = u /\ x.kind \in {"Purchase"} /\ x.good = g}
      <3>1. UnitsOfAll(out) <= hold[u].inv[g] + UnitsOfAll(in)
        BY <1>1 DEF DeliveriesAreBacked, UnitsIn
      <3>2. /\ UnitsIn(left, u, {"Sell", "Supply"}, g) = UnitsOfAll(out \ {k})
            /\ UnitsIn(left, u, {"Purchase"}, g) = UnitsOfAll(in \ {k})
        <4>1. {x \in left : x.ship = u /\ x.kind \in {"Sell", "Supply"} /\ x.good = g} = out \ {k}
          BY DEF left
        <4>2. {x \in left : x.ship = u /\ x.kind \in {"Purchase"} /\ x.good = g} = in \ {k}
          BY DEF left
        <4> HIDE DEF out, in
        <4> QED BY <4>1, <4>2 DEF UnitsIn
      <3>3. out \in SUBSET tickets /\ in \in SUBSET tickets OBVIOUS
      <3>4. /\ k \in in <=> u = s /\ g = k.good /\ k.kind = "Purchase"
            /\ k \in out <=> u = s /\ g = k.good /\ k.kind # "Purchase"
        BY <1>3, TicketType
      <3> HIDE DEF out, in
      <3>5. /\ UnitsOfAll(out \ {k}) \in Nat
            /\ k \in out => UnitsOfAll(out) = UnitsOfAll(out \ {k}) + k.units
            /\ k \notin out => out \ {k} = out
        BY <1>3, <1>4, <3>3, WithoutTicket
      <3>6. /\ UnitsOfAll(in \ {k}) \in Nat
            /\ k \in in => UnitsOfAll(in) = UnitsOfAll(in \ {k}) + k.units
            /\ k \notin in => in \ {k} = in
        BY <1>3, <1>4, <3>3, WithoutTicket
      <3>7. k.units \in Nat /\ hold[u].inv[g] \in Nat BY <1>4, <1>5
      <3>8. CASE u = s /\ g = k.good
        <4>1. hold'[u].inv[g] = hold[u].inv[g] + n BY <1>6, <1>7, <3>8
        <4>2. CASE k.kind = "Purchase"
          <5>1. n = k.units /\ k \in in /\ out \ {k} = out BY <3>4, <3>5, <3>8, <4>2
          <5>2. UnitsOfAll(in) = UnitsOfAll(in \ {k}) + k.units /\ UnitsOfAll(in \ {k}) \in Nat
            BY <3>6, <5>1
          <5>3. UnitsOfAll(out) \in Nat BY <3>5, <5>1
          <5>4. UnitsOfAll(out) <= hold'[u].inv[g] + UnitsOfAll(in \ {k})
            BY <3>1, <3>7, <4>1, <5>1, <5>2, <5>3
          <5> QED BY <3>2, <5>1, <5>4
        <4>3. CASE k.kind # "Purchase"
          <5>1. n = -k.units /\ in \ {k} = in /\ k \in out BY <3>4, <3>6, <3>8, <4>3
          <5>2. UnitsOfAll(out) = UnitsOfAll(out \ {k}) + k.units /\ UnitsOfAll(out \ {k}) \in Nat
            BY <3>5, <5>1
          <5>3. UnitsOfAll(in) \in Nat BY <3>6, <5>1
          <5>4. UnitsOfAll(out \ {k}) <= hold'[u].inv[g] + UnitsOfAll(in)
            BY <3>1, <3>7, <4>1, <5>1, <5>2, <5>3
          <5> QED BY <3>2, <5>1, <5>4
        <4> QED BY <4>2, <4>3
      <3>9. CASE ~(u = s /\ g = k.good)
        <4>1. hold'[u].inv[g] = hold[u].inv[g] BY <1>6, <1>7, <3>9
        <4>2. k \notin in /\ k \notin out BY <3>4, <3>9
        <4> QED BY <3>1, <3>2, <3>5, <3>6, <4>1, <4>2
      <3> QED BY <3>8, <3>9
    <2> QED BY <1>2, <2>1 DEF DeliveriesAreBacked
  <1> QED BY <1>2, <1>6, <1>7, <1>8, <1>9, <1>10, <1>11, <1>12, <1>13, <1>14

\* A purchase, with its report.
LEMMA PurchaseStep ==
  ASSUME IInv, NEW s \in Ships, NEW k \in tickets, Purchase(s, k)
  PROVE  IInv'
  <1>1. /\ k.kind = "Purchase" /\ k.ship = s /\ Fits(hold[s], Capacity[s], k.units)
        /\ Complete(s, k, Changed(hold[s], k.good, k.units), -Cost(k))
        /\ stored' = [stored EXCEPT ![s] = hold'[s]]
        /\ fleet' = fleet /\ task' = task /\ missing' = missing /\ known' = known
        /\ answer' = answer /\ stocked' = stocked /\ misled' = misled /\ outdated' = outdated
        /\ fuel' = fuel
    BY DEF Purchase, Completable, WithItemAdded
  <1>2. Typed /\ Totalled /\ Fresh BY DEF IInv
  <1>3. k.units \in Nat /\ k.price \in Nat /\ k.good \in Goods BY <1>2, TicketType DEF Typed
  <1>4. hold[s].inv[k.good] \in Nat BY <1>2, <1>3, CargoType DEF Typed
  <1>5. -Cost(k) \in Int BY <1>3 DEF Cost
  <1>6. hold[s].inv[k.good] + k.units >= 0 BY <1>3, <1>4
  <1>7. /\ at' \in [Ships -> Waypoints] /\ hold' \in [Ships -> Cargos]
        /\ tickets' \in SUBSET tickets /\ IsFiniteSet(tickets') /\ capital' \in Int
        /\ \A u \in Ships : IsTotal(hold'[u])
        /\ \A u \in Ships \ {s} : hold'[u] = hold[u]
        /\ FromExports' /\ PurchasesAreCovered' /\ PurchasesFitTogether' /\ DeliveriesAreBacked'
    BY <1>1, <1>3, <1>5, <1>6, Completing
  <1>8. stored' \in [Ships -> Cargos] /\ stored'[s] = hold'[s]
        /\ \A u \in Ships \ {s} : stored'[u] = stored[u]
    BY <1>1, <1>2, <1>7 DEF Typed
  <1>9. Typed' BY <1>1, <1>2, <1>7, <1>8 DEF Typed
  <1>10. Totalled'
    <2>1. \A u \in Ships : hold'[u].units \in Nat BY <1>7, CargoType
    <2>2. hold'[s].units <= stored'[s].units /\ IsTotal(stored'[s]) BY <1>7, <1>8, <2>1
    <2>3. \A u \in Ships \ {s} : hold'[u].units <= stored'[u].units /\ IsTotal(stored'[u])
      BY <1>2, <1>7, <1>8 DEF Totalled
    <2> QED BY <1>7, <2>2, <2>3 DEF Totalled
  <1>11. Fresh' BY <1>1, <1>2, <1>7, <1>8 DEF Fresh
  <1>12. OneSource => SuppliesAreNecessary'
    <2>1. \A g : {x \in tickets' : x.kind = "Supply" /\ x.good = g} = {x \in tickets : x.kind = "Supply" /\ x.good = g}
      BY <1>1 DEF Complete
    <2> QED BY <1>1, <2>1 DEF IInv, SuppliesAreNecessary
  <1> QED BY <1>7, <1>9, <1>10, <1>11, <1>12 DEF IInv, OneSource

\* A sale, with its report.
LEMMA SellStep ==
  ASSUME IInv, NEW s \in Ships, NEW k \in tickets, Sell(s, k)
  PROVE  IInv'
  <1>1. /\ k.kind = "Sell" /\ k.ship = s /\ HasInCargo(hold[s], k.good, k.units)
        /\ Complete(s, k, Changed(hold[s], k.good, -k.units), Cost(k))
        /\ stored' = [stored EXCEPT ![s] = hold'[s]]
        /\ fleet' = fleet /\ task' = task /\ missing' = missing /\ known' = known
        /\ answer' = answer /\ stocked' = stocked /\ misled' = misled /\ outdated' = outdated
        /\ fuel' = fuel
    BY DEF Sell, Completable, WithUnitsRemoved
  <1>2. Typed /\ Totalled /\ Fresh BY DEF IInv
  <1>3. k.units \in Nat /\ k.price \in Nat /\ k.good \in Goods BY <1>2, TicketType DEF Typed
  <1>4. hold[s].inv[k.good] \in Nat BY <1>2, <1>3, CargoType DEF Typed
  <1>5. Cost(k) \in Int /\ Cost(k) >= 0 /\ -k.units \in Int BY <1>3 DEF Cost
  <1>6. hold[s].inv[k.good] + (-k.units) >= 0 BY <1>1, <1>3, <1>4 DEF HasInCargo
  <1>7. /\ at' \in [Ships -> Waypoints] /\ hold' \in [Ships -> Cargos]
        /\ tickets' \in SUBSET tickets /\ IsFiniteSet(tickets') /\ capital' \in Int
        /\ \A u \in Ships : IsTotal(hold'[u])
        /\ \A u \in Ships \ {s} : hold'[u] = hold[u]
        /\ FromExports' /\ PurchasesAreCovered' /\ PurchasesFitTogether' /\ DeliveriesAreBacked'
    BY <1>1, <1>3, <1>5, <1>6, Completing
  <1>8. stored' \in [Ships -> Cargos] /\ stored'[s] = hold'[s]
        /\ \A u \in Ships \ {s} : stored'[u] = stored[u]
    BY <1>1, <1>2, <1>7 DEF Typed
  <1>9. Typed' BY <1>1, <1>2, <1>7, <1>8 DEF Typed
  <1>10. Totalled'
    <2>1. \A u \in Ships : hold'[u].units \in Nat BY <1>7, CargoType
    <2>2. hold'[s].units <= stored'[s].units /\ IsTotal(stored'[s]) BY <1>7, <1>8, <2>1
    <2>3. \A u \in Ships \ {s} : hold'[u].units <= stored'[u].units /\ IsTotal(stored'[u])
      BY <1>2, <1>7, <1>8 DEF Totalled
    <2> QED BY <1>7, <2>2, <2>3 DEF Totalled
  <1>11. Fresh' BY <1>1, <1>2, <1>7, <1>8 DEF Fresh
  <1>12. OneSource => SuppliesAreNecessary'
    <2>1. \A g : {x \in tickets' : x.kind = "Supply" /\ x.good = g} = {x \in tickets : x.kind = "Supply" /\ x.good = g}
      BY <1>1 DEF Complete
    <2> QED BY <1>1, <2>1 DEF IInv, SuppliesAreNecessary
  <1> QED BY <1>7, <1>9, <1>10, <1>11, <1>12 DEF IInv, OneSource

\* A supply, whose report follows.
LEMMA SupplyStep ==
  ASSUME IInv, NEW s \in Ships, NEW k \in tickets, Supply(s, k)
  PROVE  IInv'
  <1>1. /\ k.kind = "Supply" /\ k.ship = s /\ HasInCargo(hold[k.ship], k.good, k.units)
        /\ missing[k.good] >= k.units
        /\ Complete(s, k, Changed(hold[s], k.good, -k.units), 0)
        /\ missing' = [missing EXCEPT ![k.good] = @ - k.units]
        /\ answer' = [answer EXCEPT ![s] = missing']
        /\ task' = [task EXCEPT ![s] = "supplied"]
        /\ fleet' = fleet /\ stored' = stored /\ known' = known
        /\ stocked' = stocked /\ misled' = misled /\ outdated' = outdated /\ fuel' = fuel
    BY DEF Supply, Completable, WithUnitsRemoved, IsAccepted
  <1>2. Typed /\ Totalled /\ Fresh BY DEF IInv
  <1>3. k.units \in Nat /\ k.good \in Goods BY <1>2, TicketType DEF Typed
  <1>4. hold[s].inv[k.good] \in Nat BY <1>2, <1>3, CargoType DEF Typed
  <1>5. 0 \in Int /\ 0 >= 0 /\ -k.units \in Int BY <1>3
  <1>6. hold[s].inv[k.good] + (-k.units) >= 0 BY <1>1, <1>3, <1>4 DEF HasInCargo
  <1>7. /\ at' \in [Ships -> Waypoints] /\ hold' \in [Ships -> Cargos]
        /\ tickets' \in SUBSET tickets /\ IsFiniteSet(tickets') /\ capital' \in Int
        /\ hold'[s].units = hold[s].units + (-k.units)
        /\ \A u \in Ships : IsTotal(hold'[u])
        /\ \A u \in Ships \ {s} : hold'[u] = hold[u]
        /\ FromExports' /\ PurchasesAreCovered' /\ PurchasesFitTogether' /\ DeliveriesAreBacked'
    BY <1>1, <1>3, <1>5, <1>6, Completing
  <1>8. missing' \in [Goods -> Nat]
    <2>1. missing[k.good] - k.units \in Nat BY <1>1, <1>2, <1>3 DEF Typed
    <2> QED BY <1>1, <1>2, <2>1 DEF Typed
  <1>9. Typed'
    <2>1. answer' \in [Ships -> [Goods -> Nat]] /\ task' \in [Ships -> TaskStates]
      BY <1>1, <1>2, <1>8 DEF Typed, TaskStates
    <2> QED BY <1>1, <1>2, <1>7, <1>8, <2>1 DEF Typed
  <1>10. Totalled'
    <2>1. \A u \in Ships : hold[u].units \in Nat /\ stored[u].units \in Nat BY <1>2, CargoType DEF Typed
    <2>2. hold[s].units <= stored[s].units BY <1>2 DEF Totalled
    <2>3. hold'[s].units <= stored[s].units BY <1>3, <1>7, <2>1, <2>2
    <2>4. \A u \in Ships : hold'[u].units <= stored'[u].units BY <1>1, <1>2, <1>7, <2>3 DEF Totalled
    <2> QED BY <1>1, <1>2, <1>7, <2>4 DEF Totalled
  <1>11. Fresh' BY <1>1, <1>2, <1>7 DEF Fresh, Typed
  <1>12. OneSource => SuppliesAreNecessary'
    <2> SUFFICES ASSUME OneSource, ~misled, NEW g \in Goods
                 PROVE  UnitsOfAll({x \in tickets' : x.kind = "Supply" /\ x.good = g}) <= missing'[g]
      BY <1>1 DEF SuppliesAreNecessary
    <2> DEFINE old == {x \in tickets : x.kind = "Supply" /\ x.good = g}
    <2>1. UnitsOfAll(old) <= missing[g] BY DEF IInv, SuppliesAreNecessary
    <2>2. {x \in tickets' : x.kind = "Supply" /\ x.good = g} = old \ {k} BY <1>1 DEF Complete
    <2>3. k \in old <=> g = k.good BY <1>1
    <2>4. old \in SUBSET tickets OBVIOUS
    <2>5. IsFiniteSet(tickets) /\ \A x \in tickets : x.units \in Nat BY <1>2, TicketType DEF Typed
    <2>6. missing[g] \in Nat BY <1>2 DEF Typed
    <2> HIDE DEF old
    <2>7. /\ UnitsOfAll(old \ {k}) \in Nat
          /\ k \in old => UnitsOfAll(old) = UnitsOfAll(old \ {k}) + k.units
          /\ k \notin old => old \ {k} = old
      BY <2>4, <2>5, WithoutTicket
    <2>8. CASE g = k.good
      <3>1. missing'[g] = missing[g] - k.units BY <1>1, <1>2, <2>8 DEF Typed
      <3>2. UnitsOfAll(old) = UnitsOfAll(old \ {k}) + k.units BY <2>3, <2>7, <2>8
      <3>3. UnitsOfAll(old \ {k}) <= missing[g] - k.units BY <1>3, <2>1, <2>6, <2>7, <3>2
      <3> QED BY <2>2, <3>1, <3>3
    <2>9. CASE g # k.good
      <3>1. missing'[g] = missing[g] BY <1>1, <1>2, <2>9 DEF Typed
      <3> QED BY <2>1, <2>2, <2>3, <2>7, <2>9, <3>1
    <2> QED BY <2>8, <2>9
  <1> QED BY <1>7, <1>9, <1>10, <1>11, <1>12 DEF IInv, OneSource

-----------------------------------------------------------------------------
(* The other steps, and the theorems *)

\* A step that leaves cargo, tickets and capital alone, and the site.
LEMMA ReportStep ==
  ASSUME IInv, NEW s \in Ships, UpsertShip(s) \/ UpdateConstructionSite(s)
  PROVE  IInv'
  <1>1. /\ Typed /\ Totalled /\ Fresh /\ FromExports /\ PurchasesAreCovered /\ PurchasesFitTogether
        /\ DeliveriesAreBacked /\ (OneSource => SuppliesAreNecessary)
    BY DEF IInv
  <1>2. /\ fleet' = fleet /\ at' = at /\ hold' = hold /\ tickets' = tickets /\ capital' = capital
        /\ missing' = missing /\ stocked' = stocked /\ misled' = misled /\ outdated' = outdated
        /\ fuel' = fuel
    BY DEF UpsertShip, UpdateConstructionSite
  <1>3. /\ FromExports' /\ PurchasesAreCovered' /\ PurchasesFitTogether'
        /\ DeliveriesAreBacked' /\ (OneSource => SuppliesAreNecessary')
    BY <1>1, <1>2
       DEF FromExports, PurchasesAreCovered, PurchasesFitTogether, Purchases, DeliveriesAreBacked,
           SuppliesAreNecessary
  <1>4. Typed' /\ Totalled' /\ Fresh'
    <2>1. CASE UpsertShip(s)
      <3>1. /\ task[s] = "supplied" /\ stored' = [stored EXCEPT ![s] = hold[s]]
            /\ task' = [task EXCEPT ![s] = "reported"] /\ known' = known /\ answer' = answer
        BY <2>1 DEF UpsertShip
      <3>2. stored' \in [Ships -> Cargos] /\ task' \in [Ships -> TaskStates]
        BY <1>1, <3>1 DEF Typed, TaskStates
      <3>3. Typed' BY <1>1, <1>2, <3>1, <3>2 DEF Typed
      <3>4. stored'[s] = hold[s] /\ \A u \in Ships \ {s} : stored'[u] = stored[u] /\ task'[u] = task[u]
        BY <1>1, <3>1 DEF Typed
      <3>5. \A u \in Ships : hold[u].units \in Nat BY <1>1, CargoType DEF Typed
      <3>6. /\ IsTotal(stored'[s]) /\ hold[s].units <= stored'[s].units
            /\ \A u \in Ships \ {s} : IsTotal(stored'[u]) /\ hold[u].units <= stored'[u].units
        BY <1>1, <3>4, <3>5 DEF Totalled
      <3>7. Totalled' BY <1>1, <1>2, <3>6 DEF Totalled
      <3>8. Fresh' BY <1>1, <1>2, <3>4 DEF Fresh
      <3> QED BY <3>3, <3>7, <3>8
    <2>2. CASE UpdateConstructionSite(s)
      <3>1. /\ task[s] = "reported" /\ stored' = stored /\ known' = answer[s]
            /\ task' = [task EXCEPT ![s] = "trading"] /\ answer' = [answer EXCEPT ![s] = Required]
        BY <2>2 DEF UpdateConstructionSite
      <3>2. /\ task' \in [Ships -> TaskStates] /\ known' \in [Goods -> Nat]
            /\ answer' \in [Ships -> [Goods -> Nat]]
        BY <1>1, <3>1, FleetAssumption DEF Typed, TaskStates
      <3>3. Typed' BY <1>1, <1>2, <3>1, <3>2 DEF Typed
      <3>4. Totalled' BY <1>1, <1>2, <3>1 DEF Totalled
      <3>5. \A u \in Ships \ {s} : task'[u] = task[u] BY <1>1, <3>1 DEF Typed
      <3>6. Fresh' BY <1>1, <1>2, <3>1, <3>5 DEF Fresh
      <3> QED BY <3>3, <3>4, <3>6
    <2> QED BY <2>1, <2>2
  <1> QED BY <1>3, <1>4 DEF IInv, OneSource

\* What the fleet pays for fuel is what it may lack for its purchases.
LEMMA RefuelStep ==
  ASSUME IInv, NEW s \in Ships, Refuel(s)
  PROVE  IInv'
  <1>1. /\ Typed /\ Totalled /\ Fresh /\ FromExports /\ PurchasesAreCovered /\ PurchasesFitTogether
        /\ DeliveriesAreBacked /\ (OneSource => SuppliesAreNecessary)
    BY DEF IInv
  <1>2. /\ fleet' = fleet /\ task' = task /\ at' = at /\ hold' = hold /\ stored' = stored
        /\ tickets' = tickets /\ missing' = missing /\ known' = known /\ answer' = answer
        /\ stocked' = stocked /\ misled' = misled /\ outdated' = outdated
    BY DEF Refuel
  <1>3. PICK credits \in 1..(MaxFaults - crashes - fuel) : capital' = capital - credits /\ fuel' = fuel + credits
    BY DEF Refuel
  <1>4. capital \in Int /\ fuel \in Nat /\ credits \in Nat
    BY <1>1, <1>3, FleetAssumption DEF Typed
  <1>5. Typed' BY <1>1, <1>2, <1>3, <1>4 DEF Typed
  <1>6. PurchasesAreCovered'
    <2>1. Purchases' = Purchases BY <1>2 DEF Purchases
    <2>2. capital' + fuel' = capital + fuel BY <1>3, <1>4
    <2> QED BY <1>1, <2>1, <2>2 DEF PurchasesAreCovered
  <1>7. /\ Totalled' /\ Fresh' /\ FromExports' /\ PurchasesFitTogether' /\ DeliveriesAreBacked'
        /\ (OneSource => SuppliesAreNecessary')
    BY <1>1, <1>2 DEF Totalled, Fresh, FromExports, PurchasesFitTogether, Purchases,
                      DeliveriesAreBacked, SuppliesAreNecessary
  <1> QED BY <1>5, <1>6, <1>7 DEF IInv, OneSource

\* Initially nothing is planned, and the database knows the cargos.
LEMMA InitInv == ASSUME Init PROVE IInv
  <1>1. /\ fleet = InitialFleet /\ task = [s \in Ships |-> "idle"] /\ at = [s \in Ships |-> Home]
        /\ hold \in [Ships -> UNION Range(Leftovers)] /\ \A s \in Ships : hold[s] \in Leftovers[s]
        /\ stored = hold /\ tickets = {} /\ capital = Capital /\ fuel = 0
        /\ missing = Required /\ known = Required /\ answer = [s \in Ships |-> Required]
        /\ stocked \in StockLevels /\ misled = FALSE /\ outdated = {}
    BY DEF Init
  <1>2. \A s \in Ships : /\ hold[s] \in Cargos /\ hold[s].units <= Capacity[s]
                         /\ IsTotal(hold[s]) /\ hold[s].units \in Nat /\ Capacity[s] \in Nat
                         /\ hold[s].inv \in [Goods -> Nat]
    <2> TAKE s \in Ships
    <2>1. hold[s] \in Leftovers[s] /\ Leftovers[s] \in SUBSET Cargos BY <1>1, FleetAssumption
    <2>2. hold[s].units <= Capacity[s] /\ IsTotal(hold[s]) BY <2>1, FleetAssumption DEF IsTotal
    <2> QED BY <2>1, <2>2, CargoType, FleetAssumption
  <1>3. IsFiniteSet({}) BY FS_EmptySet
  <1>4. UnitsOfAll({}) = 0 /\ ReservedBy({}) = 0 BY <1>3, UnitsOfSets, CostsOfSets
  <1>5. Typed
    <2>1. hold \in [Ships -> Cargos] BY <1>1, <1>2
    <2>2. stocked \in SUBSET MaterialExports BY <1>1, FleetAssumption
    <2>3. answer \in [Ships -> [Goods -> Nat]] BY <1>1, FleetAssumption
    <2>4. capital \in Int /\ fuel \in Nat BY <1>1, FleetAssumption
    <2>5. task \in [Ships -> TaskStates] /\ at \in [Ships -> Waypoints] /\ fleet \in SUBSET Ships
      BY <1>1, FleetAssumption DEF TaskStates
    <2>6. missing \in [Goods -> Nat] /\ known \in [Goods -> Nat] BY <1>1, FleetAssumption
    <2> QED BY <1>1, <1>3, <2>1, <2>2, <2>3, <2>4, <2>5, <2>6 DEF Typed
  <1>6. Totalled /\ Fresh /\ FromExports BY <1>1, <1>2 DEF Totalled, Fresh, FromExports
  <1>7. PurchasesAreCovered
    <2>1. Purchases = {} BY <1>1 DEF Purchases
    <2>2. Capital \in Nat BY FleetAssumption
    <2> QED BY <1>1, <1>4, <2>1, <2>2 DEF PurchasesAreCovered
  <1>8. PurchasesFitTogether
    <2>1. ASSUME NEW s \in Ships
          PROVE  hold[s].units + UnitsOfAll({k \in Purchases : k.ship = s}) <= Capacity[s]
      <3>1. {k \in Purchases : k.ship = s} = {} BY <1>1 DEF Purchases
      <3>2. hold[s].units + 0 <= Capacity[s] BY <1>2
      <3> DEFINE n == hold[s].units + 0
      <3>3. hold[s].units + UnitsOfAll({}) = n BY <1>4
      <3> QED BY <3>1, <3>2, <3>3
    <2> QED BY <2>1 DEF PurchasesFitTogether
  <1>9. DeliveriesAreBacked
    <2>1. \A s, kinds, g : UnitsIn(tickets, s, kinds, g) = 0
      <3> TAKE s, kinds, g
      <3>1. {k \in tickets : k.ship = s /\ k.kind \in kinds /\ k.good = g} = {} BY <1>1
      <3> QED BY <1>4, <3>1 DEF UnitsIn
    <2> QED BY <1>2, <2>1 DEF DeliveriesAreBacked
  <1>10. SuppliesAreNecessary
    <2>1. ASSUME NEW g \in Goods
          PROVE  UnitsOfAll({k \in tickets : k.kind = "Supply" /\ k.good = g}) <= missing[g]
      <3>1. {k \in tickets : k.kind = "Supply" /\ k.good = g} = {} BY <1>1
      <3>2. missing[g] \in Nat BY <1>5 DEF Typed
      <3> QED BY <1>4, <3>1, <3>2
    <2> QED BY <2>1 DEF SuppliesAreNecessary
  <1> QED BY <1>5, <1>6, <1>7, <1>8, <1>9, <1>10 DEF IInv

LEMMA StepInv == ASSUME IInv, [Next]_vars PROVE IInv'
  <1>t. Typed BY DEF IInv
  <1>1. ASSUME NEW s \in Ships, Execute(s) PROVE IInv'
    <2>1. ASSUME NEW k \in tickets, Purchase(s, k) \/ Sell(s, k) \/ Supply(s, k) PROVE IInv'
      BY <2>1, PurchaseStep, SellStep, SupplyStep
    <2>2. CASE UpsertShip(s) \/ UpdateConstructionSite(s) BY <2>2, ReportStep
    <2> QED BY <1>1, <2>1, <2>2 DEF Execute
  <1>2. ASSUME NEW s \in Ships, FinishTrade(s) PROVE IInv'
    <2>1. /\ ComputeShipTasks(fleet, Finished(s), {s})
          /\ fleet' = fleet /\ answer' = answer
          /\ UNCHANGED <<at, hold, stored, capital, missing, known, stocked, fuel>>
      BY <1>2 DEF FinishTrade
    <2>2. Finished(s) \in [Ships -> TaskStates] BY <1>t DEF Finished, Typed, TaskStates
    <2>3. fleet \in SUBSET Ships /\ fleet' \in SUBSET Ships /\ answer' \in [Ships -> [Goods -> Nat]]
      BY <1>t, <2>1 DEF Typed
    <2> QED BY <2>1, <2>2, <2>3, Planning
  <1>3. ASSUME NEW s \in Ships, JoinFleet(s) PROVE IInv'
    <2>1. /\ ComputeShipTasks(fleet \cup {s}, task, Ships)
          /\ fleet' = fleet \cup {s} /\ answer' = answer
          /\ UNCHANGED <<at, hold, stored, capital, missing, known, stocked, fuel>>
      BY <1>3 DEF JoinFleet
    <2>2. /\ fleet \cup {s} \in SUBSET Ships /\ fleet' \in SUBSET Ships
          /\ answer' \in [Ships -> [Goods -> Nat]] /\ task \in [Ships -> TaskStates]
      BY <1>t, <2>1 DEF Typed
    <2> QED BY <2>1, <2>2, Planning
  <1>4. CASE Recompute
    <2>1. /\ ComputeShipTasks(fleet, task, Ships)
          /\ fleet' = fleet /\ answer' = answer
          /\ UNCHANGED <<at, hold, stored, capital, missing, known, stocked, fuel>>
      BY <1>4 DEF Recompute
    <2>2. /\ fleet \in SUBSET Ships /\ fleet' \in SUBSET Ships
          /\ answer' \in [Ships -> [Goods -> Nat]] /\ task \in [Ships -> TaskStates]
      BY <1>t, <2>1 DEF Typed
    <2> QED BY <2>1, <2>2, Planning
  <1>5. CASE Crash
    <2> DEFINE tasks == [s \in Ships |-> IF task[s] = "idle" THEN "idle" ELSE "trading"]
    <2>1. /\ ComputeShipTasks(fleet, tasks, Ships)
          /\ fleet' = fleet /\ answer' = [s \in Ships |-> Required]
          /\ UNCHANGED <<at, hold, stored, capital, missing, known, stocked, fuel>>
      BY <1>5 DEF Crash
    <2>2. /\ fleet \in SUBSET Ships /\ fleet' \in SUBSET Ships
          /\ answer' \in [Ships -> [Goods -> Nat]] /\ tasks \in [Ships -> TaskStates]
      BY <1>t, <2>1, FleetAssumption DEF Typed, TaskStates
    <2> HIDE DEF tasks
    <2> QED BY <2>1, <2>2, Planning
  <1>6. CASE MarketChanges \/ UNCHANGED vars
    <2>1. /\ fleet' = fleet /\ task' = task /\ at' = at /\ hold' = hold /\ stored' = stored
          /\ tickets' = tickets /\ capital' = capital /\ missing' = missing /\ known' = known
          /\ answer' = answer /\ misled' = misled /\ outdated' = outdated /\ fuel' = fuel
          /\ stocked' \in StockLevels \/ stocked' = stocked
      BY <1>6 DEF MarketChanges, vars
    <2>2. stocked' \in SUBSET MaterialExports BY <1>t, <2>1, FleetAssumption DEF Typed
    <2>3. Typed' BY <1>t, <2>1, <2>2 DEF Typed
    <2>4. /\ Totalled' /\ Fresh' /\ FromExports' /\ PurchasesAreCovered' /\ PurchasesFitTogether'
          /\ DeliveriesAreBacked' /\ (OneSource => SuppliesAreNecessary')
      BY <2>1 DEF IInv, Totalled, Fresh, FromExports, PurchasesAreCovered, PurchasesFitTogether,
                  Purchases, DeliveriesAreBacked, SuppliesAreNecessary
    <2> QED BY <2>3, <2>4 DEF IInv, OneSource
  <1>7. ASSUME NEW s \in Ships, Refuel(s) PROVE IInv' BY <1>7, RefuelStep
  <1> QED BY <1>1, <1>2, <1>3, <1>4, <1>5, <1>6, <1>7 DEF Next

\* The inductive invariant holds in every reachable state.
THEOREM Invariance == Spec => []IInv
  <1>1. Init => IInv BY InitInv
  <1>2. IInv /\ [Next]_vars => IInv' BY StepInv
  <1> QED BY <1>1, <1>2, PTL DEF Spec

\* Whatever the markets export, the fleet can pay for the purchases that it has
\* planned but for the fuel that it has paid since, and the ships have the space
\* for them.
THEOREM PurchasesHold == Spec => [](PurchasesAreCovered /\ PurchasesFitTogether)
  <1>1. IInv => PurchasesAreCovered /\ PurchasesFitTogether BY DEF IInv
  <1> QED BY <1>1, Invariance, PTL

\* If each material of the construction has one source, the supplies are also no
\* more than the site is missing, as long as the admiral is not misled.
THEOREM Fit == Spec => [](OneSource => TicketsFit)
  <1>1. IInv => (OneSource => TicketsFit) BY DEF IInv, TicketsFit
  <1> QED BY <1>1, Invariance, PTL

\* What the tickets of a ship sell or supply is on board or bought before, unless
\* they were made for a cargo the database had wrong.
THEOREM Backed == Spec => []DeliveriesAreBacked
  <1>1. IInv => DeliveriesAreBacked BY DEF IInv
  <1> QED BY <1>1, Invariance, PTL
=============================================================================
