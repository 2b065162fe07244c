--------------------------- MODULE FleetRunnerProofs ---------------------------
(***************************************************************************)
(* Theorems of FleetRunner, for any agent that starts with a frigate, any   *)
(* sizes of the channels and any numbers of errors, crashes and failures.   *)
(*                                                                         *)
(* IInv is about the process: what a fiber, a message, a snapshot of the    *)
(* restart task and a row of the tables may hold, and which agendas (what   *)
(* is left to do of a report, or of a start) can occur.  The order of an    *)
(* agenda is what the foreign keys need: the rows that a statement refers   *)
(* to are in the tables, or stored by the statements before it.             *)
(*                                                                         *)
(* StoreInv relates the admiral and the tables as long as no statement has  *)
(* failed and the status listener lives (Sound): they differ only in what a *)
(* statement that is left on the agenda will store, and the fleets differ   *)
(* from those of the phase only between the steps that replace them and the *)
(* next computation of tasks, which panics at a fleet without a budget.     *)
(*                                                                         *)
(* GrowInv follows a ship that is bought, from the ticket to the fiber, as  *)
(* long as nothing has crashed or failed (Unbroken): the agent's ships are  *)
(* known, announced or about to join, the known ones registered or to be    *)
(* launched (Tracked), and the fleets they are wanted for are those of the  *)
(* phase (Growing).                                                         *)
(***************************************************************************)
EXTENDS FleetRunner, FiniteSums, SequenceTheorems

Items == [type : ShipTypes, for : FleetTasks]

-----------------------------------------------------------------------------
(* What the plan computes is typed. *)

Accs == [left : [ShipTypes -> Nat], missing : Seq(Items)]

LEMMA WalkTyped ==
  ASSUME NEW acc \in Accs, NEW item \in Items
  PROVE  Walk(acc, item) \in Accs
  <1>1. item.type \in ShipTypes BY DEF Items
  <1>2. acc = [left |-> acc.left, missing |-> acc.missing] /\ acc.left \in [ShipTypes -> Nat] /\ acc.missing \in Seq(Items)
    BY DEF Accs
  <1>3. CASE acc.left[item.type] = 0
    <2>1. Walk(acc, item) = [left |-> acc.left, missing |-> Append(acc.missing, item)] BY <1>2, <1>3 DEF Walk
    <2> QED BY <2>1, <1>2 DEF Accs
  <1>4. CASE acc.left[item.type] # 0
    <2>1. Walk(acc, item) = [left |-> [acc.left EXCEPT ![item.type] = acc.left[item.type] - 1], missing |-> acc.missing]
      BY <1>2, <1>4 DEF Walk
    <2>2. acc.left[item.type] - 1 \in Nat BY <1>1, <1>2, <1>4
    <2>3. [acc.left EXCEPT ![item.type] = acc.left[item.type] - 1] \in [ShipTypes -> Nat] BY <2>2, <1>2
    <2> QED BY <2>1, <2>3, <1>2 DEF Accs
  <1> QED BY <1>3, <1>4

Entry(base, list, g, s) == IF s = {} THEN base ELSE LET i == Max(s) IN Walk(g[s \ {i}], list[i])

IsTable(base, list, S, g) == g = [s \in SUBSET S |-> Entry(base, list, g, s)]

LEMMA FoldAsTable ==
  ASSUME NEW base, NEW list
  PROVE  FoldLeft(Walk, base, list) = (CHOOSE g : IsTable(base, list, DOMAIN list, g))[DOMAIN list]
  BY DEF FoldLeft, MapThenFoldSet, IsTable, Entry

LEMMA MaxIsLast ==
  ASSUME NEW S, S \subseteq Int, IsFiniteSet(S), S # {}
  PROVE  Max(S) \in S /\ \A x \in S : x <= Max(S)
  <1>1. \E m \in S : \A x \in S : m >= x BY GreatestOfAll
  <1> QED BY <1>1 DEF Max

LEMMA TableExists ==
  ASSUME NEW base \in Accs, NEW list \in Seq(Items)
  PROVE  \E g : IsTable(base, list, DOMAIN list, g)
  <1> DEFINE S == DOMAIN list
             next == [p \in Accs \X S |-> Walk(p[1], list[p[2]])]
             last == [V \in SUBSET S |-> Max(V)]
  <1>1. S = 1..Len(list) /\ Len(list) \in Nat /\ \A i \in S : list[i] \in Items OBVIOUS
  <1>2. IsFiniteSet(S) /\ S \subseteq Int BY <1>1, FS_Interval
  <1>3. next \in [Accs \X S -> Accs]
    <2>1. \A p \in Accs \X S : Walk(p[1], list[p[2]]) \in Accs BY <1>1, WalkTyped
    <2> QED BY <2>1
  <1>4. ASSUME NEW V \in SUBSET S, V # {} PROVE last[V] \in V /\ last[V] = Max(V)
    <2>1. V \subseteq Int /\ IsFiniteSet(V) BY <1>2, FS_Subset
    <2> QED BY <2>1, <1>4, MaxIsLast
  <1> HIDE DEF S, last
  <1>5. PICK g \in [SUBSET S -> Accs] : IsFoldTable(base, next, last, S, g)
    <2> HIDE DEF next
    <2> QED BY <1>2, <1>3, <1>4, FoldTableTyped
  <1>6. ASSUME NEW V \in SUBSET S PROVE g[V] = Entry(base, list, g, V)
    <2>1. g[V] = FoldBody(base, next, last, g, V)
      <3> HIDE DEF next
      <3> QED BY <1>5 DEF IsFoldTable
    <2>2. CASE V = {} BY <2>1, <2>2 DEF FoldBody, Entry
    <2>3. CASE V # {}
      <3>1. last[V] = Max(V) /\ Max(V) \in S BY <1>4, <2>3
      <3>2. g[V \ {Max(V)}] \in Accs BY <1>5
      <3>3. <<g[V \ {Max(V)}], Max(V)>> \in Accs \X S BY <3>1, <3>2
      <3>4. next[<<g[V \ {Max(V)}], Max(V)>>] = Walk(g[V \ {Max(V)}], list[Max(V)]) BY <3>3
      <3> HIDE DEF next
      <3>5. g[V] = next[<<g[V \ {Max(V)}], Max(V)>>] BY <2>1, <2>3, <3>1 DEF FoldBody
      <3> QED BY <2>3, <3>4, <3>5 DEF Entry
    <2> QED BY <2>2, <2>3
  <1>7. g = [V \in SUBSET S |-> g[V]] BY <1>5
  <1>8. IsTable(base, list, S, g) BY <1>6, <1>7 DEF IsTable
  <1> QED BY <1>8 DEF S

LEMMA RepeatTyped ==
  ASSUME NEW n \in Nat, NEW type \in ShipTypes
  PROVE  Repeat(type, n) \in Seq(ShipTypes)
  <1>1. DOMAIN Repeat(type, n) = 1..n /\ \A i \in 1..n : Repeat(type, n)[i] \in ShipTypes BY DEF Repeat
  <1>2. Repeat(type, n) = [i \in 1..n |-> Repeat(type, n)[i]] BY DEF Repeat
  <1> QED BY <1>1, <1>2, IsASeq

LEMMA ForTyped ==
  ASSUME NEW types \in Seq(ShipTypes), NEW task \in FleetTasks
  PROVE  For(types, task) \in Seq(Items)
  <1> DEFINE f == For(types, task)
  <1>1. DOMAIN types = 1..Len(types) /\ Len(types) \in Nat /\ \A i \in 1..Len(types) : types[i] \in ShipTypes OBVIOUS
  <1>2. f = [i \in 1..Len(types) |-> [type |-> types[i], for |-> task]] BY <1>1 DEF For
  <1>3. \A i \in 1..Len(types) : [type |-> types[i], for |-> task] \in Items BY <1>1 DEF Items
  <1> QED BY <1>1, <1>2, <1>3, IsASeq

LEMMA ListTyped ==
  ASSUME NEW phase \in Phases
  PROVE  ShoppingList(phase) \in Seq(Items)
  <1>1. NumShipyards \in Nat /\ NumMarkets \in Nat /\ NumShipyards + NumMarkets \in Nat BY PlanAssumption
  <1>2. \A n \in Nat : \A type \in ShipTypes : Repeat(type, n) \in Seq(ShipTypes) BY RepeatTyped
  <1>3. \A task \in FleetTasks : \A types \in Seq(ShipTypes) : For(types, task) \in Seq(Items) BY ForTyped
  <1>4. {"frigate", "probe", "hauler", "mining_drone", "siphon_drone", "surveyor"} \subseteq ShipTypes BY DEF ShipTypes
  <1>5. <<"frigate">> \in Seq(ShipTypes) BY <1>4
  <1>6. MiningSquad \in Seq(ShipTypes) BY <1>4 DEF MiningSquad
  <1>7. Repeat("hauler", 3) \in Seq(ShipTypes) /\ Repeat("hauler", 4) \in Seq(ShipTypes)
        /\ Repeat("siphon_drone", 3) \in Seq(ShipTypes) BY <1>2, <1>4
  <1>8. Repeat("probe", NumShipyards) \in Seq(ShipTypes) /\ Repeat("probe", NumShipyards + NumMarkets) \in Seq(ShipTypes)
    BY <1>1, <1>2, <1>4
  <1>9. <<"frigate">> \o Repeat("hauler", 3) \in Seq(ShipTypes) BY <1>5, <1>7, ConcatProperties
  <1>10. Repeat("hauler", 4) \o Repeat("probe", NumShipyards + NumMarkets) \in Seq(ShipTypes) BY <1>7, <1>8, ConcatProperties
  <1>11. {"InitialExploration", "ObserveAllWaypoints", "ConstructJumpGate", "MineOres", "SiphonGases"} \subseteq FleetTasks
    BY DEF FleetTasks
  <1>12. CASE phase = "InitialExploration"
    <2>1. For(<<"frigate">>, "InitialExploration") \in Seq(Items)
          /\ For(Repeat("probe", NumShipyards), "ObserveAllWaypoints") \in Seq(Items) BY <1>3, <1>5, <1>8, <1>11
    <2>2. ShoppingList(phase) = For(<<"frigate">>, "InitialExploration") \o For(Repeat("probe", NumShipyards), "ObserveAllWaypoints")
      BY <1>12 DEF ShoppingList
    <2> QED BY <2>1, <2>2, ConcatProperties
  <1>13. CASE phase = "ConstructJumpGate"
    <2> DEFINE a == For(Repeat("probe", NumShipyards + NumMarkets), "ObserveAllWaypoints")
               b == For(<<"frigate">> \o Repeat("hauler", 3), "ConstructJumpGate")
               c == For(MiningSquad, "MineOres")
               d == For(Repeat("siphon_drone", 3), "SiphonGases")
    <2>1. a \in Seq(Items) /\ b \in Seq(Items) /\ c \in Seq(Items) /\ d \in Seq(Items)
      BY <1>3, <1>6, <1>7, <1>8, <1>9, <1>11
    <2>2. ShoppingList(phase) = a \o b \o c \o d \o c BY <1>13 DEF ShoppingList
    <2> HIDE DEF a, b, c, d
    <2>3. a \o b \in Seq(Items) BY <2>1, ConcatProperties
    <2>4. a \o b \o c \in Seq(Items) BY <2>1, <2>3, ConcatProperties
    <2>5. a \o b \o c \o d \in Seq(Items) BY <2>1, <2>4, ConcatProperties
    <2> QED BY <2>1, <2>2, <2>5, ConcatProperties
  <1>14. CASE phase = "TradeProfitably"
    <2>1. For(Repeat("hauler", 4) \o Repeat("probe", NumShipyards + NumMarkets), "ObserveAllWaypoints") \in Seq(Items)
      BY <1>3, <1>10, <1>11
    <2> QED BY <1>14, <2>1 DEF ShoppingList
  <1> QED BY <1>12, <1>13, <1>14 DEF Phases


\* What is missing is for the same fleets as what remains on the list, if the walk
\* begins with ships for the others.
LEMMA WalkFrom ==
  ASSUME NEW list \in Seq(Items), NEW have \in [ShipTypes -> Nat], NEW fleets,
         \A i \in DOMAIN list : list[i].for \in fleets \/ (i = 1 /\ have[list[1].type] # 0)
  PROVE  /\ FoldLeft(Walk, [left |-> have, missing |-> <<>>], list).missing \in Seq(Items)
         /\ \A i \in DOMAIN FoldLeft(Walk, [left |-> have, missing |-> <<>>], list).missing :
               FoldLeft(Walk, [left |-> have, missing |-> <<>>], list).missing[i].for \in fleets
  <1> DEFINE base == [left |-> have, missing |-> <<>>]
             n == Len(list)
             g == CHOOSE g : IsTable(base, list, DOMAIN list, g)
             Wanted1 == {item \in Items : item.for \in fleets}
             Good == {k \in 0..n : /\ g[1..k] \in Accs /\ g[1..k].missing \in Seq(Wanted1)
                                   /\ k = 0 => g[1..k].left = have}
  <1>1. n \in Nat /\ DOMAIN list = 1..n /\ \A i \in 1..n : list[i] \in Items OBVIOUS
  <1>2. base \in Accs BY EmptySeq DEF Accs
  <1>3. IsTable(base, list, DOMAIN list, g)
    <2>1. \E h : IsTable(base, list, DOMAIN list, h)
      <3> HIDE DEF base
      <3> QED BY <1>2, TableExists
    <2> HIDE DEF base
    <2> QED BY <2>1
  <1>4. FoldLeft(Walk, base, list) = g[1..n]
    <2>1. FoldLeft(Walk, base, list) = g[DOMAIN list] BY FoldAsTable
    <2> HIDE DEF g
    <2> QED BY <2>1, <1>1
  <1> HIDE DEF g
  <1>5. \A k \in 0..n : g[1..k] = Entry(base, list, g, 1..k)
    <2> TAKE k \in 0..n
    <2>1. 1..k \in SUBSET DOMAIN list BY <1>1
    <2> QED BY <2>1, <1>3 DEF IsTable
  <1>6. 0 \in Good
    <2>1. 1..0 = {} /\ 0 \in 0..n BY <1>1
    <2>2. g[1..0] = base BY <1>5, <2>1 DEF Entry
    <2>3. base.missing = <<>> /\ base.left = have OBVIOUS
    <2>4. <<>> \in Seq(Wanted1) BY EmptySeq
    <2> HIDE DEF base, Wanted1
    <2> QED BY <2>1, <2>2, <2>3, <2>4, <1>2
  <1>7. ASSUME NEW k \in 0..n, k < n, k \in Good PROVE k + 1 \in Good
    <2> DEFINE acc == g[1..k]
               item == list[k + 1]
    <2>1. k \in Nat /\ k + 1 \in 1..n /\ k + 1 \in 0..n /\ item \in Items BY <1>1, <1>7
    <2>2. g[1..(k + 1)] = Walk(acc, item)
      <3>1. IsFiniteSet(1..(k + 1)) /\ 1..(k + 1) \subseteq Int /\ k + 1 \in 1..(k + 1) BY <2>1, FS_Interval
      <3>2. Max(1..(k + 1)) \in 1..(k + 1) /\ \A x \in 1..(k + 1) : x <= Max(1..(k + 1)) BY <3>1, MaxIsLast
      <3>3. Max(1..(k + 1)) = k + 1 BY <2>1, <3>1, <3>2
      <3>4. (1..(k + 1)) \ {k + 1} = 1..k BY <2>1
      <3>5. 1..(k + 1) # {} BY <3>1
      <3>6. g[1..(k + 1)] = Entry(base, list, g, 1..(k + 1)) BY <1>5, <2>1
      <3> QED BY <3>3, <3>4, <3>5, <3>6 DEF Entry
    <2>3. acc \in Accs /\ acc.missing \in Seq(Wanted1) /\ (k = 0 => acc.left = have) BY <1>7
    <2> HIDE DEF acc, item, Wanted1
    <2>4. Walk(acc, item) \in Accs BY <2>1, <2>3, WalkTyped
    <2>5. Walk(acc, item).missing \in Seq(Wanted1)
      <3>1. acc = [left |-> acc.left, missing |-> acc.missing] BY <2>3 DEF Accs
      <3>2. CASE acc.left[item.type] # 0
        <4>1. Walk(acc, item).missing = acc.missing BY <3>1, <3>2 DEF Walk
        <4> QED BY <4>1, <2>3
      <3>3. CASE acc.left[item.type] = 0
        <4>1. Walk(acc, item).missing = Append(acc.missing, item) BY <3>1, <3>3 DEF Walk
        <4>2. k + 1 \in DOMAIN list BY <1>1, <2>1
        <4>3. item.for \in fleets \/ (k + 1 = 1 /\ have[item.type] # 0) BY <4>2 DEF item
        <4>4. item.for \in fleets BY <4>3, <2>3, <3>3, <2>1
        <4>5. item \in Wanted1 BY <4>4, <2>1 DEF Wanted1
        <4> QED BY <4>1, <4>5, <2>3, AppendProperties
      <3> QED BY <3>2, <3>3
    <2> QED BY <2>1, <2>2, <2>4, <2>5
  <1>8. n \in Good
    <2>1. n \in 0..n BY <1>1
    <2> HIDE DEF Good
    <2> QED BY <1>1, <1>6, <1>7, <2>1, UpTo
  <1>9. g[1..n].missing \in Seq(Items) /\ g[1..n].missing \in Seq(Wanted1)
    <2>1. g[1..n] \in Accs /\ g[1..n].missing \in Seq(Wanted1) BY <1>8
    <2> QED BY <2>1 DEF Accs
  <1> HIDE DEF base
  <1>10. \A i \in DOMAIN g[1..n].missing : g[1..n].missing[i] \in Wanted1 BY <1>9
  <1> QED BY <1>4, <1>9, <1>10 DEF base


\* the fleets for which a phase buys ships
Buyers(phase) == {"ObserveAllWaypoints"} \cup
                 (IF phase = "InitialExploration" THEN {} ELSE {"ConstructJumpGate", "MineOres", "SiphonGases"})

LEMMA ForIs ==
  ASSUME NEW types, NEW task
  PROVE  DOMAIN For(types, task) = DOMAIN types /\ \A i \in DOMAIN For(types, task) : For(types, task)[i].for = task
  BY DEF For

LEMMA ListFor ==
  ASSUME NEW phase \in Phases
  PROVE  /\ \A i \in DOMAIN ShoppingList(phase) :
               \/ ShoppingList(phase)[i].for \in Buyers(phase)
               \/ i = 1 /\ phase = "InitialExploration"
         /\ phase = "InitialExploration" => ShoppingList(phase)[1].type = "frigate"
  <1>1. NumShipyards \in Nat /\ NumMarkets \in Nat /\ NumShipyards + NumMarkets \in Nat BY PlanAssumption
  <1>2. \A n \in Nat : \A type \in ShipTypes : Repeat(type, n) \in Seq(ShipTypes) BY RepeatTyped
  <1>3. \A task \in FleetTasks : \A types \in Seq(ShipTypes) : For(types, task) \in Seq(Items) BY ForTyped
  <1>4. {"frigate", "probe", "hauler", "mining_drone", "siphon_drone", "surveyor"} \subseteq ShipTypes BY DEF ShipTypes
  <1>5. <<"frigate">> \in Seq(ShipTypes) BY <1>4
  <1>6. MiningSquad \in Seq(ShipTypes) BY <1>4 DEF MiningSquad
  <1>7. Repeat("hauler", 3) \in Seq(ShipTypes) /\ Repeat("hauler", 4) \in Seq(ShipTypes)
        /\ Repeat("siphon_drone", 3) \in Seq(ShipTypes) BY <1>2, <1>4
  <1>8. Repeat("probe", NumShipyards) \in Seq(ShipTypes) /\ Repeat("probe", NumShipyards + NumMarkets) \in Seq(ShipTypes)
    BY <1>1, <1>2, <1>4
  <1>9. <<"frigate">> \o Repeat("hauler", 3) \in Seq(ShipTypes) BY <1>5, <1>7, ConcatProperties
  <1>11. {"InitialExploration", "ObserveAllWaypoints", "ConstructJumpGate", "MineOres", "SiphonGases"} \subseteq FleetTasks
    BY DEF FleetTasks
  <1>12. CASE phase = "InitialExploration"
    <2> DEFINE a == For(<<"frigate">>, "InitialExploration")
               b == For(Repeat("probe", NumShipyards), "ObserveAllWaypoints")
    <2>1. a \in Seq(Items) /\ b \in Seq(Items) BY <1>3, <1>5, <1>8, <1>11
    <2>2. ShoppingList(phase) = a \o b BY <1>12 DEF ShoppingList
    <2>3. Len(a) = 1 /\ a[1].type = "frigate" BY DEF For
    <2>4. \A i \in DOMAIN b : b[i].for = "ObserveAllWaypoints" BY ForIs
    <2> HIDE DEF a, b
    <2>5. Len(a \o b) = 1 + Len(b) /\ (a \o b)[1] = a[1] /\ a \o b \in Seq(Items)
      <3>1. Len(b) \in Nat /\ Len(a) = 1 /\ 1 \in 1..(Len(a) + Len(b)) BY <2>1, <2>3
      <3>2. a \o b \in Seq(Items) /\ Len(a \o b) = Len(a) + Len(b) BY <2>1, ConcatProperties
      <3>3. (a \o b)[1] = IF 1 <= Len(a) THEN a[1] ELSE b[1 - Len(a)] BY <2>1, <3>1, ConcatProperties
      <3> QED BY <3>1, <3>2, <3>3
    <2>6. ASSUME NEW i \in DOMAIN (a \o b), i # 1 PROVE (a \o b)[i].for = "ObserveAllWaypoints"
      <3>1. i \in 2..(1 + Len(b)) /\ Len(b) \in Nat BY <2>1, <2>5, <2>6
      <3>2. i - 1 \in 1..Len(b) BY <3>1
      <3>3. (a \o b)[i] = b[i - 1] BY <2>1, <2>3, <3>1, <2>5, ConcatProperties
      <3> QED BY <2>1, <2>4, <3>2, <3>3
    <2> QED BY <1>12, <2>2, <2>3, <2>5, <2>6 DEF Buyers
  <1>13. CASE phase = "ConstructJumpGate"
    <2> DEFINE a == For(Repeat("probe", NumShipyards + NumMarkets), "ObserveAllWaypoints")
               b == For(<<"frigate">> \o Repeat("hauler", 3), "ConstructJumpGate")
               c == For(MiningSquad, "MineOres")
               d == For(Repeat("siphon_drone", 3), "SiphonGases")
               Those == {item \in Items : item.for \in Buyers(phase)}
    <2>1. a \in Seq(Items) /\ b \in Seq(Items) /\ c \in Seq(Items) /\ d \in Seq(Items)
      BY <1>3, <1>6, <1>7, <1>8, <1>9, <1>11
    <2>2. {"ObserveAllWaypoints", "ConstructJumpGate", "MineOres", "SiphonGases"} = Buyers(phase) BY <1>13 DEF Buyers
    <2>3. /\ \A i \in DOMAIN a : a[i].for \in Buyers(phase)
          /\ \A i \in DOMAIN b : b[i].for \in Buyers(phase)
          /\ \A i \in DOMAIN c : c[i].for \in Buyers(phase)
          /\ \A i \in DOMAIN d : d[i].for \in Buyers(phase)
      <3> HIDE DEF Those
      <3> QED BY <2>2, ForIs
    <2>4. ShoppingList(phase) = a \o b \o c \o d \o c BY <1>13 DEF ShoppingList
    <2> HIDE DEF a, b, c, d
    <2>5. ASSUME NEW q \in Seq(Items), \A i \in DOMAIN q : q[i].for \in Buyers(phase) PROVE q \in Seq(Those)
      <3>1. \A i \in 1..Len(q) : q[i] \in Those BY <2>5
      <3> HIDE DEF Those
      <3> QED BY <3>1, SeqDef
    <2>6. a \in Seq(Those) /\ b \in Seq(Those) /\ c \in Seq(Those) /\ d \in Seq(Those) BY <2>1, <2>3, <2>5
    <2>7. ShoppingList(phase) \in Seq(Those)
      <3> HIDE DEF Those
      <3>3. a \o b \in Seq(Those) BY <2>6, ConcatProperties
      <3>4. a \o b \o c \in Seq(Those) BY <2>6, <3>3, ConcatProperties
      <3>5. a \o b \o c \o d \in Seq(Those) BY <2>6, <3>4, ConcatProperties
      <3> QED BY <2>4, <2>6, <3>5, ConcatProperties
    <2>8. \A i \in DOMAIN ShoppingList(phase) : ShoppingList(phase)[i] \in Those
      <3> HIDE DEF Those
      <3> QED BY <2>7
    <2> QED BY <1>13, <2>8
  <1>14. CASE phase = "TradeProfitably"
    <2>1. \A i \in DOMAIN ShoppingList(phase) : ShoppingList(phase)[i].for = "ObserveAllWaypoints" BY <1>14, ForIs DEF ShoppingList
    <2> QED BY <1>14, <2>1 DEF Buyers
  <1> QED BY <1>12, <1>13, <1>14 DEF Phases

\* The demand is a list of wanted ships; as long as the agent has a frigate none of
\* them is for the fleet of the first phase.
LEMMA PurchasesTyped ==
  ASSUME NEW agent \in SUBSET Ships, NEW phase \in Phases
  PROVE  /\ NextShipPurchases(agent, phase) \in Seq(Items)
         /\ OfType(agent, "frigate") # {} =>
               \A i \in DOMAIN NextShipPurchases(agent, phase) : NextShipPurchases(agent, phase)[i].for \in Buyers(phase)
  <1> DEFINE have == [t \in ShipTypes |-> Cardinality(OfType(agent, t))]
             list == ShoppingList(phase)
  <1>1. \A t \in ShipTypes : IsFiniteSet(OfType(agent, t)) /\ Cardinality(OfType(agent, t)) \in Nat
    <2>1. IsFiniteSet(agent) BY PlanAssumption, FS_Subset
    <2>2. \A t \in ShipTypes : OfType(agent, t) \subseteq agent BY DEF OfType
    <2> QED BY <2>1, <2>2, FS_Subset, FS_CardinalityType
  <1>2. have \in [ShipTypes -> Nat] BY <1>1
  <1>3. list \in Seq(Items) BY ListTyped
  <1>4. NextShipPurchases(agent, phase) = FoldLeft(Walk, [left |-> have, missing |-> <<>>], list).missing
    BY DEF NextShipPurchases
  <1>5. \A i \in DOMAIN list : list[i] \in Items BY <1>3
  <1>6. \A i \in DOMAIN list : list[i].for \in FleetTasks \/ (i = 1 /\ have[list[1].type] # 0) BY <1>5 DEF Items
  <1>7. ASSUME OfType(agent, "frigate") # {}
        PROVE \A i \in DOMAIN list : list[i].for \in Buyers(phase) \/ (i = 1 /\ have[list[1].type] # 0)
    <2>1. "frigate" \in ShipTypes BY DEF ShipTypes
    <2>2. have["frigate"] # 0 BY <1>1, <1>7, <2>1, FS_EmptySet
    <2> HIDE DEF have
    <2> QED BY <2>2, ListFor
  <1> HIDE DEF have, list
  <1>8. NextShipPurchases(agent, phase) \in Seq(Items) BY <1>2, <1>3, <1>4, <1>6, WalkFrom
  <1>9. ASSUME OfType(agent, "frigate") # {}
        PROVE \A i \in DOMAIN NextShipPurchases(agent, phase) : NextShipPurchases(agent, phase)[i].for \in Buyers(phase)
    BY <1>2, <1>3, <1>4, <1>7, <1>9, WalkFrom
  <1> QED BY <1>8, <1>9

\* An assignment sends ships of the agent to the fleets.
LEMMA AssignmentsTyped ==
  ASSUME NEW fleets \in Seq(FleetTasks), NEW agent \in SUBSET Ships, NEW list,
         NEW sent \in ShipAssignments(fleets, agent, list)
  PROVE  /\ sent \in [Ships -> FleetTasks \cup {NoFleet}]
         /\ \A s \in Ships : sent[s] # NoFleet => s \in agent /\ sent[s] \in Range(fleets)
  <1> DEFINE Pickers(p, s) == {i \in DOMAIN fleets : s \in agent /\ s \in p[i]}
  <1>1. PICK p : sent = [s \in Ships |-> IF Pickers(p, s) = {} THEN NoFleet ELSE fleets[Max(Pickers(p, s))]]
    BY DEF ShipAssignments
  <1>2. DOMAIN fleets = 1..Len(fleets) /\ Len(fleets) \in Nat /\ \A i \in DOMAIN fleets : fleets[i] \in FleetTasks OBVIOUS
  <1>3. IsFiniteSet(DOMAIN fleets) /\ DOMAIN fleets \subseteq Int BY <1>2, FS_Interval
  <1>4. ASSUME NEW s \in Ships, Pickers(p, s) # {} PROVE Max(Pickers(p, s)) \in Pickers(p, s)
    <2>1. Pickers(p, s) \subseteq DOMAIN fleets OBVIOUS
    <2>2. IsFiniteSet(Pickers(p, s)) /\ Pickers(p, s) \subseteq Int
      <3> HIDE DEF Pickers
      <3> QED BY <1>3, <2>1, FS_Subset
    <2> HIDE DEF Pickers
    <2> QED BY <1>4, <2>2, MaxIsLast
  <1>5. \A s \in Ships : Pickers(p, s) # {} => Max(Pickers(p, s)) \in DOMAIN fleets /\ s \in agent BY <1>4
  <1> HIDE DEF Pickers
  <1>6. \A s \in Ships : sent[s] = IF Pickers(p, s) = {} THEN NoFleet ELSE fleets[Max(Pickers(p, s))] BY <1>1
  <1>7. \A s \in Ships : sent[s] \in FleetTasks \cup {NoFleet} BY <1>2, <1>5, <1>6
  <1>8. sent \in [Ships -> FleetTasks \cup {NoFleet}] BY <1>1, <1>7
  <1>9. \A s \in Ships : sent[s] # NoFleet => s \in agent /\ sent[s] \in Range(fleets) BY <1>5, <1>6 DEF Range
  <1> QED BY <1>8, <1>9


-----------------------------------------------------------------------------
(* The agenda: the steps that the start, or a report, takes under the mutex. *)

In(t, x) == \E i \in DOMAIN t : t[i] = x

LEMMA Joined ==
  ASSUME NEW a \in Seq(Steps), NEW b \in Seq(Steps), NEW c \in Seq(Steps), Len(c) = Len(a) + Len(b),
         \A i \in 1..Len(a) : c[i] = a[i], \A i \in 1..Len(b) : c[Len(a) + i] = b[i]
  PROVE  a \o b = c
  <1>1. a \o b \in Seq(Steps) /\ Len(a \o b) = Len(c) BY ConcatProperties
  <1>2. ASSUME NEW i \in 1..Len(c) PROVE (a \o b)[i] = c[i]
    <2>1. (a \o b)[i] = IF i <= Len(a) THEN a[i] ELSE b[i - Len(a)] BY ConcatProperties
    <2>2. CASE i <= Len(a) BY <2>1, <2>2
    <2>3. CASE ~ (i <= Len(a))
      <3>1. i - Len(a) \in 1..Len(b) /\ Len(a) + (i - Len(a)) = i BY <2>3
      <3>2. c[Len(a) + (i - Len(a))] = b[i - Len(a)] BY <3>1
      <3> QED BY <2>1, <2>3, <3>1, <3>2
    <2> QED BY <2>2, <2>3
  <1> QED BY <1>1, <1>2, SeqEqual

LEMMA StartSteps1 ==
  Upserts \o <<"ComputeTasks">> =
    <<"UpsertFleets", "UpsertFleetTasks", "UpsertAssignment", "SaveShipTasks", "ComputeTasks">>
  <1> DEFINE a == Upserts
             b == <<"ComputeTasks">>
             c == <<"UpsertFleets", "UpsertFleetTasks", "UpsertAssignment", "SaveShipTasks",
                    "ComputeTasks">>
  <1>1. a \in Seq(Steps) /\ b \in Seq(Steps) /\ c \in Seq(Steps) /\ Len(a) = 4 /\ Len(b) = 1 /\ Len(c) = 5
    BY DEF Steps, Writes, Upserts
  <1>2. Len(c) = Len(a) + Len(b) /\ (\A i \in 1..Len(a) : c[i] = a[i]) /\ (\A i \in 1..Len(b) : c[Len(a) + i] = b[i])
    <2>1. \A i \in 1..4 : c[i] = a[i] BY DEF Steps, Writes, Upserts
    <2>2. \A i \in 1..1 : c[4 + i] = b[i] BY DEF Steps, Writes, Upserts
    <2> HIDE DEF a, b, c
    <2> QED BY <1>1, <2>1, <2>2
  <1> HIDE DEF a, b, c
  <1>3. a \in Seq(Steps) /\ b \in Seq(Steps) /\ c \in Seq(Steps) BY <1>1
  <1>4. a \o b = c BY ONLY <1>2, <1>3, Joined
  <1> QED BY <1>4 DEF a, b, c

LEMMA StartSteps2 ==
  Upserts \o <<"ComputeTasks">> \o Upserts =
    <<"UpsertFleets", "UpsertFleetTasks", "UpsertAssignment", "SaveShipTasks", "ComputeTasks",
      "UpsertFleets", "UpsertFleetTasks", "UpsertAssignment", "SaveShipTasks">>
  <1> DEFINE a == Upserts \o <<"ComputeTasks">>
             b == Upserts
             c == <<"UpsertFleets", "UpsertFleetTasks", "UpsertAssignment", "SaveShipTasks",
                    "ComputeTasks", "UpsertFleets", "UpsertFleetTasks", "UpsertAssignment",
                    "SaveShipTasks">>
  <1>1. a \in Seq(Steps) /\ b \in Seq(Steps) /\ c \in Seq(Steps) /\ Len(a) = 5 /\ Len(b) = 4 /\ Len(c) = 9
    BY StartSteps1 DEF Steps, Writes, Upserts
  <1>2. Len(c) = Len(a) + Len(b) /\ (\A i \in 1..Len(a) : c[i] = a[i]) /\ (\A i \in 1..Len(b) : c[Len(a) + i] = b[i])
    <2>1. \A i \in 1..5 : c[i] = a[i] BY StartSteps1 DEF Steps, Writes, Upserts
    <2>2. \A i \in 1..4 : c[5 + i] = b[i] BY StartSteps1 DEF Steps, Writes, Upserts
    <2> HIDE DEF a, b, c
    <2> QED BY <1>1, <2>1, <2>2
  <1> HIDE DEF a, b, c
  <1>3. a \in Seq(Steps) /\ b \in Seq(Steps) /\ c \in Seq(Steps) BY <1>1
  <1>4. a \o b = c BY ONLY <1>2, <1>3, Joined
  <1> QED BY <1>4, StartSteps1 DEF a, b, c

LEMMA StartSteps3 ==
  StartSteps =
    <<"UpsertFleets", "UpsertFleetTasks", "UpsertAssignment", "SaveShipTasks", "ComputeTasks",
      "UpsertFleets", "UpsertFleetTasks", "UpsertAssignment", "SaveShipTasks", "Listen">>
  <1> DEFINE a == Upserts \o <<"ComputeTasks">> \o Upserts
             b == <<"Listen">>
             c == <<"UpsertFleets", "UpsertFleetTasks", "UpsertAssignment", "SaveShipTasks",
                    "ComputeTasks", "UpsertFleets", "UpsertFleetTasks", "UpsertAssignment",
                    "SaveShipTasks", "Listen">>
  <1>1. a \in Seq(Steps) /\ b \in Seq(Steps) /\ c \in Seq(Steps) /\ Len(a) = 9 /\ Len(b) = 1 /\ Len(c) = 10
    BY StartSteps2 DEF Steps, Writes, Upserts
  <1>2. Len(c) = Len(a) + Len(b) /\ (\A i \in 1..Len(a) : c[i] = a[i]) /\ (\A i \in 1..Len(b) : c[Len(a) + i] = b[i])
    <2>1. \A i \in 1..9 : c[i] = a[i] BY StartSteps2 DEF Steps, Writes, Upserts
    <2>2. \A i \in 1..1 : c[9 + i] = b[i] BY StartSteps2 DEF Steps, Writes, Upserts
    <2> HIDE DEF a, b, c
    <2> QED BY <1>1, <2>1, <2>2
  <1> HIDE DEF a, b, c
  <1>3. a \in Seq(Steps) /\ b \in Seq(Steps) /\ c \in Seq(Steps) BY <1>1
  <1>4. a \o b = c BY ONLY <1>2, <1>3, Joined
  <1> QED BY <1>4, StartSteps2 DEF a, b, c, StartSteps

StartWith(first) == first \o StartSteps

LEMMA LoadPlan ==
  /\ StartWith(<<"Load">>) \in Seq(Steps) /\ Len(StartWith(<<"Load">>)) = 11
  /\ StartWith(<<"Load">>) =
       <<"Load", "UpsertFleets", "UpsertFleetTasks", "UpsertAssignment", "SaveShipTasks",
      "ComputeTasks", "UpsertFleets", "UpsertFleetTasks", "UpsertAssignment", "SaveShipTasks",
      "Listen">>
  <1> DEFINE a == <<"Load">>
             b == StartSteps
             c == <<"Load", "UpsertFleets", "UpsertFleetTasks", "UpsertAssignment",
                    "SaveShipTasks", "ComputeTasks", "UpsertFleets", "UpsertFleetTasks",
                    "UpsertAssignment", "SaveShipTasks", "Listen">>
  <1>1. a \in Seq(Steps) /\ b \in Seq(Steps) /\ c \in Seq(Steps) /\ Len(a) = 1 /\ Len(b) = 10 /\ Len(c) = 11
    BY StartSteps3 DEF Steps, Writes, Upserts
  <1>2. Len(c) = Len(a) + Len(b) /\ (\A i \in 1..Len(a) : c[i] = a[i]) /\ (\A i \in 1..Len(b) : c[Len(a) + i] = b[i])
    <2>1. \A i \in 1..1 : c[i] = a[i] BY StartSteps3 DEF Steps, Writes, Upserts
    <2>2. \A i \in 1..10 : c[1 + i] = b[i] BY StartSteps3 DEF Steps, Writes, Upserts
    <2> HIDE DEF a, b, c
    <2> QED BY <1>1, <2>1, <2>2
  <1> HIDE DEF a, b, c
  <1>3. a \in Seq(Steps) /\ b \in Seq(Steps) /\ c \in Seq(Steps) BY <1>1
  <1>4. a \o b = c BY ONLY <1>2, <1>3, Joined
  <1>5. StartWith(<<"Load">>) = c BY <1>4, StartSteps3 DEF a, b, StartWith
  <1>6. c \in Seq(Steps) /\ Len(c) = 11 BY <1>1
  <1> QED BY <1>5, <1>6 DEF c

LEMMA CreatePlan ==
  /\ StartWith(<<"Create">>) \in Seq(Steps) /\ Len(StartWith(<<"Create">>)) = 11
  /\ StartWith(<<"Create">>) =
       <<"Create", "UpsertFleets", "UpsertFleetTasks", "UpsertAssignment", "SaveShipTasks",
      "ComputeTasks", "UpsertFleets", "UpsertFleetTasks", "UpsertAssignment", "SaveShipTasks",
      "Listen">>
  <1> DEFINE a == <<"Create">>
             b == StartSteps
             c == <<"Create", "UpsertFleets", "UpsertFleetTasks", "UpsertAssignment",
                    "SaveShipTasks", "ComputeTasks", "UpsertFleets", "UpsertFleetTasks",
                    "UpsertAssignment", "SaveShipTasks", "Listen">>
  <1>1. a \in Seq(Steps) /\ b \in Seq(Steps) /\ c \in Seq(Steps) /\ Len(a) = 1 /\ Len(b) = 10 /\ Len(c) = 11
    BY StartSteps3 DEF Steps, Writes, Upserts
  <1>2. Len(c) = Len(a) + Len(b) /\ (\A i \in 1..Len(a) : c[i] = a[i]) /\ (\A i \in 1..Len(b) : c[Len(a) + i] = b[i])
    <2>1. \A i \in 1..1 : c[i] = a[i] BY StartSteps3 DEF Steps, Writes, Upserts
    <2>2. \A i \in 1..10 : c[1 + i] = b[i] BY StartSteps3 DEF Steps, Writes, Upserts
    <2> HIDE DEF a, b, c
    <2> QED BY <1>1, <2>1, <2>2
  <1> HIDE DEF a, b, c
  <1>3. a \in Seq(Steps) /\ b \in Seq(Steps) /\ c \in Seq(Steps) BY <1>1
  <1>4. a \o b = c BY ONLY <1>2, <1>3, Joined
  <1>5. StartWith(<<"Create">>) = c BY <1>4, StartSteps3 DEF a, b, StartWith
  <1>6. c \in Seq(Steps) /\ Len(c) = 11 BY <1>1
  <1> QED BY <1>5, <1>6 DEF c

LEMMA StorePlan ==
  /\ StartWith(<<"StoreShips", "Create">>) \in Seq(Steps) /\ Len(StartWith(<<"StoreShips", "Create">>)) = 12
  /\ StartWith(<<"StoreShips", "Create">>) =
       <<"StoreShips", "Create", "UpsertFleets", "UpsertFleetTasks", "UpsertAssignment",
      "SaveShipTasks", "ComputeTasks", "UpsertFleets", "UpsertFleetTasks", "UpsertAssignment",
      "SaveShipTasks", "Listen">>
  <1> DEFINE a == <<"StoreShips", "Create">>
             b == StartSteps
             c == <<"StoreShips", "Create", "UpsertFleets", "UpsertFleetTasks", "UpsertAssignment",
                    "SaveShipTasks", "ComputeTasks", "UpsertFleets", "UpsertFleetTasks",
                    "UpsertAssignment", "SaveShipTasks", "Listen">>
  <1>1. a \in Seq(Steps) /\ b \in Seq(Steps) /\ c \in Seq(Steps) /\ Len(a) = 2 /\ Len(b) = 10 /\ Len(c) = 12
    BY StartSteps3 DEF Steps, Writes, Upserts
  <1>2. Len(c) = Len(a) + Len(b) /\ (\A i \in 1..Len(a) : c[i] = a[i]) /\ (\A i \in 1..Len(b) : c[Len(a) + i] = b[i])
    <2>1. \A i \in 1..2 : c[i] = a[i] BY StartSteps3 DEF Steps, Writes, Upserts
    <2>2. \A i \in 1..10 : c[2 + i] = b[i] BY StartSteps3 DEF Steps, Writes, Upserts
    <2> HIDE DEF a, b, c
    <2> QED BY <1>1, <2>1, <2>2
  <1> HIDE DEF a, b, c
  <1>3. a \in Seq(Steps) /\ b \in Seq(Steps) /\ c \in Seq(Steps) BY <1>1
  <1>4. a \o b = c BY ONLY <1>2, <1>3, Joined
  <1>5. StartWith(<<"StoreShips", "Create">>) = c BY <1>4, StartSteps3 DEF a, b, StartWith
  <1>6. c \in Seq(Steps) /\ Len(c) = 12 BY <1>1
  <1> QED BY <1>5, <1>6 DEF c

LEMMA DismantlePlan ==
  DismantleSteps =
    <<"SaveShipTasks", "Dismantle", "DeleteAssignments", "DeleteTasks", "DeleteFleet", "NewFleets",
      "AssignShips", "ComputeTasks", "LaunchIdle", "UpsertFleets", "UpsertFleetTasks",
      "UpsertAssignment", "SaveShipTasks">>
  <1> DEFINE a == <<"SaveShipTasks", "Dismantle", "DeleteAssignments", "DeleteTasks",
                    "DeleteFleet", "NewFleets", "AssignShips", "ComputeTasks", "LaunchIdle">>
             b == Upserts
             c == <<"SaveShipTasks", "Dismantle", "DeleteAssignments", "DeleteTasks",
                    "DeleteFleet", "NewFleets", "AssignShips", "ComputeTasks", "LaunchIdle",
                    "UpsertFleets", "UpsertFleetTasks", "UpsertAssignment", "SaveShipTasks">>
  <1>1. a \in Seq(Steps) /\ b \in Seq(Steps) /\ c \in Seq(Steps) /\ Len(a) = 9 /\ Len(b) = 4 /\ Len(c) = 13
    BY DEF Steps, Writes, Upserts
  <1>2. Len(c) = Len(a) + Len(b) /\ (\A i \in 1..Len(a) : c[i] = a[i]) /\ (\A i \in 1..Len(b) : c[Len(a) + i] = b[i])
    <2>1. \A i \in 1..9 : c[i] = a[i] BY DEF Steps, Writes, Upserts
    <2>2. \A i \in 1..4 : c[9 + i] = b[i] BY DEF Steps, Writes, Upserts
    <2> HIDE DEF a, b, c
    <2> QED BY <1>1, <2>1, <2>2
  <1> HIDE DEF a, b, c
  <1>3. a \in Seq(Steps) /\ b \in Seq(Steps) /\ c \in Seq(Steps) BY <1>1
  <1>4. a \o b = c BY ONLY <1>2, <1>3, Joined
  <1> QED BY <1>4 DEF a, b, c, DismantleSteps

LEMMA NewTaskPlan1 ==
  <<"SaveShipTasks", "AssignTask">> \o Upserts =
    <<"SaveShipTasks", "AssignTask", "UpsertFleets", "UpsertFleetTasks", "UpsertAssignment",
      "SaveShipTasks">>
  <1> DEFINE a == <<"SaveShipTasks", "AssignTask">>
             b == Upserts
             c == <<"SaveShipTasks", "AssignTask", "UpsertFleets", "UpsertFleetTasks",
                    "UpsertAssignment", "SaveShipTasks">>
  <1>1. a \in Seq(Steps) /\ b \in Seq(Steps) /\ c \in Seq(Steps) /\ Len(a) = 2 /\ Len(b) = 4 /\ Len(c) = 6
    BY DEF Steps, Writes, Upserts
  <1>2. Len(c) = Len(a) + Len(b) /\ (\A i \in 1..Len(a) : c[i] = a[i]) /\ (\A i \in 1..Len(b) : c[Len(a) + i] = b[i])
    <2>1. \A i \in 1..2 : c[i] = a[i] BY DEF Steps, Writes, Upserts
    <2>2. \A i \in 1..4 : c[2 + i] = b[i] BY DEF Steps, Writes, Upserts
    <2> HIDE DEF a, b, c
    <2> QED BY <1>1, <2>1, <2>2
  <1> HIDE DEF a, b, c
  <1>3. a \in Seq(Steps) /\ b \in Seq(Steps) /\ c \in Seq(Steps) BY <1>1
  <1>4. a \o b = c BY ONLY <1>2, <1>3, Joined
  <1> QED BY <1>4 DEF a, b, c

LEMMA NewTaskPlan ==
  NewTaskSteps =
    <<"SaveShipTasks", "AssignTask", "UpsertFleets", "UpsertFleetTasks", "UpsertAssignment",
      "SaveShipTasks", "Relaunch">>
  <1> DEFINE a == <<"SaveShipTasks", "AssignTask">> \o Upserts
             b == <<"Relaunch">>
             c == <<"SaveShipTasks", "AssignTask", "UpsertFleets", "UpsertFleetTasks",
                    "UpsertAssignment", "SaveShipTasks", "Relaunch">>
  <1>1. a \in Seq(Steps) /\ b \in Seq(Steps) /\ c \in Seq(Steps) /\ Len(a) = 6 /\ Len(b) = 1 /\ Len(c) = 7
    BY NewTaskPlan1 DEF Steps, Writes, Upserts
  <1>2. Len(c) = Len(a) + Len(b) /\ (\A i \in 1..Len(a) : c[i] = a[i]) /\ (\A i \in 1..Len(b) : c[Len(a) + i] = b[i])
    <2>1. \A i \in 1..6 : c[i] = a[i] BY NewTaskPlan1 DEF Steps, Writes, Upserts
    <2>2. \A i \in 1..1 : c[6 + i] = b[i] BY NewTaskPlan1 DEF Steps, Writes, Upserts
    <2> HIDE DEF a, b, c
    <2> QED BY <1>1, <2>1, <2>2
  <1> HIDE DEF a, b, c
  <1>3. a \in Seq(Steps) /\ b \in Seq(Steps) /\ c \in Seq(Steps) BY <1>1
  <1>4. a \o b = c BY ONLY <1>2, <1>3, Joined
  <1> QED BY <1>4, NewTaskPlan1 DEF a, b, c, NewTaskSteps

LEMMA NewShipPlan1 ==
  <<"StoreShips", "Register", "ComputeTasks">> \o Upserts =
    <<"StoreShips", "Register", "ComputeTasks", "UpsertFleets", "UpsertFleetTasks",
      "UpsertAssignment", "SaveShipTasks">>
  <1> DEFINE a == <<"StoreShips", "Register", "ComputeTasks">>
             b == Upserts
             c == <<"StoreShips", "Register", "ComputeTasks", "UpsertFleets", "UpsertFleetTasks",
                    "UpsertAssignment", "SaveShipTasks">>
  <1>1. a \in Seq(Steps) /\ b \in Seq(Steps) /\ c \in Seq(Steps) /\ Len(a) = 3 /\ Len(b) = 4 /\ Len(c) = 7
    BY DEF Steps, Writes, Upserts
  <1>2. Len(c) = Len(a) + Len(b) /\ (\A i \in 1..Len(a) : c[i] = a[i]) /\ (\A i \in 1..Len(b) : c[Len(a) + i] = b[i])
    <2>1. \A i \in 1..3 : c[i] = a[i] BY DEF Steps, Writes, Upserts
    <2>2. \A i \in 1..4 : c[3 + i] = b[i] BY DEF Steps, Writes, Upserts
    <2> HIDE DEF a, b, c
    <2> QED BY <1>1, <2>1, <2>2
  <1> HIDE DEF a, b, c
  <1>3. a \in Seq(Steps) /\ b \in Seq(Steps) /\ c \in Seq(Steps) BY <1>1
  <1>4. a \o b = c BY ONLY <1>2, <1>3, Joined
  <1> QED BY <1>4 DEF a, b, c

LEMMA NewShipPlan ==
  NewShipSteps =
    <<"StoreShips", "Register", "ComputeTasks", "UpsertFleets", "UpsertFleetTasks",
      "UpsertAssignment", "SaveShipTasks", "LaunchNew">>
  <1> DEFINE a == <<"StoreShips", "Register", "ComputeTasks">> \o Upserts
             b == <<"LaunchNew">>
             c == <<"StoreShips", "Register", "ComputeTasks", "UpsertFleets", "UpsertFleetTasks",
                    "UpsertAssignment", "SaveShipTasks", "LaunchNew">>
  <1>1. a \in Seq(Steps) /\ b \in Seq(Steps) /\ c \in Seq(Steps) /\ Len(a) = 7 /\ Len(b) = 1 /\ Len(c) = 8
    BY NewShipPlan1 DEF Steps, Writes, Upserts
  <1>2. Len(c) = Len(a) + Len(b) /\ (\A i \in 1..Len(a) : c[i] = a[i]) /\ (\A i \in 1..Len(b) : c[Len(a) + i] = b[i])
    <2>1. \A i \in 1..7 : c[i] = a[i] BY NewShipPlan1 DEF Steps, Writes, Upserts
    <2>2. \A i \in 1..1 : c[7 + i] = b[i] BY NewShipPlan1 DEF Steps, Writes, Upserts
    <2> HIDE DEF a, b, c
    <2> QED BY <1>1, <2>1, <2>2
  <1> HIDE DEF a, b, c
  <1>3. a \in Seq(Steps) /\ b \in Seq(Steps) /\ c \in Seq(Steps) BY <1>1
  <1>4. a \o b = c BY ONLY <1>2, <1>3, Joined
  <1> QED BY <1>4, NewShipPlan1 DEF a, b, c, NewShipSteps


UpsertStep == {"UpsertFleets", "UpsertFleetTasks", "UpsertAssignment", "SaveShipTasks"}

\* steps after which the admiral's state is to be stored, and those after which tasks
\* are to be computed first
Makers == {"Create", "Load", "Dismantle", "DeleteAssignments", "DeleteTasks", "DeleteFleet", "NewFleets",
           "AssignShips", "ComputeTasks", "AssignTask", "Register"}
Founders == Makers \ {"ComputeTasks", "AssignTask"}

DismantleOnly == {"Dismantle", "DeleteAssignments", "DeleteTasks", "DeleteFleet", "NewFleets", "AssignShips", "LaunchIdle"}
TaskOnly == {"AssignTask", "Relaunch"}

StepsOf(type) ==
    CASE type = "start"     -> UpsertStep \cup {"StoreShips", "Create", "Load", "ComputeTasks", "Listen"}
      [] type = "finished"  -> UpsertStep \cup DismantleOnly \cup TaskOnly \cup {"ComputeTasks"}
      [] type = "collected" -> {"SaveCompleted", "SaveShipTasks"}
      [] type = "purchased" -> UpsertStep \cup {"StoreShips", "Register", "ComputeTasks", "LaunchNew"}
      [] OTHER -> {}

Later(t, i, x) == \E j \in DOMAIN t : j > i /\ t[j] = x

\* What holds of an agenda, and of what is left of it.
Agenda(t, type) ==
    /\ \A i \in DOMAIN t : t[i] \in StepsOf(type)
    /\ \A i \in DOMAIN t : t[i] \in {"StoreShips", "Load"} => i = 1
    /\ \A i \in DOMAIN t : i > 1 =>
          /\ t[i] \in {"Create", "Register"} => t[i - 1] = "StoreShips"
          /\ t[i] = "UpsertFleetTasks" => t[i - 1] = "UpsertFleets"
          /\ t[i] = "UpsertAssignment" => t[i - 1] = "UpsertFleetTasks"
          /\ t[i] = "DeleteTasks" => t[i - 1] = "DeleteAssignments"
          /\ t[i] = "DeleteFleet" => t[i - 1] = "DeleteTasks"
    /\ \A i \in DOMAIN t : t[i] = "Listen" <=> type = "start" /\ i = Len(t)
    /\ \A i \in DOMAIN t : t[i] = "LaunchNew" => i = Len(t)
    /\ \A i \in DOMAIN t : t[i] \in Makers => \A u \in UpsertStep : Later(t, i, u)
    /\ \A i \in DOMAIN t : t[i] \in Founders => Later(t, i, "ComputeTasks")
    /\ \A i \in DOMAIN t : t[i] = "StoreShips" =>
          Later(t, i, IF type = "start" THEN "Create" ELSE "Register")
    /\ \A i \in DOMAIN t : t[i] = "Dismantle" => Later(t, i, "DeleteFleet")
    /\ \A i \in DOMAIN t : t[i] = "Dismantle" => Later(t, i, "NewFleets")
    /\ \A i \in DOMAIN t : t[i] = "NewFleets" => Later(t, i, "AssignShips")
    /\ \A i \in DOMAIN t : t[i] = "Register" => Later(t, i, "LaunchNew")
    /\ \A i, j \in DOMAIN t : i < j /\ t[i] = "ComputeTasks" => t[j] \in UpsertStep \cup {"Listen", "LaunchIdle", "LaunchNew"}
    /\ \A i, j \in DOMAIN t : i < j /\ t[i] = "UpsertAssignment" /\ type # "start"
                                => t[j] \in {"SaveShipTasks", "LaunchNew", "Relaunch"}

LEMMA LoadPlanIsAgenda ==
  ASSUME NEW t \in Seq(Steps), Len(t) = 11,
         t = <<"Load", "UpsertFleets", "UpsertFleetTasks", "UpsertAssignment", "SaveShipTasks",
               "ComputeTasks", "UpsertFleets", "UpsertFleetTasks", "UpsertAssignment", "SaveShipTasks", "Listen">>
  PROVE  Agenda(t, "start")
  BY DEF Agenda, Later, StepsOf, UpsertStep, Makers, Founders, DismantleOnly, TaskOnly

LEMMA CreatePlanIsAgenda ==
  ASSUME NEW t \in Seq(Steps), Len(t) = 11,
         t = <<"Create", "UpsertFleets", "UpsertFleetTasks", "UpsertAssignment", "SaveShipTasks",
               "ComputeTasks", "UpsertFleets", "UpsertFleetTasks", "UpsertAssignment", "SaveShipTasks", "Listen">>
  PROVE  Agenda(t, "start")
  BY DEF Agenda, Later, StepsOf, UpsertStep, Makers, Founders, DismantleOnly, TaskOnly

LEMMA StorePlanIsAgenda ==
  ASSUME NEW t \in Seq(Steps), Len(t) = 12,
         t = <<"StoreShips", "Create", "UpsertFleets", "UpsertFleetTasks", "UpsertAssignment", "SaveShipTasks",
               "ComputeTasks", "UpsertFleets", "UpsertFleetTasks", "UpsertAssignment", "SaveShipTasks", "Listen">>
  PROVE  Agenda(t, "start")
  BY DEF Agenda, Later, StepsOf, UpsertStep, Makers, Founders, DismantleOnly, TaskOnly

LEMMA StartPlans ==
  /\ Agenda(StartWith(<<"Load">>), "start") /\ StartWith(<<"Load">>) \in Seq(Steps)
  /\ Agenda(StartWith(<<"Create">>), "start") /\ StartWith(<<"Create">>) \in Seq(Steps)
  /\ Agenda(StartWith(<<"StoreShips", "Create">>), "start") /\ StartWith(<<"StoreShips", "Create">>) \in Seq(Steps)
  <1>1. Agenda(StartWith(<<"Load">>), "start") BY LoadPlan, LoadPlanIsAgenda
  <1>2. Agenda(StartWith(<<"Create">>), "start") BY CreatePlan, CreatePlanIsAgenda
  <1>3. Agenda(StartWith(<<"StoreShips", "Create">>), "start") BY StorePlan, StorePlanIsAgenda
  <1> QED BY <1>1, <1>2, <1>3, LoadPlan, CreatePlan, StorePlan

LEMMA ReportPlans ==
  /\ Agenda(DismantleSteps, "finished") /\ DismantleSteps \in Seq(Steps)
  /\ Agenda(NewTaskSteps, "finished") /\ NewTaskSteps \in Seq(Steps)
  /\ Agenda(NewShipSteps, "purchased") /\ NewShipSteps \in Seq(Steps)
  /\ Agenda(<<"SaveCompleted">>, "collected") /\ <<"SaveCompleted">> \in Seq(Steps)
  /\ Agenda(<<"SaveShipTasks">>, "collected") /\ <<"SaveShipTasks">> \in Seq(Steps)
  <1>1. Agenda(DismantleSteps, "finished") /\ DismantleSteps \in Seq(Steps)
    BY DismantlePlan DEF Agenda, Later, StepsOf, UpsertStep, Makers, Founders, DismantleOnly, TaskOnly, Steps, Writes
  <1>2. Agenda(NewTaskSteps, "finished") /\ NewTaskSteps \in Seq(Steps)
    BY NewTaskPlan DEF Agenda, Later, StepsOf, UpsertStep, Makers, Founders, DismantleOnly, TaskOnly, Steps, Writes
  <1>3. Agenda(NewShipSteps, "purchased") /\ NewShipSteps \in Seq(Steps)
    BY NewShipPlan DEF Agenda, Later, StepsOf, UpsertStep, Makers, Founders, DismantleOnly, TaskOnly, Steps, Writes
  <1>4. Agenda(<<"SaveCompleted">>, "collected") /\ <<"SaveCompleted">> \in Seq(Steps)
    BY DEF Agenda, Later, StepsOf, UpsertStep, Makers, Founders, DismantleOnly, TaskOnly, Steps, Writes
  <1>5. Agenda(<<"SaveShipTasks">>, "collected") /\ <<"SaveShipTasks">> \in Seq(Steps)
    BY DEF Agenda, Later, StepsOf, UpsertStep, Makers, Founders, DismantleOnly, TaskOnly, Steps, Writes
  <1> QED BY <1>1, <1>2, <1>3, <1>4, <1>5


LEMMA TailAgenda ==
  ASSUME NEW t \in Seq(Steps), t # <<>>, NEW type, Agenda(t, type)
  PROVE  Agenda(Tail(t), type) /\ Tail(t) \in Seq(Steps)
  <1> DEFINE r == Tail(t)
             n == Len(t)
  <1>1. /\ n \in Nat \ {0} /\ DOMAIN t = 1..n /\ r \in Seq(Steps) /\ Len(r) = n - 1 /\ DOMAIN r = 1..(n - 1)
        /\ \A i \in 1..(n - 1) : r[i] = t[i + 1]
    OBVIOUS
  <1>2. \A i \in DOMAIN r : i + 1 \in DOMAIN t /\ r[i] = t[i + 1] BY <1>1
  <1>3. ASSUME NEW i \in DOMAIN r, NEW x, Later(t, i + 1, x)
        PROVE Later(r, i, x)
    <2>1. PICK j \in DOMAIN t : j > i + 1 /\ t[j] = x BY <1>3 DEF Later
    <2>2. i \in 1..(n - 1) /\ j \in 1..n BY <1>1
    <2>3. j - 1 \in 1..(n - 1) /\ j - 1 > i /\ j - 1 + 1 = j BY <1>1, <2>1, <2>2
    <2> QED BY <1>1, <2>1, <2>3 DEF Later
  <1> HIDE DEF r, n
  <1>4. \A i \in DOMAIN r : r[i] \in StepsOf(type) BY <1>2 DEF Agenda
  <1>5. \A i \in DOMAIN r : r[i] \in {"StoreShips", "Load"} => i = 1
    <2> TAKE i \in DOMAIN r
    <2>1. i + 1 # 1 BY <1>1
    <2> QED BY <1>2, <2>1 DEF Agenda
  <1>6. ASSUME NEW i \in DOMAIN r, i > 1
        PROVE /\ r[i] \in {"Create", "Register"} => r[i - 1] = "StoreShips"
              /\ r[i] = "UpsertFleetTasks" => r[i - 1] = "UpsertFleets"
              /\ r[i] = "UpsertAssignment" => r[i - 1] = "UpsertFleetTasks"
              /\ r[i] = "DeleteTasks" => r[i - 1] = "DeleteAssignments"
              /\ r[i] = "DeleteFleet" => r[i - 1] = "DeleteTasks"
    <2>1. i - 1 \in DOMAIN r /\ i + 1 > 1 /\ i + 1 - 1 = i /\ i - 1 + 1 = i BY <1>1, <1>6
    <2>2. r[i] = t[i + 1] /\ r[i - 1] = t[i + 1 - 1] BY <1>2, <2>1
    <2> QED BY <1>2, <2>1, <2>2 DEF Agenda
  <1>7. \A i \in DOMAIN r : r[i] = "Listen" <=> type = "start" /\ i = Len(r)
    <2> TAKE i \in DOMAIN r
    <2>1. i + 1 = n <=> i = Len(r) BY <1>1
    <2> QED BY <1>2, <2>1 DEF Agenda, n
  <1>8. \A i \in DOMAIN r : r[i] = "LaunchNew" => i = Len(r)
    <2> TAKE i \in DOMAIN r
    <2>1. i + 1 = n <=> i = Len(r) BY <1>1
    <2> QED BY <1>2, <2>1 DEF Agenda, n
  <1>9. ASSUME NEW i \in DOMAIN r
        PROVE /\ r[i] \in Makers => \A u \in UpsertStep : Later(r, i, u)
              /\ r[i] \in Founders => Later(r, i, "ComputeTasks")
              /\ r[i] = "StoreShips" => Later(r, i, IF type = "start" THEN "Create" ELSE "Register")
              /\ r[i] = "Dismantle" => Later(r, i, "DeleteFleet")
              /\ r[i] = "Dismantle" => Later(r, i, "NewFleets")
              /\ r[i] = "NewFleets" => Later(r, i, "AssignShips")
              /\ r[i] = "Register" => Later(r, i, "LaunchNew")
    <2>1. i + 1 \in DOMAIN t /\ r[i] = t[i + 1] BY <1>2
    <2>2. /\ t[i + 1] \in Makers => \A u \in UpsertStep : Later(t, i + 1, u)
          /\ t[i + 1] \in Founders => Later(t, i + 1, "ComputeTasks")
          /\ t[i + 1] = "StoreShips" => Later(t, i + 1, IF type = "start" THEN "Create" ELSE "Register")
          /\ t[i + 1] = "Dismantle" => Later(t, i + 1, "DeleteFleet")
          /\ t[i + 1] = "Dismantle" => Later(t, i + 1, "NewFleets")
          /\ t[i + 1] = "NewFleets" => Later(t, i + 1, "AssignShips")
          /\ t[i + 1] = "Register" => Later(t, i + 1, "LaunchNew")
      BY <2>1 DEF Agenda
    <2> QED BY <2>1, <2>2, <1>3
  <1>14. \A i, j \in DOMAIN r : i < j => i + 1 < j + 1 BY <1>1
  <1>15. \A i, j \in DOMAIN r : i < j /\ r[i] = "ComputeTasks" => r[j] \in UpsertStep \cup {"Listen", "LaunchIdle", "LaunchNew"}
    BY <1>2, <1>14 DEF Agenda
  <1>16. \A i, j \in DOMAIN r : i < j /\ r[i] = "UpsertAssignment" /\ type # "start"
                                => r[j] \in {"SaveShipTasks", "LaunchNew", "Relaunch"}
    BY <1>2, <1>14 DEF Agenda
  <1>17. Agenda(r, type)
    BY <1>4, <1>5, <1>6, <1>7, <1>8, <1>9, <1>15, <1>16 DEF Agenda
  <1> QED BY <1>1, <1>17 DEF r

\* What the agenda says of its first step and of the rest.
LEMMA AgendaStep ==
  ASSUME NEW t \in Seq(Steps), t # <<>>, NEW type, Agenda(t, type)
  PROVE  /\ Head(t) \in Steps /\ Head(t) \in StepsOf(type)
         /\ \A x : In(t, x) <=> x = Head(t) \/ In(Tail(t), x)
         /\ Tail(t) = <<>> => \A x : ~ In(Tail(t), x)
         /\ ~ In(Tail(t), "StoreShips") /\ ~ In(Tail(t), "Load")
         /\ In(Tail(t), "Create") => Head(t) = "StoreShips"
         /\ In(Tail(t), "Register") => Head(t) = "StoreShips"
         /\ Tail(t) # <<>> =>
               /\ Head(Tail(t)) = "UpsertFleetTasks" => Head(t) = "UpsertFleets"
               /\ Head(Tail(t)) = "UpsertAssignment" => Head(t) = "UpsertFleetTasks"
               /\ Head(Tail(t)) = "DeleteTasks" => Head(t) = "DeleteAssignments"
               /\ Head(Tail(t)) = "DeleteFleet" => Head(t) = "DeleteTasks"
         /\ Head(t) = "Listen" <=> type = "start" /\ Tail(t) = <<>>
         /\ Head(t) = "LaunchNew" => Tail(t) = <<>>
         /\ Head(t) \in Makers => \A u \in UpsertStep : In(Tail(t), u)
         /\ Head(t) \in Founders => In(Tail(t), "ComputeTasks")
         /\ Head(t) = "StoreShips" => In(Tail(t), IF type = "start" THEN "Create" ELSE "Register")
         /\ Head(t) = "Dismantle" => In(Tail(t), "DeleteFleet") /\ In(Tail(t), "NewFleets")
         /\ Head(t) = "NewFleets" => In(Tail(t), "AssignShips")
         /\ Head(t) = "Register" => In(Tail(t), "LaunchNew")
         /\ Head(t) = "ComputeTasks" =>
               \A x : In(Tail(t), x) => x \in UpsertStep \cup {"Listen", "LaunchIdle", "LaunchNew"}
         /\ Head(t) = "UpsertAssignment" /\ type # "start" =>
               \A x : In(Tail(t), x) => x \in {"SaveShipTasks", "LaunchNew", "Relaunch"}
  <1> DEFINE r == Tail(t)
             n == Len(t)
  <1>1. /\ n \in Nat \ {0} /\ DOMAIN t = 1..n /\ r \in Seq(Steps) /\ Len(r) = n - 1 /\ DOMAIN r = 1..(n - 1)
        /\ \A i \in 1..(n - 1) : r[i] = t[i + 1]
        /\ Head(t) = t[1] /\ (r # <<>> => Head(r) = r[1]) /\ (r = <<>> <=> n = 1)
    <2>1. n \in Nat \ {0} /\ DOMAIN t = 1..n OBVIOUS
    <2>2. r \in Seq(Steps) /\ Len(r) = n - 1 /\ \A i \in 1..(n - 1) : r[i] = t[i + 1] OBVIOUS
    <2> HIDE DEF r, n
    <2>3. DOMAIN r = 1..(n - 1) /\ (r = <<>> <=> n = 1) /\ (r # <<>> => Head(r) = r[1]) BY <2>1, <2>2
    <2> QED BY <2>1, <2>2, <2>3
  <1> HIDE DEF r, n
  <1>2. 1 \in DOMAIN t /\ t[1] \in Steps BY <1>1
  <1>3. \A x : In(r, x) <=> \E j \in DOMAIN t : j > 1 /\ t[j] = x
    <2> TAKE x
    <2>1. ASSUME NEW i \in DOMAIN r, r[i] = x PROVE \E j \in DOMAIN t : j > 1 /\ t[j] = x
      <3>1. i + 1 \in DOMAIN t /\ i + 1 > 1 /\ t[i + 1] = x BY <1>1, <2>1
      <3> QED BY <3>1
    <2>2. ASSUME NEW j \in DOMAIN t, j > 1, t[j] = x PROVE \E i \in DOMAIN r : r[i] = x
      <3>1. j - 1 \in DOMAIN r /\ j - 1 + 1 = j BY <1>1, <2>2
      <3> QED BY <1>1, <2>2, <3>1
    <2> QED BY <2>1, <2>2 DEF In
  <1>21. \A x : Later(t, 1, x) <=> In(r, x) BY <1>3 DEF Later
  <1>4. \A x : In(t, x) <=> x = t[1] \/ In(r, x)
    <2>1. \A j \in DOMAIN t : j = 1 \/ j > 1 BY <1>1
    <2> QED BY <1>2, <1>3, <2>1 DEF In
  <1>5. ~ In(r, "StoreShips") /\ ~ In(r, "Load") BY <1>1, <1>3 DEF Agenda
  <1>6. ASSUME NEW x \in {"Create", "Register"}, In(r, x) PROVE t[1] = "StoreShips"
    <2>1. PICK j \in DOMAIN t : j > 1 /\ t[j] = x BY <1>3, <1>6
    <2>2. j - 1 \in DOMAIN t BY <1>1, <2>1
    <2>3. t[j - 1] = "StoreShips" BY <2>1, <1>6 DEF Agenda
    <2>4. j - 1 = 1 BY <2>2, <2>3 DEF Agenda
    <2> QED BY <2>3, <2>4
  <1>7. r # <<>> => /\ r[1] = "UpsertFleetTasks" => t[1] = "UpsertFleets"
                    /\ r[1] = "UpsertAssignment" => t[1] = "UpsertFleetTasks"
                    /\ r[1] = "DeleteTasks" => t[1] = "DeleteAssignments"
                    /\ r[1] = "DeleteFleet" => t[1] = "DeleteTasks"
    <2> HAVE r # <<>>
    <2>1. r[1] = t[2] /\ 2 \in DOMAIN t /\ 2 > 1 /\ t[2 - 1] = t[1] BY <1>1
    <2>2. /\ t[2] = "UpsertFleetTasks" => t[2 - 1] = "UpsertFleets"
          /\ t[2] = "UpsertAssignment" => t[2 - 1] = "UpsertFleetTasks"
          /\ t[2] = "DeleteTasks" => t[2 - 1] = "DeleteAssignments"
          /\ t[2] = "DeleteFleet" => t[2 - 1] = "DeleteTasks" BY <2>1 DEF Agenda
    <2> QED BY <2>1, <2>2
  <1>8. t[1] = "Listen" <=> type = "start" /\ r = <<>>
    <2>1. t[1] = "Listen" <=> type = "start" /\ 1 = Len(t) BY <1>2 DEF Agenda
    <2> QED BY <1>1, <2>1 DEF n
  <1>9. t[1] = "LaunchNew" => r = <<>>
    <2>1. t[1] = "LaunchNew" => 1 = Len(t) BY <1>2 DEF Agenda
    <2> QED BY <1>1, <2>1 DEF n
  <1>10. t[1] \in Makers => \A u \in UpsertStep : In(r, u) BY <1>2, <1>21 DEF Agenda
  <1>11. t[1] \in Founders => In(r, "ComputeTasks") BY <1>2, <1>21 DEF Agenda
  <1>12. t[1] = "StoreShips" => In(r, IF type = "start" THEN "Create" ELSE "Register") BY <1>2, <1>21 DEF Agenda
  <1>13. t[1] = "Dismantle" => In(r, "DeleteFleet") /\ In(r, "NewFleets") BY <1>2, <1>21 DEF Agenda
  <1>14. (t[1] = "NewFleets" => In(r, "AssignShips")) /\ (t[1] = "Register" => In(r, "LaunchNew"))
    BY <1>2, <1>21 DEF Agenda
  <1>15. \A j \in DOMAIN t : j > 1 => 1 < j BY <1>1
  <1>16. t[1] = "ComputeTasks" => \A x : In(r, x) => x \in UpsertStep \cup {"Listen", "LaunchIdle", "LaunchNew"}
    BY <1>2, <1>3, <1>15 DEF Agenda
  <1>17. t[1] = "UpsertAssignment" /\ type # "start" => \A x : In(r, x) => x \in {"SaveShipTasks", "LaunchNew", "Relaunch"}
    BY <1>2, <1>3, <1>15 DEF Agenda
  <1>18. r = <<>> => \A x : ~ In(r, x)
    <2>1. r = <<>> => DOMAIN r = {} BY <1>1
    <2> QED BY <2>1 DEF In
  <1>19. t[1] \in StepsOf(type) BY <1>2 DEF Agenda
  <1>20. Head(t) = t[1] /\ (r # <<>> => Head(r) = r[1]) BY <1>1
  <1> QED BY ONLY <1>2, <1>4, <1>5, <1>6, <1>7, <1>8, <1>9, <1>10, <1>11, <1>12, <1>13, <1>14, <1>16, <1>17, <1>18, <1>19, <1>20 DEF r

-----------------------------------------------------------------------------
(* Types. *)

RowMaps == [FleetTasks -> {"no_row", "empty", "task"}]
FleetMaps == [Ships -> FleetTasks \cup {NoFleet}]
TaskMaps == [Ships -> ShipTasks \cup {NoTask}]

Tables == [ships : SUBSET Ships, fleets : SUBSET FleetTasks, fleet_tasks : RowMaps,
           assignment : FleetMaps, ship_tasks : TaskMaps, completed : SUBSET FleetTasks]
Admirals == [all_ships : SUBSET Ships, fleets : SUBSET FleetTasks, fleet_tasks : RowMaps,
             assignment : FleetMaps, ship_tasks : TaskMaps, completed : SUBSET FleetTasks,
             phase : Phases, demand : Seq(Items), budgets : SUBSET FleetTasks]
Plans == [demand : Seq(Items), tickets : SUBSET Tickets]
Launches == [left : SUBSET Ships, tasks : TaskMaps, assignment : FleetMaps]
Sweeps == [at : {"asleep", "copied", "relaunching"}, ships : SUBSET Ships,
           tasks : TaskMaps, assignment : FleetMaps]

LEMMA EmptyMaps ==
  /\ Nobody \in FleetMaps /\ NoTasks \in TaskMaps /\ NoRows \in RowMaps
  /\ \A fleets : TaskRows(fleets) \in RowMaps
  /\ \A s \in Ships : Nobody[s] = NoFleet /\ NoTasks[s] = NoTask
  /\ \A f \in FleetTasks : NoRows[f] = "no_row"
  /\ \A fleets : \A f \in FleetTasks : TaskRows(fleets)[f] # "no_row" <=> f \in fleets
  BY DEF Nobody, NoTasks, NoRows, TaskRows, FleetMaps, TaskMaps, RowMaps

LEMMA EmptyStates ==
  NoDbRows \in Tables /\ NoAdmiral \in Admirals /\ NoLaunch \in Launches /\ NoSweep \in Sweeps
  <1>1. <<>> \in Seq(Items) BY EmptySeq
  <1>2. "InitialExploration" \in Phases BY DEF Phases
  <1> QED BY <1>1, <1>2, EmptyMaps DEF NoDbRows, NoAdmiral, NoLaunch, NoSweep, Tables, Admirals, Launches, Sweeps

LEMMA PhaseFleets ==
  ASSUME NEW phase \in Phases
  PROVE  /\ PhaseTasks(phase) \in Seq(FleetTasks)
         /\ Range(PhaseTasks(phase)) =
              CASE phase = "InitialExploration" -> {"InitialExploration", "ObserveAllWaypoints"}
                [] phase = "ConstructJumpGate"  -> {"ConstructJumpGate", "ObserveAllWaypoints",
                                                    "SiphonGases", "MineOres"}
                [] phase = "TradeProfitably"    -> {"TradeProfitably", "ObserveAllWaypoints"}
         /\ Range(PhaseTasks(phase)) \subseteq FleetTasks
         /\ Budgeted(phase) \subseteq FleetTasks
  <1>1. CASE phase = "InitialExploration"
    <2>1. PhaseTasks(phase) = <<"InitialExploration", "ObserveAllWaypoints">> BY <1>1 DEF PhaseTasks
    <2>2. Range(PhaseTasks(phase)) = {"InitialExploration", "ObserveAllWaypoints"} BY <2>1 DEF Range
    <2>3. PhaseTasks(phase) \in Seq(FleetTasks) BY <2>1 DEF FleetTasks
    <2>4. Range(PhaseTasks(phase)) \subseteq FleetTasks BY <2>2 DEF FleetTasks
    <2>5. Budgeted(phase) \subseteq FleetTasks BY <1>1 DEF Budgeted, FleetTasks
    <2> QED BY <1>1, <2>2, <2>3, <2>4, <2>5
  <1>2. CASE phase = "ConstructJumpGate"
    <2>1. PhaseTasks(phase) = <<"ConstructJumpGate", "ObserveAllWaypoints", "MineOres", "SiphonGases">> BY <1>2 DEF PhaseTasks
    <2>2. Range(PhaseTasks(phase)) = {"ConstructJumpGate", "ObserveAllWaypoints", "MineOres", "SiphonGases"} BY <2>1 DEF Range
    <2>3. PhaseTasks(phase) \in Seq(FleetTasks) BY <2>1 DEF FleetTasks
    <2>4. Range(PhaseTasks(phase)) \subseteq FleetTasks BY <2>2 DEF FleetTasks
    <2>5. Budgeted(phase) \subseteq FleetTasks BY <1>2 DEF Budgeted, FleetTasks
    <2> QED BY <1>2, <2>2, <2>3, <2>4, <2>5
  <1>3. CASE phase = "TradeProfitably"
    <2>1. PhaseTasks(phase) = <<"TradeProfitably", "ObserveAllWaypoints">> BY <1>3 DEF PhaseTasks
    <2>2. Range(PhaseTasks(phase)) = {"TradeProfitably", "ObserveAllWaypoints"} BY <2>1 DEF Range
    <2>3. PhaseTasks(phase) \in Seq(FleetTasks) BY <2>1 DEF FleetTasks
    <2>4. Range(PhaseTasks(phase)) \subseteq FleetTasks BY <2>2 DEF FleetTasks
    <2>5. Budgeted(phase) \subseteq FleetTasks BY <1>3 DEF Budgeted, FleetTasks
    <2> QED BY <1>3, <2>2, <2>3, <2>4, <2>5
  <1> QED BY <1>1, <1>2, <1>3 DEF Phases

LEMMA PhaseTyped == \A completed : CurrentPhase(completed) \in Phases
  BY DEF CurrentPhase, PhaseOf, Phases

\* A purchase ticket is for the fleet, and of the type, that the head of the demand names.
LEMMA PurchaseTyped ==
  ASSUME NEW a \in Admirals, NEW plan \in Plans, NEW p \in PurchaseOutcomes(a, plan)
  PROVE  /\ p \in Plans
         /\ p.demand = plan.demand \/ (plan.demand # <<>> /\ p.demand = Tail(plan.demand))
         /\ \A t \in p.tickets : t \in plan.tickets \/ (plan.demand # <<>> /\ t.for = Head(plan.demand).for)
  <1>1. plan = [demand |-> plan.demand, tickets |-> plan.tickets] /\ plan.demand \in Seq(Items) /\ plan.tickets \subseteq Tickets
    BY DEF Plans
  <1>2. CASE plan.demand = <<>>
    <2>1. p = plan BY <1>2 DEF PurchaseOutcomes
    <2> QED BY <2>1
  <1>3. CASE plan.demand # <<>>
    <2> DEFINE item == Head(plan.demand)
               popped == [plan EXCEPT !.demand = Tail(@)]
               buyers == IF a.fleet_tasks[item.for] = "task" THEN Purchasers(a) ELSE {}
               ticket(s) == [type |-> item.type, for |-> item.for, ship |-> s]
    <2>1. item \in Items /\ Tail(plan.demand) \in Seq(Items) BY <1>1, <1>3, HeadTailProperties
    <2>2. popped = [demand |-> Tail(plan.demand), tickets |-> plan.tickets]
      <3>1. PICK d, k : plan = [demand |-> d, tickets |-> k] BY <1>1
      <3>2. plan.demand = d /\ plan.tickets = k BY <3>1
      <3> DEFINE rest == Tail(plan.demand)
      <3> HIDE DEF rest
      <3>3. [plan EXCEPT !.demand = rest] = [demand |-> rest, tickets |-> k] BY <3>1
      <3> QED BY <3>2, <3>3 DEF rest
    <2>3. popped \in Plans BY <1>1, <2>1, <2>2 DEF Plans
    <2>4. \/ p = plan
          \/ p = popped
          \/ \E s \in buyers : p = [popped EXCEPT !.tickets = @ \cup {ticket(s)}]
      BY <1>3 DEF PurchaseOutcomes
    <2>5. CASE p = plan BY <2>5
    <2>6. CASE p = popped BY <2>2, <2>3, <2>6, <1>3
    <2>7. ASSUME NEW s \in buyers, p = [popped EXCEPT !.tickets = @ \cup {ticket(s)}]
          PROVE  p \in Plans /\ p.demand = Tail(plan.demand) /\ p.tickets = plan.tickets \cup {ticket(s)}
      <3>1. p = [demand |-> Tail(plan.demand), tickets |-> plan.tickets \cup {ticket(s)}] BY <2>2, <2>7
      <3>2. s \in Ships BY DEF Purchasers, Admirals
      <3>3. ticket(s) \in Tickets BY <2>1, <3>2 DEF Items, Tickets
      <3> QED BY <1>1, <2>1, <3>1, <3>3 DEF Plans
    <2>8. \A s : ticket(s).for = item.for OBVIOUS
    <2> HIDE DEF item, popped, buyers, ticket
    <2> QED BY <2>4, <2>5, <2>6, <2>7, <2>8, <1>3 DEF item
  <1> QED BY <1>2, <1>3

\* New tasks are for ships that the admiral knows.
LEMMA TasksTyped ==
  ASSUME NEW a \in Admirals, NEW active, NEW n \in NewShipTasks(a, active)
  PROVE  n \in TaskMaps /\ \A s \in Ships : n[s] # NoTask => s \in a.all_ships
  <1> DEFINE IdleCrew(f) == IF f \in a.fleets THEN {s \in Crew(a, f) : a.ship_tasks[s] = NoTask} ELSE {}
             ticketed == {s \in UNION {IdleCrew(f) : f \in FleetTasks} : \E t \in active : t.ship = s}
             mines(s) == s \notin ticketed /\
                         \/ s \in IdleCrew("SiphonGases")
                         \/ /\ s \in IdleCrew("MineOres")
                            /\ ShipTypeOf[s] \in {"mining_drone", "surveyor", "hauler"}
             observers == IF "ObserveAllWaypoints" \in a.fleets THEN Crew(a, "ObserveAllWaypoints") ELSE {}
             observing == {s \in observers : a.ship_tasks[s] = "observe"}
             free == NumShipyards + NumMarkets - Cardinality(observing)
             traders == SUBSET (IdleCrew("ConstructJumpGate") \ ticketed)
             new_observers == kSubset(Min({free, Cardinality(observers \ observing)}), observers \ observing)
             task(o, t, s) == IF s \in o THEN "observe"
                              ELSE IF s \in ticketed \cup t THEN "trade"
                              ELSE IF s \in IdleCrew("InitialExploration") THEN "explore"
                              ELSE IF mines(s) THEN "mine" ELSE NoTask
  <1>1. \A f : IdleCrew(f) \subseteq a.all_ships BY DEF Crew
  <1>2. ticketed \subseteq a.all_ships /\ (\A s : mines(s) => s \in a.all_ships) /\ observers \subseteq a.all_ships
    BY <1>1 DEF Crew
  <1>3. (\A t \in traders : t \subseteq a.all_ships) /\ (\A o \in new_observers : o \subseteq a.all_ships)
    <2>1. \A t \in traders : t \subseteq a.all_ships BY <1>1
    <2>2. \A o \in new_observers : o \subseteq observers
      <3> HIDE DEF observers, observing, free
      <3> QED BY DEF kSubset
    <2> HIDE DEF observers, observing, new_observers, traders
    <2> QED BY <1>2, <2>1, <2>2
  <1>4. PICK t \in traders, o \in new_observers : n = [s \in Ships |-> task(o, t, s)]
    <2>1. NewShipTasks(a, active) = {[s \in Ships |-> task(o, t, s)] : t \in traders, o \in new_observers}
      BY DEF NewShipTasks
    <2> HIDE DEF task, traders, new_observers
    <2> QED BY <2>1
  <1>5. \A s : IdleCrew("InitialExploration") \subseteq a.all_ships BY <1>1
  <1>6. \A s : task(o, t, s) \in ShipTasks \cup {NoTask} BY DEF ShipTasks
  <1>7. \A s : task(o, t, s) # NoTask => s \in a.all_ships
    <2> HIDE DEF IdleCrew, ticketed, mines, observers, new_observers, traders
    <2> QED BY <1>2, <1>3, <1>5
  <1> HIDE DEF task, new_observers, traders
  <1>8. \A s \in Ships : n[s] = task(o, t, s) BY <1>4
  <1> QED BY <1>4, <1>6, <1>7, <1>8 DEF TaskMaps

LEMMA OutcomesTyped ==
  ASSUME NEW a \in Admirals, NEW plan \in Plans, NEW o \in ComputeOutcomes(a, plan)
  PROVE  /\ o.plan \in PurchaseOutcomes(a, plan)
         /\ o.tasks \in TaskMaps /\ \A s \in Ships : o.tasks[s] # NoTask => s \in a.all_ships
  <1>1. PICK p \in PurchaseOutcomes(a, plan) : \E n \in NewShipTasks(a, p.tickets) : o = [plan |-> p, tasks |-> n]
    BY DEF ComputeOutcomes
  <1>2. PICK n \in NewShipTasks(a, p.tickets) : o = [plan |-> p, tasks |-> n] BY <1>1
  <1>3. o.plan = p /\ o.tasks = n BY <1>2
  <1> QED BY <1>3, TasksTyped

-----------------------------------------------------------------------------
(* Fibers. *)

LEMMA SpawnTyped ==
  ASSUME NEW line \in Seq(Fibers), NEW task \in ShipTasks
  PROVE  Spawn(line, task) \in Seq(Fibers)
  <1>1. [task |-> task, at |-> "behaviour"] \in Fibers BY DEF Fibers
  <1>2. ASSUME line # <<>> PROVE Front(line) \in Seq(Fibers)
    <2>1. Len(line) - 1 \in Int /\ \A i \in 1..(Len(line) - 1) : line[i] \in Fibers OBVIOUS
    <2> QED BY <2>1, SubSeqProperties DEF Front
  <1> QED BY <1>1, <1>2, AppendProperties DEF Spawn

LEMMA LaunchedTyped ==
  ASSUME fibers \in [Ships -> Seq(Fibers)], NEW tasks \in TaskMaps, NEW s \in Ships
  PROVE  /\ Launched(s, tasks) \in [Ships -> Seq(Fibers)]
         /\ Relaunched(s, tasks) \in [Ships -> Seq(Fibers)]
         /\ \A r \in Ships : /\ Launched(s, tasks)[r] # <<>> => fibers[r] # <<>> \/ r = s
                             /\ Relaunched(s, tasks)[r] # <<>> => fibers[r] # <<>> \/ (r = s /\ s \in ship_ops)
  <1>1. CASE tasks[s] = NoTask BY <1>1 DEF Launched, Relaunched
  <1>2. CASE tasks[s] # NoTask
    <2>1. tasks[s] \in ShipTasks BY <1>2 DEF TaskMaps
    <2>2. Spawn(fibers[s], tasks[s]) \in Seq(Fibers) BY <2>1, SpawnTyped
    <2>3. Launched(s, tasks) = [fibers EXCEPT ![s] = Spawn(fibers[s], tasks[s])] BY <1>2 DEF Launched
    <2>4. Launched(s, tasks) \in [Ships -> Seq(Fibers)] BY <2>2, <2>3
    <2>5. \A r \in Ships : r # s => Launched(s, tasks)[r] = fibers[r] BY <2>3
    <2> QED BY <2>4, <2>5 DEF Relaunched
  <1> QED BY <1>1, <1>2

FiberPlaces == {"behaviour", "collected", "sending", "ended"}

LEMMA MovedTyped ==
  ASSUME fibers \in [Ships -> Seq(Fibers)], NEW s \in Ships, NEW i \in DOMAIN fibers[s], NEW at \in FiberPlaces
  PROVE  /\ Moved(s, i, at) \in [Ships -> Seq(Fibers)]
         /\ \A r \in Ships : Moved(s, i, at)[r] # <<>> => fibers[r] # <<>>
  <1> DEFINE line == fibers[s]
  <1>1. line \in Seq(Fibers) /\ i \in 1..Len(line) /\ Len(line) \in Nat OBVIOUS
  <1>2. fibers[s] # <<>>
    <2>1. Len(line) # 0 BY <1>1
    <2> QED BY <2>1
  <1>3. CASE at = "ended" /\ i < Len(line)
    <2>1. Moved(s, i, at) = [fibers EXCEPT ![s] = RemoveAt(line, i)] BY <1>3 DEF Moved
    <2>2. RemoveAt(line, i) \in Seq(Fibers)
      <3>1. \A j \in 1..(i - 1) : line[j] \in Fibers BY <1>1
      <3>2. \A j \in (i + 1)..Len(line) : line[j] \in Fibers BY <1>1
      <3>3. 1 \in Int /\ i - 1 \in Int /\ i + 1 \in Int /\ Len(line) \in Int BY <1>1
      <3> HIDE DEF line
      <3>4. SubSeq(line, 1, i - 1) \in Seq(Fibers) BY <3>1, <3>3, SubSeqProperties
      <3>5. SubSeq(line, i + 1, Len(line)) \in Seq(Fibers) BY <3>2, <3>3, SubSeqProperties
      <3> QED BY <3>4, <3>5, ConcatProperties DEF RemoveAt
    <2>3. Moved(s, i, at) \in [Ships -> Seq(Fibers)] BY <2>1, <2>2
    <2>4. \A r \in Ships : r # s => Moved(s, i, at)[r] = fibers[r] BY <2>1
    <2> QED BY <2>3, <2>4, <1>2
  <1>4. CASE ~ (at = "ended" /\ i < Len(line))
    <2>1. Moved(s, i, at) = [fibers EXCEPT ![s] = [line EXCEPT ![i] = [line[i] EXCEPT !.at = at]]] BY <1>4 DEF Moved
    <2>2. [line[i] EXCEPT !.at = at] \in Fibers
      <3>1. line[i] \in Fibers BY <1>1
      <3> QED BY <3>1 DEF Fibers, FiberPlaces
    <2>3. [line EXCEPT ![i] = [line[i] EXCEPT !.at = at]] \in Seq(Fibers)
      <3> DEFINE e == [line[i] EXCEPT !.at = at]
      <3> HIDE DEF e, line
      <3> QED BY <1>1, <2>2, ExceptSeq DEF e
    <2>4. Moved(s, i, at) \in [Ships -> Seq(Fibers)] BY <2>1, <2>3
    <2>5. \A r \in Ships : r # s => Moved(s, i, at)[r] = fibers[r] BY <2>1
    <2> QED BY <2>4, <2>5, <1>2
  <1> QED BY <1>3, <1>4

-----------------------------------------------------------------------------
(* The invariant. *)

WorldTyped == owned \subseteq Ships /\ tickets \subseteq Tickets /\ explored \in BOOLEAN

BoundsTyped == errors \in 0..MaxErrors /\ crashes \in 0..MaxCrashes /\ failures \in 0..MaxFailures

ProcessTyped ==
    /\ stage \in {"down", "starting", "running"}
    /\ dead \subseteq {"launcher", "status", "actions", "restart"}

CopiesTyped == launching \in Launches /\ sweep \in Sweeps

\* Messages that a fiber of a known ship may have sent, and those about bought ships.
Credible == {m \in Messages : /\ m.type \in {"finished", "collected"} => m.ship \in ship_ops
                              /\ m.type = "finished" => m.task \in ShipTasks
                              /\ m.type = "purchased" => m.ship \in owned /\ m.fleet \in FleetTasks}

ChannelsTyped ==
    /\ actions \in Seq(Credible) /\ reports \in Seq(Credible)
    /\ Len(actions) <= Capacity /\ Len(reports) <= Capacity

\* Only ships that the admiral knows have fleets and tasks; the database has them.
Knows(a, d) ==
    /\ \A s \in Ships : a.assignment[s] # NoFleet => s \in a.all_ships
    /\ \A s \in Ships : a.ship_tasks[s] # NoTask => s \in a.all_ships
    /\ \A f \in FleetTasks : a.fleet_tasks[f] # "no_row" <=> f \in a.fleets
    /\ a.all_ships \subseteq d.ships

AdmiralKnows == Knows(admiral, db)

\* Only registered ships have fibers, and the admiral knows them.
FibersKnown ==
    /\ fibers \in [Ships -> Seq(Fibers)]
    /\ \A s \in Ships : fibers[s] # <<>> => s \in ship_ops
    /\ ship_ops \subseteq admiral.all_ships /\ launching.left \subseteq admiral.all_ships
    /\ stage # "running" => ship_ops = {} /\ launching.left = {}

\* What is left to do fits the report.
AgendaFits ==
    /\ todo \in Seq(Steps) /\ report \in Credible \cup {Starting, NoReport}
    /\ todo = <<>> <=> report = NoReport
    /\ stage = "starting" <=> report = Starting
    /\ report \in Messages => stage = "running"
    /\ todo # <<>> => Agenda(todo, report.type)
    /\ \A x \in DismantleOnly : In(todo, x) => report.fleet \in FleetTasks
    /\ report.type = "purchased" /\ ~ In(todo, "StoreShips") => report.ship \in db.ships
    /\ report.type = "purchased" /\ ~ In(todo, "Register") => report.ship \in admiral.all_ships

\* The tables and the rows that the statement at the head may refer to, or delete.
Placed ==
    /\ ForeignKeys(db)
    /\ todo # <<>> /\ Head(todo) \in {"UpsertFleetTasks", "UpsertAssignment"} => admiral.fleets \subseteq db.fleets
    /\ todo # <<>> /\ Head(todo) \in {"DeleteTasks", "DeleteFleet"} => \A s \in Ships : db.assignment[s] # report.fleet
    /\ todo # <<>> /\ Head(todo) = "DeleteFleet" => db.fleet_tasks[report.fleet] = "no_row"

IInv == /\ WorldTyped /\ BoundsTyped /\ ProcessTyped /\ db \in Tables /\ admiral \in Admirals
        /\ CopiesTyped /\ ChannelsTyped /\ AdmiralKnows /\ FibersKnown /\ AgendaFits /\ Placed

-----------------------------------------------------------------------------
(* What the steps that leave the admiral alone keep. *)

LEMMA ReportKinds ==
  /\ Starting.type = "start" /\ NoReport.type = "none" /\ Starting # NoReport
  /\ \A m \in Messages : m.type \in {"finished", "collected", "purchased"}
  /\ Starting \notin Messages /\ NoReport \notin Messages
  BY DEF Starting, NoReport, Messages

LEMMA CredibleGrows ==
  ASSUME owned \subseteq owned', ship_ops \subseteq ship_ops'
  PROVE  /\ Credible \subseteq Credible'
         /\ \A q : q \in Seq(Credible) => q \in Seq(Credible')
  <1>1. Credible \subseteq Credible' BY DEF Credible
  <1> HIDE DEF Credible
  <1> QED BY <1>1, SeqMonotonic

\* What is kept as long as neither the admiral nor the tables change.
LEMMA LockFrame ==
  ASSUME IInv, UNCHANGED <<db, stage, under_lock>>, owned \subseteq owned', ship_ops \subseteq ship_ops'
  PROVE  db' \in Tables /\ admiral' \in Admirals /\ AdmiralKnows' /\ AgendaFits' /\ Placed'
  <1>1. db' = db /\ stage' = stage /\ admiral' = admiral /\ todo' = todo /\ report' = report BY DEF under_lock
  <1>2. AgendaFits'
    <2>1. report' \in Credible' \cup {Starting, NoReport} BY <1>1, CredibleGrows DEF IInv, AgendaFits
    <2> QED BY <1>1, <2>1 DEF IInv, AgendaFits
  <1>3. AdmiralKnows' BY <1>1 DEF IInv, AdmiralKnows
  <1>4. Placed' BY <1>1 DEF IInv, Placed, ForeignKeys
  <1> QED BY <1>1, <1>2, <1>3, <1>4 DEF IInv

LEMMA FreeAgenda ==
  ASSUME todo' = <<>>, report' = NoReport, stage' # "starting"
  PROVE  AgendaFits'
  <1>1. <<>> \in Seq(Steps) BY EmptySeq
  <1>2. \A x : ~ In(todo', x) BY DEF In
  <1> QED BY <1>1, <1>2, ReportKinds DEF AgendaFits

LEMMA FreePlaced ==
  ASSUME todo' = <<>>, ForeignKeys(db')
  PROVE  Placed'
  BY DEF Placed, ForeignKeys

LEMMA ProceedFits ==
  ASSUME IInv, todo # <<>>, Proceed, stage' = stage, Head(todo) # "Listen",
         owned \subseteq owned', ship_ops \subseteq ship_ops', db.ships \subseteq db'.ships,
         admiral.all_ships \subseteq admiral'.all_ships \/ report.type # "purchased",
         Head(todo) = "StoreShips" /\ report.type = "purchased" => report.ship \in db'.ships,
         Head(todo) = "Register" => report.ship \in admiral'.all_ships
  PROVE  AgendaFits'
  <1>1. /\ todo \in Seq(Steps) /\ report \in Credible \cup {Starting, NoReport} /\ report # NoReport
        /\ Agenda(todo, report.type) /\ (stage = "starting" <=> report = Starting)
        /\ (report \in Messages => stage = "running")
        /\ \A x \in DismantleOnly : In(todo, x) => report.fleet \in FleetTasks
        /\ report.type = "purchased" /\ ~ In(todo, "StoreShips") => report.ship \in db.ships
        /\ report.type = "purchased" /\ ~ In(todo, "Register") => report.ship \in admiral.all_ships
    BY DEF IInv, AgendaFits
  <1>2. Tail(todo) \in Seq(Steps) /\ Agenda(Tail(todo), report.type) BY <1>1, TailAgenda
  <1>3. /\ \A x : In(todo, x) <=> x = Head(todo) \/ In(Tail(todo), x)
        /\ report.type = "start" => Tail(todo) # <<>>
    <2>1. /\ \A x : In(todo, x) <=> x = Head(todo) \/ In(Tail(todo), x)
          /\ Head(todo) = "Listen" <=> report.type = "start" /\ Tail(todo) = <<>>
      BY <1>1, AgendaStep
    <2> QED BY <2>1
  <1>4. todo' = Tail(todo) /\ report' = IF Tail(todo) = <<>> THEN NoReport ELSE report BY DEF Proceed
  <1>5. CASE Tail(todo) = <<>>
    <2>1. report # Starting BY <1>3, <1>5, ReportKinds
    <2> QED BY <1>1, <1>4, <1>5, <2>1, FreeAgenda
  <1>6. CASE Tail(todo) # <<>>
    <2>1. report' = report BY <1>4, <1>6
    <2>2. report' \in Credible' \cup {Starting, NoReport} BY <1>1, <2>1, CredibleGrows
    <2>3. \A x : In(todo', x) => In(todo, x) BY <1>3, <1>4
    <2>4. ~ In(todo', "StoreShips") => ~ In(todo, "StoreShips") \/ Head(todo) = "StoreShips" BY <1>3, <1>4
    <2>5. ~ In(todo', "Register") => ~ In(todo, "Register") \/ Head(todo) = "Register" BY <1>3, <1>4
    <2>6. report'.type = "purchased" /\ ~ In(todo', "StoreShips") => report'.ship \in db'.ships BY <1>1, <2>1, <2>4
    <2>7. report'.type = "purchased" /\ ~ In(todo', "Register") => report'.ship \in admiral'.all_ships BY <1>1, <2>1, <2>5
    <2>8. \A x \in DismantleOnly : In(todo', x) => report'.fleet \in FleetTasks BY <1>1, <2>1, <2>3
    <2>9. todo' \in Seq(Steps) /\ Agenda(todo', report'.type) /\ todo' # <<>> BY <1>2, <1>4, <1>6, <2>1
    <2>10. report' # NoReport /\ (stage' = "starting" <=> report' = Starting) /\ (report' \in Messages => stage' = "running")
      BY <1>1, <2>1
    <2> HIDE DEF In, Agenda
    <2> QED BY <2>2, <2>6, <2>7, <2>8, <2>9, <2>10 DEF AgendaFits
  <1> QED BY <1>5, <1>6

\* The same for the statement at the head of what is left.
LEMMA ProceedPlaced ==
  ASSUME IInv, todo # <<>>, Proceed, ForeignKeys(db'),
         Head(todo) = "UpsertFleets" => admiral'.fleets \subseteq db'.fleets,
         Head(todo) = "UpsertFleetTasks" => admiral'.fleets \subseteq db'.fleets,
         Head(todo) = "DeleteAssignments" => \A s \in Ships : db'.assignment[s] # report.fleet,
         Head(todo) = "DeleteTasks" => /\ \A s \in Ships : db'.assignment[s] # report.fleet
                                       /\ db'.fleet_tasks[report.fleet] = "no_row"
  PROVE  Placed'
  <1>1. /\ todo' = Tail(todo) /\ (Tail(todo) # <<>> => report' = report)
        /\ todo \in Seq(Steps) /\ Agenda(todo, report.type)
    BY DEF Proceed, IInv, AgendaFits
  <1>2. CASE Tail(todo) = <<>> BY <1>1, <1>2, FreePlaced
  <1>3. CASE Tail(todo) # <<>>
    <2>1. /\ Head(todo') = "UpsertFleetTasks" => Head(todo) = "UpsertFleets"
          /\ Head(todo') = "UpsertAssignment" => Head(todo) = "UpsertFleetTasks"
          /\ Head(todo') = "DeleteTasks" => Head(todo) = "DeleteAssignments"
          /\ Head(todo') = "DeleteFleet" => Head(todo) = "DeleteTasks"
      BY <1>1, <1>3, AgendaStep
    <2>2. report' = report BY <1>1, <1>3
    <2>3. ForeignKeys(db)' BY DEF ForeignKeys
    <2> QED BY <2>1, <2>2, <2>3 DEF Placed
  <1> QED BY <1>2, <1>3

-----------------------------------------------------------------------------
(* Fibers. *)

LEMMA MessagesCredible ==
  ASSUME IInv
  PROVE  /\ \A s \in ship_ops : Collected(s) \in Credible
         /\ \A s \in ship_ops : \A task \in ShipTasks : Finished(s, task) \in Credible
         /\ \A new \in owned : \A fleet \in FleetTasks : Purchased(new, fleet) \in Credible
         /\ ship_ops \subseteq Ships
  <1>1. ship_ops \subseteq Ships BY DEF IInv, FibersKnown, Admirals
  <1>2. owned \subseteq Ships BY DEF IInv, WorldTyped
  <1>3. \A s \in ship_ops : Collected(s) \in Credible BY <1>1 DEF Credible, Messages, Message, Collected
  <1>4. \A s \in ship_ops : \A task \in ShipTasks : Finished(s, task) \in Credible
    BY <1>1 DEF Credible, Messages, Message, Finished
  <1>5. \A new \in owned : \A fleet \in FleetTasks : Purchased(new, fleet) \in Credible
    BY <1>2 DEF Credible, Messages, Message, Purchased
  <1> QED BY <1>1, <1>3, <1>4, <1>5

LEMMA SentCredible ==
  ASSUME NEW q \in Seq(Credible), Len(q) < Capacity, NEW m \in Credible,
         owned \subseteq owned', ship_ops \subseteq ship_ops'
  PROVE  Append(q, m) \in Seq(Credible') /\ Len(Append(q, m)) <= Capacity
  <1>1. Append(q, m) \in Seq(Credible) /\ Len(Append(q, m)) = Len(q) + 1
    <2> HIDE DEF Credible
    <2> QED BY AppendProperties
  <1>2. Append(q, m) \in Seq(Credible') BY <1>1, CredibleGrows
  <1>3. Len(q) \in Nat /\ Capacity \in Nat BY RunnerAssumption
  <1> QED BY <1>1, <1>2, <1>3

LEMMA SameChannels ==
  ASSUME IInv, UNCHANGED channels, owned \subseteq owned', ship_ops \subseteq ship_ops'
  PROVE  ChannelsTyped'
  BY CredibleGrows DEF IInv, ChannelsTyped, channels

LEMMA MovedKnown ==
  ASSUME IInv, NEW s \in Ships, NEW i \in DOMAIN fibers[s], NEW at \in FiberPlaces,
         fibers' = Moved(s, i, at), UNCHANGED <<ship_ops, launching, stage, admiral>>
  PROVE  FibersKnown' /\ s \in ship_ops /\ stage = "running" /\ fibers[s][i] \in Fibers
  <1>1. fibers \in [Ships -> Seq(Fibers)] /\ \A r \in Ships : fibers[r] # <<>> => r \in ship_ops
    BY DEF IInv, FibersKnown
  <1>2. fibers' \in [Ships -> Seq(Fibers)] /\ \A r \in Ships : fibers'[r] # <<>> => fibers[r] # <<>>
    BY <1>1, MovedTyped
  <1>3. fibers[s] # <<>> /\ fibers[s][i] \in Fibers
    <2>1. fibers[s] \in Seq(Fibers) BY <1>1
    <2> QED BY <2>1
  <1>4. s \in ship_ops BY <1>1, <1>3
  <1>5. stage = "running" BY <1>4 DEF IInv, FibersKnown
  <1>6. FibersKnown' BY <1>1, <1>2 DEF IInv, FibersKnown
  <1> QED BY <1>3, <1>4, <1>5, <1>6

LEMMA ExploreKeeps ==
  ASSUME IInv, NEW s \in Ships, NEW i \in DOMAIN fibers[s], NEW last \in BOOLEAN, Explore(s, i, last)
  PROVE  IInv'
  <1>1. /\ owned' = owned /\ tickets' = tickets /\ explored' = (explored \/ last)
        /\ Len(actions) < Capacity /\ actions' = Append(actions, Collected(s)) /\ reports' = reports
        /\ fibers' = Moved(s, i, "collected")
        /\ UNCHANGED <<db, stage, dead, under_lock, launching, ship_ops, sweep, bounds>>
    BY DEF Explore, process_else
  <1>2. UNCHANGED <<ship_ops, launching, stage, admiral, errors, crashes, failures>> BY <1>1 DEF under_lock, bounds
  <1>3. FibersKnown' /\ s \in ship_ops BY <1>1, <1>2, MovedKnown DEF FiberPlaces
  <1>4. owned \subseteq owned' /\ ship_ops \subseteq ship_ops' BY <1>1
  <1>5. ChannelsTyped'
    <2>1. Collected(s) \in Credible BY <1>3, MessagesCredible
    <2>2. actions \in Seq(Credible) /\ reports \in Seq(Credible) /\ Len(reports) <= Capacity BY DEF IInv, ChannelsTyped
    <2>3. actions' \in Seq(Credible') /\ Len(actions') <= Capacity BY <1>1, <1>4, <2>1, <2>2, SentCredible
    <2>4. reports' \in Seq(Credible') BY <1>1, <1>4, <2>2, CredibleGrows
    <2> QED BY <1>1, <2>2, <2>3, <2>4 DEF ChannelsTyped
  <1>6. db' \in Tables /\ admiral' \in Admirals /\ AdmiralKnows' /\ AgendaFits' /\ Placed' BY <1>1, <1>4, LockFrame
  <1>7. WorldTyped' BY <1>1 DEF IInv, WorldTyped
  <1>8. BoundsTyped' /\ ProcessTyped' /\ CopiesTyped'
    BY <1>1, <1>2 DEF IInv, BoundsTyped, ProcessTyped, CopiesTyped
  <1> QED BY <1>3, <1>5, <1>6, <1>7, <1>8 DEF IInv

LEMMA BuyKeeps ==
  ASSUME IInv, NEW s \in Ships, NEW i \in DOMAIN fibers[s], NEW t \in tickets, NEW new \in Ships, BuyShip(s, i, t, new)
  PROVE  IInv'
  <1>1. /\ owned' = owned \cup {new} /\ tickets' = tickets \ {t} /\ explored' = explored
        /\ Len(actions) < Capacity /\ actions' = Append(actions, Purchased(new, t.for)) /\ reports' = reports
        /\ UNCHANGED <<fibers, db, stage, dead, under_lock, launching, ship_ops, sweep, bounds>>
    BY DEF BuyShip, process_else
  <1>2. UNCHANGED <<ship_ops, launching, stage, admiral, errors, crashes, failures>> BY <1>1 DEF under_lock, bounds
  <1>3. FibersKnown' BY <1>1, <1>2 DEF IInv, FibersKnown
  <1>4. owned \subseteq owned' /\ ship_ops \subseteq ship_ops' BY <1>1
  <1>5. t.for \in FleetTasks BY DEF IInv, WorldTyped, Tickets
  <1>6. ChannelsTyped'
    <2>1. Purchased(new, t.for) \in Credible' BY <1>1, <1>5 DEF Credible, Messages, Message, Purchased
    <2>2. actions \in Seq(Credible) /\ reports \in Seq(Credible) /\ Len(reports) <= Capacity BY DEF IInv, ChannelsTyped
    <2>3. actions \in Seq(Credible') /\ reports' \in Seq(Credible') BY <1>1, <1>4, <2>2, CredibleGrows
    <2>4. actions' \in Seq(Credible') /\ Len(actions') = Len(actions) + 1
      <3> HIDE DEF Credible
      <3> QED BY <1>1, <2>1, <2>3, AppendProperties
    <2>5. Len(actions) \in Nat /\ Capacity \in Nat BY <2>2, RunnerAssumption
    <2>6. Len(actions') <= Capacity BY <1>1, <2>4, <2>5
    <2> QED BY <1>1, <2>2, <2>3, <2>4, <2>6 DEF ChannelsTyped
  <1>7. db' \in Tables /\ admiral' \in Admirals /\ AdmiralKnows' /\ AgendaFits' /\ Placed' BY <1>1, <1>4, LockFrame
  <1>8. WorldTyped' BY <1>1 DEF IInv, WorldTyped
  <1>9. BoundsTyped' /\ ProcessTyped' /\ CopiesTyped'
    BY <1>1, <1>2 DEF IInv, BoundsTyped, ProcessTyped, CopiesTyped
  <1> QED BY <1>3, <1>6, <1>7, <1>8, <1>9 DEF IInv

\* A behaviour ends, well or with an error.
LEMMA EndKeeps ==
  ASSUME IInv, NEW s \in Ships, NEW i \in DOMAIN fibers[s], FinishBehaviour(s, i) \/ BehaviourFails(s, i)
  PROVE  IInv'
  <1>1. PICK at \in FiberPlaces : fibers' = Moved(s, i, at) BY DEF FinishBehaviour, BehaviourFails, FiberPlaces
  <1>2. /\ errors' = errors \/ (errors < MaxErrors /\ errors' = errors + 1)
        /\ UNCHANGED <<world, channels, db, stage, dead, under_lock, launching, ship_ops, sweep, crashes, failures>>
    BY DEF FinishBehaviour, BehaviourFails, process_else, bounds
  <1>3. UNCHANGED <<ship_ops, launching, stage, admiral, owned, tickets, explored>> BY <1>2 DEF under_lock, world
  <1>4. FibersKnown' BY <1>1, <1>3, MovedKnown
  <1>5. owned \subseteq owned' /\ ship_ops \subseteq ship_ops' BY <1>3
  <1>6. db' \in Tables /\ admiral' \in Admirals /\ AdmiralKnows' /\ AgendaFits' /\ Placed' BY <1>2, <1>5, LockFrame
  <1>7. ChannelsTyped' BY <1>2, <1>5, SameChannels
  <1>8. BoundsTyped' BY <1>2, RunnerAssumption DEF IInv, BoundsTyped
  <1>9. WorldTyped' /\ ProcessTyped' /\ CopiesTyped' BY <1>2, <1>3 DEF IInv, WorldTyped, ProcessTyped, CopiesTyped
  <1> QED BY <1>4, <1>6, <1>7, <1>8, <1>9 DEF IInv

LEMMA SendKeeps ==
  ASSUME IInv, NEW s \in Ships, NEW i \in DOMAIN fibers[s], SendReport(s, i)
  PROVE  IInv'
  <1>1. /\ fibers' = Moved(s, i, "ended") /\ actions' = actions
        /\ reports' = reports \/ (Len(reports) < Capacity /\ reports' = Append(reports, Finished(s, fibers[s][i].task)))
        /\ UNCHANGED <<world, db, stage, dead, under_lock, launching, ship_ops, sweep, bounds>>
    BY DEF SendReport, process_else
  <1>2. UNCHANGED <<ship_ops, launching, stage, admiral, owned, tickets, explored, errors, crashes, failures>>
    BY <1>1 DEF under_lock, world, bounds
  <1>3. FibersKnown' /\ s \in ship_ops /\ fibers[s][i] \in Fibers BY <1>1, <1>2, MovedKnown DEF FiberPlaces
  <1>4. owned \subseteq owned' /\ ship_ops \subseteq ship_ops' BY <1>2
  <1>5. ChannelsTyped'
    <2>1. Finished(s, fibers[s][i].task) \in Credible BY <1>3, MessagesCredible DEF Fibers
    <2>2. /\ actions \in Seq(Credible) /\ reports \in Seq(Credible)
          /\ Len(actions) <= Capacity /\ Len(reports) <= Capacity BY DEF IInv, ChannelsTyped
    <2>3. actions' \in Seq(Credible') BY <1>1, <1>4, <2>2, CredibleGrows
    <2>4. reports' \in Seq(Credible') /\ Len(reports') <= Capacity
      <3>1. CASE reports' = reports BY <1>4, <2>2, <3>1, CredibleGrows
      <3>2. CASE Len(reports) < Capacity /\ reports' = Append(reports, Finished(s, fibers[s][i].task))
        BY <1>4, <2>1, <2>2, <3>2, SentCredible
      <3> QED BY <1>1, <3>1, <3>2
    <2> QED BY <1>1, <2>2, <2>3, <2>4 DEF ChannelsTyped
  <1>6. db' \in Tables /\ admiral' \in Admirals /\ AdmiralKnows' /\ AgendaFits' /\ Placed' BY <1>1, <1>4, LockFrame
  <1>7. WorldTyped' /\ BoundsTyped' /\ ProcessTyped' /\ CopiesTyped'
    BY <1>1, <1>2 DEF IInv, WorldTyped, BoundsTyped, ProcessTyped, CopiesTyped
  <1> QED BY <1>3, <1>5, <1>6, <1>7 DEF IInv

LEMMA ForwardKeeps ==
  ASSUME IInv, ForwardAction
  PROVE  IInv'
  <1>1. /\ actions # <<>>
        /\ \/ dead' = dead \cup {"actions"} /\ actions' = <<>> /\ reports' = reports
           \/ /\ Len(reports) < Capacity /\ dead' = dead
              /\ reports' = Append(reports, Head(actions)) /\ actions' = Tail(actions)
        /\ UNCHANGED <<world, db, stage, under_lock, launching, fiber_vars, sweep, bounds>>
    BY DEF ForwardAction
  <1>2. UNCHANGED <<ship_ops, fibers, launching, stage, admiral, owned, tickets, explored, errors, crashes, failures>>
    BY <1>1 DEF under_lock, world, bounds, fiber_vars
  <1>3. owned \subseteq owned' /\ ship_ops \subseteq ship_ops' BY <1>2
  <1>4. ChannelsTyped'
    <2>1. /\ actions \in Seq(Credible) /\ reports \in Seq(Credible)
          /\ Len(actions) <= Capacity /\ Len(reports) <= Capacity BY DEF IInv, ChannelsTyped
    <2>2. <<>> \in Seq(Credible') /\ Len(<<>>) = 0 BY EmptySeq
    <2>3. Head(actions) \in Credible /\ Tail(actions) \in Seq(Credible) /\ Len(Tail(actions)) = Len(actions) - 1
      <3> HIDE DEF Credible
      <3> QED BY <1>1, <2>1, HeadTailProperties
    <2>4. Tail(actions) \in Seq(Credible') BY <1>3, <2>3, CredibleGrows
    <2>5. Len(actions) \in Nat /\ Capacity \in Nat BY <2>1, RunnerAssumption
    <2>6. reports \in Seq(Credible') BY <1>3, <2>1, CredibleGrows
    <2>7. CASE dead' = dead \cup {"actions"} /\ actions' = <<>> /\ reports' = reports
      BY <2>1, <2>2, <2>5, <2>6, <2>7 DEF ChannelsTyped
    <2>8. CASE Len(reports) < Capacity /\ reports' = Append(reports, Head(actions)) /\ actions' = Tail(actions)
      <3>1. reports' \in Seq(Credible') /\ Len(reports') <= Capacity BY <1>3, <2>1, <2>3, <2>8, SentCredible
      <3>2. Len(actions') <= Capacity BY <2>1, <2>3, <2>5, <2>8
      <3> QED BY <2>4, <2>8, <3>1, <3>2 DEF ChannelsTyped
    <2> QED BY <1>1, <2>7, <2>8
  <1>5. db' \in Tables /\ admiral' \in Admirals /\ AdmiralKnows' /\ AgendaFits' /\ Placed' BY <1>1, <1>3, LockFrame
  <1>6. FibersKnown' BY <1>2 DEF IInv, FibersKnown
  <1>7. ProcessTyped' BY <1>1 DEF IInv, ProcessTyped
  <1>8. WorldTyped' /\ BoundsTyped' /\ CopiesTyped' BY <1>1, <1>2 DEF IInv, WorldTyped, BoundsTyped, CopiesTyped
  <1> QED BY <1>4, <1>5, <1>6, <1>7, <1>8 DEF IInv

-----------------------------------------------------------------------------
(* Launching and the restart task. *)

LEMMA LaunchShipKeeps ==
  ASSUME IInv, NEW s \in Ships, LaunchShip(s)
  PROVE  IInv'
  <1>1. /\ stage = "running" /\ s \in launching.left
        /\ UNCHANGED <<world, db, stage, under_lock, sweep, channels, bounds>>
    BY DEF LaunchShip
  <1>2. UNCHANGED <<stage, admiral, owned, tickets, explored, errors, crashes, failures>>
    BY <1>1 DEF under_lock, world, bounds
  <1>3. /\ launching \in Launches /\ sweep \in Sweeps /\ fibers \in [Ships -> Seq(Fibers)]
        /\ \A r \in Ships : fibers[r] # <<>> => r \in ship_ops
        /\ ship_ops \subseteq admiral.all_ships /\ launching.left \subseteq admiral.all_ships
    BY DEF IInv, CopiesTyped, FibersKnown
  <1>4. /\ ship_ops \subseteq ship_ops' /\ ship_ops' \subseteq ship_ops \cup {s}
        /\ fibers' \in [Ships -> Seq(Fibers)]
        /\ \A r \in Ships : fibers'[r] # <<>> => r \in ship_ops'
        /\ dead' \subseteq dead \cup {"launcher"}
    <2>1. launching.tasks \in TaskMaps BY <1>3 DEF Launches
    <2>2. CASE launching.assignment[s] = NoFleet BY <1>3, <2>2 DEF LaunchShip, fiber_vars
    <2>3. CASE launching.assignment[s] # NoFleet
      <3>1. ship_ops' = ship_ops \cup {s} /\ fibers' = Launched(s, launching.tasks) /\ dead' = dead BY <2>3 DEF LaunchShip
      <3>2. fibers' \in [Ships -> Seq(Fibers)] /\ \A r \in Ships : fibers'[r] # <<>> => fibers[r] # <<>> \/ r = s
        BY <1>3, <2>1, <3>1, LaunchedTyped
      <3> QED BY <1>3, <3>1, <3>2
    <2> QED BY <2>2, <2>3
  <1>5. launching' \in Launches /\ launching'.left \subseteq launching.left
    <2>1. launching' = NoLaunch \/ launching' = [launching EXCEPT !.left = @ \ {s}] BY DEF LaunchShip
    <2>2. CASE launching' = NoLaunch BY <2>2, EmptyStates DEF NoLaunch
    <2>3. CASE launching' = [launching EXCEPT !.left = @ \ {s}] BY <1>3, <2>3 DEF Launches
    <2> QED BY <2>1, <2>2, <2>3
  <1>6. owned \subseteq owned' BY <1>2
  <1>7. db' \in Tables /\ admiral' \in Admirals /\ AdmiralKnows' /\ AgendaFits' /\ Placed' BY <1>1, <1>4, <1>6, LockFrame
  <1>8. ChannelsTyped' BY <1>1, <1>4, <1>6, SameChannels
  <1>9. FibersKnown' BY <1>1, <1>2, <1>3, <1>4, <1>5 DEF FibersKnown
  <1>10. CopiesTyped' BY <1>1, <1>3, <1>5 DEF CopiesTyped
  <1>11. WorldTyped' /\ BoundsTyped' /\ ProcessTyped' BY <1>1, <1>2, <1>4 DEF IInv, WorldTyped, BoundsTyped, ProcessTyped
  <1> QED BY <1>7, <1>8, <1>9, <1>10, <1>11 DEF IInv

LEMMA IdleTyped ==
  ASSUME NEW agent \in SUBSET Ships
  PROVE  NotRunning(agent) \subseteq Ships
  BY DEF NotRunning

LEMMA SweepKeeps ==
  ASSUME IInv, SweepSnapshot \/ SweepFilter \/ \E s \in Ships : SweepRelaunch(s)
  PROVE  IInv'
  <1>1. UNCHANGED <<world, db, stage, under_lock, launching, ship_ops, channels, bounds>>
    BY DEF SweepSnapshot, SweepFilter, SweepRelaunch, fiber_vars
  <1>2. UNCHANGED <<stage, admiral, owned, tickets, explored, errors, crashes, failures>>
    BY <1>1 DEF under_lock, world, bounds
  <1>3. /\ launching \in Launches /\ sweep \in Sweeps /\ fibers \in [Ships -> Seq(Fibers)]
        /\ \A r \in Ships : fibers[r] # <<>> => r \in ship_ops
        /\ admiral \in Admirals
    BY DEF IInv, CopiesTyped, FibersKnown
  <1>4. sweep' \in Sweeps
    <2>1. CASE SweepSnapshot
      <3>1. sweep' = [at |-> "copied", ships |-> admiral.all_ships, tasks |-> admiral.ship_tasks,
                      assignment |-> admiral.assignment] BY <2>1 DEF SweepSnapshot
      <3> QED BY <1>3, <3>1 DEF Sweeps, Admirals
    <2>2. CASE SweepFilter
      <3>1. sweep' = NoSweep \/ sweep' = [sweep EXCEPT !.at = "relaunching", !.ships = NotRunning(sweep.ships)]
        BY <2>2 DEF SweepFilter
      <3>2. NotRunning(sweep.ships) \subseteq Ships BY <1>3, IdleTyped DEF Sweeps
      <3> QED BY <1>3, <3>1, <3>2, EmptyStates DEF Sweeps
    <2>3. CASE \E s \in Ships : SweepRelaunch(s)
      <3>1. \E s \in Ships : sweep' = NoSweep \/ sweep' = [sweep EXCEPT !.ships = @ \ {s}] BY <2>3 DEF SweepRelaunch
      <3> QED BY <1>3, <3>1, EmptyStates DEF Sweeps
    <2> QED BY <2>1, <2>2, <2>3
  <1>5. /\ fibers' \in [Ships -> Seq(Fibers)]
        /\ \A r \in Ships : fibers'[r] # <<>> => r \in ship_ops
        /\ dead' \subseteq dead \cup {"restart"}
    <2>1. CASE SweepSnapshot \/ SweepFilter BY <1>3, <2>1 DEF SweepSnapshot, SweepFilter, fiber_vars
    <2>2. CASE \E s \in Ships : SweepRelaunch(s)
      <3>1. PICK s \in Ships : SweepRelaunch(s) BY <2>2
      <3>2. sweep.tasks \in TaskMaps BY <1>3 DEF Sweeps
      <3>3. fibers' = fibers \/ fibers' = Relaunched(s, sweep.tasks) BY <3>1 DEF SweepRelaunch
      <3>4. dead' \subseteq dead \cup {"restart"} BY <3>1 DEF SweepRelaunch
      <3>5. CASE fibers' = fibers BY <1>3, <3>4, <3>5
      <3>6. CASE fibers' = Relaunched(s, sweep.tasks)
        <4>1. fibers' \in [Ships -> Seq(Fibers)]
              /\ \A r \in Ships : fibers'[r] # <<>> => fibers[r] # <<>> \/ (r = s /\ s \in ship_ops)
          BY <1>3, <3>2, <3>6, LaunchedTyped
        <4> QED BY <1>3, <3>4, <4>1
      <3> QED BY <3>3, <3>5, <3>6
    <2> QED BY <2>1, <2>2
  <1>6. owned \subseteq owned' /\ ship_ops \subseteq ship_ops' BY <1>1, <1>2
  <1>7. db' \in Tables /\ admiral' \in Admirals /\ AdmiralKnows' /\ AgendaFits' /\ Placed' BY <1>1, <1>6, LockFrame
  <1>8. ChannelsTyped' BY <1>1, <1>6, SameChannels
  <1>9. FibersKnown' BY <1>1, <1>2, <1>5 DEF IInv, FibersKnown
  <1>10. CopiesTyped' BY <1>1, <1>3, <1>4 DEF CopiesTyped
  <1>11. WorldTyped' /\ BoundsTyped' /\ ProcessTyped' BY <1>1, <1>2, <1>5 DEF IInv, WorldTyped, BoundsTyped, ProcessTyped
  <1> QED BY <1>7, <1>8, <1>9, <1>10, <1>11 DEF IInv

-----------------------------------------------------------------------------
(* Statements, errors and panics. *)

LEMMA HeadKind ==
  ASSUME IInv, todo # <<>>
  PROVE  /\ Head(todo) \in Steps /\ Head(todo) \in StepsOf(report.type) /\ Agenda(todo, report.type) /\ todo \in Seq(Steps)
         /\ \/ report = Starting /\ report.type = "start" /\ stage = "starting"
            \/ report \in Credible /\ report.type \in {"finished", "collected", "purchased"} /\ stage = "running"
         /\ Head(todo) \in DismantleOnly => report.fleet \in FleetTasks
         /\ Head(todo) \in TaskOnly => report.task \in ShipTasks /\ report.ship \in ship_ops
         /\ Head(todo) \in {"Create", "Load", "Listen"} => report = Starting
         /\ Head(todo) \in DismantleOnly \cup TaskOnly => report.type = "finished"
         /\ Head(todo) \in {"Register", "LaunchNew"} => report.type = "purchased"
  <1>1. /\ todo \in Seq(Steps) /\ report \in Credible \cup {Starting, NoReport} /\ report # NoReport
        /\ (stage = "starting" <=> report = Starting)
        /\ (report \in Messages => stage = "running")
        /\ Agenda(todo, report.type)
        /\ \A x \in DismantleOnly : In(todo, x) => report.fleet \in FleetTasks
    BY DEF IInv, AgendaFits
  <1>2. Head(todo) \in Steps /\ Head(todo) \in StepsOf(report.type) /\ In(todo, Head(todo)) BY <1>1, AgendaStep
  <1>3. report \in Credible => report \in Messages BY DEF Credible
  <1>4. \/ report = Starting /\ report.type = "start" /\ stage = "starting"
        \/ report \in Credible /\ report.type \in {"finished", "collected", "purchased"} /\ stage = "running"
    BY <1>1, <1>3, ReportKinds
  <1>5. Head(todo) \in {"Create", "Load", "Listen"} => report.type \notin {"finished", "collected", "purchased"}
    BY <1>2 DEF StepsOf, UpsertStep, DismantleOnly, TaskOnly
  <1>6. Head(todo) \in DismantleOnly \cup TaskOnly => report.type = "finished"
    BY <1>2, <1>4 DEF StepsOf, UpsertStep, DismantleOnly, TaskOnly
  <1>7. Head(todo) \in {"Register", "LaunchNew"} => report.type = "purchased"
    BY <1>2, <1>4 DEF StepsOf, UpsertStep, DismantleOnly, TaskOnly
  <1>8. report \in Credible /\ report.type = "finished" => report.task \in ShipTasks /\ report.ship \in ship_ops BY DEF Credible
  <1>9. report = Starting => report.type # "finished" BY ReportKinds
  <1> QED BY <1>1, <1>2, <1>4, <1>5, <1>6, <1>7, <1>8, <1>9

LEMMA FibersStay ==
  ASSUME IInv, UNCHANGED <<launching, fiber_vars>>, stage' # "running" => stage # "running",
         stage = "running" => admiral.all_ships \subseteq admiral'.all_ships
  PROVE  FibersKnown'
  BY DEF IInv, FibersKnown, fiber_vars

LEMMA GivenUp ==
  ASSUME IInv, GiveUp
  PROVE  AgendaFits' /\ stage' \in {"down", "starting", "running"} /\ (stage' = "running" <=> stage = "running")
         /\ (ForeignKeys(db') => Placed')
  <1>1. todo' = <<>> /\ report' = NoReport /\ stage' # "starting" /\ (stage' = "running" <=> stage = "running")
        /\ stage' \in {"down", "starting", "running"}
    BY DEF GiveUp, IInv, ProcessTyped
  <1> QED BY <1>1, FreeAgenda, FreePlaced

LEMMA NobodyKnows ==
  ASSUME NEW d \in Tables
  PROVE  Knows(NoAdmiral, d)
  BY EmptyMaps DEF Knows, NoAdmiral

LEMMA Emptied ==
  ASSUME IInv, actions' = actions, reports' = <<>> \/ reports' = reports, owned \subseteq owned', ship_ops \subseteq ship_ops'
  PROVE  ChannelsTyped'
  <1>1. <<>> \in Seq(Credible') /\ Len(<<>>) = 0 BY EmptySeq
  <1>2. Capacity \in Nat BY RunnerAssumption
  <1>3. /\ actions \in Seq(Credible) /\ reports \in Seq(Credible)
        /\ Len(actions) <= Capacity /\ Len(reports) <= Capacity BY DEF IInv, ChannelsTyped
  <1>4. actions \in Seq(Credible') /\ reports \in Seq(Credible') BY <1>3, CredibleGrows
  <1>5. CASE reports' = <<>> BY <1>1, <1>2, <1>3, <1>4, <1>5 DEF ChannelsTyped
  <1>6. CASE reports' = reports BY <1>3, <1>4, <1>6 DEF ChannelsTyped
  <1> QED BY <1>5, <1>6

\* A panic under the mutex, with the admiral in state a.
LEMMA PanicKeeps ==
  ASSUME IInv, NEW a \in Admirals, PanicWith(a), db' = db, Knows(a, db),
         actions' = actions, owned \subseteq owned', ship_ops \subseteq ship_ops'
  PROVE  /\ AgendaFits' /\ Placed' /\ ProcessTyped' /\ admiral' \in Admirals /\ AdmiralKnows' /\ ChannelsTyped'
         /\ (stage' = "running" <=> stage = "running") /\ (stage = "running" => admiral' = a)
  <1>1. GiveUp /\ (dead' = dead \/ dead' = dead \cup {"status"}) /\ (reports' = <<>> \/ reports' = reports)
        /\ (admiral' = a \/ admiral' = NoAdmiral) /\ (stage = "running" => admiral' = a)
    BY DEF PanicWith
  <1>2. ForeignKeys(db') BY DEF IInv, Placed
  <1>3. AgendaFits' /\ Placed' /\ stage' \in {"down", "starting", "running"} /\ (stage' = "running" <=> stage = "running")
    BY <1>1, <1>2, GivenUp
  <1>4. ProcessTyped' BY <1>1, <1>3 DEF IInv, ProcessTyped
  <1>5. ChannelsTyped' BY <1>1, Emptied
  <1>6. db \in Tables BY DEF IInv
  <1>7. admiral' \in Admirals /\ AdmiralKnows' BY <1>1, <1>6, EmptyStates, NobodyKnows DEF AdmiralKnows
  <1> QED BY <1>1, <1>3, <1>4, <1>5, <1>7

\* The parts that every step under the mutex leaves alone.
LEMMA RestTyped ==
  ASSUME IInv, UNCHANGED <<owned, explored, launching, sweep, bounds>>, tickets' \subseteq Tickets
  PROVE  WorldTyped' /\ BoundsTyped' /\ CopiesTyped'
  BY DEF IInv, WorldTyped, BoundsTyped, CopiesTyped, bounds

-----------------------------------------------------------------------------
(* Statements. *)

LEMMA StoredTyped ==
  ASSUME IInv, todo # <<>>, Head(todo) \in Writes, NEW rows \in SUBSET Keys(Head(todo))
  PROVE  /\ Stored(Head(todo), rows) \in Tables
         /\ db.ships \subseteq Stored(Head(todo), rows).ships
         /\ Head(todo) = "StoreShips" => Stored(Head(todo), rows).ships = db.ships \cup rows
  <1> DEFINE step == Head(todo)
             after == Stored(step, rows)
  <1>1. db \in Tables /\ admiral \in Admirals BY DEF IInv
  <1>2. CASE step = "StoreShips"
    <2>1. after = [db EXCEPT !.ships = @ \cup rows] BY <1>2 DEF Stored
    <2>2. rows \subseteq Ships
      <3>1. rows \subseteq owned \/ (report # Starting /\ rows \subseteq {report.ship}) BY <1>2 DEF Keys
      <3>2. report # Starting => report \in Messages BY HeadKind DEF Credible
      <3> QED BY <3>1, <3>2 DEF IInv, WorldTyped, Messages
    <2> QED BY <1>1, <1>2, <2>1, <2>2 DEF Tables
  <1>3. CASE step = "UpsertFleets"
    <2>1. after = [db EXCEPT !.fleets = @ \cup rows] BY <1>3 DEF Stored
    <2>2. rows \subseteq FleetTasks BY <1>1, <1>3 DEF Keys, Admirals
    <2> QED BY <1>1, <1>3, <2>1, <2>2 DEF Tables
  <1>4. CASE step = "UpsertFleetTasks"
    <2> DEFINE m == [f \in FleetTasks |-> IF f \in rows THEN admiral.fleet_tasks[f] ELSE db.fleet_tasks[f]]
    <2>1. after = [db EXCEPT !.fleet_tasks = m] BY <1>4 DEF Stored
    <2>2. m \in RowMaps BY <1>1 DEF Tables, Admirals, RowMaps
    <2> HIDE DEF m
    <2> QED BY <1>1, <1>4, <2>1, <2>2 DEF Tables
  <1>5. CASE step = "UpsertAssignment"
    <2> DEFINE m == [s \in Ships |-> IF s \in rows THEN admiral.assignment[s] ELSE db.assignment[s]]
    <2>1. after = [db EXCEPT !.assignment = m] BY <1>5 DEF Stored
    <2>2. m \in FleetMaps BY <1>1 DEF Tables, Admirals, FleetMaps
    <2> HIDE DEF m
    <2> QED BY <1>1, <1>5, <2>1, <2>2 DEF Tables
  <1>6. CASE step = "SaveShipTasks"
    <2> DEFINE m == [s \in Ships |-> IF s \in rows THEN admiral.ship_tasks[s] ELSE db.ship_tasks[s]]
    <2>1. after = [db EXCEPT !.ship_tasks = m] BY <1>6 DEF Stored
    <2>2. m \in TaskMaps BY <1>1 DEF Tables, Admirals, TaskMaps
    <2> HIDE DEF m
    <2> QED BY <1>1, <1>6, <2>1, <2>2 DEF Tables
  <1>7. CASE step = "SaveCompleted"
    <2>1. after = [db EXCEPT !.completed = @ \cup rows] BY <1>7 DEF Stored
    <2>2. rows \subseteq FleetTasks BY <1>7 DEF Keys, FleetTasks
    <2> QED BY <1>1, <1>7, <2>1, <2>2 DEF Tables
  <1>8. CASE step = "DeleteAssignments"
    <2> DEFINE m == [s \in Ships |-> IF db.assignment[s] \in rows THEN NoFleet ELSE db.assignment[s]]
    <2>1. after = [db EXCEPT !.assignment = m] BY <1>8 DEF Stored
    <2>2. m \in FleetMaps BY <1>1 DEF Tables, FleetMaps
    <2> HIDE DEF m
    <2> QED BY <1>1, <1>8, <2>1, <2>2 DEF Tables
  <1>9. CASE step = "DeleteTasks"
    <2> DEFINE m == [f \in FleetTasks |-> IF f \in rows THEN "no_row" ELSE db.fleet_tasks[f]]
    <2>1. after = [db EXCEPT !.fleet_tasks = m] BY <1>9 DEF Stored
    <2>2. m \in RowMaps BY <1>1 DEF Tables, RowMaps
    <2> HIDE DEF m
    <2> QED BY <1>1, <1>9, <2>1, <2>2 DEF Tables
  <1>10. CASE step = "DeleteFleet"
    <2>1. after = [db EXCEPT !.fleets = @ \ rows] BY <1>10 DEF Stored
    <2> QED BY <1>1, <1>10, <2>1 DEF Tables
  <1> QED BY <1>2, <1>3, <1>4, <1>5, <1>6, <1>7, <1>8, <1>9, <1>10 DEF Writes

LEMMA CutOffTyped ==
  ASSUME IInv, db' \in CutOff
  PROVE  db' \in Tables /\ ForeignKeys(db') /\ db.ships \subseteq db'.ships
  <1>1. CASE todo # <<>> /\ Head(todo) \in Writes
    <2>1. PICK rows \in SUBSET Keys(Head(todo)) : db' = Stored(Head(todo), rows) BY <1>1 DEF CutOff
    <2>2. ForeignKeys(db') BY <1>1 DEF CutOff
    <2> QED BY <1>1, <2>1, <2>2, StoredTyped
  <1>2. CASE ~ (todo # <<>> /\ Head(todo) \in Writes)
    <2>1. db' = db BY <1>2 DEF CutOff
    <2> QED BY <2>1 DEF IInv, Placed
  <1> QED BY <1>1, <1>2

LEMMA KnowsMore ==
  ASSUME NEW a, NEW d, NEW e, Knows(a, d), d.ships \subseteq e.ships
  PROVE  Knows(a, e)
  BY DEF Knows

\* The statement at the head is accepted, as long as every fleet exists.
LEMMA Accepted ==
  ASSUME IInv, todo # <<>>, Head(todo) \in Writes, Head(todo) # "UpsertAssignment" \/ EveryFleetExists
  PROVE  ForeignKeys(Stored(Head(todo), Keys(Head(todo))))
  <1> DEFINE step == Head(todo)
             after == Stored(step, Keys(step))
  <1> SUFFICES ForeignKeys(after) OBVIOUS
  <1>1. db \in Tables /\ admiral \in Admirals /\ ForeignKeys(db) /\ Knows(admiral, db) BY DEF IInv, Placed, AdmiralKnows
  <1>2. CASE step \in {"StoreShips", "UpsertFleets", "SaveCompleted"}
    <2>1. /\ after.fleet_tasks = db.fleet_tasks /\ after.assignment = db.assignment /\ after.ship_tasks = db.ship_tasks
          /\ db.ships \subseteq after.ships /\ db.fleets \subseteq after.fleets
      BY <1>1, <1>2 DEF Stored, Tables
    <2> HIDE DEF after
    <2> QED BY <1>1, <2>1 DEF ForeignKeys
  <1>3. CASE step = "UpsertFleetTasks"
    <2>1. /\ after.assignment = db.assignment /\ after.ship_tasks = db.ship_tasks
          /\ after.ships = db.ships /\ after.fleets = db.fleets
          /\ \A f \in FleetTasks : \/ after.fleet_tasks[f] = db.fleet_tasks[f]
                                   \/ admiral.fleet_tasks[f] # "no_row"
      BY <1>1, <1>3 DEF Stored, Tables, Keys
    <2>2. admiral.fleets \subseteq db.fleets BY <1>3 DEF IInv, Placed
    <2> HIDE DEF after
    <2> QED BY <1>1, <2>1, <2>2 DEF ForeignKeys, Knows
  <1>4. CASE step = "UpsertAssignment"
    <2>1. /\ after.fleet_tasks = db.fleet_tasks /\ after.ship_tasks = db.ship_tasks
          /\ after.ships = db.ships /\ after.fleets = db.fleets
          /\ \A s \in Ships : \/ after.assignment[s] = db.assignment[s]
                              \/ admiral.assignment[s] # NoFleet /\ after.assignment[s] = admiral.assignment[s]
      BY <1>1, <1>4 DEF Stored, Tables, Keys
    <2>2. admiral.fleets \subseteq db.fleets BY <1>4 DEF IInv, Placed
    <2>3. \A s \in Ships : admiral.assignment[s] \in admiral.fleets \cup {NoFleet} BY <1>4 DEF EveryFleetExists
    <2> HIDE DEF after
    <2> QED BY <1>1, <2>1, <2>2, <2>3 DEF ForeignKeys, Knows
  <1>5. CASE step = "SaveShipTasks"
    <2>1. /\ after.fleet_tasks = db.fleet_tasks /\ after.assignment = db.assignment
          /\ after.ships = db.ships /\ after.fleets = db.fleets
          /\ \A s \in Ships : \/ after.ship_tasks[s] = db.ship_tasks[s]
                              \/ admiral.ship_tasks[s] # NoTask
      BY <1>1, <1>5 DEF Stored, Tables, Keys
    <2> HIDE DEF after
    <2> QED BY <1>1, <2>1 DEF ForeignKeys, Knows
  <1>6. CASE step = "DeleteAssignments"
    <2>1. /\ after.fleet_tasks = db.fleet_tasks /\ after.ship_tasks = db.ship_tasks
          /\ after.ships = db.ships /\ after.fleets = db.fleets
          /\ \A s \in Ships : after.assignment[s] = db.assignment[s] \/ after.assignment[s] = NoFleet
      BY <1>1, <1>6 DEF Stored, Tables
    <2> HIDE DEF after
    <2> QED BY <1>1, <2>1 DEF ForeignKeys
  <1>7. CASE step = "DeleteTasks"
    <2>1. /\ after.assignment = db.assignment /\ after.ship_tasks = db.ship_tasks
          /\ after.ships = db.ships /\ after.fleets = db.fleets
          /\ \A f \in FleetTasks : after.fleet_tasks[f] = db.fleet_tasks[f] \/ after.fleet_tasks[f] = "no_row"
      BY <1>1, <1>7 DEF Stored, Tables
    <2> HIDE DEF after
    <2> QED BY <1>1, <2>1 DEF ForeignKeys
  <1>8. CASE step = "DeleteFleet"
    <2>1. /\ after.fleet_tasks = db.fleet_tasks /\ after.assignment = db.assignment /\ after.ship_tasks = db.ship_tasks
          /\ after.ships = db.ships /\ after.fleets = db.fleets \ {report.fleet}
      BY <1>1, <1>8 DEF Stored, Tables, Keys
    <2>2. (\A s \in Ships : db.assignment[s] # report.fleet) /\ db.fleet_tasks[report.fleet] = "no_row"
      BY <1>8 DEF IInv, Placed
    <2> HIDE DEF after
    <2> QED BY <1>1, <2>1, <2>2 DEF ForeignKeys
  <1> QED BY <1>2, <1>3, <1>4, <1>5, <1>6, <1>7, <1>8 DEF Writes

LEMMA WriteKeeps ==
  ASSUME IInv, NEW step \in Writes, Write(step)
  PROVE  IInv'
  <1>1. /\ todo # <<>> /\ step = Head(todo)
        /\ UNCHANGED <<world, dead, launching, fiber_vars, sweep, channels, bounds>>
    BY DEF Write, Does
  <1>2. UNCHANGED <<owned, tickets, explored, ship_ops>> BY <1>1 DEF world, fiber_vars
  <1>3. /\ report \in Credible \cup {Starting} /\ (report = Starting <=> stage = "starting")
        /\ todo \in Seq(Steps) /\ Agenda(todo, report.type)
    BY <1>1 DEF IInv, AgendaFits
  <1>4. db \in Tables /\ admiral \in Admirals /\ ForeignKeys(db) /\ Knows(admiral, db) /\ tickets \subseteq Tickets
    BY DEF IInv, Placed, AdmiralKnows, WorldTyped
  <1>5. ChannelsTyped' BY <1>1, <1>2, SameChannels
  <1>6. WorldTyped' /\ BoundsTyped' /\ CopiesTyped' BY <1>1, <1>2, <1>4, RestTyped
  <1>7. CASE ForeignKeys(Stored(step, Keys(step)))
    <2>1. db' = Stored(step, Keys(step)) /\ Proceed /\ stage' = stage /\ admiral' = admiral BY <1>7 DEF Write
    <2>2. /\ db' \in Tables /\ ForeignKeys(db') /\ db.ships \subseteq db'.ships
          /\ step = "StoreShips" => db'.ships = db.ships \cup Keys(step)
      BY <1>1, <1>7, <2>1, StoredTyped
    <2>3. AdmiralKnows' BY <1>4, <2>1, <2>2, KnowsMore DEF AdmiralKnows
    <2>4. AgendaFits'
      <3>1. step \notin {"Listen", "Register"} BY DEF Writes
      <3>2. step = "StoreShips" /\ report.type = "purchased" => report.ship \in db'.ships
        <4>1. report.type = "purchased" => report # Starting BY ReportKinds
        <4> QED BY <2>2, <4>1 DEF Keys
      <3> QED BY <1>1, <1>2, <2>1, <2>2, <3>1, <3>2, ProceedFits
    <2>5. Placed'
      <3>1. step = "UpsertFleets" => admiral.fleets \subseteq db'.fleets BY <1>4, <2>1 DEF Stored, Keys, Tables
      <3>2. step = "UpsertFleetTasks" => admiral.fleets \subseteq db'.fleets
        <4>1. step = "UpsertFleetTasks" => admiral.fleets \subseteq db.fleets BY <1>1 DEF IInv, Placed
        <4> QED BY <1>4, <2>1, <4>1 DEF Stored, Tables
      <3>3. step = "DeleteAssignments" => \A s \in Ships : db'.assignment[s] # report.fleet
        <4> HAVE step = "DeleteAssignments"
        <4>1. Keys(step) = {report.fleet} BY DEF Keys
        <4>2. db'.assignment = [s \in Ships |-> IF db.assignment[s] \in {report.fleet} THEN NoFleet ELSE db.assignment[s]]
          BY <1>4, <2>1, <4>1 DEF Stored, Tables
        <4>3. report.fleet # NoFleet
          <5>1. report.fleet \in FleetTasks BY <1>1, HeadKind DEF DismantleOnly
          <5> QED BY <5>1, PlanAssumption
        <4> QED BY <4>2, <4>3
      <3>4. step = "DeleteTasks" => (\A s \in Ships : db'.assignment[s] # report.fleet) /\ db'.fleet_tasks[report.fleet] = "no_row"
        <4> HAVE step = "DeleteTasks"
        <4>1. Keys(step) = {report.fleet} BY DEF Keys
        <4>2. /\ db'.fleet_tasks = [f \in FleetTasks |-> IF f \in {report.fleet} THEN "no_row" ELSE db.fleet_tasks[f]]
              /\ db'.assignment = db.assignment
          BY <1>4, <2>1, <4>1 DEF Stored, Tables
        <4>3. report.fleet \in FleetTasks BY <1>1, HeadKind DEF DismantleOnly
        <4>4. \A s \in Ships : db.assignment[s] # report.fleet BY <1>1 DEF IInv, Placed
        <4> QED BY <4>2, <4>3, <4>4
      <3> QED BY <1>1, <2>1, <2>2, <3>1, <3>2, <3>3, <3>4, ProceedPlaced
    <2>6. FibersKnown' BY <1>1, <2>1, FibersStay
    <2>7. ProcessTyped' BY <1>1, <2>1 DEF IInv, ProcessTyped
    <2> QED BY <1>4, <1>5, <1>6, <2>1, <2>2, <2>3, <2>4, <2>5, <2>6, <2>7 DEF IInv
  <1>8. CASE ~ ForeignKeys(Stored(step, Keys(step)))
    <2>1. GiveUp /\ db' = db /\ admiral' = IF stage = "starting" THEN NoAdmiral ELSE admiral BY <1>8 DEF Write
    <2>2. AgendaFits' /\ Placed' /\ stage' \in {"down", "starting", "running"} /\ (stage' = "running" <=> stage = "running")
      BY <1>4, <2>1, GivenUp
    <2>3. admiral' \in Admirals /\ AdmiralKnows' BY <1>4, <2>1, NobodyKnows, EmptyStates DEF AdmiralKnows
    <2>4. FibersKnown' BY <1>1, <2>1, <2>2, FibersStay
    <2>5. ProcessTyped' BY <1>1, <2>2 DEF IInv, ProcessTyped
    <2> QED BY <1>4, <1>5, <1>6, <2>1, <2>2, <2>3, <2>4, <2>5 DEF IInv
  <1> QED BY <1>7, <1>8

LEMMA FailKeeps ==
  ASSUME IInv, Fail
  PROVE  IInv'
  <1>1. /\ GiveUp /\ admiral' = (IF stage = "starting" THEN NoAdmiral ELSE admiral)
        /\ db' \in CutOff /\ failures < MaxFailures /\ failures' = failures + 1
        /\ UNCHANGED <<world, dead, launching, fiber_vars, sweep, channels, errors, crashes>>
    BY DEF Fail
  <1>2. UNCHANGED <<owned, tickets, explored, ship_ops>> BY <1>1 DEF world, fiber_vars
  <1>3. db' \in Tables /\ ForeignKeys(db') /\ db.ships \subseteq db'.ships BY <1>1, CutOffTyped
  <1>4. AgendaFits' /\ Placed' /\ stage' \in {"down", "starting", "running"} /\ (stage' = "running" <=> stage = "running")
    BY <1>1, <1>3, GivenUp
  <1>5. admiral' \in Admirals /\ AdmiralKnows'
    BY <1>1, <1>3, NobodyKnows, KnowsMore, EmptyStates DEF IInv, AdmiralKnows
  <1>6. FibersKnown' BY <1>1, <1>4, FibersStay
  <1>7. ChannelsTyped' BY <1>1, <1>2, SameChannels
  <1>8. BoundsTyped' BY <1>1, RunnerAssumption DEF IInv, BoundsTyped
  <1>9. WorldTyped' /\ CopiesTyped' /\ ProcessTyped'
    BY <1>1, <1>2, <1>4 DEF IInv, WorldTyped, CopiesTyped, ProcessTyped
  <1> QED BY <1>3, <1>4, <1>5, <1>6, <1>7, <1>8, <1>9 DEF IInv

LEMMA CrashKeeps ==
  ASSUME IInv, Crash
  PROVE  IInv'
  <1>1. /\ crashes < MaxCrashes /\ crashes' = crashes + 1 /\ db' \in CutOff /\ stage' = "down" /\ dead' = {}
        /\ admiral' = NoAdmiral /\ todo' = <<>> /\ report' = NoReport
        /\ launching' = NoLaunch /\ ship_ops' = {} /\ fibers' = [s \in Ships |-> <<>>]
        /\ sweep' = NoSweep /\ actions' = <<>> /\ reports' = <<>>
        /\ UNCHANGED <<world, errors, failures>>
    BY DEF Crash
  <1>2. db' \in Tables /\ ForeignKeys(db') BY <1>1, CutOffTyped
  <1>3. AgendaFits' /\ Placed' BY <1>1, <1>2, FreeAgenda, FreePlaced
  <1>4. admiral' \in Admirals /\ AdmiralKnows' BY <1>1, <1>2, NobodyKnows, EmptyStates DEF AdmiralKnows
  <1>5. FibersKnown'
    <2>1. <<>> \in Seq(Fibers) BY EmptySeq
    <2>2. launching'.left = {} BY <1>1 DEF NoLaunch
    <2> QED BY <1>1, <2>1, <2>2 DEF FibersKnown
  <1>6. ChannelsTyped'
    <2>1. <<>> \in Seq(Credible') /\ Len(<<>>) = 0 BY EmptySeq
    <2>2. Capacity \in Nat BY RunnerAssumption
    <2> QED BY <1>1, <2>1, <2>2 DEF ChannelsTyped
  <1>7. BoundsTyped' BY <1>1, RunnerAssumption DEF IInv, BoundsTyped
  <1>8. WorldTyped' /\ CopiesTyped' /\ ProcessTyped' BY <1>1, EmptyStates DEF IInv, WorldTyped, CopiesTyped, ProcessTyped, world
  <1> QED BY <1>2, <1>3, <1>4, <1>5, <1>6, <1>7, <1>8 DEF IInv

LEMMA StartKeeps ==
  ASSUME IInv, Start
  PROVE  IInv'
  <1>1. /\ stage = "down" /\ stage' = "starting" /\ dead' = {} /\ report' = Starting
        /\ \/ todo' = StartWith(<<"Load">>)
           \/ todo' = StartWith(<<"StoreShips", "Create">>)
           \/ todo' = StartWith(<<"Create">>)
        /\ UNCHANGED <<world, db, admiral, launching, fiber_vars, sweep, channels, bounds>>
    BY DEF Start, StartWith
  <1>2. UNCHANGED <<owned, tickets, explored, ship_ops>> BY <1>1 DEF world, fiber_vars
  <1>3. /\ Agenda(todo', "start") /\ todo' \in Seq(Steps) /\ todo' # <<>>
        /\ Head(todo') \in {"Load", "StoreShips", "Create"}
    <2>1. Len(todo') # 0 /\ todo'[1] \in {"Load", "StoreShips", "Create"} BY <1>1, LoadPlan, StorePlan, CreatePlan
    <2>2. Agenda(todo', "start") /\ todo' \in Seq(Steps) BY <1>1, StartPlans
    <2>3. todo' # <<>> BY <2>1
    <2> QED BY <2>1, <2>2, <2>3
  <1>4. \A x : In(todo', x) => x \in StepsOf("start") BY <1>3 DEF In, Agenda
  <1>5. AgendaFits'
    <2>1. \A x \in DismantleOnly : ~ In(todo', x) BY <1>4 DEF StepsOf, UpsertStep, DismantleOnly
    <2> HIDE DEF In, Agenda
    <2> QED BY <1>1, <1>3, <2>1, ReportKinds DEF AgendaFits
  <1>6. db \in Tables /\ admiral \in Admirals /\ ForeignKeys(db) /\ Knows(admiral, db) /\ tickets \subseteq Tickets
    BY DEF IInv, Placed, AdmiralKnows, WorldTyped
  <1>7. Placed' BY <1>1, <1>3, <1>6 DEF Placed, ForeignKeys
  <1>8. FibersKnown' BY <1>1, FibersStay
  <1>9. ChannelsTyped' BY <1>1, <1>2, SameChannels
  <1>10. WorldTyped' /\ BoundsTyped' /\ CopiesTyped' BY <1>1, <1>2, <1>6, RestTyped
  <1>11. ProcessTyped' /\ AdmiralKnows' BY <1>1, <1>6 DEF ProcessTyped, AdmiralKnows
  <1> QED BY <1>1, <1>5, <1>6, <1>7, <1>8, <1>9, <1>10, <1>11 DEF IInv

LEMMA CreateKeeps ==
  ASSUME IInv, Create
  PROVE  IInv'
  <1>1. /\ todo # <<>> /\ Head(todo) = "Create" /\ Proceed
        /\ UNCHANGED <<world, db, stage, dead, launching, fiber_vars, sweep, channels, bounds>>
    BY DEF Create, Does
  <1>2. UNCHANGED <<owned, tickets, explored, ship_ops>> BY <1>1 DEF world, fiber_vars
  <1>3. db \in Tables /\ ForeignKeys(db) /\ tickets \subseteq Tickets BY DEF IInv, Placed, WorldTyped
  <1>4. report = Starting /\ report.type # "purchased" /\ stage = "starting" BY <1>1, HeadKind, ReportKinds
  <1> DEFINE phase == CurrentPhase(db.completed)
             fleets == Range(PhaseTasks(phase))
  <1>5. PICK sent \in ShipAssignments(PhaseTasks(phase), db.ships, ShoppingList(phase)) :
             admiral' = [NoAdmiral EXCEPT
                 !.all_ships = db.ships, !.fleets = fleets, !.fleet_tasks = TaskRows(fleets),
                 !.assignment = sent, !.completed = db.completed, !.phase = phase,
                 !.demand = NextShipPurchases(db.ships, phase), !.budgets = Budgeted(phase)]
    BY DEF Create
  <1> HIDE DEF phase
  <1>6. admiral' = [all_ships |-> db.ships, fleets |-> fleets, fleet_tasks |-> TaskRows(fleets),
                    assignment |-> sent, ship_tasks |-> NoTasks, completed |-> db.completed, phase |-> phase,
                    demand |-> NextShipPurchases(db.ships, phase), budgets |-> Budgeted(phase)]
    BY <1>5 DEF NoAdmiral
  <1>7. phase \in Phases BY PhaseTyped DEF phase
  <1>8. db.ships \subseteq Ships /\ db.completed \subseteq FleetTasks BY <1>3 DEF Tables
  <1>9. PhaseTasks(phase) \in Seq(FleetTasks) /\ fleets \subseteq FleetTasks /\ Budgeted(phase) \subseteq FleetTasks
    BY <1>7, PhaseFleets
  <1>10. sent \in FleetMaps /\ \A s \in Ships : sent[s] # NoFleet => s \in db.ships
    <2> DEFINE order == PhaseTasks(phase)
               agent == db.ships
               list == ShoppingList(phase)
    <2>1. order \in Seq(FleetTasks) /\ agent \in SUBSET Ships /\ sent \in ShipAssignments(order, agent, list) BY <1>8, <1>9
    <2> HIDE DEF order, agent, list
    <2>2. sent \in [Ships -> FleetTasks \cup {NoFleet}] /\ \A s \in Ships : sent[s] # NoFleet => s \in agent
      BY <2>1, AssignmentsTyped
    <2> QED BY <2>2 DEF FleetMaps, agent
  <1>11. NextShipPurchases(db.ships, phase) \in Seq(Items) BY <1>7, <1>8, PurchasesTyped
  <1> HIDE DEF fleets
  <1>12. admiral' \in Admirals BY <1>6, <1>7, <1>8, <1>9, <1>10, <1>11, EmptyMaps DEF Admirals
  <1>13. AdmiralKnows' BY <1>1, <1>6, <1>10, EmptyMaps DEF AdmiralKnows, Knows
  <1>14. AgendaFits' BY <1>1, <1>2, <1>4, ProceedFits
  <1>15. Placed' BY <1>1, <1>3, ProceedPlaced
  <1>16. FibersKnown' BY <1>1, <1>4, FibersStay
  <1>17. ChannelsTyped' BY <1>1, <1>2, SameChannels
  <1>18. WorldTyped' /\ BoundsTyped' /\ CopiesTyped' BY <1>1, <1>2, <1>3, RestTyped
  <1>19. ProcessTyped' BY <1>1 DEF IInv, ProcessTyped
  <1> QED BY <1>1, <1>3, <1>12, <1>13, <1>14, <1>15, <1>16, <1>17, <1>18, <1>19 DEF IInv

LEMMA LoadKeeps ==
  ASSUME IInv, Load
  PROVE  IInv'
  <1>1. /\ todo # <<>> /\ Head(todo) = "Load" /\ UNCHANGED <<world, db, launching, fiber_vars, sweep, actions, bounds>>
    BY DEF Load, Does
  <1>2. UNCHANGED <<owned, tickets, explored, ship_ops>> BY <1>1 DEF world, fiber_vars
  <1>3. db \in Tables /\ ForeignKeys(db) /\ tickets \subseteq Tickets BY DEF IInv, Placed, WorldTyped
  <1>4. report = Starting /\ report.type # "purchased" /\ stage = "starting" BY <1>1, HeadKind, ReportKinds
  <1>5. WorldTyped' /\ BoundsTyped' /\ CopiesTyped' BY <1>1, <1>2, <1>3, RestTyped
  <1> DEFINE phase == CurrentPhase(db.completed)
             fleets == db.fleets \cup Range(PhaseTasks(phase))
             loaded == [all_ships |-> db.ships, fleets |-> fleets, fleet_tasks |-> TaskRows(fleets),
                        assignment |-> db.assignment, ship_tasks |-> db.ship_tasks,
                        completed |-> db.completed, phase |-> phase,
                        demand |-> NextShipPurchases(db.ships, phase), budgets |-> Budgeted(phase)]
  <1>6. CASE \A f \in db.fleets : db.fleet_tasks[f] = "task"
    <2>1. admiral' = loaded /\ Proceed /\ UNCHANGED <<stage, dead, reports>> BY <1>6 DEF Load
    <2> HIDE DEF phase
    <2>2. phase \in Phases BY PhaseTyped DEF phase
    <2>3. db.ships \subseteq Ships /\ db.completed \subseteq FleetTasks /\ db.fleets \subseteq FleetTasks
          /\ db.assignment \in FleetMaps /\ db.ship_tasks \in TaskMaps BY <1>3 DEF Tables
    <2>4. fleets \subseteq FleetTasks /\ Budgeted(phase) \subseteq FleetTasks BY <2>2, <2>3, PhaseFleets
    <2>5. NextShipPurchases(db.ships, phase) \in Seq(Items) BY <2>2, <2>3, PurchasesTyped
    <2> HIDE DEF fleets
    <2>6. admiral' \in Admirals BY <2>1, <2>2, <2>3, <2>4, <2>5, EmptyMaps DEF Admirals
    <2>7. AdmiralKnows' BY <1>1, <1>3, <2>1, EmptyMaps DEF AdmiralKnows, Knows, ForeignKeys
    <2> HIDE DEF loaded
    <2>8. AgendaFits' BY <1>1, <1>2, <1>4, <2>1, ProceedFits
    <2>9. Placed' BY <1>1, <1>3, <2>1, ProceedPlaced
    <2>10. FibersKnown' BY <1>1, <1>4, <2>1, FibersStay
    <2>11. ChannelsTyped' BY <1>1, <1>2, <2>1, Emptied
    <2>12. ProcessTyped' BY <2>1 DEF IInv, ProcessTyped
    <2> QED BY <1>1, <1>3, <1>5, <2>6, <2>7, <2>8, <2>9, <2>10, <2>11, <2>12 DEF IInv
  <1>7. CASE ~ \A f \in db.fleets : db.fleet_tasks[f] = "task"
    <2>1. PanicWith(NoAdmiral) BY <1>7 DEF Load
    <2>2. Knows(NoAdmiral, db) /\ NoAdmiral \in Admirals BY <1>3, NobodyKnows, EmptyStates
    <2>3. /\ AgendaFits' /\ Placed' /\ ProcessTyped' /\ admiral' \in Admirals /\ AdmiralKnows' /\ ChannelsTyped'
          /\ (stage' = "running" <=> stage = "running")
      BY <1>1, <1>2, <2>1, <2>2, PanicKeeps
    <2>4. FibersKnown' BY <1>1, <1>4, <2>3, FibersStay
    <2> QED BY <1>1, <1>3, <1>5, <2>3, <2>4 DEF IInv
  <1> QED BY <1>6, <1>7

LEMMA ListenKeeps ==
  ASSUME IInv, Listen
  PROVE  IInv'
  <1>1. /\ todo # <<>> /\ Head(todo) = "Listen" /\ Proceed /\ stage' = "running"
        /\ launching' = [left |-> admiral.all_ships, tasks |-> admiral.ship_tasks, assignment |-> admiral.assignment]
        /\ UNCHANGED <<world, db, dead, admiral, fiber_vars, sweep, channels, bounds>>
    BY DEF Listen, Does
  <1>2. UNCHANGED <<owned, tickets, explored, ship_ops>> BY <1>1 DEF world, fiber_vars
  <1>3. /\ db \in Tables /\ admiral \in Admirals /\ ForeignKeys(db) BY DEF IInv, Placed
  <1>4. todo' = <<>> /\ report' = NoReport
    <2>1. todo \in Seq(Steps) /\ Agenda(todo, report.type) BY <1>1, HeadKind
    <2>2. Tail(todo) = <<>> BY <1>1, <2>1, AgendaStep
    <2> QED BY <1>1, <2>2 DEF Proceed
  <1>5. AgendaFits' BY <1>1, <1>4, FreeAgenda
  <1>6. Placed' BY <1>1, <1>3, <1>4, FreePlaced
  <1>7. FibersKnown' BY <1>1 DEF IInv, FibersKnown, fiber_vars
  <1>8. ChannelsTyped' BY <1>1, <1>2, SameChannels
  <1>9. CopiesTyped' BY <1>1, <1>3 DEF IInv, CopiesTyped, Launches, Admirals
  <1>10. WorldTyped' /\ BoundsTyped' /\ ProcessTyped' BY <1>1, <1>2 DEF IInv, WorldTyped, BoundsTyped, ProcessTyped, bounds
  <1>11. AdmiralKnows' BY <1>1 DEF IInv, AdmiralKnows
  <1> QED BY <1>1, <1>3, <1>5, <1>6, <1>7, <1>8, <1>9, <1>10, <1>11 DEF IInv

-----------------------------------------------------------------------------
(* Handlers. *)

\* A step of a handler that goes through, and one that panics.
LEMMA HandlerProceeds ==
  ASSUME IInv, todo # <<>>, Head(todo) \notin Writes \cup {"Listen"}, Proceed, UNCHANGED <<stage, dead>>,
         UNCHANGED <<owned, explored, db, launching, sweep, channels, bounds>>,
         tickets' \subseteq Tickets, ship_ops \subseteq ship_ops', FibersKnown',
         admiral' \in Admirals, Knows(admiral', db), admiral.all_ships \subseteq admiral'.all_ships,
         Head(todo) = "Register" => report.ship \in admiral'.all_ships
  PROVE  IInv'
  <1>1. db \in Tables /\ ForeignKeys(db) BY DEF IInv, Placed
  <1>2. Head(todo) \notin {"Listen", "StoreShips", "UpsertFleets", "UpsertFleetTasks", "DeleteAssignments", "DeleteTasks"}
    BY DEF Writes
  <1>3. AgendaFits' BY <1>2, ProceedFits
  <1>4. Placed' BY <1>1, <1>2, ProceedPlaced
  <1>5. ChannelsTyped' BY SameChannels
  <1>6. WorldTyped' /\ BoundsTyped' /\ CopiesTyped' BY RestTyped
  <1>7. ProcessTyped' BY DEF IInv, ProcessTyped
  <1>8. AdmiralKnows' BY DEF AdmiralKnows
  <1> QED BY <1>1, <1>3, <1>4, <1>5, <1>6, <1>7, <1>8 DEF IInv

LEMMA HandlerPanics ==
  ASSUME IInv, NEW a \in Admirals, PanicWith(a), Knows(a, db), FibersKnown',
         UNCHANGED <<owned, explored, db, launching, sweep, actions, bounds, ship_ops>>,
         tickets' \subseteq Tickets
  PROVE  IInv'
  <1>1. db \in Tables BY DEF IInv
  <1>2. AgendaFits' /\ Placed' /\ ProcessTyped' /\ admiral' \in Admirals /\ AdmiralKnows' /\ ChannelsTyped'
    BY PanicKeeps
  <1>3. WorldTyped' /\ BoundsTyped' /\ CopiesTyped' BY RestTyped
  <1> QED BY <1>1, <1>2, <1>3 DEF IInv

LEMMA PanicStays ==
  ASSUME IInv, NEW a \in Admirals, PanicWith(a), UNCHANGED <<launching, fiber_vars>>, admiral.all_ships \subseteq a.all_ships
  PROVE  FibersKnown'
  <1>1. (stage' = "running" <=> stage = "running") /\ (stage = "running" => admiral' = a)
    BY GivenUp DEF PanicWith
  <1> QED BY <1>1, FibersStay

LEMMA ComputeTasksKeeps ==
  ASSUME IInv, ComputeTasks
  PROVE  IInv'
  <1>1. /\ todo # <<>> /\ Head(todo) = "ComputeTasks"
        /\ UNCHANGED <<owned, explored, db, launching, fiber_vars, sweep, actions, bounds>>
    BY DEF ComputeTasks, Does
  <1>2. admiral \in Admirals /\ Knows(admiral, db) /\ tickets \subseteq Tickets BY DEF IInv, AdmiralKnows, WorldTyped
  <1> DEFINE plan == [demand |-> admiral.demand, tickets |-> tickets]
  <1>3. plan \in Plans BY <1>2 DEF Plans, Admirals
  <1>4. PICK o \in ComputeOutcomes(admiral, plan) :
          /\ tickets' = o.plan.tickets
          /\ IF HasBudgets(admiral)
             THEN admiral' = WithTasks([admiral EXCEPT !.demand = o.plan.demand], o.tasks) /\ Proceed
                  /\ UNCHANGED <<stage, dead, reports>>
             ELSE PanicWith([admiral EXCEPT !.demand = o.plan.demand])
    BY DEF ComputeTasks
  <1> HIDE DEF plan
  <1>5. /\ o.plan \in Plans /\ o.tasks \in TaskMaps
        /\ \A s \in Ships : o.tasks[s] # NoTask => s \in admiral.all_ships
    BY <1>2, <1>3, OutcomesTyped, PurchaseTyped
  <1> DEFINE next == [admiral EXCEPT !.demand = o.plan.demand]
             given == [s \in Ships |-> IF o.tasks[s] = NoTask THEN admiral.ship_tasks[s] ELSE o.tasks[s]]
  <1>6. next \in Admirals BY <1>2, <1>5 DEF Admirals, Plans
  <1>7. Knows(next, db) /\ next.all_ships = admiral.all_ships /\ next.ship_tasks = admiral.ship_tasks
    BY <1>2 DEF Knows, Admirals
  <1>8. tickets' \subseteq Tickets BY <1>4, <1>5 DEF Plans
  <1> HIDE DEF next
  <1>9. CASE HasBudgets(admiral)
    <2>1. /\ admiral' = [next EXCEPT !.ship_tasks = given] /\ Proceed /\ UNCHANGED <<stage, dead, reports>>
      BY <1>4, <1>7, <1>9 DEF WithTasks, next
    <2>2. given \in TaskMaps BY <1>2, <1>5 DEF Admirals, TaskMaps
    <2>3. \A s \in Ships : given[s] # NoTask => s \in admiral.all_ships BY <1>2, <1>5 DEF Knows
    <2> HIDE DEF given
    <2>4. admiral' \in Admirals BY <1>6, <2>1, <2>2 DEF Admirals
    <2>5. Knows(admiral', db) /\ admiral'.all_ships = admiral.all_ships
      BY <1>6, <1>7, <2>1, <2>3 DEF Knows, Admirals
    <2>6. FibersKnown' BY <1>1, <2>1, <2>5, FibersStay
    <2>7. UNCHANGED channels /\ ship_ops' = ship_ops BY <1>1, <2>1 DEF channels, fiber_vars
    <2>8. Head(todo) \notin Writes \cup {"Listen", "Register"} BY <1>1 DEF Writes
    <2> QED BY <1>1, <1>8, <2>1, <2>4, <2>5, <2>6, <2>7, <2>8, HandlerProceeds
  <1>10. CASE ~ HasBudgets(admiral)
    <2>1. PanicWith(next) BY <1>4, <1>10 DEF next
    <2>2. FibersKnown' BY <1>1, <1>6, <1>7, <2>1, PanicStays
    <2>3. ship_ops' = ship_ops BY <1>1 DEF fiber_vars
    <2> QED BY <1>1, <1>6, <1>7, <1>8, <2>1, <2>2, <2>3, HandlerPanics
  <1> QED BY <1>9, <1>10

LEMMA DismantleKeeps ==
  ASSUME IInv, Dismantle
  PROVE  IInv'
  <1>1. /\ todo # <<>> /\ Head(todo) = "Dismantle"
        /\ UNCHANGED <<fiber_vars, world, db, launching, sweep, actions, bounds>>
    BY DEF Dismantle, Does, step_else
  <1> DEFINE f == report.fleet
             next == Dismantled(report.fleet)
             left == [s \in Ships |-> IF s \in Crew(admiral, f) THEN NoFleet ELSE admiral.assignment[s]]
             rows == [admiral.fleet_tasks EXCEPT ![f] = "no_row"]
  <1>2. next = [admiral EXCEPT
               !.completed = IF admiral.fleet_tasks[f] = "task" THEN @ \cup {f} ELSE @,
               !.fleet_tasks = rows, !.assignment = left, !.fleets = @ \ {f}, !.budgets = @ \ {f}]
    BY DEF Dismantled
  <1>12. (admiral' = next /\ Proceed /\ UNCHANGED <<stage, dead, reports>>) \/ PanicWith(next) BY DEF Dismantle
  <1>3. admiral \in Admirals /\ Knows(admiral, db) /\ tickets \subseteq Tickets BY DEF IInv, AdmiralKnows, WorldTyped
  <1>4. f \in FleetTasks BY <1>1, HeadKind DEF DismantleOnly
  <1>5. left \in FleetMaps /\ \A s \in Ships : left[s] # NoFleet => s \in admiral.all_ships
    BY <1>3 DEF Admirals, FleetMaps, Knows
  <1>6. rows \in RowMaps /\ \A g \in FleetTasks : rows[g] # "no_row" <=> g \in admiral.fleets \ {f}
    BY <1>3, <1>4 DEF Admirals, RowMaps, Knows
  <1> HIDE DEF f, left, rows, next
  <1>7. next \in Admirals BY <1>2, <1>3, <1>4, <1>5, <1>6 DEF Admirals
  <1>8. Knows(next, db) /\ next.all_ships = admiral.all_ships
    BY <1>2, <1>3, <1>5, <1>6 DEF Knows, Admirals
  <1>10. UNCHANGED <<ship_ops, owned, explored, tickets>> BY <1>1 DEF fiber_vars, world
  <1>13. CASE admiral' = next /\ Proceed /\ UNCHANGED <<stage, dead, reports>>
    <2>1. FibersKnown' BY <1>1, <1>8, <1>13, FibersStay
    <2>2. UNCHANGED channels BY <1>1, <1>13 DEF channels
    <2>3. Head(todo) \notin Writes \cup {"Listen", "Register"} BY <1>1 DEF Writes
    <2> QED BY <1>1, <1>3, <1>7, <1>8, <1>10, <1>13, <2>1, <2>2, <2>3, HandlerProceeds
  <1>14. CASE PanicWith(next)
    <2>1. FibersKnown' BY <1>1, <1>7, <1>8, <1>14, PanicStays
    <2> QED BY <1>1, <1>3, <1>7, <1>8, <1>10, <1>14, <2>1, HandlerPanics
  <1> QED BY <1>12, <1>13, <1>14

LEMMA NewFleetsKeeps ==
  ASSUME IInv, NewFleets
  PROVE  IInv'
  <1>1. /\ todo # <<>> /\ Head(todo) = "NewFleets"
        /\ UNCHANGED <<fiber_vars, world, db, launching, sweep, actions, bounds>>
    BY DEF NewFleets, Does, step_else
  <1>2. admiral \in Admirals /\ Knows(admiral, db) /\ tickets \subseteq Tickets BY DEF IInv, AdmiralKnows, WorldTyped
  <1>3. UNCHANGED <<ship_ops, owned, explored, tickets>> BY <1>1 DEF fiber_vars, world
  <1> DEFINE phase == CurrentPhase(admiral.completed)
             fleets == admiral.fleets \cup Range(PhaseTasks(phase))
             list == NextShipPurchases(admiral.all_ships, phase)
  <1>4. CASE \A f \in admiral.fleets : admiral.fleet_tasks[f] = "task"
    <2>1. /\ admiral' = [admiral EXCEPT !.fleets = fleets, !.fleet_tasks = TaskRows(fleets), !.phase = phase, !.demand = list]
          /\ Proceed /\ UNCHANGED <<stage, dead, reports>>
      BY <1>4 DEF NewFleets
    <2> HIDE DEF phase
    <2>2. phase \in Phases BY PhaseTyped DEF phase
    <2>3. fleets \subseteq FleetTasks BY <1>2, <2>2, PhaseFleets DEF Admirals
    <2>4. list \in Seq(Items) BY <1>2, <2>2, PurchasesTyped DEF Admirals
    <2> HIDE DEF fleets, list
    <2>5. admiral' \in Admirals BY <1>2, <2>1, <2>2, <2>3, <2>4, EmptyMaps DEF Admirals
    <2>6. Knows(admiral', db) /\ admiral'.all_ships = admiral.all_ships
      BY <1>2, <2>1, EmptyMaps DEF Knows, Admirals
    <2>7. FibersKnown' BY <1>1, <2>1, <2>6, FibersStay
    <2>8. UNCHANGED channels BY <1>1, <2>1 DEF channels
    <2>9. Head(todo) \notin Writes \cup {"Listen", "Register"} BY <1>1 DEF Writes
    <2> QED BY <1>1, <1>2, <1>3, <2>1, <2>5, <2>6, <2>7, <2>8, <2>9, HandlerProceeds
  <1>5. CASE ~ \A f \in admiral.fleets : admiral.fleet_tasks[f] = "task"
    <2>1. PanicWith(admiral) BY <1>5 DEF NewFleets
    <2>2. FibersKnown' BY <1>1, <1>2, <2>1, PanicStays
    <2> QED BY <1>1, <1>2, <1>3, <2>1, <2>2, HandlerPanics
  <1> QED BY <1>4, <1>5

LEMMA OrderTyped ==
  ASSUME NEW fleets \in SUBSET FleetTasks, NEW order \in SetToSeqs(fleets)
  PROVE  order \in Seq(FleetTasks) /\ Range(order) \subseteq fleets
  <1> DEFINE n == Cardinality(fleets)
  <1>1. IsFiniteSet(FleetTasks)
    <2>1. \A S, x : IsFiniteSet(S) => IsFiniteSet(S \cup {x}) BY FS_AddElement
    <2>2. IsFiniteSet({}) BY FS_EmptySet
    <2>3. IsFiniteSet((((((({} \cup {"InitialExploration"}) \cup {"ObserveAllWaypoints"}) \cup {"ConstructJumpGate"})
                        \cup {"MineOres"}) \cup {"SiphonGases"}) \cup {"TradeProfitably"}))
      BY <2>1, <2>2
    <2>4. FleetTasks = (((((({} \cup {"InitialExploration"}) \cup {"ObserveAllWaypoints"}) \cup {"ConstructJumpGate"})
                        \cup {"MineOres"}) \cup {"SiphonGases"}) \cup {"TradeProfitably"}) BY DEF FleetTasks
    <2> QED BY <2>3, <2>4
  <1>2. n \in Nat BY <1>1, FS_Subset, FS_CardinalityType
  <1>3. order \in [1..n -> fleets] BY DEF SetToSeqs
  <1> HIDE DEF n
  <1>4. order \in Seq(fleets) BY <1>2, <1>3, SeqDef
  <1>5. order \in Seq(FleetTasks) BY <1>4, SeqMonotonic
  <1> QED BY <1>3, <1>5 DEF Range

LEMMA AssignShipsKeeps ==
  ASSUME IInv, AssignShips
  PROVE  IInv'
  <1>1. /\ todo # <<>> /\ Head(todo) = "AssignShips" /\ Proceed
        /\ UNCHANGED <<stage, dead, fiber_vars, reports, world, db, launching, sweep, actions, bounds>>
    BY DEF AssignShips, Does, step_else
  <1>2. admiral \in Admirals /\ Knows(admiral, db) /\ tickets \subseteq Tickets BY DEF IInv, AdmiralKnows, WorldTyped
  <1>3. UNCHANGED <<channels, ship_ops, owned, explored, tickets>> BY <1>1 DEF channels, fiber_vars, world
  <1>4. PICK order \in SetToSeqs(admiral.fleets) :
             \E sent \in ShipAssignments(order, admiral.all_ships, ShoppingList(admiral.phase)) :
                admiral' = [admiral EXCEPT !.assignment = sent, !.budgets = Budgeted(admiral.phase)]
    BY DEF AssignShips
  <1> DEFINE list == ShoppingList(admiral.phase)
             agent == admiral.all_ships
  <1>5. PICK sent \in ShipAssignments(order, agent, list) :
                admiral' = [admiral EXCEPT !.assignment = sent, !.budgets = Budgeted(admiral.phase)]
    BY <1>4
  <1>6. agent \in SUBSET Ships /\ admiral.fleets \in SUBSET FleetTasks /\ admiral.phase \in Phases BY <1>2 DEF Admirals
  <1>7. order \in Seq(FleetTasks) BY <1>6, OrderTyped
  <1> HIDE DEF list
  <1>8. sent \in FleetMaps /\ \A s \in Ships : sent[s] # NoFleet => s \in agent
    <2> HIDE DEF agent
    <2> QED BY <1>6, <1>7, AssignmentsTyped DEF FleetMaps
  <1>9. Budgeted(admiral.phase) \subseteq FleetTasks BY <1>6, PhaseFleets
  <1>10. admiral' \in Admirals BY <1>2, <1>5, <1>8, <1>9 DEF Admirals
  <1>11. Knows(admiral', db) /\ admiral'.all_ships = admiral.all_ships
    BY <1>2, <1>5, <1>8 DEF Knows, Admirals
  <1>12. FibersKnown' BY <1>1, <1>11, FibersStay
  <1>13. Head(todo) \notin Writes \cup {"Listen", "Register"} BY <1>1 DEF Writes
  <1> QED BY <1>1, <1>2, <1>3, <1>10, <1>11, <1>12, <1>13, HandlerProceeds

\* Steps between two entries of the agenda.
LEMMA WaitKeeps ==
  ASSUME IInv, FibersKnown',
         UNCHANGED <<world, db, stage, dead, under_lock, launching, ship_ops, sweep, channels, bounds>>
  PROVE  IInv'
  <1>1. tickets' \subseteq Tickets /\ UNCHANGED <<owned, explored>> BY DEF IInv, WorldTyped, world
  <1>2. WorldTyped' /\ BoundsTyped' /\ CopiesTyped' BY <1>1, RestTyped
  <1>3. ChannelsTyped' BY <1>1, SameChannels
  <1>4. db' \in Tables /\ admiral' \in Admirals /\ AdmiralKnows' /\ AgendaFits' /\ Placed' BY <1>1, LockFrame
  <1>5. ProcessTyped' BY DEF IInv, ProcessTyped
  <1> QED BY <1>2, <1>3, <1>4, <1>5 DEF IInv

LEMMA LaunchIdleKeeps ==
  ASSUME IInv, LaunchIdle
  PROVE  IInv'
  <1>1. /\ todo # <<>> /\ Head(todo) = "LaunchIdle"
        /\ UNCHANGED <<stage, dead, admiral, fiber_vars, reports, world, db, launching, sweep, actions, bounds>>
    BY DEF LaunchIdle, Does, step_else
  <1>2. admiral \in Admirals /\ Knows(admiral, db) /\ tickets \subseteq Tickets BY DEF IInv, AdmiralKnows, WorldTyped
  <1>3. UNCHANGED <<owned, explored, tickets, ship_ops, channels>> BY <1>1 DEF world, fiber_vars, channels
  <1>4. FibersKnown' BY <1>1, FibersStay
  <1>5. CASE Proceed
    <2>1. Head(todo) \notin Writes \cup {"Listen", "Register"} BY <1>1 DEF Writes
    <2> QED BY <1>1, <1>2, <1>3, <1>4, <1>5, <2>1, HandlerProceeds
  <1>6. CASE UNCHANGED <<todo, report>>
    <2>1. UNCHANGED under_lock BY <1>1, <1>6 DEF under_lock
    <2> QED BY <1>1, <1>3, <1>4, <2>1, WaitKeeps
  <1> QED BY <1>5, <1>6 DEF LaunchIdle

LEMMA RelaunchIdleKeeps ==
  ASSUME IInv, NEW s \in Ships, RelaunchIdle(s)
  PROVE  IInv'
  <1>1. /\ todo # <<>> /\ Head(todo) = "LaunchIdle"
        /\ UNCHANGED <<ship_ops, world, db, launching, sweep, actions, bounds>>
    BY DEF RelaunchIdle, Does, step_else
  <1>2. admiral \in Admirals /\ Knows(admiral, db) /\ tickets \subseteq Tickets BY DEF IInv, AdmiralKnows, WorldTyped
  <1>3. UNCHANGED <<owned, explored, tickets>> BY <1>1 DEF world
  <1>4. CASE admiral.assignment[s] = NoFleet
    <2>1. PanicWith(admiral) /\ fibers' = fibers BY <1>4 DEF RelaunchIdle
    <2>2. FibersKnown' BY <1>1, <1>2, <2>1, PanicStays DEF fiber_vars
    <2> QED BY <1>1, <1>2, <1>3, <2>1, <2>2, HandlerPanics
  <1>5. CASE admiral.assignment[s] # NoFleet
    <2>1. /\ fibers' = Relaunched(s, admiral.ship_tasks) /\ UNCHANGED <<stage, dead, admiral, reports>>
          /\ Proceed \/ UNCHANGED <<todo, report>>
      BY <1>5 DEF RelaunchIdle
    <2>2. fibers \in [Ships -> Seq(Fibers)] /\ admiral.ship_tasks \in TaskMaps BY <1>2 DEF IInv, FibersKnown, Admirals
    <2>3. /\ fibers' \in [Ships -> Seq(Fibers)]
          /\ \A r \in Ships : fibers'[r] # <<>> => fibers[r] # <<>> \/ r \in ship_ops
      BY <2>1, <2>2, LaunchedTyped
    <2>4. FibersKnown' BY <1>1, <2>1, <2>3 DEF IInv, FibersKnown
    <2>5. UNCHANGED channels BY <1>1, <2>1 DEF channels
    <2>6. CASE Proceed
      <3>1. Head(todo) \notin Writes \cup {"Listen", "Register"} BY <1>1 DEF Writes
      <3> QED BY <1>1, <1>2, <1>3, <2>1, <2>4, <2>5, <2>6, <3>1, HandlerProceeds
    <2>7. CASE UNCHANGED <<todo, report>>
      <3>1. UNCHANGED under_lock BY <2>1, <2>7 DEF under_lock
      <3> QED BY <1>1, <2>1, <2>4, <2>5, <3>1, WaitKeeps
    <2> QED BY <2>1, <2>6, <2>7
  <1> QED BY <1>4, <1>5

LEMMA AssignTaskKeeps ==
  ASSUME IInv, AssignTask
  PROVE  IInv'
  <1>1. /\ todo # <<>> /\ Head(todo) = "AssignTask"
        /\ UNCHANGED <<fiber_vars, world, db, launching, sweep, actions, bounds>>
    BY DEF AssignTask, Does, step_else
  <1>2. admiral \in Admirals /\ Knows(admiral, db) /\ tickets \subseteq Tickets BY DEF IInv, AdmiralKnows, WorldTyped
  <1>3. UNCHANGED <<owned, explored, tickets, ship_ops>> BY <1>1 DEF world, fiber_vars
  <1>4. report.task \in ShipTasks /\ report.ship \in ship_ops BY <1>1, HeadKind DEF TaskOnly
  <1>5. report.ship \in admiral.all_ships BY <1>4 DEF IInv, FibersKnown
  <1> DEFINE next == [admiral EXCEPT !.ship_tasks[report.ship] = report.task]
  <1>6. /\ next.ship_tasks \in TaskMaps /\ next = [admiral EXCEPT !.ship_tasks = next.ship_tasks]
        /\ \A s \in Ships : next.ship_tasks[s] # NoTask => s \in admiral.all_ships
    BY <1>2, <1>4, <1>5 DEF Admirals, TaskMaps, Knows
  <1>7. next \in Admirals BY <1>2, <1>6 DEF Admirals
  <1>8. Knows(next, db) /\ next.all_ships = admiral.all_ships BY <1>2, <1>6 DEF Knows, Admirals
  <1>9. CASE admiral.assignment[report.ship] # NoFleet
    <2>1. admiral' = next /\ Proceed /\ UNCHANGED <<stage, dead, reports>> BY <1>9 DEF AssignTask
    <2> HIDE DEF next
    <2>2. FibersKnown' BY <1>1, <1>8, <2>1, FibersStay
    <2>3. UNCHANGED channels BY <1>1, <2>1 DEF channels
    <2>4. Head(todo) \notin Writes \cup {"Listen", "Register"} BY <1>1 DEF Writes
    <2> QED BY <1>1, <1>2, <1>3, <1>7, <1>8, <2>1, <2>2, <2>3, <2>4, HandlerProceeds
  <1>10. CASE admiral.assignment[report.ship] = NoFleet
    <2>1. PanicWith(next) BY <1>10 DEF AssignTask
    <2> HIDE DEF next
    <2>2. FibersKnown' BY <1>1, <1>7, <1>8, <2>1, PanicStays
    <2> QED BY <1>1, <1>2, <1>3, <1>7, <1>8, <2>1, <2>2, HandlerPanics
  <1> QED BY <1>9, <1>10

LEMMA RelaunchKeeps ==
  ASSUME IInv, Relaunch
  PROVE  IInv'
  <1>1. /\ todo # <<>> /\ Head(todo) = "Relaunch" /\ Proceed /\ fibers' = Relaunched(report.ship, admiral.ship_tasks)
        /\ UNCHANGED <<stage, dead, admiral, ship_ops, reports, world, db, launching, sweep, actions, bounds>>
    BY DEF Relaunch, Does, step_else
  <1>2. admiral \in Admirals /\ Knows(admiral, db) /\ tickets \subseteq Tickets BY DEF IInv, AdmiralKnows, WorldTyped
  <1>3. UNCHANGED <<channels, owned, explored, tickets>> BY <1>1 DEF world, channels
  <1>4. report.ship \in ship_ops BY <1>1, HeadKind DEF TaskOnly
  <1>5. report.ship \in Ships BY <1>4, MessagesCredible
  <1>6. fibers \in [Ships -> Seq(Fibers)] /\ admiral.ship_tasks \in TaskMaps BY <1>2 DEF IInv, FibersKnown, Admirals
  <1>7. fibers' \in [Ships -> Seq(Fibers)] /\ \A r \in Ships : fibers'[r] # <<>> => fibers[r] # <<>> \/ r = report.ship
    BY <1>1, <1>5, <1>6, LaunchedTyped
  <1>8. FibersKnown' BY <1>1, <1>4, <1>7 DEF IInv, FibersKnown
  <1>9. Head(todo) \notin Writes \cup {"Listen", "Register"} BY <1>1 DEF Writes
  <1> QED BY <1>1, <1>2, <1>3, <1>8, <1>9, HandlerProceeds

LEMMA NewShip ==
  ASSUME IInv, todo # <<>>, Head(todo) \in {"Register", "LaunchNew"}
  PROVE  /\ report.type = "purchased" /\ stage = "running" /\ report.ship \in owned /\ report.ship \in Ships
         /\ report.fleet \in FleetTasks
         /\ Head(todo) = "Register" => report.ship \in db.ships
         /\ Head(todo) = "LaunchNew" => report.ship \in admiral.all_ships
  <1>1. /\ report.type = "purchased" /\ report \in Credible /\ stage = "running"
        /\ todo \in Seq(Steps) /\ Agenda(todo, report.type)
    BY HeadKind, ReportKinds
  <1>2. report.ship \in owned /\ report.ship \in Ships /\ report.fleet \in FleetTasks
    BY <1>1 DEF Credible, Messages
  <1>3. /\ \A x : In(todo, x) <=> x = Head(todo) \/ In(Tail(todo), x)
        /\ ~ In(Tail(todo), "StoreShips")
        /\ Head(todo) = "LaunchNew" => \A x : ~ In(Tail(todo), x)
    BY <1>1, AgendaStep
  <1>4. Head(todo) = "Register" => report.ship \in db.ships
    <2>1. Head(todo) = "Register" => ~ In(todo, "StoreShips") BY <1>3
    <2> QED BY <1>1, <2>1 DEF IInv, AgendaFits
  <1>5. Head(todo) = "LaunchNew" => report.ship \in admiral.all_ships
    <2>1. Head(todo) = "LaunchNew" => ~ In(todo, "Register") BY <1>3
    <2> QED BY <1>1, <2>1 DEF IInv, AgendaFits
  <1> QED BY <1>1, <1>2, <1>4, <1>5

LEMMA RegisterKeeps ==
  ASSUME IInv, Register
  PROVE  IInv'
  <1>1. /\ todo # <<>> /\ Head(todo) = "Register"
        /\ (Proceed /\ stage' = stage) \/ GiveUp
        /\ UNCHANGED <<dead, fiber_vars, reports, world, db, launching, sweep, actions, bounds>>
    BY DEF Register, Does, step_else
  <1>2. admiral \in Admirals /\ Knows(admiral, db) /\ tickets \subseteq Tickets /\ db \in Tables /\ ForeignKeys(db)
    BY DEF IInv, AdmiralKnows, WorldTyped, Placed
  <1>3. UNCHANGED <<channels, owned, explored, tickets, ship_ops>> BY <1>1 DEF world, channels, fiber_vars
  <1>4. /\ report.type = "purchased" /\ stage = "running" /\ report.ship \in Ships
        /\ report.fleet \in FleetTasks /\ report.ship \in db.ships
    BY <1>1, NewShip
  <1> DEFINE sent == [admiral.assignment EXCEPT ![report.ship] = report.fleet]
  <1>5. admiral' = [admiral EXCEPT !.all_ships = @ \cup {report.ship}, !.assignment = sent] BY DEF Register
  <1>6. sent \in FleetMaps /\ \A s \in Ships : sent[s] # NoFleet => s \in admiral.all_ships \cup {report.ship}
    BY <1>2, <1>4 DEF Admirals, FleetMaps, Knows
  <1> HIDE DEF sent
  <1>7. admiral' \in Admirals /\ admiral'.all_ships = admiral.all_ships \cup {report.ship}
    BY <1>2, <1>4, <1>5, <1>6 DEF Admirals
  <1>8. Knows(admiral', db) BY <1>2, <1>4, <1>5, <1>6 DEF Knows, Admirals
  <1>9. CASE Proceed /\ stage' = stage
    <2>1. FibersKnown' BY <1>1, <1>7, <1>9, FibersStay
    <2>2. Head(todo) \notin Writes \cup {"Listen"} BY <1>1 DEF Writes
    <2> QED BY <1>1, <1>2, <1>3, <1>7, <1>8, <1>9, <2>1, <2>2, HandlerProceeds
  <1>10. CASE GiveUp
    <2>1. AgendaFits' /\ Placed' /\ stage' \in {"down", "starting", "running"} /\ (stage' = "running" <=> stage = "running")
      BY <1>1, <1>2, <1>10, GivenUp
    <2>2. FibersKnown' BY <1>1, <1>7, <2>1, FibersStay
    <2>3. ChannelsTyped' BY <1>3, SameChannels
    <2>4. WorldTyped' /\ BoundsTyped' /\ CopiesTyped' BY <1>1, <1>2, <1>3, RestTyped
    <2>5. ProcessTyped' BY <1>1, <2>1 DEF IInv, ProcessTyped
    <2>6. AdmiralKnows' BY <1>1, <1>8 DEF AdmiralKnows
    <2> QED BY <1>1, <1>2, <1>7, <2>1, <2>2, <2>3, <2>4, <2>5, <2>6 DEF IInv
  <1> QED BY <1>1, <1>9, <1>10

LEMMA LaunchNewKeeps ==
  ASSUME IInv, LaunchNew
  PROVE  IInv'
  <1>1. /\ todo # <<>> /\ Head(todo) = "LaunchNew" /\ Proceed
        /\ ship_ops' = ship_ops \cup {report.ship} /\ fibers' = Launched(report.ship, admiral.ship_tasks)
        /\ UNCHANGED <<stage, dead, admiral, reports, world, db, launching, sweep, actions, bounds>>
    BY DEF LaunchNew, Does, step_else
  <1>2. admiral \in Admirals /\ Knows(admiral, db) /\ tickets \subseteq Tickets BY DEF IInv, AdmiralKnows, WorldTyped
  <1>3. UNCHANGED <<channels, owned, explored, tickets>> BY <1>1 DEF world, channels
  <1>4. stage = "running" /\ report.ship \in Ships /\ report.ship \in admiral.all_ships BY <1>1, NewShip
  <1>5. fibers \in [Ships -> Seq(Fibers)] /\ admiral.ship_tasks \in TaskMaps BY <1>2 DEF IInv, FibersKnown, Admirals
  <1>6. fibers' \in [Ships -> Seq(Fibers)] /\ \A r \in Ships : fibers'[r] # <<>> => fibers[r] # <<>> \/ r = report.ship
    BY <1>1, <1>4, <1>5, LaunchedTyped
  <1>7. FibersKnown' BY <1>1, <1>4, <1>6 DEF IInv, FibersKnown
  <1>8. Head(todo) \notin Writes \cup {"Listen", "Register"} BY <1>1 DEF Writes
  <1>9. ship_ops \subseteq ship_ops' BY <1>1
  <1> QED BY <1>1, <1>2, <1>3, <1>7, <1>8, <1>9, HandlerProceeds

-----------------------------------------------------------------------------
(* Reports. *)

LEMMA Handled ==
  ASSUME IInv, stage = "running", stage' = stage, reports # <<>>, NEW msg \in Credible, NEW steps \in Seq(Steps),
         Handle(msg, steps), UNCHANGED <<db, owned, ship_ops, actions>>,
         steps # <<>> => /\ Agenda(steps, msg.type)
                         /\ Head(steps) \in {"SaveShipTasks", "SaveCompleted", "StoreShips"}
                         /\ \A x \in DismantleOnly : In(steps, x) => msg.fleet \in FleetTasks
                         /\ msg.type = "purchased" => In(steps, "StoreShips") /\ In(steps, "Register")
  PROVE  AgendaFits' /\ Placed' /\ ChannelsTyped'
  <1>1. todo' = steps /\ report' = (IF steps = <<>> THEN NoReport ELSE msg) /\ reports' = Tail(reports) BY DEF Handle
  <1>2. ForeignKeys(db') BY DEF IInv, Placed
  <1>3. Credible' = Credible BY DEF Credible
  <1>4. ChannelsTyped'
    <2>1. /\ actions \in Seq(Credible) /\ reports \in Seq(Credible)
          /\ Len(actions) <= Capacity /\ Len(reports) <= Capacity BY DEF IInv, ChannelsTyped
    <2>2. Tail(reports) \in Seq(Credible) /\ Len(Tail(reports)) = Len(reports) - 1
      <3> HIDE DEF Credible
      <3> QED BY <2>1, HeadTailProperties
    <2>3. Len(reports) \in Nat /\ Capacity \in Nat BY <2>1, RunnerAssumption
    <2>4. Len(reports') <= Capacity BY <1>1, <2>1, <2>2, <2>3
    <2> QED BY <1>1, <1>3, <2>1, <2>2, <2>4 DEF ChannelsTyped
  <1>5. CASE steps = <<>>
    <2>1. AgendaFits' BY <1>1, <1>5, FreeAgenda
    <2>2. Placed' BY <1>1, <1>2, <1>5, FreePlaced
    <2> QED BY <1>4, <2>1, <2>2
  <1>6. CASE steps # <<>>
    <2>1. msg \in Messages /\ msg.type \in {"finished", "collected", "purchased"} /\ msg # Starting /\ msg # NoReport
      BY ReportKinds DEF Credible
    <2>2. AgendaFits' BY <1>1, <1>3, <1>6, <2>1 DEF AgendaFits
    <2>3. Placed' BY <1>1, <1>2, <1>6 DEF Placed, ForeignKeys
    <2> QED BY <1>4, <2>2, <2>3
  <1> QED BY <1>5, <1>6

LEMMA HeadCredible ==
  ASSUME IInv, NEW type, Takes(type)
  PROVE  /\ Head(reports) \in Credible /\ Head(reports).type = type /\ stage = "running" /\ reports # <<>>
         /\ Head(reports).ship \in Ships
         /\ todo = <<>>
  <1>1. reports \in Seq(Credible) /\ reports # <<>> /\ Head(reports).type = type /\ stage = "running" /\ todo = <<>>
    BY DEF IInv, ChannelsTyped, Takes, Free
  <1>2. Head(reports) \in Credible
    <2> HIDE DEF Credible
    <2> QED BY <1>1, HeadTailProperties
  <1> QED BY <1>1, <1>2 DEF Credible, Messages

-----------------------------------------------------------------------------
(* Reports that are taken. *)

LEMMA PlanHeads ==
  /\ DismantleSteps # <<>> /\ Head(DismantleSteps) = "SaveShipTasks"
  /\ NewTaskSteps # <<>> /\ Head(NewTaskSteps) = "SaveShipTasks" /\ \A x \in DismantleOnly : ~ In(NewTaskSteps, x)
  /\ NewShipSteps # <<>> /\ Head(NewShipSteps) = "StoreShips" /\ \A x \in DismantleOnly : ~ In(NewShipSteps, x)
  /\ In(NewShipSteps, "StoreShips") /\ In(NewShipSteps, "Register")
  /\ \A x \in DismantleOnly : ~ In(<<"SaveCompleted">>, x) /\ ~ In(<<"SaveShipTasks">>, x)
  <1>1. Len(DismantleSteps) = 13 /\ DismantleSteps[1] = "SaveShipTasks" BY DismantlePlan
  <1>2. DismantleSteps # <<>> /\ Head(DismantleSteps) = "SaveShipTasks" BY <1>1, ReportPlans
  <1>3. Len(NewTaskSteps) = 7 /\ NewTaskSteps[1] = "SaveShipTasks"
        /\ \A i \in DOMAIN NewTaskSteps : NewTaskSteps[i] \notin DismantleOnly BY NewTaskPlan DEF DismantleOnly
  <1>4. NewTaskSteps # <<>> /\ Head(NewTaskSteps) = "SaveShipTasks" BY <1>3, ReportPlans
  <1>5. Len(NewShipSteps) = 8 /\ NewShipSteps[1] = "StoreShips" /\ NewShipSteps[2] = "Register"
        /\ \A i \in DOMAIN NewShipSteps : NewShipSteps[i] \notin DismantleOnly BY NewShipPlan DEF DismantleOnly
  <1>6. NewShipSteps # <<>> /\ Head(NewShipSteps) = "StoreShips" BY <1>5, ReportPlans
  <1>7. 1 \in DOMAIN NewShipSteps /\ 2 \in DOMAIN NewShipSteps BY <1>5, ReportPlans
  <1>8. \A x \in DismantleOnly : ~ In(<<"SaveCompleted">>, x) /\ ~ In(<<"SaveShipTasks">>, x) BY DEF In, DismantleOnly
  <1>9. \A x \in DismantleOnly : ~ In(NewTaskSteps, x) /\ ~ In(NewShipSteps, x) BY <1>3, <1>5 DEF In
  <1>10. In(NewShipSteps, "StoreShips") /\ In(NewShipSteps, "Register") BY <1>5, <1>7 DEF In
  <1> QED BY <1>2, <1>4, <1>6, <1>8, <1>9, <1>10

LEMMA TakerRest ==
  ASSUME IInv, UNCHANGED taker_else, tickets' \subseteq Tickets
  PROVE  /\ WorldTyped' /\ BoundsTyped' /\ CopiesTyped' /\ db' \in Tables
         /\ UNCHANGED <<db, owned, ship_ops, actions, launching, fiber_vars, explored, sweep, bounds>>
  <1>1. UNCHANGED <<db, owned, ship_ops, actions, launching, fiber_vars, explored, sweep, bounds>>
    BY DEF taker_else, fiber_vars
  <1>2. WorldTyped' /\ BoundsTyped' /\ CopiesTyped' BY <1>1, RestTyped
  <1> QED BY <1>1, <1>2 DEF IInv

LEMMA TakeCollectedKeeps ==
  ASSUME IInv, TakeCollected
  PROVE  IInv'
  <1> DEFINE msg == Head(reports)
  <1>1. Takes("collected") /\ UNCHANGED <<tickets, stage, dead, taker_else>> BY DEF TakeCollected
  <1>2. admiral \in Admirals /\ Knows(admiral, db) /\ tickets \subseteq Tickets BY DEF IInv, AdmiralKnows, WorldTyped
  <1>3. msg \in Credible /\ msg.type = "collected" /\ stage = "running" /\ reports # <<>> BY <1>1, HeadCredible
  <1>4. /\ WorldTyped' /\ BoundsTyped' /\ CopiesTyped' /\ db' \in Tables
        /\ UNCHANGED <<db, owned, ship_ops, actions, launching, fiber_vars, explored, sweep, bounds>>
    BY <1>1, <1>2, TakerRest
  <1>5. PICK steps \in {<<"SaveCompleted">>, <<"SaveShipTasks">>, <<>>} : Handle(msg, steps) BY DEF TakeCollected
  <1>6. admiral' \in Admirals /\ Knows(admiral', db) /\ admiral'.all_ships = admiral.all_ships
    <2> DEFINE rows == [admiral.fleet_tasks EXCEPT !["InitialExploration"] = "empty"]
    <2>1. CASE admiral' = admiral BY <1>2, <2>1
    <2>2. CASE /\ "InitialExploration" \in admiral.fleets
               /\ admiral' = [admiral EXCEPT !.fleet_tasks = rows, !.completed = @ \cup {"InitialExploration"}]
      <3>1. "InitialExploration" \in FleetTasks BY DEF FleetTasks
      <3>2. rows \in RowMaps /\ \A f \in FleetTasks : rows[f] # "no_row" <=> f \in admiral.fleets
        BY <1>2, <2>2, <3>1 DEF Admirals, RowMaps, Knows
      <3> HIDE DEF rows
      <3>3. admiral' \in Admirals /\ admiral'.all_ships = admiral.all_ships BY <1>2, <2>2, <3>1, <3>2 DEF Admirals
      <3>4. Knows(admiral', db) BY <1>2, <2>2, <3>2 DEF Knows, Admirals
      <3> QED BY <3>3, <3>4
    <2> HIDE DEF rows
    <2>3. \/ admiral' = admiral
          \/ /\ "InitialExploration" \in admiral.fleets
             /\ admiral' = [admiral EXCEPT !.fleet_tasks = rows, !.completed = @ \cup {"InitialExploration"}]
      BY DEF TakeCollected, rows
    <2> QED BY <2>1, <2>2, <2>3
  <1> HIDE DEF msg
  <1>7. /\ steps \in Seq(Steps)
        /\ steps # <<>> => /\ Agenda(steps, msg.type)
                           /\ Head(steps) \in {"SaveShipTasks", "SaveCompleted", "StoreShips"}
                           /\ \A x \in DismantleOnly : In(steps, x) => msg.fleet \in FleetTasks
                           /\ msg.type = "purchased" => In(steps, "StoreShips") /\ In(steps, "Register")
    <2>1. <<>> \in Seq(Steps) BY EmptySeq
    <2>2. Head(<<"SaveCompleted">>) = "SaveCompleted" /\ Head(<<"SaveShipTasks">>) = "SaveShipTasks" OBVIOUS
    <2>3. msg.type # "purchased" BY <1>3
    <2>4. CASE steps = <<>> BY <2>1, <2>4
    <2>5. CASE steps = <<"SaveCompleted">> BY <1>3, <2>2, <2>3, <2>5, PlanHeads, ReportPlans
    <2>6. CASE steps = <<"SaveShipTasks">> BY <1>3, <2>2, <2>3, <2>6, PlanHeads, ReportPlans
    <2> QED BY <2>4, <2>5, <2>6
  <1>8. AgendaFits' /\ Placed' /\ ChannelsTyped'
    <2>1. UNCHANGED <<db, owned, ship_ops, actions>> /\ stage' = stage BY <1>1, <1>4
    <2> HIDE DEF Credible
    <2> QED BY <1>3, <1>5, <1>7, <2>1, Handled DEF msg
  <1>9. FibersKnown' BY <1>1, <1>4, <1>6, FibersStay
  <1>10. ProcessTyped' /\ AdmiralKnows' BY <1>1, <1>4, <1>6 DEF IInv, ProcessTyped, AdmiralKnows
  <1> QED BY <1>4, <1>6, <1>8, <1>9, <1>10 DEF IInv

LEMMA WithoutTyped ==
  ASSUME IInv, NEW s \in Ships
  PROVE  WithoutTask(s) \in Admirals /\ Knows(WithoutTask(s), db) /\ WithoutTask(s).all_ships = admiral.all_ships
  <1>1. admiral \in Admirals /\ Knows(admiral, db) BY DEF IInv, AdmiralKnows
  <1> DEFINE m == [admiral.ship_tasks EXCEPT ![s] = NoTask]
  <1>2. m \in TaskMaps /\ \A r \in Ships : m[r] # NoTask => r \in admiral.all_ships
    BY <1>1 DEF Admirals, TaskMaps, Knows
  <1>3. WithoutTask(s) = [admiral EXCEPT !.ship_tasks = m] BY DEF WithoutTask
  <1> HIDE DEF m
  <1>4. WithoutTask(s) \in Admirals /\ WithoutTask(s).all_ships = admiral.all_ships BY <1>1, <1>2, <1>3 DEF Admirals
  <1>5. Knows(WithoutTask(s), db) BY <1>1, <1>2, <1>3 DEF Knows, Admirals
  <1> QED BY <1>4, <1>5

LEMMA TakeExploredKeeps ==
  ASSUME IInv, TakeExplored
  PROVE  IInv'
  <1> DEFINE msg == Head(reports)
             fleet == admiral.assignment[msg.ship]
             told == [msg EXCEPT !.fleet = fleet]
  <1>1. Takes("finished") /\ UNCHANGED <<tickets, taker_else>> BY DEF TakeExplored
  <1>2. admiral \in Admirals /\ tickets \subseteq Tickets BY DEF IInv, WorldTyped
  <1>3. msg \in Credible /\ msg.type = "finished" /\ stage = "running" /\ reports # <<>> /\ msg.ship \in Ships
    BY <1>1, HeadCredible
  <1>4. /\ WorldTyped' /\ BoundsTyped' /\ CopiesTyped' /\ db' \in Tables
        /\ UNCHANGED <<db, owned, ship_ops, actions, launching, fiber_vars, explored, sweep, bounds>>
    BY <1>1, <1>2, TakerRest
  <1>5. WithoutTask(msg.ship) \in Admirals /\ Knows(WithoutTask(msg.ship), db)
        /\ WithoutTask(msg.ship).all_ships = admiral.all_ships
    BY <1>3, WithoutTyped
  <1>6. CASE fleet # NoFleet
    <2>1. admiral' = WithoutTask(msg.ship) /\ Handle(told, DismantleSteps) /\ UNCHANGED <<stage, dead>>
      BY <1>6 DEF TakeExplored
    <2>2. fleet \in FleetTasks BY <1>2, <1>3, <1>6 DEF Admirals, FleetMaps
    <2>3. told \in Credible /\ told.type = "finished" /\ told.fleet = fleet
      BY <1>3, <2>2 DEF Credible, Messages
    <2> HIDE DEF told, fleet, msg
    <2>4. AgendaFits' /\ Placed' /\ ChannelsTyped'
      <3>1. UNCHANGED <<db, owned, ship_ops, actions>> /\ stage' = stage BY <1>4, <2>1
      <3>2. DismantleSteps \in Seq(Steps) /\ Agenda(DismantleSteps, told.type)
            /\ Head(DismantleSteps) \in {"SaveShipTasks", "SaveCompleted", "StoreShips"}
            /\ told.fleet \in FleetTasks /\ told.type # "purchased"
        BY <2>2, <2>3, PlanHeads, ReportPlans
      <3> HIDE DEF Credible
      <3> QED BY <1>3, <2>1, <2>3, <3>1, <3>2, Handled
    <2>5. FibersKnown' BY <1>4, <1>5, <2>1, FibersStay
    <2>6. ProcessTyped' /\ AdmiralKnows' BY <1>4, <1>5, <2>1 DEF IInv, ProcessTyped, AdmiralKnows
    <2> QED BY <1>4, <1>5, <2>1, <2>4, <2>5, <2>6 DEF IInv
  <1>7. CASE fleet = NoFleet
    <2>1. PanicWith(WithoutTask(msg.ship)) BY <1>7 DEF TakeExplored
    <2> HIDE DEF told, fleet, msg
    <2>2. FibersKnown' BY <1>4, <1>5, <2>1, PanicStays
    <2>3. tickets' \subseteq Tickets BY <1>1, <1>2
    <2> QED BY <1>4, <1>5, <2>1, <2>2, <2>3, HandlerPanics
  <1> QED BY <1>6, <1>7

LEMMA TakeTradedKeeps ==
  ASSUME IInv, TakeTraded
  PROVE  IInv'
  <1> DEFINE msg == Head(reports)
             a == WithoutTask(msg.ship)
             plan == [demand |-> a.demand, tickets |-> tickets]
  <1>1. Takes("finished") /\ UNCHANGED taker_else BY DEF TakeTraded
  <1>2. admiral \in Admirals /\ tickets \subseteq Tickets BY DEF IInv, WorldTyped
  <1>3. msg \in Credible /\ msg.type = "finished" /\ stage = "running" /\ reports # <<>> /\ msg.ship \in Ships
    BY <1>1, HeadCredible
  <1>4. a \in Admirals /\ Knows(a, db) /\ a.all_ships = admiral.all_ships BY <1>3, WithoutTyped
  <1>5. plan \in Plans BY <1>2, <1>4 DEF Plans, Admirals
  <1>6. PICK p \in PurchaseOutcomes(a, plan) : \E o \in ComputeOutcomes(a, p) :
          /\ tickets' = o.plan.tickets
          /\ IF HasBudgets(a)
             THEN /\ admiral' = [a EXCEPT !.demand = o.plan.demand]
                  /\ Handle([msg EXCEPT !.task = o.tasks[msg.ship]],
                            IF o.tasks[msg.ship] = NoTask THEN <<>> ELSE NewTaskSteps)
                  /\ UNCHANGED <<stage, dead>>
             ELSE PanicWith([a EXCEPT !.demand = o.plan.demand])
    BY DEF TakeTraded
  <1>7. PICK o \in ComputeOutcomes(a, p) :
          /\ tickets' = o.plan.tickets
          /\ IF HasBudgets(a)
             THEN /\ admiral' = [a EXCEPT !.demand = o.plan.demand]
                  /\ Handle([msg EXCEPT !.task = o.tasks[msg.ship]],
                            IF o.tasks[msg.ship] = NoTask THEN <<>> ELSE NewTaskSteps)
                  /\ UNCHANGED <<stage, dead>>
             ELSE PanicWith([a EXCEPT !.demand = o.plan.demand])
    BY <1>6
  <1> HIDE DEF msg, a, plan
  <1>8. p \in Plans BY <1>4, <1>5, PurchaseTyped
  <1>9. o.plan \in Plans /\ o.tasks \in TaskMaps BY <1>4, <1>8, OutcomesTyped, PurchaseTyped
  <1>10. tickets' \subseteq Tickets BY <1>7, <1>9 DEF Plans
  <1>11. /\ WorldTyped' /\ BoundsTyped' /\ CopiesTyped' /\ db' \in Tables
         /\ UNCHANGED <<db, owned, ship_ops, actions, launching, fiber_vars, explored, sweep, bounds>>
    BY <1>1, <1>10, TakerRest
  <1> DEFINE next == [a EXCEPT !.demand = o.plan.demand]
             told == [msg EXCEPT !.task = o.tasks[msg.ship]]
             steps == IF o.tasks[msg.ship] = NoTask THEN <<>> ELSE NewTaskSteps
  <1>12. next \in Admirals /\ Knows(next, db) /\ next.all_ships = admiral.all_ships
    BY <1>4, <1>9 DEF Admirals, Plans, Knows
  <1>13. CASE HasBudgets(a)
    <2>1. admiral' = next /\ Handle(told, steps) /\ UNCHANGED <<stage, dead>> BY <1>7, <1>13
    <2>2. CASE steps # <<>>
      <3>1. o.tasks[msg.ship] \in ShipTasks /\ steps = NewTaskSteps BY <1>3, <1>9, <2>2 DEF TaskMaps
      <3>2. told \in Credible /\ told.type = "finished" BY <1>3, <3>1 DEF Credible, Messages
      <3> HIDE DEF told, steps
      <3>3. UNCHANGED <<db, owned, ship_ops, actions>> /\ stage' = stage BY <1>11, <2>1
      <3>4. steps \in Seq(Steps) /\ Agenda(steps, told.type)
            /\ Head(steps) \in {"SaveShipTasks", "SaveCompleted", "StoreShips"}
            /\ (\A x \in DismantleOnly : ~ In(steps, x)) /\ told.type # "purchased"
        BY <3>1, <3>2, PlanHeads, ReportPlans
      <3>5. AgendaFits' /\ Placed' /\ ChannelsTyped'
        <4> HIDE DEF Credible
        <4> QED BY <1>3, <2>1, <3>2, <3>3, <3>4, Handled
      <3>6. FibersKnown' BY <1>11, <1>12, <2>1, FibersStay
      <3>7. ProcessTyped' /\ AdmiralKnows' BY <1>11, <1>12, <2>1 DEF IInv, ProcessTyped, AdmiralKnows
      <3> QED BY <1>11, <1>12, <2>1, <3>5, <3>6, <3>7 DEF IInv
    <2>3. CASE steps = <<>>
      <3>1. Handle(msg, <<>>) BY <2>1, <2>3 DEF Handle
      <3> HIDE DEF told, steps
      <3>2. UNCHANGED <<db, owned, ship_ops, actions>> /\ stage' = stage BY <1>11, <2>1
      <3>3. <<>> \in Seq(Steps) BY EmptySeq
      <3>4. AgendaFits' /\ Placed' /\ ChannelsTyped'
        <4> HIDE DEF Credible
        <4> QED BY <1>3, <3>1, <3>2, <3>3, Handled
      <3>5. FibersKnown' BY <1>11, <1>12, <2>1, FibersStay
      <3>6. ProcessTyped' /\ AdmiralKnows' BY <1>11, <1>12, <2>1 DEF IInv, ProcessTyped, AdmiralKnows
      <3> QED BY <1>11, <1>12, <2>1, <3>4, <3>5, <3>6 DEF IInv
    <2> QED BY <2>2, <2>3
  <1>14. CASE ~ HasBudgets(a)
    <2>1. PanicWith(next) BY <1>7, <1>14
    <2> HIDE DEF next
    <2>2. FibersKnown' BY <1>11, <1>12, <2>1, PanicStays
    <2> QED BY <1>10, <1>11, <1>12, <2>1, <2>2, HandlerPanics
  <1> QED BY <1>13, <1>14

LEMMA TakeMinedKeeps ==
  ASSUME IInv, TakeMined
  PROVE  IInv'
  <1> DEFINE msg == Head(reports)
  <1>1. Takes("finished") /\ UNCHANGED <<tickets, stage, dead, taker_else>> /\ admiral' = WithoutTask(msg.ship)
        /\ Handle(msg, NewTaskSteps)
    BY DEF TakeMined
  <1>2. tickets \subseteq Tickets BY DEF IInv, WorldTyped
  <1>3. msg \in Credible /\ msg.type = "finished" /\ stage = "running" /\ reports # <<>> /\ msg.ship \in Ships
    BY <1>1, HeadCredible
  <1>4. /\ WorldTyped' /\ BoundsTyped' /\ CopiesTyped' /\ db' \in Tables
        /\ UNCHANGED <<db, owned, ship_ops, actions, launching, fiber_vars, explored, sweep, bounds>>
    BY <1>1, <1>2, TakerRest
  <1>5. WithoutTask(msg.ship) \in Admirals /\ Knows(WithoutTask(msg.ship), db)
        /\ WithoutTask(msg.ship).all_ships = admiral.all_ships
    BY <1>3, WithoutTyped
  <1> HIDE DEF msg
  <1>6. AgendaFits' /\ Placed' /\ ChannelsTyped'
    <2>1. UNCHANGED <<db, owned, ship_ops, actions>> /\ stage' = stage BY <1>1, <1>4
    <2>2. NewTaskSteps \in Seq(Steps) /\ Agenda(NewTaskSteps, msg.type)
          /\ Head(NewTaskSteps) \in {"SaveShipTasks", "SaveCompleted", "StoreShips"}
          /\ (\A x \in DismantleOnly : ~ In(NewTaskSteps, x)) /\ msg.type # "purchased"
      BY <1>3, PlanHeads, ReportPlans
    <2> HIDE DEF Credible
    <2> QED BY <1>1, <1>3, <2>1, <2>2, Handled
  <1>7. FibersKnown' BY <1>1, <1>4, <1>5, FibersStay
  <1>8. ProcessTyped' /\ AdmiralKnows' BY <1>1, <1>4, <1>5 DEF IInv, ProcessTyped, AdmiralKnows
  <1> QED BY <1>1, <1>4, <1>5, <1>6, <1>7, <1>8 DEF IInv

LEMMA TakePurchasedKeeps ==
  ASSUME IInv, TakePurchased
  PROVE  IInv'
  <1> DEFINE msg == Head(reports)
  <1>1. Takes("purchased") /\ UNCHANGED <<tickets, admiral, stage, dead, taker_else>> /\ Handle(msg, NewShipSteps)
    BY DEF TakePurchased
  <1>2. admiral \in Admirals /\ Knows(admiral, db) /\ tickets \subseteq Tickets BY DEF IInv, AdmiralKnows, WorldTyped
  <1>3. msg \in Credible /\ msg.type = "purchased" /\ stage = "running" /\ reports # <<>> BY <1>1, HeadCredible
  <1>4. /\ WorldTyped' /\ BoundsTyped' /\ CopiesTyped' /\ db' \in Tables
        /\ UNCHANGED <<db, owned, ship_ops, actions, launching, fiber_vars, explored, sweep, bounds>>
    BY <1>1, <1>2, TakerRest
  <1> HIDE DEF msg
  <1>5. AgendaFits' /\ Placed' /\ ChannelsTyped'
    <2>1. UNCHANGED <<db, owned, ship_ops, actions>> /\ stage' = stage BY <1>1, <1>4
    <2>2. NewShipSteps \in Seq(Steps) /\ Agenda(NewShipSteps, msg.type)
          /\ Head(NewShipSteps) \in {"SaveShipTasks", "SaveCompleted", "StoreShips"}
          /\ (\A x \in DismantleOnly : ~ In(NewShipSteps, x))
          /\ In(NewShipSteps, "StoreShips") /\ In(NewShipSteps, "Register")
      BY <1>3, PlanHeads, ReportPlans
    <2> HIDE DEF Credible
    <2> QED BY <1>1, <1>3, <2>1, <2>2, Handled
  <1>6. FibersKnown' BY <1>1, <1>4, FibersStay
  <1>7. ProcessTyped' /\ AdmiralKnows' BY <1>1, <1>2, <1>4 DEF IInv, ProcessTyped, AdmiralKnows
  <1> QED BY <1>1, <1>2, <1>4, <1>5, <1>6, <1>7 DEF IInv

-----------------------------------------------------------------------------
(* The invariant holds. *)

LEMMA NoDbFits == ForeignKeys(NoDbRows) /\ NoDbRows \in Tables /\ \A d \in Tables : Knows(NoAdmiral, d)
  BY EmptyMaps, EmptyStates, NobodyKnows DEF NoDbRows, ForeignKeys

LEMMA ConstructionFits ==
  ASSUME NEW d \in ConstructionRows
  PROVE  d \in Tables /\ ForeignKeys(d)
  <1> DEFINE fleets == PhaseTasks("ConstructJumpGate")
  <1>1. "ConstructJumpGate" \in Phases BY DEF Phases
  <1>2. fleets \in Seq(FleetTasks) /\ Range(fleets) \subseteq FleetTasks BY <1>1, PhaseFleets
  <1>3. InitialShips \in SUBSET Ships BY RunnerAssumption
  <1>4. PICK sent \in ShipAssignments(fleets, InitialShips, ShoppingList("ConstructJumpGate")) :
           d = [ships |-> InitialShips, fleets |-> Range(fleets), fleet_tasks |-> TaskRows(Range(fleets)),
                assignment |-> sent, ship_tasks |-> NoTasks, completed |-> {"InitialExploration"}]
    BY DEF ConstructionRows
  <1> HIDE DEF fleets
  <1>5. /\ sent \in [Ships -> FleetTasks \cup {NoFleet}]
        /\ \A s \in Ships : sent[s] # NoFleet => s \in InitialShips /\ sent[s] \in Range(fleets)
    BY <1>2, <1>3, <1>4, AssignmentsTyped
  <1>6. {"InitialExploration"} \subseteq FleetTasks BY DEF FleetTasks
  <1>7. d \in Tables BY <1>2, <1>3, <1>4, <1>5, <1>6, EmptyMaps DEF Tables, FleetMaps
  <1>8. ForeignKeys(d) BY <1>4, <1>5, EmptyMaps DEF ForeignKeys
  <1> QED BY <1>7, <1>8

LEMMA InitInv ==
  ASSUME Init
  PROVE  IInv
  <1>1. /\ owned = InitialShips /\ tickets = {} /\ explored = Stopped
        /\ stage = "down" /\ dead = {}
        /\ admiral = NoAdmiral /\ todo = <<>> /\ report = NoReport
        /\ launching = NoLaunch /\ ship_ops = {} /\ fibers = [s \in Ships |-> <<>>]
        /\ sweep = NoSweep /\ actions = <<>> /\ reports = <<>>
        /\ errors = 0 /\ crashes = 0 /\ failures = 0
        /\ db \in ConstructionRows \cup {NoDbRows}
    BY DEF Init
  <1>2. db \in Tables /\ ForeignKeys(db) BY <1>1, NoDbFits, ConstructionFits
  <1>3. WorldTyped /\ BoundsTyped /\ ProcessTyped BY <1>1, RunnerAssumption DEF WorldTyped, BoundsTyped, ProcessTyped
  <1>4. admiral \in Admirals /\ CopiesTyped BY <1>1, EmptyStates DEF CopiesTyped
  <1>5. AdmiralKnows BY <1>1, <1>2, NoDbFits DEF AdmiralKnows
  <1>6. ChannelsTyped
    <2> HIDE DEF Credible
    <2>1. <<>> \in Seq(Credible) /\ Len(<<>>) = 0 BY EmptySeq
    <2> QED BY <1>1, <2>1, RunnerAssumption DEF ChannelsTyped
  <1>7. FibersKnown
    <2>1. <<>> \in Seq(Fibers) BY EmptySeq
    <2> QED BY <1>1, <2>1 DEF FibersKnown, NoLaunch
  <1>8. AgendaFits
    <2>1. <<>> \in Seq(Steps) BY EmptySeq
    <2>2. \A x : ~ In(todo, x) BY <1>1 DEF In
    <2> QED BY <1>1, <2>1, <2>2, ReportKinds DEF AgendaFits
  <1>9. Placed BY <1>1, <1>2 DEF Placed
  <1> QED BY <1>2, <1>3, <1>4, <1>5, <1>6, <1>7, <1>8, <1>9 DEF IInv

LEMMA FiberActionsKeep ==
  ASSUME IInv, ExploreStep \/ BuyStep \/ EndStep \/ \E s \in Ships : LaunchShip(s) \/ SendStep(s)
  PROVE  IInv'
  <1>1. CASE ExploreStep
    <2>1. PICK s \in Ships : \E i \in DOMAIN fibers[s], last \in BOOLEAN : Explore(s, i, last) BY <1>1 DEF ExploreStep
    <2>2. PICK i \in DOMAIN fibers[s], last \in BOOLEAN : Explore(s, i, last) BY <2>1
    <2> QED BY <2>2, ExploreKeeps
  <1>2. CASE BuyStep
    <2>1. PICK s \in Ships : \E i \in DOMAIN fibers[s], t \in tickets, new \in Ships : BuyShip(s, i, t, new)
      BY <1>2 DEF BuyStep
    <2>2. PICK i \in DOMAIN fibers[s], t \in tickets, new \in Ships : BuyShip(s, i, t, new) BY <2>1
    <2> QED BY <2>2, BuyKeeps
  <1>3. CASE EndStep
    <2>1. PICK s \in Ships : \E i \in DOMAIN fibers[s] : FinishBehaviour(s, i) \/ BehaviourFails(s, i) BY <1>3 DEF EndStep
    <2>2. PICK i \in DOMAIN fibers[s] : FinishBehaviour(s, i) \/ BehaviourFails(s, i) BY <2>1
    <2> QED BY <2>2, EndKeeps
  <1>4. ASSUME NEW s \in Ships, LaunchShip(s) PROVE IInv' BY <1>4, LaunchShipKeeps
  <1>5. ASSUME NEW s \in Ships, SendStep(s) PROVE IInv'
    <2>1. PICK i \in DOMAIN fibers[s] : SendReport(s, i) BY <1>5 DEF SendStep
    <2> QED BY <2>1, SendKeeps
  <1> QED BY <1>1, <1>2, <1>3, <1>4, <1>5

LEMMA StutterKeeps ==
  ASSUME IInv, UNCHANGED vars
  PROVE  IInv'
  <1>1. /\ UNCHANGED <<owned, tickets, explored, db, stage, dead, admiral, todo, report, launching,
                       ship_ops, fibers, sweep, actions, reports, errors, crashes, failures>>
        /\ UNCHANGED <<channels, bounds, fiber_vars, under_lock>>
    BY DEF vars, world, under_lock, fiber_vars, channels, bounds
  <1>2. tickets \subseteq Tickets BY DEF IInv, WorldTyped
  <1>3. WorldTyped' /\ BoundsTyped' /\ CopiesTyped' BY <1>1, <1>2, RestTyped
  <1>4. ChannelsTyped' BY <1>1, SameChannels
  <1>5. db' \in Tables /\ admiral' \in Admirals /\ AdmiralKnows' /\ AgendaFits' /\ Placed' BY <1>1, LockFrame
  <1>6. FibersKnown' BY <1>1, FibersStay
  <1>7. ProcessTyped' BY <1>1 DEF IInv, ProcessTyped
  <1> QED BY <1>3, <1>4, <1>5, <1>6, <1>7 DEF IInv

\* Every step keeps the invariant.
LEMMA InvariantStep ==
  ASSUME IInv, [Next]_vars
  PROVE  IInv'
  <1>1. CASE Start BY <1>1, StartKeeps
  <1>2. CASE StartUpStep BY <1>2, CreateKeeps, LoadKeeps, ListenKeeps DEF StartUpStep
  <1>3. CASE WriteStep
    <2>1. PICK step \in Writes : Write(step) BY <1>3 DEF WriteStep
    <2> QED BY <2>1, WriteKeeps
  <1>4. CASE HandlerStep
    BY <1>4, ComputeTasksKeeps, DismantleKeeps, NewFleetsKeeps, AssignShipsKeeps, LaunchIdleKeeps, RelaunchIdleKeeps,
       AssignTaskKeeps, RelaunchKeeps, RegisterKeeps, LaunchNewKeeps DEF HandlerStep
  <1>5. CASE TakeStep
    BY <1>5, TakeCollectedKeeps, TakeExploredKeeps, TakeTradedKeeps, TakeMinedKeeps, TakePurchasedKeeps DEF TakeStep
  <1>6. CASE Fail BY <1>6, FailKeeps
  <1>7. CASE ExploreStep \/ BuyStep \/ EndStep \/ \E s \in Ships : LaunchShip(s) \/ SendStep(s)
    BY <1>7, FiberActionsKeep
  <1>8. CASE ForwardAction BY <1>8, ForwardKeeps
  <1>9. CASE SweepSnapshot \/ SweepFilter \/ \E s \in Ships : SweepRelaunch(s) BY <1>9, SweepKeeps
  <1>10. CASE Crash BY <1>10, CrashKeeps
  <1>11. CASE UNCHANGED vars BY <1>11, StutterKeeps
  <1> QED BY <1>1, <1>2, <1>3, <1>4, <1>5, <1>6, <1>7, <1>8, <1>9, <1>10, <1>11 DEF Next

LEMMA AlwaysInv == Spec => []IInv
  <1>1. Init => IInv BY InitInv
  <1>2. IInv /\ [Next]_vars => IInv' BY InvariantStep
  <1> QED BY <1>1, <1>2, PTL DEF Spec

\* The ships left to relaunch.
LEMMA RelaunchingTyped ==
  ASSUME IInv, relaunching \subseteq Ships, [Next]_vars
  PROVE  relaunching' \subseteq Ships
  <1>1. NotRunning(admiral.all_ships) \subseteq Ships
    <2>1. admiral.all_ships \subseteq Ships BY DEF IInv, Admirals
    <2> QED BY <2>1 DEF NotRunning
  <1>2. relaunching' \in {relaunching, {}, NotRunning(admiral.all_ships)} \/ \E s \in Ships : relaunching' = relaunching \ {s}
    <2>1. CASE Start \/ StartUpStep \/ Fail \/ Crash
      BY <2>1 DEF Start, StartUpStep, Create, Load, Listen, Fail, Crash, Proceed, PanicWith, GiveUp
    <2>2. CASE WriteStep BY <2>2 DEF WriteStep, Write, Proceed, GiveUp
    <2>3. CASE HandlerStep
      BY <2>3 DEF HandlerStep, ComputeTasks, Dismantle, NewFleets, AssignShips, LaunchIdle, RelaunchIdle, AssignTask,
                  Relaunch, Register, LaunchNew, Proceed, PanicWith, GiveUp
    <2>4. CASE TakeStep
      BY <2>4 DEF TakeStep, TakeCollected, TakeExplored, TakeTraded, TakeMined, TakePurchased, Handle, PanicWith, GiveUp
    <2>5. CASE \/ ExploreStep \/ BuyStep \/ EndStep \/ (\E s \in Ships : LaunchShip(s) \/ SendStep(s) \/ SweepRelaunch(s))
               \/ ForwardAction \/ SweepSnapshot \/ SweepFilter \/ UNCHANGED vars
      BY <2>5 DEF ExploreStep, BuyStep, EndStep, SendStep, Explore, BuyShip, FinishBehaviour, BehaviourFails, SendReport,
                  LaunchShip, SweepRelaunch, ForwardAction, SweepSnapshot, SweepFilter, vars, process_else
    <2> QED BY <2>1, <2>2, <2>3, <2>4, <2>5 DEF Next
  <1> QED BY <1>1, <1>2

\* The variables have their types, the channels no more messages than they hold, and
\* what is left to do is a sequence of the steps.
THEOREM TypeCorrect == Spec => []TypeOK
  <1>1. IInv /\ relaunching \subseteq Ships => TypeOK
    <2> SUFFICES ASSUME IInv, relaunching \subseteq Ships PROVE TypeOK OBVIOUS
    <2>1. /\ owned \subseteq Ships /\ tickets \subseteq Tickets /\ explored \in BOOLEAN
          /\ errors \in 0..MaxErrors /\ crashes \in 0..MaxCrashes /\ failures \in 0..MaxFailures
          /\ stage \in {"down", "starting", "running"}
          /\ dead \subseteq {"launcher", "status", "actions", "restart"}
      BY DEF IInv, WorldTyped, BoundsTyped, ProcessTyped
    <2>2. db \in Tables /\ admiral \in Admirals BY DEF IInv
    <2>3. db.ships \subseteq Ships /\ admiral.all_ships \subseteq Ships /\ admiral.phase \in Phases
      BY <2>2 DEF Tables, Admirals
    <2>4. \A m \in {db, admiral} :
             /\ m.fleets \subseteq FleetTasks /\ m.completed \subseteq FleetTasks
             /\ m.fleet_tasks \in [FleetTasks -> {"no_row", "empty", "task"}]
             /\ m.assignment \in [Ships -> FleetTasks \cup {NoFleet}]
             /\ m.ship_tasks \in [Ships -> ShipTasks \cup {NoTask}]
      BY <2>2 DEF Tables, Admirals, RowMaps, FleetMaps, TaskMaps
    <2>5. Credible \subseteq Messages BY DEF Credible
    <2>6. todo \in Seq(Steps) /\ report \in Messages \cup {Starting, NoReport} BY <2>5 DEF IInv, AgendaFits
    <2>7. ship_ops \subseteq Ships /\ fibers \in [Ships -> Seq(Fibers)] BY <2>3 DEF IInv, FibersKnown
    <2>8. actions \in Seq(Messages) /\ reports \in Seq(Messages) /\ Len(actions) <= Capacity /\ Len(reports) <= Capacity
      <3> HIDE DEF Credible
      <3> QED BY <2>5, SeqMonotonic DEF IInv, ChannelsTyped
    <2> QED BY <2>1, <2>3, <2>4, <2>6, <2>7, <2>8 DEF TypeOK
  <1>2. Init => relaunching \subseteq Ships BY DEF Init
  <1>3. IInv /\ relaunching \subseteq Ships /\ [Next]_vars => (relaunching \subseteq Ships)' BY RelaunchingTyped
  <1> QED BY <1>1, <1>2, <1>3, AlwaysInv, PTL DEF Spec

\* As long as the fleet of every ship exists no statement of upsert_fleets_data,
\* delete_fleets or the others is refused by a foreign key, whatever crash or error
\* has come between two statements, or between two rows of one.
THEOREM WritesNeverViolateForeignKeys == Spec => []WritesAreAccepted
  <1>1. IInv => WritesAreAccepted BY Accepted DEF WritesAreAccepted
  <1> QED BY <1>1, AlwaysInv, PTL

-----------------------------------------------------------------------------
(* What the tables and the admiral have in common. *)

Loaded == stage # "down" /\ ~ In(todo, "Create") /\ ~ In(todo, "Load")
Sound == failures = 0 /\ Loaded /\ "status" \notin dead

\* A start, or an explorer's report, which may change the fleets.
Redoing == report.type \in {"start", "finished"}

\* A start that creates the admiral finds no fleets, and one that loads it finds ships.
ReadyToStart ==
    /\ owned # {}
    /\ db.fleets # {} => db.ships # {}
    /\ Loaded => admiral.all_ships # {}
    /\ In(todo, "Create") /\ ~ In(todo, "StoreShips") => db.ships # {}
    /\ In(todo, "Create") => db.fleets = {}
    /\ In(todo, "Load") => db.ships # {}

Doomed == IF In(todo, "DeleteFleet") THEN {report.fleet} ELSE {}
Joining == IF In(todo, "Register") THEN {report.ship} ELSE {}

FleetsStored ==
    /\ db.fleets \subseteq admiral.fleets \cup Doomed
    /\ ~ (In(todo, "UpsertFleets") /\ Redoing) => admiral.fleets \subseteq db.fleets
    /\ ~ (In(todo, "UpsertFleetTasks") /\ Redoing) => \A f \in admiral.fleets : db.fleet_tasks[f] # "no_row"

ShipsStored == db.ships \subseteq admiral.all_ships \cup Joining

AssignmentStored ==
    EveryFleetExists /\ ~ (In(todo, "UpsertAssignment") /\ ~ In(todo, "Register"))
        => \A s \in Ships : admiral.assignment[s] \in {NoFleet, db.assignment[s]}

TasksStored ==
    EveryFleetExists /\ ~ (In(todo, "SaveShipTasks") /\ ~ In(todo, "Register"))
        => \A s \in Ships : admiral.ship_tasks[s] \in {NoTask, db.ship_tasks[s]}

Synced == Sound => FleetsStored /\ ShipsStored /\ AssignmentStored /\ TasksStored

\* The fleets change between the report of an explorer, or the load, and the next
\* computation of tasks, which panics unless every fleet has a budget.
Mid == In(todo, "ComputeTasks") /\ Redoing

PhaseKept ==
    /\ ~ Mid => admiral.fleets = Range(PhaseTasks(admiral.phase)) /\ admiral.budgets = admiral.fleets
    /\ Mid /\ ~ In(todo, "NewFleets") => Range(PhaseTasks(admiral.phase)) \subseteq admiral.fleets
    /\ Mid /\ ~ In(todo, "NewFleets") /\ ~ In(todo, "AssignShips") => admiral.budgets = Budgeted(admiral.phase)

Steady == Sound => PhaseKept

StoreInv == ReadyToStart /\ Synced /\ Steady

LEMMA GoingOn ==
  ASSUME IInv, todo # <<>>, Proceed
  PROVE  /\ \A x : In(todo, x) <=> x = Head(todo) \/ In(todo', x)
         /\ report' = report \/ (report' = NoReport /\ todo' = <<>> /\ \A x : ~ In(todo', x))
         /\ ~ In(todo', "StoreShips") /\ ~ In(todo', "Load")
         /\ In(todo', "Create") => Head(todo) = "StoreShips"
         /\ In(todo', "Register") => Head(todo) = "StoreShips"
         /\ Head(todo) \in Makers => report' = report /\ \A u \in UpsertStep : In(todo', u)
         /\ Head(todo) \in Founders => In(todo', "ComputeTasks")
         /\ Head(todo) = "StoreShips" => report' = report /\ In(todo', IF report.type = "start" THEN "Create" ELSE "Register")
         /\ Head(todo) = "Dismantle" => In(todo', "DeleteFleet") /\ In(todo', "NewFleets")
         /\ Head(todo) = "NewFleets" => In(todo', "AssignShips")
         /\ Head(todo) = "ComputeTasks" =>
               \A x : In(todo', x) => x \in UpsertStep \cup {"Listen", "LaunchIdle", "LaunchNew"}
         /\ Head(todo) = "UpsertAssignment" /\ report.type # "start" =>
               \A x : In(todo', x) => x \in {"SaveShipTasks", "LaunchNew", "Relaunch"}
  <1>1. /\ todo \in Seq(Steps) /\ Agenda(todo, report.type) BY HeadKind
  <1>2. todo' = Tail(todo) /\ report' = IF Tail(todo) = <<>> THEN NoReport ELSE report BY DEF Proceed
  <1>3. \A x : In(todo', x) => todo' # <<>> BY DEF In
  <1>4. (\E x : In(todo', x)) => report' = report BY <1>2, <1>3
  <1>5. Head(todo) \in Makers => \A u \in UpsertStep : In(todo', u) BY <1>1, <1>2, AgendaStep
  <1>6. Head(todo) = "StoreShips" => In(todo', IF report.type = "start" THEN "Create" ELSE "Register")
    BY <1>1, <1>2, AgendaStep
  <1>7. "SaveShipTasks" \in UpsertStep BY DEF UpsertStep
  <1>8. Head(todo) \in Makers => report' = report BY <1>4, <1>5, <1>7
  <1>9. Head(todo) = "StoreShips" => report' = report BY <1>4, <1>6
  <1>10. report' = report \/ (report' = NoReport /\ todo' = <<>> /\ \A x : ~ In(todo', x)) BY <1>2, <1>3
  <1> QED BY <1>1, <1>2, <1>5, <1>6, <1>8, <1>9, <1>10, AgendaStep

LEMMA LoadedNow ==
  ASSUME IInv
  PROVE  /\ stage = "running" => Loaded
         /\ todo # <<>> /\ Head(todo) \notin {"StoreShips", "Create", "Load"} => Loaded
         /\ todo # <<>> /\ Head(todo) = "StoreShips" => ~ In(todo, "Load")
         /\ todo # <<>> /\ Head(todo) = "Create" => ~ In(todo, "Load") /\ ~ In(todo, "StoreShips")
         /\ todo # <<>> => stage # "down"
         /\ todo = <<>> => \A x : ~ In(todo, x)
  <1>1. todo = <<>> => \A x : ~ In(todo, x) BY DEF In
  <1>2. todo # <<>> => stage # "down" BY HeadKind
  <1>3. todo # <<>> =>
          /\ \A x : In(todo, x) <=> x = Head(todo) \/ In(Tail(todo), x)
          /\ ~ In(Tail(todo), "StoreShips") /\ ~ In(Tail(todo), "Load")
          /\ In(Tail(todo), "Create") => Head(todo) = "StoreShips"
    BY HeadKind, AgendaStep
  <1>4. ASSUME stage = "running" PROVE ~ In(todo, "Create") /\ ~ In(todo, "Load")
    <2>1. CASE todo = <<>> BY <1>1, <2>1
    <2>2. CASE todo # <<>>
      <3>1. report.type \in {"finished", "collected", "purchased"} /\ Agenda(todo, report.type) BY <1>4, <2>2, HeadKind
      <3>2. \A i \in DOMAIN todo : todo[i] \in StepsOf(report.type) BY <3>1 DEF Agenda
      <3>3. "Create" \notin StepsOf(report.type) /\ "Load" \notin StepsOf(report.type)
        BY <3>1 DEF StepsOf, UpsertStep, DismantleOnly, TaskOnly
      <3> QED BY <3>2, <3>3 DEF In
    <2> QED BY <2>1, <2>2
  <1> QED BY <1>1, <1>2, <1>3, <1>4 DEF Loaded

LEMMA InitStore ==
  ASSUME Init
  PROVE  StoreInv
  <1>1. InitialShips # {} BY RunnerAssumption DEF OfType
  <1>2. owned = InitialShips /\ stage = "down" /\ todo = <<>> /\ db \in ConstructionRows \cup {NoDbRows} BY DEF Init
  <1>3. \A x : ~ In(todo, x) BY <1>2 DEF In
  <1>4. db.fleets # {} => db.ships = InitialShips
    <2>1. CASE db = NoDbRows BY <2>1 DEF NoDbRows
    <2>2. CASE db \in ConstructionRows BY <2>2 DEF ConstructionRows
    <2> QED BY <1>2, <2>1, <2>2
  <1>5. ~ Loaded BY <1>2 DEF Loaded
  <1>6. ReadyToStart BY <1>1, <1>2, <1>3, <1>4, <1>5 DEF ReadyToStart
  <1> QED BY <1>5, <1>6 DEF StoreInv, Synced, Steady, Sound

LEMMA UnchangedStore ==
  ASSUME StoreInv, UNCHANGED <<db, stage, under_lock, failures>>, owned \subseteq owned', dead \subseteq dead'
  PROVE  StoreInv'
  <1>1. UNCHANGED <<db, stage, admiral, todo, report, failures>> BY DEF under_lock
  <1>2. Loaded' = Loaded BY <1>1 DEF Loaded
  <1>3. ReadyToStart' BY <1>1, <1>2 DEF StoreInv, ReadyToStart
  <1>4. Sound' => Sound BY <1>1, <1>2 DEF Sound
  <1>5. /\ FleetsStored' = FleetsStored /\ ShipsStored' = ShipsStored /\ AssignmentStored' = AssignmentStored
        /\ TasksStored' = TasksStored
    BY <1>1 DEF FleetsStored, ShipsStored, AssignmentStored, TasksStored, EveryFleetExists, Doomed, Joining, Redoing
  <1>6. PhaseKept' = PhaseKept BY <1>1 DEF PhaseKept, Mid, Redoing
  <1> QED BY <1>3, <1>4, <1>5, <1>6 DEF StoreInv, Synced, Steady

\* A statement, or the part of it that a crash leaves.
LEMMA RowsGrow ==
  ASSUME IInv, StoreInv, db' = db \/ db' \in CutOff
  PROVE  db'.fleets # {} => db'.ships # {}
  <1>1. db \in Tables BY DEF IInv
  <1>2. CASE db' = db BY <1>2 DEF StoreInv, ReadyToStart
  <1>3. CASE todo # <<>> /\ Head(todo) \in Writes /\ db' \in CutOff
    <2>1. PICK rows \in SUBSET Keys(Head(todo)) : db' = Stored(Head(todo), rows) BY <1>3 DEF CutOff
    <2>2. db.ships \subseteq db'.ships BY <1>3, <2>1, StoredTyped
    <2>3. Head(todo) # "UpsertFleets" => db'.fleets \subseteq db.fleets
      BY <1>1, <1>3, <2>1 DEF Stored, Writes, Tables
    <2>4. Head(todo) = "UpsertFleets" => db.ships # {}
      <3>1. Head(todo) = "UpsertFleets" => Loaded BY <1>3, LoadedNow
      <3>2. admiral.all_ships \subseteq db.ships BY DEF IInv, AdmiralKnows, Knows
      <3> QED BY <3>1, <3>2 DEF StoreInv, ReadyToStart
    <2>5. db.fleets # {} => db.ships # {} BY DEF StoreInv, ReadyToStart
    <2> QED BY <2>2, <2>3, <2>4, <2>5
  <1>4. CASE ~ (todo # <<>> /\ Head(todo) \in Writes) BY <1>2, <1>4 DEF CutOff
  <1> QED BY <1>2, <1>3, <1>4

\* A start or a report that is given up.
LEMMA GivenUpReady ==
  ASSUME IInv, StoreInv, todo' = <<>>, db' = db \/ db' \in CutOff, owned' = owned,
         stage' = "down" \/ (stage = "running" /\ stage' = stage /\ admiral.all_ships \subseteq admiral'.all_ships)
  PROVE  ReadyToStart'
  <1>1. \A x : ~ In(todo', x) BY DEF In
  <1>2. db'.fleets # {} => db'.ships # {} BY RowsGrow
  <1>3. Loaded' => admiral'.all_ships # {}
    <2>1. stage = "running" => admiral.all_ships # {} BY LoadedNow DEF StoreInv, ReadyToStart
    <2> QED BY <2>1 DEF Loaded
  <1>4. owned' # {} BY DEF StoreInv, ReadyToStart
  <1> QED BY <1>1, <1>2, <1>3, <1>4 DEF ReadyToStart

LEMMA UnsoundStore ==
  ASSUME ReadyToStart', ~ Sound'
  PROVE  StoreInv'
  BY DEF StoreInv, Synced, Steady

LEMMA PanicStores ==
  ASSUME IInv, StoreInv, NEW a, PanicWith(a), todo # <<>> \/ stage = "running", admiral.all_ships \subseteq a.all_ships, UNCHANGED <<db, owned>>
  PROVE  StoreInv'
  <1>1. /\ todo' = <<>> /\ stage' = IF stage = "starting" THEN "down" ELSE stage
        /\ stage # "starting" => admiral' = a /\ dead' = dead \cup {"status"}
    BY DEF PanicWith, GiveUp
  <1>2. stage \in {"starting", "running"} BY HeadKind
  <1>3. ReadyToStart' BY <1>1, <1>2, GivenUpReady
  <1>4. ~ Sound' BY <1>1, <1>2 DEF Sound, Loaded
  <1> QED BY <1>3, <1>4, UnsoundStore

LEMMA FailStores ==
  ASSUME IInv, StoreInv, Fail
  PROVE  StoreInv'
  <1>1. /\ todo # <<>> /\ db' \in CutOff /\ GiveUp /\ failures' = failures + 1 /\ owned' = owned
        /\ admiral' = IF stage = "starting" THEN NoAdmiral ELSE admiral
    BY DEF Fail, world
  <1>2. todo' = <<>> /\ stage' = IF stage = "starting" THEN "down" ELSE stage BY <1>1 DEF GiveUp
  <1>3. stage \in {"starting", "running"} BY <1>1, HeadKind
  <1>4. ReadyToStart' BY <1>1, <1>2, <1>3, GivenUpReady
  <1>5. failures' # 0
    <2>1. failures \in Nat BY RunnerAssumption DEF IInv, BoundsTyped
    <2> QED BY <1>1, <2>1
  <1>6. ~ Sound' BY <1>5 DEF Sound
  <1> QED BY <1>4, <1>6, UnsoundStore

LEMMA CrashStores ==
  ASSUME IInv, StoreInv, Crash
  PROVE  StoreInv'
  <1>1. todo' = <<>> /\ db' \in CutOff /\ owned' = owned /\ stage' = "down" BY DEF Crash, world
  <1>2. ReadyToStart' BY <1>1, GivenUpReady
  <1>3. ~ Sound' BY <1>1 DEF Sound, Loaded
  <1> QED BY <1>2, <1>3, UnsoundStore

LEMMA StartStores ==
  ASSUME IInv, StoreInv, Start
  PROVE  StoreInv'
  <1>1. db' = db /\ owned' = owned
        /\ \/ db.fleets # {} /\ db.ships # {} /\ todo' = StartWith(<<"Load">>)
           \/ db.fleets = {} /\ db.ships = {} /\ todo' = StartWith(<<"StoreShips", "Create">>)
           \/ db.fleets = {} /\ db.ships # {} /\ todo' = StartWith(<<"Create">>)
    BY DEF Start, world, StartWith, StoreInv, ReadyToStart
  <1>2. owned # {} BY DEF StoreInv, ReadyToStart
  <1>3. CASE db.fleets # {} /\ db.ships # {} /\ todo' = StartWith(<<"Load">>)
    <2>1. In(todo', "Load") /\ ~ In(todo', "Create")
      <3>1. Len(todo') = 11 /\ todo'[1] = "Load" /\ \A i \in DOMAIN todo' : todo'[i] # "Create" BY <1>3, LoadPlan
      <3>2. todo' \in Seq(Steps) BY <1>3, LoadPlan
      <3>3. 1 \in DOMAIN todo' BY <3>1, <3>2
      <3> QED BY <3>1, <3>3 DEF In
    <2>2. ReadyToStart' BY <1>1, <1>2, <1>3, <2>1 DEF ReadyToStart, Loaded
    <2>3. ~ Sound' BY <2>1 DEF Sound, Loaded
    <2> QED BY <2>2, <2>3, UnsoundStore
  <1>4. CASE db.fleets = {} /\ db.ships = {} /\ todo' = StartWith(<<"StoreShips", "Create">>)
    <2>1. In(todo', "StoreShips") /\ In(todo', "Create") /\ ~ In(todo', "Load")
      <3>1. Len(todo') = 12 /\ todo'[1] = "StoreShips" /\ todo'[2] = "Create" /\ \A i \in DOMAIN todo' : todo'[i] # "Load"
        BY <1>4, StorePlan
      <3>2. todo' \in Seq(Steps) BY <1>4, StorePlan
      <3>3. 1 \in DOMAIN todo' /\ 2 \in DOMAIN todo' BY <3>1, <3>2
      <3> QED BY <3>1, <3>3 DEF In
    <2>2. ReadyToStart' BY <1>1, <1>2, <1>4, <2>1 DEF ReadyToStart, Loaded
    <2>3. ~ Sound' BY <2>1 DEF Sound, Loaded
    <2> QED BY <2>2, <2>3, UnsoundStore
  <1>5. CASE db.fleets = {} /\ db.ships # {} /\ todo' = StartWith(<<"Create">>)
    <2>1. In(todo', "Create") /\ ~ In(todo', "Load")
      <3>1. Len(todo') = 11 /\ todo'[1] = "Create" /\ \A i \in DOMAIN todo' : todo'[i] # "Load" BY <1>5, CreatePlan
      <3>2. todo' \in Seq(Steps) BY <1>5, CreatePlan
      <3>3. 1 \in DOMAIN todo' BY <3>1, <3>2
      <3> QED BY <3>1, <3>3 DEF In
    <2>2. ReadyToStart' BY <1>1, <1>2, <1>5, <2>1 DEF ReadyToStart, Loaded
    <2>3. ~ Sound' BY <2>1 DEF Sound, Loaded
    <2> QED BY <2>2, <2>3, UnsoundStore
  <1> QED BY <1>1, <1>3, <1>4, <1>5

\* A step of a start or of an explorer's report after which the admiral's state is
\* stored; the fleets may change.
LEMMA MadeStore ==
  ASSUME IInv, todo # <<>>, Head(todo) \in Makers \ {"Register"}, Proceed, Redoing, ~ In(todo, "Register"),
         Sound' => db'.fleets \subseteq admiral'.fleets \cup Doomed' /\ ShipsStored'
  PROVE  Synced'
  <1>1. report' = report /\ \A u \in UpsertStep : In(todo', u) BY GoingOn
  <1>2. ~ In(todo', "Register") BY GoingOn
  <1>3. /\ In(todo', "UpsertFleets") /\ In(todo', "UpsertFleetTasks") /\ In(todo', "UpsertAssignment")
        /\ In(todo', "SaveShipTasks")
    BY <1>1 DEF UpsertStep
  <1>4. Redoing' BY <1>1 DEF Redoing
  <1> QED BY <1>2, <1>3, <1>4 DEF Synced, FleetsStored, AssignmentStored, TasksStored

LEMMA CreateStores ==
  ASSUME IInv, StoreInv, Create
  PROVE  StoreInv'
  <1>1. /\ todo # <<>> /\ Head(todo) = "Create" /\ Proceed /\ db' = db /\ owned' = owned
    BY DEF Create, Does, world
  <1> DEFINE phase == CurrentPhase(db.completed)
             fleets == Range(PhaseTasks(phase))
  <1>2. PICK sent \in ShipAssignments(PhaseTasks(phase), db.ships, ShoppingList(phase)) :
             admiral' = [NoAdmiral EXCEPT
                 !.all_ships = db.ships, !.fleets = fleets, !.fleet_tasks = TaskRows(fleets),
                 !.assignment = sent, !.completed = db.completed, !.phase = phase,
                 !.demand = NextShipPurchases(db.ships, phase), !.budgets = Budgeted(phase)]
    BY DEF Create
  <1>3. phase \in Phases BY PhaseTyped
  <1> HIDE DEF phase
  <1>4. admiral'.all_ships = db.ships /\ admiral'.fleets = fleets /\ admiral'.phase = phase /\ admiral'.budgets = Budgeted(phase)
    BY <1>2 DEF NoAdmiral
  <1>5. report = Starting /\ Redoing BY <1>1, HeadKind, ReportKinds DEF Redoing
  <1>6. db.fleets = {} /\ db.ships # {} /\ owned # {}
    <2>1. In(todo, "Create") /\ ~ In(todo, "StoreShips") BY <1>1, LoadedNow, GoingOn
    <2> QED BY <2>1 DEF StoreInv, ReadyToStart
  <1>7. "Create" \in Founders /\ "Create" # "Register" BY DEF Founders, Makers
  <1>8. report' = report /\ In(todo', "ComputeTasks") /\ ~ In(todo', "Create") /\ ~ In(todo', "Load")
        /\ ~ In(todo', "StoreShips")
    BY <1>1, <1>7, GoingOn DEF Founders
  <1>9. ReadyToStart' BY <1>1, <1>4, <1>6, <1>8 DEF ReadyToStart
  <1>10. ShipsStored' BY <1>1, <1>4 DEF ShipsStored
  <1>11. PhaseKept'
    <2>1. Mid' BY <1>5, <1>8 DEF Mid, Redoing
    <2> QED BY <1>4, <2>1 DEF PhaseKept
  <1>12. ~ In(todo, "Register")
    <2>1. Agenda(todo, "start") BY <1>1, <1>5, HeadKind, ReportKinds
    <2>2. "Register" \notin StepsOf("start") BY DEF StepsOf, UpsertStep
    <2> QED BY <2>1, <2>2 DEF Agenda, In
  <1>13. Steady' BY <1>11 DEF Steady
  <1>14. db'.fleets \subseteq admiral'.fleets \cup Doomed' BY <1>1, <1>6
  <1>15. Synced' BY <1>1, <1>5, <1>7, <1>10, <1>12, <1>14, MadeStore DEF Founders
  <1> QED BY <1>9, <1>13, <1>15 DEF StoreInv

LEMMA LoadStores ==
  ASSUME IInv, StoreInv, Load
  PROVE  StoreInv'
  <1>1. todo # <<>> /\ Head(todo) = "Load" /\ db' = db /\ owned' = owned BY DEF Load, Does, world
  <1>2. report = Starting /\ Redoing /\ stage = "starting" BY <1>1, HeadKind, ReportKinds DEF Redoing
  <1> DEFINE phase == CurrentPhase(db.completed)
             fleets == db.fleets \cup Range(PhaseTasks(phase))
  <1>3. CASE \A f \in db.fleets : db.fleet_tasks[f] = "task"
    <2>1. Proceed /\ admiral' = [all_ships |-> db.ships, fleets |-> fleets, fleet_tasks |-> TaskRows(fleets),
                       assignment |-> db.assignment, ship_tasks |-> db.ship_tasks,
                       completed |-> db.completed, phase |-> phase,
                       demand |-> NextShipPurchases(db.ships, phase), budgets |-> Budgeted(phase)]
      BY <1>3 DEF Load
    <2> HIDE DEF phase
    <2>2. admiral'.all_ships = db.ships /\ admiral'.fleets = fleets /\ admiral'.phase = phase /\ admiral'.budgets = Budgeted(phase)
      BY <2>1
    <2>3. In(todo, "Load") /\ db.ships # {} /\ owned # {} BY <1>1, <2>1, GoingOn DEF StoreInv, ReadyToStart
    <2>4. "Load" \in Founders /\ "Load" # "Register" BY DEF Founders, Makers
    <2>5. report' = report /\ In(todo', "ComputeTasks") /\ ~ In(todo', "Create") /\ ~ In(todo', "Load")
          /\ ~ In(todo', "StoreShips")
      BY <1>1, <2>1, <2>4, GoingOn DEF Founders
    <2>6. ReadyToStart' BY <1>1, <2>2, <2>3, <2>5 DEF ReadyToStart, StoreInv
    <2>7. ShipsStored' BY <1>1, <2>2 DEF ShipsStored
    <2>8. Steady'
      <3>1. Mid' BY <1>2, <2>5 DEF Mid, Redoing
      <3> QED BY <2>2, <3>1 DEF PhaseKept, Steady
    <2>9. ~ In(todo, "Register")
      <3>1. Agenda(todo, "start") BY <1>1, <1>2, HeadKind, ReportKinds
      <3>2. "Register" \notin StepsOf("start") BY DEF StepsOf, UpsertStep
      <3> QED BY <3>1, <3>2 DEF Agenda, In
    <2>10. db'.fleets \subseteq admiral'.fleets \cup Doomed' BY <1>1, <2>2
    <2>11. Synced' BY <1>1, <1>2, <2>1, <2>4, <2>7, <2>9, <2>10, MadeStore DEF Founders
    <2> QED BY <2>6, <2>8, <2>11 DEF StoreInv
  <1>4. CASE ~ (\A f \in db.fleets : db.fleet_tasks[f] = "task")
    <2>1. PanicWith(NoAdmiral) BY <1>4 DEF Load
    <2>2. todo' = <<>> /\ stage' = "down" BY <1>2, <2>1 DEF PanicWith, GiveUp
    <2>3. ReadyToStart' BY <1>1, <2>2, GivenUpReady
    <2>4. ~ Sound' BY <2>2 DEF Sound, Loaded
    <2> QED BY <2>3, <2>4, UnsoundStore
  <1> QED BY <1>3, <1>4

-----------------------------------------------------------------------------
(* Handlers. *)

LEMMA ReadyOn ==
  ASSUME IInv, StoreInv, todo # <<>>, Proceed, Head(todo) \notin {"StoreShips", "Create", "Load"},
         db'.fleets # {} => db'.ships # {}, admiral.all_ships \subseteq admiral'.all_ships, owned' = owned
  PROVE  ReadyToStart' /\ Loaded
  <1>1. ~ In(todo', "Create") /\ ~ In(todo', "Load") BY GoingOn
  <1>2. Loaded BY LoadedNow
  <1> QED BY <1>1, <1>2 DEF StoreInv, ReadyToStart

\* What is to be done fits the report.
LEMMA KindOfStep ==
  ASSUME IInv, todo # <<>>
  PROVE  /\ Redoing => ~ In(todo, "Register")
         /\ \A x \in {"Dismantle", "DeleteAssignments", "DeleteTasks", "DeleteFleet", "NewFleets", "AssignShips",
                      "AssignTask"} : In(todo, x) => Redoing /\ report.type = "finished"
         /\ report.type \in {"collected", "purchased"} <=> ~ Redoing
         /\ In(todo, "Register") => report.type = "purchased"
  <1>1. Agenda(todo, report.type) /\ report.type \in {"start", "finished", "collected", "purchased"} BY HeadKind
  <1>2. \A x : In(todo, x) => x \in StepsOf(report.type) BY <1>1 DEF Agenda, In
  <1>3. "Register" \notin StepsOf("start") /\ "Register" \notin StepsOf("finished") /\ "Register" \notin StepsOf("collected")
    BY DEF StepsOf, UpsertStep, DismantleOnly, TaskOnly
  <1>4. \A x \in {"Dismantle", "DeleteAssignments", "DeleteTasks", "DeleteFleet", "NewFleets", "AssignShips", "AssignTask"} :
           x \notin StepsOf("start") /\ x \notin StepsOf("collected") /\ x \notin StepsOf("purchased")
    BY DEF StepsOf, UpsertStep
  <1> QED BY <1>1, <1>2, <1>3, <1>4 DEF Redoing

LEMMA PhaseStays ==
  ASSUME IInv, todo # <<>>, Proceed, Head(todo) \notin {"ComputeTasks", "NewFleets", "AssignShips"}, PhaseKept,
         UNCHANGED <<admiral.fleets, admiral.phase, admiral.budgets>>
  PROVE  PhaseKept'
  <1>1. \A x \in {"ComputeTasks", "NewFleets", "AssignShips"} : In(todo', x) <=> In(todo, x) BY GoingOn
  <1>2. (\E x : In(todo', x)) => report' = report BY GoingOn
  <1>3. Mid' <=> Mid BY <1>1, <1>2 DEF Mid, Redoing
  <1> QED BY <1>1, <1>3 DEF PhaseKept

LEMMA FleetsStay ==
  ASSUME IInv, todo # <<>>, Proceed, Head(todo) \notin {"UpsertFleets", "UpsertFleetTasks", "DeleteFleet"}, FleetsStored,
         UNCHANGED <<admiral.fleets, db.fleets, db.fleet_tasks>>
  PROVE  FleetsStored'
  <1>1. \A x \in {"UpsertFleets", "UpsertFleetTasks", "DeleteFleet"} : In(todo', x) <=> In(todo, x) BY GoingOn
  <1>2. (\E x : In(todo', x)) => report' = report BY GoingOn
  <1>3. Doomed' = Doomed BY <1>1, <1>2 DEF Doomed
  <1>4. /\ In(todo', "UpsertFleets") /\ Redoing' <=> In(todo, "UpsertFleets") /\ Redoing
        /\ In(todo', "UpsertFleetTasks") /\ Redoing' <=> In(todo, "UpsertFleetTasks") /\ Redoing
    BY <1>1, <1>2 DEF Redoing
  <1> QED BY <1>3, <1>4 DEF FleetsStored

LEMMA ShipsStay ==
  ASSUME IInv, todo # <<>>, Proceed, Head(todo) # "Register", ShipsStored,
         UNCHANGED <<admiral.all_ships, db.ships>>
  PROVE  ShipsStored'
  <1>1. In(todo', "Register") <=> In(todo, "Register") BY GoingOn
  <1>2. In(todo', "Register") => report' = report BY GoingOn
  <1> QED BY <1>1, <1>2 DEF ShipsStored, Joining

LEMMA AssignmentStays ==
  ASSUME IInv, todo # <<>>, Proceed, Head(todo) \notin {"Register", "UpsertAssignment"}, AssignmentStored,
         UNCHANGED <<admiral.fleets, admiral.assignment, db.assignment>>
  PROVE  AssignmentStored'
  <1>1. \A x \in {"Register", "UpsertAssignment"} : In(todo', x) <=> In(todo, x) BY GoingOn
  <1> QED BY <1>1 DEF AssignmentStored, EveryFleetExists

LEMMA TasksStay ==
  ASSUME IInv, todo # <<>>, Proceed, Head(todo) \notin {"Register", "SaveShipTasks"}, TasksStored,
         UNCHANGED <<admiral.fleets, admiral.assignment, admiral.ship_tasks, db.ship_tasks>>
  PROVE  TasksStored'
  <1>1. \A x \in {"Register", "SaveShipTasks"} : In(todo', x) <=> In(todo, x) BY GoingOn
  <1> QED BY <1>1 DEF TasksStored, EveryFleetExists

\* A step that changes neither the admiral nor the tables.
LEMMA QuietStores ==
  ASSUME IInv, StoreInv, todo # <<>>, Proceed, Head(todo) \in {"LaunchIdle", "Relaunch", "LaunchNew", "Listen"},
         UNCHANGED <<db, admiral, owned, failures, dead>>
  PROVE  StoreInv'
  <1>1. Head(todo) \notin {"StoreShips", "Create", "Load", "ComputeTasks", "NewFleets", "AssignShips",
                           "UpsertFleets", "UpsertFleetTasks", "DeleteFleet", "Register", "UpsertAssignment", "SaveShipTasks"}
    OBVIOUS
  <1>2. ReadyToStart' /\ Loaded
    <2>1. db'.fleets # {} => db'.ships # {} BY DEF StoreInv, ReadyToStart
    <2> QED BY <1>1, <2>1, ReadyOn
  <1>3. Sound' => Sound BY <1>2 DEF Sound
  <1>4. PhaseKept => PhaseKept' BY <1>1, PhaseStays
  <1>5. FleetsStored => FleetsStored' BY <1>1, FleetsStay
  <1>6. ShipsStored => ShipsStored' BY <1>1, ShipsStay
  <1>7. AssignmentStored => AssignmentStored' BY <1>1, AssignmentStays
  <1>8. TasksStored => TasksStored' BY <1>1, TasksStay
  <1> QED BY <1>2, <1>3, <1>4, <1>5, <1>6, <1>7, <1>8 DEF StoreInv, Synced, Steady

LEMMA ListenStores ==
  ASSUME IInv, StoreInv, Listen
  PROVE  StoreInv'
  <1>1. todo # <<>> /\ Head(todo) = "Listen" /\ Proceed /\ UNCHANGED <<db, admiral, owned, failures, dead>>
    BY DEF Listen, Does, world, bounds
  <1> QED BY <1>1, QuietStores

LEMMA LaunchesStore ==
  ASSUME IInv, StoreInv, LaunchIdle \/ (\E s \in Ships : RelaunchIdle(s)) \/ Relaunch \/ LaunchNew
  PROVE  StoreInv'
  <1>1. CASE LaunchIdle \/ \E s \in Ships : RelaunchIdle(s)
    <2>1. todo # <<>> /\ Head(todo) = "LaunchIdle" /\ UNCHANGED <<db, owned, failures>>
      BY <1>1 DEF LaunchIdle, RelaunchIdle, Does, step_else, world, bounds
    <2>2. \/ Proceed /\ UNCHANGED <<admiral, dead>>
          \/ UNCHANGED <<stage, dead, under_lock>>
          \/ PanicWith(admiral)
      BY <1>1 DEF LaunchIdle, RelaunchIdle, under_lock
    <2>3. CASE UNCHANGED <<stage, dead, under_lock>> BY <2>1, <2>3, UnchangedStore
    <2> QED BY <2>1, <2>2, <2>3, QuietStores, PanicStores
  <1>2. CASE Relaunch
    <2>1. todo # <<>> /\ Head(todo) = "Relaunch" /\ Proceed /\ UNCHANGED <<db, admiral, owned, failures, dead>>
      BY <1>2 DEF Relaunch, Does, step_else, world, bounds
    <2> QED BY <2>1, QuietStores
  <1>3. CASE LaunchNew
    <2>1. todo # <<>> /\ Head(todo) = "LaunchNew" /\ Proceed /\ UNCHANGED <<db, admiral, owned, failures, dead>>
      BY <1>3 DEF LaunchNew, Does, step_else, world, bounds
    <2> QED BY <2>1, QuietStores
  <1> QED BY <1>1, <1>2, <1>3

LEMMA ComputeTasksStores ==
  ASSUME IInv, StoreInv, ComputeTasks
  PROVE  StoreInv'
  <1>1. /\ todo # <<>> /\ Head(todo) = "ComputeTasks" /\ UNCHANGED <<db, owned, failures>>
    BY DEF ComputeTasks, Does, bounds
  <1>2. admiral \in Admirals BY DEF IInv
  <1>3. PICK o \in ComputeOutcomes(admiral, [demand |-> admiral.demand, tickets |-> tickets]) :
          IF HasBudgets(admiral)
          THEN admiral' = WithTasks([admiral EXCEPT !.demand = o.plan.demand], o.tasks) /\ Proceed
               /\ UNCHANGED <<stage, dead, reports>>
          ELSE PanicWith([admiral EXCEPT !.demand = o.plan.demand])
    BY DEF ComputeTasks
  <1>4. CASE ~ HasBudgets(admiral)
    <2>1. PanicWith([admiral EXCEPT !.demand = o.plan.demand]) BY <1>3, <1>4
    <2>2. [admiral EXCEPT !.demand = o.plan.demand].all_ships = admiral.all_ships BY <1>2 DEF Admirals
    <2> QED BY <1>1, <2>1, <2>2, PanicStores
  <1>5. CASE HasBudgets(admiral)
    <2>1. Proceed /\ UNCHANGED <<stage, dead>>
          /\ admiral' = WithTasks([admiral EXCEPT !.demand = o.plan.demand], o.tasks) BY <1>3, <1>5
    <2>2. UNCHANGED <<admiral.all_ships, admiral.fleets, admiral.assignment, admiral.phase, admiral.budgets>>
      BY <1>2, <2>1 DEF WithTasks, Admirals
    <2>3. ReadyToStart' /\ Loaded
      <3>1. db'.fleets # {} => db'.ships # {} BY <1>1 DEF StoreInv, ReadyToStart
      <3> QED BY <1>1, <2>1, <2>2, <3>1, ReadyOn
    <2>4. Sound' => Sound BY <1>1, <2>1, <2>3 DEF Sound
    <2>5. "ComputeTasks" \in Makers /\ "ComputeTasks" # "Register" BY DEF Makers
    <2>6. /\ report' = report /\ \A u \in UpsertStep : In(todo', u)
          /\ \A x : In(todo', x) => x \in UpsertStep \cup {"Listen", "LaunchIdle", "LaunchNew"}
          /\ \A x : In(todo, x) <=> x = Head(todo) \/ In(todo', x)
      BY <1>1, <2>1, <2>5, GoingOn
    <2>7. /\ ~ In(todo', "ComputeTasks") /\ ~ In(todo, "NewFleets") /\ ~ In(todo, "AssignShips")
          /\ ~ In(todo', "Register") /\ ~ In(todo, "Register")
      BY <1>1, <2>6 DEF UpsertStep
    <2>8. Sound' => PhaseKept'
      <3>1. SUFFICES ASSUME PhaseKept PROVE PhaseKept' BY <2>4 DEF StoreInv, Steady
      <3>2. ~ Mid' BY <2>7 DEF Mid
      <3>3. admiral.fleets = Range(PhaseTasks(admiral.phase)) /\ admiral.budgets = admiral.fleets
        <4>1. CASE ~ Mid BY <3>1, <4>1 DEF PhaseKept
        <4>2. CASE Mid
          <5>1. Range(PhaseTasks(admiral.phase)) \subseteq admiral.fleets /\ admiral.budgets = Budgeted(admiral.phase)
            BY <3>1, <4>2, <2>7 DEF PhaseKept
          <5>2. admiral.fleets \subseteq Budgeted(admiral.phase) BY <1>5, <5>1 DEF HasBudgets
          <5>3. admiral.phase \in Phases BY <1>2 DEF Admirals
          <5>4. CASE admiral.phase = "TradeProfitably"
            <6>1. "TradeProfitably" \in Range(PhaseTasks(admiral.phase)) BY <5>3, <5>4, PhaseFleets
            <6>2. Budgeted(admiral.phase) = {} BY <5>4 DEF Budgeted
            <6> QED BY <5>1, <5>2, <6>1, <6>2
          <5>5. CASE admiral.phase = "InitialExploration"
            <6>1. Range(PhaseTasks(admiral.phase)) = Budgeted(admiral.phase) BY <5>3, <5>5, PhaseFleets DEF Budgeted
            <6> QED BY <5>1, <5>2, <6>1
          <5>6. CASE admiral.phase = "ConstructJumpGate"
            <6>1. Range(PhaseTasks(admiral.phase)) = Budgeted(admiral.phase) BY <5>3, <5>6, PhaseFleets DEF Budgeted
            <6> QED BY <5>1, <5>2, <6>1
          <5> QED BY <5>3, <5>4, <5>5, <5>6 DEF Phases
        <4> QED BY <4>1, <4>2
      <3> QED BY <2>2, <3>2, <3>3 DEF PhaseKept
    <2>9. Sound' => FleetsStored' /\ ShipsStored'
      <3>1. Sound' => FleetsStored /\ ShipsStored BY <2>4 DEF StoreInv, Synced
      <3>2. FleetsStored => FleetsStored' BY <1>1, <2>1, <2>2, FleetsStay
      <3>3. ShipsStored => ShipsStored' BY <1>1, <2>1, <2>2, ShipsStay
      <3> QED BY <3>1, <3>2, <3>3
    <2>10. AssignmentStored' /\ TasksStored'
      <3>1. In(todo', "UpsertAssignment") /\ In(todo', "SaveShipTasks") BY <2>6 DEF UpsertStep
      <3> QED BY <2>7, <3>1 DEF AssignmentStored, TasksStored
    <2> QED BY <2>3, <2>8, <2>9, <2>10 DEF StoreInv, Synced, Steady
  <1> QED BY <1>4, <1>5

LEMMA DismantleStores ==
  ASSUME IInv, StoreInv, Dismantle
  PROVE  StoreInv'
  <1> SUFFICES ASSUME admiral' = Dismantled(report.fleet), Proceed, UNCHANGED <<stage, dead>> PROVE StoreInv'
    <2>1. todo # <<>> /\ UNCHANGED <<db, owned>> BY DEF Dismantle, Does, step_else, world
    <2>2. Dismantled(report.fleet).all_ships = admiral.all_ships BY DEF IInv, Dismantled, Admirals
    <2>3. PanicWith(Dismantled(report.fleet)) => StoreInv'
      <3> HIDE DEF Dismantled
      <3> QED BY <2>1, <2>2, PanicStores
    <2> QED BY <2>3 DEF Dismantle
  <1>1. /\ todo # <<>> /\ Head(todo) = "Dismantle" /\ Proceed /\ UNCHANGED <<db, owned, failures, stage, dead>>
    BY DEF Dismantle, Does, step_else, world, bounds
  <1>2. admiral \in Admirals BY DEF IInv
  <1>3. admiral'.all_ships = admiral.all_ships /\ admiral'.fleets = admiral.fleets \ {report.fleet} BY <1>2 DEF Dismantled, Admirals
  <1>4. In(todo, "Dismantle") BY <1>1, GoingOn
  <1>5. Redoing /\ ~ In(todo, "Register") BY <1>1, <1>4, KindOfStep
  <1>6. "Dismantle" \in Founders /\ "Dismantle" \in Makers /\ "Dismantle" # "Register" BY DEF Founders, Makers
  <1>7. report' = report /\ In(todo', "ComputeTasks") /\ In(todo', "NewFleets") /\ In(todo', "DeleteFleet")
        /\ ~ In(todo', "Register")
    BY <1>1, <1>6, GoingOn
  <1>8. ReadyToStart' /\ Loaded
    <2>1. db'.fleets # {} => db'.ships # {} BY <1>1 DEF StoreInv, ReadyToStart
    <2> QED BY <1>1, <1>3, <2>1, ReadyOn
  <1>9. Sound' => Sound BY <1>1, <1>8 DEF Sound
  <1>10. PhaseKept' BY <1>5, <1>7 DEF PhaseKept, Mid, Redoing
  <1>11. Sound' => db'.fleets \subseteq admiral'.fleets \cup Doomed' /\ ShipsStored'
    <2>1. SUFFICES ASSUME FleetsStored, ShipsStored
                   PROVE  db'.fleets \subseteq admiral'.fleets \cup Doomed' /\ ShipsStored'
      BY <1>9 DEF StoreInv, Synced
    <2>2. Doomed' = {report.fleet} /\ Doomed \subseteq {report.fleet} BY <1>7 DEF Doomed
    <2>3. ShipsStored' BY <1>1, <1>3, <2>1, ShipsStay
    <2> QED BY <1>1, <1>3, <2>1, <2>2, <2>3 DEF FleetsStored
  <1>12. Synced' BY <1>1, <1>5, <1>6, <1>11, MadeStore
  <1> QED BY <1>8, <1>10, <1>12 DEF StoreInv, Steady

LEMMA NewFleetsStores ==
  ASSUME IInv, StoreInv, NewFleets
  PROVE  StoreInv'
  <1>1. /\ todo # <<>> /\ Head(todo) = "NewFleets" /\ UNCHANGED <<db, owned, failures>>
    BY DEF NewFleets, Does, step_else, world, bounds
  <1>2. admiral \in Admirals BY DEF IInv
  <1>3. CASE ~ (\A f \in admiral.fleets : admiral.fleet_tasks[f] = "task")
    <2>1. PanicWith(admiral) BY <1>3 DEF NewFleets
    <2> QED BY <1>1, <2>1, PanicStores
  <1>4. CASE \A f \in admiral.fleets : admiral.fleet_tasks[f] = "task"
    <2> DEFINE phase == CurrentPhase(admiral.completed)
               fleets == admiral.fleets \cup Range(PhaseTasks(phase))
    <2>1. Proceed /\ UNCHANGED <<stage, dead>>
          /\ admiral' = [admiral EXCEPT !.fleets = fleets, !.fleet_tasks = TaskRows(fleets), !.phase = phase,
                                        !.demand = NextShipPurchases(admiral.all_ships, phase)]
      BY <1>4 DEF NewFleets
    <2> HIDE DEF phase
    <2>2. admiral'.all_ships = admiral.all_ships /\ admiral'.fleets = fleets /\ admiral'.phase = phase
      BY <1>2, <2>1 DEF Admirals
    <2>3. In(todo, "NewFleets") BY <1>1, <2>1, GoingOn
    <2>4. Redoing /\ ~ In(todo, "Register") BY <1>1, <2>3, KindOfStep
    <2>5. "NewFleets" \in Founders /\ "NewFleets" \in Makers /\ "NewFleets" # "Register" BY DEF Founders, Makers
    <2>6. report' = report /\ In(todo', "ComputeTasks") /\ In(todo', "AssignShips")
          /\ (\A x : In(todo, x) <=> x = Head(todo) \/ In(todo', x))
      BY <1>1, <2>1, <2>5, GoingOn
    <2>7. ReadyToStart' /\ Loaded
      <3>1. db'.fleets # {} => db'.ships # {} BY <1>1 DEF StoreInv, ReadyToStart
      <3> QED BY <1>1, <2>1, <2>2, <3>1, ReadyOn
    <2>8. Sound' => Sound BY <1>1, <2>1, <2>7 DEF Sound
    <2>9. PhaseKept'
      <3>1. Mid' /\ In(todo, "AssignShips")' BY <2>4, <2>6 DEF Mid, Redoing, In
      <3>2. Range(PhaseTasks(admiral'.phase)) \subseteq admiral'.fleets BY <2>2
      <3> QED BY <3>1, <3>2 DEF PhaseKept
    <2>10. Sound' => db'.fleets \subseteq admiral'.fleets \cup Doomed' /\ ShipsStored'
      <3>1. SUFFICES ASSUME FleetsStored, ShipsStored
                     PROVE  db'.fleets \subseteq admiral'.fleets \cup Doomed' /\ ShipsStored'
        BY <2>8 DEF StoreInv, Synced
      <3>2. Doomed' = Doomed BY <1>1, <2>6 DEF Doomed
      <3>3. ShipsStored' BY <1>1, <2>1, <2>2, <3>1, ShipsStay
      <3> QED BY <1>1, <2>2, <3>1, <3>2, <3>3 DEF FleetsStored
    <2>11. Synced' BY <1>1, <2>1, <2>4, <2>5, <2>10, MadeStore
    <2> QED BY <2>7, <2>9, <2>11 DEF StoreInv, Steady
  <1> QED BY <1>3, <1>4

LEMMA AssignShipsStores ==
  ASSUME IInv, StoreInv, AssignShips
  PROVE  StoreInv'
  <1>1. /\ todo # <<>> /\ Head(todo) = "AssignShips" /\ Proceed /\ UNCHANGED <<db, owned, failures, stage, dead>>
    BY DEF AssignShips, Does, step_else, world, bounds
  <1>2. admiral \in Admirals BY DEF IInv
  <1>3. \E sent : admiral' = [admiral EXCEPT !.assignment = sent, !.budgets = Budgeted(admiral.phase)] BY DEF AssignShips
  <1>4. /\ admiral'.all_ships = admiral.all_ships /\ admiral'.fleets = admiral.fleets
        /\ admiral'.phase = admiral.phase /\ admiral'.budgets = Budgeted(admiral.phase)
    BY <1>2, <1>3 DEF Admirals
  <1>5. In(todo, "AssignShips") BY <1>1, GoingOn
  <1>6. Redoing /\ ~ In(todo, "Register") BY <1>1, <1>5, KindOfStep
  <1>7. "AssignShips" \in Founders /\ "AssignShips" \in Makers /\ "AssignShips" # "Register" BY DEF Founders, Makers
  <1>8. report' = report /\ In(todo', "ComputeTasks") /\ (\A x : In(todo, x) <=> x = Head(todo) \/ In(todo', x))
    BY <1>1, <1>7, GoingOn
  <1>9. ReadyToStart' /\ Loaded
    <2>1. db'.fleets # {} => db'.ships # {} BY <1>1 DEF StoreInv, ReadyToStart
    <2> QED BY <1>1, <1>4, <2>1, ReadyOn
  <1>10. Sound' => Sound BY <1>1, <1>9 DEF Sound
  <1>11. Sound' => PhaseKept'
    <2>1. SUFFICES ASSUME PhaseKept PROVE PhaseKept' BY <1>10 DEF StoreInv, Steady
    <2>2. Mid' /\ Mid BY <1>6, <1>8 DEF Mid, Redoing
    <2>3. In(todo', "NewFleets") <=> In(todo, "NewFleets") BY <1>1, <1>8
    <2> QED BY <1>4, <2>1, <2>2, <2>3 DEF PhaseKept
  <1>12. Sound' => db'.fleets \subseteq admiral'.fleets \cup Doomed' /\ ShipsStored'
    <2>1. SUFFICES ASSUME FleetsStored, ShipsStored
                   PROVE  db'.fleets \subseteq admiral'.fleets \cup Doomed' /\ ShipsStored'
      BY <1>10 DEF StoreInv, Synced
    <2>2. Doomed' = Doomed BY <1>1, <1>8 DEF Doomed
    <2>3. ShipsStored' BY <1>1, <1>4, <2>1, ShipsStay
    <2> QED BY <1>1, <1>4, <2>1, <2>2, <2>3 DEF FleetsStored
  <1>13. Synced' BY <1>1, <1>6, <1>7, <1>12, MadeStore
  <1> QED BY <1>9, <1>11, <1>13 DEF StoreInv, Steady

LEMMA AssignTaskStores ==
  ASSUME IInv, StoreInv, AssignTask
  PROVE  StoreInv'
  <1>1. /\ todo # <<>> /\ Head(todo) = "AssignTask" /\ UNCHANGED <<db, owned, failures>>
    BY DEF AssignTask, Does, step_else, world, bounds
  <1>2. admiral \in Admirals BY DEF IInv
  <1> DEFINE next == [admiral EXCEPT !.ship_tasks[report.ship] = report.task]
  <1>3. /\ next.all_ships = admiral.all_ships /\ next.fleets = admiral.fleets
        /\ next.phase = admiral.phase /\ next.budgets = admiral.budgets
    BY <1>2 DEF Admirals
  <1> HIDE DEF next
  <1>4. (admiral' = next /\ Proceed /\ UNCHANGED <<stage, dead>>) \/ PanicWith(next) BY DEF AssignTask, next
  <1>5. CASE PanicWith(next) BY <1>1, <1>3, <1>5, PanicStores
  <1>6. CASE admiral' = next /\ Proceed /\ UNCHANGED <<stage, dead>>
    <2>1. UNCHANGED <<admiral.all_ships, admiral.fleets, admiral.phase, admiral.budgets>> BY <1>3, <1>6
    <2>2. In(todo, "AssignTask") BY <1>1, <1>6, GoingOn
    <2>3. Redoing /\ ~ In(todo, "Register") BY <1>1, <2>2, KindOfStep
    <2>4. "AssignTask" \in Makers /\ "AssignTask" # "Register" BY DEF Makers
    <2>5. ReadyToStart' /\ Loaded
      <3>1. db'.fleets # {} => db'.ships # {} BY <1>1 DEF StoreInv, ReadyToStart
      <3> QED BY <1>1, <1>6, <2>1, <3>1, ReadyOn
    <2>6. Sound' => Sound BY <1>1, <1>6, <2>5 DEF Sound
    <2>7. Sound' => PhaseKept'
      <3>1. PhaseKept => PhaseKept' BY <1>1, <1>6, <2>1, PhaseStays
      <3> QED BY <2>6, <3>1 DEF StoreInv, Steady
    <2>8. Sound' => db'.fleets \subseteq admiral'.fleets \cup Doomed' /\ ShipsStored'
      <3>1. FleetsStored => FleetsStored' BY <1>1, <1>6, <2>1, FleetsStay
      <3>2. ShipsStored => ShipsStored' BY <1>1, <1>6, <2>1, ShipsStay
      <3> QED BY <2>6, <3>1, <3>2 DEF StoreInv, Synced, FleetsStored
    <2>9. Synced' BY <1>1, <1>6, <2>3, <2>4, <2>8, MadeStore
    <2> QED BY <2>5, <2>7, <2>9 DEF StoreInv, Steady
  <1> QED BY <1>4, <1>5, <1>6

LEMMA RegisterStores ==
  ASSUME IInv, StoreInv, Register
  PROVE  StoreInv'
  <1>1. /\ todo # <<>> /\ Head(todo) = "Register" /\ UNCHANGED <<db, owned, failures, dead>>
    BY DEF Register, Does, step_else, world, bounds
  <1>2. admiral \in Admirals BY DEF IInv
  <1>3. report.type = "purchased" /\ stage = "running" /\ report.ship \in Ships /\ report.fleet \in FleetTasks BY <1>1, NewShip
  <1>4. ~ Redoing BY <1>3 DEF Redoing
  <1>5. /\ admiral'.all_ships = admiral.all_ships \cup {report.ship}
        /\ UNCHANGED <<admiral.fleets, admiral.phase, admiral.budgets>>
        /\ admiral'.assignment[report.ship] = report.fleet
    BY <1>2, <1>3 DEF Register, Admirals, FleetMaps
  <1>6. CASE report.fleet \in admiral.fleets \cap admiral.budgets
    <2>1. Proceed /\ stage' = stage BY <1>6 DEF Register
    <2>2. "Register" \in Makers BY DEF Makers
    <2>3. report' = report /\ (\A u \in UpsertStep : In(todo', u)) /\ ~ In(todo', "Register") BY <1>1, <2>1, <2>2, GoingOn
    <2>4. ReadyToStart' /\ Loaded
      <3>1. db'.fleets # {} => db'.ships # {} BY <1>1 DEF StoreInv, ReadyToStart
      <3> QED BY <1>1, <1>5, <2>1, <3>1, ReadyOn
    <2>5. Sound' => Sound BY <1>1, <2>1, <2>4 DEF Sound
    <2>6. PhaseKept => PhaseKept' BY <1>1, <1>5, <2>1, PhaseStays
    <2>7. FleetsStored => FleetsStored' BY <1>1, <1>5, <2>1, FleetsStay
    <2>8. ShipsStored => ShipsStored' BY <1>1, <1>5 DEF ShipsStored, Joining
    <2>9. AssignmentStored' /\ TasksStored' BY <2>3 DEF AssignmentStored, TasksStored, UpsertStep
    <2> QED BY <2>4, <2>5, <2>6, <2>7, <2>8, <2>9 DEF StoreInv, Synced, Steady
  <1>7. CASE report.fleet \notin admiral.fleets \cap admiral.budgets
    <2>1. GiveUp BY <1>7 DEF Register
    <2>2. todo' = <<>> /\ report' = NoReport /\ stage' = stage BY <1>3, <2>1 DEF GiveUp
    <2>3. \A x : ~ In(todo', x) BY <2>2 DEF In
    <2>4. ReadyToStart' BY <1>1, <1>3, <1>5, <2>2, GivenUpReady
    <2>5. Loaded BY <1>3, LoadedNow
    <2>6. Sound' => Sound BY <1>1, <2>2, <2>5 DEF Sound
    <2>7. ~ Mid /\ ~ Mid' BY <1>4, <2>3 DEF Mid
    <2>8. PhaseKept => PhaseKept' /\ ~ EveryFleetExists'
      <3>1. SUFFICES ASSUME PhaseKept PROVE PhaseKept' /\ ~ EveryFleetExists' OBVIOUS
      <3>2. admiral.fleets = Range(PhaseTasks(admiral.phase)) /\ admiral.budgets = admiral.fleets BY <2>7, <3>1 DEF PhaseKept
      <3>3. PhaseKept' BY <1>5, <2>7, <3>2 DEF PhaseKept
      <3>4. report.fleet \notin admiral.fleets BY <1>7, <3>2
      <3>5. report.fleet # NoFleet BY <1>3, PlanAssumption
      <3> QED BY <1>3, <1>5, <3>3, <3>4, <3>5 DEF EveryFleetExists
    <2>9. FleetsStored => FleetsStored'
      <3>1. Doomed = {}
        <4>1. ~ In(todo, "DeleteFleet") BY <1>1, <1>4, KindOfStep
        <4> QED BY <4>1 DEF Doomed
      <3> QED BY <1>1, <1>4, <1>5, <2>3, <3>1 DEF FleetsStored
    <2>10. ShipsStored => ShipsStored' BY <1>1, <1>5 DEF ShipsStored, Joining
    <2> QED BY <2>4, <2>6, <2>8, <2>9, <2>10 DEF StoreInv, Synced, Steady, AssignmentStored, TasksStored
  <1> QED BY <1>6, <1>7

-----------------------------------------------------------------------------
(* Statements. *)

\* A statement that is refused: the fleet of a ship is gone.
LEMMA RefusedStores ==
  ASSUME IInv, StoreInv, todo # <<>>, Head(todo) \in Writes, ~ ForeignKeys(Stored(Head(todo), Keys(Head(todo)))),
         GiveUp, UNCHANGED <<db, owned, failures, dead>>,
         admiral' = IF stage = "starting" THEN NoAdmiral ELSE admiral
  PROVE  StoreInv'
  <1>1. Head(todo) = "UpsertAssignment" /\ ~ EveryFleetExists BY Accepted
  <1>2. stage \in {"starting", "running"} /\ Agenda(todo, report.type) /\ todo \in Seq(Steps) BY HeadKind
  <1>3. todo' = <<>> /\ report' = NoReport /\ stage' = IF stage = "starting" THEN "down" ELSE stage BY DEF GiveUp
  <1>4. \A x : ~ In(todo', x) BY <1>3 DEF In
  <1>5. ReadyToStart' BY <1>2, <1>3, GivenUpReady
  <1>6. CASE stage = "starting"
    <2>1. ~ Sound' BY <1>3, <1>6 DEF Sound, Loaded
    <2> QED BY <1>5, <2>1, UnsoundStore
  <1>7. CASE stage = "running"
    <2>1. report.type # "start" BY <1>7, HeadKind
    <2>2. \A x : In(todo, x) => x \in {"UpsertAssignment", "SaveShipTasks", "LaunchNew", "Relaunch"}
      BY <1>1, <1>2, <2>1, AgendaStep
    <2>3. /\ ~ In(todo, "DeleteFleet") /\ ~ In(todo, "UpsertFleets") /\ ~ In(todo, "UpsertFleetTasks")
          /\ ~ In(todo, "Register") /\ ~ In(todo, "ComputeTasks")
      BY <2>2
    <2>4. Loaded BY <1>7, LoadedNow
    <2>5. Sound' => Sound BY <1>3, <1>7, <2>4 DEF Sound
    <2>6. admiral' = admiral BY <1>7
    <2>7. FleetsStored => FleetsStored' BY <1>4, <2>3, <2>6 DEF FleetsStored, Doomed
    <2>8. ShipsStored => ShipsStored' BY <1>4, <2>3, <2>6 DEF ShipsStored, Joining
    <2>9. AssignmentStored' /\ TasksStored' BY <1>1, <2>6 DEF AssignmentStored, TasksStored, EveryFleetExists
    <2>10. PhaseKept => PhaseKept' BY <1>4, <2>3, <2>6 DEF PhaseKept, Mid
    <2> QED BY <1>5, <2>5, <2>7, <2>8, <2>9, <2>10 DEF StoreInv, Synced, Steady
  <1> QED BY <1>2, <1>6, <1>7

\* What the statement changes.
LEMMA StoredRows ==
  ASSUME IInv, todo # <<>>, Head(todo) \in Writes, db' = Stored(Head(todo), Keys(Head(todo)))
  PROVE  /\ Head(todo) # "StoreShips" => db'.ships = db.ships
         /\ Head(todo) = "StoreShips" => db'.ships = db.ships \cup IF report = Starting THEN owned ELSE {report.ship}
         /\ Head(todo) \notin {"UpsertFleets", "DeleteFleet"} => db'.fleets = db.fleets
         /\ Head(todo) = "UpsertFleets" => db'.fleets = db.fleets \cup admiral.fleets
         /\ Head(todo) = "DeleteFleet" => db'.fleets = db.fleets \ {report.fleet}
         /\ Head(todo) \notin {"UpsertFleetTasks", "DeleteTasks"} => db'.fleet_tasks = db.fleet_tasks
         /\ Head(todo) = "UpsertFleetTasks" => \A f \in admiral.fleets : db'.fleet_tasks[f] # "no_row"
         /\ Head(todo) \notin {"UpsertAssignment", "DeleteAssignments"} => db'.assignment = db.assignment
         /\ Head(todo) = "UpsertAssignment" => \A s \in Ships : admiral.assignment[s] \in {NoFleet, db'.assignment[s]}
         /\ Head(todo) # "SaveShipTasks" => db'.ship_tasks = db.ship_tasks
         /\ Head(todo) = "SaveShipTasks" => \A s \in Ships : admiral.ship_tasks[s] \in {NoTask, db'.ship_tasks[s]}
  <1> DEFINE rows == Keys(Head(todo))
  <1>1. db \in Tables /\ admiral \in Admirals /\ Knows(admiral, db) BY DEF IInv, AdmiralKnows
  <1>2. CASE Head(todo) = "StoreShips"
    <2>1. db' = [db EXCEPT !.ships = @ \cup rows] BY <1>2 DEF Stored
    <2>2. rows = IF report = Starting THEN owned ELSE {report.ship} BY <1>2 DEF Keys
    <2> HIDE DEF rows
    <2> QED BY <1>1, <1>2, <2>1, <2>2 DEF Tables
  <1>3. CASE Head(todo) = "UpsertFleets"
    <2>1. db' = [db EXCEPT !.fleets = @ \cup rows] BY <1>3 DEF Stored
    <2>2. rows = admiral.fleets BY <1>3 DEF Keys
    <2> HIDE DEF rows
    <2> QED BY <1>1, <1>3, <2>1, <2>2 DEF Tables
  <1>4. CASE Head(todo) = "UpsertFleetTasks"
    <2> DEFINE m == [f \in FleetTasks |-> IF f \in rows THEN admiral.fleet_tasks[f] ELSE db.fleet_tasks[f]]
    <2>1. db' = [db EXCEPT !.fleet_tasks = m] BY <1>4 DEF Stored
    <2>2. rows = {f \in FleetTasks : admiral.fleet_tasks[f] # "no_row"} BY <1>4 DEF Keys
    <2>3. \A f \in admiral.fleets : f \in FleetTasks /\ f \in rows BY <1>1, <2>2 DEF Knows, Admirals
    <2>4. \A f \in admiral.fleets : m[f] # "no_row" BY <1>1, <2>3 DEF Knows
    <2> HIDE DEF rows, m
    <2> QED BY <1>1, <1>4, <2>1, <2>4 DEF Tables
  <1>5. CASE Head(todo) = "UpsertAssignment"
    <2> DEFINE m == [s \in Ships |-> IF s \in rows THEN admiral.assignment[s] ELSE db.assignment[s]]
    <2>1. db' = [db EXCEPT !.assignment = m] BY <1>5 DEF Stored
    <2>2. rows = {s \in Ships : admiral.assignment[s] # NoFleet} BY <1>5 DEF Keys
    <2>3. \A s \in Ships : admiral.assignment[s] \in {NoFleet, m[s]} BY <2>2
    <2> HIDE DEF rows, m
    <2> QED BY <1>1, <1>5, <2>1, <2>3 DEF Tables
  <1>6. CASE Head(todo) = "SaveShipTasks"
    <2> DEFINE m == [s \in Ships |-> IF s \in rows THEN admiral.ship_tasks[s] ELSE db.ship_tasks[s]]
    <2>1. db' = [db EXCEPT !.ship_tasks = m] BY <1>6 DEF Stored
    <2>2. rows = {s \in Ships : admiral.ship_tasks[s] # NoTask} BY <1>6 DEF Keys
    <2>3. \A s \in Ships : admiral.ship_tasks[s] \in {NoTask, m[s]} BY <2>2
    <2> HIDE DEF rows, m
    <2> QED BY <1>1, <1>6, <2>1, <2>3 DEF Tables
  <1>7. CASE Head(todo) = "SaveCompleted"
    <2>1. db' = [db EXCEPT !.completed = @ \cup rows] BY <1>7 DEF Stored
    <2> HIDE DEF rows
    <2> QED BY <1>1, <1>7, <2>1 DEF Tables
  <1>8. CASE Head(todo) = "DeleteAssignments"
    <2> DEFINE m == [s \in Ships |-> IF db.assignment[s] \in rows THEN NoFleet ELSE db.assignment[s]]
    <2>1. db' = [db EXCEPT !.assignment = m] BY <1>8 DEF Stored
    <2> HIDE DEF rows, m
    <2> QED BY <1>1, <1>8, <2>1 DEF Tables
  <1>9. CASE Head(todo) = "DeleteTasks"
    <2> DEFINE m == [f \in FleetTasks |-> IF f \in rows THEN "no_row" ELSE db.fleet_tasks[f]]
    <2>1. db' = [db EXCEPT !.fleet_tasks = m] BY <1>9 DEF Stored
    <2> HIDE DEF rows, m
    <2> QED BY <1>1, <1>9, <2>1 DEF Tables
  <1>10. CASE Head(todo) = "DeleteFleet"
    <2>1. db' = [db EXCEPT !.fleets = @ \ rows] BY <1>10 DEF Stored
    <2>2. rows = {report.fleet} BY <1>10 DEF Keys
    <2> HIDE DEF rows
    <2> QED BY <1>1, <1>10, <2>1, <2>2 DEF Tables
  <1> QED BY <1>2, <1>3, <1>4, <1>5, <1>6, <1>7, <1>8, <1>9, <1>10 DEF Writes

\* A start that creates the admiral has stored the agent's ships.
LEMMA StoreShipsReady ==
  ASSUME IInv, StoreInv, todo # <<>>, Head(todo) = "StoreShips", Proceed, UNCHANGED <<admiral, owned, stage>>,
         db' = Stored("StoreShips", Keys("StoreShips"))
  PROVE  ReadyToStart'
  <1>1. "StoreShips" \in Writes BY DEF Writes
  <1>2. db'.fleets = db.fleets /\ db'.ships = db.ships \cup IF report = Starting THEN owned ELSE {report.ship}
    BY <1>1, StoredRows
  <1>3. db'.ships # {} BY <1>2 DEF StoreInv, ReadyToStart
  <1>4. /\ \A x : In(todo, x) <=> x = Head(todo) \/ In(todo', x)
        /\ ~ In(todo', "Load") /\ In(todo', IF report.type = "start" THEN "Create" ELSE "Register")
    BY GoingOn
  <1>5. Loaded' => admiral'.all_ships # {}
    <2>1. CASE report.type = "start" BY <1>4, <2>1 DEF Loaded
    <2>2. CASE report.type # "start"
      <3>1. stage = "running" BY <2>2, HeadKind
      <3> QED BY <3>1, LoadedNow DEF StoreInv, ReadyToStart
    <2> QED BY <2>1, <2>2
  <1> QED BY <1>2, <1>3, <1>4, <1>5 DEF ReadyToStart, StoreInv

LEMMA WriteStores ==
  ASSUME IInv, StoreInv, NEW step \in Writes, Write(step)
  PROVE  StoreInv'
  <1>1. /\ todo # <<>> /\ Head(todo) = step /\ UNCHANGED <<owned, failures, dead>> BY DEF Write, Does, world, bounds
  <1>2. CASE ~ ForeignKeys(Stored(step, Keys(step)))
    <2>1. GiveUp /\ UNCHANGED db /\ admiral' = IF stage = "starting" THEN NoAdmiral ELSE admiral BY <1>2 DEF Write
    <2> QED BY <1>1, <1>2, <2>1, RefusedStores
  <1>3. CASE ForeignKeys(Stored(step, Keys(step)))
    <2>1. db' = Stored(step, Keys(step)) /\ Proceed /\ stage' = stage /\ admiral' = admiral BY <1>3 DEF Write
    <2>2. step \notin {"Create", "Load", "ComputeTasks", "NewFleets", "AssignShips", "Register"} BY DEF Writes
    <2>3. ReadyToStart' /\ (Sound' => Sound)
      <3>1. CASE step = "StoreShips"
        <4>1. ReadyToStart' BY <1>1, <2>1, <3>1, StoreShipsReady
        <4>2. Loaded' => Loaded
          <5>1. In(todo', IF report.type = "start" THEN "Create" ELSE "Register") BY <1>1, <2>1, <3>1, GoingOn
          <5>2. CASE report.type = "start" BY <5>1, <5>2 DEF Loaded
          <5>3. CASE report.type # "start"
            <6>1. stage = "running" BY <1>1, <5>3, HeadKind
            <6> QED BY <6>1, LoadedNow
          <5> QED BY <5>2, <5>3
        <4> QED BY <1>1, <4>1, <4>2 DEF Sound
      <3>2. CASE step # "StoreShips"
        <4>1. db'.fleets # {} => db'.ships # {}
          <5>1. db' \in CutOff
            <6>1. Keys(step) \in SUBSET Keys(step) OBVIOUS
            <6> QED BY <1>1, <1>3, <2>1, <6>1 DEF CutOff
          <5> QED BY <5>1, RowsGrow
        <4>2. ReadyToStart' /\ Loaded BY <1>1, <2>1, <2>2, <3>2, <4>1, ReadyOn
        <4> QED BY <1>1, <2>1, <4>2 DEF Sound
      <3> QED BY <3>1, <3>2
    <2>4. PhaseKept => PhaseKept' BY <1>1, <2>1, <2>2, PhaseStays
    <2>5. SUFFICES ASSUME Sound', FleetsStored, ShipsStored, AssignmentStored, TasksStored
                   PROVE  FleetsStored' /\ ShipsStored' /\ AssignmentStored' /\ TasksStored'
      BY <2>3, <2>4 DEF StoreInv, Synced, Steady
    <2>6. /\ \A x : In(todo, x) <=> x = Head(todo) \/ In(todo', x)
          /\ (\E x : In(todo', x)) => report' = report
      BY <1>1, <2>1, GoingOn
    <2>7. CASE step \in {"DeleteAssignments", "DeleteTasks", "DeleteFleet"}
      <3>1. In(todo, step) BY <1>1, <2>6
      <3>2. Redoing /\ ~ In(todo, "Register") BY <1>1, <2>7, <3>1, KindOfStep
      <3>3. step \in Makers BY <2>7 DEF Makers
      <3>4. ShipsStored'
        <4>1. db'.ships = db.ships BY <1>1, <2>1, <2>7, StoredRows
        <4> QED BY <1>1, <2>1, <2>2, <4>1, <2>5, ShipsStay
      <3>5. db'.fleets \subseteq admiral'.fleets \cup Doomed'
        <4>1. db.fleets \subseteq admiral.fleets \cup Doomed BY <2>5 DEF FleetsStored
        <4>2. CASE step = "DeleteFleet"
          <5>1. db'.fleets = db.fleets \ {report.fleet} BY <1>1, <2>1, <4>2, StoredRows
          <5> QED BY <2>1, <4>1, <5>1 DEF Doomed
        <4>3. CASE step # "DeleteFleet"
          <5>1. db'.fleets = db.fleets BY <1>1, <2>1, <2>7, <4>3, StoredRows
          <5>2. Doomed' = Doomed BY <1>1, <2>6, <4>3 DEF Doomed
          <5> QED BY <2>1, <4>1, <5>1, <5>2
        <4> QED BY <4>2, <4>3
      <3>6. Synced' BY <1>1, <2>1, <2>2, <3>2, <3>3, <3>4, <3>5, MadeStore
      <3> QED BY <2>5, <3>6 DEF Synced
    <2>8. CASE step \notin {"DeleteAssignments", "DeleteTasks", "DeleteFleet"}
      <3>1. FleetsStored'
        <4>1. CASE step \notin {"UpsertFleets", "UpsertFleetTasks"}
          <5>1. db'.fleets = db.fleets /\ db'.fleet_tasks = db.fleet_tasks BY <1>1, <2>1, <2>8, <4>1, StoredRows
          <5> QED BY <1>1, <2>1, <2>5, <2>8, <4>1, <5>1, FleetsStay
        <4>2. Doomed' = Doomed BY <1>1, <2>6, <2>8 DEF Doomed
        <4>3. CASE step = "UpsertFleets"
          <5>1. db'.fleets = db.fleets \cup admiral.fleets /\ db'.fleet_tasks = db.fleet_tasks BY <1>1, <2>1, <4>3, StoredRows
          <5>2. In(todo, "UpsertFleetTasks") /\ Redoing => In(todo', "UpsertFleetTasks") /\ Redoing'
            BY <1>1, <2>6, <4>3 DEF Redoing
          <5> QED BY <2>1, <2>5, <4>2, <5>1, <5>2 DEF FleetsStored
        <4>4. CASE step = "UpsertFleetTasks"
          <5>1. db'.fleets = db.fleets /\ \A f \in admiral.fleets : db'.fleet_tasks[f] # "no_row"
            BY <1>1, <2>1, <4>4, StoredRows
          <5>2. In(todo, "UpsertFleets") /\ Redoing => In(todo', "UpsertFleets") /\ Redoing'
            BY <1>1, <2>6, <4>4 DEF Redoing
          <5> QED BY <2>1, <2>5, <4>2, <5>1, <5>2 DEF FleetsStored
        <4> QED BY <4>1, <4>3, <4>4
      <3>2. ShipsStored'
        <4>1. CASE step # "StoreShips"
          <5>1. db'.ships = db.ships BY <1>1, <2>1, <4>1, StoredRows
          <5> QED BY <1>1, <2>1, <2>2, <2>5, <5>1, ShipsStay
        <4>2. CASE step = "StoreShips"
          <5>1. db'.ships = db.ships \cup IF report = Starting THEN owned ELSE {report.ship} BY <1>1, <2>1, <4>2, StoredRows
          <5>2. report' = report /\ In(todo', IF report.type = "start" THEN "Create" ELSE "Register")
            BY <1>1, <2>1, <4>2, GoingOn
          <5>3. report.type # "start" /\ report # Starting
            <6>1. report.type # "start" BY <2>5, <5>2 DEF Sound, Loaded
            <6> QED BY <6>1, ReportKinds
          <5>4. ~ In(todo, "Register") \/ In(todo, "Register") OBVIOUS
          <5>5. Joining' = {report.ship} /\ Joining \subseteq {report.ship} BY <5>2, <5>3 DEF Joining
          <5> QED BY <2>1, <2>5, <5>1, <5>3, <5>5 DEF ShipsStored
        <4> QED BY <4>1, <4>2
      <3>3. AssignmentStored'
        <4>1. CASE step # "UpsertAssignment"
          <5>1. db'.assignment = db.assignment BY <1>1, <2>1, <2>8, <4>1, StoredRows
          <5> QED BY <1>1, <2>1, <2>2, <2>5, <4>1, <5>1, AssignmentStays
        <4>2. CASE step = "UpsertAssignment"
          <5>1. \A s \in Ships : admiral.assignment[s] \in {NoFleet, db'.assignment[s]} BY <1>1, <2>1, <4>2, StoredRows
          <5> QED BY <2>1, <5>1 DEF AssignmentStored
        <4> QED BY <4>1, <4>2
      <3>4. TasksStored'
        <4>1. CASE step # "SaveShipTasks"
          <5>1. db'.ship_tasks = db.ship_tasks BY <1>1, <2>1, <4>1, StoredRows
          <5> QED BY <1>1, <2>1, <2>2, <2>5, <4>1, <5>1, TasksStay
        <4>2. CASE step = "SaveShipTasks"
          <5>1. \A s \in Ships : admiral.ship_tasks[s] \in {NoTask, db'.ship_tasks[s]} BY <1>1, <2>1, <4>2, StoredRows
          <5> QED BY <2>1, <5>1 DEF TasksStored
        <4> QED BY <4>1, <4>2
      <3> QED BY <3>1, <3>2, <3>3, <3>4
    <2> QED BY <2>7, <2>8
  <1> QED BY <1>2, <1>3

-----------------------------------------------------------------------------
(* Reports that are taken. *)

\* A report is taken: what it changes of the admiral is not in the tables, or will be stored.
LEMMA TakenStores ==
  ASSUME IInv, StoreInv, todo = <<>>, stage = "running", stage' = stage, NEW msg, NEW steps, Handle(msg, steps),
         UNCHANGED <<db, owned, failures, dead>>,
         UNCHANGED <<admiral.all_ships, admiral.fleets, admiral.assignment, admiral.phase, admiral.budgets>>,
         \A s \in Ships : admiral'.ship_tasks[s] \in {NoTask, admiral.ship_tasks[s]},
         ~ In(steps, "Create"), ~ In(steps, "Load"),
         In(steps, "ComputeTasks") => msg.type = "purchased" \/ (In(steps, "NewFleets") /\ In(steps, "AssignShips"))
  PROVE  StoreInv'
  <1>1. todo' = steps /\ report' = IF steps = <<>> THEN NoReport ELSE msg BY DEF Handle
  <1>2. (\A x : ~ In(todo, x)) /\ Loaded BY LoadedNow
  <1>3. ReadyToStart' BY <1>1, <1>2 DEF StoreInv, ReadyToStart
  <1>4. Sound' => Sound BY <1>2 DEF Sound
  <1>5. FleetsStored => FleetsStored' BY <1>2 DEF FleetsStored, Doomed
  <1>6. ShipsStored => ShipsStored' BY <1>2 DEF ShipsStored, Joining
  <1>7. AssignmentStored => AssignmentStored' BY <1>2 DEF AssignmentStored, EveryFleetExists
  <1>8. TasksStored => TasksStored' BY <1>2 DEF TasksStored, EveryFleetExists
  <1>9. PhaseKept => PhaseKept'
    <2>1. ~ Mid BY <1>2 DEF Mid
    <2>2. Mid' => In(todo', "NewFleets") /\ In(todo', "AssignShips")
      <3>1. In(todo', "ComputeTasks") => report' = msg BY <1>1 DEF In
      <3> QED BY <1>1, <3>1 DEF Mid, Redoing
    <2> QED BY <2>1, <2>2 DEF PhaseKept
  <1> QED BY <1>3, <1>4, <1>5, <1>6, <1>7, <1>8, <1>9 DEF StoreInv, Synced, Steady

LEMMA PlansOf ==
  /\ In(DismantleSteps, "NewFleets") /\ In(DismantleSteps, "AssignShips")
  /\ \A x \in {"Create", "Load"} : ~ In(DismantleSteps, x) /\ ~ In(NewTaskSteps, x) /\ ~ In(NewShipSteps, x)
  /\ ~ In(NewTaskSteps, "ComputeTasks")
  /\ \A x \in {"Create", "Load", "ComputeTasks"} : ~ In(<<>>, x) /\ ~ In(<<"SaveCompleted">>, x) /\ ~ In(<<"SaveShipTasks">>, x)
  <1>1. Len(DismantleSteps) = 13 /\ DismantleSteps[6] = "NewFleets" /\ DismantleSteps[7] = "AssignShips"
        /\ \A i \in DOMAIN DismantleSteps : DismantleSteps[i] \notin {"Create", "Load"}
    BY DismantlePlan
  <1>2. \A i \in DOMAIN NewTaskSteps : NewTaskSteps[i] \notin {"Create", "Load", "ComputeTasks"} BY NewTaskPlan
  <1>3. \A i \in DOMAIN NewShipSteps : NewShipSteps[i] \notin {"Create", "Load"} BY NewShipPlan
  <1>4. 6 \in DOMAIN DismantleSteps /\ 7 \in DOMAIN DismantleSteps BY <1>1, ReportPlans
  <1>5. \A x \in {"Create", "Load", "ComputeTasks"} : ~ In(<<>>, x) /\ ~ In(<<"SaveCompleted">>, x) /\ ~ In(<<"SaveShipTasks">>, x)
    BY DEF In
  <1> QED BY <1>1, <1>2, <1>3, <1>4, <1>5 DEF In

LEMMA WithoutTaskOnly ==
  ASSUME admiral \in Admirals, NEW r
  PROVE  /\ WithoutTask(r).all_ships = admiral.all_ships /\ WithoutTask(r).fleets = admiral.fleets
         /\ WithoutTask(r).assignment = admiral.assignment /\ WithoutTask(r).phase = admiral.phase
         /\ WithoutTask(r).budgets = admiral.budgets
         /\ \A s \in Ships : WithoutTask(r).ship_tasks[s] \in {NoTask, admiral.ship_tasks[s]}
  BY DEF WithoutTask, Admirals, TaskMaps

LEMMA TakeStores ==
  ASSUME IInv, StoreInv, TakeStep
  PROVE  StoreInv'
  <1>1. admiral \in Admirals BY DEF IInv
  <1>2. UNCHANGED <<db, owned, failures>>
    BY DEF TakeStep, TakeCollected, TakeExplored, TakeTraded, TakeMined, TakePurchased, taker_else, bounds
  <1>3. stage = "running" /\ todo = <<>>
    BY DEF TakeStep, TakeCollected, TakeExplored, TakeTraded, TakeMined, TakePurchased, Takes, Free
  <1> DEFINE msg == Head(reports)
             left == WithoutTask(msg.ship)
  <1>4. /\ left.all_ships = admiral.all_ships /\ left.fleets = admiral.fleets
        /\ left.assignment = admiral.assignment /\ left.phase = admiral.phase /\ left.budgets = admiral.budgets
        /\ \A s \in Ships : left.ship_tasks[s] \in {NoTask, admiral.ship_tasks[s]}
    BY <1>1, WithoutTaskOnly
  <1>5. CASE TakeCollected
    <2>1. UNCHANGED <<stage, dead>> BY <1>5 DEF TakeCollected
    <2>2. /\ UNCHANGED <<admiral.all_ships, admiral.fleets, admiral.assignment, admiral.phase, admiral.budgets>>
          /\ admiral'.ship_tasks = admiral.ship_tasks
      BY <1>1, <1>5 DEF TakeCollected, Admirals
    <2>3. Handle(msg, <<"SaveCompleted">>) \/ Handle(msg, <<"SaveShipTasks">>) \/ Handle(msg, <<>>)
      BY <1>5 DEF TakeCollected
    <2> HIDE DEF msg, left
    <2>4. CASE Handle(msg, <<"SaveCompleted">>) BY <1>2, <1>3, <2>1, <2>2, <2>4, PlansOf, TakenStores
    <2>5. CASE Handle(msg, <<"SaveShipTasks">>) BY <1>2, <1>3, <2>1, <2>2, <2>5, PlansOf, TakenStores
    <2>6. CASE Handle(msg, <<>>) BY <1>2, <1>3, <2>1, <2>2, <2>6, PlansOf, TakenStores
    <2> QED BY <2>3, <2>4, <2>5, <2>6
  <1>6. CASE TakeExplored
    <2>1. \/ admiral' = left /\ (\E fleet : Handle([msg EXCEPT !.fleet = fleet], DismantleSteps)) /\ UNCHANGED <<stage, dead>>
          \/ PanicWith(left)
      BY <1>6 DEF TakeExplored
    <2> HIDE DEF msg, left
    <2>2. CASE PanicWith(left) BY <1>2, <1>3, <1>4, <2>2, PanicStores
    <2>3. CASE admiral' = left /\ (\E fleet : Handle([msg EXCEPT !.fleet = fleet], DismantleSteps)) /\ UNCHANGED <<stage, dead>>
      <3>1. PICK fleet : Handle([msg EXCEPT !.fleet = fleet], DismantleSteps) BY <2>3
      <3> DEFINE with == [msg EXCEPT !.fleet = fleet]
      <3> HIDE DEF with
      <3>2. Handle(with, DismantleSteps) BY <3>1 DEF with
      <3> QED BY <1>2, <1>3, <1>4, <2>3, <3>2, PlansOf, TakenStores
    <2> QED BY <2>1, <2>2, <2>3
  <1>7. CASE TakeTraded
    <2>1. PICK p \in PurchaseOutcomes(left, [demand |-> left.demand, tickets |-> tickets]) :
          \E o \in ComputeOutcomes(left, p) :
              LET next == [left EXCEPT !.demand = o.plan.demand]
              IN  IF HasBudgets(left)
                  THEN /\ admiral' = next
                       /\ Handle([msg EXCEPT !.task = o.tasks[msg.ship]],
                                 IF o.tasks[msg.ship] = NoTask THEN <<>> ELSE NewTaskSteps)
                       /\ UNCHANGED <<stage, dead>>
                  ELSE PanicWith(next)
      BY <1>7 DEF TakeTraded
    <2>2. PICK o \in ComputeOutcomes(left, p) :
              LET next == [left EXCEPT !.demand = o.plan.demand]
              IN  IF HasBudgets(left)
                  THEN /\ admiral' = next
                       /\ Handle([msg EXCEPT !.task = o.tasks[msg.ship]],
                                 IF o.tasks[msg.ship] = NoTask THEN <<>> ELSE NewTaskSteps)
                       /\ UNCHANGED <<stage, dead>>
                  ELSE PanicWith(next)
      BY <2>1
    <2> DEFINE next == [left EXCEPT !.demand = o.plan.demand]
               with == [msg EXCEPT !.task = o.tasks[msg.ship]]
    <2>3. \/ /\ admiral' = next /\ UNCHANGED <<stage, dead>>
             /\ Handle(with, <<>>) \/ Handle(with, NewTaskSteps)
          \/ PanicWith(next)
      BY <2>2
    <2>4. /\ next.all_ships = left.all_ships /\ next.fleets = left.fleets
          /\ next.assignment = left.assignment /\ next.phase = left.phase /\ next.budgets = left.budgets
          /\ next.ship_tasks = left.ship_tasks
      <3>1. left = [admiral EXCEPT !.ship_tasks[msg.ship] = NoTask] BY DEF WithoutTask
      <3> HIDE DEF msg, left
      <3> QED BY <1>1, <3>1 DEF Admirals
    <2> HIDE DEF next, with, msg, left
    <2>5. CASE PanicWith(next) BY <1>2, <1>3, <1>4, <2>4, <2>5, PanicStores
    <2>6. CASE admiral' = next /\ UNCHANGED <<stage, dead>> /\ Handle(with, <<>>)
      BY <1>2, <1>3, <1>4, <2>4, <2>6, PlansOf, TakenStores
    <2>7. CASE admiral' = next /\ UNCHANGED <<stage, dead>> /\ Handle(with, NewTaskSteps)
      BY <1>2, <1>3, <1>4, <2>4, <2>7, PlansOf, TakenStores
    <2> QED BY <2>3, <2>5, <2>6, <2>7
  <1>8. CASE TakeMined
    <2>1. admiral' = left /\ Handle(msg, NewTaskSteps) /\ UNCHANGED <<stage, dead>> BY <1>8 DEF TakeMined
    <2> HIDE DEF msg, left
    <2> QED BY <1>2, <1>3, <1>4, <2>1, PlansOf, TakenStores
  <1>9. CASE TakePurchased
    <2>1. UNCHANGED <<admiral, stage, dead>> /\ Handle(msg, NewShipSteps) /\ msg.type = "purchased"
      BY <1>9 DEF TakePurchased, Takes
    <2> HIDE DEF msg, left
    <2> QED BY <1>2, <1>3, <2>1, PlansOf, TakenStores
  <1> QED BY <1>5, <1>6, <1>7, <1>8, <1>9 DEF TakeStep

LEMMA StoreStep ==
  ASSUME IInv, StoreInv, [Next]_vars
  PROVE  StoreInv'
  <1>1. CASE Start BY <1>1, StartStores
  <1>2. CASE StartUpStep BY <1>2, CreateStores, LoadStores, ListenStores DEF StartUpStep
  <1>3. CASE WriteStep
    <2>1. PICK step \in Writes : Write(step) BY <1>3 DEF WriteStep
    <2> QED BY <2>1, WriteStores
  <1>4. CASE HandlerStep
    BY <1>4, ComputeTasksStores, DismantleStores, NewFleetsStores, AssignShipsStores, LaunchesStore, AssignTaskStores,
       RegisterStores DEF HandlerStep
  <1>5. CASE TakeStep BY <1>5, TakeStores
  <1>6. CASE Fail BY <1>6, FailStores
  <1>7. CASE Crash BY <1>7, CrashStores
  <1>8. ASSUME \/ ExploreStep \/ BuyStep \/ EndStep \/ (\E s \in Ships : LaunchShip(s) \/ SendStep(s) \/ SweepRelaunch(s))
               \/ ForwardAction \/ SweepSnapshot \/ SweepFilter \/ UNCHANGED vars
        PROVE  StoreInv'
    <2>1. UNCHANGED <<db, stage, under_lock, failures>> /\ owned \subseteq owned' /\ dead \subseteq dead'
      BY <1>8 DEF ExploreStep, BuyStep, EndStep, SendStep, Explore, BuyShip, FinishBehaviour, BehaviourFails, SendReport,
                  LaunchShip, SweepRelaunch, ForwardAction, SweepSnapshot, SweepFilter, vars, process_else, bounds, world
    <2> QED BY <2>1, UnchangedStore
  <1> QED BY <1>1, <1>2, <1>3, <1>4, <1>5, <1>6, <1>7, <1>8 DEF Next

LEMMA AlwaysStored == Spec => [](IInv /\ StoreInv)
  <1>1. Init => IInv /\ StoreInv BY InitInv, InitStore
  <1>2. (IInv /\ StoreInv) /\ [Next]_vars => (IInv /\ StoreInv)' BY InvariantStep, StoreStep
  <1> QED BY <1>1, <1>2, PTL DEF Spec

LEMMA SettledIsSound ==
  ASSUME IInv, StoreInv, Settled
  PROVE  /\ Sound /\ FleetsStored /\ ShipsStored /\ AssignmentStored /\ TasksStored /\ PhaseKept
         /\ \A x : ~ In(todo, x)
  <1>1. stage = "running" /\ todo = <<>> /\ failures = 0 /\ "status" \notin dead BY DEF Settled, Free
  <1>2. Sound BY <1>1, LoadedNow DEF Sound
  <1> QED BY <1>1, <1>2, LoadedNow DEF StoreInv, Synced, Steady

\* When a report is done, and nothing has failed, the tables are what a restart needs:
\* the fleets and the ships are the admiral's, and so are the fleet and the task of
\* every ship that has one.
THEOREM SettledStateIsStored == Spec => []SettledAdmiralIsStored
  <1>1. IInv /\ StoreInv => SettledAdmiralIsStored
    <2> SUFFICES ASSUME IInv, StoreInv, Settled, EveryFleetExists
                 PROVE  /\ db.fleets = admiral.fleets /\ db.ships = admiral.all_ships
                        /\ \A s \in Ships : /\ admiral.assignment[s] \in {NoFleet, db.assignment[s]}
                                            /\ admiral.ship_tasks[s] \in {NoTask, db.ship_tasks[s]}
      BY DEF SettledAdmiralIsStored
    <2>1. /\ FleetsStored /\ ShipsStored /\ AssignmentStored /\ TasksStored
          /\ \A x : ~ In(todo, x)
      BY SettledIsSound
    <2>2. admiral.all_ships \subseteq db.ships BY DEF IInv, AdmiralKnows, Knows
    <2> QED BY <2>1, <2>2 DEF FleetsStored, ShipsStored, AssignmentStored, TasksStored, Doomed, Joining
  <1> QED BY <1>1, AlwaysStored, PTL

\* Between two reports the admiral has exactly the fleets of its phase, each with a
\* budget and a row of tasks: NewFleets only adds fleets and Dismantle removes one,
\* and the computation of tasks panics at a fleet without a budget.
THEOREM SettledFleetsFollowThePhase == Spec => []FleetsFollowThePhase
  <1>1. IInv /\ StoreInv => FleetsFollowThePhase
    <2> SUFFICES ASSUME IInv, StoreInv, Settled
                 PROVE  /\ admiral.fleets = Range(PhaseTasks(admiral.phase))
                        /\ admiral.budgets = admiral.fleets
                        /\ \A f \in admiral.fleets : db.fleet_tasks[f] # "no_row"
      BY DEF FleetsFollowThePhase
    <2>1. FleetsStored /\ PhaseKept /\ \A x : ~ In(todo, x) BY SettledIsSound
    <2> QED BY <2>1 DEF FleetsStored, PhaseKept, Mid
  <1> QED BY <1>1, AlwaysStored, PTL

-----------------------------------------------------------------------------
(* The ships that are bought, from the ticket to the fiber. *)

Unbroken == crashes = 0 /\ failures = 0

Begun(completed) == explored \/ "InitialExploration" \in completed

\* the fleets for which a phase that follows from these tasks may buy ships
Asked(completed) == Buyers(IF Begun(completed) THEN "ConstructJumpGate" ELSE "InitialExploration")

\* the purchases that the admiral has not heard of
Bought == {m \in Range(actions) \cup Range(reports) : m.type = "purchased"}

\* the ship that has joined and is to be launched
ToLaunch == IF In(todo, "LaunchNew") /\ ~ In(todo, "Register") THEN {report.ship} ELSE {}

WorldKnows ==
    /\ db.ships \subseteq owned
    /\ "actions" \in dead => "status" \in dead
    /\ stage = "starting" => "status" \notin dead
    /\ stage # "running" => Bought = {}

\* Until the process has run once the agent has the ships it began with.
FirstStart ==
    /\ db.ships = {} \/ InitialShips \subseteq db.ships
    /\ Loaded => InitialShips \subseteq admiral.all_ships
    /\ stage # "running" => owned = InitialShips /\ \A t \in tickets : t.for \in Asked(db.completed)
    /\ stage = "starting" /\ Loaded => admiral.completed = db.completed

\* A ship is wanted, bought and registered for a fleet of the phase.
Wanting ==
    /\ \A t \in tickets : t.for \in Buyers(admiral.phase)
    /\ \A m \in Bought : m.fleet \in Buyers(admiral.phase)
    /\ report.type = "purchased" => report.fleet \in Buyers(admiral.phase)
    /\ \A i \in DOMAIN admiral.demand : admiral.demand[i].for \in Buyers(admiral.phase)

Growing ==
    /\ EveryFleetExists /\ Wanting
    /\ admiral.phase # "InitialExploration" => Begun(admiral.completed)
    /\ ~ Mid => admiral.phase # "TradeProfitably"

\* Every ship is known, announced or about to join; every known one has a fiber's
\* place, waits for the launcher or is the one to be launched.
Tracked ==
    /\ owned \subseteq admiral.all_ships \cup {m.ship : m \in Bought} \cup Joining
    /\ admiral.all_ships \subseteq ship_ops \cup launching.left \cup ToLaunch

GrowInv ==
    /\ WorldKnows
    /\ Unbroken => FirstStart
    /\ Unbroken /\ Sound => Growing
    /\ Unbroken /\ Sound /\ stage = "running" /\ "launcher" \notin dead => Tracked

\* The fleets that buy, and the phases that come next.
LEMMA BuyersGrow ==
  /\ \A phase \in Phases : Buyers("InitialExploration") \subseteq Buyers(phase)
  /\ Buyers("ConstructJumpGate") = Buyers("TradeProfitably")
  /\ \A completed : Asked(completed) = Buyers(CurrentPhase(completed))
  /\ \A completed : CurrentPhase(completed) # "InitialExploration" => Begun(completed)
  /\ \A phase \in Phases : \A completed :
        (phase # "InitialExploration" => Begun(completed)) => Buyers(phase) \subseteq Asked(completed)
  <1>1. \A completed : CurrentPhase(completed) = "InitialExploration" <=> ~ Begun(completed)
    BY DEF CurrentPhase, PhaseOf, Begun
  <1>2. \A phase \in Phases : Buyers(phase) = IF phase = "InitialExploration" THEN {"ObserveAllWaypoints"}
                                     ELSE {"ObserveAllWaypoints", "ConstructJumpGate", "MineOres", "SiphonGases"}
    BY DEF Buyers
  <1>3. "ConstructJumpGate" \in Phases /\ "TradeProfitably" \in Phases /\ "InitialExploration" \in Phases BY DEF Phases
  <1> QED BY <1>1, <1>2, <1>3, PhaseTyped DEF Asked

LEMMA RangeOfNone == Range(<<>>) = {} BY DEF Range

LEMMA RangeOfChannel ==
  ASSUME NEW S, NEW q \in Seq(S)
  PROVE  /\ \A m \in S : Range(Append(q, m)) = Range(q) \cup {m}
         /\ q # <<>> => Range(q) = Range(Tail(q)) \cup {Head(q)}
  <1>1. \A m \in S : Range(Append(q, m)) = Range(q) \cup {m}
    <2> TAKE m \in S
    <2>1. Append(q, m) \in Seq(S) /\ Len(Append(q, m)) = Len(q) + 1 /\ Len(q) \in Nat
          /\ (\A i \in 1..Len(q) : Append(q, m)[i] = q[i]) /\ Append(q, m)[Len(q) + 1] = m
      BY AppendProperties
    <2>2. DOMAIN Append(q, m) = 1..(Len(q) + 1) /\ DOMAIN q = 1..Len(q) BY <2>1
    <2>3. \A i \in 1..(Len(q) + 1) : i \in 1..Len(q) \/ i = Len(q) + 1 BY <2>1
    <2>4. \A i \in 1..Len(q) : i \in 1..(Len(q) + 1) BY <2>1
    <2>5. Len(q) + 1 \in 1..(Len(q) + 1) BY <2>1
    <2> QED BY <2>1, <2>2, <2>3, <2>4, <2>5 DEF Range
  <1>2. ASSUME q # <<>> PROVE Range(q) = Range(Tail(q)) \cup {Head(q)}
    <2>1. Tail(q) \in Seq(S) /\ Len(Tail(q)) = Len(q) - 1 /\ Len(q) \in Nat \ {0} /\ Head(q) = q[1]
          /\ \A i \in 1..Len(Tail(q)) : Tail(q)[i] = q[i + 1]
      BY <1>2, HeadTailProperties
    <2>2. DOMAIN Tail(q) = 1..(Len(q) - 1) /\ DOMAIN q = 1..Len(q) BY <2>1
    <2>3. \A i \in 1..Len(q) : i = 1 \/ (i - 1 \in 1..(Len(q) - 1) /\ (i - 1) + 1 = i) BY <2>1
    <2>4. \A i \in 1..(Len(q) - 1) : i + 1 \in 1..Len(q) BY <2>1
    <2>5. 1 \in 1..Len(q) BY <2>1
    <2>6. \A i \in 1..Len(q) : q[i] = Head(q) \/ q[i] = Tail(q)[i - 1] BY <2>1, <2>2, <2>3
    <2>7. Range(q) \subseteq Range(Tail(q)) \cup {Head(q)}
      <3> SUFFICES ASSUME NEW i \in 1..Len(q) PROVE q[i] \in Range(Tail(q)) \cup {Head(q)} BY <2>2 DEF Range
      <3>1. CASE i = 1 BY <3>1, <2>1
      <3>2. CASE i - 1 \in DOMAIN Tail(q) /\ q[i] = Tail(q)[i - 1] BY <3>2 DEF Range
      <3> QED BY <2>2, <2>3, <2>6, <3>1, <3>2, <2>1
    <2>8. Range(Tail(q)) \subseteq Range(q)
      <3> SUFFICES ASSUME NEW i \in 1..(Len(q) - 1) PROVE Tail(q)[i] \in Range(q) BY <2>2 DEF Range
      <3>1. Tail(q)[i] = q[i + 1] /\ i + 1 \in DOMAIN q BY <2>1, <2>2, <2>4
      <3> QED BY <3>1 DEF Range
    <2>9. Head(q) \in Range(q) BY <2>1, <2>2, <2>5 DEF Range
    <2> QED BY <2>7, <2>8, <2>9
  <1> QED BY <1>1, <1>2

\* What a step that leaves the admiral, the agenda and the tables alone keeps.
LEMMA QuietGrows ==
  ASSUME IInv, GrowInv, UNCHANGED <<db, stage, under_lock, failures, crashes>>,
         explored => explored', tickets' \subseteq tickets,
         dead \subseteq dead', "actions" \in dead' => "status" \in dead', "status" \in dead' => "status" \in dead,
         owned \subseteq owned', stage # "running" => owned' = owned /\ Bought' = Bought,
         "status" \notin dead => Bought \subseteq Bought',
         \A m \in Bought' : m \in Bought \/ \E t \in tickets : m.fleet = t.for,
         owned' \subseteq owned \cup {m.ship : m \in Bought'},
         "launcher" \in dead' \/ ship_ops \cup launching.left \subseteq ship_ops' \cup launching'.left
  PROVE  GrowInv'
  <1>1. UNCHANGED <<admiral, todo, report>> BY DEF under_lock
  <1>2. Loaded' = Loaded /\ Mid' = Mid /\ Joining' = Joining /\ ToLaunch' = ToLaunch
    BY <1>1 DEF Loaded, Mid, Redoing, Joining, ToLaunch
  <1>3. Unbroken' = Unbroken /\ Sound' = Sound BY <1>2 DEF Unbroken, Sound
  <1>4. WorldKnows' BY DEF GrowInv, WorldKnows
  <1>5. \A completed : /\ Begun(completed) => Begun(completed)'
                       /\ Asked(completed) \subseteq Asked(completed)'
    <2>1. \A completed : Begun(completed) => Begun(completed)' BY DEF Begun
    <2>2. "ConstructJumpGate" \in Phases BY DEF Phases
    <2> QED BY <2>1, <2>2, BuyersGrow DEF Asked
  <1>6. Unbroken => FirstStart' BY <1>1, <1>2, <1>5 DEF GrowInv, FirstStart
  <1>7. ASSUME Unbroken, Sound PROVE Growing'
    <2>1. Growing BY <1>7 DEF GrowInv
    <2>2. EveryFleetExists' BY <1>1, <2>1 DEF Growing, EveryFleetExists
    <2>3. Wanting' BY <1>1, <2>1 DEF Growing, Wanting
    <2> QED BY <1>1, <1>2, <1>5, <2>1, <2>2, <2>3 DEF Growing
  <1>8. ASSUME Unbroken, Sound, stage = "running", "launcher" \notin dead' PROVE Tracked'
    <2>1. Tracked BY <1>8 DEF GrowInv
    <2>2. Bought \subseteq Bought' BY <1>8 DEF Sound
    <2> QED BY <1>1, <1>2, <1>8, <2>1, <2>2 DEF Tracked
  <1> QED BY <1>3, <1>4, <1>6, <1>7, <1>8 DEF GrowInv

\* Only a running process has fibers.
LEMMA FiberRuns ==
  ASSUME IInv, NEW s \in Ships, NEW i \in DOMAIN fibers[s]
  PROVE  stage = "running"
  <1>1. fibers[s] \in Seq(Fibers) BY DEF IInv, FibersKnown
  <1>2. fibers[s] # <<>> BY <1>1
  <1> QED BY <1>2 DEF IInv, FibersKnown

\* What a message adds to the purchases that are on their way.
LEMMA SentBought ==
  ASSUME IInv, NEW m, (actions' = Append(actions, m) /\ reports' = reports)
                      \/ (actions' = actions /\ reports' = Append(reports, m))
  PROVE  Bought' = IF m.type = "purchased" THEN Bought \cup {m} ELSE Bought
  <1> DEFINE S == Credible \cup {m}
  <1>1. actions \in Seq(Credible) /\ reports \in Seq(Credible) BY DEF IInv, ChannelsTyped
  <1>2. actions \in Seq(S) /\ reports \in Seq(S)
    <2>1. Credible \subseteq S OBVIOUS
    <2> HIDE DEF S, Credible
    <2> QED BY <1>1, <2>1, SeqMonotonic
  <1>3. m \in S OBVIOUS
  <1> HIDE DEF S
  <1>4. /\ Range(Append(actions, m)) = Range(actions) \cup {m}
        /\ Range(Append(reports, m)) = Range(reports) \cup {m}
    BY <1>2, <1>3, RangeOfChannel
  <1>5. Range(actions') \cup Range(reports') = Range(actions) \cup Range(reports) \cup {m} BY <1>4
  <1> QED BY <1>5 DEF Bought

\* Steps that send no purchase.
LEMMA StillGrows ==
  ASSUME IInv, GrowInv, UNCHANGED <<db, stage, under_lock, failures, crashes, owned, tickets, launching>>,
         explored => explored', ship_ops \subseteq ship_ops', Bought' = Bought,
         dead' = dead \/ dead' = dead \cup {"restart"}
  PROVE  GrowInv'
  <1>1. WorldKnows /\ stage' = stage BY DEF GrowInv
  <1>2. \A m \in Bought' : m \in Bought BY DEF Bought
  <1>3. "actions" \in dead' => "status" \in dead' BY <1>1 DEF WorldKnows
  <1>4. tickets' \subseteq tickets /\ owned' \subseteq owned \cup {m.ship : m \in Bought'} OBVIOUS
  <1>5. ship_ops \cup launching.left \subseteq ship_ops' \cup launching'.left OBVIOUS
  <1>6. "status" \in dead' => "status" \in dead OBVIOUS
  <1>7. dead \subseteq dead' /\ owned \subseteq owned' OBVIOUS
  <1> HIDE DEF Bought
  <1> QED BY <1>2, <1>3, <1>4, <1>5, <1>6, <1>7, QuietGrows

LEMMA ExploreGrows ==
  ASSUME IInv, GrowInv, NEW s \in Ships, NEW i \in DOMAIN fibers[s], NEW last \in BOOLEAN, Explore(s, i, last)
  PROVE  GrowInv'
  <1>1. /\ owned' = owned /\ tickets' = tickets /\ explored' = (explored \/ last)
        /\ actions' = Append(actions, Collected(s)) /\ reports' = reports
        /\ UNCHANGED <<db, stage, dead, under_lock, launching, ship_ops, sweep, bounds>>
    BY DEF Explore, process_else
  <1>2. Collected(s).type = "collected" BY DEF Collected, Message
  <1>3. Bought' = Bought
    <2> DEFINE m == Collected(s)
    <2>1. m.type # "purchased" BY <1>2
    <2> HIDE DEF m
    <2>2. Bought' = IF m.type = "purchased" THEN Bought \cup {m} ELSE Bought BY <1>1, SentBought DEF m
    <2> QED BY <2>1, <2>2
  <1> QED BY <1>1, <1>3, StillGrows DEF bounds

LEMMA EndGrows ==
  ASSUME IInv, GrowInv, NEW s \in Ships, NEW i \in DOMAIN fibers[s], FinishBehaviour(s, i) \/ BehaviourFails(s, i)
  PROVE  GrowInv'
  <1>1. UNCHANGED <<world, channels, db, stage, dead, under_lock, launching, ship_ops, crashes, failures>>
    BY DEF FinishBehaviour, BehaviourFails, process_else, bounds
  <1>2. Bought' = Bought BY <1>1 DEF channels, Bought
  <1> QED BY <1>1, <1>2, StillGrows DEF world

LEMMA SendGrows ==
  ASSUME IInv, GrowInv, NEW s \in Ships, NEW i \in DOMAIN fibers[s], SendReport(s, i)
  PROVE  GrowInv'
  <1> DEFINE m == Finished(s, fibers[s][i].task)
  <1>1. /\ actions' = actions /\ (reports' = reports \/ reports' = Append(reports, m))
        /\ UNCHANGED <<world, db, stage, dead, under_lock, launching, ship_ops, sweep, bounds>>
    BY DEF SendReport, process_else
  <1>2. m.type # "purchased" BY DEF Finished, Message
  <1> HIDE DEF m
  <1>3. Bought' = Bought
    <2>1. CASE reports' = reports BY <1>1, <2>1 DEF Bought
    <2>2. CASE reports' = Append(reports, m) BY <1>1, <1>2, <2>2, SentBought
    <2> QED BY <1>1, <2>1, <2>2
  <1> QED BY <1>1, <1>3, StillGrows DEF world, bounds

LEMMA SweepGrows ==
  ASSUME IInv, GrowInv, SweepSnapshot \/ SweepFilter \/ \E s \in Ships : SweepRelaunch(s)
  PROVE  GrowInv'
  <1>1. /\ UNCHANGED <<world, db, stage, under_lock, launching, ship_ops, channels, bounds>>
        /\ dead' = dead \/ dead' = dead \cup {"restart"}
    BY DEF SweepSnapshot, SweepFilter, SweepRelaunch, fiber_vars
  <1>2. Bought' = Bought BY <1>1 DEF channels, Bought
  <1> QED BY <1>1, <1>2, StillGrows DEF world, bounds

\* The message is passed on, or lost to a dead listener.
LEMMA ForwardGrows ==
  ASSUME IInv, GrowInv, ForwardAction
  PROVE  GrowInv'
  <1>1. /\ actions # <<>> /\ stage = "running"
        /\ \/ "status" \in dead /\ dead' = dead \cup {"actions"} /\ actions' = <<>> /\ reports' = reports
           \/ dead' = dead /\ reports' = Append(reports, Head(actions)) /\ actions' = Tail(actions)
        /\ UNCHANGED <<world, db, stage, under_lock, launching, fiber_vars, bounds>>
    BY DEF ForwardAction
  <1>2. UNCHANGED <<owned, tickets, explored, ship_ops, crashes, failures, db, stage, under_lock, launching>>
    BY <1>1 DEF world, fiber_vars, bounds
  <1>3. actions \in Seq(Credible) /\ reports \in Seq(Credible) BY DEF IInv, ChannelsTyped
  <1>4. WorldKnows BY DEF GrowInv
  <1> DEFINE S == Credible
  <1> HIDE DEF S
  <1>5. actions \in Seq(S) /\ reports \in Seq(S) BY <1>3 DEF S
  <1>6. CASE "status" \in dead /\ dead' = dead \cup {"actions"} /\ actions' = <<>> /\ reports' = reports
    <2>1. Range(actions') = {} BY <1>6, RangeOfNone
    <2>2. \A m \in Bought' : m \in Bought BY <1>6, <2>1 DEF Bought
    <2>3. "actions" \in dead' => "status" \in dead' BY <1>6
    <2>4. tickets' \subseteq tickets /\ owned' \subseteq owned \cup {m.ship : m \in Bought'} /\ dead \subseteq dead'
          /\ owned \subseteq owned' /\ ("status" \in dead' => "status" \in dead)
      BY <1>2, <1>6
    <2>5. ship_ops \cup launching.left \subseteq ship_ops' \cup launching'.left BY <1>2
    <2> HIDE DEF Bought
    <2> QED BY <1>1, <1>2, <1>6, <2>2, <2>3, <2>4, <2>5, QuietGrows
  <1>7. CASE dead' = dead /\ reports' = Append(reports, Head(actions)) /\ actions' = Tail(actions)
    <2>1. Head(actions) \in S BY <1>1, <1>5
    <2>2. Range(reports') = Range(reports) \cup {Head(actions)} BY <1>5, <1>7, <2>1, RangeOfChannel
    <2>3. Range(actions) = Range(actions') \cup {Head(actions)} BY <1>1, <1>5, <1>7, RangeOfChannel
    <2>4. Bought' = Bought BY <2>2, <2>3 DEF Bought
    <2> QED BY <1>2, <1>7, <2>4, StillGrows
  <1> QED BY <1>1, <1>6, <1>7

\* A purchase is announced by the step that makes it.
LEMMA BuyGrows ==
  ASSUME IInv, GrowInv, NEW s \in Ships, NEW i \in DOMAIN fibers[s], NEW t \in tickets, NEW new \in Ships,
         BuyShip(s, i, t, new)
  PROVE  GrowInv'
  <1> DEFINE m == Purchased(new, t.for)
  <1>1. /\ owned' = owned \cup {new} /\ tickets' = tickets \ {t} /\ explored' = explored
        /\ actions' = Append(actions, m) /\ reports' = reports
        /\ UNCHANGED <<db, stage, dead, under_lock, launching, ship_ops, bounds>>
    BY DEF BuyShip, process_else
  <1>2. m.type = "purchased" /\ m.ship = new /\ m.fleet = t.for BY DEF Purchased, Message
  <1>3. stage = "running" BY FiberRuns
  <1>4. WorldKnows BY DEF GrowInv
  <1> HIDE DEF m
  <1>5. Bought' = Bought \cup {m} BY <1>1, <1>2, SentBought
  <1>6. \A n \in Bought' : n \in Bought \/ \E k \in tickets : n.fleet = k.for BY <1>2, <1>5
  <1>7. owned' \subseteq owned \cup {n.ship : n \in Bought'} BY <1>1, <1>2, <1>5
  <1>8. "actions" \in dead' => "status" \in dead' BY <1>1, <1>4 DEF WorldKnows
  <1>9. ship_ops \cup launching.left \subseteq ship_ops' \cup launching'.left BY <1>1
  <1>10. tickets' \subseteq tickets /\ dead \subseteq dead' /\ owned \subseteq owned' /\ Bought \subseteq Bought' BY <1>1, <1>5
  <1>11. UNCHANGED <<failures, crashes>> /\ dead' = dead BY <1>1 DEF bounds
  <1> HIDE DEF Bought
  <1> QED BY <1>1, <1>3, <1>6, <1>7, <1>8, <1>9, <1>10, <1>11, QuietGrows

\* run_fleets registers a ship, or ends at one without a fleet.
LEMMA LaunchShipGrows ==
  ASSUME IInv, GrowInv, NEW s \in Ships, LaunchShip(s)
  PROVE  GrowInv'
  <1>1. /\ stage = "running" /\ s \in launching.left
        /\ UNCHANGED <<world, db, stage, under_lock, channels, bounds>>
    BY DEF LaunchShip
  <1>2. UNCHANGED <<owned, tickets, explored, crashes, failures, db, stage, under_lock>> BY <1>1 DEF world, bounds
  <1>3. Bought' = Bought BY <1>1 DEF channels, Bought
  <1>4. WorldKnows /\ launching \in Launches BY DEF GrowInv, IInv, CopiesTyped
  <1>5. /\ "launcher" \in dead' \/ ship_ops \cup launching.left \subseteq ship_ops' \cup launching'.left
        /\ dead' = dead \/ dead' = dead \cup {"launcher"}
    <2>1. CASE launching.assignment[s] = NoFleet BY <2>1 DEF LaunchShip
    <2>2. CASE launching.assignment[s] # NoFleet
      <3>1. ship_ops' = ship_ops \cup {s} /\ dead' = dead BY <2>2 DEF LaunchShip
      <3>2. launching.left \ {s} \subseteq launching'.left
        <4>1. CASE launching.left = {s} BY <4>1
        <4>2. CASE launching.left # {s}
          <5>1. launching' = [launching EXCEPT !.left = launching.left \ {s}] BY <2>2, <4>2 DEF LaunchShip
          <5>2. launching'.left = launching.left \ {s} BY <1>4, <5>1 DEF Launches
          <5> QED BY <5>2
        <4> QED BY <4>1, <4>2
      <3> QED BY <3>1, <3>2
    <2> QED BY <2>1, <2>2
  <1>6. "actions" \in dead' => "status" \in dead' BY <1>4, <1>5 DEF WorldKnows
  <1>7. "status" \in dead' => "status" \in dead BY <1>5
  <1>8. tickets' \subseteq tickets /\ dead \subseteq dead' /\ owned \subseteq owned' BY <1>2, <1>5
  <1>9. (\A m \in Bought' : m \in Bought) /\ owned' \subseteq owned \cup {m.ship : m \in Bought'} BY <1>2, <1>3
  <1> HIDE DEF Bought
  <1> QED BY <1>1, <1>2, <1>3, <1>5, <1>6, <1>7, <1>8, <1>9, QuietGrows

-----------------------------------------------------------------------------
(* Starts, errors and crashes. *)

LEMMA InitGrows ==
  ASSUME Init
  PROVE  GrowInv
  <1>1. /\ owned = InitialShips /\ tickets = {} /\ stage = "down" /\ dead = {}
        /\ actions = <<>> /\ reports = <<>> /\ db \in ConstructionRows \cup {NoDbRows}
    BY DEF Init
  <1>2. db.ships = {} \/ db.ships = InitialShips
    <2>1. CASE db = NoDbRows BY <2>1 DEF NoDbRows
    <2>2. CASE db \in ConstructionRows BY <2>2 DEF ConstructionRows
    <2> QED BY <1>1, <2>1, <2>2
  <1>3. ~ Loaded BY <1>1 DEF Loaded
  <1>4. Bought = {} BY <1>1, RangeOfNone DEF Bought
  <1>5. WorldKnows BY <1>1, <1>2, <1>4 DEF WorldKnows
  <1>6. FirstStart BY <1>1, <1>2, <1>3 DEF FirstStart
  <1> QED BY <1>3, <1>5, <1>6 DEF GrowInv, Sound

\* Only the ships of the agent are stored.
LEMMA OwnShipsStored ==
  ASSUME IInv, todo # <<>>, Head(todo) \in Writes, NEW rows \in SUBSET Keys(Head(todo)), db.ships \subseteq owned
  PROVE  Stored(Head(todo), rows).ships \subseteq owned
  <1>1. CASE Head(todo) = "StoreShips"
    <2>1. Stored(Head(todo), rows).ships = db.ships \cup rows BY <1>1, StoredTyped
    <2>2. Keys(Head(todo)) = IF report = Starting THEN owned ELSE {report.ship} BY <1>1 DEF Keys
    <2>3. report # Starting => report.ship \in owned
      <3>1. Head(todo) \in StepsOf(report.type) BY HeadKind
      <3>2. report # Starting => report \in Credible /\ report.type = "purchased"
        BY <1>1, <3>1, HeadKind, ReportKinds DEF StepsOf, UpsertStep, DismantleOnly, TaskOnly
      <3> QED BY <3>2 DEF Credible
    <2> QED BY <2>1, <2>2, <2>3
  <1>2. CASE Head(todo) # "StoreShips"
    <2>1. Stored(Head(todo), rows).ships = db.ships BY <1>2 DEF IInv, Tables, Stored, Writes
    <2> QED BY <2>1
  <1> QED BY <1>1, <1>2

LEMMA CutOffGrows ==
  ASSUME IInv, GrowInv, db' \in CutOff, owned' = owned
  PROVE  db'.ships \subseteq owned'
  <1>1. db.ships \subseteq owned BY DEF GrowInv, WorldKnows
  <1> QED BY <1>1, OwnShipsStored DEF CutOff

\* After a crash, or a failed statement, no more is claimed than that the tables
\* hold ships of the agent.
LEMMA FailGrows ==
  ASSUME IInv, GrowInv, Fail
  PROVE  GrowInv'
  <1>1. /\ failures' = failures + 1 /\ UNCHANGED <<world, dead, channels>> /\ db' \in CutOff /\ todo # <<>>
        /\ stage' = IF stage = "starting" THEN "down" ELSE stage
    BY DEF Fail, GiveUp
  <1>2. failures' # 0 BY <1>1 DEF IInv, BoundsTyped
  <1>3. db'.ships \subseteq owned' BY <1>1, CutOffGrows DEF world
  <1>4. stage' # "running" => stage # "running" BY <1>1
  <1>5. stage' # "starting" BY <1>1
  <1>6. Bought' = Bought BY <1>1 DEF channels, Bought
  <1>7. WorldKnows' BY <1>1, <1>3, <1>4, <1>5, <1>6 DEF GrowInv, WorldKnows
  <1> QED BY <1>2, <1>7 DEF GrowInv, Unbroken

LEMMA CrashGrows ==
  ASSUME IInv, GrowInv, Crash
  PROVE  GrowInv'
  <1>1. /\ crashes' = crashes + 1 /\ UNCHANGED world /\ db' \in CutOff /\ dead' = {} /\ stage' = "down"
        /\ actions' = <<>> /\ reports' = <<>>
    BY DEF Crash
  <1>2. crashes' # 0 BY <1>1 DEF IInv, BoundsTyped
  <1>3. db'.ships \subseteq owned' BY <1>1, CutOffGrows DEF world
  <1>4. Bought' = {} BY <1>1, RangeOfNone DEF Bought
  <1>5. WorldKnows' BY <1>1, <1>3, <1>4 DEF WorldKnows
  <1> QED BY <1>2, <1>5 DEF GrowInv, Unbroken

LEMMA StartGrows ==
  ASSUME IInv, GrowInv, Start
  PROVE  GrowInv'
  <1>1. /\ stage = "down" /\ stage' = "starting" /\ dead' = {} /\ UNCHANGED <<world, db, admiral, channels, bounds>>
        /\ todo' \in {StartWith(<<"Load">>), StartWith(<<"Create">>), StartWith(<<"StoreShips", "Create">>)}
    BY DEF Start, StartWith
  <1>2. UNCHANGED <<owned, tickets, explored, failures, crashes>> BY <1>1 DEF world, bounds
  <1>3. Bought' = Bought BY <1>1 DEF channels, Bought
  <1>4. ~ Loaded'
    <2>1. In(StartWith(<<"Load">>), "Load")
      <3>1. Len(StartWith(<<"Load">>)) = 11 /\ StartWith(<<"Load">>)[1] = "Load" BY LoadPlan
      <3>2. 1 \in DOMAIN StartWith(<<"Load">>) BY <3>1, LoadPlan
      <3> QED BY <3>1, <3>2 DEF In
    <2>2. In(StartWith(<<"Create">>), "Create")
      <3>1. Len(StartWith(<<"Create">>)) = 11 /\ StartWith(<<"Create">>)[1] = "Create" BY CreatePlan
      <3>2. 1 \in DOMAIN StartWith(<<"Create">>) BY <3>1, CreatePlan
      <3> QED BY <3>1, <3>2 DEF In
    <2>3. In(StartWith(<<"StoreShips", "Create">>), "Create")
      <3>1. Len(StartWith(<<"StoreShips", "Create">>)) = 12 /\ StartWith(<<"StoreShips", "Create">>)[2] = "Create" BY StorePlan
      <3>2. 2 \in DOMAIN StartWith(<<"StoreShips", "Create">>) BY <3>1, StorePlan
      <3> QED BY <3>1, <3>2 DEF In
    <2> QED BY <1>1, <2>1, <2>2, <2>3 DEF Loaded
  <1>5. WorldKnows' BY <1>1, <1>2, <1>3 DEF GrowInv, WorldKnows
  <1>6. Unbroken => FirstStart'
    <2>1. \A completed : Asked(completed)' = Asked(completed) BY <1>2 DEF Asked, Begun
    <2> QED BY <1>1, <1>2, <1>4, <2>1 DEF GrowInv, FirstStart
  <1>7. Unbroken' = Unbroken /\ ~ Sound' BY <1>2, <1>4 DEF Unbroken, Sound
  <1> QED BY <1>5, <1>6, <1>7 DEF GrowInv

\* A start, or a handler, gives up: the books of the first start stay, and more is
\* claimed only where nothing has failed or panicked.
LEMMA GivenUpGrows ==
  ASSUME IInv, GrowInv, GiveUp, UNCHANGED <<db, owned, explored, crashes, failures>>, Bought' \subseteq Bought,
         dead \subseteq dead', "actions" \in dead' => "status" \in dead',
         stage = "running" => admiral.all_ships \subseteq admiral'.all_ships,
         Unbroken /\ stage # "running" => \A t \in tickets' : t.for \in Asked(db.completed),
         Unbroken => ~ Sound'
  PROVE  GrowInv'
  <1>1. stage' = (IF stage = "starting" THEN "down" ELSE stage) /\ stage \in {"down", "starting", "running"}
    BY DEF GiveUp, IInv, ProcessTyped
  <1>2. WorldKnows' BY <1>1 DEF GrowInv, WorldKnows
  <1>3. ASSUME Unbroken PROVE FirstStart'
    <2>1. FirstStart BY <1>3 DEF GrowInv
    <2>2. Loaded' => stage = "running" BY <1>1 DEF Loaded
    <2>3. Loaded' => InitialShips \subseteq admiral'.all_ships BY <2>1, <2>2, LoadedNow DEF FirstStart
    <2>4. \A completed : Asked(completed)' = Asked(completed) BY DEF Asked, Begun
    <2>5. stage' # "running" => stage # "running" BY <1>1
    <2>6. stage' # "running" => owned' = InitialShips /\ \A t \in tickets' : t.for \in Asked(db.completed)'
      <3>1. stage' # "running" => owned = InitialShips BY <2>1, <2>5 DEF FirstStart
      <3>2. stage' # "running" => \A t \in tickets' : t.for \in Asked(db.completed) BY <1>3, <2>5
      <3> QED BY <2>4, <3>1, <3>2
    <2>7. stage' # "starting" BY <1>1
    <2> QED BY <2>1, <2>3, <2>4, <2>6, <2>7 DEF FirstStart
  <1>4. Unbroken' = Unbroken BY DEF Unbroken
  <1> QED BY <1>2, <1>3, <1>4 DEF GrowInv

\* Of a panic nothing is left but the tables.
LEMMA PanicGrows ==
  ASSUME IInv, GrowInv, NEW a, PanicWith(a), UNCHANGED <<db, owned, explored, crashes, failures, actions>>,
         stage = "running" => admiral.all_ships \subseteq a.all_ships,
         Unbroken /\ stage # "running" => \A t \in tickets' : t.for \in Asked(db.completed)
  PROVE  GrowInv'
  <1>1. /\ GiveUp
        /\ \/ stage = "starting" /\ UNCHANGED <<dead, reports>>
           \/ stage # "starting" /\ admiral' = a /\ dead' = dead \cup {"status"} /\ reports' = <<>>
    BY DEF PanicWith
  <1>2. WorldKnows BY DEF GrowInv
  <1>3. Bought' \subseteq Bought
    <2>1. Range(<<>>) = {} BY RangeOfNone
    <2> QED BY <1>1, <2>1 DEF Bought
  <1>4. "actions" \in dead' => "status" \in dead' BY <1>1, <1>2 DEF WorldKnows
  <1>5. ~ Sound'
    <2>1. stage = "starting" => stage' = "down" BY <1>1 DEF GiveUp
    <2> QED BY <1>1, <2>1 DEF Sound, Loaded
  <1>6. stage = "running" => admiral.all_ships \subseteq admiral'.all_ships BY <1>1
  <1>7. dead \subseteq dead' BY <1>1
  <1> HIDE DEF Bought
  <1> QED BY <1>1, <1>3, <1>4, <1>5, <1>6, <1>7, GivenUpGrows

-----------------------------------------------------------------------------
(* Steps that go on. *)

\* What is left to do after a step that neither makes an admiral nor a ship join.
LEMMA OnTheAgenda ==
  ASSUME IInv, todo # <<>>, Proceed, stage' = stage, UNCHANGED <<failures, crashes, dead>>,
         Head(todo) \notin {"Create", "Load", "Register", "LaunchNew"}
  PROVE  /\ Loaded' = Loaded /\ Joining' = Joining /\ ToLaunch' = ToLaunch
         /\ Unbroken' = Unbroken /\ Sound' = Sound
  <1>1. \A x : In(todo, x) <=> x = Head(todo) \/ In(todo', x) BY GoingOn
  <1>2. \A x : In(todo', x) => report' = report BY GoingOn
  <1>3. Loaded' = Loaded BY <1>1 DEF Loaded
  <1>4. Joining' = Joining /\ ToLaunch' = ToLaunch BY <1>1, <1>2 DEF Joining, ToLaunch
  <1> QED BY <1>3, <1>4 DEF Unbroken, Sound

LEMMA GrowOn ==
  ASSUME IInv, GrowInv, todo # <<>>, Proceed, UNCHANGED <<stage, dead, failures, crashes>>,
         Head(todo) \notin {"Create", "Load", "Register", "LaunchNew"},
         UNCHANGED <<owned, explored, actions, reports, launching>>, ship_ops \subseteq ship_ops',
         admiral'.all_ships = admiral.all_ships,
         db'.ships \subseteq owned, Unbroken => db'.ships = {} \/ InitialShips \subseteq db'.ships,
         stage = "starting" => db'.completed = db.completed /\ admiral'.completed = admiral.completed,
         Unbroken /\ stage # "running" => \A t \in tickets' : t.for \in Asked(db.completed),
         Unbroken /\ Sound /\ Growing => Growing'
  PROVE  GrowInv'
  <1>1. /\ Loaded' = Loaded /\ Joining' = Joining /\ ToLaunch' = ToLaunch
        /\ Unbroken' = Unbroken /\ Sound' = Sound
    BY OnTheAgenda
  <1>2. Bought' = Bought BY DEF Bought
  <1>3. WorldKnows' BY <1>2 DEF GrowInv, WorldKnows
  <1>5. stage \in {"starting", "running"} BY HeadKind
  <1>6. Unbroken => FirstStart'
    <2>1. SUFFICES ASSUME Unbroken PROVE FirstStart' OBVIOUS
    <2>2. FirstStart BY <2>1 DEF GrowInv
    <2>3. Asked(db.completed)' = Asked(db'.completed) BY DEF Asked, Begun
    <2>4. stage' # "running" => \A t \in tickets' : t.for \in Asked(db.completed)' BY <1>5, <2>1, <2>3
    <2> QED BY <1>1, <2>1, <2>2, <2>4 DEF FirstStart
  <1>7. Unbroken /\ Sound => Growing' BY DEF GrowInv
  <1>8. Unbroken /\ Sound /\ stage = "running" /\ "launcher" \notin dead => Tracked'
    BY <1>1, <1>2 DEF GrowInv, Tracked
  <1> QED BY <1>1, <1>3, <1>6, <1>7, <1>8 DEF GrowInv

\* A step that leaves the fleets, the phase, the demand and the tickets.
LEMMA GrowingOn ==
  ASSUME IInv, todo # <<>>, Proceed, Head(todo) # "ComputeTasks", Growing,
         UNCHANGED <<admiral.fleets, admiral.assignment, admiral.phase, admiral.demand, admiral.completed>>,
         UNCHANGED <<tickets, explored, actions, reports>>
  PROVE  Growing'
  <1>1. \A x : In(todo, x) <=> x = Head(todo) \/ In(todo', x) BY GoingOn
  <1>2. \A x : In(todo', x) => report' = report BY GoingOn
  <1>3. report' = report \/ report' = NoReport BY GoingOn
  <1>4. EveryFleetExists' BY DEF Growing, EveryFleetExists
  <1>5. Bought' = Bought BY DEF Bought
  <1>6. Wanting' BY <1>3, <1>5, ReportKinds DEF Growing, Wanting, NoReport
  <1>7. Mid => Mid' BY <1>1, <1>2 DEF Mid, Redoing
  <1>8. Begun(admiral.completed) => Begun(admiral.completed)' BY DEF Begun
  <1> QED BY <1>4, <1>6, <1>7, <1>8 DEF Growing

LEMMA LaunchesGrow ==
  ASSUME IInv, GrowInv, LaunchIdle \/ (\E s \in Ships : RelaunchIdle(s)) \/ Relaunch
  PROVE  GrowInv'
  <1>1. /\ todo # <<>> /\ Head(todo) \in {"LaunchIdle", "Relaunch"}
        /\ UNCHANGED <<owned, tickets, explored, db, launching, actions, failures, crashes, ship_ops>>
    BY DEF LaunchIdle, RelaunchIdle, Relaunch, Does, step_else, world, bounds, fiber_vars
  <1>2. \/ Proceed /\ UNCHANGED <<stage, dead, admiral, reports>>
        \/ UNCHANGED <<stage, dead, under_lock, reports>>
        \/ PanicWith(admiral)
    BY DEF LaunchIdle, RelaunchIdle, Relaunch, under_lock
  <1>3. Unbroken => FirstStart BY DEF GrowInv
  <1>4. Unbroken /\ stage # "running" => \A t \in tickets' : t.for \in Asked(db.completed) BY <1>1, <1>3 DEF FirstStart
  <1>5. CASE Proceed /\ UNCHANGED <<stage, dead, admiral, reports>>
    <2>1. Growing => Growing' BY <1>1, <1>5, GrowingOn
    <2>2. db'.ships \subseteq owned /\ (Unbroken => db'.ships = {} \/ InitialShips \subseteq db'.ships)
      BY <1>1 DEF GrowInv, WorldKnows, FirstStart
    <2> QED BY <1>1, <1>4, <1>5, <2>1, <2>2, GrowOn
  <1>6. CASE PanicWith(admiral)
    BY <1>1, <1>4, <1>6, PanicGrows
  <1>7. CASE UNCHANGED <<stage, dead, under_lock, reports>>
    <2>1. Bought' = Bought BY <1>1, <1>7 DEF Bought
    <2> QED BY <1>1, <1>7, <2>1, StillGrows
  <1> QED BY <1>2, <1>5, <1>6, <1>7

LEMMA AssignTaskGrows ==
  ASSUME IInv, GrowInv, AssignTask
  PROVE  GrowInv'
  <1>1. /\ todo # <<>> /\ Head(todo) = "AssignTask"
        /\ UNCHANGED <<owned, tickets, explored, db, launching, actions, failures, crashes, ship_ops>>
    BY DEF AssignTask, Does, step_else, world, bounds, fiber_vars
  <1>2. admiral \in Admirals BY DEF IInv
  <1> DEFINE next == [admiral EXCEPT !.ship_tasks[report.ship] = report.task]
  <1>3. /\ next.all_ships = admiral.all_ships /\ next.fleets = admiral.fleets /\ next.assignment = admiral.assignment
        /\ next.phase = admiral.phase /\ next.demand = admiral.demand /\ next.completed = admiral.completed
    BY <1>2 DEF Admirals
  <1> HIDE DEF next
  <1>4. (admiral' = next /\ Proceed /\ UNCHANGED <<stage, dead, reports>>) \/ PanicWith(next) BY DEF AssignTask, next
  <1>5. Unbroken => FirstStart BY DEF GrowInv
  <1>6. Unbroken /\ stage # "running" => \A t \in tickets' : t.for \in Asked(db.completed) BY <1>1, <1>5 DEF FirstStart
  <1>7. CASE admiral' = next /\ Proceed /\ UNCHANGED <<stage, dead, reports>>
    <2>1. Growing => Growing' BY <1>1, <1>3, <1>7, GrowingOn
    <2>2. db'.ships \subseteq owned /\ (Unbroken => db'.ships = {} \/ InitialShips \subseteq db'.ships)
      BY <1>1 DEF GrowInv, WorldKnows, FirstStart
    <2> QED BY <1>1, <1>3, <1>6, <1>7, <2>1, <2>2, GrowOn
  <1>8. CASE PanicWith(next)
    <2>1. stage = "running" => admiral.all_ships \subseteq next.all_ships BY <1>3
    <2> QED BY <1>1, <1>6, <1>8, <2>1, PanicGrows
  <1> QED BY <1>4, <1>7, <1>8

-----------------------------------------------------------------------------
(* The steps that change the fleets, the demand and the tickets. *)

\* A purchase that is tried keeps what is wanted within the same fleets.
LEMMA PurchaseWanted ==
  ASSUME NEW a \in Admirals, NEW plan \in Plans, NEW p \in PurchaseOutcomes(a, plan), NEW S,
         \A t \in plan.tickets : t.for \in S, \A i \in DOMAIN plan.demand : plan.demand[i].for \in S
  PROVE  (\A t \in p.tickets : t.for \in S) /\ \A i \in DOMAIN p.demand : p.demand[i].for \in S
  <1>1. /\ p.demand = plan.demand \/ (plan.demand # <<>> /\ p.demand = Tail(plan.demand))
        /\ \A t \in p.tickets : t \in plan.tickets \/ (plan.demand # <<>> /\ t.for = Head(plan.demand).for)
    BY PurchaseTyped
  <1>2. plan.demand \in Seq(Items) BY DEF Plans
  <1> DEFINE d == plan.demand
  <1> HIDE DEF d
  <1>3. ASSUME d # <<>>, d \in Seq(Items), \A i \in DOMAIN d : d[i].for \in S
        PROVE  Head(d).for \in S /\ \A i \in DOMAIN Tail(d) : Tail(d)[i].for \in S
    <2>1. Tail(d) \in Seq(Items) /\ Len(Tail(d)) = Len(d) - 1 /\ Len(d) \in Nat \ {0} /\ Head(d) = d[1]
          /\ \A i \in 1..Len(Tail(d)) : Tail(d)[i] = d[i + 1]
      BY <1>3, HeadTailProperties
    <2>2. DOMAIN d = 1..Len(d) /\ DOMAIN Tail(d) = 1..(Len(d) - 1) BY <1>3, <2>1
    <2>3. 1 \in DOMAIN d /\ \A i \in 1..(Len(d) - 1) : i + 1 \in DOMAIN d BY <2>1, <2>2
    <2>4. \A i \in DOMAIN Tail(d) : Tail(d)[i] = d[i + 1] BY <2>1, <2>2
    <2> QED BY <1>3, <2>1, <2>2, <2>3, <2>4
  <1>4. d # <<>> => Head(d).for \in S /\ \A i \in DOMAIN Tail(d) : Tail(d)[i].for \in S BY <1>2, <1>3 DEF d
  <1>5. \A i \in DOMAIN d : d[i].for \in S BY DEF d
  <1>6. /\ p.demand = d \/ (d # <<>> /\ p.demand = Tail(d))
        /\ \A t \in p.tickets : t \in plan.tickets \/ (d # <<>> /\ t.for = Head(d).for)
    BY <1>1 DEF d
  <1> QED BY <1>4, <1>5, <1>6

\* What the admiral wants at a start, the next start may want.
LEMMA WantedAtStart ==
  ASSUME IInv, GrowInv, Unbroken, stage = "starting", Loaded
  PROVE  Sound /\ Growing /\ Buyers(admiral.phase) \subseteq Asked(db.completed)
  <1>1. Sound BY DEF GrowInv, WorldKnows, Sound, Unbroken
  <1>2. Growing /\ FirstStart BY <1>1 DEF GrowInv
  <1>3. admiral.completed = db.completed BY <1>2 DEF FirstStart
  <1>4. admiral.phase \in Phases BY DEF IInv, Admirals
  <1>5. Buyers(admiral.phase) \subseteq Asked(admiral.completed) BY <1>2, <1>4, BuyersGrow DEF Growing
  <1> QED BY <1>1, <1>2, <1>3, <1>5

LEMMA ComputeTasksGrows ==
  ASSUME IInv, StoreInv, GrowInv, ComputeTasks
  PROVE  GrowInv'
  <1>1. /\ todo # <<>> /\ Head(todo) = "ComputeTasks"
        /\ UNCHANGED <<owned, explored, db, launching, actions, failures, crashes, ship_ops>>
    BY DEF ComputeTasks, Does, bounds, fiber_vars
  <1>2. admiral \in Admirals /\ tickets \subseteq Tickets BY DEF IInv, WorldTyped
  <1> DEFINE plan == [demand |-> admiral.demand, tickets |-> tickets]
  <1>3. plan \in Plans BY <1>2 DEF Plans, Admirals
  <1>4. PICK o \in ComputeOutcomes(admiral, plan) :
          /\ tickets' = o.plan.tickets
          /\ IF HasBudgets(admiral)
             THEN admiral' = WithTasks([admiral EXCEPT !.demand = o.plan.demand], o.tasks) /\ Proceed
                  /\ UNCHANGED <<stage, dead, reports>>
             ELSE PanicWith([admiral EXCEPT !.demand = o.plan.demand])
    BY DEF ComputeTasks
  <1>5. o.plan \in PurchaseOutcomes(admiral, plan)
    <2> HIDE DEF plan
    <2> QED BY <1>2, <1>3, OutcomesTyped
  <1>6. plan.demand = admiral.demand /\ plan.tickets = tickets OBVIOUS
  <1> DEFINE p == o.plan
  <1> HIDE DEF plan, p
  <1>7. ASSUME Growing
        PROVE  /\ \A t \in tickets' : t.for \in Buyers(admiral.phase)
               /\ \A i \in DOMAIN p.demand : p.demand[i].for \in Buyers(admiral.phase)
    <2> DEFINE S == Buyers(admiral.phase)
    <2>1. (\A t \in plan.tickets : t.for \in S) /\ \A i \in DOMAIN plan.demand : plan.demand[i].for \in S
      BY <1>6, <1>7 DEF Growing, Wanting
    <2> HIDE DEF S
    <2>2. (\A t \in p.tickets : t.for \in S) /\ \A i \in DOMAIN p.demand : p.demand[i].for \in S
      BY <1>2, <1>3, <1>5, <2>1, PurchaseWanted DEF p
    <2> QED BY <1>4, <2>2 DEF S, p
  <1>8. Loaded BY <1>1, LoadedNow
  <1>9. Unbroken /\ stage # "running" => \A t \in tickets' : t.for \in Asked(db.completed)
    <2>1. SUFFICES ASSUME Unbroken, stage # "running" PROVE \A t \in tickets' : t.for \in Asked(db.completed)
      OBVIOUS
    <2>2. stage = "starting" BY <1>1, <2>1, HeadKind
    <2> QED BY <1>7, <1>8, <2>1, <2>2, WantedAtStart
  <1> DEFINE next == [admiral EXCEPT !.demand = p.demand]
  <1>10. /\ next.all_ships = admiral.all_ships /\ next.fleets = admiral.fleets /\ next.assignment = admiral.assignment
         /\ next.phase = admiral.phase /\ next.completed = admiral.completed /\ next.demand = p.demand
         /\ WithTasks(next, o.tasks).all_ships = admiral.all_ships /\ WithTasks(next, o.tasks).fleets = admiral.fleets
         /\ WithTasks(next, o.tasks).assignment = admiral.assignment /\ WithTasks(next, o.tasks).phase = admiral.phase
         /\ WithTasks(next, o.tasks).completed = admiral.completed /\ WithTasks(next, o.tasks).demand = p.demand
    BY <1>2 DEF Admirals, WithTasks
  <1> HIDE DEF next
  <1>11. CASE HasBudgets(admiral)
    <2>1. admiral' = WithTasks(next, o.tasks) /\ Proceed /\ UNCHANGED <<stage, dead, reports>>
      BY <1>4, <1>11 DEF next, p
    <2>2. db'.ships \subseteq owned /\ (Unbroken => db'.ships = {} \/ InitialShips \subseteq db'.ships)
      BY <1>1 DEF GrowInv, WorldKnows, FirstStart
    <2>3. ASSUME Unbroken, Sound, Growing PROVE Growing'
      <3>1. EveryFleetExists' BY <1>10, <2>1, <2>3 DEF Growing, EveryFleetExists
      <3>2. report' = report \/ report' = NoReport BY <1>1, <2>1, GoingOn
      <3>3. Bought' = Bought BY <1>1, <2>1 DEF Bought
      <3>4. Wanting' BY <1>7, <1>10, <2>1, <2>3, <3>2, <3>3, ReportKinds DEF Growing, Wanting
      <3>5. admiral.phase # "TradeProfitably"
        <4>1. CASE ~ Mid BY <2>3, <4>1 DEF Growing
        <4>2. CASE Mid
          <5>1. \A x : In(todo, x) => x = "ComputeTasks" \/ x \in UpsertStep \cup {"Listen", "LaunchIdle", "LaunchNew"}
            BY <1>1, <2>1, GoingOn
          <5>2. ~ In(todo, "NewFleets") /\ ~ In(todo, "AssignShips") BY <5>1 DEF UpsertStep
          <5>3. Range(PhaseTasks(admiral.phase)) \subseteq admiral.fleets /\ admiral.budgets = Budgeted(admiral.phase)
            BY <2>3, <4>2, <5>2 DEF StoreInv, Steady, PhaseKept
          <5>4. admiral.fleets \subseteq Budgeted(admiral.phase) BY <1>11, <5>3 DEF HasBudgets
          <5>5. ASSUME admiral.phase = "TradeProfitably" PROVE FALSE
            <6>1. admiral.phase \in Phases BY <1>2 DEF Admirals
            <6>2. "TradeProfitably" \in Range(PhaseTasks(admiral.phase)) BY <5>5, <6>1, PhaseFleets
            <6>3. Budgeted(admiral.phase) = {} BY <5>5 DEF Budgeted
            <6> QED BY <5>3, <5>4, <6>2, <6>3
          <5> QED BY <5>5
        <4> QED BY <4>1, <4>2
      <3>6. Begun(admiral.completed)' = Begun(admiral.completed) BY <1>1, <1>10, <2>1 DEF Begun
      <3> QED BY <1>10, <2>1, <2>3, <3>1, <3>4, <3>5, <3>6 DEF Growing
    <2> QED BY <1>1, <1>9, <1>10, <2>1, <2>2, <2>3, GrowOn
  <1>12. CASE ~ HasBudgets(admiral)
    <2>1. PanicWith(next) BY <1>4, <1>12 DEF next, p
    <2>2. stage = "running" => admiral.all_ships \subseteq next.all_ships BY <1>10
    <2> QED BY <1>1, <1>9, <2>1, <2>2, PanicGrows
  <1> QED BY <1>11, <1>12

LEMMA DismantleGrows ==
  ASSUME IInv, GrowInv, Dismantle
  PROVE  GrowInv'
  <1> SUFFICES ASSUME admiral' = Dismantled(report.fleet), Proceed, UNCHANGED <<stage, dead, reports>> PROVE GrowInv'
    <2>1. todo # <<>> /\ Head(todo) = "Dismantle" /\ UNCHANGED <<db, owned, explored, crashes, failures, actions>>
      BY DEF Dismantle, Does, step_else, world, bounds
    <2>2. Dismantled(report.fleet).all_ships = admiral.all_ships BY DEF IInv, Dismantled, Admirals
    <2>3. "Dismantle" \in DismantleOnly BY DEF DismantleOnly
    <2>4. stage = "running" BY <2>1, <2>3, HeadKind, ReportKinds
    <2>5. PanicWith(Dismantled(report.fleet)) => GrowInv'
      <3> HIDE DEF Dismantled
      <3> QED BY <2>1, <2>2, <2>4, PanicGrows
    <2> QED BY <2>5 DEF Dismantle
  <1>1. /\ todo # <<>> /\ Head(todo) = "Dismantle" /\ Proceed
        /\ UNCHANGED <<owned, tickets, explored, db, launching, actions, reports, failures, crashes, ship_ops, stage, dead>>
    BY DEF Dismantle, Does, step_else, world, bounds, fiber_vars
  <1>2. admiral \in Admirals /\ Knows(admiral, db) BY DEF IInv, AdmiralKnows
  <1>3. In(todo, "Dismantle") BY <1>1, GoingOn
  <1>4. Redoing /\ report.type = "finished" /\ stage = "running" /\ report.fleet \in FleetTasks
    <2>1. Redoing /\ report.type = "finished" BY <1>1, <1>3, KindOfStep
    <2>2. "Dismantle" \in DismantleOnly BY DEF DismantleOnly
    <2> QED BY <1>1, <2>1, <2>2, HeadKind
  <1> DEFINE f == report.fleet
             done == IF admiral.fleet_tasks[f] = "task" THEN admiral.completed \cup {f} ELSE admiral.completed
             sent == [s \in Ships |-> IF s \in Crew(admiral, f) THEN NoFleet ELSE admiral.assignment[s]]
  <1>5. /\ admiral'.all_ships = admiral.all_ships /\ admiral'.fleets = admiral.fleets \ {f}
        /\ admiral'.assignment = sent /\ admiral'.completed = done
        /\ admiral'.phase = admiral.phase /\ admiral'.demand = admiral.demand
    BY <1>2 DEF Dismantled, Admirals
  <1>6. \A s \in Ships : sent[s] = NoFleet \/ (sent[s] = admiral.assignment[s] /\ sent[s] # f)
    <2> SUFFICES ASSUME NEW s \in Ships, s \notin Crew(admiral, f), sent[s] # NoFleet PROVE sent[s] # f OBVIOUS
    <2>1. admiral.assignment[s] # NoFleet BY DEF sent
    <2>2. s \in admiral.all_ships BY <1>2, <2>1 DEF Knows
    <2> QED BY <2>2 DEF Crew
  <1>7. admiral.completed \subseteq done OBVIOUS
  <1> HIDE DEF f, done, sent
  <1>8. "Dismantle" \in Founders /\ "Dismantle" \in Makers BY DEF Founders, Makers
  <1>9. report' = report /\ In(todo', "ComputeTasks") BY <1>1, <1>8, GoingOn
  <1>10. ASSUME Growing PROVE Growing'
    <2>1. Mid' BY <1>4, <1>9 DEF Mid, Redoing
    <2>2. EveryFleetExists' BY <1>5, <1>6, <1>10 DEF Growing, EveryFleetExists
    <2>3. Bought' = Bought BY <1>1 DEF Bought
    <2>4. Wanting' BY <1>1, <1>5, <1>9, <1>10, <2>3 DEF Growing, Wanting
    <2>5. Begun(admiral.completed) => Begun(admiral.completed)' BY <1>1, <1>5, <1>7 DEF Begun
    <2> QED BY <1>5, <1>10, <2>1, <2>2, <2>4, <2>5 DEF Growing
  <1>11. db'.ships \subseteq owned /\ (Unbroken => db'.ships = {} \/ InitialShips \subseteq db'.ships)
    BY <1>1 DEF GrowInv, WorldKnows, FirstStart
  <1> QED BY <1>1, <1>4, <1>5, <1>10, <1>11, GrowOn

\* The ships that a new phase asks for are for its fleets, since a frigate is there.
LEMMA NewDemand ==
  ASSUME NEW agent \in SUBSET Ships, InitialShips \subseteq agent, NEW phase \in Phases
  PROVE  \A i \in DOMAIN NextShipPurchases(agent, phase) : NextShipPurchases(agent, phase)[i].for \in Buyers(phase)
  <1>1. OfType(agent, "frigate") # {} BY RunnerAssumption DEF OfType
  <1> QED BY <1>1, PurchasesTyped

LEMMA NewFleetsGrows ==
  ASSUME IInv, GrowInv, NewFleets
  PROVE  GrowInv'
  <1>1. /\ todo # <<>> /\ Head(todo) = "NewFleets"
        /\ UNCHANGED <<owned, tickets, explored, db, launching, actions, failures, crashes, ship_ops>>
    BY DEF NewFleets, Does, step_else, world, bounds, fiber_vars
  <1>2. admiral \in Admirals BY DEF IInv
  <1>3. "NewFleets" \in DismantleOnly /\ "NewFleets" \in Founders /\ "NewFleets" \in Makers BY DEF DismantleOnly, Founders, Makers
  <1>4. report.type = "finished" BY <1>1, <1>3, HeadKind
  <1>5. Redoing /\ stage = "running" BY <1>1, <1>4, HeadKind DEF Redoing
  <1>6. CASE ~ (\A f \in admiral.fleets : admiral.fleet_tasks[f] = "task")
    <2>1. PanicWith(admiral) BY <1>6 DEF NewFleets
    <2> QED BY <1>1, <1>5, <2>1, PanicGrows
  <1>7. CASE \A f \in admiral.fleets : admiral.fleet_tasks[f] = "task"
    <2> DEFINE phase == CurrentPhase(admiral.completed)
               fleets == admiral.fleets \cup Range(PhaseTasks(phase))
    <2>1. Proceed /\ UNCHANGED <<stage, dead, reports>>
          /\ admiral' = [admiral EXCEPT !.fleets = fleets, !.fleet_tasks = TaskRows(fleets), !.phase = phase,
                                        !.demand = NextShipPurchases(admiral.all_ships, phase)]
      BY <1>7 DEF NewFleets
    <2>2. phase \in Phases BY PhaseTyped
    <2> HIDE DEF phase
    <2>3. /\ admiral'.all_ships = admiral.all_ships /\ admiral'.fleets = fleets /\ admiral'.phase = phase
          /\ admiral'.assignment = admiral.assignment /\ admiral'.completed = admiral.completed
          /\ admiral'.demand = NextShipPurchases(admiral.all_ships, phase)
      BY <1>2, <2>1 DEF Admirals
    <2>4. report' = report /\ In(todo', "ComputeTasks") BY <1>1, <1>3, <2>1, GoingOn
    <2>5. ASSUME Unbroken, Sound, Growing PROVE Growing'
      <3>1. Mid' BY <1>5, <2>4 DEF Mid, Redoing
      <3>2. EveryFleetExists' BY <2>3, <2>5 DEF Growing, EveryFleetExists
      <3>3. Bought' = Bought BY <1>1, <2>1 DEF Bought
      <3>4. Buyers(admiral.phase) \subseteq Buyers(phase)
        <4>1. admiral.phase \in Phases BY <1>2 DEF Admirals
        <4>2. Buyers(admiral.phase) \subseteq Asked(admiral.completed) BY <2>5, <4>1, BuyersGrow DEF Growing
        <4> QED BY <4>2, BuyersGrow DEF phase
      <3>5. InitialShips \subseteq admiral.all_ships BY <2>5 DEF GrowInv, FirstStart, Sound
      <3>6. admiral.all_ships \in SUBSET Ships BY <1>2 DEF Admirals
      <3>7. \A i \in DOMAIN admiral'.demand : admiral'.demand[i].for \in Buyers(phase)
        BY <2>2, <2>3, <3>5, <3>6, NewDemand
      <3>8. Wanting' BY <1>1, <2>3, <2>4, <2>5, <3>3, <3>4, <3>7 DEF Growing, Wanting
      <3>9. phase # "InitialExploration" => Begun(admiral.completed) BY BuyersGrow DEF phase
      <3>10. Begun(admiral.completed)' = Begun(admiral.completed) BY <1>1, <2>3 DEF Begun
      <3> QED BY <2>3, <3>1, <3>2, <3>8, <3>9, <3>10 DEF Growing
    <2>6. db'.ships \subseteq owned /\ (Unbroken => db'.ships = {} \/ InitialShips \subseteq db'.ships)
      BY <1>1 DEF GrowInv, WorldKnows, FirstStart
    <2> QED BY <1>1, <1>5, <2>1, <2>3, <2>5, <2>6, GrowOn
  <1> QED BY <1>6, <1>7

LEMMA AssignShipsGrows ==
  ASSUME IInv, GrowInv, AssignShips
  PROVE  GrowInv'
  <1>1. /\ todo # <<>> /\ Head(todo) = "AssignShips" /\ Proceed
        /\ UNCHANGED <<owned, tickets, explored, db, launching, actions, reports, failures, crashes, ship_ops, stage, dead>>
    BY DEF AssignShips, Does, step_else, world, bounds, fiber_vars
  <1>2. admiral \in Admirals BY DEF IInv
  <1>3. "AssignShips" \in DismantleOnly /\ "AssignShips" \in Founders /\ "AssignShips" \in Makers BY DEF DismantleOnly, Founders, Makers
  <1>4. report.type = "finished" BY <1>1, <1>3, HeadKind
  <1>5. Redoing /\ stage = "running" BY <1>1, <1>4, HeadKind DEF Redoing
  <1>6. PICK order \in SetToSeqs(admiral.fleets) :
          \E sent \in ShipAssignments(order, admiral.all_ships, ShoppingList(admiral.phase)) :
             admiral' = [admiral EXCEPT !.assignment = sent, !.budgets = Budgeted(admiral.phase)]
    BY DEF AssignShips
  <1>7. PICK sent \in ShipAssignments(order, admiral.all_ships, ShoppingList(admiral.phase)) :
          admiral' = [admiral EXCEPT !.assignment = sent, !.budgets = Budgeted(admiral.phase)]
    BY <1>6
  <1>8. admiral.fleets \in SUBSET FleetTasks /\ admiral.all_ships \in SUBSET Ships BY <1>2 DEF Admirals
  <1>9. order \in Seq(FleetTasks) /\ Range(order) \subseteq admiral.fleets BY <1>8, OrderTyped
  <1>10. \A s \in Ships : sent[s] # NoFleet => sent[s] \in Range(order) BY <1>8, <1>9, AssignmentsTyped
  <1>11. /\ admiral'.all_ships = admiral.all_ships /\ admiral'.fleets = admiral.fleets /\ admiral'.phase = admiral.phase
         /\ admiral'.assignment = sent /\ admiral'.completed = admiral.completed /\ admiral'.demand = admiral.demand
    BY <1>2, <1>7 DEF Admirals
  <1>12. report' = report /\ In(todo', "ComputeTasks") BY <1>1, <1>3, GoingOn
  <1>13. ASSUME Growing PROVE Growing'
    <2>1. Mid' BY <1>5, <1>12 DEF Mid, Redoing
    <2>2. EveryFleetExists' BY <1>9, <1>10, <1>11 DEF EveryFleetExists
    <2>3. Bought' = Bought BY <1>1 DEF Bought
    <2>4. Wanting' BY <1>1, <1>11, <1>12, <1>13, <2>3 DEF Growing, Wanting
    <2>5. Begun(admiral.completed)' = Begun(admiral.completed) BY <1>1, <1>11 DEF Begun
    <2> QED BY <1>11, <1>13, <2>1, <2>2, <2>4, <2>5 DEF Growing
  <1>14. db'.ships \subseteq owned /\ (Unbroken => db'.ships = {} \/ InitialShips \subseteq db'.ships)
    BY <1>1 DEF GrowInv, WorldKnows, FirstStart
  <1> QED BY <1>1, <1>5, <1>11, <1>13, <1>14, GrowOn

\* A bought ship joins: its fleet exists, since the phase still has the fleets it
\* had when the ship was wanted.
LEMMA RegisterGrows ==
  ASSUME IInv, StoreInv, GrowInv, Register
  PROVE  GrowInv'
  <1>1. /\ todo # <<>> /\ Head(todo) = "Register"
        /\ UNCHANGED <<owned, tickets, explored, db, launching, actions, reports, failures, crashes, ship_ops, dead>>
    BY DEF Register, Does, step_else, world, bounds, fiber_vars
  <1>2. admiral \in Admirals BY DEF IInv
  <1>3. report.type = "purchased" /\ stage = "running" /\ report.ship \in Ships /\ report.fleet \in FleetTasks BY <1>1, NewShip
  <1>4. /\ admiral'.all_ships = admiral.all_ships \cup {report.ship}
        /\ admiral'.fleets = admiral.fleets /\ admiral'.phase = admiral.phase /\ admiral'.budgets = admiral.budgets
        /\ admiral'.completed = admiral.completed /\ admiral'.demand = admiral.demand
        /\ admiral'.assignment = [admiral.assignment EXCEPT ![report.ship] = report.fleet]
    BY <1>2 DEF Register, Admirals
  <1>5. Loaded BY <1>3, LoadedNow
  <1>6. ASSUME Unbroken, Sound PROVE report.fleet \in admiral.fleets \cap admiral.budgets
    <2>1. Growing BY <1>6 DEF GrowInv
    <2>2. ~ Mid BY <1>3 DEF Mid, Redoing
    <2>3. admiral.fleets = Range(PhaseTasks(admiral.phase)) /\ admiral.budgets = admiral.fleets
      BY <1>6, <2>2 DEF StoreInv, Steady, PhaseKept
    <2>4. admiral.phase \in Phases /\ admiral.phase # "TradeProfitably" BY <1>2, <2>1, <2>2 DEF Growing, Admirals
    <2>5. report.fleet \in Buyers(admiral.phase) BY <1>3, <2>1 DEF Growing, Wanting
    <2>6. Buyers(admiral.phase) \subseteq Range(PhaseTasks(admiral.phase))
      <3>1. admiral.phase = "InitialExploration" \/ admiral.phase = "ConstructJumpGate" BY <2>4 DEF Phases
      <3>2. Buyers("InitialExploration") \subseteq {"InitialExploration", "ObserveAllWaypoints"} BY DEF Buyers
      <3>3. Buyers("ConstructJumpGate") \subseteq {"ConstructJumpGate", "ObserveAllWaypoints", "SiphonGases", "MineOres"} BY DEF Buyers
      <3> QED BY <2>4, <3>1, <3>2, <3>3, PhaseFleets
    <2> QED BY <2>3, <2>5, <2>6
  <1>7. CASE report.fleet \notin admiral.fleets \cap admiral.budgets
    <2>1. GiveUp BY <1>7 DEF Register
    <2>2. Unbroken => ~ Sound BY <1>6, <1>7
    <2>3. Bought' = Bought BY <1>1 DEF Bought
    <2>4. stage' = stage BY <1>3, <2>1 DEF GiveUp
    <2>5. Sound' => Sound BY <1>1, <1>5 DEF Sound
    <2>6. "actions" \in dead' => "status" \in dead' BY <1>1 DEF GrowInv, WorldKnows
    <2> QED BY <1>1, <1>3, <1>4, <2>1, <2>2, <2>3, <2>5, <2>6, GivenUpGrows
  <1>8. CASE report.fleet \in admiral.fleets \cap admiral.budgets
    <2>1. Proceed /\ stage' = stage BY <1>8 DEF Register
    <2>2. In(todo', "LaunchNew") /\ ~ In(todo', "Register") /\ report' = report /\ Loaded'
      <3>1. /\ todo \in Seq(Steps) /\ Agenda(todo, report.type) BY <1>1, HeadKind
      <3>2. todo' = Tail(todo) BY <2>1 DEF Proceed
      <3>3. "Register" \in Makers BY DEF Makers
      <3>4. In(todo', "LaunchNew") BY <1>1, <3>1, <3>2, AgendaStep
      <3>5. ~ In(todo', "Register") /\ ~ In(todo', "Create") /\ ~ In(todo', "Load") /\ report' = report
        BY <1>1, <2>1, <3>3, GoingOn
      <3> QED BY <1>3, <2>1, <3>4, <3>5 DEF Loaded
    <2>3. Unbroken' = Unbroken /\ Sound' = Sound BY <1>1, <1>5, <2>2 DEF Unbroken, Sound
    <2>4. Bought' = Bought BY <1>1 DEF Bought
    <2>5. WorldKnows' BY <1>1, <2>1, <2>4 DEF GrowInv, WorldKnows
    <2>6. Unbroken => FirstStart' BY <1>1, <1>3, <1>4, <1>5, <2>1 DEF GrowInv, FirstStart
    <2>7. ASSUME Unbroken, Sound PROVE Growing'
      <3>1. Growing BY <2>7 DEF GrowInv
      <3>2. EveryFleetExists'
        <4> SUFFICES ASSUME NEW s \in Ships PROVE admiral'.assignment[s] \in admiral'.fleets \cup {NoFleet}
          BY DEF EveryFleetExists
        <4>1. admiral.assignment \in [Ships -> FleetTasks \cup {NoFleet}] BY <1>2 DEF Admirals, FleetMaps
        <4>2. CASE s = report.ship BY <1>3, <1>4, <1>8, <4>1, <4>2
        <4>3. CASE s # report.ship
          <5>1. admiral'.assignment[s] = admiral.assignment[s] BY <1>4, <4>1, <4>3
          <5> QED BY <1>4, <3>1, <5>1 DEF Growing, EveryFleetExists
        <4> QED BY <4>2, <4>3
      <3>3. Wanting' BY <1>1, <1>4, <2>2, <2>4, <3>1 DEF Growing, Wanting
      <3>4. ~ Mid BY <1>3 DEF Mid, Redoing
      <3>5. Begun(admiral.completed)' = Begun(admiral.completed) BY <1>1, <1>4 DEF Begun
      <3> QED BY <1>4, <3>1, <3>2, <3>3, <3>4, <3>5 DEF Growing
    <2>8. ASSUME Unbroken, Sound, "launcher" \notin dead PROVE Tracked'
      <3>1. Tracked BY <1>3, <2>8 DEF GrowInv
      <3>2. Joining = {report.ship} \/ Joining = {} BY DEF Joining
      <3>3. ToLaunch' = {report.ship} BY <2>2 DEF ToLaunch
      <3>4. ToLaunch = {}
        <4>1. In(todo, "Register") BY <1>1, <2>1, GoingOn
        <4> QED BY <4>1 DEF ToLaunch
      <3>5. admiral'.all_ships \subseteq ship_ops' \cup launching'.left \cup ToLaunch' BY <1>1, <1>4, <3>1, <3>3, <3>4 DEF Tracked
      <3>6. owned' \subseteq admiral'.all_ships \cup {m.ship : m \in Bought'} \cup Joining'
        BY <1>1, <1>4, <2>4, <3>1, <3>2 DEF Tracked
      <3> QED BY <3>5, <3>6 DEF Tracked
    <2> QED BY <1>1, <1>3, <2>1, <2>3, <2>5, <2>6, <2>7, <2>8 DEF GrowInv
  <1> QED BY <1>7, <1>8

LEMMA LaunchNewGrows ==
  ASSUME IInv, GrowInv, LaunchNew
  PROVE  GrowInv'
  <1>1. /\ todo # <<>> /\ Head(todo) = "LaunchNew" /\ Proceed /\ ship_ops' = ship_ops \cup {report.ship}
        /\ UNCHANGED <<owned, tickets, explored, db, launching, actions, reports, failures, crashes, stage, dead, admiral>>
    BY DEF LaunchNew, Does, step_else, world, bounds
  <1>2. todo \in Seq(Steps) /\ Agenda(todo, report.type) BY <1>1, HeadKind
  <1>3. todo' = <<>> BY <1>1, <1>2, AgendaStep DEF Proceed
  <1>4. \A x : ~ In(todo', x) BY <1>3 DEF In
  <1>5. stage = "running" /\ Loaded BY <1>1, NewShip, LoadedNow
  <1>6. Loaded' BY <1>1, <1>4, <1>5 DEF Loaded
  <1>7. Unbroken' = Unbroken /\ Sound' = Sound BY <1>1, <1>5, <1>6 DEF Unbroken, Sound
  <1>8. Bought' = Bought BY <1>1 DEF Bought
  <1>9. WorldKnows' BY <1>1, <1>8 DEF GrowInv, WorldKnows
  <1>10. Unbroken => FirstStart' BY <1>1, <1>5 DEF GrowInv, FirstStart
  <1>11. Unbroken /\ Sound => Growing'
    <2>1. Growing => Growing' BY <1>1, GrowingOn
    <2> QED BY <2>1 DEF GrowInv
  <1>12. ASSUME Unbroken, Sound, "launcher" \notin dead PROVE Tracked'
    <2>1. Tracked BY <1>5, <1>12 DEF GrowInv
    <2>2. ~ In(todo, "Register")
      <3>1. In(todo, "Register") => FALSE BY <1>1, <1>4, GoingOn
      <3> QED BY <3>1
    <2>3. Joining = {} /\ ToLaunch \subseteq {report.ship} BY <2>2 DEF Joining, ToLaunch
    <2> QED BY <1>1, <1>8, <2>1, <2>3 DEF Tracked
  <1> QED BY <1>1, <1>5, <1>7, <1>9, <1>10, <1>11, <1>12 DEF GrowInv

-----------------------------------------------------------------------------
(* Statements and the start. *)

LEMMA WriteGrows ==
  ASSUME IInv, GrowInv, NEW step \in Writes, Write(step)
  PROVE  GrowInv'
  <1>1. /\ todo # <<>> /\ Head(todo) = step
        /\ UNCHANGED <<owned, tickets, explored, dead, launching, ship_ops, actions, reports, failures, crashes>>
    BY DEF Write, Does, world, bounds, channels, fiber_vars
  <1>2. Unbroken => FirstStart BY DEF GrowInv
  <1>3. stage \in {"starting", "running"} BY <1>1, HeadKind
  <1>4. Bought' = Bought BY <1>1 DEF Bought
  <1>5. CASE ~ ForeignKeys(Stored(step, Keys(step)))
    <2>1. GiveUp /\ UNCHANGED db /\ admiral' = IF stage = "starting" THEN NoAdmiral ELSE admiral BY <1>5 DEF Write
    <2>2. Unbroken => ~ Sound
      <3>1. Growing => ForeignKeys(Stored(step, Keys(step))) BY <1>1, Accepted DEF Growing
      <3> QED BY <1>5, <3>1 DEF GrowInv
    <2>3. Sound' => Sound
      <3>1. CASE stage = "running" BY <1>1, <3>1, LoadedNow DEF Sound
      <3>2. CASE stage = "starting" BY <2>1, <3>2 DEF GiveUp, Sound, Loaded
      <3> QED BY <1>3, <3>1, <3>2
    <2>4. Unbroken /\ stage # "running" => \A t \in tickets' : t.for \in Asked(db.completed) BY <1>1, <1>2 DEF FirstStart
    <2>5. "actions" \in dead' => "status" \in dead' BY <1>1 DEF GrowInv, WorldKnows
    <2> QED BY <1>1, <1>4, <2>1, <2>2, <2>3, <2>4, <2>5, GivenUpGrows
  <1>6. CASE ForeignKeys(Stored(step, Keys(step)))
    <2>1. db' = Stored(step, Keys(step)) /\ Proceed /\ stage' = stage /\ admiral' = admiral BY <1>6 DEF Write
    <2>2. db'.ships \subseteq owned
      <3>1. Keys(step) \in SUBSET Keys(step) OBVIOUS
      <3> QED BY <1>1, <2>1, <3>1, OwnShipsStored DEF GrowInv, WorldKnows
    <2>3. Unbroken => db'.ships = {} \/ InitialShips \subseteq db'.ships
      <3>1. SUFFICES ASSUME Unbroken PROVE db'.ships = {} \/ InitialShips \subseteq db'.ships OBVIOUS
      <3>2. CASE step # "StoreShips" BY <1>1, <1>2, <2>1, <3>1, <3>2, StoredRows DEF FirstStart
      <3>3. CASE step = "StoreShips"
        <4>1. db'.ships = db.ships \cup IF report = Starting THEN owned ELSE {report.ship} BY <1>1, <2>1, <3>3, StoredRows
        <4>2. CASE report = Starting
          <5>1. stage = "starting" BY <4>2 DEF IInv, AgendaFits
          <5> QED BY <1>2, <3>1, <4>1, <4>2, <5>1 DEF FirstStart
        <4>3. CASE report # Starting
          <5>1. stage = "running" BY <1>1, <4>3, HeadKind
          <5>2. InitialShips \subseteq admiral.all_ships BY <1>2, <3>1, <5>1, LoadedNow DEF FirstStart
          <5>3. admiral.all_ships \subseteq db.ships BY DEF IInv, AdmiralKnows, Knows
          <5> QED BY <4>1, <5>2, <5>3
        <4> QED BY <4>2, <4>3
      <3> QED BY <3>2, <3>3
    <2>4. stage = "starting" => db'.completed = db.completed
      <3>1. SUFFICES ASSUME stage = "starting" PROVE db'.completed = db.completed OBVIOUS
      <3>2. report.type = "start" BY <1>1, <3>1, HeadKind
      <3>3. step # "SaveCompleted" BY <1>1, <3>2, HeadKind DEF StepsOf, UpsertStep
      <3> QED BY <2>1, <3>3 DEF IInv, Tables, Stored, Writes
    <2>5. step \notin {"Create", "Load", "Register", "LaunchNew", "ComputeTasks"} BY DEF Writes
    <2>6. Growing => Growing' BY <1>1, <2>1, <2>5, GrowingOn
    <2>7. Unbroken /\ stage # "running" => \A t \in tickets' : t.for \in Asked(db.completed) BY <1>1, <1>2 DEF FirstStart
    <2> QED BY <1>1, <2>1, <2>2, <2>3, <2>4, <2>5, <2>6, <2>7, GrowOn
  <1> QED BY <1>5, <1>6

\* The admiral is made of the tables, for the phase that they give.
LEMMA MadeGrows ==
  ASSUME IInv, StoreInv, GrowInv, todo # <<>>, Head(todo) \in {"Create", "Load"}, Proceed,
         UNCHANGED <<owned, tickets, explored, db, stage, dead, actions, reports, failures, crashes>>,
         admiral'.all_ships = db.ships, admiral'.completed = db.completed,
         admiral'.phase = CurrentPhase(db.completed),
         admiral'.demand = NextShipPurchases(db.ships, CurrentPhase(db.completed)),
         EveryFleetExists'
  PROVE  GrowInv'
  <1>1. report = Starting /\ Redoing /\ stage = "starting" BY HeadKind, ReportKinds DEF Redoing
  <1>2. Head(todo) \in Founders /\ Head(todo) \in Makers BY DEF Founders, Makers
  <1>3. /\ report' = report /\ In(todo', "ComputeTasks") /\ ~ In(todo', "Create") /\ ~ In(todo', "Load")
        /\ \A x : In(todo, x) <=> x = Head(todo) \/ In(todo', x)
    BY <1>2, GoingOn
  <1>4. db.ships # {}
    <2>1. In(todo, Head(todo)) BY <1>3
    <2>2. Head(todo) = "Create" => ~ In(todo, "StoreShips") BY LoadedNow
    <2> QED BY <2>1, <2>2 DEF StoreInv, ReadyToStart
  <1>5. WorldKnows /\ Bought' = Bought BY DEF GrowInv, Bought
  <1>6. WorldKnows' BY <1>5 DEF WorldKnows
  <1>7. Bought' = {} BY <1>1, <1>5 DEF WorldKnows
  <1>8. Unbroken' = Unbroken BY DEF Unbroken
  <1>9. Asked(db.completed)' = Asked(db.completed) BY DEF Asked, Begun
  <1>10. ASSUME Unbroken PROVE FirstStart' /\ Growing'
    <2>1. FirstStart BY <1>10 DEF GrowInv
    <2>2. InitialShips \subseteq db.ships BY <1>4, <2>1 DEF FirstStart
    <2>3. FirstStart' BY <1>1, <1>9, <2>1, <2>2 DEF FirstStart
    <2> DEFINE phase == CurrentPhase(db.completed)
    <2>4. phase \in Phases BY PhaseTyped
    <2>5. Asked(db.completed) = Buyers(phase) BY BuyersGrow
    <2>6. \A t \in tickets : t.for \in Buyers(phase) BY <1>1, <2>1, <2>5 DEF FirstStart
    <2>7. phase # "InitialExploration" => Begun(db.completed) BY BuyersGrow
    <2> HIDE DEF phase
    <2>8. db.ships \in SUBSET Ships BY DEF IInv, Tables
    <2>9. \A i \in DOMAIN admiral'.demand : admiral'.demand[i].for \in Buyers(phase)
      BY <2>2, <2>4, <2>8, NewDemand DEF phase
    <2>10. admiral'.phase = phase BY DEF phase
    <2>11. report'.type # "purchased" BY <1>1, <1>3, ReportKinds
    <2>12. Wanting' BY <1>7, <2>6, <2>9, <2>10, <2>11 DEF Wanting
    <2>13. Mid' BY <1>1, <1>3 DEF Mid, Redoing
    <2>14. Begun(admiral.completed)' = Begun(db.completed) BY DEF Begun
    <2>15. Growing' BY <2>7, <2>10, <2>12, <2>13, <2>14 DEF Growing
    <2> QED BY <2>3, <2>15
  <1> QED BY <1>1, <1>6, <1>8, <1>10 DEF GrowInv

LEMMA CreateGrows ==
  ASSUME IInv, StoreInv, GrowInv, Create
  PROVE  GrowInv'
  <1>1. /\ todo # <<>> /\ Head(todo) = "Create" /\ Proceed
        /\ UNCHANGED <<owned, tickets, explored, db, stage, dead, actions, reports, failures, crashes>>
    BY DEF Create, Does, world, channels, bounds
  <1> DEFINE phase == CurrentPhase(db.completed)
             fleets == Range(PhaseTasks(phase))
  <1>2. PICK sent \in ShipAssignments(PhaseTasks(phase), db.ships, ShoppingList(phase)) :
             admiral' = [NoAdmiral EXCEPT
                 !.all_ships = db.ships, !.fleets = fleets, !.fleet_tasks = TaskRows(fleets),
                 !.assignment = sent, !.completed = db.completed, !.phase = phase,
                 !.demand = NextShipPurchases(db.ships, phase), !.budgets = Budgeted(phase)]
    BY DEF Create
  <1>3. phase \in Phases BY PhaseTyped
  <1> HIDE DEF phase
  <1>4. /\ admiral'.all_ships = db.ships /\ admiral'.fleets = fleets /\ admiral'.phase = phase
        /\ admiral'.assignment = sent /\ admiral'.completed = db.completed
        /\ admiral'.demand = NextShipPurchases(db.ships, phase)
    BY <1>2 DEF NoAdmiral
  <1>5. EveryFleetExists'
    <2>1. PhaseTasks(phase) \in Seq(FleetTasks) BY <1>3, PhaseFleets
    <2>2. db.ships \in SUBSET Ships BY DEF IInv, Tables
    <2>3. \A s \in Ships : sent[s] # NoFleet => sent[s] \in Range(PhaseTasks(phase)) BY <2>1, <2>2, AssignmentsTyped
    <2> QED BY <1>4, <2>3 DEF EveryFleetExists
  <1> QED BY <1>1, <1>4, <1>5, MadeGrows DEF phase

LEMMA LoadGrows ==
  ASSUME IInv, StoreInv, GrowInv, Load
  PROVE  GrowInv'
  <1>1. /\ todo # <<>> /\ Head(todo) = "Load"
        /\ UNCHANGED <<owned, tickets, explored, db, actions, failures, crashes>>
    BY DEF Load, Does, world, bounds
  <1>2. stage = "starting" BY <1>1, HeadKind, ReportKinds
  <1> DEFINE phase == CurrentPhase(db.completed)
             fleets == db.fleets \cup Range(PhaseTasks(phase))
  <1>3. CASE \A f \in db.fleets : db.fleet_tasks[f] = "task"
    <2>1. Proceed /\ UNCHANGED <<stage, dead, reports>>
          /\ admiral' = [all_ships |-> db.ships, fleets |-> fleets, fleet_tasks |-> TaskRows(fleets),
                       assignment |-> db.assignment, ship_tasks |-> db.ship_tasks,
                       completed |-> db.completed, phase |-> phase,
                       demand |-> NextShipPurchases(db.ships, phase), budgets |-> Budgeted(phase)]
      BY <1>3 DEF Load
    <2> HIDE DEF phase
    <2>2. /\ admiral'.all_ships = db.ships /\ admiral'.fleets = fleets /\ admiral'.phase = phase
          /\ admiral'.assignment = db.assignment /\ admiral'.completed = db.completed
          /\ admiral'.demand = NextShipPurchases(db.ships, phase)
      BY <2>1
    <2>3. EveryFleetExists'
      <3>1. \A s \in Ships : db.assignment[s] # NoFleet => db.assignment[s] \in db.fleets
        BY DEF IInv, Placed, ForeignKeys
      <3> QED BY <2>2, <3>1 DEF EveryFleetExists
    <2> QED BY <1>1, <2>1, <2>2, <2>3, MadeGrows DEF phase
  <1>4. CASE ~ (\A f \in db.fleets : db.fleet_tasks[f] = "task")
    <2>1. PanicWith(NoAdmiral) BY <1>4 DEF Load
    <2>2. Unbroken /\ stage # "running" => \A t \in tickets' : t.for \in Asked(db.completed)
      BY <1>1 DEF GrowInv, FirstStart
    <2> QED BY <1>1, <1>2, <2>1, <2>2, PanicGrows
  <1> QED BY <1>3, <1>4

\* The process runs: its launcher is to launch every ship that the admiral knows.
LEMMA ListenGrows ==
  ASSUME IInv, GrowInv, Listen
  PROVE  GrowInv'
  <1>1. /\ todo # <<>> /\ Head(todo) = "Listen" /\ Proceed /\ stage' = "running"
        /\ launching'.left = admiral.all_ships
        /\ UNCHANGED <<owned, tickets, explored, db, dead, admiral, ship_ops, actions, reports, failures, crashes>>
    BY DEF Listen, Does, world, fiber_vars, channels, bounds
  <1>2. todo \in Seq(Steps) /\ Agenda(todo, report.type) /\ report = Starting BY <1>1, HeadKind
  <1>3. todo' = <<>> BY <1>1, <1>2, AgendaStep DEF Proceed
  <1>4. \A x : ~ In(todo', x) BY <1>3 DEF In
  <1>5. Loaded /\ Loaded' BY <1>1, <1>4, LoadedNow DEF Loaded
  <1>6. Unbroken' = Unbroken /\ Sound' = Sound BY <1>1, <1>5 DEF Unbroken, Sound
  <1>7. Bought' = Bought BY <1>1 DEF Bought
  <1>8. WorldKnows' BY <1>1, <1>7 DEF GrowInv, WorldKnows
  <1>9. Unbroken => FirstStart' BY <1>1, <1>5 DEF GrowInv, FirstStart
  <1>10. Unbroken /\ Sound => Growing'
    <2>1. Growing => Growing' BY <1>1, GrowingOn
    <2> QED BY <2>1 DEF GrowInv
  <1>11. ASSUME Unbroken PROVE Tracked'
    <2>1. FirstStart BY <1>11 DEF GrowInv
    <2>2. stage = "starting" BY <1>1, <1>2, HeadKind, ReportKinds
    <2>3. owned \subseteq admiral.all_ships BY <1>5, <2>1, <2>2 DEF FirstStart
    <2> QED BY <1>1, <2>3 DEF Tracked
  <1> QED BY <1>6, <1>8, <1>9, <1>10, <1>11 DEF GrowInv

-----------------------------------------------------------------------------
(* The listener takes a report. *)

LEMMA JoiningPlans ==
  \A x \in {"Register", "LaunchNew"} : /\ ~ In(DismantleSteps, x) /\ ~ In(NewTaskSteps, x)
                                       /\ ~ In(<<>>, x) /\ ~ In(<<"SaveCompleted">>, x) /\ ~ In(<<"SaveShipTasks">>, x)
  <1>1. \A i \in DOMAIN DismantleSteps : DismantleSteps[i] \notin {"Register", "LaunchNew"} BY DismantlePlan
  <1>2. \A i \in DOMAIN NewTaskSteps : NewTaskSteps[i] \notin {"Register", "LaunchNew"} BY NewTaskPlan
  <1>3. \A x \in {"Register", "LaunchNew"} : ~ In(<<>>, x) /\ ~ In(<<"SaveCompleted">>, x) /\ ~ In(<<"SaveShipTasks">>, x)
    BY DEF In
  <1> QED BY <1>1, <1>2, <1>3 DEF In

\* The ship of a purchase that is taken is about to join.
LEMMA TakenGrows ==
  ASSUME IInv, GrowInv, todo = <<>>, stage = "running", reports # <<>>, NEW msg, NEW steps, Handle(msg, steps),
         UNCHANGED <<stage, dead, db, owned, explored, launching, ship_ops, actions, failures, crashes>>,
         UNCHANGED <<admiral.all_ships, admiral.fleets, admiral.assignment, admiral.phase>>,
         admiral.completed \subseteq admiral'.completed,
         Growing => /\ \A t \in tickets' : t.for \in Buyers(admiral.phase)
                    /\ \A i \in DOMAIN admiral'.demand : admiral'.demand[i].for \in Buyers(admiral.phase),
         ~ In(steps, "Create"), ~ In(steps, "Load"),
         IF Head(reports).type = "purchased" THEN msg = Head(reports) /\ In(steps, "Register")
         ELSE msg.type # "purchased" /\ ~ In(steps, "Register") /\ ~ In(steps, "LaunchNew")
  PROVE  GrowInv'
  <1>1. todo' = steps /\ report' = (IF steps = <<>> THEN NoReport ELSE msg) /\ reports' = Tail(reports) BY DEF Handle
  <1>2. (\A x : ~ In(todo, x)) /\ Loaded BY LoadedNow
  <1>3. Loaded' BY <1>1, <1>2 DEF Loaded
  <1>4. Unbroken' = Unbroken /\ Sound' = Sound BY <1>2, <1>3 DEF Unbroken, Sound
  <1>5. reports \in Seq(Credible) BY DEF IInv, ChannelsTyped
  <1>6. Range(reports) = Range(reports') \cup {Head(reports)}
    <2> DEFINE S == Credible
    <2> HIDE DEF S
    <2>1. reports \in Seq(S) BY <1>5 DEF S
    <2> QED BY <1>1, <2>1, RangeOfChannel
  <1>7. Bought' \subseteq Bought /\ (Head(reports).type = "purchased" => Head(reports) \in Bought)
        /\ \A m \in Bought : m \in Bought' \/ (m = Head(reports) /\ Head(reports).type = "purchased")
    BY <1>6 DEF Bought
  <1>8. Joining = {} /\ ToLaunch = {} /\ ToLaunch' = {} BY <1>1, <1>2 DEF Joining, ToLaunch
  <1>9. Head(reports).type = "purchased" => report' = Head(reports) /\ Joining' = {Head(reports).ship}
    <2>1. In(steps, "Register") => steps # <<>> BY DEF In
    <2> QED BY <1>1, <2>1 DEF Joining
  <1>10. report'.type = "purchased" => report' = Head(reports) /\ Head(reports) \in Bought
    BY <1>1, <1>7, <1>9, ReportKinds
  <1> HIDE DEF Bought
  <1>11. WorldKnows' BY <1>7 DEF GrowInv, WorldKnows
  <1>12. Unbroken => FirstStart' BY <1>2 DEF GrowInv, FirstStart
  <1>13. ASSUME Unbroken, Sound PROVE Growing'
    <2>1. Growing BY <1>13 DEF GrowInv
    <2>2. EveryFleetExists' BY <2>1 DEF Growing, EveryFleetExists
    <2>3. Wanting' BY <1>7, <1>10, <2>1 DEF Growing, Wanting
    <2>4. ~ Mid BY <1>2 DEF Mid
    <2>5. Begun(admiral.completed) => Begun(admiral.completed)' BY DEF Begun
    <2> QED BY <2>1, <2>2, <2>3, <2>4, <2>5 DEF Growing
  <1>14. ASSUME Unbroken, Sound, "launcher" \notin dead PROVE Tracked'
    <2>1. Tracked BY <1>14 DEF GrowInv
    <2>2. {m.ship : m \in Bought} \subseteq {m.ship : m \in Bought'} \cup Joining' BY <1>7, <1>9
    <2> QED BY <1>8, <2>1, <2>2 DEF Tracked
  <1> QED BY <1>4, <1>11, <1>12, <1>13, <1>14 DEF GrowInv

LEMMA WithoutTaskKeeps ==
  ASSUME admiral \in Admirals, NEW r
  PROVE  WithoutTask(r).completed = admiral.completed /\ WithoutTask(r).demand = admiral.demand
  BY DEF WithoutTask, Admirals

LEMMA TakeRest ==
  ASSUME IInv, UNCHANGED taker_else
  PROVE  UNCHANGED <<owned, explored, db, launching, ship_ops, actions, failures, crashes>>
  BY DEF taker_else, fiber_vars, bounds

LEMMA TakeCollectedGrows ==
  ASSUME IInv, GrowInv, TakeCollected
  PROVE  GrowInv'
  <1>1. admiral \in Admirals BY DEF IInv
  <1>2. UNCHANGED <<owned, explored, db, launching, ship_ops, actions, failures, crashes, tickets, stage, dead>>
    BY TakeRest DEF TakeCollected
  <1>3. stage = "running" /\ todo = <<>> /\ reports # <<>> /\ Head(reports).type = "collected"
    BY DEF TakeCollected, Takes, Free
  <1> DEFINE msg == Head(reports)
  <1>4. /\ UNCHANGED <<admiral.all_ships, admiral.fleets, admiral.assignment, admiral.phase, admiral.demand>>
        /\ admiral.completed \subseteq admiral'.completed
    BY <1>1 DEF TakeCollected, Admirals
  <1>5. Handle(msg, <<"SaveCompleted">>) \/ Handle(msg, <<"SaveShipTasks">>) \/ Handle(msg, <<>>)
    BY DEF TakeCollected
  <1>6. msg.type # "purchased" /\ ~ (Head(reports).type = "purchased") BY <1>3
  <1>7. Growing => /\ \A t \in tickets' : t.for \in Buyers(admiral.phase)
                   /\ \A i \in DOMAIN admiral'.demand : admiral'.demand[i].for \in Buyers(admiral.phase)
    BY <1>2, <1>4 DEF Growing, Wanting
  <1> HIDE DEF msg
  <1>8. CASE Handle(msg, <<"SaveCompleted">>) BY <1>2, <1>3, <1>4, <1>6, <1>7, <1>8, PlansOf, JoiningPlans, TakenGrows
  <1>9. CASE Handle(msg, <<"SaveShipTasks">>) BY <1>2, <1>3, <1>4, <1>6, <1>7, <1>9, PlansOf, JoiningPlans, TakenGrows
  <1>10. CASE Handle(msg, <<>>) BY <1>2, <1>3, <1>4, <1>6, <1>7, <1>10, PlansOf, JoiningPlans, TakenGrows
  <1> QED BY <1>5, <1>8, <1>9, <1>10

LEMMA TakeExploredGrows ==
  ASSUME IInv, GrowInv, TakeExplored
  PROVE  GrowInv'
  <1>1. admiral \in Admirals BY DEF IInv
  <1>2. UNCHANGED <<owned, explored, db, launching, ship_ops, actions, failures, crashes, tickets>>
    BY TakeRest DEF TakeExplored
  <1>3. stage = "running" /\ todo = <<>> /\ reports # <<>> /\ Head(reports).type = "finished"
    BY DEF TakeExplored, Takes, Free
  <1> DEFINE msg == Head(reports)
             left == WithoutTask(msg.ship)
  <1>4. /\ left.all_ships = admiral.all_ships /\ left.fleets = admiral.fleets
        /\ left.assignment = admiral.assignment /\ left.phase = admiral.phase
        /\ left.completed = admiral.completed /\ left.demand = admiral.demand
    BY <1>1, WithoutTaskOnly, WithoutTaskKeeps
  <1>5. \/ admiral' = left /\ (\E fleet : Handle([msg EXCEPT !.fleet = fleet], DismantleSteps)) /\ UNCHANGED <<stage, dead>>
        \/ PanicWith(left)
    BY DEF TakeExplored
  <1>6. msg.type = "finished" /\ msg \in Messages BY <1>3 DEF IInv, ChannelsTyped, Credible
  <1> HIDE DEF left
  <1>7. CASE PanicWith(left)
    <2>1. stage = "running" => admiral.all_ships \subseteq left.all_ships BY <1>4
    <2> QED BY <1>2, <1>3, <1>7, <2>1, PanicGrows
  <1>8. CASE admiral' = left /\ (\E fleet : Handle([msg EXCEPT !.fleet = fleet], DismantleSteps)) /\ UNCHANGED <<stage, dead>>
    <2>1. PICK fleet : Handle([msg EXCEPT !.fleet = fleet], DismantleSteps) BY <1>8
    <2> DEFINE with == [msg EXCEPT !.fleet = fleet]
    <2>2. with.type # "purchased"
      <3> HIDE DEF msg
      <3> QED BY <1>6 DEF Messages
    <2> HIDE DEF with
    <2>3. Handle(with, DismantleSteps) BY <2>1 DEF with
    <2>4. Growing => /\ \A t \in tickets' : t.for \in Buyers(admiral.phase)
                     /\ \A i \in DOMAIN admiral'.demand : admiral'.demand[i].for \in Buyers(admiral.phase)
      BY <1>2, <1>4, <1>8 DEF Growing, Wanting
    <2> HIDE DEF msg
    <2> QED BY <1>2, <1>3, <1>4, <1>8, <2>2, <2>3, <2>4, PlansOf, JoiningPlans, TakenGrows
  <1> QED BY <1>5, <1>7, <1>8

LEMMA TakeMinedGrows ==
  ASSUME IInv, GrowInv, TakeMined
  PROVE  GrowInv'
  <1>1. admiral \in Admirals BY DEF IInv
  <1>2. UNCHANGED <<owned, explored, db, launching, ship_ops, actions, failures, crashes, tickets, stage, dead>>
    BY TakeRest DEF TakeMined
  <1>3. stage = "running" /\ todo = <<>> /\ reports # <<>> /\ Head(reports).type = "finished"
    BY DEF TakeMined, Takes, Free
  <1> DEFINE msg == Head(reports)
             left == WithoutTask(msg.ship)
  <1>4. /\ left.all_ships = admiral.all_ships /\ left.fleets = admiral.fleets
        /\ left.assignment = admiral.assignment /\ left.phase = admiral.phase
        /\ left.completed = admiral.completed /\ left.demand = admiral.demand
    BY <1>1, WithoutTaskOnly, WithoutTaskKeeps
  <1>5. admiral' = left /\ Handle(msg, NewTaskSteps) BY DEF TakeMined
  <1>6. msg.type # "purchased" /\ ~ (Head(reports).type = "purchased") BY <1>3
  <1> HIDE DEF msg, left
  <1>7. Growing => /\ \A t \in tickets' : t.for \in Buyers(admiral.phase)
                   /\ \A i \in DOMAIN admiral'.demand : admiral'.demand[i].for \in Buyers(admiral.phase)
    BY <1>2, <1>4, <1>5 DEF Growing, Wanting
  <1> QED BY <1>2, <1>3, <1>4, <1>5, <1>6, <1>7, PlansOf, JoiningPlans, TakenGrows

LEMMA TakePurchasedGrows ==
  ASSUME IInv, GrowInv, TakePurchased
  PROVE  GrowInv'
  <1>1. UNCHANGED <<owned, explored, db, launching, ship_ops, actions, failures, crashes, tickets, stage, dead, admiral>>
    BY TakeRest DEF TakePurchased
  <1>2. stage = "running" /\ todo = <<>> /\ reports # <<>> /\ Head(reports).type = "purchased"
    BY DEF TakePurchased, Takes, Free
  <1>3. Handle(Head(reports), NewShipSteps) BY DEF TakePurchased
  <1>4. Growing => /\ \A t \in tickets' : t.for \in Buyers(admiral.phase)
                   /\ \A i \in DOMAIN admiral'.demand : admiral'.demand[i].for \in Buyers(admiral.phase)
    BY <1>1 DEF Growing, Wanting
  <1> DEFINE msg == Head(reports)
  <1>5. msg = Head(reports) /\ Handle(msg, NewShipSteps) BY <1>3
  <1> HIDE DEF msg
  <1>6. IF Head(reports).type = "purchased" THEN msg = Head(reports) /\ In(NewShipSteps, "Register")
         ELSE msg.type # "purchased" /\ ~ In(NewShipSteps, "Register") /\ ~ In(NewShipSteps, "LaunchNew")
    BY <1>2, <1>5, PlanHeads
  <1>7. ~ In(NewShipSteps, "Create") /\ ~ In(NewShipSteps, "Load") BY PlansOf
  <1> QED BY <1>1, <1>2, <1>4, <1>5, <1>6, <1>7, TakenGrows

LEMMA TakeTradedGrows ==
  ASSUME IInv, GrowInv, TakeTraded
  PROVE  GrowInv'
  <1>1. UNCHANGED <<owned, explored, db, launching, ship_ops, actions, failures, crashes>>
    BY TakeRest DEF TakeTraded
  <1>2. Takes("finished") BY DEF TakeTraded
  <1>3. Head(reports) \in Credible /\ Head(reports).type = "finished" /\ stage = "running" /\ reports # <<>>
        /\ Head(reports).ship \in Ships /\ todo = <<>>
    BY <1>2, HeadCredible
  <1> DEFINE msg == Head(reports)
             left == WithoutTask(msg.ship)
             plan == [demand |-> left.demand, tickets |-> tickets]
  <1>4. admiral \in Admirals /\ left \in Admirals /\ tickets \subseteq Tickets BY <1>3, WithoutTyped DEF IInv, WorldTyped
  <1>5. /\ left.all_ships = admiral.all_ships /\ left.fleets = admiral.fleets
        /\ left.assignment = admiral.assignment /\ left.phase = admiral.phase
        /\ left.completed = admiral.completed /\ left.demand = admiral.demand
    BY <1>4, WithoutTaskOnly, WithoutTaskKeeps
  <1>6. PICK p \in PurchaseOutcomes(left, plan) :
          \E o \in ComputeOutcomes(left, p) :
              /\ tickets' = o.plan.tickets
              /\ LET next == [left EXCEPT !.demand = o.plan.demand]
                 IN  IF HasBudgets(left)
                     THEN /\ admiral' = next
                          /\ Handle([msg EXCEPT !.task = o.tasks[msg.ship]],
                                    IF o.tasks[msg.ship] = NoTask THEN <<>> ELSE NewTaskSteps)
                          /\ UNCHANGED <<stage, dead>>
                     ELSE PanicWith(next)
    BY DEF TakeTraded
  <1>7. PICK o \in ComputeOutcomes(left, p) :
              /\ tickets' = o.plan.tickets
              /\ LET next == [left EXCEPT !.demand = o.plan.demand]
                 IN  IF HasBudgets(left)
                     THEN /\ admiral' = next
                          /\ Handle([msg EXCEPT !.task = o.tasks[msg.ship]],
                                    IF o.tasks[msg.ship] = NoTask THEN <<>> ELSE NewTaskSteps)
                          /\ UNCHANGED <<stage, dead>>
                     ELSE PanicWith(next)
    BY <1>6
  <1> DEFINE next == [left EXCEPT !.demand = o.plan.demand]
             with == [msg EXCEPT !.task = o.tasks[msg.ship]]
  <1>8. \/ /\ admiral' = next /\ UNCHANGED <<stage, dead>>
           /\ Handle(with, <<>>) \/ Handle(with, NewTaskSteps)
        \/ PanicWith(next)
    BY <1>7
  <1>9. with.type # "purchased"
    <2>1. msg \in Messages /\ msg.type = "finished" BY <1>3 DEF Credible
    <2> HIDE DEF msg
    <2> QED BY <2>1 DEF Messages
  <1>10. /\ next.all_ships = left.all_ships /\ next.fleets = left.fleets /\ next.assignment = left.assignment
         /\ next.phase = left.phase /\ next.completed = left.completed /\ next.demand = o.plan.demand
    <2> HIDE DEF left
    <2> QED BY <1>4 DEF Admirals
  <1>11. Growing => /\ \A t \in tickets' : t.for \in Buyers(admiral.phase)
                    /\ \A i \in DOMAIN o.plan.demand : o.plan.demand[i].for \in Buyers(admiral.phase)
    <2> SUFFICES ASSUME Growing
                 PROVE  /\ \A t \in tickets' : t.for \in Buyers(admiral.phase)
                        /\ \A i \in DOMAIN o.plan.demand : o.plan.demand[i].for \in Buyers(admiral.phase)
      OBVIOUS
    <2> DEFINE S == Buyers(admiral.phase)
    <2>1. plan.demand = admiral.demand /\ plan.tickets = tickets BY <1>5
    <2>2. plan \in Plans
      <3> HIDE DEF left
      <3> QED BY <1>4 DEF Plans, Admirals
    <2> HIDE DEF msg, left, plan
    <2>3. (\A t \in plan.tickets : t.for \in S) /\ \A i \in DOMAIN plan.demand : plan.demand[i].for \in S
      BY <2>1 DEF Growing, Wanting
    <2> DEFINE q == o.plan
    <2>4. p \in Plans BY <1>4, <2>2, PurchaseTyped
    <2>5. q \in PurchaseOutcomes(left, p) BY <1>4, <2>4, OutcomesTyped
    <2> HIDE DEF S, q
    <2>6. (\A t \in p.tickets : t.for \in S) /\ \A i \in DOMAIN p.demand : p.demand[i].for \in S
      BY <1>4, <2>2, <2>3, PurchaseWanted
    <2>7. (\A t \in q.tickets : t.for \in S) /\ \A i \in DOMAIN q.demand : q.demand[i].for \in S
      BY <1>4, <2>4, <2>5, <2>6, PurchaseWanted
    <2> QED BY <1>7, <2>7 DEF S, q
  <1> HIDE DEF next, with, plan, left
  <1>12. CASE PanicWith(next)
    <2>1. stage = "running" => admiral.all_ships \subseteq next.all_ships BY <1>5, <1>10
    <2> QED BY <1>1, <1>3, <1>12, <2>1, PanicGrows
  <1>13. ASSUME admiral' = next, UNCHANGED <<stage, dead>>, NEW steps \in {<<>>, NewTaskSteps}, Handle(with, steps)
         PROVE  GrowInv'
    <2>1. /\ UNCHANGED <<admiral.all_ships, admiral.fleets, admiral.assignment, admiral.phase>>
          /\ admiral.completed \subseteq admiral'.completed
      BY <1>5, <1>10, <1>13
    <2>2. Growing => /\ \A t \in tickets' : t.for \in Buyers(admiral.phase)
                     /\ \A i \in DOMAIN admiral'.demand : admiral'.demand[i].for \in Buyers(admiral.phase)
      BY <1>10, <1>11, <1>13
    <2>3. ~ In(steps, "Create") /\ ~ In(steps, "Load") /\ ~ In(steps, "Register") /\ ~ In(steps, "LaunchNew")
      BY <1>13, PlansOf, JoiningPlans
    <2>4. ~ (Head(reports).type = "purchased") BY <1>3
    <2> HIDE DEF msg
    <2> QED BY <1>1, <1>3, <1>9, <1>13, <2>1, <2>2, <2>3, <2>4, TakenGrows
  <1> QED BY <1>8, <1>12, <1>13

LEMMA GrowStep ==
  ASSUME IInv, StoreInv, GrowInv, [Next]_vars
  PROVE  GrowInv'
  <1>1. CASE Start BY <1>1, StartGrows
  <1>2. CASE StartUpStep BY <1>2, CreateGrows, LoadGrows, ListenGrows DEF StartUpStep
  <1>3. CASE WriteStep
    <2>1. PICK step \in Writes : Write(step) BY <1>3 DEF WriteStep
    <2> QED BY <2>1, WriteGrows
  <1>4. CASE HandlerStep
    BY <1>4, ComputeTasksGrows, DismantleGrows, NewFleetsGrows, AssignShipsGrows, LaunchesGrow, AssignTaskGrows,
       RegisterGrows, LaunchNewGrows DEF HandlerStep
  <1>5. CASE TakeStep
    BY <1>5, TakeCollectedGrows, TakeExploredGrows, TakeTradedGrows, TakeMinedGrows, TakePurchasedGrows DEF TakeStep
  <1>6. CASE Fail BY <1>6, FailGrows
  <1>7. CASE Crash BY <1>7, CrashGrows
  <1>8. CASE ExploreStep
    <2>1. PICK s \in Ships : \E i \in DOMAIN fibers[s], last \in BOOLEAN : Explore(s, i, last) BY <1>8 DEF ExploreStep
    <2> QED BY <2>1, ExploreGrows
  <1>9. CASE BuyStep
    <2>1. PICK s \in Ships : \E i \in DOMAIN fibers[s], t \in tickets, new \in Ships : BuyShip(s, i, t, new)
      BY <1>9 DEF BuyStep
    <2> QED BY <2>1, BuyGrows
  <1>10. CASE EndStep BY <1>10, EndGrows DEF EndStep
  <1>11. ASSUME NEW s \in Ships, LaunchShip(s) \/ SendStep(s) \/ SweepRelaunch(s)
         PROVE  GrowInv'
    BY <1>11, LaunchShipGrows, SendGrows, SweepGrows DEF SendStep
  <1>12. CASE ForwardAction BY <1>12, ForwardGrows
  <1>13. CASE SweepSnapshot \/ SweepFilter BY <1>13, SweepGrows
  <1>14. CASE UNCHANGED vars
    <2>1. UNCHANGED <<db, stage, under_lock, failures, crashes, owned, tickets, launching, explored, ship_ops, dead,
                      actions, reports>>
      BY <1>14 DEF vars, world, fiber_vars, channels, bounds
    <2>2. Bought' = Bought BY <2>1 DEF Bought
    <2> QED BY <2>1, <2>2, StillGrows
  <1> QED BY <1>1, <1>2, <1>3, <1>4, <1>5, <1>6, <1>7, <1>8, <1>9, <1>10, <1>11, <1>12, <1>13, <1>14 DEF Next

LEMMA AlwaysGrowing == Spec => [](IInv /\ StoreInv /\ GrowInv)
  <1>1. Init => IInv /\ StoreInv /\ GrowInv BY InitInv, InitStore, InitGrows
  <1>2. (IInv /\ StoreInv /\ GrowInv) /\ [Next]_vars => (IInv /\ StoreInv /\ GrowInv)'
    BY InvariantStep, StoreStep, GrowStep
  <1> QED BY <1>1, <1>2, PTL DEF Spec

\* In a process that has run from the first start without a crash, no ship is lost on
\* its way from the purchase to the fiber that flies it: once the reports are worked
\* off the agent's ships, those the admiral knows and those the runner can launch are
\* the same.  In such a process the fleet that a ship is bought for is there when it
\* joins: the phases that have budgets keep every fleet that an earlier one buys for.
THEOREM BoughtShipsBecomeKnown == Spec => []BoughtShipsAreKnown
  <1>1. IInv /\ StoreInv /\ GrowInv => BoughtShipsAreKnown
    <2> SUFFICES ASSUME IInv, StoreInv, GrowInv, Settled, crashes = 0,
                        launching = NoLaunch, reports = <<>>, actions = <<>>
                 PROVE  owned = admiral.all_ships /\ owned = ship_ops
      BY DEF BoughtShipsAreKnown
    <2>1. Sound /\ ShipsStored /\ \A x : ~ In(todo, x) BY SettledIsSound
    <2>2. Unbroken /\ stage = "running" /\ "launcher" \notin dead BY DEF Settled, Unbroken
    <2>3. Tracked /\ db.ships \subseteq owned BY <2>1, <2>2 DEF GrowInv, WorldKnows
    <2>4. Joining = {} /\ ToLaunch = {} BY <2>1 DEF Joining, ToLaunch
    <2>5. Bought = {} BY RangeOfNone DEF Bought
    <2>6. launching.left = {} BY DEF NoLaunch
    <2>7. owned \subseteq admiral.all_ships /\ admiral.all_ships \subseteq ship_ops
      BY <2>3, <2>4, <2>5, <2>6 DEF Tracked
    <2>8. admiral.all_ships \subseteq db.ships /\ ship_ops \subseteq admiral.all_ships
      BY DEF IInv, AdmiralKnows, Knows, FibersKnown
    <2> QED BY <2>3, <2>7, <2>8
  <1> QED BY <1>1, AlwaysGrowing, PTL

\* Until something crashes or a statement fails, and as long as the status listener
\* lives, the fleet of every ship that has one exists: what WritesAreAccepted and
\* SettledAdmiralIsStored ask for, and what a ship that joins a dismantled fleet breaks.
THEOREM FleetsOutliveTheirShips ==
    Spec => [](stage = "running" /\ "status" \notin dead /\ crashes = 0 /\ failures = 0 => EveryFleetExists)
  <1>1. IInv /\ GrowInv => (stage = "running" /\ "status" \notin dead /\ crashes = 0 /\ failures = 0 => EveryFleetExists)
    BY LoadedNow DEF GrowInv, Growing, Sound, Unbroken
  <1> QED BY <1>1, AlwaysGrowing, PTL
=============================================================================
