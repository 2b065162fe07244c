-------------------------- MODULE FleetGrowthProofs --------------------------
(***************************************************************************)
(* Theorems of FleetGrowth: what the agent has yet to buy is what its ships, *)
(* the coming ones and the purchase tickets leave to buy, for any ships and  *)
(* any number of waypoints, unless an entry was lost or counted twice.       *)
(*                                                                         *)
(* The walk down the shopping list is a fold, which builds a table over the *)
(* sets of positions; its entries for 1..k are the walk after k entries.    *)
(***************************************************************************)
EXTENDS FleetGrowth, FiniteSums, SequenceTheorems

Items == [type : ShipTypes, for : FleetTasks]

-----------------------------------------------------------------------------
(* The fold as a walk. *)

Accs == [left : [ShipTypes -> Nat], missing : Seq(Items)]

LEMMA WalkTyped ==
  ASSUME NEW acc \in Accs, NEW item \in Items
  PROVE  Walk(acc, item) \in Accs
  <1>1. item.type \in ShipTypes BY DEF Items
  <1>2. acc = [left |-> acc.left, missing |-> acc.missing] /\ acc.left \in [ShipTypes -> Nat] /\ acc.missing \in Seq(Items)
    BY DEF Accs
  <1>3. CASE acc.left[item.type] = 0
    <2>1. Walk(acc, item) = [left |-> acc.left, missing |-> Append(acc.missing, item)] BY <1>2, <1>3 DEF Walk
    <2> QED BY <2>1, <1>2 DEF Accs
  <1>4. CASE acc.left[item.type] # 0
    <2>1. Walk(acc, item) = [left |-> [acc.left EXCEPT ![item.type] = acc.left[item.type] - 1], missing |-> acc.missing]
      BY <1>2, <1>4 DEF Walk
    <2>2. acc.left[item.type] - 1 \in Nat BY <1>1, <1>2, <1>4
    <2>3. [acc.left EXCEPT ![item.type] = acc.left[item.type] - 1] \in [ShipTypes -> Nat] BY <2>2, <1>2
    <2> QED BY <2>1, <2>3, <1>2 DEF Accs
  <1> QED BY <1>3, <1>4

Entry(base, list, g, s) == IF s = {} THEN base ELSE LET i == Max(s) IN Walk(g[s \ {i}], list[i])

IsTable(base, list, S, g) == g = [s \in SUBSET S |-> Entry(base, list, g, s)]

LEMMA FoldAsTable ==
  ASSUME NEW base, NEW list
  PROVE  FoldLeft(Walk, base, list) = (CHOOSE g : IsTable(base, list, DOMAIN list, g))[DOMAIN list]
  BY DEF FoldLeft, MapThenFoldSet, IsTable, Entry

LEMMA MaxIsLast ==
  ASSUME NEW S, S \subseteq Int, IsFiniteSet(S), S # {}
  PROVE  Max(S) \in S /\ \A x \in S : x <= Max(S)
  <1>1. \E m \in S : \A x \in S : m >= x BY GreatestOfAll
  <1> QED BY <1>1 DEF Max

LEMMA TableExists ==
  ASSUME NEW base \in Accs, NEW list \in Seq(Items)
  PROVE  \E g : IsTable(base, list, DOMAIN list, g)
  <1> DEFINE S == DOMAIN list
             next == [p \in Accs \X S |-> Walk(p[1], list[p[2]])]
             last == [V \in SUBSET S |-> Max(V)]
  <1>1. S = 1..Len(list) /\ Len(list) \in Nat /\ \A i \in S : list[i] \in Items OBVIOUS
  <1>2. IsFiniteSet(S) /\ S \subseteq Int BY <1>1, FS_Interval
  <1>3. next \in [Accs \X S -> Accs]
    <2>1. \A p \in Accs \X S : Walk(p[1], list[p[2]]) \in Accs BY <1>1, WalkTyped
    <2> QED BY <2>1
  <1>4. ASSUME NEW V \in SUBSET S, V # {} PROVE last[V] \in V /\ last[V] = Max(V)
    <2>1. V \subseteq Int /\ IsFiniteSet(V) BY <1>2, FS_Subset
    <2> QED BY <2>1, <1>4, MaxIsLast
  <1> HIDE DEF S, last
  <1>5. PICK g \in [SUBSET S -> Accs] : IsFoldTable(base, next, last, S, g)
    <2> HIDE DEF next
    <2> QED BY <1>2, <1>3, <1>4, FoldTableTyped
  <1>6. ASSUME NEW V \in SUBSET S PROVE g[V] = Entry(base, list, g, V)
    <2>1. g[V] = FoldBody(base, next, last, g, V)
      <3> HIDE DEF next
      <3> QED BY <1>5 DEF IsFoldTable
    <2>2. CASE V = {} BY <2>1, <2>2 DEF FoldBody, Entry
    <2>3. CASE V # {}
      <3>1. last[V] = Max(V) /\ Max(V) \in S BY <1>4, <2>3
      <3>2. g[V \ {Max(V)}] \in Accs BY <1>5
      <3>3. <<g[V \ {Max(V)}], Max(V)>> \in Accs \X S BY <3>1, <3>2
      <3>4. next[<<g[V \ {Max(V)}], Max(V)>>] = Walk(g[V \ {Max(V)}], list[Max(V)]) BY <3>3
      <3> HIDE DEF next
      <3>5. g[V] = next[<<g[V \ {Max(V)}], Max(V)>>] BY <2>1, <2>3, <3>1 DEF FoldBody
      <3> QED BY <2>3, <3>4, <3>5 DEF Entry
    <2> QED BY <2>2, <2>3
  <1>7. g = [V \in SUBSET S |-> g[V]] BY <1>5
  <1>8. IsTable(base, list, S, g) BY <1>6, <1>7 DEF IsTable
  <1> QED BY <1>8 DEF S

\* The walk down a list: w[k] is where it stands after k entries.
IsWalk(base, list, w) == w[0] = base /\ \A k \in 1..Len(list) : w[k] = Walk(w[k - 1], list[k])

LEMMA FoldIsWalk ==
  ASSUME NEW base \in Accs, NEW list \in Seq(Items)
  PROVE  \E w : IsWalk(base, list, w) /\ FoldLeft(Walk, base, list) = w[Len(list)]
  <1> DEFINE n == Len(list)
             g == CHOOSE g : IsTable(base, list, 1..n, g)
             w == [k \in 0..n |-> g[1..k]]
  <1>1. n \in Nat /\ DOMAIN list = 1..n OBVIOUS
  <1>2. IsFiniteSet(1..n) /\ 1..n \in SUBSET Int BY <1>1, FS_Interval
  <1>3. IsTable(base, list, 1..n, g)
    <2>1. \E h : IsTable(base, list, 1..n, h) BY <1>1, TableExists
    <2> HIDE DEF n
    <2> QED BY <2>1
  <1>4. FoldLeft(Walk, base, list) = g[1..n]
    <2> HIDE DEF n
    <2> QED BY <1>1, FoldAsTable
  <1> HIDE DEF g, n
  <1>5. \A k \in 0..n : w[k] = Entry(base, list, g, 1..k)
    <2> TAKE k \in 0..n
    <2>1. 1..k \in SUBSET (1..n) BY <1>1
    <2> QED BY <2>1, <1>3 DEF IsTable
  <1>6. w[0] = base
    <2>1. 1..0 = {} OBVIOUS
    <2>2. 0 \in 0..n BY <1>1
    <2> HIDE DEF w
    <2> QED BY <1>5, <2>1, <2>2 DEF Entry
  <1>7. ASSUME NEW k \in 1..n PROVE w[k] = Walk(w[k - 1], list[k])
    <2>1. k \in 1..k /\ k \in 0..n /\ k - 1 \in 0..n /\ 1..k \subseteq Int
      <3> n \in Nat BY <1>1
      <3> QED BY <1>7
    <2>2. IsFiniteSet(1..k) BY FS_Interval, <2>1
    <2>3. Max(1..k) \in 1..k /\ \A x \in 1..k : x <= Max(1..k) BY <2>1, <2>2, MaxIsLast
    <2>4. Max(1..k) = k BY <2>1, <2>3
    <2>5. (1..k) \ {k} = 1..(k - 1) BY <2>1
    <2>6. w[k - 1] = g[1..(k - 1)] BY <2>1
    <2>7. w[k] = Entry(base, list, g, 1..k) BY <1>5, <2>1
    <2> HIDE DEF w
    <2> QED BY <2>1, <2>4, <2>5, <2>6, <2>7 DEF Entry
  <1>8. FoldLeft(Walk, base, list) = w[n] BY <1>1, <1>4
  <1>9. IsWalk(base, list, w)
    <2> HIDE DEF w
    <2> QED BY <1>6, <1>7 DEF IsWalk, n
  <1> QED BY <1>8, <1>9 DEF n

-----------------------------------------------------------------------------
(* Ranks: how many elements of a set of positions there are up to one. *)

Rank(L, k) == Cardinality(L \cap 1..k)

LEMMA RankStep ==
  ASSUME NEW L, NEW k \in Nat
  PROVE  /\ Rank(L, k) \in Nat /\ Rank(L, 0) = 0
         /\ k + 1 \in L => Rank(L, k + 1) = Rank(L, k) + 1
         /\ k + 1 \notin L => Rank(L, k + 1) = Rank(L, k)
  <1> DEFINE A == L \cap 1..k
  <1>1. IsFiniteSet(1..k) BY FS_Interval
  <1>2. IsFiniteSet(A) BY <1>1, FS_Subset
  <1>3. Cardinality(A) \in Nat BY <1>2, FS_CardinalityType
  <1>4. L \cap 1..0 = {} OBVIOUS
  <1>5. k + 1 \in L => L \cap 1..(k + 1) = A \cup {k + 1} /\ k + 1 \notin A OBVIOUS
  <1>6. k + 1 \notin L => L \cap 1..(k + 1) = A OBVIOUS
  <1>7. k + 1 \in L => Cardinality(L \cap 1..(k + 1)) = Cardinality(A) + 1 BY <1>2, <1>5, FS_AddElement
  <1> QED BY <1>3, <1>4, <1>6, <1>7, FS_EmptySet DEF Rank

\* the rank does not fall
LEMMA RankGrows ==
  ASSUME NEW L, NEW i \in Nat, NEW k \in Nat, i <= k
  PROVE  Rank(L, i) <= Rank(L, k)
  <1>1. IsFiniteSet(1..k) BY FS_Interval
  <1>2. IsFiniteSet(L \cap 1..k) BY <1>1, FS_Subset
  <1>3. L \cap 1..i \subseteq L \cap 1..k OBVIOUS
  <1> QED BY <1>2, <1>3, FS_Subset DEF Rank

\* every number up to the size of the set is the rank of an element
LEMMA RankReaches ==
  ASSUME NEW n \in Nat, NEW L, L \subseteq 1..n, NEW m \in 1..Cardinality(L)
  PROVE  \E i \in L : Rank(L, i) = m
  <1> DEFINE Good == {k \in 0..n : \A j \in 1..Rank(L, k) : \E i \in L : Rank(L, i) = j}
  <1>1. 0 \in Good
    <2>1. 0 \in 0..n OBVIOUS
    <2>2. Rank(L, 0) = 0 BY RankStep
    <2> QED BY <2>1, <2>2
  <1>2. ASSUME NEW k \in 0..n, k < n, k \in Good PROVE k + 1 \in Good
    <2>1. k \in Nat /\ k + 1 \in 0..n BY <1>2
    <2>2. /\ Rank(L, k) \in Nat
          /\ k + 1 \in L => Rank(L, k + 1) = Rank(L, k) + 1
          /\ k + 1 \notin L => Rank(L, k + 1) = Rank(L, k) BY <2>1, RankStep
    <2>3. \A j \in 1..Rank(L, k) : \E i \in L : Rank(L, i) = j BY <1>2
    <2>4. ASSUME NEW j \in 1..Rank(L, k + 1) PROVE \E i \in L : Rank(L, i) = j
      <3>1. CASE k + 1 \in L /\ j = Rank(L, k) + 1 BY <3>1, <2>2
      <3>2. CASE j \in 1..Rank(L, k) BY <3>2, <2>3
      <3> QED BY <2>2, <3>1, <3>2
    <2> QED BY <2>1, <2>4
  <1>3. n \in Good
    <2>1. n \in 0..n OBVIOUS
    <2> HIDE DEF Good
    <2> QED BY <1>1, <1>2, <2>1, UpTo
  <1>4. L \cap 1..n = L OBVIOUS
  <1>5. m \in 1..Rank(L, n) BY <1>4 DEF Rank
  <1> QED BY <1>3, <1>5

-----------------------------------------------------------------------------
(* What the walk leaves. *)

OfKind(list, t) == {j \in DOMAIN list : list[j].type = t}

\* the entries of the list that come after as many of their type as there are ships
Lack(list, have) == {i \in DOMAIN list : Rank(OfKind(list, list[i].type), i) > have[list[i].type]}

\* the sequence of the entries of the list at these positions
Picked(list, L, seq) == /\ seq \in Seq(Items) /\ Len(seq) = Cardinality(L)
                        /\ \A i \in L : seq[Rank(L, i)] = list[i]

Standing(list, have, k, acc) ==
    /\ acc = [left |-> acc.left, missing |-> acc.missing]
    /\ acc.left \in [ShipTypes -> Nat]
    /\ \A t \in ShipTypes :
          LET met == Rank(OfKind(list, t), k)
          IN  acc.left[t] = IF met > have[t] THEN 0 ELSE have[t] - met
    /\ LET L == Lack(list, have)
       IN  /\ acc.missing \in Seq(Items) /\ Len(acc.missing) = Rank(L, k)
           /\ \A i \in L : i <= k => acc.missing[Rank(L, i)] = list[i]

LEMMA WalkStep ==
  ASSUME NEW list \in Seq(Items), NEW have \in [ShipTypes -> Nat], NEW k \in 0..Len(list), k < Len(list),
         NEW acc, Standing(list, have, k, acc)
  PROVE  Standing(list, have, k + 1, Walk(acc, list[k + 1]))
  <1> DEFINE L == Lack(list, have)
             item == list[k + 1]
             t == item.type
             next == Walk(acc, item)
  <1>1. k \in Nat /\ k + 1 \in DOMAIN list /\ item \in Items /\ t \in ShipTypes
    <2>1. k \in Nat /\ k + 1 \in 1..Len(list) /\ DOMAIN list = 1..Len(list) OBVIOUS
    <2>2. list[k + 1] \in Items BY <2>1
    <2> QED BY <2>1, <2>2 DEF Items
  <1>2. \A u : /\ Rank(OfKind(list, u), k) \in Nat
               /\ k + 1 \in OfKind(list, u) => Rank(OfKind(list, u), k + 1) = Rank(OfKind(list, u), k) + 1
               /\ k + 1 \notin OfKind(list, u) => Rank(OfKind(list, u), k + 1) = Rank(OfKind(list, u), k)
    BY <1>1, RankStep
  <1>3. \A u : k + 1 \in OfKind(list, u) <=> u = t BY <1>1 DEF OfKind
  <1>4. /\ Rank(L, k) \in Nat
        /\ k + 1 \in L => Rank(L, k + 1) = Rank(L, k) + 1
        /\ k + 1 \notin L => Rank(L, k + 1) = Rank(L, k) BY <1>1, RankStep
  <1>5. k + 1 \in L <=> Rank(OfKind(list, t), k + 1) > have[t] BY <1>1 DEF Lack
  <1>6. acc.left[t] = IF Rank(OfKind(list, t), k) > have[t] THEN 0 ELSE have[t] - Rank(OfKind(list, t), k)
    BY <1>1 DEF Standing
  <1>7. have[t] \in Nat BY <1>1
  <1>8. k + 1 \in L <=> acc.left[t] = 0 BY <1>2, <1>3, <1>5, <1>6, <1>7
  <1>9. /\ acc = [left |-> acc.left, missing |-> acc.missing] /\ acc.left \in [ShipTypes -> Nat]
        /\ acc.missing \in Seq(Items) /\ Len(acc.missing) = Rank(L, k)
        /\ \A i \in L : i <= k => acc.missing[Rank(L, i)] = list[i]
        /\ \A u \in ShipTypes : acc.left[u] = IF Rank(OfKind(list, u), k) > have[u] THEN 0 ELSE have[u] - Rank(OfKind(list, u), k)
    BY DEF Standing
  <1>10. \A i \in L : i \in Nat /\ (i <= k + 1 => i <= k \/ i = k + 1) BY DEF Lack
  <1> HIDE DEF L
  <1>11. CASE acc.left[t] = 0
    <2>1. next = [left |-> acc.left, missing |-> Append(acc.missing, item)] BY <1>11, <1>9 DEF Walk
    <2>2. next.left = acc.left /\ next.missing = Append(acc.missing, item) BY <2>1
    <2>3. /\ next.missing \in Seq(Items) /\ Len(next.missing) = Rank(L, k) + 1
          /\ next.missing[Rank(L, k) + 1] = item
          /\ \A j \in 1..Rank(L, k) : next.missing[j] = acc.missing[j] BY <2>2, <1>1, <1>9, <1>4
    <2>4. k + 1 \in L BY <1>8, <1>11
    <2>5. ASSUME NEW i \in L, i <= k + 1 PROVE next.missing[Rank(L, i)] = list[i]
      <3>1. CASE i = k + 1 BY <3>1, <2>3, <1>4, <2>4
      <3>2. CASE i <= k
        <4>1. i \in DOMAIN list /\ i \in 1..i BY DEF L, Lack
        <4>2. i - 1 \in Nat /\ i - 1 + 1 = i BY <4>1
        <4>3. Rank(L, i - 1) \in Nat /\ Rank(L, i) = Rank(L, i - 1) + 1 BY <4>2, RankStep, <2>5
        <4>4. Rank(L, i) <= Rank(L, k) BY <1>1, <3>2, <4>1, RankGrows
        <4>5. Rank(L, i) \in 1..Rank(L, k) BY <4>3, <4>4, <1>4
        <4> QED BY <4>5, <2>3, <1>9, <3>2
      <3> QED BY <1>10, <2>5, <3>1, <3>2
    <2>6. ASSUME NEW u \in ShipTypes
          PROVE next.left[u] = IF Rank(OfKind(list, u), k + 1) > have[u] THEN 0 ELSE have[u] - Rank(OfKind(list, u), k + 1)
      <3>1. have[u] \in Nat OBVIOUS
      <3>2. next.left[u] = acc.left[u] BY <2>2
      <3>3. CASE u = t
        <4>1. Rank(OfKind(list, t), k + 1) = Rank(OfKind(list, t), k) + 1 BY <1>2, <1>3
        <4> HIDE DEF t, next
        <4> QED BY <3>1, <3>2, <3>3, <4>1, <1>2, <1>6, <1>11
      <3>4. CASE u # t
        <4>1. Rank(OfKind(list, u), k + 1) = Rank(OfKind(list, u), k) BY <1>2, <1>3, <3>4
        <4> QED BY <4>1, <3>2, <1>9
      <3> QED BY <3>3, <3>4
    <2>7. next = [left |-> next.left, missing |-> next.missing] BY <2>1, <2>2
    <2>8. Len(next.missing) = Rank(L, k + 1) BY <2>3, <2>4, <1>4
    <2>9. next.left \in [ShipTypes -> Nat]
      <3> HIDE DEF next
      <3> QED BY <2>2, <1>9
    <2> HIDE DEF next
    <2> QED BY <2>3, <2>5, <2>6, <2>7, <2>8, <2>9 DEF Standing, L, next
  <1>12. CASE acc.left[t] # 0
    <2>1. next = [left |-> [acc.left EXCEPT ![t] = @ - 1], missing |-> acc.missing] BY <1>12, <1>9 DEF Walk
    <2>2. next.left = [acc.left EXCEPT ![t] = @ - 1] /\ next.missing = acc.missing BY <2>1
    <2>3. k + 1 \notin L BY <1>8, <1>12
    <2>4. acc.left[t] \in Nat \ {0} BY <1>1, <1>9, <1>12
    <2>5. next.left \in [ShipTypes -> Nat]
      <3>1. acc.left[t] - 1 \in Nat BY <2>4
      <3>2. acc.left \in [ShipTypes -> Nat] BY <1>9
      <3>3. next.left = [acc.left EXCEPT ![t] = acc.left[t] - 1] BY <2>2
      <3> HIDE DEF next, t
      <3> QED BY <3>1, <3>2, <3>3
    <2>6. ASSUME NEW u \in ShipTypes
          PROVE next.left[u] = IF Rank(OfKind(list, u), k + 1) > have[u] THEN 0 ELSE have[u] - Rank(OfKind(list, u), k + 1)
      <3>1. have[u] \in Nat OBVIOUS
      <3>2. CASE u = t
        <4>1. next.left[u] = acc.left[t] - 1 BY <3>2, <2>2, <1>9, <1>1
        <4>2. Rank(OfKind(list, t), k + 1) = Rank(OfKind(list, t), k) + 1 BY <1>2, <1>3
        <4> HIDE DEF next, t
        <4> QED BY <4>1, <4>2, <3>1, <3>2, <1>2, <1>6, <2>4
      <3>3. CASE u # t
        <4>1. next.left[u] = acc.left[u] BY <3>3, <2>2, <1>9, <1>1
        <4>2. Rank(OfKind(list, u), k + 1) = Rank(OfKind(list, u), k) BY <1>2, <1>3, <3>3
        <4> QED BY <4>1, <4>2, <1>9
      <3> QED BY <3>2, <3>3
    <2>7. next = [left |-> next.left, missing |-> next.missing] BY <2>1, <2>2
    <2>8. Len(next.missing) = Rank(L, k + 1) BY <2>2, <2>3, <1>4, <1>9
    <2>9. ASSUME NEW i \in L, i <= k + 1 PROVE next.missing[Rank(L, i)] = list[i]
      <3>1. i <= k BY <1>10, <2>3, <2>9
      <3> QED BY <3>1, <1>9, <2>2
    <2>10. next.missing \in Seq(Items) BY <2>2, <1>9
    <2> HIDE DEF next
    <2> QED BY <2>5, <2>6, <2>7, <2>8, <2>9, <2>10 DEF Standing, L, next
  <1> QED BY <1>11, <1>12

LEMMA WalkEnds ==
  ASSUME NEW list \in Seq(Items), NEW have \in [ShipTypes -> Nat]
  PROVE  Picked(list, Lack(list, have),
                FoldLeft(Walk, [left |-> have, missing |-> <<>>], list).missing)
  <1> DEFINE base == [left |-> have, missing |-> <<>>]
             n == Len(list)
             L == Lack(list, have)
  <1>1. PICK w : IsWalk(base, list, w) /\ FoldLeft(Walk, base, list) = w[n]
    <2>1. base \in Accs BY EmptySeq DEF Accs
    <2> HIDE DEF base
    <2> QED BY <2>1, FoldIsWalk
  <1>2. n \in Nat /\ DOMAIN list = 1..n OBVIOUS
  <1> DEFINE Good == {k \in 0..n : Standing(list, have, k, w[k])}
  <1>3. 0 \in Good
    <2>1. w[0] = base BY <1>1 DEF IsWalk
    <2>2. \A M : Rank(M, 0) = 0 BY RankStep
    <2>3. \A i \in L : i > 0 BY DEF Lack
    <2>4. \A t \in ShipTypes : have[t] \in Nat OBVIOUS
    <2>5. base.left = have /\ base.missing = <<>> OBVIOUS
    <2>6. Standing(list, have, 0, base)
      <3> HIDE DEF base
      <3>1. base = [left |-> base.left, missing |-> base.missing] BY <2>5 DEF base
      <3>2. \A i \in Lack(list, have) : ~ (i <= 0) BY DEF Lack
      <3> QED BY <2>2, <2>4, <2>5, <3>1, <3>2 DEF Standing
    <2> QED BY <2>1, <2>6
  <1>4. ASSUME NEW k \in 0..n, k < n, k \in Good PROVE k + 1 \in Good
    <2>1. k + 1 \in 1..n /\ k + 1 \in 0..n /\ k + 1 - 1 = k BY <1>4
    <2>2. w[k + 1] = Walk(w[k], list[k + 1]) BY <1>1, <2>1 DEF IsWalk
    <2>3. Standing(list, have, k, w[k]) BY <1>4
    <2> QED BY <1>4, <2>1, <2>2, <2>3, WalkStep
  <1>5. n \in Good
    <2>1. n \in 0..n OBVIOUS
    <2> HIDE DEF Good
    <2> QED BY <1>2, <1>3, <1>4, <2>1, UpTo
  <1>6. Standing(list, have, n, w[n]) BY <1>5
  <1>7. L \subseteq 1..n BY DEF Lack
  <1>8. L \cap 1..n = L BY <1>7
  <1>9. \A i \in L : i <= n BY <1>7, <1>2
  <1> QED BY <1>1, <1>6, <1>8, <1>9 DEF Standing, Picked, Rank

\* a set of positions picks one sequence
LEMMA PickedOnce ==
  ASSUME NEW list, NEW n \in Nat, NEW L, L \subseteq 1..n,
         NEW a, Picked(list, L, a), NEW b, Picked(list, L, b)
  PROVE  a = b
  <1>1. a \in Seq(Items) /\ b \in Seq(Items) /\ Len(a) = Len(b) /\ Len(a) = Cardinality(L) BY DEF Picked
  <1>2. ASSUME NEW m \in 1..Len(a) PROVE a[m] = b[m]
    <2>1. PICK i \in L : Rank(L, i) = m BY <1>1, <1>2, RankReaches
    <2> QED BY <2>1 DEF Picked
  <1> QED BY <1>1, <1>2, SeqEqual

\* Without its first entry it is what the positions after the first pick.
LEMMA PickedTail ==
  ASSUME NEW n \in Nat, NEW list, NEW L, L \subseteq 1..n, NEW a, Picked(list, L, a), a # <<>>
  PROVE  \E first \in L : /\ \A i \in L : first <= i
                          /\ Head(a) = list[first] /\ Picked(list, L \ {first}, Tail(a))
  <1>1. IsFiniteSet(L)
    <2>1. IsFiniteSet(1..n) BY FS_Interval
    <2> QED BY <2>1, FS_Subset
  <1>2. a \in Seq(Items) /\ Len(a) = Cardinality(L) /\ Len(a) >= 1 BY DEF Picked
  <1>3. PICK first \in L : Rank(L, first) = 1
    <2>1. 1 \in 1..Cardinality(L) BY <1>2
    <2> QED BY <2>1, RankReaches
  <1>4. ASSUME NEW i \in L PROVE first <= i
    <2>1. i \in 1..n /\ first \in 1..n BY <1>4
    <2>2. CASE i < first
      <3>1. /\ i - 1 \in Nat /\ i - 1 + 1 = i /\ first - 1 \in Nat /\ first - 1 + 1 = first
            /\ i \in Nat /\ i <= first - 1 BY <2>1, <2>2
      <3>2. Rank(L, i - 1) \in Nat /\ Rank(L, i) = Rank(L, i - 1) + 1 BY <3>1, <1>4, RankStep
      <3>3. Rank(L, first - 1) \in Nat /\ Rank(L, first) = Rank(L, first - 1) + 1 BY <3>1, RankStep
      <3>4. Rank(L, i) <= Rank(L, first - 1) BY <3>1, RankGrows
      <3> QED BY <3>2, <3>3, <3>4, <1>3
    <2> QED BY <2>1, <2>2
  <1>5. Head(a) = list[first] BY <1>2, <1>3 DEF Picked
  <1>6. Tail(a) \in Seq(Items) /\ Len(Tail(a)) = Cardinality(L) - 1 /\ \A j \in 1..(Len(a) - 1) : Tail(a)[j] = a[j + 1]
    BY <1>2
  <1>7. Cardinality(L \ {first}) = Cardinality(L) - 1 BY <1>1, FS_RemoveElement
  <1>8. ASSUME NEW i \in L \ {first} PROVE Tail(a)[Rank(L \ {first}, i)] = list[i]
    <2>1. i \in 1..n /\ first \in 1..n /\ first < i BY <1>4
    <2>2. (L \ {first}) \cap 1..i = (L \cap 1..i) \ {first} /\ first \in L \cap 1..i BY <2>1
    <2>3. IsFiniteSet(L \cap 1..i) BY <1>1, FS_Subset
    <2>4. Rank(L \ {first}, i) = Rank(L, i) - 1
      <3> DEFINE M == L \cap 1..i
      <3>1. Cardinality(M \ {first}) = Cardinality(M) - 1
        <4>1. IsFiniteSet(M) /\ first \in M BY <2>2, <2>3
        <4> HIDE DEF M
        <4> QED BY <4>1, FS_RemoveElement
      <3> QED BY <3>1, <2>2 DEF Rank
    <2>5. Rank(L, i) \in Nat /\ Rank(L, i) <= Cardinality(L)
      <3>1. Rank(L, i) \in Nat BY <2>3, FS_CardinalityType DEF Rank
      <3>2. L \cap 1..i \subseteq L OBVIOUS
      <3> QED BY <3>1, <3>2, <1>1, FS_Subset DEF Rank
    <2>6. Rank(L, i) > 1
      <3>1. i - 1 \in Nat /\ i - 1 + 1 = i /\ first \in Nat /\ first <= i - 1 BY <2>1
      <3>2. Rank(L, first) <= Rank(L, i - 1) BY <3>1, RankGrows
      <3>3. Rank(L, i - 1) \in Nat /\ Rank(L, i) = Rank(L, i - 1) + 1 BY <3>1, RankStep
      <3> QED BY <3>2, <3>3, <1>3
    <2>7. Rank(L, i) - 1 \in 1..(Len(a) - 1) /\ Rank(L, i) - 1 + 1 = Rank(L, i) BY <2>5, <2>6, <1>2
    <2>8. Tail(a)[Rank(L, i) - 1] = a[Rank(L, i)] BY <2>7, <1>6
    <2> QED BY <2>4, <2>8 DEF Picked
  <1> QED BY <1>4, <1>5, <1>6, <1>7, <1>8 DEF Picked

-----------------------------------------------------------------------------
(* The demand of the agent. *)

LEMMA RepeatTyped ==
  ASSUME NEW n \in Nat, NEW type \in ShipTypes
  PROVE  Repeat(type, n) \in Seq(ShipTypes)
  <1>1. DOMAIN Repeat(type, n) = 1..n /\ \A i \in 1..n : Repeat(type, n)[i] \in ShipTypes BY DEF Repeat
  <1>2. Repeat(type, n) = [i \in 1..n |-> Repeat(type, n)[i]] BY DEF Repeat
  <1> QED BY <1>1, <1>2, IsASeq

LEMMA ForTyped ==
  ASSUME NEW types \in Seq(ShipTypes), NEW task \in FleetTasks
  PROVE  For(types, task) \in Seq(Items)
  <1> DEFINE f == For(types, task)
  <1>1. DOMAIN types = 1..Len(types) /\ Len(types) \in Nat /\ \A i \in 1..Len(types) : types[i] \in ShipTypes OBVIOUS
  <1>2. f = [i \in 1..Len(types) |-> [type |-> types[i], for |-> task]] BY <1>1 DEF For
  <1>3. \A i \in 1..Len(types) : [type |-> types[i], for |-> task] \in Items BY <1>1 DEF Items
  <1> QED BY <1>1, <1>2, <1>3, IsASeq

LEMMA ListTyped ==
  ASSUME NEW phase \in Phases
  PROVE  ShoppingList(phase) \in Seq(Items)
  <1>1. NumShipyards \in Nat /\ NumMarkets \in Nat /\ NumShipyards + NumMarkets \in Nat BY PlanAssumption
  <1>2. \A n \in Nat : \A type \in ShipTypes : Repeat(type, n) \in Seq(ShipTypes) BY RepeatTyped
  <1>3. \A task \in FleetTasks : \A types \in Seq(ShipTypes) : For(types, task) \in Seq(Items) BY ForTyped
  <1>4. {"frigate", "probe", "hauler", "mining_drone", "siphon_drone", "surveyor"} \subseteq ShipTypes BY DEF ShipTypes
  <1>5. <<"frigate">> \in Seq(ShipTypes) BY <1>4
  <1>6. MiningSquad \in Seq(ShipTypes) BY <1>4 DEF MiningSquad
  <1>7. Repeat("hauler", 3) \in Seq(ShipTypes) /\ Repeat("hauler", 4) \in Seq(ShipTypes)
        /\ Repeat("siphon_drone", 3) \in Seq(ShipTypes) BY <1>2, <1>4
  <1>8. Repeat("probe", NumShipyards) \in Seq(ShipTypes) /\ Repeat("probe", NumShipyards + NumMarkets) \in Seq(ShipTypes)
    BY <1>1, <1>2, <1>4
  <1>9. <<"frigate">> \o Repeat("hauler", 3) \in Seq(ShipTypes) BY <1>5, <1>7, ConcatProperties
  <1>10. Repeat("hauler", 4) \o Repeat("probe", NumShipyards + NumMarkets) \in Seq(ShipTypes) BY <1>7, <1>8, ConcatProperties
  <1>11. {"InitialExploration", "ObserveAllWaypoints", "ConstructJumpGate", "MineOres", "SiphonGases"} \subseteq FleetTasks
    BY DEF FleetTasks
  <1>12. CASE phase = "InitialExploration"
    <2>1. For(<<"frigate">>, "InitialExploration") \in Seq(Items)
          /\ For(Repeat("probe", NumShipyards), "ObserveAllWaypoints") \in Seq(Items) BY <1>3, <1>5, <1>8, <1>11
    <2>2. ShoppingList(phase) = For(<<"frigate">>, "InitialExploration") \o For(Repeat("probe", NumShipyards), "ObserveAllWaypoints")
      BY <1>12 DEF ShoppingList
    <2> QED BY <2>1, <2>2, ConcatProperties
  <1>13. CASE phase = "ConstructJumpGate"
    <2> DEFINE a == For(Repeat("probe", NumShipyards + NumMarkets), "ObserveAllWaypoints")
               b == For(<<"frigate">> \o Repeat("hauler", 3), "ConstructJumpGate")
               c == For(MiningSquad, "MineOres")
               d == For(Repeat("siphon_drone", 3), "SiphonGases")
    <2>1. a \in Seq(Items) /\ b \in Seq(Items) /\ c \in Seq(Items) /\ d \in Seq(Items)
      BY <1>3, <1>6, <1>7, <1>8, <1>9, <1>11
    <2>2. ShoppingList(phase) = a \o b \o c \o d \o c BY <1>13 DEF ShoppingList
    <2> HIDE DEF a, b, c, d
    <2>3. a \o b \in Seq(Items) BY <2>1, ConcatProperties
    <2>4. a \o b \o c \in Seq(Items) BY <2>1, <2>3, ConcatProperties
    <2>5. a \o b \o c \o d \in Seq(Items) BY <2>1, <2>4, ConcatProperties
    <2> QED BY <2>1, <2>2, <2>5, ConcatProperties
  <1>14. CASE phase = "TradeProfitably"
    <2>1. For(Repeat("hauler", 4) \o Repeat("probe", NumShipyards + NumMarkets), "ObserveAllWaypoints") \in Seq(Items)
      BY <1>3, <1>10, <1>11
    <2> QED BY <1>14, <2>1 DEF ShoppingList
  <1> QED BY <1>12, <1>13, <1>14 DEF Phases

Have(agent) == [t \in ShipTypes |-> Cardinality(OfType(agent, t))]

LEMMA HaveTyped ==
  ASSUME NEW agent \in SUBSET Ships
  PROVE  /\ IsFiniteSet(agent) /\ Have(agent) \in [ShipTypes -> Nat]
         /\ \A t \in ShipTypes : IsFiniteSet(OfType(agent, t))
  <1>1. IsFiniteSet(agent) BY PlanAssumption, FS_Subset
  <1>2. \A t \in ShipTypes : OfType(agent, t) \subseteq agent BY DEF OfType
  <1>3. \A t \in ShipTypes : IsFiniteSet(OfType(agent, t)) BY <1>1, <1>2, FS_Subset
  <1>4. \A t \in ShipTypes : Cardinality(OfType(agent, t)) \in Nat BY <1>3, FS_CardinalityType
  <1> QED BY <1>1, <1>3, <1>4 DEF Have

\* What the walk finds are the entries after as many of their type as there are ships.
LEMMA DemandIsPicked ==
  ASSUME NEW agent \in SUBSET Ships, NEW phase \in Phases
  PROVE  Picked(ShoppingList(phase), Lack(ShoppingList(phase), Have(agent)), NextShipPurchases(agent, phase))
  <1>1. ShoppingList(phase) \in Seq(Items) BY ListTyped
  <1>2. Have(agent) \in [ShipTypes -> Nat] BY HaveTyped
  <1>3. NextShipPurchases(agent, phase) = FoldLeft(Walk, [left |-> Have(agent), missing |-> <<>>], ShoppingList(phase)).missing
    BY DEF NextShipPurchases, Have
  <1> QED BY <1>1, <1>2, <1>3, WalkEnds

OneMore(have, more, type) ==
    more[type] = have[type] + 1 /\ \A u \in ShipTypes : u # type => more[u] = have[u]

IsFirst(L, first) == first \in L /\ \A i \in L : first <= i

\* One ship more of the type of the first of them takes just that one off.
LEMMA OneLess ==
  ASSUME NEW list \in Seq(Items), NEW have \in [ShipTypes -> Nat], NEW more \in [ShipTypes -> Nat],
         NEW first, IsFirst(Lack(list, have), first), OneMore(have, more, list[first].type)
  PROVE  Lack(list, more) = Lack(list, have) \ {first}
  <1> DEFINE n == Len(list)
             t == list[first].type
             K == OfKind(list, t)
  <1>1. n \in Nat /\ DOMAIN list = 1..n /\ \A i \in 1..n : list[i].type \in ShipTypes
    <2>1. n \in Nat /\ DOMAIN list = 1..n /\ \A i \in 1..n : list[i] \in Items OBVIOUS
    <2> QED BY <2>1 DEF Items
  <1>2. first \in Lack(list, have) /\ \A i \in Lack(list, have) : first <= i BY DEF IsFirst
  <1>3. more[t] = have[t] + 1 BY DEF OneMore
  <1>4. \A u \in ShipTypes : u # t => more[u] = have[u] BY DEF OneMore
  <1>5. first \in 1..n /\ first \in K /\ Rank(K, first) > have[t] BY <1>1, <1>2 DEF Lack, OfKind
  <1>6. t \in ShipTypes BY <1>1, <1>5
  <1>7. Rank(K, first - 1) <= have[t]
    <2> DEFINE Good == {k \in 0..(first - 1) : Rank(K, k) <= have[t]}
    <2>1. first - 1 \in Nat BY <1>5
    <2>2. have[t] \in Nat BY <1>6
    <2>3. 0 \in Good
      <3>1. Rank(K, 0) = 0 BY RankStep
      <3>2. 0 \in 0..(first - 1) BY <2>1
      <3> QED BY <3>1, <3>2, <2>2
    <2>4. ASSUME NEW k \in 0..(first - 1), k < first - 1, k \in Good PROVE k + 1 \in Good
      <3>1. k \in Nat /\ k + 1 \in 0..(first - 1) /\ k + 1 < first /\ k + 1 \in 1..n BY <2>4, <1>5
      <3>2. /\ Rank(K, k) \in Nat
            /\ k + 1 \in K => Rank(K, k + 1) = Rank(K, k) + 1
            /\ k + 1 \notin K => Rank(K, k + 1) = Rank(K, k) BY <3>1, RankStep
      <3>3. Rank(K, k) <= have[t] BY <2>4
      <3>4. k + 1 \notin Lack(list, have)
        <4>1. ~ (first <= k + 1) BY <3>1, <1>5
        <4> QED BY <4>1, <1>2
      <3>5. k + 1 \in K => ~ (Rank(K, k + 1) > have[t]) BY <3>4, <3>1, <1>1 DEF Lack, OfKind
      <3>6. Rank(K, k + 1) <= have[t] BY <3>2, <3>3, <3>5, <2>2
      <3> QED BY <3>1, <3>6
    <2>5. first - 1 \in Good
      <3> DEFINE m == first - 1
      <3>1. m \in Nat /\ m \in 0..m BY <2>1
      <3>2. 0 \in Good /\ \A k \in 0..m : k < m /\ k \in Good => k + 1 \in Good BY <2>3, <2>4
      <3> HIDE DEF Good, m
      <3>3. \A k \in 0..m : k \in Good BY <3>1, <3>2, UpTo
      <3>4. m \in Good BY <3>1, <3>3
      <3> QED BY <3>4 DEF m
    <2> QED BY <2>5
  <1>8. Rank(K, first) = have[t] + 1
    <2>1. first - 1 \in Nat /\ first - 1 + 1 = first BY <1>5
    <2>2. Rank(K, first - 1) \in Nat /\ Rank(K, first) = Rank(K, first - 1) + 1 BY <2>1, <1>5, RankStep
    <2>3. have[t] \in Nat BY <1>6
    <2> HIDE DEF K, t
    <2> QED BY <2>2, <2>3, <1>5, <1>7
  <1>9. ASSUME NEW i \in DOMAIN list
        PROVE i \in Lack(list, more) <=> i \in Lack(list, have) /\ i # first
    <2>1. i \in 1..n /\ list[i].type \in ShipTypes BY <1>1
    <2>2. CASE list[i].type # t
      <3>1. more[list[i].type] = have[list[i].type] BY <2>1, <2>2, <1>4
      <3>2. i # first BY <2>2
      <3> QED BY <3>1, <3>2 DEF Lack
    <2>3. CASE list[i].type = t
      <3>1. i \in K /\ i \in Nat /\ i - 1 \in Nat /\ i - 1 + 1 = i BY <2>1, <2>3, <1>1 DEF OfKind
      <3>2. Rank(K, i - 1) \in Nat /\ Rank(K, i) = Rank(K, i - 1) + 1 BY <3>1, RankStep
      <3>3. i \in Lack(list, have) <=> Rank(K, i) > have[t] BY <2>3 DEF Lack
      <3>4. i \in Lack(list, more) <=> Rank(K, i) > have[t] + 1 BY <2>3, <1>3 DEF Lack
      <3>5. have[t] \in Nat BY <1>6
      <3>6. i \in Lack(list, have) => i >= first BY <1>2, <1>5
      <3>7. CASE i = first BY <3>7, <3>4, <1>8, <3>5
      <3>8. CASE i > first
        <4>1. first \in Nat /\ first <= i - 1 BY <3>8, <2>1, <1>5
        <4>2. Rank(K, first) <= Rank(K, i - 1) BY <4>1, <3>1, RankGrows
        <4> HIDE DEF K, t
        <4>3. Rank(K, i) > have[t] + 1 BY <4>2, <3>2, <3>5, <1>8
        <4> QED BY <4>3, <3>3, <3>4, <3>5, <3>2, <3>8, <1>5
      <3>9. CASE i < first
        <4>1. i \notin Lack(list, have) BY <3>6, <3>9, <2>1, <1>5
        <4> HIDE DEF K, t
        <4> QED BY <4>1, <3>3, <3>4, <3>5, <3>2
      <3> QED BY <3>7, <3>8, <3>9, <2>1, <1>5
    <2> QED BY <2>2, <2>3
  <1>10. Lack(list, more) \subseteq DOMAIN list /\ Lack(list, have) \subseteq DOMAIN list BY DEF Lack
  <1> QED BY <1>9, <1>10

-----------------------------------------------------------------------------
(* The specification. *)

Steady ==
    /\ ships \in SUBSET Ships /\ coming \in SUBSET Ships /\ ships \cap coming = {}
    /\ tickets \in SUBSET ShipTypes /\ demand \in Seq(Items)
    /\ ~drifted => Picked(List, Lack(List, Expected), demand)

LEMMA PhaseTyped == PhaseNow \in Phases BY DEF PhaseNow, PhaseOf, Phases

LEMMA ExpectedTyped ==
  ASSUME Steady
  PROVE  Expected \in [ShipTypes -> Nat]
  <1>1. ships \cup coming \in SUBSET Ships BY DEF Steady
  <1>2. \A t \in ShipTypes : Cardinality(OfType(ships \cup coming, t)) \in Nat BY <1>1, HaveTyped, FS_CardinalityType
  <1>3. ASSUME NEW t \in ShipTypes
        PROVE Cardinality(OfType(ships \cup coming, t)) + (IF t \in tickets THEN 1 ELSE 0) \in Nat
    <2> DEFINE n == Cardinality(OfType(ships \cup coming, t))
    <2>1. n \in Nat BY <1>2
    <2> HIDE DEF n
    <2>2. CASE t \in tickets
      <3>1. n + (IF t \in tickets THEN 1 ELSE 0) = n + 1 BY <2>2
      <3>2. n + 1 \in Nat BY <2>1
      <3> QED BY <3>1, <3>2 DEF n
    <2>3. CASE t \notin tickets
      <3>1. n + (IF t \in tickets THEN 1 ELSE 0) = n + 0 BY <2>3
      <3>2. n + 0 \in Nat BY <2>1
      <3> QED BY <3>1, <3>2 DEF n
    <2> QED BY <2>2, <2>3
  <1> QED BY <1>3 DEF Expected

\* with nothing on its way the ships are all there is
LEMMA NothingIsHave ==
  ASSUME Steady, tickets = {}, coming = {}
  PROVE  Expected = Have(ships)
  <1>1. \A t \in ShipTypes : Cardinality(OfType(ships, t)) \in Nat BY HaveTyped, FS_CardinalityType DEF Steady
  <1>2. ships \cup coming = ships OBVIOUS
  <1>3. \A t \in ShipTypes : Cardinality(OfType(ships, t)) + (IF t \in tickets THEN 1 ELSE 0) = Cardinality(OfType(ships, t))
    BY <1>1
  <1> QED BY <1>2, <1>3 DEF Expected, Have

\* What is picked is what the property describes.
LEMMA SteadyIsLacking ==
  ASSUME Steady
  PROVE  DemandIsWhatTheShipsLack
  <1> SUFFICES ASSUME ~drifted
               PROVE /\ Len(demand) = Cardinality(Lacking)
                     /\ \A i \in Lacking : demand[Cardinality(Lacking \cap 1..i)] = List[i]
                     /\ NothingUnderway => demand = NextShipPurchases(ships, PhaseNow)
    BY DEF DemandIsWhatTheShipsLack
  <1> DEFINE L == Lack(List, Expected)
  <1>1. PhaseNow \in Phases BY PhaseTyped
  <1>2. Picked(List, L, demand) BY DEF Steady
  <1>3. List \in Seq(Items) BY <1>1, ListTyped DEF List
  <1>4. \A i \in DOMAIN List : Place(i) = Rank(OfKind(List, List[i].type), i)
    <2> TAKE i \in DOMAIN List
    <2>1. i \in 1..Len(List) /\ Len(List) \in Nat /\ DOMAIN List = 1..Len(List) BY <1>3
    <2>2. {j \in 1..i : List[j].type = List[i].type} = OfKind(List, List[i].type) \cap 1..i BY <2>1 DEF OfKind
    <2> QED BY <2>2 DEF Place, Rank
  <1>5. Lacking = L BY <1>4 DEF Lacking, Lack
  <1>6. ASSUME NothingUnderway PROVE demand = NextShipPurchases(ships, PhaseNow)
    <2>1. Picked(List, Lack(List, Have(ships)), demand) BY <1>2, <1>6, NothingIsHave DEF NothingUnderway
    <2>2. Picked(List, Lack(List, Have(ships)), NextShipPurchases(ships, PhaseNow))
      BY <1>1, DemandIsPicked DEF List, Steady
    <2>3. Len(List) \in Nat /\ Lack(List, Have(ships)) \subseteq 1..Len(List) BY <1>3 DEF Lack
    <2> QED BY <2>1, <2>2, <2>3, PickedOnce
  <1> HIDE DEF L
  <1>7. Len(demand) = Cardinality(L) /\ \A i \in L : demand[Rank(L, i)] = List[i] BY <1>2 DEF Picked
  <1> QED BY <1>5, <1>6, <1>7 DEF Rank

\* what is computed with nothing on its way is steady
LEMMA ComputedIsSteady ==
  ASSUME ships \in SUBSET Ships, coming = {}, tickets = {}, demand = NextShipPurchases(ships, PhaseNow)
  PROVE  Steady
  <1>1. PhaseNow \in Phases BY PhaseTyped
  <1>2. Picked(List, Lack(List, Have(ships)), demand) BY <1>1, DemandIsPicked DEF List
  <1>3. \A t \in ShipTypes : Cardinality(OfType(ships, t)) \in Nat BY HaveTyped, FS_CardinalityType
  <1>4. ships \cup coming = ships OBVIOUS
  <1>5. \A t \in ShipTypes : Cardinality(OfType(ships, t)) + (IF t \in tickets THEN 1 ELSE 0) = Cardinality(OfType(ships, t))
    BY <1>3
  <1>6. Expected = Have(ships) BY <1>4, <1>5 DEF Expected, Have
  <1>7. demand \in Seq(Items) BY <1>2 DEF Picked
  <1> QED BY <1>2, <1>6, <1>7 DEF Steady

LEMMA SteadyInit == ASSUME Init PROVE Steady BY GrowthAssumption, ComputedIsSteady DEF Init

\* the list stays that of the phase
LEMMA ListStays ==
  ASSUME completed' = completed
  PROVE  List \in Seq(Items) /\ List' = List
  <1>1. PhaseNow \in Phases /\ PhaseNow' = PhaseNow BY PhaseTyped DEF PhaseNow
  <1> QED BY <1>1, ListTyped DEF List

LEMMA CreateTicketKeeps ==
  ASSUME Steady, CreateTicket
  PROVE  Steady'
  <1> DEFINE type == Head(demand).type
             L == Lack(List, Expected)
  <1>1. /\ demand # <<>> /\ type \notin tickets /\ demand' = Tail(demand)
        /\ tickets' = tickets \cup {type}
        /\ ships' = ships /\ completed' = completed /\ coming' = coming /\ drifted' = drifted
    BY DEF CreateTicket
  <1>2. List \in Seq(Items) /\ List' = List BY <1>1, ListStays
  <1>3. type \in ShipTypes /\ Tail(demand) \in Seq(Items)
    <2>1. demand \in Seq(Items) BY DEF Steady
    <2>2. Head(demand) \in Items /\ Tail(demand) \in Seq(Items) BY <2>1, <1>1, HeadTailProperties
    <2> QED BY <2>2 DEF Items
  <1>4. ASSUME ~drifted PROVE Picked(List, Lack(List, Expected'), Tail(demand))
    <2>1. Picked(List, L, demand) BY <1>4 DEF Steady
    <2>2. Len(List) \in Nat /\ L \subseteq 1..Len(List) BY <1>2 DEF Lack
    <2> HIDE DEF L
    <2>3. PICK first \in L : (\A i \in L : first <= i) /\ Head(demand) = List[first] /\ Picked(List, L \ {first}, Tail(demand))
      BY <1>1, <2>1, <2>2, PickedTail
    <2>4. Expected \in [ShipTypes -> Nat] BY ExpectedTyped
    <2>5. \A t \in ShipTypes : Expected'[t] = Cardinality(OfType(ships \cup coming, t)) + (IF t \in tickets \cup {type} THEN 1 ELSE 0)
      BY <1>1 DEF Expected
    <2>6. \A t \in ShipTypes : Expected[t] = Cardinality(OfType(ships \cup coming, t)) + (IF t \in tickets THEN 1 ELSE 0)
      BY DEF Expected
    <2>7. \A t \in ShipTypes : Cardinality(OfType(ships \cup coming, t)) \in Nat
      BY HaveTyped, FS_CardinalityType DEF Steady
    <2>8. Expected'[type] = Expected[type] + 1
      <3> DEFINE n == Cardinality(OfType(ships \cup coming, type))
      <3>1. n \in Nat BY <1>3, <2>7
      <3>2. Expected'[type] = n + (IF type \in tickets \cup {type} THEN 1 ELSE 0) BY <1>3, <2>5
      <3>3. Expected[type] = n + (IF type \in tickets THEN 1 ELSE 0) BY <1>3, <2>6
      <3> HIDE DEF n, type
      <3>4. Expected'[type] = n + 1 BY <3>2
      <3>5. Expected[type] = n + 0 BY <3>3, <1>1
      <3> QED BY <3>1, <3>4, <3>5
    <2>9. \A t \in ShipTypes : t # type => Expected'[t] = Expected[t] BY <2>5, <2>6
    <2>10. Expected' \in [ShipTypes -> Nat]
      <3>1. DOMAIN Expected' = ShipTypes /\ Expected' = [t \in ShipTypes |-> Expected'[t]] BY DEF Expected
      <3>2. \A t \in ShipTypes : Expected'[t] \in Nat BY <2>4, <2>8, <2>9
      <3> QED BY <3>1, <3>2
    <2>11. Lack(List, Expected') = L \ {first}
      <3> HIDE DEF type
      <3>1. List[first].type = type BY <2>3 DEF type
      <3>2. first \in Lack(List, Expected) /\ \A i \in Lack(List, Expected) : first <= i BY <2>3 DEF L
      <3> DEFINE list == List
                 have == Expected
                 more == Expected'
      <3>3. list \in Seq(Items) /\ have \in [ShipTypes -> Nat] /\ more \in [ShipTypes -> Nat] BY <1>2, <2>4, <2>10
      <3>4. IsFirst(Lack(list, have), first) BY <3>2 DEF IsFirst
      <3>5. OneMore(have, more, list[first].type) BY <3>1, <2>8, <2>9 DEF OneMore
      <3> HIDE DEF list, have, more
      <3>6. Lack(list, more) = Lack(list, have) \ {first} BY <3>3, <3>4, <3>5, OneLess
      <3> QED BY <3>6 DEF list, have, more, L
    <2> QED BY <2>3, <2>11
  <1> QED BY <1>1, <1>2, <1>3, <1>4 DEF Steady

LEMMA LoseEntryKeeps ==
  ASSUME Steady, LoseEntry
  PROVE  Steady'
  <1>1. /\ demand # <<>> /\ demand' = Tail(demand) /\ drifted' = TRUE
        /\ ships' = ships /\ coming' = coming /\ tickets' = tickets BY DEF LoseEntry
  <1>2. Tail(demand) \in Seq(Items) BY <1>1, HeadTailProperties DEF Steady
  <1> QED BY <1>1, <1>2 DEF Steady

\* what is expected stays: a ship for its ticket
LEMMA PurchaseKeeps ==
  ASSUME Steady, NEW s \in Ships, Purchase(s)
  PROVE  Steady'
  <1> DEFINE type == ShipTypeOf[s]
             before == ships \cup coming
             after == before \cup {s}
  <1>1. /\ s \notin before /\ type \in tickets /\ coming' = coming \cup {s} /\ tickets' = tickets \ {type}
        /\ ships' = ships /\ completed' = completed /\ demand' = demand /\ drifted' = drifted
    BY DEF Purchase
  <1>2. List' = List BY <1>1, ListStays
  <1>3. before \in SUBSET Ships /\ ships' \cup coming' = after BY <1>1 DEF Steady
  <1> HIDE DEF before
  <1>4. \A t \in ShipTypes : IsFiniteSet(OfType(before, t)) /\ Cardinality(OfType(before, t)) \in Nat
    BY <1>3, HaveTyped, FS_CardinalityType
  <1>5. \A t \in ShipTypes : t # type => OfType(after, t) = OfType(before, t) BY DEF OfType
  <1>6. OfType(after, type) = OfType(before, type) \cup {s} /\ s \notin OfType(before, type) BY <1>1 DEF OfType
  <1>7. type \in ShipTypes BY <1>1 DEF Steady
  <1>8. Cardinality(OfType(after, type)) = Cardinality(OfType(before, type)) + 1
    <2> HIDE DEF type, after
    <2> QED BY <1>4, <1>6, <1>7, FS_AddElement
  <1>9. ASSUME NEW t \in ShipTypes
        PROVE Cardinality(OfType(after, t)) + (IF t \in tickets \ {type} THEN 1 ELSE 0)
                = Cardinality(OfType(before, t)) + (IF t \in tickets THEN 1 ELSE 0)
    <2> HIDE DEF type, after
    <2>1. CASE t = type BY <2>1, <1>1, <1>4, <1>8
    <2>2. CASE t # type BY <2>2, <1>5
    <2> QED BY <2>1, <2>2
  <1>10. Expected' = Expected
    <2> HIDE DEF type, after
    <2>1. Expected' = [t \in ShipTypes |-> Cardinality(OfType(after, t)) + (IF t \in tickets \ {type} THEN 1 ELSE 0)]
      BY <1>1, <1>3 DEF Expected
    <2>2. Expected = [t \in ShipTypes |-> Cardinality(OfType(before, t)) + (IF t \in tickets THEN 1 ELSE 0)]
      BY DEF Expected, before
    <2> QED BY <1>9, <2>1, <2>2
  <1> QED BY <1>1, <1>2, <1>10 DEF Steady, before

LEMMA RegisterKeeps ==
  ASSUME Steady, NEW s \in Ships, Register(s)
  PROVE  Steady'
  <1>1. /\ s \in coming /\ ships' = ships \cup {s} /\ coming' = coming \ {s}
        /\ completed' = completed /\ demand' = demand /\ tickets' = tickets /\ drifted' = drifted
    BY DEF Register
  <1>2. List' = List BY <1>1, ListStays
  <1>3. ships' \cup coming' = ships \cup coming BY <1>1
  <1>4. Expected' = Expected BY <1>1, <1>3 DEF Expected
  <1> QED BY <1>1, <1>2, <1>4 DEF Steady

\* a demand that is computed anew
LEMMA RecomputedIsSteady ==
  ASSUME ships' \in SUBSET Ships, coming' \in SUBSET Ships, ships' \cap coming' = {}, tickets' \in SUBSET ShipTypes,
         demand' = NextShipPurchases(ships', PhaseNow'), drifted' = (tickets' # {} \/ coming' # {})
  PROVE  Steady'
  <1>1. PhaseNow' \in Phases BY DEF PhaseNow, PhaseOf, Phases
  <1>2. Picked(List', Lack(List', Have(ships')), demand')
    <2>1. Picked(ShoppingList(PhaseNow'), Lack(ShoppingList(PhaseNow'), Have(ships')), NextShipPurchases(ships', PhaseNow'))
      <3> DEFINE phase == PhaseNow'
                 agent == ships'
      <3>1. phase \in Phases /\ agent \in SUBSET Ships BY <1>1
      <3> HIDE DEF phase, agent
      <3>2. Picked(ShoppingList(phase), Lack(ShoppingList(phase), Have(agent)), NextShipPurchases(agent, phase))
        BY <3>1, DemandIsPicked
      <3> QED BY <3>2 DEF phase, agent
    <2> QED BY <2>1 DEF List
  <1>3. ASSUME ~drifted' PROVE Expected' = Have(ships')
    <2>1. tickets' = {} /\ coming' = {} BY <1>3
    <2>2. \A t \in ShipTypes : Cardinality(OfType(ships', t)) \in Nat
      <3> DEFINE agent == ships'
      <3>1. agent \in SUBSET Ships OBVIOUS
      <3> HIDE DEF agent
      <3>2. \A t \in ShipTypes : Cardinality(OfType(agent, t)) \in Nat BY <3>1, HaveTyped, FS_CardinalityType
      <3> QED BY <3>2 DEF agent
    <2>3. ships' \cup coming' = ships' BY <2>1
    <2>4. \A t \in ShipTypes : Cardinality(OfType(ships', t)) + (IF t \in tickets' THEN 1 ELSE 0) = Cardinality(OfType(ships', t))
      BY <2>1, <2>2
    <2> QED BY <2>3, <2>4 DEF Expected, Have
  <1>4. demand' \in Seq(Items) BY <1>2 DEF Picked
  <1> QED BY <1>2, <1>3, <1>4 DEF Steady

LEMMA SteadyStep ==
  ASSUME Steady, [Next]_vars
  PROVE  Steady'
  <1>1. CASE Advance
    <2>1. /\ ships' = ships /\ tickets' = tickets /\ coming' = coming
          /\ demand' = NextShipPurchases(ships, PhaseNow') /\ drifted' = (tickets # {} \/ coming # {})
      BY <1>1 DEF Advance
    <2> QED BY <2>1, RecomputedIsSteady DEF Steady
  <1>2. CASE Restart
    <2>1. PICK stored \in SUBSET coming, kept \in {tickets, {}} :
             /\ ships' = ships \cup stored /\ coming' = {} /\ tickets' = kept
             /\ demand' = NextShipPurchases(ships', PhaseNow') /\ drifted' = (kept # {})
      BY <1>2 DEF Restart
    <2>2. ships' \in SUBSET Ships /\ tickets' \in SUBSET ShipTypes BY <2>1 DEF Steady
    <2>3. drifted' = (tickets' # {} \/ coming' # {}) BY <2>1
    <2> QED BY <2>1, <2>2, <2>3, RecomputedIsSteady
  <1>3. CASE UNCHANGED vars
    <2>1. Expected' = Expected /\ List' = List BY <1>3 DEF vars, Expected, List, PhaseNow
    <2> QED BY <1>3, <2>1 DEF Steady, vars
  <1> QED BY <1>1, <1>2, <1>3, CreateTicketKeeps, LoseEntryKeeps, PurchaseKeeps, RegisterKeeps DEF Next

\* For any ships and any number of waypoints: as long as no entry was lost and the
\* demand was computed with nothing on its way, it holds of every type the entries
\* beyond the ships, the coming ships and the tickets, in the order of the list,
\* and with nothing on its way it is what a start would compute.
THEOREM DemandFollowsTheShips == Spec => []DemandIsWhatTheShipsLack
  <1>1. Spec => []Steady BY SteadyInit, SteadyStep, PTL DEF Spec
  <1>2. Steady => DemandIsWhatTheShipsLack BY SteadyIsLacking
  <1> QED BY <1>1, <1>2, PTL
=============================================================================
