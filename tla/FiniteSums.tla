----------------------------- MODULE FiniteSums -----------------------------
(***************************************************************************)
(* Sums of integer functions over finite sets: facts about the community   *)
(* modules' SumFunctionOnSet, which is defined by a fold.  The fold builds *)
(* a table of the sums over all subsets; two such tables agree because a   *)
(* minimal subset on which they differ cannot exist.  Then the table of any *)
(* fold over a finite set, for folds over sequences.                       *)
(***************************************************************************)
EXTENDS Integers, FiniteSets, Functions, FiniteSetTheorems, WellFoundedInduction, TLAPS

\* one entry of the table g of the sums of f over subsets
SumBody(f, g, s) == IF s = {} THEN 0
                    ELSE LET x == CHOOSE x \in s : TRUE IN f[x] + g[s \ {x}]

IsSumTable(f, S, g) == g = [s \in SUBSET S |-> SumBody(f, g, s)]

\* SumFunctionOnSet is the last entry of the table that its fold builds.
LEMMA SumAsTable ==
  ASSUME NEW f, NEW S
  PROVE  SumFunctionOnSet(f, S) = (CHOOSE g : IsSumTable(f, S, g))[S]
  BY DEF SumFunctionOnSet, FoldFunctionOnSet, MapThenFoldSet, IsSumTable, SumBody

\* A nonempty set of subsets of a finite set has a minimal element: the
\* induction over finite sets of the proofs below, by contradiction.
LEMMA MinimalSubset ==
  ASSUME NEW S, IsFiniteSet(S), NEW T \in SUBSET SUBSET S, T # {}
  PROVE  \E m \in T : \A s \in T : s \subseteq m => s = m
  <1>1. IsWellFoundedOn(StrictSubsetOrdering(S), SUBSET S)
    BY FS_StrictSubsetOrderingWellFounded, FS_FiniteSubsetsOfFinite
  <1>2. \E m \in T : \A s \in T : ~ (<<s, m>> \in StrictSubsetOrdering(S))
    BY <1>1, WFMin
  <1> QED BY <1>2 DEF StrictSubsetOrdering

\* Two tables agree where both are defined.
LEMMA SumTablesAgree ==
  ASSUME NEW S, IsFiniteSet(S), NEW f, NEW T \in SUBSET S, NEW U \in SUBSET S,
         NEW g, IsSumTable(f, T, g), NEW h, IsSumTable(f, U, h)
  PROVE  \A V \in SUBSET (T \cap U) : g[V] = h[V]
  <1> DEFINE D == {V \in SUBSET (T \cap U) : g[V] # h[V]}
  <1>1. \A V \in SUBSET (T \cap U) : g[V] = SumBody(f, g, V) /\ h[V] = SumBody(f, h, V)
    BY DEF IsSumTable
  <1>2. ASSUME D # {} PROVE FALSE
    <2>1. PICK m \in D : \A s \in D : s \subseteq m => s = m
      <3> D \in SUBSET SUBSET S OBVIOUS
      <3> HIDE DEF D
      <3> QED BY <1>2, MinimalSubset
    <2>2. m # {} BY <1>1, <2>1 DEF SumBody
    <2> DEFINE x == CHOOSE x \in m : TRUE
    <2>3. x \in m BY <2>2
    <2>4. m \ {x} \notin D BY <2>1, <2>3
    <2> HIDE DEF x
    <2>5. g[m \ {x}] = h[m \ {x}] BY <2>4, <2>1
    <2>6. g[m] = f[x] + g[m \ {x}] /\ h[m] = f[x] + h[m \ {x}]
      BY <1>1, <2>1, <2>2 DEF SumBody, x
    <2> QED BY <2>5, <2>6, <2>1
  <1> QED BY <1>2

\* Every finite set of integers has a table.
LEMMA SumTableExists ==
  ASSUME NEW S, IsFiniteSet(S), NEW f \in [S -> Int]
  PROVE  \E g \in [SUBSET S -> Int] : IsSumTable(f, S, g)
  <1> DEFINE Bad == {T \in SUBSET S : ~ \E g \in [SUBSET T -> Int] : IsSumTable(f, T, g)}
  <1>1. ASSUME Bad # {} PROVE FALSE
    <2>1. PICK T \in Bad : \A s \in Bad : s \subseteq T => s = T
      <3> Bad \in SUBSET SUBSET S OBVIOUS
      <3> HIDE DEF Bad
      <3> QED BY <1>1, MinimalSubset
    <2> DEFINE G(U) == CHOOSE g : g \in [SUBSET U -> Int] /\ IsSumTable(f, U, g)
    <2>2. \A U \in SUBSET T : U # T => G(U) \in [SUBSET U -> Int] /\ IsSumTable(f, U, G(U))
      BY <2>1
    <2> DEFINE c(s) == CHOOSE x \in s : TRUE
               h == [V \in SUBSET T |->
                       IF V # T THEN G(V)[V]
                       ELSE IF T = {} THEN 0 ELSE f[c(T)] + G(T \ {c(T)})[T \ {c(T)}]]
    <2>c. \A s : s # {} => c(s) \in s OBVIOUS
    <2>d. \A V \in SUBSET T : \A g : SumBody(f, g, V) = IF V = {} THEN 0 ELSE f[c(V)] + g[V \ {c(V)}]
      BY DEF SumBody
    <2> HIDE DEF c, G
    <2>3. h \in [SUBSET T -> Int]
      <3> SUFFICES ASSUME NEW V \in SUBSET T PROVE h[V] \in Int OBVIOUS
      <3>1. CASE V # T BY <3>1, <2>2
      <3>2. CASE V = T /\ T # {}
        <4>1. c(T) \in T /\ c(T) \in S BY <3>2, <2>c
        <4> DEFINE W == T \ {c(T)}
        <4>2. W \in SUBSET T /\ W # T BY <4>1
        <4>3. G(W) \in [SUBSET W -> Int] BY <4>2, <2>2
        <4>4. G(W)[W] \in Int BY <4>3
        <4> QED BY <3>2, <4>1, <4>4
      <3>3. CASE V = T /\ T = {} BY <3>3
      <3> QED BY <3>1, <3>2, <3>3
    <2>4. \A V \in SUBSET T : h[V] = SumBody(f, h, V)
      <3> SUFFICES ASSUME NEW V \in SUBSET T PROVE h[V] = SumBody(f, h, V) OBVIOUS
      <3>1. CASE V = {}
        <4>1. SumBody(f, h, V) = 0 BY <3>1, <2>d
        <4>2. V # T => G(V)[V] = SumBody(f, G(V), V) BY <2>2 DEF IsSumTable
        <4>3. SumBody(f, G(V), V) = 0 BY <3>1, <2>d
        <4> QED BY <3>1, <4>1, <4>2, <4>3
      <3>2. CASE V # {}
        <4> DEFINE W == V \ {c(V)}
        <4>1. c(V) \in V /\ W \in SUBSET T /\ W # T /\ W # V BY <3>2, <2>c
        <4>2. h[W] = G(W)[W] BY <4>1
        <4>3. SumBody(f, h, V) = f[c(V)] + G(W)[W] BY <3>2, <2>d, <4>2
        <4>4. CASE V = T
          BY <4>3, <4>4, <3>2
        <4>5. CASE V # T
          <5>1. G(V)[V] = SumBody(f, G(V), V) BY <4>5, <2>2 DEF IsSumTable
          <5>2. G(V)[V] = f[c(V)] + G(V)[W] BY <5>1, <3>2, <2>d
          <5>3. G(V)[W] = G(W)[W]
            <6>1. IsSumTable(f, V, G(V)) /\ IsSumTable(f, W, G(W)) BY <2>2, <4>5, <4>1
            <6>2. V \in SUBSET S /\ W \in SUBSET S /\ W \in SUBSET (V \cap W) BY <4>1, <2>1
            <6> HIDE DEF W
            <6> QED BY <6>1, <6>2, SumTablesAgree
          <5> QED BY <5>2, <5>3, <4>3, <4>5
        <4> QED BY <4>4, <4>5
      <3> QED BY <3>1, <3>2
    <2>5. IsSumTable(f, T, h)
      <3> h = [V \in SUBSET T |-> h[V]] OBVIOUS
      <3> HIDE DEF h
      <3> QED BY <2>4 DEF IsSumTable
    <2> HIDE DEF h
    <2> QED BY <2>1, <2>3, <2>5
  <1> QED BY <1>1

Sum(f, S) == SumFunctionOnSet(f, S)

\* One table gives the sums over all subsets.
LEMMA SumTable ==
  ASSUME NEW S, IsFiniteSet(S), NEW f \in [S -> Int]
  PROVE  \E g \in [SUBSET S -> Int] :
            /\ IsSumTable(f, S, g)
            /\ \A U \in SUBSET S : Sum(f, U) = g[U]
  <1>1. PICK g \in [SUBSET S -> Int] : IsSumTable(f, S, g)
    BY SumTableExists
  <1>2. ASSUME NEW T \in SUBSET S PROVE Sum(f, T) = g[T]
    <2> DEFINE t == CHOOSE h : IsSumTable(f, T, h)
               r == [s \in SUBSET T |-> g[s]]
    <2>1. IsSumTable(f, T, r)
      <3>1. \A s \in SUBSET T : r[s] = SumBody(f, r, s)
        BY <1>1 DEF IsSumTable, SumBody
      <3> r = [s \in SUBSET T |-> r[s]] OBVIOUS
      <3> HIDE DEF r
      <3> QED BY <3>1 DEF IsSumTable
    <2>2. IsSumTable(f, T, t) BY <2>1
    <2>3. T \in SUBSET T /\ T \in SUBSET (T \cap S) OBVIOUS
    <2>4. t[T] = g[T]
      <3> HIDE DEF t
      <3> QED BY <1>1, <2>2, <2>3, SumTablesAgree
    <2> QED BY <2>4, SumAsTable DEF Sum
  <1> QED BY <1>1, <1>2

\* The empty sum is 0.
LEMMA SumEmpty ==
  ASSUME NEW S, IsFiniteSet(S), NEW f \in [S -> Int]
  PROVE  Sum(f, {}) = 0
  <1>1. PICK g \in [SUBSET S -> Int] :
            /\ IsSumTable(f, S, g)
            /\ \A U \in SUBSET S : Sum(f, U) = g[U]
    BY SumTable
  <1>2. {} \in SUBSET S OBVIOUS
  <1>3. g[{}] = 0 BY <1>1, <1>2 DEF IsSumTable, SumBody
  <1> QED BY <1>1, <1>2, <1>3

\* A sum of integers is an integer.
LEMMA SumType ==
  ASSUME NEW S, IsFiniteSet(S), NEW f \in [S -> Int]
  PROVE  \A T \in SUBSET S : Sum(f, T) \in Int
  <1>1. PICK g \in [SUBSET S -> Int] :
            /\ IsSumTable(f, S, g)
            /\ \A U \in SUBSET S : Sum(f, U) = g[U]
    BY SumTable
  <1> QED BY <1>1

\* A sum is one of its terms and the sum of the others.
LEMMA SumChosen ==
  ASSUME NEW S, IsFiniteSet(S), NEW f \in [S -> Int], NEW T \in SUBSET S, T # {}
  PROVE  \E x \in T : Sum(f, T) = f[x] + Sum(f, T \ {x})
  <1>1. PICK g \in [SUBSET S -> Int] :
            /\ IsSumTable(f, S, g)
            /\ \A U \in SUBSET S : Sum(f, U) = g[U]
    BY SumTable
  <1> DEFINE x == CHOOSE x \in T : TRUE
  <1>2. x \in T OBVIOUS
  <1>3. g[T] = f[x] + g[T \ {x}] BY <1>1 DEF IsSumTable, SumBody
  <1> HIDE DEF x
  <1> QED BY <1>1, <1>2, <1>3

\* A sum is any of its terms and the sum of the others.
LEMMA SumSplit ==
  ASSUME NEW S, IsFiniteSet(S), NEW f \in [S -> Int],
         NEW T \in SUBSET S, NEW y \in T
  PROVE  Sum(f, T) = f[y] + Sum(f, T \ {y})
  <1> DEFINE Bad == {U \in SUBSET S : \E z \in U : Sum(f, U) # f[z] + Sum(f, U \ {z})}
  <1>1. ASSUME Bad # {} PROVE FALSE
    <2>1. PICK m \in Bad : \A s \in Bad : s \subseteq m => s = m
      <3> Bad \in SUBSET SUBSET S OBVIOUS
      <3> HIDE DEF Bad
      <3> QED BY <1>1, MinimalSubset
    <2>2. PICK z \in m : Sum(f, m) # f[z] + Sum(f, m \ {z}) BY <2>1
    <2>3. PICK x \in m : Sum(f, m) = f[x] + Sum(f, m \ {x})
      BY <2>1, <2>2, SumChosen
    <2>4. x # z BY <2>2, <2>3
    <2>5. Sum(f, m \ {x}) = f[z] + Sum(f, (m \ {x}) \ {z}) BY <2>1, <2>2, <2>3, <2>4
    <2>6. Sum(f, m \ {z}) = f[x] + Sum(f, (m \ {z}) \ {x}) BY <2>1, <2>2, <2>3, <2>4
    <2>7. (m \ {x}) \ {z} = (m \ {z}) \ {x} OBVIOUS
    <2>8. /\ m \in SUBSET S /\ x \in S /\ z \in S
          /\ Sum(f, (m \ {z}) \ {x}) \in Int
      BY <2>1, <2>2, <2>3, SumType
    <2> QED BY <2>2, <2>3, <2>5, <2>6, <2>7, <2>8
  <1> QED BY <1>1

\* The sum depends only on the values in the set.
LEMMA SumSame ==
  ASSUME NEW S, IsFiniteSet(S), NEW f \in [S -> Int], NEW h \in [S -> Int],
         NEW T \in SUBSET S, \A x \in T : f[x] = h[x]
  PROVE  Sum(f, T) = Sum(h, T)
  <1> DEFINE Bad == {U \in SUBSET T : Sum(f, U) # Sum(h, U)}
  <1>0. IsFiniteSet(T) BY FS_Subset
  <1>1. ASSUME Bad # {} PROVE FALSE
    <2>1. PICK m \in Bad : \A s \in Bad : s \subseteq m => s = m
      <3> Bad \in SUBSET SUBSET T OBVIOUS
      <3> HIDE DEF Bad
      <3> QED BY <1>0, <1>1, MinimalSubset
    <2>2. m # {} BY <2>1, SumEmpty
    <2>3. PICK x \in m : TRUE BY <2>2
    <2>4. m \ {x} \notin Bad BY <2>1, <2>3
    <2>5. Sum(f, m) = f[x] + Sum(f, m \ {x}) BY <2>1, <2>3, SumSplit
    <2>6. Sum(h, m) = h[x] + Sum(h, m \ {x}) BY <2>1, <2>3, SumSplit
    <2>7. f[x] = h[x] BY <2>1, <2>3
    <2> QED BY <2>1, <2>4, <2>5, <2>6, <2>7
  <1> QED BY <1>1

\* Changing one value changes the sum by the difference.
LEMMA SumChange ==
  ASSUME NEW S, IsFiniteSet(S), NEW f \in [S -> Int], NEW h \in [S -> Int], NEW x \in S,
         \A y \in S \ {x} : h[y] = f[y]
  PROVE  Sum(h, S) = Sum(f, S) - f[x] + h[x]
  <1>1. Sum(h, S) = h[x] + Sum(h, S \ {x})
    BY SumSplit
  <1>2. Sum(f, S) = f[x] + Sum(f, S \ {x})
    BY SumSplit
  <1>3. Sum(h, S \ {x}) = Sum(f, S \ {x})
    <2> S \ {x} \in SUBSET S
      OBVIOUS
    <2> QED
      BY SumSame
  <1>4. Sum(f, S \ {x}) \in Int
    BY SumType
  <1> QED
    BY <1>1, <1>2, <1>3, <1>4

\* The sum of pointwise sums is the sum of the sums.
LEMMA SumPlus ==
  ASSUME NEW S, IsFiniteSet(S), NEW f \in [S -> Int], NEW h \in [S -> Int],
         NEW k \in [S -> Int], NEW T \in SUBSET S, \A x \in T : k[x] = f[x] + h[x]
  PROVE  Sum(k, T) = Sum(f, T) + Sum(h, T)
  <1> DEFINE Bad == {U \in SUBSET T : Sum(k, U) # Sum(f, U) + Sum(h, U)}
  <1>0. IsFiniteSet(T) BY FS_Subset
  <1>1. ASSUME Bad # {} PROVE FALSE
    <2>1. PICK m \in Bad : \A s \in Bad : s \subseteq m => s = m
      <3> Bad \in SUBSET SUBSET T OBVIOUS
      <3> HIDE DEF Bad
      <3> QED BY <1>0, <1>1, MinimalSubset
    <2>2. m # {}
      <3>1. Sum(f, {}) = 0 /\ Sum(h, {}) = 0 /\ Sum(k, {}) = 0 BY SumEmpty
      <3>2. Sum(k, m) # Sum(f, m) + Sum(h, m) BY <2>1
      <3>3. ASSUME m = {} PROVE FALSE
        <4>1. Sum(f, m) = 0 /\ Sum(h, m) = 0 /\ Sum(k, m) = 0 BY <3>1, <3>3
        <4>2. Sum(f, m) + Sum(h, m) = 0 BY <4>1
        <4> QED BY <4>1, <4>2, <3>2
      <3> QED BY <3>3
    <2>3. PICK x \in m : TRUE BY <2>2
    <2>4. m \ {x} \notin Bad BY <2>1, <2>3
    <2>5. Sum(f, m) = f[x] + Sum(f, m \ {x}) BY <2>1, <2>3, SumSplit
    <2>6. Sum(h, m) = h[x] + Sum(h, m \ {x}) BY <2>1, <2>3, SumSplit
    <2>7. Sum(k, m) = k[x] + Sum(k, m \ {x}) BY <2>1, <2>3, SumSplit
    <2>8. k[x] = f[x] + h[x] BY <2>1, <2>3
    <2>9. f[x] \in Int /\ h[x] \in Int BY <2>1, <2>3
    <2>10. m \ {x} \in SUBSET S BY <2>1
    <2>11. Sum(f, m \ {x}) \in Int /\ Sum(h, m \ {x}) \in Int BY <2>10, SumType
    <2>12. Sum(k, m \ {x}) = Sum(f, m \ {x}) + Sum(h, m \ {x}) BY <2>1, <2>4
    <2>13. Sum(k, m) # Sum(f, m) + Sum(h, m) BY <2>1
    <2> QED BY <2>5, <2>6, <2>7, <2>8, <2>9, <2>11, <2>12, <2>13
  <1> QED BY <1>1

\* A sum of natural numbers is not negative.
LEMMA SumNonNegative ==
  ASSUME NEW S, IsFiniteSet(S), NEW f \in [S -> Int],
         NEW T \in SUBSET S, \A x \in T : f[x] >= 0
  PROVE  Sum(f, T) >= 0
  <1> DEFINE Bad == {U \in SUBSET T : ~ (Sum(f, U) >= 0)}
  <1>0. IsFiniteSet(T) BY FS_Subset
  <1>1. ASSUME Bad # {} PROVE FALSE
    <2>1. PICK m \in Bad : \A s \in Bad : s \subseteq m => s = m
      <3> Bad \in SUBSET SUBSET T OBVIOUS
      <3> HIDE DEF Bad
      <3> QED BY <1>0, <1>1, MinimalSubset
    <2>2. m # {}
      <3>1. Sum(f, {}) = 0 BY SumEmpty
      <3>2. ~ (Sum(f, m) >= 0) BY <2>1
      <3> HIDE DEF Bad
      <3> QED BY <3>1, <3>2
    <2>3. PICK x \in m : TRUE BY <2>2
    <2>4. m \ {x} \notin Bad BY <2>1, <2>3
    <2>5. Sum(f, m) = f[x] + Sum(f, m \ {x}) BY <2>1, <2>3, SumSplit
    <2>6. f[x] \in Int /\ f[x] >= 0 BY <2>1, <2>3
    <2>7. Sum(f, m \ {x}) \in Int /\ Sum(f, m \ {x}) >= 0
      <3> m \ {x} \in SUBSET S BY <2>1
      <3> QED BY SumType, <2>1, <2>4
    <2> QED BY <2>1, <2>5, <2>6, <2>7
  <1> QED BY <1>1


\* A sum depends only on the terms, not on the set the function is defined on.
LEMMA SumRestrict ==
  ASSUME NEW S, IsFiniteSet(S), NEW f \in [S -> Int], NEW T \in SUBSET S,
         NEW h \in [T -> Int], \A x \in T : h[x] = f[x]
  PROVE  Sum(h, T) = Sum(f, T)
  <1>1. IsFiniteSet(T) BY FS_Subset
  <1>2. PICK g \in [SUBSET S -> Int] :
            /\ IsSumTable(f, S, g)
            /\ \A U \in SUBSET S : Sum(f, U) = g[U]
    BY ONLY IsFiniteSet(S), f \in [S -> Int], SumTable
  <1>3. PICK r \in [SUBSET T -> Int] :
            /\ IsSumTable(h, T, r)
            /\ \A U \in SUBSET T : Sum(h, U) = r[U]
    BY <1>1, SumTable
  <1>4. IsSumTable(f, T, r)
    <2>1. \A s \in SUBSET T : SumBody(h, r, s) = SumBody(f, r, s)
      <3> TAKE s \in SUBSET T
      <3>1. CASE s = {} BY <3>1 DEF SumBody
      <3>2. CASE s # {}
        <4> DEFINE x == CHOOSE x \in s : TRUE
        <4>1. x \in T BY <3>2
        <4> QED BY <3>2, <4>1 DEF SumBody
      <3> QED BY <3>1, <3>2
    <2> QED BY <1>3, <2>1 DEF IsSumTable
  <1>5. g[T] = r[T]
    <2>1. T \in SUBSET S /\ S \in SUBSET S /\ T \in SUBSET (S \cap T) OBVIOUS
    <2> QED BY <1>2, <1>4, <2>1, SumTablesAgree
  <1> QED BY <1>2, <1>3, <1>5

\* The sum over two disjoint sets is the sum of the two sums.
LEMMA SumUnion ==
  ASSUME NEW S, IsFiniteSet(S), NEW f \in [S -> Int],
         NEW A \in SUBSET S, NEW B \in SUBSET S, A \cap B = {}
  PROVE  Sum(f, A \cup B) = Sum(f, A) + Sum(f, B)
  <1> DEFINE Bad == {U \in SUBSET B : Sum(f, A \cup U) # Sum(f, A) + Sum(f, U)}
  <1>0. IsFiniteSet(B) BY FS_Subset
  <1>1. ASSUME Bad # {} PROVE FALSE
    <2>1. PICK m \in Bad : \A s \in Bad : s \subseteq m => s = m
      <3> Bad \in SUBSET SUBSET B OBVIOUS
      <3> HIDE DEF Bad
      <3> QED BY <1>0, <1>1, MinimalSubset
    <2>2. Sum(f, A) \in Int BY SumType
    <2>3. m # {}
      <3> SUFFICES ASSUME m = {} PROVE FALSE OBVIOUS
      <3>1. Sum(f, {}) = 0 BY SumEmpty
      <3>2. Sum(f, A \cup {}) # Sum(f, A) + Sum(f, {}) BY <2>1
      <3>3. A \cup {} = A OBVIOUS
      <3> HIDE DEF Bad
      <3> QED BY <2>2, <3>1, <3>2, <3>3
    <2>4. PICK x \in m : TRUE BY <2>3
    <2>5. m \ {x} \notin Bad BY <2>1, <2>4
    <2>6. Sum(f, A \cup (m \ {x})) = Sum(f, A) + Sum(f, m \ {x}) BY <2>1, <2>5
    <2>7. Sum(f, m) = f[x] + Sum(f, m \ {x}) BY <2>1, <2>4, SumSplit
    <2>8. Sum(f, A \cup m) = f[x] + Sum(f, A \cup (m \ {x}))
      <3>1. A \cup m \in SUBSET S /\ x \in A \cup m BY <2>1, <2>4
      <3>2. (A \cup m) \ {x} = A \cup (m \ {x}) BY <2>1, <2>4
      <3>3. Sum(f, A \cup m) = f[x] + Sum(f, (A \cup m) \ {x}) BY <3>1, SumSplit
      <3> QED BY <3>2, <3>3
    <2>9. f[x] \in Int /\ Sum(f, m \ {x}) \in Int
      <3>1. m \ {x} \in SUBSET S /\ x \in S BY <2>1, <2>4
      <3> QED BY <3>1, SumType
    <2>10. Sum(f, A \cup m) # Sum(f, A) + Sum(f, m) BY <2>1
    <2> HIDE DEF Bad
    <2> QED BY <2>2, <2>6, <2>7, <2>8, <2>9, <2>10
  <1>2. Sum(f, A \cup B) = Sum(f, A) + Sum(f, B) BY <1>1
  <1> QED BY <1>2

\* The sum of terms that are at most c is at most c for each of them.
LEMMA SumAtMost ==
  ASSUME NEW S, IsFiniteSet(S), NEW f \in [S -> Int], NEW c \in Nat,
         NEW T \in SUBSET S, \A x \in T : f[x] <= c
  PROVE  Sum(f, T) <= c * Cardinality(T)
  <1> DEFINE Bad == {U \in SUBSET T : ~ (Sum(f, U) <= c * Cardinality(U))}
  <1>0. IsFiniteSet(T) BY FS_Subset
  <1>1. ASSUME Bad # {} PROVE FALSE
    <2>1. PICK m \in Bad : \A s \in Bad : s \subseteq m => s = m
      <3> Bad \in SUBSET SUBSET T OBVIOUS
      <3> HIDE DEF Bad
      <3> QED BY <1>0, <1>1, MinimalSubset
    <2>2. m # {}
      <3> SUFFICES ASSUME m = {} PROVE FALSE OBVIOUS
      <3>1. Sum(f, {}) = 0 BY SumEmpty
      <3>2. ~ (Sum(f, {}) <= c * Cardinality({})) BY <2>1
      <3>3. Cardinality({}) = 0 /\ c * 0 = 0 BY FS_EmptySet
      <3> HIDE DEF Bad
      <3> QED BY <3>1, <3>2, <3>3
    <2>3. PICK x \in m : TRUE BY <2>2
    <2>4. m \ {x} \notin Bad BY <2>1, <2>3
    <2>5. Sum(f, m) = f[x] + Sum(f, m \ {x}) BY <2>1, <2>3, SumSplit
    <2>6. f[x] \in Int /\ f[x] <= c BY <2>1, <2>3
    <2>7. Sum(f, m \ {x}) \in Int
      <3> m \ {x} \in SUBSET S BY <2>1
      <3> QED BY SumType
    <2>8. Sum(f, m \ {x}) <= c * Cardinality(m \ {x}) BY <2>1, <2>4
    <2>9. Cardinality(m) \in Nat /\ Cardinality(m \ {x}) = Cardinality(m) - 1
      <3> IsFiniteSet(m) BY <1>0, <2>1, FS_Subset
      <3> QED BY <2>3, FS_RemoveElement, FS_CardinalityType
    <2>10. ~ (Sum(f, m) <= c * Cardinality(m)) BY <2>1
    <2> HIDE DEF Bad
    <2> DEFINE n == Cardinality(m)
    <2>11. c * n = c * (n - 1) + c BY <2>9
    <2> QED BY <2>5, <2>6, <2>7, <2>8, <2>9, <2>10, <2>11
  <1> QED BY <1>1

\* A sum over the values of an injection is the sum over its arguments.
LEMMA SumImage ==
  ASSUME NEW S, IsFiniteSet(S), NEW f \in [S -> Int],
         NEW m, \A x, y \in S : m[x] = m[y] => x = y,
         NEW T, T = {m[x] : x \in S}, NEW h \in [T -> Int], \A x \in S : h[m[x]] = f[x]
  PROVE  Sum(h, T) = Sum(f, S)
  <1> DEFINE Image(U) == {m[x] : x \in U}
             Bad == {U \in SUBSET S : Sum(h, Image(U)) # Sum(f, U)}
             g == [x \in S |-> m[x]]
  <1>0. IsFiniteSet(T)
    <2>1. g \in Surjection(S, T) BY DEF Surjection
    <2> HIDE DEF g
    <2> QED BY <2>1, FS_Surjection
  <1>1. ASSUME Bad # {} PROVE FALSE
    <2>1. PICK U \in Bad : \A s \in Bad : s \subseteq U => s = U
      <3> Bad \in SUBSET SUBSET S OBVIOUS
      <3> HIDE DEF Bad
      <3> QED BY <1>1, MinimalSubset
    <2>2. U \in SUBSET S /\ Sum(h, Image(U)) # Sum(f, U) BY <2>1
    <2>3. U # {}
      <3> SUFFICES ASSUME U = {} PROVE FALSE OBVIOUS
      <3>1. Sum(f, {}) = 0 BY SumEmpty
      <3>2. Sum(h, {}) = 0 BY <1>0, SumEmpty
      <3>3. Image({}) = {} OBVIOUS
      <3> HIDE DEF Bad, Image
      <3> QED BY <2>2, <3>1, <3>2, <3>3
    <2>4. PICK x \in U : TRUE BY <2>3
    <2>5. U \ {x} \notin Bad
      <3> HIDE DEF Bad
      <3>1. U \ {x} \subseteq U /\ U \ {x} # U BY <2>4
      <3> QED BY <2>1, <3>1
    <2>6. Sum(h, Image(U \ {x})) = Sum(f, U \ {x}) BY <2>2, <2>5
    <2>7. Sum(f, U) = f[x] + Sum(f, U \ {x}) BY <2>2, <2>4, SumSplit
    <2>8. Image(U) \in SUBSET T /\ m[x] \in Image(U) /\ Image(U) \ {m[x]} = Image(U \ {x})
      BY <2>2, <2>4
    <2>9. h[m[x]] = f[x] BY <2>2, <2>4
    <2> HIDE DEF Bad, Image
    <2>10. Sum(h, Image(U)) = h[m[x]] + Sum(h, Image(U) \ {m[x]}) BY <1>0, <2>8, SumSplit
    <2> QED BY <2>2, <2>6, <2>7, <2>8, <2>9, <2>10
  <1>2. Sum(h, Image(S)) = Sum(f, S) BY <1>1
  <1> QED BY <1>2

\* A total order on a finite set, written as a set of pairs, has a last element.
LEMMA LastOfAll ==
  ASSUME NEW S, IsFiniteSet(S), S # {}, NEW R,
         \A x, y \in S : <<x, y>> \in R \/ <<y, x>> \in R,
         \A x, y, z \in S : <<x, y>> \in R /\ <<y, z>> \in R => <<x, z>> \in R
  PROVE  \E m \in S : \A x \in S : <<x, m>> \in R
  <1> DEFINE Bad == {U \in SUBSET S : U # {} /\ ~ \E m \in U : \A x \in U : <<x, m>> \in R}
  <1>1. ASSUME Bad # {} PROVE FALSE
    <2>1. PICK U \in Bad : \A s \in Bad : s \subseteq U => s = U
      <3> Bad \in SUBSET SUBSET S OBVIOUS
      <3> HIDE DEF Bad
      <3> QED BY <1>1, MinimalSubset
    <2>2. U \in SUBSET S /\ U # {} /\ ~ \E m \in U : \A x \in U : <<x, m>> \in R BY <2>1
    <2>3. PICK y \in U : TRUE BY <2>2
    <2>4. U \ {y} \notin Bad
      <3> HIDE DEF Bad
      <3>1. U \ {y} \subseteq U /\ U \ {y} # U BY <2>3
      <3> QED BY <2>1, <3>1
    <2>5. CASE U \ {y} = {}
      <3>1. \A x \in U : x = y BY <2>5
      <3> QED BY <2>2, <2>3, <3>1
    <2>6. CASE U \ {y} # {}
      <3>1. PICK m \in U \ {y} : \A x \in U \ {y} : <<x, m>> \in R BY <2>2, <2>4, <2>6
      <3>2. CASE <<y, m>> \in R BY <2>2, <3>1, <3>2
      <3>3. CASE <<m, y>> \in R
        <4>1. \A x \in U \ {y} : <<x, y>> \in R BY <2>2, <2>3, <3>1, <3>3
        <4>2. <<y, y>> \in R BY <2>2, <2>3
        <4> QED BY <2>2, <2>3, <4>1, <4>2
      <3> QED BY <2>2, <2>3, <3>1, <3>2, <3>3
    <2> QED BY <2>5, <2>6
  <1> QED BY <1>1

\* A finite set of integers has a greatest element.
LEMMA GreatestOfAll ==
  ASSUME NEW S, S \subseteq Int, IsFiniteSet(S), S # {}
  PROVE  \E m \in S : \A x \in S : m >= x
  <1> DEFINE R == {p \in S \X S : p[1] <= p[2]}
  <1>1. \A x, y \in S : <<x, y>> \in R \/ <<y, x>> \in R OBVIOUS
  <1>2. \A x, y, z \in S : <<x, y>> \in R /\ <<y, z>> \in R => <<x, z>> \in R OBVIOUS
  <1>3. \A x, y \in S : <<x, y>> \in R => y >= x OBVIOUS
  <1> HIDE DEF R
  <1>4. \E m \in S : \A x \in S : <<x, m>> \in R BY <1>1, <1>2, LastOfAll
  <1> QED BY <1>3, <1>4

\* what holds at 0, and at k + 1 if it holds at k, holds up to n
LEMMA UpTo ==
  ASSUME NEW n \in Nat, NEW Good, 0 \in Good, \A k \in 0..n : k < n /\ k \in Good => k + 1 \in Good
  PROVE  \A k \in 0..n : k \in Good
  <1> DEFINE Bad == (0..n) \ Good
  <1>1. ASSUME Bad # {} PROVE FALSE
    <2>1. Bad \subseteq Nat OBVIOUS
    <2>2. PICK m \in Bad : \A k \in Bad : ~ (<<k, m>> \in OpToRel(<, Nat))
      <3> HIDE DEF Bad
      <3> QED BY <1>1, <2>1, NatLessThanWellFounded, WFMin
    <2>3. \A k \in Bad : ~ (k < m) BY <2>1, <2>2 DEF OpToRel
    <2>4. m # 0 /\ m \in 0..n OBVIOUS
    <2>5. m - 1 \in 0..n /\ m - 1 < n /\ m - 1 < m BY <2>4
    <2>6. m - 1 \in Good BY <2>3, <2>5
    <2>7. m - 1 + 1 = m BY <2>4
    <2> QED BY <2>5, <2>6, <2>7
  <1> QED BY <1>1

-----------------------------------------------------------------------------
(* The table that a fold over a set builds: its entry for a set comes from   *)
(* the entry without the element that is taken last.                         *)

FoldBody(base, next, last, g, s) == IF s = {} THEN base ELSE next[<<g[s \ {last[s]}], last[s]>>]

IsFoldTable(base, next, last, S, g) == g = [s \in SUBSET S |-> FoldBody(base, next, last, g, s)]

\* Two tables agree where both are defined.
LEMMA FoldTablesAgree ==
  ASSUME NEW base, NEW next, NEW last, NEW T, NEW U, IsFiniteSet(T),
         \A V \in SUBSET T : V # {} => last[V] \in V,
         NEW g, IsFoldTable(base, next, last, T, g), NEW h, IsFoldTable(base, next, last, U, h),
         NEW X, X \subseteq T, X \subseteq U
  PROVE  g[X] = h[X]
  <1> DEFINE D == {V \in SUBSET (T \cap U) : g[V] # h[V]}
  <1>1. \A V \in SUBSET (T \cap U) :
           g[V] = FoldBody(base, next, last, g, V) /\ h[V] = FoldBody(base, next, last, h, V)
    BY DEF IsFoldTable
  <1>2. ASSUME D # {} PROVE FALSE
    <2>1. PICK m \in D : \A s \in D : s \subseteq m => s = m
      <3>1. D \in SUBSET SUBSET T OBVIOUS
      <3> HIDE DEF D
      <3> QED BY ONLY <1>2, <3>1, IsFiniteSet(T), MinimalSubset
    <2>2. m # {} BY <1>1, <2>1 DEF FoldBody
    <2>3. last[m] \in m BY <2>2
    <2>4. m \ {last[m]} \notin D BY <2>1, <2>3
    <2>5. g[m \ {last[m]}] = h[m \ {last[m]}] BY <2>4, <2>1
    <2>6. FoldBody(base, next, last, g, m) = FoldBody(base, next, last, h, m) BY <2>5 DEF FoldBody
    <2> QED BY <2>6, <2>1, <1>1
  <1> QED BY <1>2

\* Every finite set has a table.
LEMMA FoldTableExists ==
  ASSUME NEW S, IsFiniteSet(S), NEW base, NEW next,
         NEW last, \A V \in SUBSET S : V # {} => last[V] \in V
  PROVE  \E g : IsFoldTable(base, next, last, S, g)
  <1> DEFINE Bad == {T \in SUBSET S : ~ \E g : IsFoldTable(base, next, last, T, g)}
  <1>1. ASSUME Bad # {} PROVE FALSE
    <2>1. PICK T \in Bad : \A s \in Bad : s \subseteq T => s = T
      <3>1. Bad \in SUBSET SUBSET S OBVIOUS
      <3> HIDE DEF Bad
      <3> QED BY ONLY <1>1, <3>1, IsFiniteSet(S), MinimalSubset
    <2> DEFINE G(U) == CHOOSE g : IsFoldTable(base, next, last, U, g)
    <2>2. \A U \in SUBSET T : U # T => IsFoldTable(base, next, last, U, G(U)) BY <2>1
    <2>3. \A V \in SUBSET T : V # {} => last[V] \in V BY <2>1
    <2> DEFINE smaller(V) == V \ {last[V]}
               h == [V \in SUBSET T |-> IF V = {} THEN base ELSE next[<<G(smaller(V))[smaller(V)], last[V]>>]]
    <2>4. \A V \in SUBSET T : V # {} => smaller(V) \in SUBSET T /\ smaller(V) # T /\ smaller(V) # V BY <2>3
    <2>5. \A V \in SUBSET T : V # T => h[V] = G(V)[V]
      <3> SUFFICES ASSUME NEW V \in SUBSET T, V # T PROVE h[V] = G(V)[V] OBVIOUS
      <3>1. IsFoldTable(base, next, last, V, G(V)) BY <2>2
      <3>2. G(V)[V] = FoldBody(base, next, last, G(V), V)
        <4> HIDE DEF G
        <4> QED BY <3>1 DEF IsFoldTable
      <3>3. CASE V = {}
        <4> HIDE DEF G, smaller
        <4> QED BY <3>2, <3>3 DEF FoldBody
      <3>4. CASE V # {}
        <4> DEFINE W == smaller(V)
        <4>1. W \in SUBSET T /\ W # T /\ W \in SUBSET V BY <2>4, <3>4
        <4>2. IsFoldTable(base, next, last, W, G(W)) BY <2>2, <4>1
        <4>3. G(V)[W] = G(W)[W]
          <5>1. PICK gv : gv = G(V) /\ IsFoldTable(base, next, last, V, gv) BY <3>1
          <5>2. PICK gw : gw = G(W) /\ IsFoldTable(base, next, last, W, gw) BY <4>2
          <5>3. IsFiniteSet(V) /\ W \subseteq V BY <4>1, FS_Subset
          <5>4. \A X \in SUBSET V : X # {} => last[X] \in X BY <2>3
          <5> HIDE DEF G, W, h, smaller, Bad
          <5>5. gv[W] = gw[W] BY ONLY <5>1, <5>2, <5>3, <5>4, FoldTablesAgree
          <5> QED BY ONLY <5>1, <5>2, <5>5
        <4>4. G(V)[V] = next[<<G(V)[W], last[V]>>]
          <5> HIDE DEF G
          <5> QED BY <3>2, <3>4 DEF FoldBody
        <4>5. h[V] = next[<<G(W)[W], last[V]>>]
          <5> HIDE DEF G
          <5> QED BY <3>4
        <4> QED BY <4>3, <4>4, <4>5
      <3> QED BY <3>3, <3>4
    <2>6. \A V \in SUBSET T : h[V] = FoldBody(base, next, last, h, V)
      <3> SUFFICES ASSUME NEW V \in SUBSET T PROVE h[V] = FoldBody(base, next, last, h, V) OBVIOUS
      <3>1. CASE V = {}
        <4> HIDE DEF G, smaller
        <4> QED BY <3>1 DEF FoldBody
      <3>2. CASE V # {}
        <4>1. h[smaller(V)] = G(smaller(V))[smaller(V)] BY <2>4, <2>5, <3>2
        <4>2. h[V] = next[<<G(smaller(V))[smaller(V)], last[V]>>]
          <5> HIDE DEF G, smaller
          <5> QED BY <3>2
        <4>3. h[V] = next[<<h[smaller(V)], last[V]>>] BY <4>1, <4>2
        <4> HIDE DEF h
        <4> QED BY <4>3, <3>2 DEF FoldBody
      <3> QED BY <3>1, <3>2
    <2>7. IsFoldTable(base, next, last, T, h)
      <3> h = [V \in SUBSET T |-> h[V]] OBVIOUS
      <3> HIDE DEF h
      <3> QED BY <2>6 DEF IsFoldTable
    <2> QED BY <2>1, <2>7
  <1> QED BY <1>1

\* Its entries are values of the fold.
LEMMA FoldTableTyped ==
  ASSUME NEW S, IsFiniteSet(S), NEW A, NEW base \in A, NEW next, next \in [A \X S -> A],
         NEW last, \A V \in SUBSET S : V # {} => last[V] \in V
  PROVE  \E g \in [SUBSET S -> A] : IsFoldTable(base, next, last, S, g)
  <1>2. PICK g : IsFoldTable(base, next, last, S, g) BY FoldTableExists
  <1>3. \A V \in SUBSET S : g[V] = FoldBody(base, next, last, g, V) BY <1>2 DEF IsFoldTable
  <1> DEFINE Wrong == {V \in SUBSET S : g[V] \notin A}
  <1>4. ASSUME Wrong # {} PROVE FALSE
    <2>1. PICK m \in Wrong : \A s \in Wrong : s \subseteq m => s = m
      <3>1. Wrong \in SUBSET SUBSET S OBVIOUS
      <3> HIDE DEF Wrong
      <3> QED BY ONLY <1>4, <3>1, IsFiniteSet(S), MinimalSubset
    <2>2. CASE m = {} BY <2>1, <2>2, <1>3 DEF FoldBody
    <2>3. CASE m # {}
      <3>1. last[m] \in m /\ m \in SUBSET S BY <2>1, <2>3
      <3>2. g[m \ {last[m]}] \in A BY <2>1, <3>1
      <3>3. g[m] = next[<<g[m \ {last[m]}], last[m]>>] BY <2>3, <3>1, <1>3 DEF FoldBody
      <3>4. <<g[m \ {last[m]}], last[m]>> \in A \X S BY <3>1, <3>2
      <3>5. next[<<g[m \ {last[m]}], last[m]>>] \in A BY <3>4
      <3> QED BY <2>1, <3>3, <3>5
    <2> QED BY <2>2, <2>3
  <1>5. g = [V \in SUBSET S |-> g[V]] BY <1>2 DEF IsFoldTable
  <1>6. g \in [SUBSET S -> A] BY <1>4, <1>5
  <1> QED BY <1>2, <1>6
=============================================================================
