---------------------------- MODULE LedgerLemmas ----------------------------
(***************************************************************************)
(* Facts about Total, Running and RunningNet for every finite set of       *)
(* accounts and every sequence of deltas.                                  *)
(***************************************************************************)
EXTENDS Ledger, TLAPS, FiniteSetTheorems

\* Membership in Units, spelled out.
LEMMA UnitsMember ==
  ASSUME NEW A, NEW f \in [A -> Nat]
  PROVE  \A c : c \in Units(f) <=> \E a \in A, k \in Nat : c = <<a, k>> /\ 1 <= k /\ k <= f[a]
BY DEF Units

\* The units of one account: a column of f[a] pairs.
LEMMA Column ==
  ASSUME NEW a, NEW n \in Nat
  PROVE  /\ IsFiniteSet({a} \X (1..n))
         /\ Cardinality({a} \X (1..n)) = n
<1>1. IsFiniteSet({a}) /\ Cardinality({a}) = 1
  BY FS_Singleton
<1>2. IsFiniteSet(1..n) /\ Cardinality(1..n) = n
  BY FS_Interval
<1>3. /\ IsFiniteSet({a} \X (1..n))
      /\ Cardinality({a} \X (1..n)) = Cardinality({a}) * Cardinality(1..n)
  BY <1>1, <1>2, FS_Product, Zenon
<1>4. 1 * n = n
  OBVIOUS
<1> QED
  BY <1>1, <1>2, <1>3, <1>4

\* A table over finitely many accounts has finitely many units, so its total is a natural number.
LEMMA UnitsFinite ==
  ASSUME NEW A, IsFiniteSet(A), NEW f \in [A -> Nat]
  PROVE  /\ IsFiniteSet(Units(f))
         /\ Total(f) \in Nat
<1> DEFINE Cols == {{a} \X (1..f[a]) : a \in A}
           col  == [a \in A |-> {a} \X (1..f[a])]
<1>1. col \in Surjection(A, Cols)
  BY DEF Surjection
<1>2. IsFiniteSet(Cols)
  <2> HIDE DEF Cols, col
  <2> QED BY <1>1, FS_Surjection
<1>3. ASSUME NEW T \in Cols PROVE IsFiniteSet(T)
  <2>1. PICK a \in A : T = {a} \X (1..f[a])
    OBVIOUS
  <2>2. f[a] \in Nat
    OBVIOUS
  <2> QED BY <2>1, <2>2, Column, Zenon
<1>4. IsFiniteSet(UNION Cols)
  <2> HIDE DEF Cols
  <2> QED BY <1>2, <1>3, FS_UNION
<1>5. Units(f) = UNION Cols
  BY DEF Units
<1> QED
  BY <1>4, <1>5, FS_CardinalityType DEF Total

\* The total splits into one account's amount and the rest.
LEMMA TotalSplit ==
  ASSUME NEW A, IsFiniteSet(A), NEW f \in [A -> Nat], NEW a \in A
  PROVE  /\ Total([f EXCEPT ![a] = 0]) \in Nat
         /\ Total(f) = Total([f EXCEPT ![a] = 0]) + f[a]
<1> DEFINE g == [f EXCEPT ![a] = 0]
           C == {a} \X (1..f[a])
<1>1. g \in [A -> Nat] /\ f[a] \in Nat
  OBVIOUS
<1>2. IsFiniteSet(Units(g)) /\ Total(g) \in Nat
  BY <1>1, UnitsFinite
<1>3. IsFiniteSet(C) /\ Cardinality(C) = f[a]
  BY Column, <1>1
<1>4. Units(f) = Units(g) \cup C
  <2>1. ASSUME NEW c \in Units(f) PROVE c \in Units(g) \cup C
    <3>1. PICK b \in A, k \in Nat : c = <<b, k>> /\ 1 <= k /\ k <= f[b]
      BY <2>1, UnitsMember
    <3>2. CASE b = a
      BY <3>1, <3>2, <1>1
    <3>3. CASE b # a
      <4>1. g[b] = f[b]
        BY <3>3
      <4> HIDE DEF g
      <4> QED BY <3>1, <4>1, <1>1, UnitsMember
    <3> QED BY <3>2, <3>3
  <2>2. ASSUME NEW c \in Units(g) PROVE c \in Units(f)
    <3>0. PICK b \in A, k \in Nat : c = <<b, k>> /\ 1 <= k /\ k <= g[b]
      <4> HIDE DEF g
      <4> QED BY <2>2, <1>1, UnitsMember
    <3>1. g[b] <= f[b] /\ g[b] \in Nat /\ f[b] \in Nat
      OBVIOUS
    <3>2. k <= f[b]
      <4> HIDE DEF g
      <4> QED BY <3>0, <3>1
    <3> QED BY <3>0, <3>2, UnitsMember
  <2>3. ASSUME NEW c \in C PROVE c \in Units(f)
    <3>1. PICK k \in 1..f[a] : c = <<a, k>>
      BY <2>3
    <3> QED BY <3>1, <1>1, UnitsMember
  <2> QED BY <2>1, <2>2, <2>3
<1>5. Units(g) \cap C = {}
  <2> SUFFICES ASSUME NEW c \in Units(g), c \in C PROVE FALSE
    OBVIOUS
  <2>1. PICK b \in A, k \in Nat : c = <<b, k>> /\ 1 <= k /\ k <= g[b]
    <3> HIDE DEF g
    <3> QED BY <1>1, UnitsMember
  <2>2. b = a
    BY <2>1
  <2>3. g[a] = 0
    OBVIOUS
  <2> QED BY <2>1, <2>2, <2>3
<1>6. Cardinality(Units(f)) = Cardinality(Units(g)) + Cardinality(C) - Cardinality(Units(g) \cap C)
  <2> HIDE DEF g, C
  <2> QED BY <1>2, <1>3, <1>4, FS_Union
<1>7. Cardinality(Units(g) \cap C) = 0
  BY <1>5, FS_EmptySet
<1> QED
  BY <1>2, <1>3, <1>6, <1>7, <1>1 DEF Total

\* Changing one account's amount changes the total by the difference.
LEMMA TotalUpdate ==
  ASSUME NEW A, IsFiniteSet(A), NEW f \in [A -> Nat], NEW a \in A, NEW n \in Nat
  PROVE  Total([f EXCEPT ![a] = n]) = Total(f) - f[a] + n
<1> DEFINE g == [f EXCEPT ![a] = n]
<1>1. g \in [A -> Nat] /\ g[a] = n /\ [g EXCEPT ![a] = 0] = [f EXCEPT ![a] = 0]
  OBVIOUS
<1>2. Total(f) = Total([f EXCEPT ![a] = 0]) + f[a] /\ Total([f EXCEPT ![a] = 0]) \in Nat
  BY TotalSplit
<1>3. Total(g) = Total([g EXCEPT ![a] = 0]) + g[a]
  <2> HIDE DEF g
  <2> QED BY <1>1, TotalSplit
<1> QED
  BY <1>1, <1>2, <1>3

\* No account holds more than the total.
LEMMA AmountWithinTotal ==
  ASSUME NEW A, IsFiniteSet(A), NEW f \in [A -> Nat], NEW a \in A
  PROVE  f[a] <= Total(f)
<1>1. Total([f EXCEPT ![a] = 0]) \in Nat /\ Total(f) = Total([f EXCEPT ![a] = 0]) + f[a]
  BY TotalSplit
<1>2. f[a] \in Nat
  OBVIOUS
<1> QED
  BY <1>1, <1>2

\* A table with nowhere more totals no more.
LEMMA TotalMonotone ==
  ASSUME NEW A, IsFiniteSet(A), NEW f \in [A -> Nat], NEW g \in [A -> Nat],
         \A a \in A : f[a] <= g[a]
  PROVE  Total(f) <= Total(g)
<1>1. Units(f) \subseteq Units(g)
  <2> SUFFICES ASSUME NEW c \in Units(f) PROVE c \in Units(g)
    OBVIOUS
  <2>1. PICK a \in A, k \in Nat : c = <<a, k>> /\ 1 <= k /\ k <= f[a]
    BY UnitsMember
  <2>2. f[a] \in Nat /\ g[a] \in Nat /\ f[a] <= g[a]
    OBVIOUS
  <2>3. k <= g[a]
    BY <2>1, <2>2
  <2> QED
    BY <2>1, <2>3, UnitsMember
<1>2. IsFiniteSet(Units(g))
  BY UnitsFinite
<1> QED
  BY <1>1, <1>2, FS_Subset DEF Total

\* A table of zeros totals zero.
LEMMA TotalOfZeros ==
  ASSUME NEW A
  PROVE  Total([a \in A |-> 0]) = 0
<1> DEFINE z == [a \in A |-> 0]
<1>1. z \in [A -> Nat] /\ \A a \in A : z[a] = 0
  OBVIOUS
<1>2. Units(z) = {}
  <2> HIDE DEF z
  <2> QED BY <1>1, UnitsMember
<1> QED
  BY <1>2, FS_EmptySet DEF Total

-----------------------------------------------------------------------------
\* A non-empty set of natural numbers has a least element.  Inductions below are
\* arguments about the least counterexample.
LEMMA LeastNatural ==
  ASSUME NEW T \in SUBSET Nat, T # {}
  PROVE  \E m \in T : \A k \in T : m <= k
<1> DEFINE Below(n) == 0..(n-1)
           B == {Below(n) : n \in T}
<1>1. B \subseteq FiniteSubsetsOf(Nat)
  <2>1. ASSUME NEW n \in T PROVE Below(n) \subseteq Nat /\ IsFiniteSet(Below(n))
    <3>1. n \in Int /\ 0 \in Int /\ n - 1 \in Int
      OBVIOUS
    <3>2. IsFiniteSet(0..(n-1))
      BY <3>1, FS_Interval
    <3> QED BY <3>1, <3>2
  <2> HIDE DEF Below
  <2> QED BY <2>1 DEF FiniteSubsetsOf
<1>2. B # {}
  OBVIOUS
<1>3. PICK b \in B : \A c \in B : ~ (<<c, b>> \in StrictSubsetOrdering(Nat))
  <2> HIDE DEF B
  <2> QED BY <1>1, <1>2, WFMin, FS_StrictSubsetOrderingWellFounded
<1>4. PICK m \in T : b = Below(m)
  OBVIOUS
<1>5. ASSUME NEW k \in T, k < m PROVE FALSE
  <2>1. Below(k) \in B
    OBVIOUS
  <2>2. Below(k) \subseteq Below(m) /\ k \in Below(m) /\ k \notin Below(k)
    BY <1>5
  <2>3. Below(k) \in SUBSET Nat /\ Below(m) \in SUBSET Nat
    OBVIOUS
  <2>4. <<Below(k), Below(m)>> \in StrictSubsetOrdering(Nat)
    <3> HIDE DEF Below
    <3> QED BY <2>2, <2>3 DEF StrictSubsetOrdering
  <2> HIDE DEF Below, B
  <2> QED BY <1>3, <1>4, <2>1, <2>4
<1> QED
  <2> HIDE DEF Below, B
  <2> QED BY <1>5

\* r holds the tables after each of the first n deltas.
IsRunning(r, bal, deltas, n) ==
    /\ DOMAIN r = 0..n
    /\ r = [i \in 0..n |-> r[i]]
    /\ r[0] = [table |-> bal, net |-> 0]
    /\ \A i \in 1..n : r[i] = Applied(r[i-1], deltas[i])

\* One more delta extends the tables by one.
LEMMA RunningExtends ==
  ASSUME NEW bal, NEW deltas, NEW m \in Nat \ {0}, NEW r, IsRunning(r, bal, deltas, m - 1)
  PROVE  \E q : IsRunning(q, bal, deltas, m)
<1> DEFINE q == [i \in 0..m |-> IF i = m THEN Applied(r[m-1], deltas[m]) ELSE r[i]]
<1>1. q[0] = [table |-> bal, net |-> 0]
  BY DEF IsRunning
<1>2. ASSUME NEW i \in 1..m
      PROVE  q[i] = Applied(q[i-1], deltas[i])
  <2>1. q[i-1] = r[i-1]
    OBVIOUS
  <2>2. CASE i = m
    BY <2>1, <2>2
  <2>3. CASE i # m
    <3>1. q[i] = r[i] /\ i \in 1..(m-1)
      BY <2>3
    <3> HIDE DEF q
    <3> QED BY <3>1, <2>1 DEF IsRunning
  <2> QED BY <2>2, <2>3
<1>3. DOMAIN q = 0..m /\ q = [i \in 0..m |-> q[i]]
  OBVIOUS
<1> QED
  <2> HIDE DEF q
  <2> QED BY <1>1, <1>2, <1>3 DEF IsRunning

\* The tables exist for every number n of deltas.
LEMMA RunningExists ==
  ASSUME NEW bal, NEW deltas, NEW n \in Nat
  PROVE  \E r : IsRunning(r, bal, deltas, n)
<1> DEFINE Exists(k) == \E r : IsRunning(r, bal, deltas, k)
           Bad == {k \in Nat : ~ Exists(k)}
<1>1. ASSUME NEW m \in Bad, \A k \in Bad : m <= k PROVE FALSE
  <2>1. m \in Nat /\ ~ Exists(m)
    OBVIOUS
  <2>2. m # 0
    <3>1. IsRunning([i \in 0..0 |-> [table |-> bal, net |-> 0]], bal, deltas, 0)
      BY DEF IsRunning
    <3> QED BY <3>1, <2>1
  <2>3. m - 1 \in Nat /\ ~ (m <= m - 1)
    BY <2>1, <2>2
  <2>4. m - 1 \notin Bad
    <3> HIDE DEF Bad
    <3> QED BY <1>1, <2>3
  <2>5. Exists(m - 1)
    <3> HIDE DEF Exists
    <3> QED BY <2>3, <2>4
  <2> QED
    BY <2>1, <2>2, <2>5, RunningExtends
<1>2. Bad = {}
  <2> HIDE DEF Exists
  <2>1. Bad \in SUBSET Nat
    OBVIOUS
  <2> HIDE DEF Bad
  <2> QED BY <1>1, <2>1, LeastNatural
<1>3. Exists(n)
  <2> HIDE DEF Exists
  <2> QED BY <1>2
<1> QED
  BY <1>3

\* Running is the table its definition describes.
LEMMA RunningDef ==
  ASSUME NEW bal, NEW deltas, Len(deltas) \in Nat
  PROVE  IsRunning(Running(bal, deltas), bal, deltas, Len(deltas))
<1> DEFINE Body(f) == [i \in 0..Len(deltas) |->
                         IF i = 0 THEN [table |-> bal, net |-> 0] ELSE Applied(f[i-1], deltas[i])]
           r == Running(bal, deltas)
<1>1. PICK q : IsRunning(q, bal, deltas, Len(deltas))
  BY RunningExists
<1>2. q = Body(q)
  <2>1. q = [i \in 0..Len(deltas) |-> q[i]]
    BY <1>1 DEF IsRunning
  <2>2. ASSUME NEW i \in 0..Len(deltas)
        PROVE  q[i] = IF i = 0 THEN [table |-> bal, net |-> 0] ELSE Applied(q[i-1], deltas[i])
    BY <1>1, SMTT(30) DEF IsRunning
  <2> QED BY <2>1, <2>2
<1>3. r = CHOOSE f : f = Body(f)
  BY DEF Running
<1>4. r = Body(r)
  <2> HIDE DEF Body, r
  <2> QED BY <1>2, <1>3
<1> HIDE DEF r
<1>5. DOMAIN r = 0..Len(deltas) /\ r = [i \in 0..Len(deltas) |-> r[i]]
  BY <1>4
<1>6. \A i \in 0..Len(deltas) : r[i] = IF i = 0 THEN [table |-> bal, net |-> 0] ELSE Applied(r[i-1], deltas[i])
  BY <1>4
<1>7. r[0] = [table |-> bal, net |-> 0] /\ \A i \in 1..Len(deltas) : r[i] = Applied(r[i-1], deltas[i])
  BY <1>6
<1> QED
  BY <1>5, <1>7 DEF IsRunning, r

\* What a prefix of the deltas leaves.
Tables(A) == [table : [A -> Int], net : Int]

\* One delta changes one account and the net by its amount.
LEMMA AppliedType ==
  ASSUME NEW A, NEW t \in Tables(A), NEW d \in Delta(A)
  PROVE  /\ Applied(t, d) \in Tables(A)
         /\ Applied(t, d).table = [t.table EXCEPT ![d.account] = t.table[d.account] + d.amount]
         /\ Applied(t, d).net = t.net + d.amount
<1>1. t.table \in [A -> Int] /\ t.net \in Int /\ d.account \in A /\ d.amount \in Int
  BY DEF Tables, Delta
<1> DEFINE f == [t.table EXCEPT ![d.account] = t.table[d.account] + d.amount]
<1>2. f \in [A -> Int]
  BY <1>1
<1>3. Applied(t, d) = [table |-> f, net |-> t.net + d.amount]
  BY DEF Applied
<1> HIDE DEF f
<1>4. Applied(t, d) \in Tables(A) /\ Applied(t, d).table = f /\ Applied(t, d).net = t.net + d.amount
  BY <1>1, <1>2, <1>3 DEF Tables
<1> QED
  BY <1>4 DEF f

\* One delta that overdraws nobody moves the total by its amount.
LEMMA AppliedTotal ==
  ASSUME NEW A, IsFiniteSet(A), NEW t \in Tables(A), t.table \in [A -> Nat], NEW d \in Delta(A),
         ~ (Applied(t, d).table[d.account] < 0)
  PROVE  /\ Applied(t, d).table \in [A -> Nat]
         /\ Total(Applied(t, d).table) = Total(t.table) + d.amount
<1> DEFINE f == t.table
           a == d.account
           n == f[a] + d.amount
<1>1. f \in [A -> Nat] /\ a \in A /\ d.amount \in Int
  BY DEF Delta
<1>2. Applied(t, d).table = [f EXCEPT ![a] = n]
  BY AppliedType
<1>3. f[a] \in Nat /\ Total(f) \in Nat
  BY <1>1, UnitsFinite
<1>4. Applied(t, d).table[a] = n
  <2> HIDE DEF f, a, n
  <2> QED BY <1>1, <1>2
<1>5. n \in Nat
  BY <1>1, <1>3, <1>4
<1>6. [f EXCEPT ![a] = n] \in [A -> Nat]
  <2> HIDE DEF f, a, n
  <2> QED BY <1>1, <1>5
<1>7. Total([f EXCEPT ![a] = n]) = Total(f) - f[a] + n
  <2> HIDE DEF f, a, n
  <2> QED BY <1>1, <1>5, TotalUpdate
<1>8. Total(f) - f[a] + n = Total(f) + d.amount
  <2> HIDE DEF f, a
  <2> QED BY <1>1, <1>3
<1> QED
  BY <1>2, <1>6, <1>7, <1>8

\* Every prefix of the deltas leaves an integer in every account and an integer net.
LEMMA RunningType ==
  ASSUME NEW A, NEW bal \in [A -> Int], NEW deltas \in Seq(Delta(A))
  PROVE  Running(bal, deltas) \in [0..Len(deltas) -> Tables(A)]
<1> DEFINE r == Running(bal, deltas)
           Bad == {k \in 0..Len(deltas) : r[k] \notin Tables(A)}
<1>0. Len(deltas) \in Nat
  OBVIOUS
<1>1. IsRunning(r, bal, deltas, Len(deltas))
  BY <1>0, RunningDef
<1> HIDE DEF r
<1>2. ASSUME NEW m \in Bad, \A k \in Bad : m <= k PROVE FALSE
  <2>1. m \in 0..Len(deltas) /\ r[m] \notin Tables(A)
    OBVIOUS
  <2>2. m # 0
    BY <1>1, <2>1 DEF IsRunning, Tables
  <2>3. m - 1 \in 0..Len(deltas) /\ m \in 1..Len(deltas) /\ ~ (m <= m - 1)
    BY <1>0, <2>1, <2>2
  <2>4. m - 1 \notin Bad
    <3> HIDE DEF Bad
    <3> QED BY <1>2, <2>3
  <2>5. r[m-1] \in Tables(A)
    BY <2>3, <2>4
  <2>6. deltas[m] \in Delta(A)
    BY <2>3
  <2>7. r[m] = Applied(r[m-1], deltas[m])
    BY <1>1, <2>3 DEF IsRunning
  <2>8. Applied(r[m-1], deltas[m]) \in Tables(A)
    BY <2>5, <2>6, AppliedType
  <2> QED BY <2>1, <2>7, <2>8
<1>3. Bad = {}
  <2>1. Bad \in SUBSET Nat
    BY <1>0
  <2> HIDE DEF Bad
  <2> QED BY <1>2, <2>1, LeastNatural
<1>4. \A k \in 0..Len(deltas) : r[k] \in Tables(A)
  BY <1>3
<1> HIDE DEF Bad
<1>5. r = [i \in 0..Len(deltas) |-> r[i]]
  BY <1>1 DEF IsRunning
<1>6. r \in [0..Len(deltas) -> Tables(A)]
  BY <1>4, <1>5
<1> QED
  BY <1>6 DEF r

\* If no account is overdrawn on the way, every prefix leaves natural numbers, and the
\* total has moved by exactly the prefix's net.
LEMMA RunningTotal ==
  ASSUME NEW A, IsFiniteSet(A), NEW bal \in [A -> Nat], NEW deltas \in Seq(Delta(A)),
         ~ Overdraws(bal, deltas), NEW n \in 0..Len(deltas)
  PROVE  /\ Running(bal, deltas)[n].table \in [A -> Nat]
         /\ Total(Running(bal, deltas)[n].table) = Total(bal) + Running(bal, deltas)[n].net
<1> DEFINE r == Running(bal, deltas)
           Holds(k) == /\ r[k].table \in [A -> Nat]
                       /\ Total(r[k].table) = Total(bal) + r[k].net
           Bad == {k \in 0..Len(deltas) : ~ Holds(k)}
<1>0. Len(deltas) \in Nat /\ bal \in [A -> Int] /\ Total(bal) \in Nat
  BY UnitsFinite
<1>1. IsRunning(r, bal, deltas, Len(deltas)) /\ r \in [0..Len(deltas) -> Tables(A)]
  BY <1>0, RunningDef, RunningType
<1>2. \A i \in 1..Len(deltas) : ~ (r[i].table[deltas[i].account] < 0)
  BY DEF Overdraws
<1> HIDE DEF r
<1>3. ASSUME NEW m \in Bad, \A k \in Bad : m <= k PROVE FALSE
  <2>1. m \in 0..Len(deltas) /\ ~ Holds(m)
    OBVIOUS
  <2>2. m # 0
    <3>1. r[0] = [table |-> bal, net |-> 0]
      BY <1>1 DEF IsRunning
    <3>2. Holds(0)
      BY <3>1, <1>0
    <3> HIDE DEF Holds
    <3> QED BY <3>2, <2>1
  <2>3. m - 1 \in 0..Len(deltas) /\ m \in 1..Len(deltas) /\ ~ (m <= m - 1)
    BY <1>0, <2>1, <2>2
  <2>4. m - 1 \notin Bad
    <3> HIDE DEF Bad
    <3> QED BY <1>3, <2>3
  <2>5. Holds(m - 1)
    <3> HIDE DEF Holds
    <3> QED BY <2>3, <2>4
  <2>6. deltas[m] \in Delta(A) /\ r[m-1] \in Tables(A)
    BY <1>1, <2>3
  <2>7. r[m] = Applied(r[m-1], deltas[m])
    BY <1>1, <2>3 DEF IsRunning
  <2>8. ~ (Applied(r[m-1], deltas[m]).table[deltas[m].account] < 0)
    BY <1>2, <2>3, <2>7
  <2>9. /\ r[m].table \in [A -> Nat]
        /\ Total(r[m].table) = Total(r[m-1].table) + deltas[m].amount
    BY <2>5, <2>6, <2>7, <2>8, AppliedTotal, ZenonT(30)
  <2>10. r[m].net = r[m-1].net + deltas[m].amount
    BY <2>7 DEF Applied
  <2>11. r[m-1].net \in Int /\ deltas[m].amount \in Int
    BY <2>6 DEF Tables, Delta
  <2>12. Total(r[m].table) = Total(bal) + r[m].net
    BY <1>0, <2>5, <2>9, <2>10, <2>11
  <2> QED BY <2>1, <2>9, <2>12
<1>4. Bad = {}
  <2>1. Bad \in SUBSET Nat
    BY <1>0
  <2> HIDE DEF Bad
  <2> QED BY <1>3, <2>1, LeastNatural
<1>5. Holds(n)
  <2> HIDE DEF Holds
  <2> QED BY <1>4
<1> QED
  BY <1>5 DEF r

\* Deltas that overdraw no account and net to zero leave the total as it was.
LEMMA ConservingOutcome ==
  ASSUME NEW A, IsFiniteSet(A), NEW bal \in [A -> Nat], NEW deltas \in Seq(Delta(A)),
         ~ Overdraws(bal, deltas), Outcome(bal, deltas).net = 0
  PROVE  /\ Outcome(bal, deltas).table \in [A -> Nat]
         /\ Total(Outcome(bal, deltas).table) = Total(bal)
<1>1. Len(deltas) \in 0..Len(deltas) /\ Total(bal) \in Nat
  BY UnitsFinite
<1> QED
  BY <1>1, RunningTotal DEF Outcome

-----------------------------------------------------------------------------
\* Induction up to a bound, on a set.
LEMMA UpTo ==
  ASSUME NEW N \in Nat, NEW S, 0 \in S, \A i \in 1..N : i - 1 \in S => i \in S
  PROVE  \A i \in 0..N : i \in S
<1> DEFINE Bad == {k \in 0..N : k \notin S}
<1>1. ASSUME NEW m \in Bad, \A k \in Bad : m <= k PROVE FALSE
  <2>1. m \in 0..N /\ m \notin S /\ m # 0
    OBVIOUS
  <2>2. m \in 1..N /\ m - 1 \in 0..N /\ ~ (m <= m - 1)
    BY <2>1
  <2>3. m - 1 \notin Bad
    <3> HIDE DEF Bad
    <3> QED BY <1>1, <2>2
  <2>4. m - 1 \in S
    BY <2>2, <2>3
  <2> QED BY <2>1, <2>2, <2>4
<1>2. Bad \in SUBSET Nat
  OBVIOUS
<1>3. Bad = {}
  <2> HIDE DEF Bad
  <2> QED BY <1>1, <1>2, LeastNatural
<1> QED
  BY <1>3

\* What one delta makes of one account's amount.
LEMMA RunningStep ==
  ASSUME NEW A, NEW bal \in [A -> Int], NEW deltas \in Seq(Delta(A)), NEW a \in A
  PROVE  /\ Running(bal, deltas)[0].table[a] = bal[a]
         /\ \A n \in 0..Len(deltas) : Running(bal, deltas)[n].table[a] \in Int
         /\ \A n \in 1..Len(deltas) :
              /\ deltas[n].account \in A /\ deltas[n].amount \in Int
              /\ Running(bal, deltas)[n].table[a]
                   = IF a = deltas[n].account THEN Running(bal, deltas)[n-1].table[a] + deltas[n].amount
                                              ELSE Running(bal, deltas)[n-1].table[a]
<1> DEFINE r == Running(bal, deltas)
<1>0. Len(deltas) \in Nat
  OBVIOUS
<1>1. IsRunning(r, bal, deltas, Len(deltas)) /\ r \in [0..Len(deltas) -> Tables(A)]
  BY <1>0, RunningDef, RunningType
<1> HIDE DEF r
<1>2. r[0].table[a] = bal[a]
  BY <1>1 DEF IsRunning
<1>3. \A n \in 0..Len(deltas) : r[n] \in Tables(A) /\ r[n].table[a] \in Int
  BY <1>1 DEF Tables
<1>4. ASSUME NEW n \in 1..Len(deltas)
      PROVE  /\ deltas[n].account \in A /\ deltas[n].amount \in Int
             /\ r[n].table[a] = IF a = deltas[n].account THEN r[n-1].table[a] + deltas[n].amount
                                                         ELSE r[n-1].table[a]
  <2>1. n - 1 \in 0..Len(deltas) /\ deltas[n] \in Delta(A)
    BY <1>0
  <2>2. r[n] = Applied(r[n-1], deltas[n])
    BY <1>1 DEF IsRunning
  <2>3. r[n-1] \in Tables(A) /\ r[n-1].table \in [A -> Int]
    BY <1>3, <2>1 DEF Tables
  <2>4. Applied(r[n-1], deltas[n]).table
          = [r[n-1].table EXCEPT ![deltas[n].account] = r[n-1].table[deltas[n].account] + deltas[n].amount]
    BY DEF Applied
  <2> QED BY <2>1, <2>2, <2>3, <2>4 DEF Delta
<1> QED
  BY <1>2, <1>3, <1>4 DEF r

\* Deltas of different accounts.
Apart(deltas) == \A i, j \in DOMAIN deltas : deltas[i].account = deltas[j].account => i = j

\* If no account has two deltas, the outcome is the same in any order: each delta adds its amount to its
\* account, and an account without a delta keeps what it has.
LEMMA RunningApart ==
  ASSUME NEW A, NEW bal \in [A -> Int], NEW deltas \in Seq(Delta(A)), Apart(deltas), NEW a \in A
  PROVE  /\ \A i \in 1..Len(deltas) : deltas[i].account = a =>
              \A n \in i..Len(deltas) : Running(bal, deltas)[n].table[a] = bal[a] + deltas[i].amount
         /\ (\A i \in 1..Len(deltas) : deltas[i].account # a) =>
              \A n \in 0..Len(deltas) : Running(bal, deltas)[n].table[a] = bal[a]
<1> DEFINE t(n) == Running(bal, deltas)[n].table[a]
           N == Len(deltas)
           Kept(n) == /\ \A i \in 1..N : deltas[i].account = a /\ i <= n => t(n) = bal[a] + deltas[i].amount
                      /\ (\A i \in 1..N : deltas[i].account = a => i > n) => t(n) = bal[a]
           S == {n \in 0..N : Kept(n)}
<1>0. N \in Nat /\ DOMAIN deltas = 1..N
  OBVIOUS
<1>1. /\ t(0) = bal[a] /\ bal[a] \in Int
      /\ \A n \in 1..N : /\ deltas[n].amount \in Int /\ t(n-1) \in Int
                         /\ t(n) = IF a = deltas[n].account THEN t(n-1) + deltas[n].amount ELSE t(n-1)
  <2>1. \A n \in 1..N : n - 1 \in 0..N
    BY <1>0
  <2> QED BY <2>1, RunningStep
<1> HIDE DEF t, N
<1>2. 0 \in S
  BY <1>0, <1>1
<1>3. ASSUME NEW n \in 1..N, n - 1 \in S PROVE n \in S
  <2>1. Kept(n-1)
    BY <1>3
  <2>2. n \in 0..N /\ \A i \in 1..N : (i <= n <=> i <= n - 1 \/ i = n) /\ (i > n <=> i > n - 1 /\ i # n)
    BY <1>0
  <2>3. CASE deltas[n].account = a
    <3>1. \A i \in 1..N : deltas[i].account = a => i = n
      BY <1>0, <2>3 DEF Apart
    <3>2. n > n - 1 /\ \A i \in 1..N : deltas[i].account = a => i > n - 1
      BY <3>1
    <3>3. t(n-1) = bal[a]
      BY <2>1, <3>2
    <3>4. t(n) = bal[a] + deltas[n].amount
      BY <1>1, <2>3, <3>3
    <3>5. Kept(n)
      BY <2>2, <2>3, <3>1, <3>4
    <3> QED BY <2>2, <3>5
  <2>4. CASE deltas[n].account # a
    <3>1. t(n) = t(n-1)
      BY <1>1, <2>4
    <3>2. Kept(n)
      BY <2>1, <2>2, <2>4, <3>1
    <3> QED BY <2>2, <3>2
  <2> QED BY <2>3, <2>4
<1>4. \A n \in 0..N : Kept(n)
  <2>1. \A n \in 0..N : n \in S
    <3> HIDE DEF S
    <3> QED BY <1>0, <1>2, <1>3, UpTo
  <2> QED BY <2>1
<1>5. ASSUME NEW i \in 1..N, deltas[i].account = a, NEW n \in i..N
      PROVE  t(n) = bal[a] + deltas[i].amount
  BY <1>0, <1>4, <1>5
<1>6. ASSUME \A i \in 1..N : deltas[i].account # a, NEW n \in 0..N PROVE t(n) = bal[a]
  BY <1>4, <1>6
<1> QED
  BY <1>5, <1>6 DEF t, N

\* c describes what the deltas make of one account's amount.
IsColumn(c, bal, deltas, a) ==
    /\ \A n \in 0..Len(deltas) : c[n] = Running(bal, deltas)[n].table[a]
    /\ \A n \in 1..Len(deltas) :
         /\ deltas[n].amount \in Int
         /\ c[n] = IF a = deltas[n].account THEN c[n-1] + deltas[n].amount ELSE c[n-1]

\* Every account has such a description.
LEMMA RunningColumn ==
  ASSUME NEW A, NEW bal \in [A -> Int], NEW deltas \in Seq(Delta(A)), NEW a \in A
  PROVE  \E c \in [0..Len(deltas) -> Int] : IsColumn(c, bal, deltas, a)
<1> DEFINE t(n) == Running(bal, deltas)[n].table[a]
           c == [n \in 0..Len(deltas) |-> t(n)]
<1>1. /\ \A n \in 0..Len(deltas) : t(n) \in Int
      /\ \A n \in 1..Len(deltas) : /\ deltas[n].amount \in Int
                                   /\ t(n) = IF a = deltas[n].account THEN t(n-1) + deltas[n].amount ELSE t(n-1)
  BY RunningStep
<1>2. \A n : t(n) = Running(bal, deltas)[n].table[a]
  OBVIOUS
<1> HIDE DEF t
<1>3. c \in [0..Len(deltas) -> Int]
  BY <1>1
<1>4. \A n \in 0..Len(deltas) : c[n] = t(n)
  OBVIOUS
<1>5. \A n \in 1..Len(deltas) : n \in 0..Len(deltas) /\ n - 1 \in 0..Len(deltas)
  OBVIOUS
<1> HIDE DEF c
<1>6. IsColumn(c, bal, deltas, a)
  BY <1>1, <1>2, <1>4, <1>5 DEF IsColumn
<1> QED
  BY <1>3, <1>6

\* From the m-th to the (m+N)-th of the deltas on a table of the accounts A, g moves as the account a does.
Follows(g, A, bal, deltas, a, m, N) ==
    /\ bal \in [A -> Int] /\ deltas \in Seq(Delta(A)) /\ a \in A
    /\ m \in Nat /\ N \in Nat /\ m + N <= Len(deltas)
    /\ g \in [0..N -> Int]
    /\ \A k \in 1..N : g[k] = g[k-1] + IF deltas[m+k].account = a THEN deltas[m+k].amount ELSE 0

\* A stretch of the deltas moves an account's amount as g does when every delta of the stretch does.
LEMMA RunningStretch ==
  ASSUME NEW A, NEW bal, NEW deltas, NEW a, NEW m, NEW N, NEW g, Follows(g, A, bal, deltas, a, m, N)
  PROVE  Running(bal, deltas)[m+N].table[a] = Running(bal, deltas)[m].table[a] + g[N] - g[0]
<1> SUFFICES ASSUME bal \in [A -> Int], deltas \in Seq(Delta(A)), a \in A,
                    m \in Nat, N \in Nat, m + N <= Len(deltas), g \in [0..N -> Int],
                    \A k \in 1..N : g[k] = g[k-1] + IF deltas[m+k].account = a THEN deltas[m+k].amount ELSE 0
             PROVE  Running(bal, deltas)[m+N].table[a] = Running(bal, deltas)[m].table[a] + g[N] - g[0]
  BY DEF Follows
<1> DEFINE t(n) == Running(bal, deltas)[n].table[a]
           S == {k \in 0..N : t(m+k) = t(m) + g[k] - g[0]}
<1>0. Len(deltas) \in Nat
  OBVIOUS
<1>1. /\ \A n \in 0..Len(deltas) : t(n) \in Int
      /\ \A n \in 1..Len(deltas) : /\ deltas[n].amount \in Int
                                   /\ t(n) = IF a = deltas[n].account THEN t(n-1) + deltas[n].amount ELSE t(n-1)
  <2>1. PICK c \in [0..Len(deltas) -> Int] : IsColumn(c, bal, deltas, a)
    BY RunningColumn
  <2>2. \A n : t(n) = Running(bal, deltas)[n].table[a]
    OBVIOUS
  <2> HIDE DEF t
  <2>3. \A n \in 0..Len(deltas) : c[n] = t(n) /\ c[n] \in Int
    BY <2>1, <2>2 DEF IsColumn
  <2>4. \A n \in 1..Len(deltas) : n \in 0..Len(deltas) /\ n - 1 \in 0..Len(deltas)
    BY <1>0
  <2>5. \A n \in 1..Len(deltas) : /\ deltas[n].amount \in Int
                                 /\ c[n] = IF a = deltas[n].account THEN c[n-1] + deltas[n].amount ELSE c[n-1]
    BY <2>1 DEF IsColumn
  <2> QED BY <2>3, <2>4, <2>5
<1> HIDE DEF t
<1>2. 0 \in S
  <2>1. m + 0 = m /\ m \in 0..Len(deltas) /\ g[0] \in Int
    BY <1>0
  <2>2. t(m) \in Int
    BY <1>1, <2>1
  <2> QED BY <2>1, <2>2
<1>3. ASSUME NEW k \in 1..N, k - 1 \in S PROVE k \in S
  <2>1. /\ m + k \in 1..Len(deltas) /\ m + (k-1) \in 0..Len(deltas) /\ m \in 0..Len(deltas)
        /\ (m + k) - 1 = m + (k-1) /\ k \in 0..N /\ k - 1 \in 0..N
    BY <1>0
  <2>2. t(m+k) = IF a = deltas[m+k].account THEN t(m+(k-1)) + deltas[m+k].amount ELSE t(m+(k-1))
    BY <1>1, <2>1
  <2>3. deltas[m+k].amount \in Int /\ t(m) \in Int /\ t(m+(k-1)) \in Int
    BY <1>1, <2>1
  <2>4. t(m+(k-1)) = t(m) + g[k-1] - g[0]
    BY <1>3
  <2>5. g[k-1] \in Int /\ g[0] \in Int /\ g[k] \in Int
    BY <2>1
  <2>6. g[k] = g[k-1] + IF deltas[m+k].account = a THEN deltas[m+k].amount ELSE 0
    OBVIOUS
  <2>7. t(m+k) = t(m) + g[k] - g[0]
    <3> DEFINE d == deltas[m+k].amount
    <3>1. CASE deltas[m+k].account = a
      <4>1. t(m+k) = t(m+(k-1)) + d /\ g[k] = g[k-1] + d /\ d \in Int
        BY <2>2, <2>3, <2>6, <3>1
      <4> DEFINE tk == t(m+k)
                 tl == t(m+(k-1))
                 tm == t(m)
                 gk == g[k]
                 gl == g[k-1]
                 gz == g[0]
      <4>2. /\ tk = tl + d /\ gk = gl + d /\ tl = tm + gl - gz
            /\ d \in Int /\ tm \in Int /\ gl \in Int /\ gz \in Int
        BY <2>3, <2>4, <2>5, <4>1
      <4> HIDE DEF d, tk, tl, tm, gk, gl, gz
      <4>3. tk = tm + gk - gz
        BY <4>2
      <4> QED BY <4>3 DEF tk, tm, gk, gz
    <3>2. CASE deltas[m+k].account # a
      <4>1. t(m+k) = t(m+(k-1)) /\ g[k] = g[k-1] + 0
        BY <2>2, <2>6, <3>2
      <4> QED BY <2>3, <2>4, <2>5, <4>1
    <3> QED BY <3>1, <3>2
  <2> QED BY <2>1, <2>7
<1>4. \A k \in 0..N : k \in S
  <2> HIDE DEF S
  <2> QED BY <1>2, <1>3, UpTo
<1>5. N \in 0..N
  OBVIOUS
<1>6. t(m+N) = t(m) + g[N] - g[0]
  BY <1>4, <1>5
<1> QED
  BY <1>6 DEF t

\* The entries of two sequences put one behind the other.
LEMMA Joined ==
  ASSUME NEW T, NEW s \in Seq(T), NEW t \in Seq(T)
  PROVE  /\ s \o t \in Seq(T)
         /\ Len(s \o t) = Len(s) + Len(t)
         /\ \A k \in 1..Len(s) : (s \o t)[k] = s[k]
         /\ \A k \in 1..Len(t) : (s \o t)[Len(s) + k] = t[k]
<1>1. s \o t \in Seq(T) /\ Len(s \o t) = Len(s) + Len(t) /\ Len(s) \in Nat /\ Len(t) \in Nat
  OBVIOUS
<1>2. ASSUME NEW k \in 1..Len(s) PROVE (s \o t)[k] = s[k]
  OBVIOUS
<1>3. ASSUME NEW k \in 1..Len(t) PROVE (s \o t)[Len(s) + k] = t[k]
  <2>1. Len(s) + k \in 1..(Len(s) + Len(t)) /\ ~ (Len(s) + k <= Len(s)) /\ (Len(s) + k) - Len(s) = k
    BY <1>1
  <2> QED BY <2>1
<1> QED
  BY <1>1, <1>2, <1>3

\* Deltas that have at most one entry per account change an account by its entry, if it has one.
Shifted(bal, deltas, a) ==
    /\ \A i \in 1..Len(deltas) : deltas[i].account = a =>
         \A n \in i..Len(deltas) : Running(bal, deltas)[n].table[a] = bal[a] + deltas[i].amount
    /\ (\A i \in 1..Len(deltas) : deltas[i].account # a) =>
         \A n \in 0..Len(deltas) : Running(bal, deltas)[n].table[a] = bal[a]

\* So it does, from that entry on.
LEMMA RunningShift ==
  ASSUME NEW A, NEW bal \in [A -> Int], NEW deltas \in Seq(Delta(A)), Apart(deltas), NEW a \in A
  PROVE  Shifted(bal, deltas, a)
BY RunningApart DEF Shifted

-----------------------------------------------------------------------------
\* A table in which nobody has anything totals zero, and only such a table does.
LEMMA TotalZero ==
  ASSUME NEW A, IsFiniteSet(A), NEW f \in [A -> Nat]
  PROVE  Total(f) = 0 <=> \A a \in A : f[a] = 0
<1>1. ASSUME \A a \in A : f[a] = 0 PROVE Total(f) = 0
  <2>1. f = [a \in A |-> 0]
    BY <1>1
  <2> QED BY <2>1, TotalOfZeros
<1>2. ASSUME Total(f) = 0, NEW a \in A PROVE f[a] = 0
  <2>1. f[a] <= Total(f) /\ f[a] \in Nat
    BY AmountWithinTotal
  <2> QED BY <1>2, <2>1
<1> QED
  BY <1>1, <1>2

\* Two rows of amounts, one after the other.
LEMMA TotalJoin ==
  ASSUME NEW m \in Nat, NEW n \in Nat, NEW f \in [1..m -> Nat], NEW g \in [1..n -> Nat],
         NEW h \in [1..(m+n) -> Nat], \A k \in 1..m : h[k] = f[k], \A k \in 1..n : h[m+k] = g[k]
  PROVE  Total(h) = Total(f) + Total(g)
<1> DEFINE U == Units(g)
           right(c) == <<c[1] + m, c[2]>>
           S == {right(c) : c \in U}
           b == [c \in U |-> right(c)]
<1>1. IsFiniteSet(1..m) /\ IsFiniteSet(1..n) /\ 0 \in Int
  BY FS_Interval
<1>2. IsFiniteSet(Units(f)) /\ Total(f) \in Nat /\ IsFiniteSet(U) /\ Total(g) \in Nat
  BY <1>1, UnitsFinite
<1>3. \A c : c \in U => \E a \in 1..n, k \in Nat : c = <<a, k>> /\ 1 <= k /\ k <= g[a]
  BY UnitsMember
<1>4. b \in Bijection(U, S)
  <2>1. b \in [U -> S] /\ \A s \in S : \E c \in U : b[c] = s
    OBVIOUS
  <2>2. ASSUME NEW c \in U, NEW d \in U, b[c] = b[d] PROVE c = d
    <3>1. PICK a1 \in 1..n, k1 \in Nat : c = <<a1, k1>>
      BY <1>3
    <3>2. PICK a2 \in 1..n, k2 \in Nat : d = <<a2, k2>>
      BY <1>3
    <3>3. b[c] = <<a1 + m, k1>> /\ b[d] = <<a2 + m, k2>>
      BY <3>1, <3>2
    <3> QED BY <2>2, <3>1, <3>2, <3>3
  <2> HIDE DEF b, S, U
  <2> QED BY <2>1, <2>2 DEF Bijection, Injection, IsInjective, Surjection
<1>5. IsFiniteSet(S) /\ Cardinality(S) = Cardinality(U)
  <2> HIDE DEF S, U, b
  <2> QED BY <1>2, <1>4, FS_Bijection DEF ExistsBijection
<1>6. Units(h) = Units(f) \cup S
  <2>1. ASSUME NEW c \in Units(h) PROVE c \in Units(f) \cup S
    <3>1. PICK a \in 1..(m+n), k \in Nat : c = <<a, k>> /\ 1 <= k /\ k <= h[a]
      BY <2>1, UnitsMember
    <3>2. CASE a <= m
      <4>1. a \in 1..m /\ h[a] = f[a]
        BY <3>2
      <4> QED BY <3>1, <4>1, UnitsMember
    <3>3. CASE a > m
      <4>1. a - m \in 1..n /\ m + (a - m) = a /\ (a - m) + m = a
        BY <3>3
      <4>2. h[a] = g[a - m]
        BY <4>1
      <4>3. <<a - m, k>> \in U
        BY <3>1, <4>1, <4>2, UnitsMember
      <4>4. right(<<a - m, k>>) = c
        BY <3>1, <4>1
      <4> QED BY <4>3, <4>4
    <3> QED BY <3>2, <3>3
  <2>2. ASSUME NEW c \in Units(f) PROVE c \in Units(h)
    <3>1. PICK a \in 1..m, k \in Nat : c = <<a, k>> /\ 1 <= k /\ k <= f[a]
      BY <2>2, UnitsMember
    <3>2. a \in 1..(m+n) /\ h[a] = f[a]
      OBVIOUS
    <3> QED BY <3>1, <3>2, UnitsMember
  <2>3. ASSUME NEW d \in U PROVE right(d) \in Units(h)
    <3>1. PICK a \in 1..n, k \in Nat : d = <<a, k>> /\ 1 <= k /\ k <= g[a]
      BY <1>3
    <3>2. m + a \in 1..(m+n) /\ h[m+a] = g[a] /\ a + m = m + a
      OBVIOUS
    <3>3. right(d) = <<m + a, k>>
      BY <3>1, <3>2
    <3> HIDE DEF right
    <3> QED BY <3>1, <3>2, <3>3, UnitsMember
  <2> QED BY <2>1, <2>2, <2>3
<1>7. Units(f) \cap S = {}
  <2> SUFFICES ASSUME NEW c \in Units(f), NEW d \in U, c = right(d) PROVE FALSE
    OBVIOUS
  <2>1. PICK a \in 1..m, k \in Nat : c = <<a, k>>
    BY UnitsMember
  <2>2. PICK a2 \in 1..n, k2 \in Nat : d = <<a2, k2>>
    BY <1>3
  <2>3. a = a2 + m
    BY <2>1, <2>2
  <2> QED BY <2>3
<1> HIDE DEF U, S
<1>8. Cardinality(Units(f) \cup S) = Cardinality(Units(f)) + Cardinality(S) - Cardinality(Units(f) \cap S)
  BY <1>2, <1>5, FS_Union
<1>9. Cardinality(Units(f) \cap S) = 0
  BY <1>7, FS_EmptySet
<1>10. Total(h) = Total(f) + Cardinality(S)
  BY <1>2, <1>6, <1>8, <1>9, <1>5 DEF Total, U
<1> QED
  BY <1>2, <1>5, <1>10 DEF Total, U

\* r begins with x, and f gives the next from the last at every step.
Iterates(r, f, X, x, n) ==
    /\ r \in [0..n -> X] /\ r[0] = x
    /\ \A k \in 1..n : r[k] = f[<<r[k-1], k>>]

\* What is computed step by step exists.
LEMMA IterationExists ==
  ASSUME NEW X, NEW x \in X, NEW n \in Nat, NEW f \in [X \X (1..n) -> X]
  PROVE  \E r : Iterates(r, f, X, x, n)
<1> DEFINE Good(r, j) == r \in [0..n -> X] /\ r[0] = x /\ \A k \in 1..j : r[k] = f[<<r[k-1], k>>]
           T == {j \in 0..n : \E r : Good(r, j)}
<1>1. 0 \in T
  <2>1. Good([k \in 0..n |-> x], 0)
    OBVIOUS
  <2> HIDE DEF Good
  <2> QED BY <2>1
<1>2. ASSUME NEW j \in 1..n, j - 1 \in T PROVE j \in T
  <2>1. PICK r : Good(r, j - 1)
    BY <1>2
  <2>2. r \in [0..n -> X] /\ j - 1 \in 0..n /\ j \in 0..n
    BY <2>1
  <2> DEFINE q == [k \in 0..n |-> IF k = j THEN f[<<r[j-1], j>>] ELSE r[k]]
  <2>3. q \in [0..n -> X] /\ q[j] = f[<<r[j-1], j>>] /\ \A k \in 0..n : k # j => q[k] = r[k]
    BY <2>2
  <2> HIDE DEF q
  <2>4. q[0] = x
    BY <2>1, <2>3
  <2>5. ASSUME NEW k \in 1..j PROVE q[k] = f[<<q[k-1], k>>]
    <3>1. k \in 0..n /\ k - 1 \in 0..n /\ k - 1 # j
      OBVIOUS
    <3>2. q[k-1] = r[k-1]
      BY <2>3, <3>1
    <3>3. CASE k = j
      BY <2>3, <3>2, <3>3
    <3>4. CASE k # j
      <4>1. k \in 1..(j-1)
        BY <3>4
      <4> QED BY <2>1, <2>3, <3>1, <3>2, <3>4, <4>1
    <3> QED BY <3>3, <3>4
  <2>6. Good(q, j)
    BY <2>3, <2>4, <2>5
  <2> HIDE DEF Good
  <2> QED BY <2>2, <2>6
<1>3. n \in T
  <2> HIDE DEF T
  <2>1. \A j \in 0..n : j \in T
    BY <1>1, <1>2, UpTo
  <2> QED BY <2>1
<1> QED
  BY <1>3 DEF Iterates

==============================================================================
