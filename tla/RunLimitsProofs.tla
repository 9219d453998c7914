-------------------------- MODULE RunLimitsProofs --------------------------
(***************************************************************************)
(* Proofs about what a run may spend, write to and wait for: Reservations, *)
(* WorkspaceLeases and RunGraph.  For any reservations and amounts, the    *)
(* active children of a reservation keep within it.  For any runs, leases, *)
(* transfers and revocations, at most one of all the handles ever given    *)
(* out has write authority over a workspace.  For any runs and editors,    *)
(* the dependencies close no cycle, and a run that has started waited for  *)
(* all of its sources.                                                     *)
(***************************************************************************)
EXTENDS Reservations, WorkspaceLeases, RunGraph, FiniteSetTheorems,
        WellFoundedInduction, TLAPS

\* Induction, on the size of a set or on a number of hops, is by the least
\* counterexample.
LEMMA LeastNat ==
    ASSUME NEW T \in SUBSET Nat, T # {}
    PROVE  \E m \in T : \A y \in T : ~(y < m)
<1>1. PICK m \in T : \A y \in T : ~(<<y, m>> \in OpToRel(<, Nat))
  BY NatLessThanWellFounded, WFMin, Zenon
<1> QED BY <1>1, Zenon DEF OpToRel

-----------------------------------------------------------------------------
(* Sums over finite sets, as MapThenSumSet computes them.                  *)

\* The element that the sum takes first.
Pick(s) == CHOOSE x \in s : TRUE

\* g is the sum of f on each set of D, which the rest of each of its sets is in.
SumsOn(g, f, D) ==
    g = [s \in D |-> IF s = {} THEN 0 ELSE f[Pick(s)] + g[s \ {Pick(s)}]]

Small(S, n) == {s \in SUBSET S : Cardinality(s) <= n}

LEMMA Picked ==
    ASSUME NEW s, s # {} PROVE Pick(s) \in s
BY Zenon DEF Pick

\* Without the element that is picked, a set is one smaller.
LEMMA Smaller ==
    ASSUME NEW S, IsFiniteSet(S), NEW s \in SUBSET S, s # {}
    PROVE  /\ s \ {Pick(s)} \in SUBSET S
           /\ Cardinality(s) \in Nat \ {0}
           /\ Cardinality(s \ {Pick(s)}) = Cardinality(s) - 1
<1>1. IsFiniteSet(s)
  BY FS_Subset, Zenon
<1>2. Pick(s) \in s
  BY Picked, Zenon
<1>3. Cardinality(s) \in Nat /\ Cardinality(s) # 0
  BY <1>1, FS_CardinalityType, FS_EmptySet, Zenon
<1>4. Cardinality(s \ {Pick(s)}) = Cardinality(s) - 1
  BY <1>1, <1>2, FS_RemoveElement, Zenon
<1> QED BY <1>3, <1>4

\* There is such a sum on the sets of up to n elements: the smallest n without
\* one is not 0, and one for n - 1 can be extended.
LEMMA SumExists ==
    ASSUME NEW S, IsFiniteSet(S), NEW f, NEW n \in Nat
    PROVE  \E g : SumsOn(g, f, Small(S, n))
<1> DEFINE Bad == {k \in Nat : ~\E g : SumsOn(g, f, Small(S, k))}
<1> SUFFICES ASSUME n \in Bad PROVE FALSE
  BY Zenon
<1>1. PICK m \in Bad : \A y \in Bad : ~(y < m)
  BY LeastNat, Zenon
<1>2. CASE m = 0
  <2> DEFINE g == [s \in Small(S, 0) |-> 0]
  <2>1. \A s \in Small(S, 0) : s = {}
    <3> SUFFICES ASSUME NEW s \in Small(S, 0), s # {} PROVE FALSE
      BY Zenon
    <3>1. s \in SUBSET S /\ Cardinality(s) <= 0
      BY Zenon DEF Small
    <3>2. Cardinality(s) \in Nat \ {0}
      BY <3>1, Smaller, Zenon
    <3> QED BY <3>1, <3>2
  <2>2. SumsOn(g, f, Small(S, 0))
    BY <2>1, Zenon DEF SumsOn
  <2> QED BY <1>2, <2>2, Zenon
<1>3. CASE m # 0
  <2>1. m - 1 \in Nat /\ m - 1 < m
    BY <1>3
  <2>2. m - 1 \notin Bad
    BY <1>1, <2>1, Zenon
  <2>3. PICK h : SumsOn(h, f, Small(S, m - 1))
    BY <2>1, <2>2, Zenon
  <2> DEFINE g == [s \in Small(S, m) |->
                     IF s = {} THEN 0 ELSE f[Pick(s)] + h[s \ {Pick(s)}]]
  <2>4. ASSUME NEW s \in Small(S, m), s # {}
        PROVE  h[s \ {Pick(s)}] = g[s \ {Pick(s)}]
    <3> DEFINE t == s \ {Pick(s)}
    <3>1. s \in SUBSET S /\ Cardinality(s) <= m
      BY Zenon DEF Small
    <3>2. /\ t \in SUBSET S /\ Cardinality(s) \in Nat \ {0}
          /\ Cardinality(t) = Cardinality(s) - 1
      BY <2>4, <3>1, Smaller, Zenon
    <3> HIDE DEF t
    <3>3. Cardinality(t) <= m - 1 /\ Cardinality(t) <= m
      BY <3>1, <3>2
    <3>4. t \in Small(S, m - 1) /\ t \in Small(S, m)
      BY <3>2, <3>3, Zenon DEF Small
    <3>5. h[t] = IF t = {} THEN 0 ELSE f[Pick(t)] + h[t \ {Pick(t)}]
      BY <2>3, <3>4, Zenon DEF SumsOn
    <3>6. g[t] = IF t = {} THEN 0 ELSE f[Pick(t)] + h[t \ {Pick(t)}]
      BY <3>4, Zenon
    <3>7. h[t] = g[t]
      BY <3>5, <3>6, Zenon
    <3> QED BY <3>7, Zenon DEF t
  <2>5. SumsOn(g, f, Small(S, m))
    <3>1. \A s \in Small(S, m) :
            (IF s = {} THEN 0 ELSE f[Pick(s)] + h[s \ {Pick(s)}])
            = (IF s = {} THEN 0 ELSE f[Pick(s)] + g[s \ {Pick(s)}])
      BY <2>4, Zenon
    <3> QED BY <3>1, Zenon DEF SumsOn
  <2> QED BY <2>5, Zenon
<1> QED BY <1>2, <1>3, Zenon

LEMMA SumFound ==
    ASSUME NEW S, IsFiniteSet(S), NEW f
    PROVE  \E g : SumsOn(g, f, SUBSET S)
<1>1. Cardinality(S) \in Nat
  BY FS_CardinalityType, Zenon
<1>2. Small(S, Cardinality(S)) = SUBSET S
  BY FS_Subset, Zenon DEF Small
<1>3. \E g : SumsOn(g, f, Small(S, Cardinality(S)))
  BY <1>1, SumExists, Zenon
<1> QED BY <1>2, <1>3

\* g and h are sums over S and R of summands that agree on s, a set of both.
BothSum(S, f, g, R, e, h, s) ==
    /\ IsFiniteSet(S) /\ s \in SUBSET S /\ s \in SUBSET R
    /\ SumsOn(g, f, SUBSET S) /\ SumsOn(h, e, SUBSET R)
    /\ \A x \in s : f[x] = e[x]

LEMMA SumsAgree ==
    ASSUME NEW S, NEW f, NEW g, NEW R, NEW e, NEW h, NEW s,
           BothSum(S, f, g, R, e, h, s)
    PROVE  g[s] = h[s]
<1>0. /\ IsFiniteSet(S) /\ s \in SUBSET S /\ s \in SUBSET R
      /\ SumsOn(g, f, SUBSET S) /\ SumsOn(h, e, SUBSET R)
      /\ \A x \in s : f[x] = e[x]
  BY Zenon DEF BothSum
<1> DEFINE Wrong(t) == /\ t \in SUBSET R /\ \A x \in t : f[x] = e[x]
                       /\ g[t] # h[t]
           Bad == {k \in Nat : \E t \in SUBSET S : Cardinality(t) = k /\ Wrong(t)}
<1> SUFFICES ASSUME Wrong(s) PROVE FALSE
  BY <1>0, Zenon
<1>1. Cardinality(s) \in Bad
  BY <1>0, FS_Subset, FS_CardinalityType, Zenon
<1>2. PICK m \in Bad : \A y \in Bad : ~(y < m)
  BY <1>1, LeastNat, Zenon
<1>3. PICK t \in SUBSET S : Cardinality(t) = m /\ Wrong(t)
  BY Zenon
<1>4. /\ g[t] = IF t = {} THEN 0 ELSE f[Pick(t)] + g[t \ {Pick(t)}]
      /\ h[t] = IF t = {} THEN 0 ELSE e[Pick(t)] + h[t \ {Pick(t)}]
  BY <1>0, <1>3, Zenon DEF SumsOn
<1>5. t # {}
  BY <1>3, <1>4, Zenon
<1> DEFINE u == t \ {Pick(t)}
<1>6. /\ u \in SUBSET S /\ m \in Nat \ {0} /\ Cardinality(u) = m - 1
  BY <1>0, <1>3, <1>5, Smaller, Zenon
<1>7. g[u] # h[u]
  BY <1>3, <1>4, <1>5, Picked, Zenon
<1>8. Wrong(u)
  BY <1>3, <1>7, Zenon
<1>9. m - 1 \in Nat /\ m - 1 < m
  BY <1>6
<1>10. m - 1 \in Bad
  BY <1>6, <1>8, <1>9, Zenon
<1> QED BY <1>2, <1>9, <1>10, Zenon

\* g is the sum over S of natural summands f.
NaturalSum(g, f, S) ==
    IsFiniteSet(S) /\ SumsOn(g, f, SUBSET S) /\ \A x \in S : f[x] \in Nat

\* The sum of naturals is one, and may be taken in any order.
LEMMA SumSplits ==
    ASSUME NEW S, NEW f, NEW g, NaturalSum(g, f, S), NEW s \in SUBSET S
    PROVE  g[s] \in Nat /\ \A x \in s : g[s] = f[x] + g[s \ {x}]
<1>0. IsFiniteSet(S) /\ SumsOn(g, f, SUBSET S) /\ \A x \in S : f[x] \in Nat
  BY Zenon DEF NaturalSum
<1> DEFINE Good(t) == g[t] \in Nat /\ \A x \in t : g[t] = f[x] + g[t \ {x}]
           Bad == {k \in Nat : \E t \in SUBSET S : Cardinality(t) = k /\ ~Good(t)}
<1> SUFFICES ASSUME ~Good(s) PROVE FALSE
  BY Zenon
<1>1. Cardinality(s) \in Bad
  BY <1>0, FS_Subset, FS_CardinalityType, Zenon
<1>2. PICK m \in Bad : \A y \in Bad : ~(y < m)
  BY <1>1, LeastNat, Zenon
<1>3. PICK t \in SUBSET S : Cardinality(t) = m /\ ~Good(t)
  BY Zenon
<1>4. g[t] = IF t = {} THEN 0 ELSE f[Pick(t)] + g[t \ {Pick(t)}]
  BY <1>0, <1>3, Zenon DEF SumsOn
<1>5. t # {}
  <2>1. 0 \in Nat
    OBVIOUS
  <2> QED BY <1>3, <1>4, <2>1, Zenon
<1>6. IsFiniteSet(t) /\ m \in Nat
  BY <1>0, <1>3, FS_Subset, Zenon
<1>7. ASSUME NEW x \in t PROVE Good(t \ {x}) /\ f[x] \in Nat
  <2>1. Cardinality(t \ {x}) = m - 1 /\ m # 0
    BY <1>3, <1>5, <1>6, FS_RemoveElement, FS_EmptySet, Zenon
  <2>2. m - 1 \in Nat /\ m - 1 < m
    BY <1>6, <2>1
  <2>3. m - 1 \notin Bad
    BY <1>2, <2>2, Zenon
  <2> QED BY <1>0, <1>3, <2>1, <2>2, <2>3, Zenon
<1> DEFINE y == Pick(t)
<1>8. y \in t /\ g[t] = f[y] + g[t \ {y}]
  BY <1>4, <1>5, Picked, Zenon
<1> HIDE DEF y
<1>9. Good(t \ {y}) /\ f[y] \in Nat
  BY <1>7, <1>8, Zenon
<1>10. g[t] \in Nat
  BY <1>8, <1>9
<1>11. ASSUME NEW x \in t PROVE g[t] = f[x] + g[t \ {x}]
  <2>1. CASE x = y
    BY <1>8, <2>1, Zenon
  <2>2. CASE x # y
    <3>1. /\ x \in t \ {y} /\ y \in t \ {x}
          /\ (t \ {y}) \ {x} = (t \ {x}) \ {y}
      BY <1>8, <2>2, Zenon
    <3> DEFINE r == g[(t \ {x}) \ {y}]
    <3>2. /\ g[t \ {y}] = f[x] + r /\ g[t \ {x}] = f[y] + r
          /\ f[x] \in Nat /\ g[t \ {x}] \in Nat /\ g[t \ {y}] \in Nat
      BY <1>7, <1>9, <3>1, Zenon
    <3>3. r \in Nat
      <4>1. Good(t \ {x})
        BY <1>7, Zenon
      <4>2. Cardinality((t \ {x}) \ {y}) = m - 2 /\ m - 2 \in Nat /\ m - 2 < m
        <5>1. Cardinality(t \ {x}) = m - 1 /\ IsFiniteSet(t \ {x})
          BY <1>3, <1>6, FS_RemoveElement, Zenon
        <5>2. Cardinality((t \ {x}) \ {y}) = Cardinality(t \ {x}) - 1 /\ IsFiniteSet((t \ {x}) \ {y})
          BY <3>1, <5>1, FS_RemoveElement, Zenon
        <5>3. Cardinality((t \ {x}) \ {y}) \in Nat
          BY <5>2, FS_CardinalityType, Zenon
        <5> QED BY <1>6, <5>1, <5>2, <5>3
      <4>3. m - 2 \notin Bad
        BY <1>2, <4>2, Zenon
      <4> QED BY <1>3, <4>2, <4>3, Zenon
    <3> HIDE DEF r
    <3> QED BY <1>8, <1>9, <3>2, <3>3
  <2> QED BY <2>1, <2>2, Zenon
<1> QED BY <1>3, <1>10, <1>11, Zenon

-----------------------------------------------------------------------------
(* Budgets.                                                                *)

Tables == [Ids -> Row \cup {None}]

\* The active children of p in table t that share its unit, and their amounts.
Owed(t, p) == {i \in Ids : /\ t[i] # None /\ t[i].parent = p
                           /\ t[i].state \in ACTIVE /\ t[i].unit = t[p].unit}
Amounts(t) == [i \in Ids |-> IF t[i] = None THEN 0 ELSE t[i].amount]

\* Delegated, for any table.
DelegatedIn(t, p) ==
    (CHOOSE g : g = [s \in SUBSET Owed(t, p) |->
                       IF s = {} THEN 0 ELSE t[Pick(s)].amount + g[s \ {Pick(s)}]])[Owed(t, p)]

\* The sum of the amounts of each set of reservations.
Total(t) == CHOOSE g : SumsOn(g, Amounts(t), SUBSET Ids)

LEMMA TotalSums ==
    ASSUME NEW t \in Tables
    PROVE  /\ SumsOn(Total(t), Amounts(t), SUBSET Ids)
           /\ \A i \in Ids : Amounts(t)[i] \in Nat
<1>1. SumsOn(Total(t), Amounts(t), SUBSET Ids)
  BY SumFound, BudgetAssumption, Zenon DEF Total
<1>2. \A i \in Ids : Amounts(t)[i] \in Nat
  BY BudgetAssumption DEF Tables, Amounts, Row
<1> QED BY <1>1, <1>2, Zenon

LEMMA DelegatedTotal ==
    ASSUME NEW t \in Tables, NEW p
    PROVE  DelegatedIn(t, p) = Total(t)[Owed(t, p)]
<1> DEFINE O == Owed(t, p)
           Is(g) == g = [s \in SUBSET O |->
                           IF s = {} THEN 0 ELSE t[Pick(s)].amount + g[s \ {Pick(s)}]]
           h == CHOOSE g : Is(g)
<1>1. O \in SUBSET Ids /\ IsFiniteSet(O)
  BY FS_Subset, BudgetAssumption, Zenon DEF Owed
<1>2. \A x \in O : Amounts(t)[x] = t[x].amount
  BY Zenon DEF Amounts, Owed
<1> HIDE DEF O
<1>3. \A s \in SUBSET O : s # {} => Pick(s) \in O
  BY Picked, Zenon
<1>4. \A g : SumsOn(g, Amounts(t), SUBSET O) <=> Is(g)
  <2> SUFFICES ASSUME NEW g PROVE SumsOn(g, Amounts(t), SUBSET O) <=> Is(g)
    BY Zenon
  <2>1. \A s \in SUBSET O :
          (IF s = {} THEN 0 ELSE Amounts(t)[Pick(s)] + g[s \ {Pick(s)}])
          = (IF s = {} THEN 0 ELSE t[Pick(s)].amount + g[s \ {Pick(s)}])
    BY <1>2, <1>3, Zenon
  <2>2. [s \in SUBSET O |-> IF s = {} THEN 0 ELSE Amounts(t)[Pick(s)] + g[s \ {Pick(s)}]]
        = [s \in SUBSET O |-> IF s = {} THEN 0 ELSE t[Pick(s)].amount + g[s \ {Pick(s)}]]
    BY <2>1, Zenon
  <2> QED BY <2>2, Zenon DEF SumsOn
<1>5. Is(h)
  BY <1>1, <1>4, SumFound, Zenon
<1>6. SumsOn(h, Amounts(t), SUBSET O)
  BY <1>4, <1>5, Zenon
<1>7. DelegatedIn(t, p) = h[O]
  BY Zenon DEF DelegatedIn, O
<1> HIDE DEF h
<1>8. h[O] = Total(t)[O]
  <2>1. BothSum(O, Amounts(t), h, Ids, Amounts(t), Total(t), O)
    BY <1>1, <1>6, TotalSums, Zenon DEF BothSum
  <2> QED BY ONLY <2>1, SumsAgree, SMT
<1> QED BY <1>7, <1>8, Zenon DEF O

LEMMA DelegatedIs ==
    ASSUME NEW p
    PROVE  Delegated(p) = DelegatedIn(rsv, p) /\ Delegated(p)' = DelegatedIn(rsv', p)
<1>1. /\ {i \in Children(p) : rsv[i].state \in ACTIVE /\ rsv[i].unit = rsv[p].unit}
         = Owed(rsv, p)
      /\ {i \in Children(p)' : rsv'[i].state \in ACTIVE /\ rsv'[i].unit = rsv'[p].unit}
         = Owed(rsv', p)
  BY Zenon DEF Children, Owed
<1>2. Delegated(p) = DelegatedIn(rsv, p)
  BY <1>1, Zenon DEF Delegated, MapThenSumSet, MapThenFoldSet, DelegatedIn, Pick
<1>3. Delegated(p)' = DelegatedIn(rsv', p)
  BY <1>1, Zenon DEF Delegated, MapThenSumSet, MapThenFoldSet, DelegatedIn, Pick
<1> QED BY <1>2, <1>3, Zenon

\* Equal amounts on a set have equal totals.
LEMMA TotalsAgree ==
    ASSUME NEW t \in Tables, NEW u \in Tables, NEW s \in SUBSET Ids,
           \A x \in s : Amounts(t)[x] = Amounts(u)[x]
    PROVE  Total(t)[s] = Total(u)[s]
<1>1. BothSum(Ids, Amounts(t), Total(t), Ids, Amounts(u), Total(u), s)
  BY TotalSums, BudgetAssumption, Zenon DEF BothSum
<1> QED BY ONLY <1>1, SumsAgree, SMT

\* The total without one reservation.
LEMMA TotalWithout ==
    ASSUME NEW t \in Tables, NEW s \in SUBSET Ids, NEW x \in s
    PROVE  /\ Total(t)[s] = Amounts(t)[x] + Total(t)[s \ {x}]
           /\ Amounts(t)[x] \in Nat /\ Total(t)[s] \in Nat /\ Total(t)[s \ {x}] \in Nat
<1>1. /\ NaturalSum(Total(t), Amounts(t), Ids) /\ Amounts(t)[x] \in Nat
      /\ s \in SUBSET Ids /\ s \ {x} \in SUBSET Ids
  BY TotalSums, BudgetAssumption, Zenon DEF NaturalSum
<1>2. Total(t)[s] = Amounts(t)[x] + Total(t)[s \ {x}]
  <2>1. \A y \in s : Total(t)[s] = Amounts(t)[y] + Total(t)[s \ {y}]
    BY <1>1, SumSplits
  <2> QED BY <2>1, Zenon
<1>3. Total(t)[s] \in Nat
  BY <1>1, SumSplits, Zenon
<1>4. Total(t)[s \ {x}] \in Nat
  BY <1>1, SumSplits, Zenon
<1> QED BY <1>1, <1>2, <1>3, <1>4, Zenon

\* A child's parent is in the table.
ParentInv ==
    \A i \in Ids : rsv[i] # None /\ rsv[i].parent # None => rsv[rsv[i].parent] # None

BudgetInv == BudgetTypeOK /\ ParentInv /\ BudgetHeld

LEMMA BudgetInvInit == BudgetInit => BudgetInv
BY Zenon DEF BudgetInit, BudgetInv, BudgetTypeOK, ParentInv, BudgetHeld

LEMMA ReserveStep ==
    ASSUME BudgetInv, NEW i \in Ids, NEW u \in Units, NEW a \in 0..MaxAmount,
           NEW p \in Ids \cup {None}, NEW t \in 0..MaxToken, reserve(i, u, a, p, t)
    PROVE  BudgetInv'
<1> DEFINE row == [unit |-> u, amount |-> a, parent |-> p, token |-> t,
                   state |-> "Reserved"]
<1>1. /\ a > 0 /\ rsv[i] = None /\ (p # None => check_parent_budget(p, u, a))
      /\ rsv' = [rsv EXCEPT ![i] = row]
      /\ rsv \in Tables
  BY Zenon DEF reserve, BudgetInv, BudgetTypeOK, Tables
<1>2. a \in 1..MaxAmount /\ a \in Nat
  BY <1>1, BudgetAssumption
<1>3. /\ row \in Row /\ row # None
      /\ row.unit = u /\ row.amount = a /\ row.parent = p /\ row.state \in ACTIVE
  <2>1. row \in Row
    BY <1>2 DEF Row, States
  <2>2. row.unit = u /\ row.amount = a /\ row.parent = p /\ row.state \in ACTIVE
    BY DEF ACTIVE
  <2> QED BY <2>1, <2>2, BudgetAssumption, Zenon
<1> HIDE DEF row
<1>4. /\ rsv' \in Tables /\ rsv'[i] = row
      /\ \A x \in Ids : x # i => rsv'[x] = rsv[x]
  BY <1>1, <1>3, Zenon DEF Tables
<1>5. p # None => p \in Ids /\ p # i /\ rsv[p] # None
  BY <1>1, Zenon DEF check_parent_budget
<1>6. ParentInv'
  <2> SUFFICES ASSUME NEW x \in Ids, rsv'[x] # None, rsv'[x].parent # None
               PROVE  rsv'[rsv'[x].parent] # None
    BY Zenon DEF ParentInv
  <2>1. CASE x = i
    BY <1>3, <1>4, <1>5, <2>1, Zenon
  <2>2. CASE x # i
    <3>1. rsv'[x] = rsv[x] /\ rsv[x] \in Row
      BY <1>1, <1>4, <2>2, Zenon DEF Tables
    <3>2. rsv[x].parent \in Ids \cup {None}
      BY <3>1 DEF Row
    <3>3. rsv[rsv[x].parent] # None
      BY <3>1, Zenon DEF BudgetInv, ParentInv
    <3> QED BY <1>3, <1>4, <3>1, <3>2, <3>3, Zenon
  <2> QED BY <2>1, <2>2, Zenon
<1>7. ASSUME NEW q \in Ids, rsv'[q] # None
      PROVE  Total(rsv')[Owed(rsv', q)] <= rsv'[q].amount
  <2>1. ASSUME NEW x \in Ids, x # i, q # i
        PROVE  x \in Owed(rsv', q) <=> x \in Owed(rsv, q)
    BY <1>4, <2>1, Zenon DEF Owed
  <2>2. i \notin Owed(rsv, q)
    BY <1>1, Zenon DEF Owed
  <2>3. \A x \in Owed(rsv, q) : Amounts(rsv)[x] = Amounts(rsv')[x]
    BY <1>4, <2>2, Zenon DEF Amounts, Owed
  <2>4. Owed(rsv, q) \in SUBSET Ids /\ Owed(rsv', q) \in SUBSET Ids
    BY Zenon DEF Owed
  <2>5. Total(rsv)[Owed(rsv, q)] = Total(rsv')[Owed(rsv, q)]
    BY <1>1, <1>4, <2>3, <2>4, TotalsAgree, Zenon
  <2>6. CASE q = i
    <3>1. Owed(rsv', i) = {}
      <4> SUFFICES ASSUME NEW x \in Ids, rsv'[x] # None, rsv'[x].parent = i PROVE FALSE
        BY Zenon DEF Owed
      <4>1. x # i
        BY <1>3, <1>4, <1>5, BudgetAssumption, Zenon
      <4> QED BY <1>1, <1>4, <4>1, BudgetAssumption, Zenon DEF BudgetInv, ParentInv
    <3>2. Total(rsv')[{}] = 0
      BY <1>4, TotalSums, Zenon DEF SumsOn
    <3>3. 0 <= a
      BY <1>2
    <3> QED BY <1>3, <1>4, <2>6, <3>1, <3>2, <3>3, Zenon
  <2>7. CASE q # i /\ q # p
    <3>1. i \notin Owed(rsv', q)
      BY <1>3, <1>4, <2>7, Zenon DEF Owed
    <3>2. Owed(rsv', q) = Owed(rsv, q)
      BY <2>1, <2>2, <2>4, <2>7, <3>1, SMT
    <3>3. Delegated(q) <= rsv[q].amount
      BY <1>4, <1>7, <2>7, Zenon DEF BudgetInv, BudgetHeld
    <3>4. Delegated(q) = Total(rsv)[Owed(rsv, q)]
      BY <1>1, DelegatedIs, DelegatedTotal, Zenon
    <3> QED BY <1>4, <2>5, <2>7, <3>2, <3>3, <3>4, Zenon
  <2>8. CASE q # i /\ q = p
    <3>1. /\ rsv[p].unit = u /\ Delegated(p) + a <= rsv[p].amount
      BY <1>1, <2>8, BudgetAssumption, Zenon DEF check_parent_budget, Fits
    <3>2. i \in Owed(rsv', q)
      BY <1>3, <1>4, <2>8, <3>1, Zenon DEF Owed
    <3>3. Owed(rsv', q) \ {i} = Owed(rsv, q)
      BY <2>1, <2>2, <2>4, <2>8, Zenon
    <3>4. Amounts(rsv')[i] = a
      BY <1>3, <1>4, Zenon DEF Amounts
    <3>5. /\ Total(rsv')[Owed(rsv', q)] = a + Total(rsv')[Owed(rsv, q)]
          /\ Total(rsv')[Owed(rsv, q)] \in Nat
      BY <1>4, <2>4, <3>2, <3>3, <3>4, TotalWithout, SMT
    <3>6. Delegated(p) = Total(rsv)[Owed(rsv, q)]
      BY <1>1, <2>8, DelegatedIs, DelegatedTotal, Zenon
    <3>7. a + Total(rsv')[Owed(rsv, q)] = Total(rsv')[Owed(rsv, q)] + a
      BY <1>2, <3>5
    <3> QED BY <1>4, <2>5, <2>8, <3>1, <3>5, <3>6, <3>7, Zenon
  <2> QED BY <2>6, <2>7, <2>8, Zenon
<1>8. BudgetHeld'
  BY <1>4, <1>7, DelegatedIs, DelegatedTotal, Zenon DEF BudgetHeld
<1> QED BY <1>4, <1>6, <1>8, Zenon DEF BudgetInv, BudgetTypeOK, Tables

\* A row moves to a state that holds no more than the one it leaves.
LEMMA RowStep ==
    ASSUME BudgetInv, NEW i \in Ids, rsv[i] # None, NEW row \in Row,
           rsv' = [rsv EXCEPT ![i] = row],
           row.unit = rsv[i].unit, row.amount = rsv[i].amount,
           row.parent = rsv[i].parent, rsv[i].state \in ACTIVE
    PROVE  BudgetInv'
<1>1. /\ rsv \in Tables /\ rsv' \in Tables /\ rsv'[i] = row /\ row # None
      /\ \A x \in Ids : x # i => rsv'[x] = rsv[x]
  <2>1. rsv \in Tables /\ row # None
    BY BudgetAssumption, Zenon DEF BudgetInv, BudgetTypeOK, Tables
  <2> QED BY <2>1, Zenon DEF Tables
<1>2. \A x \in Ids : /\ rsv'[x] = None <=> rsv[x] = None
                     /\ rsv'[x].parent = rsv[x].parent
                     /\ rsv'[x].unit = rsv[x].unit
                     /\ rsv'[x].amount = rsv[x].amount
  BY <1>1, Zenon
<1>3. ParentInv'
  <2> SUFFICES ASSUME NEW x \in Ids, rsv'[x] # None, rsv'[x].parent # None
               PROVE  rsv'[rsv'[x].parent] # None
    BY Zenon DEF ParentInv
  <2>1. rsv[x] # None /\ rsv[x] \in Row /\ rsv'[x].parent = rsv[x].parent
    BY <1>1, <1>2, Zenon DEF Tables
  <2>2. rsv[x].parent \in Ids
    BY <2>1 DEF Row
  <2> QED BY <1>2, <2>1, <2>2, Zenon DEF BudgetInv, ParentInv
<1>4. ASSUME NEW q \in Ids, rsv'[q] # None
      PROVE  Total(rsv')[Owed(rsv', q)] <= rsv'[q].amount
  <2> DEFINE O == Owed(rsv, q)
  <2>1. O \in SUBSET Ids /\ O \ {i} \in SUBSET Ids
    BY Zenon DEF Owed
  <2>2. \A x \in Ids : Amounts(rsv')[x] = Amounts(rsv)[x]
    BY <1>2, Zenon DEF Amounts
  <2>3. \A x \in Ids : x # i => (x \in Owed(rsv', q) <=> x \in O)
    BY <1>1, <1>2, Zenon DEF Owed
  <2>4. i \in Owed(rsv', q) => i \in O
    BY <1>1, <1>2, Zenon DEF Owed
  <2>5. Owed(rsv', q) \in SUBSET Ids
    BY Zenon DEF Owed
  <2>6. Delegated(q) <= rsv[q].amount /\ Delegated(q) = Total(rsv)[O] /\ rsv[q] \in Row
    <3>1. rsv[q] # None /\ rsv[q] \in Row
      BY <1>1, <1>2, <1>4, Zenon DEF Tables
    <3>2. Delegated(q) <= rsv[q].amount
      BY <3>1, Zenon DEF BudgetInv, BudgetHeld
    <3>3. Delegated(q) = Total(rsv)[O]
      BY <1>1, DelegatedIs, DelegatedTotal, Zenon
    <3> QED BY <3>1, <3>2, <3>3, Zenon
  <2> HIDE DEF O
  <2>7. CASE Owed(rsv', q) = O
    <3>1. Total(rsv')[O] = Total(rsv)[O]
      BY <1>1, <2>1, <2>2, TotalsAgree, Zenon
    <3> QED BY <1>2, <2>6, <2>7, <3>1, Zenon
  <2>8. CASE Owed(rsv', q) # O
    <3>1. i \in O /\ Owed(rsv', q) = O \ {i}
      <4>1. i \in O /\ i \notin Owed(rsv', q)
        <5> SUFFICES ASSUME i \in Owed(rsv', q) <=> i \in O PROVE FALSE
          BY <2>4, Zenon
        <5>1. \A x \in Ids : x \in Owed(rsv', q) <=> x \in O
          BY <2>3, Zenon
        <5> QED BY <2>1, <2>5, <2>8, <5>1
      <4> QED BY <2>1, <2>3, <2>5, <4>1
    <3>2. Total(rsv')[O \ {i}] = Total(rsv)[O \ {i}]
      <4>1. \A x \in O \ {i} : Amounts(rsv')[x] = Amounts(rsv)[x]
        BY <2>1, <2>2, Zenon
      <4> QED BY <1>1, <2>1, <4>1, TotalsAgree
    <3>3. /\ Total(rsv)[O] = Amounts(rsv)[i] + Total(rsv)[O \ {i}]
          /\ Amounts(rsv)[i] \in Nat /\ Total(rsv)[O] \in Nat
          /\ Total(rsv)[O \ {i}] \in Nat
      BY <1>1, <2>1, <3>1, TotalWithout, Zenon
    <3>4. rsv[q].amount \in Nat
      BY <2>6, BudgetAssumption DEF Row
    <3>5. Total(rsv)[O \ {i}] <= rsv[q].amount
      BY <2>6, <3>3, <3>4
    <3> QED BY <1>2, <3>1, <3>2, <3>5, Zenon
  <2> QED BY <2>7, <2>8, Zenon
<1>5. BudgetHeld'
  <2>1. \A q : Delegated(q)' = Total(rsv')[Owed(rsv', q)]
    BY <1>1, DelegatedIs, DelegatedTotal, Zenon
  <2> QED BY <1>4, <2>1, Zenon DEF BudgetHeld
<1> QED BY <1>1, <1>3, <1>5, Zenon DEF BudgetInv, BudgetTypeOK, Tables

\* The rows that cas_transition and recover_unknown write.
LEMMA CasStep ==
    ASSUME BudgetInv, NEW i \in Ids, NEW s \in {"Reserved", "Allocated"}, NEW to \in States,
           cas_transition(i, s, to)
    PROVE  BudgetInv'
<1>1. /\ rsv[i] # None /\ rsv[i].state = s /\ rsv' = [rsv EXCEPT ![i].state = to]
      /\ rsv[i] \in Row
  BY Zenon DEF cas_transition, BudgetInv, BudgetTypeOK
<1> DEFINE row == [rsv[i] EXCEPT !.state = to]
<1>2. /\ row \in Row /\ row.unit = rsv[i].unit /\ row.amount = rsv[i].amount
      /\ row.parent = rsv[i].parent /\ rsv' = [rsv EXCEPT ![i] = row]
  BY <1>1 DEF Row
<1>3. rsv[i].state \in ACTIVE
  BY <1>1, Zenon DEF ACTIVE
<1> HIDE DEF row
<1> QED BY <1>1, <1>2, <1>3, RowStep, Zenon

LEMMA RecoverStep ==
    ASSUME BudgetInv, NEW i \in Ids, NEW t \in 0..MaxToken, recover_unknown(i, t)
    PROVE  BudgetInv'
<1>1. /\ rsv[i] # None /\ rsv[i].state = "Unknown" /\ rsv[i] \in Row
      /\ rsv' = [rsv EXCEPT ![i].state = "Allocated", ![i].token = t]
  BY Zenon DEF recover_unknown, BudgetInv, BudgetTypeOK
<1> DEFINE row == [rsv[i] EXCEPT !.state = "Allocated", !.token = t]
<1>2. /\ row \in Row /\ row.unit = rsv[i].unit /\ row.amount = rsv[i].amount
      /\ row.parent = rsv[i].parent
  BY <1>1 DEF Row, States
<1>3. rsv' = [rsv EXCEPT ![i] = row]
  BY <1>1 DEF BudgetInv, BudgetTypeOK
<1>4. rsv[i].state \in ACTIVE
  BY <1>1, Zenon DEF ACTIVE
<1> HIDE DEF row
<1> QED BY <1>1, <1>2, <1>3, <1>4, RowStep, Zenon

LEMMA BudgetStep ==
    ASSUME BudgetInv, [BudgetNext]_rsv
    PROVE  BudgetInv'
<1>1. ASSUME NEW i \in Ids, NEW u \in Units, NEW a \in 0..MaxAmount,
             NEW p \in Ids \cup {None}, NEW t \in 0..MaxToken, reserve(i, u, a, p, t)
      PROVE  BudgetInv'
  BY <1>1, ReserveStep, Zenon
<1>2. ASSUME NEW i \in Ids, NEW t \in 0..MaxToken, allocate(i, t) \/ release(i, t)
      PROVE  BudgetInv'
  BY <1>2, CasStep, Zenon DEF allocate, release, States
<1>3. ASSUME NEW i \in Ids, mark_unknown(i) PROVE BudgetInv'
  BY <1>3, CasStep, Zenon DEF mark_unknown, States
<1>4. ASSUME NEW i \in Ids, NEW t \in 0..MaxToken, recover_unknown(i, t) PROVE BudgetInv'
  BY <1>4, RecoverStep, Zenon
<1>5. CASE UNCHANGED rsv
  <2>1. \A p : Delegated(p)' = Delegated(p)
    BY <1>5, DelegatedIs, Zenon
  <2> QED BY <1>5, <2>1, Zenon DEF BudgetInv, BudgetTypeOK, ParentInv, BudgetHeld
<1> QED BY <1>1, <1>2, <1>3, <1>4, <1>5, Zenon DEF BudgetNext

\* For any reservations, units and amounts up to i64::MAX: what the active
\* children of a reservation hold of its unit never exceeds its amount, through
\* every order of reservations, releases, uncertain allocations and recoveries.
THEOREM BudgetsHeld == BudgetSpec => []BudgetHeld
<1>1. BudgetInv => BudgetHeld
  BY Zenon DEF BudgetInv
<1>2. BudgetInv /\ [BudgetNext]_rsv => BudgetInv'
  BY BudgetStep
<1> QED BY <1>1, <1>2, BudgetInvInit, PTL DEF BudgetSpec

-----------------------------------------------------------------------------
(* Leases: the inductive invariant.                                        *)

\* A handle names a row of its workspace, whose epoch it never runs ahead of;
\* the row's latest handle is with the row's owner.
HandleOK(h) ==
    LET l == leases[h.lease]
    IN  /\ l # None
        /\ l.ws = h.ws /\ h.epoch <= l.epoch
        /\ h.epoch = l.epoch => l.owner = h.run

\* No epoch of a lease is given out twice.
EpochsUnique ==
    \A h, k \in handles : h.lease = k.lease /\ h.epoch = k.epoch => h = k

Holds(l, w) ==
    /\ leases[l] # None /\ leases[l].ws = w
    /\ leases[l].mode = "ExclusiveWrite" /\ leases[l].active

\* What the partial unique index keeps.
IndexInv ==
    \A w \in Workspaces : \A l, m \in Leases : Holds(l, w) /\ Holds(m, w) => l = m

LeaseInv ==
    /\ LeaseTypeOK
    /\ \A h \in handles : HandleOK(h)
    /\ EpochsUnique
    /\ IndexInv
    /\ WriterAuthorised

-----------------------------------------------------------------------------
(* Leases: the steps.                                                      *)

LEMMA LeaseInvInit == ASSUME LeaseInit PROVE LeaseInv
BY DEF LeaseInit, LeaseInv, LeaseTypeOK, EpochsUnique, IndexInv, Holds, WriterAuthorised

\* A new lease: its id was free, so that no handle names it yet, and the index
\* has no other exclusive lease of the workspace.
LEMMA InsertStep ==
    ASSUME LeaseInv, writer = None, writer' = writer,
           known' \subseteq Workspaces,
           NEW l \in Leases, NEW w \in Workspaces, NEW r \in Holders, NEW m \in Modes,
           Insert(l, w, r, m)
    PROVE  /\ LeaseInv'
           /\ \A h \in handles :
                 verify_write_authority(h)' = verify_write_authority(h)
<1> DEFINE row == [ws |-> w, owner |-> r, mode |-> m, epoch |-> 1, active |-> TRUE]
           new == [lease |-> l, ws |-> w, run |-> r, epoch |-> 1]
<1>1. /\ leases[l] = None /\ handles' = handles \cup {new}
      /\ leases' = [leases EXCEPT ![l] = row]
  BY DEF Insert, Give
<1>2. row \in Lease /\ new \in Handle /\ row # None
  <2>1. 1 \in 1..MaxEpoch
    BY LeaseAssumption
  <2>2. row \in Lease /\ new \in Handle
    BY <2>1 DEF Lease, Handle
  <2> QED BY <2>2, LeaseAssumption, Zenon
<1>3. /\ row.ws = w /\ row.owner = r /\ row.epoch = 1 /\ row.mode = m
      /\ new.lease = l /\ new.ws = w /\ new.run = r /\ new.epoch = 1
  OBVIOUS
<1> HIDE DEF row, new
<1>4. LeaseTypeOK'
  BY <1>1, <1>2 DEF LeaseInv, LeaseTypeOK
<1>5. leases'[l] = row /\ \A k \in Leases \ {l} : leases'[k] = leases[k]
  BY <1>1 DEF LeaseInv, LeaseTypeOK
<1>6. \A h \in handles : h \in Handle /\ h.lease \in Leases \ {l} /\ HandleOK(h)
  BY <1>1 DEF LeaseInv, LeaseTypeOK, HandleOK, Handle
<1>7. \A h \in handles' : HandleOK(h)'
  BY <1>1, <1>2, <1>3, <1>5, <1>6 DEF HandleOK
<1>8. EpochsUnique'
  BY <1>1, <1>3, <1>6 DEF EpochsUnique, LeaseInv
<1>9. IndexInv'
  <2> SUFFICES ASSUME NEW v \in Workspaces, NEW j \in Leases, NEW k \in Leases,
                      Holds(j, v)', Holds(k, v)'
               PROVE  j = k
    BY DEF IndexInv
  <2>1. \A i \in Leases \ {l} : Holds(i, v)' => Holds(i, v)
    BY <1>5 DEF Holds
  <2>2. Holds(l, v)' => m = "ExclusiveWrite" /\ v = w
    BY <1>3, <1>5 DEF Holds
  <2>3. m = "ExclusiveWrite" => \A i \in Leases : ~Holds(i, w)
    BY DEF Insert, IndexFree, Holds
  <2> QED BY <2>1, <2>2, <2>3 DEF LeaseInv, IndexInv
<1>10. WriterAuthorised'
  BY DEF WriterAuthorised
<1>11. \A h \in handles : verify_write_authority(h)' = verify_write_authority(h)
  BY <1>5, <1>6 DEF verify_write_authority
<1> QED BY <1>4, <1>7, <1>8, <1>9, <1>10, <1>11 DEF LeaseInv

\* The owner's latest handle moves the lease to the next epoch.
LEMMA TransferStep ==
    ASSUME LeaseInv, NEW h \in handles, NEW to \in Holders,
           transfer_exclusive(h, to)
    PROVE  /\ LeaseInv'
           /\ \A k \in handles :
                 ~verify_write_authority(k) => ~verify_write_authority(k)'
<1> DEFINE l == h.lease
           old == leases[l]
           row == [old EXCEPT !.owner = to, !.epoch = h.epoch + 1]
           new == [lease |-> l, ws |-> old.ws, run |-> to, epoch |-> h.epoch + 1]
<1>1. /\ writer = None /\ writer' = None /\ known' = known
      /\ h.epoch < MaxEpoch /\ old.epoch = h.epoch
      /\ handles' = handles \cup {new}
  BY DEF transfer_exclusive, begin_write, Give
<1>2. h \in Handle /\ l \in Leases /\ h.epoch \in 1..MaxEpoch /\ HandleOK(h)
  BY DEF LeaseInv, LeaseTypeOK, Handle
<1>3. old \in Lease /\ old.ws \in Workspaces /\ old.ws = h.ws
  BY <1>2 DEF LeaseInv, LeaseTypeOK, HandleOK, Lease
<1>4. leases' = [leases EXCEPT ![l] = row]
  BY <1>2, <1>3 DEF transfer_exclusive, LeaseInv, LeaseTypeOK, Lease
<1>5. h.epoch + 1 \in 1..MaxEpoch /\ h.epoch \in Nat
  BY <1>1, <1>2, LeaseAssumption
<1>6. row \in Lease /\ new \in Handle /\ row # None
  <2>1. row \in Lease /\ new \in Handle
    BY <1>2, <1>3, <1>5, Zenon DEF Lease, Handle
  <2> QED BY <2>1, LeaseAssumption
<1>7. /\ row.ws = old.ws /\ row.owner = to /\ row.epoch = h.epoch + 1
      /\ row.mode = old.mode /\ row.active = old.active
      /\ new.lease = l /\ new.ws = old.ws /\ new.run = to
      /\ new.epoch = h.epoch + 1
  BY <1>3 DEF Lease
<1> HIDE DEF row, new
<1>8. LeaseTypeOK'
  BY <1>1, <1>4, <1>6, Zenon DEF LeaseInv, LeaseTypeOK
<1>9. leases'[l] = row /\ \A k \in Leases \ {l} : leases'[k] = leases[k]
  BY <1>2, <1>4 DEF LeaseInv, LeaseTypeOK
<1>10. \A k \in handles : /\ k \in Handle /\ k.lease \in Leases /\ HandleOK(k)
                          /\ k.epoch \in Nat
  BY LeaseAssumption DEF LeaseInv, LeaseTypeOK, Handle
<1>11. \A k \in handles : k.lease = l => k.epoch < h.epoch + 1 /\ k.ws = old.ws
  BY <1>1, <1>5, <1>10 DEF HandleOK
<1>12. \A k \in handles' : HandleOK(k)'
  <2>1. ASSUME NEW k, k = new PROVE HandleOK(k)'
    BY <1>5, <1>6, <1>7, <1>9, <2>1 DEF HandleOK
  <2>2. ASSUME NEW k \in handles PROVE HandleOK(k)'
    <3>1. CASE k.lease = l
      BY <1>5, <1>6, <1>7, <1>9, <1>10, <1>11, <3>1 DEF HandleOK
    <3>2. CASE k.lease # l
      BY <1>9, <1>10, <3>2 DEF HandleOK
    <3> QED BY <3>1, <3>2
  <2> QED BY <1>1, <2>1, <2>2
<1>13. EpochsUnique'
  <2>1. \A k \in handles : k.lease = l => k.epoch # h.epoch + 1
    BY <1>5, <1>10, <1>11
  <2> QED BY <1>1, <1>7, <2>1 DEF EpochsUnique, LeaseInv
<1>14. IndexInv'
  <2>1. \A i \in Leases, v \in Workspaces : Holds(i, v)' => Holds(i, v)
    BY <1>2, <1>7, <1>9 DEF Holds, HandleOK
  <2> QED BY <2>1 DEF LeaseInv, IndexInv
<1>15. WriterAuthorised'
  BY <1>1 DEF WriterAuthorised
<1>16. ASSUME NEW k \in handles, ~verify_write_authority(k)
       PROVE  ~verify_write_authority(k)'
  <2>1. CASE k.lease = l
    <3>1. leases'[k.lease].epoch # k.epoch
      BY <1>5, <1>7, <1>9, <1>10, <1>11, <2>1
    <3> QED BY <3>1 DEF verify_write_authority
  <2>2. CASE k.lease # l
    <3>1. leases'[k.lease] = leases[k.lease]
      BY <1>9, <1>10, <2>2
    <3> QED BY <1>16, <3>1 DEF verify_write_authority
  <2> QED BY <2>1, <2>2
<1> QED BY <1>8, <1>12, <1>13, <1>14, <1>15, <1>16 DEF LeaseInv

\* A revocation moves the lease to the next epoch and gives nobody a handle.
LEMMA RevokeStep ==
    ASSUME LeaseInv, NEW h \in handles, revoke_lease(h)
    PROVE  /\ LeaseInv'
           /\ \A k \in handles :
                 ~verify_write_authority(k) => ~verify_write_authority(k)'
<1> DEFINE l == h.lease
           old == leases[l]
           row == [old EXCEPT !.active = FALSE, !.epoch = h.epoch + 1]
<1>1. /\ writer = None /\ writer' = None /\ known' = known /\ handles' = handles
      /\ h.epoch < MaxEpoch /\ old.epoch = h.epoch
  BY DEF revoke_lease, begin_write
<1>2. h \in Handle /\ l \in Leases /\ h.epoch \in 1..MaxEpoch /\ HandleOK(h)
  BY DEF LeaseInv, LeaseTypeOK, Handle
<1>3. old \in Lease
  BY <1>2 DEF LeaseInv, LeaseTypeOK, HandleOK
<1>4. leases' = [leases EXCEPT ![l] = row]
  BY <1>2, <1>3 DEF revoke_lease, LeaseInv, LeaseTypeOK, Lease
<1>5. h.epoch + 1 \in 1..MaxEpoch /\ h.epoch \in Nat
  BY <1>1, <1>2, LeaseAssumption
<1>6. row \in Lease /\ row # None
  <2>1. row \in Lease
    BY <1>3, <1>5, Zenon DEF Lease
  <2> QED BY <2>1, LeaseAssumption
<1>7. /\ row.ws = old.ws /\ row.epoch = h.epoch + 1 /\ row.active = FALSE
  BY <1>3 DEF Lease
<1> HIDE DEF row
<1>8. LeaseTypeOK'
  BY <1>1, <1>4, <1>6, Zenon DEF LeaseInv, LeaseTypeOK
<1>9. leases'[l] = row /\ \A k \in Leases \ {l} : leases'[k] = leases[k]
  BY <1>2, <1>4 DEF LeaseInv, LeaseTypeOK
<1>10. \A k \in handles : /\ k \in Handle /\ k.lease \in Leases /\ HandleOK(k)
                          /\ k.epoch \in Nat
  BY LeaseAssumption DEF LeaseInv, LeaseTypeOK, Handle
<1>11. \A k \in handles : k.lease = l => k.epoch < h.epoch + 1 /\ k.ws = old.ws
  BY <1>1, <1>5, <1>10 DEF HandleOK
<1>12. ASSUME NEW k \in handles PROVE HandleOK(k)'
  <2>1. CASE k.lease = l
    BY <1>5, <1>6, <1>7, <1>9, <1>10, <1>11, <2>1 DEF HandleOK
  <2>2. CASE k.lease # l
    BY <1>9, <1>10, <2>2 DEF HandleOK
  <2> QED BY <2>1, <2>2
<1>13. EpochsUnique' /\ WriterAuthorised'
  BY <1>1 DEF EpochsUnique, LeaseInv, WriterAuthorised
<1>14. IndexInv'
  <2>1. \A i \in Leases, v \in Workspaces : Holds(i, v)' => Holds(i, v)
    BY <1>7, <1>9 DEF Holds
  <2> QED BY <2>1 DEF LeaseInv, IndexInv
<1>15. ASSUME NEW k \in handles, ~verify_write_authority(k)
       PROVE  ~verify_write_authority(k)'
  <2>1. CASE k.lease = l
    BY <1>7, <1>9, <2>1 DEF verify_write_authority
  <2>2. CASE k.lease # l
    <3>1. leases'[k.lease] = leases[k.lease]
      BY <1>9, <1>10, <2>2
    <3> QED BY <1>15, <3>1 DEF verify_write_authority
  <2> QED BY <2>1, <2>2
<1> QED BY <1>1, <1>8, <1>12, <1>13, <1>14, <1>15 DEF LeaseInv

\* The steps that leave the leases and the handles alone.
LEMMA OtherStep ==
    ASSUME LeaseInv,
           \/ UNCHANGED leaseVars \/ ExecEnds
           \/ \E w \in Workspaces : record_workspace(w)
           \/ \E h \in handles : exec_in_workspace(h)
    PROVE  /\ LeaseInv'
           /\ \A k \in handles :
                 verify_write_authority(k)' = verify_write_authority(k)
<1>1. UNCHANGED <<leases, handles>>
  BY DEF leaseVars, ExecEnds, record_workspace, exec_in_workspace
<1>2. LeaseTypeOK'
  BY DEF LeaseInv, LeaseTypeOK, leaseVars, ExecEnds, record_workspace, exec_in_workspace
<1>3. /\ \A h \in handles' : HandleOK(h)'
      /\ EpochsUnique' /\ IndexInv'
  BY <1>1 DEF LeaseInv, HandleOK, EpochsUnique, IndexInv, Holds
<1>4. \A h : verify_write_authority(h)' = verify_write_authority(h)
  BY <1>1 DEF verify_write_authority
<1>5. WriterAuthorised'
  BY <1>1 DEF LeaseInv, WriterAuthorised, leaseVars, ExecEnds, record_workspace,
              exec_in_workspace, verify_write_authority
<1> QED BY <1>2, <1>3, <1>4, <1>5 DEF LeaseInv

LEMMA LeaseStep ==
    ASSUME LeaseInv, [LeaseNext]_leaseVars
    PROVE  /\ LeaseInv'
           /\ \A k \in handles :
                 ~verify_write_authority(k) => ~verify_write_authority(k)'
<1>1. ASSUME NEW l \in Leases, NEW w \in Workspaces, NEW r \in Holders, NEW m \in Modes,
             NEW c \in BOOLEAN, acquire_lease(l, w, r, m, c)
      PROVE  LeaseInv' /\ \A k \in handles :
                 verify_write_authority(k)' = verify_write_authority(k)
  <2>1. /\ writer = None /\ writer' = writer /\ known' \subseteq Workspaces
        /\ Insert(l, w, r, m)
    BY <1>1 DEF acquire_lease, begin_write, LeaseInv, LeaseTypeOK
  <2> QED BY <2>1, InsertStep
<1>2. ASSUME NEW l \in Leases, NEW p \in Workspaces, NEW w \in Workspaces,
             NEW r \in Holders, NEW g \in BOOLEAN, fork_for_child(l, p, w, r, g)
      PROVE  LeaseInv' /\ \A k \in handles :
                 verify_write_authority(k)' = verify_write_authority(k)
  <2>1. /\ writer = None /\ writer' = writer /\ known' \subseteq Workspaces
        /\ Insert(l, w, r, "ExclusiveWrite") /\ "ExclusiveWrite" \in Modes
    BY <1>2 DEF fork_for_child, begin_write, LeaseInv, LeaseTypeOK, Modes
  <2> QED BY <2>1, InsertStep
<1>3. CASE \/ UNCHANGED leaseVars \/ ExecEnds
           \/ \E w \in Workspaces : record_workspace(w)
           \/ \E h \in handles : exec_in_workspace(h)
  BY <1>3, OtherStep
<1>4. CASE \E h \in handles, to \in Holders : transfer_exclusive(h, to)
  BY <1>4, TransferStep
<1>5. CASE \E h \in handles : revoke_lease(h)
  BY <1>5, RevokeStep
<1> QED BY <1>1, <1>2, <1>3, <1>4, <1>5 DEF LeaseNext

-----------------------------------------------------------------------------
(* Leases: the theorem.                                                    *)

\* Of all the handles that acquisitions, forks and transfers have ever given
\* out, at most one passes verify_write_authority for a workspace; a command
\* that exec_in_workspace has started keeps its authority to its end; and a
\* handle that verify_write_authority refuses is refused for ever, even when
\* transfers bring the lease back to the run that holds it.
THEOREM LeasesExclusive == LeaseSpec => OneAuthority
<1>1. ASSUME LeaseInv PROVE AtMostOne
  <2> SUFFICES ASSUME NEW h \in handles, NEW k \in handles, h.ws = k.ws,
                      verify_write_authority(h), verify_write_authority(k)
               PROVE  h = k
    BY DEF AtMostOne
  <2>1. /\ h \in Handle /\ h.lease \in Leases /\ h.ws \in Workspaces
        /\ k \in Handle /\ k.lease \in Leases
        /\ leases[h.lease] # None /\ leases[k.lease] # None
    BY <1>1 DEF LeaseInv, LeaseTypeOK, Handle, HandleOK
  <2>2. Holds(h.lease, h.ws) /\ Holds(k.lease, h.ws)
    BY <2>1 DEF Holds, verify_write_authority
  <2>3. h.lease = k.lease
    BY <1>1, <2>1, <2>2 DEF LeaseInv, IndexInv
  <2>4. h.epoch = k.epoch
    BY <2>3 DEF verify_write_authority
  <2> QED BY <1>1, <2>3, <2>4 DEF LeaseInv, EpochsUnique
<1>2. LeaseInv => AtMostOne /\ WriterAuthorised
  BY <1>1 DEF LeaseInv
<1>3. LeaseInit => LeaseInv
  BY LeaseInvInit
<1>4. LeaseInv /\ [LeaseNext]_leaseVars => LeaseInv'
  BY LeaseStep
<1>5. LeaseInv /\ [LeaseNext]_leaseVars =>
        [StaleStaysStale]_leaseVars
  BY LeaseStep, Zenon DEF StaleStaysStale
<1> QED BY <1>2, <1>3, <1>4, <1>5, PTL DEF LeaseSpec, OneAuthority

-----------------------------------------------------------------------------
(* The graph: the reachability check.                                      *)

\* One more hop from a set of runs.
Hop(S) == S \cup {d.target : d \in {x \in deps : x.source \in S}}

\* f[k] is what k hops lead to from r, for k up to n.
Hops(f, r, n) ==
    f = [k \in 0..n |-> IF k = 0 THEN {r} ELSE Hop(f[k - 1])]

\* There is such a function: the smallest n without one is not 0, and one for
\* n - 1 can be extended.
LEMMA HopsExist ==
    ASSUME NEW r, NEW N \in Nat
    PROVE  \E f : Hops(f, r, N)
<1> DEFINE Bad == {n \in Nat : ~ \E f : Hops(f, r, n)}
<1> SUFFICES ASSUME Bad # {} PROVE FALSE
  OBVIOUS
<1>2. PICK m \in Bad : \A y \in Bad : ~(y < m)
  BY LeastNat, Zenon
<1>3. m # 0
  <2> SUFFICES ASSUME m = 0 PROVE FALSE
    OBVIOUS
  <2> DEFINE g == [k \in 0..0 |-> {r}]
  <2>1. g = [k \in 0..0 |-> IF k = 0 THEN {r} ELSE Hop(g[k - 1])]
    OBVIOUS
  <2> QED BY <2>1, Zenon DEF Hops
<1>4. m - 1 \in Nat /\ m - 1 < m
  BY <1>3
<1>5. PICK f : Hops(f, r, m - 1)
  BY <1>2, <1>4
<1> DEFINE g == [k \in 0..m |-> IF k = m THEN Hop(f[m - 1]) ELSE f[k]]
<1>6. ASSUME NEW k \in 0..m
      PROVE  g[k] = IF k = 0 THEN {r} ELSE Hop(g[k - 1])
  <2>1. CASE k = m
    <3>1. g[k] = Hop(f[m - 1]) /\ g[m - 1] = f[m - 1]
      BY <1>4, <2>1
    <3> QED BY <1>3, <2>1, <3>1
  <2>2. CASE k # m
    <3>1. k \in 0..(m - 1) /\ g[k] = f[k]
      BY <2>2
    <3>2. k # 0 => k - 1 \in 0..m /\ k - 1 # m /\ g[k - 1] = f[k - 1]
      BY <2>2
    <3>3. f[k] = IF k = 0 THEN {r} ELSE Hop(f[k - 1])
      BY <1>5, <3>1, Zenon DEF Hops
    <3> QED BY <3>1, <3>2, <3>3
  <2> QED BY <2>1, <2>2
<1>7. Hops(g, r, m)
  <2>1. g = [k \in 0..m |-> g[k]]
    OBVIOUS
  <2> HIDE DEF g
  <2> QED BY <1>6, <2>1, Zenon DEF Hops
<1> QED BY <1>7

\* What insert_dependency looks at is N hops from r.
LEMMA ReachIsHops ==
    ASSUME NEW r
    PROVE  \E f : Hops(f, r, Cardinality(Runs)) /\ Reach(r) = f[Cardinality(Runs)]
<1> DEFINE N == Cardinality(Runs)
           within[n \in 0..N] ==
               IF n = 0 THEN {r}
               ELSE within[n - 1] \cup
                      {d.target : d \in {x \in deps : x.source \in within[n - 1]}}
<1>1. N \in Nat
  BY FS_CardinalityType, GraphAssumption
<1>2. Reach(r) = within[N]
  BY DEF Reach
<1>3. \E f : Hops(f, r, N)
  BY <1>1, HopsExist
<1>4. within = CHOOSE f : Hops(f, r, N)
  BY DEF Hops, Hop
<1> HIDE DEF within
<1>5. Hops(within, r, N)
  BY <1>3, <1>4
<1> QED BY <1>2, <1>5

\* After k hops there is nowhere new to go, or every hop found a run at least.
LEMMA HopsGrow ==
    ASSUME deps \subseteq Edge, NEW r \in Runs, NEW N \in Nat,
           NEW f, Hops(f, r, N), NEW n \in 0..N
    PROVE  /\ f[n] \subseteq Runs /\ r \in f[n] /\ IsFiniteSet(f[n])
           /\ Hop(f[n]) = f[n] \/ Cardinality(f[n]) >= n + 1
<1> DEFINE Good(k) == /\ f[k] \subseteq Runs /\ r \in f[k] /\ IsFiniteSet(f[k])
                      /\ Hop(f[k]) = f[k] \/ Cardinality(f[k]) >= k + 1
           Bad == {k \in 0..N : ~Good(k)}
<1> SUFFICES ASSUME Bad # {} PROVE FALSE
  OBVIOUS
<1>0. Bad \in SUBSET Nat
  <2> HIDE DEF Good
  <2> QED OBVIOUS
<1>1. PICK m \in Bad : \A y \in Bad : ~(y < m)
  <2> HIDE DEF Bad
  <2> QED BY <1>0, LeastNat
<1>2. \A k \in 0..N : f[k] = IF k = 0 THEN {r} ELSE Hop(f[k - 1])
  BY Zenon DEF Hops
<1>3. CASE m = 0
  <2>1. f[m] = {r}
    BY <1>2, <1>3
  <2>2. Cardinality({r}) = 1 /\ IsFiniteSet({r})
    BY FS_Singleton, Zenon
  <2>3. Good(m)
    BY <1>3, <2>1, <2>2
  <2> QED BY <2>3
<1>4. CASE m # 0
  <2> DEFINE a == f[m - 1]
             b == f[m]
  <2>1. m - 1 \in 0..N /\ m - 1 < m /\ m \in Nat
    BY <1>4
  <2>2. Good(m - 1)
    BY <1>1, <2>1
  <2>3. b = Hop(a)
    BY <1>2, <1>4
  <2>4. a \subseteq b /\ b \subseteq Runs /\ r \in b
    BY <2>2, <2>3 DEF Hop, Edge
  <2>5. IsFiniteSet(b) /\ Cardinality(b) \in Nat /\ Cardinality(a) \in Nat
    BY <2>2, <2>4, FS_Subset, FS_CardinalityType, GraphAssumption
  <2>6. CASE Hop(a) = a
    <3>1. Hop(b) = b
      BY <2>3, <2>6
    <3> QED BY <2>4, <2>5, <3>1
  <2>7. CASE Hop(a) # a
    <3>1. Cardinality(a) >= m
      BY <2>1, <2>2, <2>7
    <3>2. Cardinality(a) <= Cardinality(b) /\ Cardinality(a) # Cardinality(b)
      BY <2>3, <2>4, <2>5, <2>7, FS_Subset
    <3>3. Cardinality(b) >= m + 1
      BY <2>1, <2>5, <3>1, <3>2
    <3> QED BY <2>4, <2>5, <3>3
  <2> QED BY <2>6, <2>7
<1> QED BY <1>3, <1>4

\* The check is exact: where it stops, there is nowhere left to go.
LEMMA ReachClosed ==
    ASSUME deps \subseteq Edge, NEW r \in Runs
    PROVE  /\ r \in Reach(r)
           /\ \A d \in deps : d.source \in Reach(r) => d.target \in Reach(r)
<1> DEFINE N == Cardinality(Runs)
<1>1. N \in Nat /\ N \in 0..N
  BY FS_CardinalityType, GraphAssumption
<1>2. PICK f : Hops(f, r, N) /\ Reach(r) = f[N]
  BY ReachIsHops
<1>3. /\ f[N] \subseteq Runs /\ r \in f[N] /\ IsFiniteSet(f[N])
      /\ Hop(f[N]) = f[N] \/ Cardinality(f[N]) >= N + 1
  BY <1>1, <1>2, HopsGrow
<1>4. Cardinality(f[N]) <= N /\ Cardinality(f[N]) \in Nat
  BY <1>3, FS_Subset, FS_CardinalityType, GraphAssumption
<1>5. Hop(f[N]) = f[N]
  BY <1>1, <1>3, <1>4
<1> QED BY <1>2, <1>3, <1>5 DEF Hop

-----------------------------------------------------------------------------
(* The graph: the inductive invariant.                                     *)

\* The head's revision stands for the task's edges: it grows with them.
RevisionInv ==
    \A e \in Editors, t \in Tasks : read[e] # None /\ read[e].task = t =>
        /\ read[e].revision <= head[t]
        /\ read[e].revision = head[t] => read[e].deps = TaskDeps(t)

\* A run past Ready, unless it was cancelled, has its dependencies satisfied.
SatisfiedInv ==
    \A r \in Runs :
        state[r] \notin {"Created", "Ready", "Cancelled"} => dependencies_satisfied(r)

Types ==
    /\ state \in [Runs -> RunState]
    /\ deps \subseteq Edge
    /\ head \in [Tasks -> Nat]
    /\ read \in [Editors -> Reading \cup {None}]

GraphInv == Types /\ RevisionInv /\ SatisfiedInv /\ NoCycles

LEMMA GraphInvInit == ASSUME GraphInit PROVE GraphInv
<1>1. Types
  BY DEF GraphInit, Types, RunState
<1> QED BY <1>1 DEF GraphInit, GraphInv, RevisionInv, SatisfiedInv, NoCycles

\* A new edge from a run that its target does not reach closes no cycle.  Of a
\* set of runs, either one is not reached from the target, and then the first
\* of those has no new edge into it and none from the others; or all are, and
\* the new edge's source is not among them.
LEMMA InsertAcyclic ==
    ASSUME deps \subseteq Edge, NoCycles, NEW s \in Runs, NEW r \in Runs,
           NEW c, s \notin Reach(r),
           deps' = deps \cup {[source |-> s, target |-> r, condition |-> c]}
    PROVE  NoCycles'
<1> DEFINE new == [source |-> s, target |-> r, condition |-> c]
<1>0. new.source = s /\ new.target = r /\ deps' = deps \cup {new}
  OBVIOUS
<1> HIDE DEF new
<1>1. /\ r \in Reach(r)
      /\ \A d \in deps : d.source \in Reach(r) => d.target \in Reach(r)
  BY ReachClosed
<1> SUFFICES ASSUME NEW S \in SUBSET Runs, S # {}
             PROVE  \E x \in S : \A d \in deps' : d.target = x => d.source \notin S
  BY DEF NoCycles
<1>2. CASE S \subseteq Reach(r)
  <2>1. PICK x \in S : \A d \in deps : d.target = x => d.source \notin S
    BY DEF NoCycles
  <2> QED BY <1>0, <1>2, <2>1
<1>3. CASE ~(S \subseteq Reach(r))
  <2> DEFINE T == S \ Reach(r)
  <2>1. PICK x \in T : \A d \in deps : d.target = x => d.source \notin T
    BY <1>3, Zenon DEF NoCycles
  <2>2. \A d \in deps : d.target = x => d.source \notin S
    BY <1>1, <2>1
  <2> QED BY <1>0, <1>1, <2>1, <2>2
<1> QED BY <1>2, <1>3

-----------------------------------------------------------------------------
(* The graph: the steps.                                                   *)

LEMMA GetHeadStep ==
    ASSUME GraphInv, NEW e \in Editors, NEW t \in Tasks, get_head(e, t)
    PROVE  GraphInv' /\ deps' = deps
<1> DEFINE row == [task |-> t, revision |-> head[t], deps |-> TaskDeps(t)]
<1>1. /\ read' = [read EXCEPT ![e] = row] /\ state' = state /\ deps' = deps
      /\ head' = head /\ Types
  BY DEF get_head, GraphInv
<1>2. row \in Reading /\ head[t] \in Nat
  BY <1>1 DEF Reading, Types, TaskDeps
<1>3. row.task = t /\ row.revision = head[t] /\ row.deps = TaskDeps(t)
  OBVIOUS
<1> HIDE DEF row
<1>4. Types'
  BY <1>1, <1>2 DEF Types
<1>5. read'[e] = row /\ \A o \in Editors \ {e} : read'[o] = read[o]
  BY <1>1 DEF Types
<1>6. \A x : TaskDeps(x)' = TaskDeps(x)
  BY <1>1 DEF TaskDeps
<1>7. RevisionInv'
  BY <1>1, <1>2, <1>3, <1>5, <1>6 DEF RevisionInv, GraphInv
<1>8. SatisfiedInv' /\ NoCycles'
  BY <1>1, <1>6, Zenon DEF SatisfiedInv, NoCycles, GraphInv, dependencies_satisfied
<1> QED BY <1>1, <1>4, <1>7, <1>8 DEF GraphInv

LEMMA AddStep ==
    ASSUME GraphInv, NEW e \in Editors, NEW s \in Runs, NEW r \in Runs,
           NEW c \in EdgeConditions, add_dependency(e, s, r, c)
    PROVE  /\ GraphInv'
           /\ \A d \in deps' \ deps : /\ read[e] # None
                                      /\ read[e].task = Task[d.target]
                                      /\ read[e].deps = TaskDeps(Task[d.target])
<1> DEFINE t == Task[r]
           new == [source |-> s, target |-> r, condition |-> c]
<1>1. /\ read[e] # None /\ read[e].task = t /\ read[e].revision = head[t]
      /\ state[r] \in {"Created", "Ready"} /\ s \notin Reach(r)
      /\ deps' = deps \cup {new} /\ head' = [head EXCEPT ![t] = @ + 1]
      /\ read' = [read EXCEPT ![e] = None] /\ state' = state /\ Types
  BY DEF add_dependency, insert_dependency, is_mutable_target, GraphInv
<1>2. t \in Tasks /\ new \in Edge /\ new.source = s /\ new.target = r
  BY DEF Tasks, Edge
<1>3. NoCycles'
  BY <1>1, InsertAcyclic DEF GraphInv, Types
<1> HIDE DEF new, t
<1>4. head[t] \in Nat /\ head'[t] = head[t] + 1
      /\ \A x \in Tasks \ {t} : head'[x] = head[x]
  BY <1>1, <1>2 DEF Types
<1>5. Types'
  <2>1. deps' \subseteq Edge /\ state' = state
    BY <1>1, <1>2, Zenon DEF Types
  <2>2. head' \in [Tasks -> Nat]
    BY <1>1, <1>4 DEF Types
  <2>3. read' \in [Editors -> Reading \cup {None}]
    BY <1>1 DEF Types
  <2> QED BY <1>1, <2>1, <2>2, <2>3, Zenon DEF Types
<1>6. read'[e] = None /\ \A o \in Editors \ {e} : read'[o] = read[o]
  BY <1>1 DEF Types
<1>7. \A x \in Tasks \ {t} : TaskDeps(x)' = TaskDeps(x)
  BY <1>1, <1>2 DEF TaskDeps, t
<1>8. RevisionInv'
  <2> SUFFICES ASSUME NEW o \in Editors, NEW x \in Tasks, read'[o] # None,
                      read'[o].task = x
               PROVE  /\ read'[o].revision <= head'[x]
                      /\ read'[o].revision = head'[x] =>
                            read'[o].deps = TaskDeps(x)'
    BY DEF RevisionInv
  <2>1. read'[o] = read[o] /\ read[o] # None
    BY <1>6
  <2>2. read[o] \in Reading
    BY <1>1, <2>1 DEF Types
  <2>3. read[o].revision \in Nat
    BY <2>2 DEF Reading
  <2>4. /\ read[o].revision <= head[x]
        /\ read[o].revision = head[x] => read[o].deps = TaskDeps(x)
    BY <2>1 DEF GraphInv, RevisionInv
  <2>5. CASE x = t
    <3>1. read[o].revision <= head[t]
      BY <2>4, <2>5, Zenon
    <3>2. read[o].revision <= head[t] + 1 /\ read[o].revision # head[t] + 1
      BY <1>4, <2>3, <3>1
    <3> QED BY <1>4, <2>1, <2>5, <3>2, Zenon
  <2>6. CASE x # t
    <3>1. head'[x] = head[x] /\ TaskDeps(x)' = TaskDeps(x)
      BY <1>4, <1>7, <2>6
    <3> QED BY <2>1, <2>4, <3>1
  <2> QED BY <2>5, <2>6
<1>9. SatisfiedInv'
  <2> SUFFICES ASSUME NEW q \in Runs,
                      state[q] \notin {"Created", "Ready", "Cancelled"},
                      NEW d \in deps', Task[d.target] = Task[q], d.target = q
               PROVE  ConditionMet(d.condition, state[d.source])
    BY <1>1 DEF SatisfiedInv, dependencies_satisfied, TaskDeps
  <2>1. q # r
    BY <1>1
  <2>2. d \in deps
    BY <1>1, <1>2, <2>1
  <2> QED BY <2>2 DEF GraphInv, SatisfiedInv, dependencies_satisfied, TaskDeps
<1>10. read[e].deps = TaskDeps(t)
  BY <1>1, <1>2 DEF GraphInv, RevisionInv
<1>11. \A d \in deps' \ deps : Task[d.target] = t
  BY <1>1, <1>2 DEF t
<1> QED BY <1>1, <1>3, <1>5, <1>8, <1>9, <1>10, <1>11 DEF GraphInv

\* A run starts only with its dependencies satisfied, and a condition that is
\* met by a run that has ended stays met.
LEMMA MoveStep ==
    ASSUME GraphInv, NEW r \in Runs, claim_with_ids(r) \/ Move(r)
    PROVE  GraphInv' /\ deps' = deps
<1>1. UNCHANGED <<deps, head, read>> /\ Types
  BY DEF claim_with_ids, Move, GraphInv
<1>2. PICK to \in RunState :
          /\ state' = [state EXCEPT ![r] = to]
          /\ Allows(state[r], to)
          /\ state[r] = "Ready" /\ to = "Running" => dependencies_satisfied(r)
  <2>1. CASE claim_with_ids(r)
    BY <2>1 DEF claim_with_ids, Allows, RunState
  <2>2. CASE Move(r)
    BY <2>2, Zenon DEF Move
  <2> QED BY <2>1, <2>2
<1>3. Types' /\ state'[r] = to /\ \A q \in Runs \ {r} : state'[q] = state[q]
  BY <1>1, <1>2 DEF Types
<1>4. \A x : TaskDeps(x)' = TaskDeps(x)
  BY <1>1 DEF TaskDeps
<1>5. RevisionInv' /\ NoCycles'
  BY <1>1, <1>4, Zenon DEF GraphInv, RevisionInv, NoCycles
<1>6. \A d \in deps : d \in Edge /\ d.source \in Runs
                      /\ d.condition \in DependencyCondition
  BY <1>1, GraphAssumption DEF Types, Edge
<1>7. ASSUME NEW d \in deps, ConditionMet(d.condition, state[d.source])
      PROVE  ConditionMet(d.condition, state'[d.source])
  <2>1. CASE d.source = r
    <3>1. IsTerminal(state[r])
      BY <1>6, <1>7, <2>1, Zenon DEF ConditionMet, IsTerminal, DependencyCondition
    <3> QED BY <1>2, <3>1 DEF IsTerminal, Allows
  <2>2. CASE d.source # r
    BY <1>3, <1>6, <1>7, <2>2
  <2> QED BY <2>1, <2>2
<1>8. \A q \in Runs : dependencies_satisfied(q) => dependencies_satisfied(q)'
  BY <1>1, <1>4, <1>7 DEF dependencies_satisfied, TaskDeps
<1>9. SatisfiedInv'
  <2> SUFFICES ASSUME NEW q \in Runs,
                      state'[q] \notin {"Created", "Ready", "Cancelled"}
               PROVE  dependencies_satisfied(q)'
    BY DEF SatisfiedInv
  <2>1. CASE q # r
    BY <1>3, <1>8, <2>1 DEF GraphInv, SatisfiedInv
  <2>2. CASE q = r
    <3>1. to \notin {"Created", "Ready", "Cancelled"}
      BY <1>3, <2>2
    <3>2. \/ state[r] = "Ready" /\ to = "Running"
          \/ state[r] \notin {"Created", "Ready", "Cancelled"}
      BY <1>2, <3>1 DEF Allows
    <3> QED BY <1>2, <1>8, <2>2, <3>2 DEF GraphInv, SatisfiedInv
  <2> QED BY <2>1, <2>2
<1> QED BY <1>1, <1>3, <1>5, <1>9 DEF GraphInv

LEMMA GraphStep ==
    ASSUME GraphInv, [GraphNext]_graphVars
    PROVE  /\ GraphInv'
           /\ \A d \in deps' \ deps :
                 \E e \in Editors : /\ read[e] # None
                                    /\ read[e].task = Task[d.target]
                                    /\ read[e].deps = TaskDeps(Task[d.target])
<1>1. CASE UNCHANGED graphVars
  <2>1. state' = state /\ deps' = deps /\ head' = head /\ read' = read
    BY <1>1 DEF graphVars
  <2>2. \A x : TaskDeps(x)' = TaskDeps(x)
    BY <2>1 DEF TaskDeps
  <2> QED BY <2>1, <2>2, Zenon DEF GraphInv, Types, RevisionInv, SatisfiedInv, NoCycles,
                        dependencies_satisfied
<1>2. CASE \E e \in Editors, t \in Tasks : get_head(e, t)
  BY <1>2, GetHeadStep
<1>3. CASE \E e \in Editors, s \in Runs, r \in Runs, c \in EdgeConditions :
               add_dependency(e, s, r, c)
  BY <1>3, AddStep
<1>4. CASE \E r \in Runs : claim_with_ids(r) \/ Move(r)
  BY <1>4, MoveStep
<1> QED BY <1>1, <1>2, <1>3, <1>4 DEF GraphNext

-----------------------------------------------------------------------------
(* The graph: the theorems.                                                *)

\* However editors interleave with each other and with the runs, the
\* reachability check of insert_dependency keeps the graph without a cycle, and
\* the revision that add_dependency compares stands for the whole edge set: an
\* editor whose edge goes in has seen every edge of the task.
THEOREM NoCycle == GraphSpec => Acyclic
<1>1. GraphInv => NoCycles
  BY DEF GraphInv
<1>2. GraphInit => GraphInv
  BY GraphInvInit
<1>3. GraphInv /\ [GraphNext]_graphVars => GraphInv'
  BY GraphStep
<1>4. GraphInv /\ [GraphNext]_graphVars =>
        [NoBlindEdge]_graphVars
  BY GraphStep, Zenon DEF NoBlindEdge
<1> QED BY <1>1, <1>2, <1>3, <1>4, PTL DEF GraphSpec, Acyclic

\* A claimed run, and one that has gone on from there, had every source end
\* the way the edge's condition asks, and nothing undoes it.
THEOREM StartsSatisfied == GraphSpec => []StartedSatisfied
<1>1. GraphInv => StartedSatisfied
  BY DEF GraphInv, SatisfiedInv, StartedSatisfied
<1>2. GraphInit => GraphInv
  BY GraphInvInit
<1>3. GraphInv /\ [GraphNext]_graphVars => GraphInv'
  BY GraphStep
<1> QED BY <1>1, <1>2, <1>3, PTL DEF GraphSpec
=============================================================================
