------------------------- MODULE MessageQueueProofs -------------------------
(***************************************************************************)
(* Proofs about MessageQueue, for any messages, streams, capacity and      *)
(* tombstone cap: no accepted publication is lost or doubled, and both the *)
(* channels and the memory of published keys stay within their bounds.     *)
(***************************************************************************)
EXTENDS MessageQueue, SequenceTheorems, FiniteSetTheorems,
        WellFoundedInduction, TLAPS

-----------------------------------------------------------------------------
(* The inductive invariant.                                                *)

InUse == queued \cup Delivering(inFlight)

\* No key is handed out twice, or waits while it is handed out.
DeliveryInv ==
    /\ \A d, e \in inFlight : handed[d] = handed[e] => d = e
    /\ queued \cap Delivering(inFlight) = {}
    /\ InUse = unacked

\* Each channel has the queued keys of its stream, once.
ChannelInv ==
    \A s \in Streams :
        /\ IsInjective(pending[s])
        /\ Range(pending[s]) = {m \in queued : Stream[m] = s}

\* Every key in use is remembered: a retry of its publication is recognised.
MemoryInv == IsInjective(live) /\ InUse \subseteq Range(live)

QueueInv ==
    /\ QueueTypeOK /\ IsFiniteSet(queued) /\ IsFiniteSet(inFlight)
    /\ DeliveryInv /\ ChannelInv /\ MemoryInv /\ MemoryBounded

-----------------------------------------------------------------------------
(* Sequences.                                                              *)

LEMMA SeqParts ==
    ASSUME NEW S, NEW s \in Seq(S)
    PROVE  /\ Len(s) \in Nat /\ DOMAIN s = 1..Len(s)
           /\ \A i \in 1..Len(s) : s[i] \in S
           /\ \A x : x \in Range(s) <=> \E i \in 1..Len(s) : s[i] = x
           /\ IsInjective(s) <=> \A i, j \in 1..Len(s) : s[i] = s[j] => i = j
<1>1. Len(s) \in Nat /\ DOMAIN s = 1..Len(s) /\ \A i \in 1..Len(s) : s[i] \in S
  BY LenProperties, ElementOfSeq, Zenon
<1>2. Range(s) = {s[i] : i \in 1..Len(s)}
  BY <1>1, Zenon DEF Range
<1> QED BY <1>1, <1>2, Zenon DEF IsInjective

\* The key at the front moves to the back.
LEMMA Rotated ==
    ASSUME NEW S, NEW s \in Seq(S), Len(s) > 0
    PROVE  LET t == Append(Tail(s), Head(s))
           IN  /\ t \in Seq(S) /\ Len(t) = Len(s)
               /\ \A i \in 1..Len(s) : t[i] = IF i < Len(s) THEN s[i + 1] ELSE s[1]
<1> DEFINE u == Tail(s)
           h == Head(s)
           t == Append(u, h)
<1>1. Len(s) \in Nat /\ s # <<>> /\ h = s[1]
  BY SeqParts
<1>2. h \in S /\ u \in Seq(S) /\ Len(u) = Len(s) - 1 /\ \A i \in 1..Len(u) : u[i] = s[i + 1]
  BY <1>1, HeadTailProperties, Zenon
<1> HIDE DEF u, h
<1>3. /\ t \in Seq(S) /\ Len(t) = Len(u) + 1 /\ t[Len(u) + 1] = h
      /\ \A i \in 1..Len(u) : t[i] = u[i]
  BY <1>2, AppendProperties
<1> HIDE DEF t
<1>4. ASSUME NEW i \in 1..Len(s) PROVE t[i] = IF i < Len(s) THEN s[i + 1] ELSE s[1]
  <2>1. CASE i < Len(s)
    BY <1>1, <1>2, <1>3, <2>1
  <2>2. CASE i = Len(s)
    BY <1>1, <1>2, <1>3, <2>2
  <2> QED BY <1>1, <2>1, <2>2
<1>5. Len(t) = Len(s)
  BY <1>1, <1>2, <1>3
<1> QED BY <1>3, <1>4, <1>5, Zenon DEF t, u, h

LEMMA TailParts ==
    ASSUME NEW S, NEW s \in Seq(S), Len(s) > 0
    PROVE  /\ Tail(s) \in Seq(S) /\ Len(Tail(s)) = Len(s) - 1 /\ Head(s) = s[1]
           /\ \A i \in 1..(Len(s) - 1) : Tail(s)[i] = s[i + 1]
<1>1. Len(s) \in Nat /\ s # <<>> /\ Head(s) = s[1]
  BY SeqParts
<1>2. Tail(s) \in Seq(S) /\ Len(Tail(s)) = Len(s) - 1 /\ \A i \in 1..Len(Tail(s)) : Tail(s)[i] = s[i + 1]
  BY <1>1, HeadTailProperties, Zenon
<1> QED BY <1>1, <1>2, Zenon

-----------------------------------------------------------------------------
(* evict_tombstones.  What its loop computes is found by the least turn    *)
(* that would go wrong.                                                    *)

LEMMA LeastNat ==
    ASSUME NEW T \in SUBSET Nat, T # {}
    PROVE  \E m \in T : \A y \in T : ~(y < m)
<1>1. PICK m \in T : \A y \in T : ~(<<y, m>> \in OpToRel(<, Nat))
  BY NatLessThanWellFounded, WFMin, Zenon
<1> QED BY <1>1, Zenon DEF OpToRel

\* Turn k of the loop, with the keys of U in use.
Turn(o, k, U) ==
    IF Len(o) <= TombstoneCap \/ k > Len(o) THEN o
    ELSE IF Head(o) \in U THEN Append(Tail(o), Head(o)) ELSE Tail(o)

\* f[k] is the order after k turns, for k up to n.
Turns(f, order, U, n) ==
    f = [k \in 0..n |-> IF k = 0 THEN order ELSE Turn(f[k - 1], k, U)]

\* There is such a function: the smallest n without one is not 0, and one for
\* n - 1 can be extended.
LEMMA TurnsExist ==
    ASSUME NEW order, NEW U, NEW N \in Nat
    PROVE  \E f : Turns(f, order, U, N)
<1> DEFINE Bad == {n \in Nat : ~ \E f : Turns(f, order, U, n)}
<1> SUFFICES ASSUME Bad # {} PROVE FALSE
  BY Zenon
<1>1. Bad \in SUBSET Nat
  BY Zenon
<1>2. PICK m \in Bad : \A y \in Bad : ~(y < m)
  <2> HIDE DEF Bad
  <2> QED BY <1>1, LeastNat, Zenon
<1>3. m # 0
  <2> SUFFICES ASSUME m = 0 PROVE FALSE
    BY Zenon
  <2> DEFINE g == [k \in 0..0 |-> order]
  <2>1. g = [k \in 0..0 |-> IF k = 0 THEN order ELSE Turn(g[k - 1], k, U)]
    OBVIOUS
  <2> QED BY <2>1, Zenon DEF Turns
<1>4. m - 1 \in Nat /\ m - 1 < m
  BY <1>3
<1>5. PICK f : Turns(f, order, U, m - 1)
  BY <1>2, <1>4, Zenon
<1> DEFINE g == [k \in 0..m |-> IF k = m THEN Turn(f[m - 1], m, U) ELSE f[k]]
<1>6. ASSUME NEW k \in 0..m
      PROVE  g[k] = IF k = 0 THEN order ELSE Turn(g[k - 1], k, U)
  <2>1. CASE k = m
    <3>1. g[k] = Turn(f[m - 1], m, U) /\ g[m - 1] = f[m - 1]
      BY <1>4, <2>1
    <3> QED BY <1>3, <2>1, <3>1, Zenon
  <2>2. CASE k # m
    <3>1. k \in 0..(m - 1) /\ g[k] = f[k]
      BY <2>2
    <3>2. k # 0 => k - 1 \in 0..m /\ k - 1 # m /\ g[k - 1] = f[k - 1]
      BY <2>2
    <3>3. f[k] = IF k = 0 THEN order ELSE Turn(f[k - 1], k, U)
      BY <1>5, <3>1, Zenon DEF Turns
    <3> QED BY <3>1, <3>2, <3>3, Zenon
  <2> QED BY <2>1, <2>2, Zenon
<1>7. g = [k \in 0..m |-> IF k = 0 THEN order ELSE Turn(g[k - 1], k, U)]
  BY <1>6, Zenon
<1> QED BY <1>2, <1>7, Zenon DEF Turns

\* The turns of f lead from order to last.
Leads(f, order, U, last) ==
    /\ f[0] = order /\ f[Len(order)] = last
    /\ \A k \in 1..Len(order) : f[k] = Turn(f[k - 1], k, U)

\* What evict_tombstones returns is the order after as many turns as it has
\* keys.
LEMMA EvictIsTurns ==
    ASSUME NEW order \in Seq(Messages), NEW q, NEW ds
    PROVE  \E f : Leads(f, order, q \cup Delivering(ds), evict_tombstones(order, q, ds))
<1> DEFINE U == q \cup Delivering(ds)
           scan == CHOOSE f : Turns(f, order, U, Len(order))
<1>0. Len(order) \in Nat
  BY SeqParts, Zenon
<1>1. evict_tombstones(order, q, ds) = scan[Len(order)]
  BY Zenon DEF evict_tombstones, Turns, Turn
<1>2. Turns(scan, order, U, Len(order))
  BY <1>0, TurnsExist, Zenon
<1> HIDE DEF scan, U
<1>3. scan[0] = order /\ \A k \in 1..Len(order) : scan[k] = Turn(scan[k - 1], k, U)
  BY <1>0, <1>2 DEF Turns
<1>4. Leads(scan, order, U, evict_tombstones(order, q, ds))
  BY <1>1, <1>3, Zenon DEF Leads
<1> QED BY <1>4, Zenon DEF U

\* b is what a may become while the keys of U are in use.
Evicted(a, b, U) ==
    /\ b \in Seq(Messages) /\ IsInjective(b) /\ Len(b) <= Len(a)
    /\ Range(b) \subseteq Range(a) /\ Range(a) \cap U \subseteq Range(b)

\* A turn forgets no key in use, and none twice.
LEMMA TurnKeeps ==
    ASSUME NEW o \in Seq(Messages), IsInjective(o), NEW k \in Nat, NEW U
    PROVE  Evicted(o, Turn(o, k, U), U)
<1>1. /\ Len(o) \in Nat /\ \A i, j \in 1..Len(o) : o[i] = o[j] => i = j
      /\ \A x : x \in Range(o) <=> \E i \in 1..Len(o) : o[i] = x
  BY SeqParts, Zenon
<1>2. CASE Len(o) <= TombstoneCap \/ k > Len(o)
  <2>1. Turn(o, k, U) = o
    BY <1>2, Zenon DEF Turn
  <2> QED BY <1>1, <2>1 DEF Evicted
<1>3. CASE ~(Len(o) <= TombstoneCap \/ k > Len(o)) /\ Head(o) \in U
  <2> DEFINE t == Append(Tail(o), Head(o))
  <2>0. Len(o) > 0
    BY <1>1, <1>3, QueueAssumption
  <2>1. /\ t \in Seq(Messages) /\ Len(t) = Len(o)
        /\ \A i \in 1..Len(o) : t[i] = IF i < Len(o) THEN o[i + 1] ELSE o[1]
    BY <2>0, Rotated, Zenon
  <2>2. Turn(o, k, U) = t
    BY <1>3, Zenon DEF Turn
  <2> HIDE DEF t
  <2>3. /\ \A x : x \in Range(t) <=> \E i \in 1..Len(t) : t[i] = x
        /\ IsInjective(t) <=> \A i, j \in 1..Len(t) : t[i] = t[j] => i = j
    BY <2>1, SeqParts
  <2>4. IsInjective(t)
    <3> SUFFICES ASSUME NEW i \in 1..Len(t), NEW j \in 1..Len(t), t[i] = t[j]
                 PROVE  i = j
      BY <2>3, Zenon
    <3> DEFINE p == IF i < Len(o) THEN i + 1 ELSE 1
               r == IF j < Len(o) THEN j + 1 ELSE 1
    <3>1. p \in 1..Len(o) /\ r \in 1..Len(o) /\ (p = r => i = j)
      BY <1>1, <2>0, <2>1
    <3>2. o[p] = o[r]
      BY <2>1, Zenon
    <3> HIDE DEF p, r
    <3> QED BY <1>1, <3>1, <3>2, Zenon
  <2>5. Range(t) \subseteq Range(o)
    <3> SUFFICES ASSUME NEW x \in Range(t) PROVE x \in Range(o)
      BY Zenon
    <3>1. PICK i \in 1..Len(t) : t[i] = x
      BY <2>3, Zenon
    <3> DEFINE p == IF i < Len(o) THEN i + 1 ELSE 1
    <3>2. p \in 1..Len(o) /\ o[p] = x
      BY <1>1, <2>0, <2>1, <3>1
    <3> QED BY <1>1, <3>2, Zenon
  <2>6. Range(o) \subseteq Range(t)
    <3> SUFFICES ASSUME NEW x \in Range(o) PROVE x \in Range(t)
      BY Zenon
    <3>1. PICK i \in 1..Len(o) : o[i] = x
      BY <1>1, Zenon
    <3> DEFINE p == IF i = 1 THEN Len(o) ELSE i - 1
    <3>2. p \in 1..Len(t) /\ t[p] = x
      BY <1>1, <2>0, <2>1, <3>1
    <3> QED BY <2>3, <3>2, Zenon
  <2> QED BY <1>1, <2>1, <2>2, <2>4, <2>5, <2>6 DEF Evicted
<1>4. CASE ~(Len(o) <= TombstoneCap \/ k > Len(o)) /\ Head(o) \notin U
  <2> DEFINE t == Tail(o)
  <2>0. Len(o) > 0
    BY <1>1, <1>4, QueueAssumption
  <2>1. /\ t \in Seq(Messages) /\ Len(t) = Len(o) - 1 /\ Head(o) = o[1]
        /\ \A i \in 1..(Len(o) - 1) : t[i] = o[i + 1]
    BY <2>0, TailParts, Zenon
  <2>2. Turn(o, k, U) = t
    BY <1>4, Zenon DEF Turn
  <2> HIDE DEF t
  <2>3. /\ \A x : x \in Range(t) <=> \E i \in 1..Len(t) : t[i] = x
        /\ IsInjective(t) <=> \A i, j \in 1..Len(t) : t[i] = t[j] => i = j
    BY <2>1, SeqParts
  <2>4. IsInjective(t)
    <3> SUFFICES ASSUME NEW i \in 1..Len(t), NEW j \in 1..Len(t), t[i] = t[j]
                 PROVE  i = j
      BY <2>3, Zenon
    <3>1. i + 1 \in 1..Len(o) /\ j + 1 \in 1..Len(o) /\ o[i + 1] = o[j + 1]
      BY <1>1, <2>1
    <3> QED BY <1>1, <3>1
  <2>5. Range(t) \subseteq Range(o)
    <3> SUFFICES ASSUME NEW x \in Range(t) PROVE x \in Range(o)
      BY Zenon
    <3>1. PICK i \in 1..Len(t) : t[i] = x
      BY <2>3, Zenon
    <3>2. i + 1 \in 1..Len(o) /\ o[i + 1] = x
      BY <1>1, <2>1, <3>1
    <3> QED BY <1>1, <3>2, Zenon
  <2>6. Range(o) \cap U \subseteq Range(t)
    <3> SUFFICES ASSUME NEW x \in Range(o), x \in U PROVE x \in Range(t)
      BY Zenon
    <3>1. PICK i \in 1..Len(o) : o[i] = x
      BY <1>1, Zenon
    <3>2. i # 1
      BY <1>4, <2>1, <3>1, Zenon
    <3>3. i - 1 \in 1..Len(t) /\ t[i - 1] = x
      BY <1>1, <2>1, <3>1, <3>2
    <3> QED BY <2>3, <3>3, Zenon
  <2> QED BY <1>1, <2>1, <2>2, <2>4, <2>5, <2>6 DEF Evicted
<1> QED BY <1>2, <1>3, <1>4, Zenon

\* The eviction forgets no key in use.
LEMMA EvictKeeps ==
    ASSUME NEW order \in Seq(Messages), IsInjective(order), NEW q, NEW ds
    PROVE  Evicted(order, evict_tombstones(order, q, ds), q \cup Delivering(ds))
<1> DEFINE U == q \cup Delivering(ds)
           last == evict_tombstones(order, q, ds)
<1>0. PICK f : Leads(f, order, U, last)
  BY EvictIsTurns, Zenon
<1> HIDE DEF U, last
<1>1. /\ f[0] = order /\ last = f[Len(order)]
      /\ \A k \in 1..Len(order) : f[k] = Turn(f[k - 1], k, U)
  BY <1>0, Zenon DEF Leads
<1>2. Len(order) \in Nat
  BY SeqParts, Zenon
<1> DEFINE Bad == {k \in Nat : k <= Len(order) /\ ~Evicted(order, f[k], U)}
<1>3. Bad = {}
  <2> SUFFICES ASSUME Bad # {} PROVE FALSE
    BY Zenon
  <2>1. Bad \in SUBSET Nat
    BY Zenon
  <2>2. PICK m \in Bad : \A y \in Bad : ~(y < m)
    <3> HIDE DEF Bad
    <3> QED BY <2>1, LeastNat, Zenon
  <2>3. m \in Nat /\ m <= Len(order) /\ ~Evicted(order, f[m], U)
    BY Zenon
  <2>4. m # 0
    BY <1>1, <1>2, <2>3 DEF Evicted
  <2>5. m - 1 \in Nat /\ m - 1 < m /\ m - 1 <= Len(order) /\ m \in 1..Len(order)
    BY <1>2, <2>3, <2>4
  <2>6. Evicted(order, f[m - 1], U)
    BY <2>2, <2>5, Zenon
  <2>7. f[m] = Turn(f[m - 1], m, U)
    BY <1>1, <2>5, Zenon
  <2>8. f[m - 1] \in Seq(Messages) /\ IsInjective(f[m - 1])
    BY <2>6, Zenon DEF Evicted
  <2>9. Evicted(f[m - 1], f[m], U)
    BY <2>3, <2>7, <2>8, TurnKeeps, Zenon
  <2>10. Len(f[m - 1]) \in Nat /\ (f[m] \in Seq(Messages) => Len(f[m]) \in Nat)
    BY <2>8, SeqParts
  <2> HIDE DEF Bad
  <2>11. Evicted(order, f[m], U)
    BY <1>2, <2>6, <2>9, <2>10 DEF Evicted
  <2> QED BY <2>3, <2>11, Zenon
<1>4. Evicted(order, f[Len(order)], U)
  BY <1>2, <1>3
<1> QED BY <1>1, <1>4, Zenon DEF U, last

\* One key too many: unless all are in use, the eviction forgets one.  After k
\* turns without success the first k keys, all in use, are at the back.
LEMMA EvictBounded ==
    ASSUME NEW order \in Seq(Messages), Len(order) = TombstoneCap + 1,
           NEW q, NEW ds
    PROVE  \/ Len(evict_tombstones(order, q, ds)) <= TombstoneCap
           \/ \A j \in 1..Len(order) : order[j] \in q \cup Delivering(ds)
<1> DEFINE U == q \cup Delivering(ds)
           N == Len(order)
           last == evict_tombstones(order, q, ds)
<1>0. PICK f : Leads(f, order, U, last)
  BY EvictIsTurns, Zenon
<1>1. /\ f[0] = order /\ last = f[N]
      /\ \A k \in 1..N : f[k] = Turn(f[k - 1], k, U)
  BY <1>0, Zenon DEF Leads
<1>2. N \in Nat /\ N > 0 /\ TombstoneCap \in Nat /\ N = TombstoneCap + 1
  BY QueueAssumption
<1> HIDE DEF U, N, last
<1> DEFINE Short(k) == Len(f[k]) <= TombstoneCap
           Full(k) == /\ f[k] \in Seq(Messages) /\ Len(f[k]) = N
                      /\ \A i \in 1..N : f[k][i] = order[IF i + k <= N THEN i + k ELSE i + k - N]
                      /\ \A j \in 1..k : order[j] \in U
           Bad == {k \in Nat : k <= N /\ ~Short(k) /\ ~Full(k)}
<1>3. Full(0)
  <2>1. \A i \in 1..N : f[0][i] = order[IF i + 0 <= N THEN i + 0 ELSE i + 0 - N]
    BY <1>1, <1>2
  <2> QED BY <1>1, <2>1 DEF N
<1>4. ASSUME NEW k \in 1..N, Short(k - 1) PROVE Short(k)
  BY <1>1, <1>2, <1>4, Zenon DEF Turn
<1>5. ASSUME NEW k \in 1..N, Full(k - 1) PROVE Short(k) \/ Full(k)
  <2> DEFINE o == f[k - 1]
  <2>1. /\ o \in Seq(Messages) /\ Len(o) = N
        /\ \A i \in 1..N : o[i] = order[IF i + (k - 1) <= N THEN i + (k - 1) ELSE i + (k - 1) - N]
        /\ \A j \in 1..(k - 1) : order[j] \in U
    BY <1>5, Zenon
  <2>2. f[k] = Turn(o, k, U)
    BY <1>1, Zenon
  <2> HIDE DEF o
  <2>3. ~(Len(o) <= TombstoneCap \/ k > Len(o)) /\ Len(o) > 0
    BY <1>2, <2>1
  <2>4. Head(o) = o[1] /\ Len(Tail(o)) = Len(o) - 1
    BY <2>1, <2>3, TailParts, Zenon
  <2>5. o[1] = order[k]
    <3>1. 1 \in 1..N /\ 1 + (k - 1) <= N /\ 1 + (k - 1) = k
      BY <1>2
    <3> QED BY <2>1, <3>1, Zenon
  <2>6. CASE order[k] \notin U
    <3>1. f[k] = Tail(o)
      BY <2>2, <2>3, <2>4, <2>5, <2>6, Zenon DEF Turn
    <3>2. Len(Tail(o)) <= TombstoneCap
      BY <1>2, <2>1, <2>4
    <3> QED BY <3>1, <3>2, Zenon
  <2>7. CASE order[k] \in U
    <3>1. f[k] = Append(Tail(o), Head(o))
      BY <2>2, <2>3, <2>4, <2>5, <2>7, Zenon DEF Turn
    <3> DEFINE t == Append(Tail(o), Head(o))
    <3>2. /\ t \in Seq(Messages) /\ Len(t) = Len(o)
          /\ \A i \in 1..Len(o) : t[i] = IF i < Len(o) THEN o[i + 1] ELSE o[1]
      BY <2>1, <2>3, Rotated, Zenon
    <3>3. f[k] = t
      BY <3>1, Zenon
    <3> HIDE DEF t
    <3>4. ASSUME NEW i \in 1..N
          PROVE  t[i] = order[IF i + k <= N THEN i + k ELSE i + k - N]
      <4>1. CASE i < N
        <5>1. t[i] = o[i + 1] /\ i + 1 \in 1..N
          BY <1>2, <2>1, <3>2, <4>1
        <5>2. CASE i + k <= N
          <6>1. (i + 1) + (k - 1) <= N /\ (i + 1) + (k - 1) = i + k
            BY <1>2, <5>2
          <6> QED BY <2>1, <5>1, <5>2, <6>1, Zenon
        <5>3. CASE ~(i + k <= N)
          <6>1. ~((i + 1) + (k - 1) <= N) /\ (i + 1) + (k - 1) - N = i + k - N
            BY <1>2, <5>3
          <6> QED BY <2>1, <5>1, <5>3, <6>1, Zenon
        <5> QED BY <5>2, <5>3, Zenon
      <4>2. CASE i = N
        <5>1. t[i] = order[k]
          BY <2>1, <2>5, <3>2, <4>2
        <5>2. ~(i + k <= N) /\ i + k - N = k
          BY <1>2, <4>2
        <5> QED BY <5>1, <5>2, Zenon
      <4> QED BY <1>2, <4>1, <4>2
    <3>5. \A j \in 1..k : order[j] \in U
      BY <2>1, <2>7
    <3>6. Full(k)
      BY <2>1, <3>2, <3>3, <3>4, <3>5, Zenon
    <3> QED BY <3>6, Zenon
  <2> QED BY <2>6, <2>7, Zenon
<1> HIDE DEF Short, Full
<1>6. Bad = {}
  <2> SUFFICES ASSUME Bad # {} PROVE FALSE
    BY Zenon
  <2>1. Bad \in SUBSET Nat
    BY Zenon
  <2>2. PICK m \in Bad : \A y \in Bad : ~(y < m)
    <3> HIDE DEF Bad
    <3> QED BY <2>1, LeastNat, Zenon
  <2>3. m \in Nat /\ m <= N /\ ~Short(m) /\ ~Full(m)
    BY Zenon
  <2>4. m # 0
    BY <1>3, <2>3, Zenon
  <2>5. m - 1 \in Nat /\ m - 1 < m /\ m - 1 <= N /\ m \in 1..N
    BY <1>2, <2>3, <2>4
  <2>6. Short(m - 1) \/ Full(m - 1)
    BY <2>2, <2>5, Zenon
  <2> QED BY <1>4, <1>5, <2>3, <2>5, <2>6, Zenon
<1>7. Short(N) \/ Full(N)
  BY <1>2, <1>6
<1> QED BY <1>1, <1>7, Zenon DEF Short, Full, U, N, last

-----------------------------------------------------------------------------
(* The steps.                                                              *)

LEMMA ImageSize ==
    ASSUME NEW D, IsFiniteSet(D), NEW f, \A d, e \in D : f[d] = f[e] => d = e
    PROVE  /\ IsFiniteSet({f[d] : d \in D})
           /\ Cardinality({f[d] : d \in D}) = Cardinality(D)
<1> DEFINE R == {f[d] : d \in D}
           g == [d \in D |-> f[d]]
<1>1. g \in Bijection(D, R)
  <2>1. g \in [D -> R] /\ \A d, e \in D : g[d] = g[e] => d = e
    BY Zenon
  <2>2. \A r \in R : \E d \in D : g[d] = r
    BY Zenon
  <2> QED BY <2>1, <2>2, Zenon DEF Bijection, Injection, Surjection, IsInjective
<1>2. ExistsBijection(D, R)
  BY <1>1, Zenon DEF ExistsBijection
<1> HIDE DEF R
<1>3. IsFiniteSet(R) /\ Cardinality(R) = Cardinality(D)
  BY <1>2, FS_Bijection, Zenon
<1> QED BY <1>3, Zenon DEF R

\* The keys in use are as many as the messages that occupy the queue.
LEMMA InUseSize ==
    ASSUME QueueInv
    PROVE  /\ IsFiniteSet(Delivering(inFlight)) /\ IsFiniteSet(InUse)
           /\ Cardinality(Delivering(inFlight)) = Cardinality(inFlight)
           /\ Cardinality(InUse) = occupied
           /\ Cardinality(queued) \in Nat /\ Cardinality(inFlight) \in Nat
<1>1. IsFiniteSet(queued) /\ IsFiniteSet(inFlight)
  BY Zenon DEF QueueInv
<1>2. /\ IsFiniteSet(Delivering(inFlight))
      /\ Cardinality(Delivering(inFlight)) = Cardinality(inFlight)
  <2>1. \A d, e \in inFlight : handed[d] = handed[e] => d = e
    BY Zenon DEF QueueInv, DeliveryInv
  <2> QED BY <1>1, <2>1, ImageSize, Zenon DEF Delivering
<1>3. Cardinality(queued) \in Nat /\ Cardinality(inFlight) \in Nat
  BY <1>1, FS_CardinalityType, Zenon
<1> DEFINE D == Delivering(inFlight)
<1>4. queued \cap D = {}
  BY Zenon DEF QueueInv, DeliveryInv
<1> HIDE DEF D
<1>5. /\ IsFiniteSet(queued \cup D)
      /\ Cardinality(queued \cup D) = Cardinality(queued) + Cardinality(D) - Cardinality(queued \cap D)
  BY <1>1, <1>2, FS_Union, Zenon DEF D
<1>6. Cardinality(queued \cap D) = 0
  BY <1>4, FS_EmptySet, Zenon
<1> QED BY <1>2, <1>3, <1>5, <1>6 DEF InUse, occupied, D

LEMMA QueueInvInit == QueueInit => QueueInv
<1> SUFFICES ASSUME QueueInit PROVE QueueInv
  BY Zenon
<1>1. live = <<>> /\ handed = <<>> /\ queued = {} /\ inFlight = {} /\ unacked = {}
  BY Zenon DEF QueueInit
<1>2. \A s \in Streams : pending[s] = <<>>
  BY Zenon DEF QueueInit
<1>3. QueueTypeOK
  <2>1. pending \in [Streams -> Seq(Messages)]
    BY DEF QueueInit
  <2> QED BY <1>1, <2>1 DEF QueueTypeOK
<1>4. Range(<<>>) = {} /\ IsInjective(<<>>) /\ Len(<<>>) = 0
  BY DEF Range, IsInjective
<1>5. Delivering(inFlight) = {}
  BY <1>1, Zenon DEF Delivering
<1>6. DeliveryInv
  BY <1>1, <1>5, Zenon DEF DeliveryInv, InUse
<1>7. ChannelInv
  BY <1>1, <1>2, <1>4, Zenon DEF ChannelInv
<1>8. MemoryInv
  BY <1>1, <1>4, <1>5, Zenon DEF MemoryInv, InUse
<1>9. MemoryBounded /\ IsFiniteSet(queued) /\ IsFiniteSet(inFlight)
  BY <1>1, <1>4, FS_EmptySet, QueueAssumption DEF MemoryBounded, occupied
<1> QED BY <1>3, <1>6, <1>7, <1>8, <1>9, Zenon DEF QueueInv

\* A key that is remembered is accepted once; one that is not is in use by
\* nobody, and there is room to remember it.
LEMMA PublishStep ==
    ASSUME QueueInv, NEW m \in Messages, publish(m)
    PROVE  QueueInv'
<1> DEFINE order == Append(live, m)
           st == Stream[m]
           U == queued' \cup Delivering(inFlight)
           q == Append(pending[st], m)
<1>1. /\ m \notin Range(live) /\ occupied < Capacity /\ queued' = queued \cup {m}
      /\ pending' = [pending EXCEPT ![st] = q]
      /\ live' = evict_tombstones(order, queued', inFlight)
      /\ unacked' = unacked \cup {m} /\ UNCHANGED <<handed, inFlight>>
  BY Zenon DEF publish
<1>2. /\ live \in Seq(Messages) /\ pending \in [Streams -> Seq(Messages)] /\ queued \subseteq Messages
      /\ IsInjective(live) /\ InUse \subseteq Range(live) /\ InUse = unacked
      /\ st \in Streams /\ Len(live) <= TombstoneCap
  BY Zenon DEF QueueInv, QueueTypeOK, MemoryInv, DeliveryInv, MemoryBounded, Streams
<1>3. m \notin queued /\ m \notin Delivering(inFlight)
  BY <1>1, <1>2, Zenon DEF InUse
<1>4. /\ order \in Seq(Messages) /\ Len(order) = Len(live) + 1 /\ order[Len(live) + 1] = m
      /\ \A i \in 1..Len(live) : order[i] = live[i]
  BY <1>2, AppendProperties
<1>5. pending[st] \in Seq(Messages)
  BY <1>2, Zenon
<1>6. /\ q \in Seq(Messages) /\ Len(q) = Len(pending[st]) + 1 /\ q[Len(pending[st]) + 1] = m
      /\ \A i \in 1..Len(pending[st]) : q[i] = pending[st][i]
  BY <1>5, AppendProperties
<1> HIDE DEF order, q
<1>7. IsInjective(order) /\ Range(order) = Range(live) \cup {m}
  <2>1. /\ Len(live) \in Nat /\ \A i, j \in 1..Len(live) : live[i] = live[j] => i = j
        /\ \A x : x \in Range(live) <=> \E i \in 1..Len(live) : live[i] = x
    BY <1>2, SeqParts
  <2>2. /\ \A x : x \in Range(order) <=> \E i \in 1..Len(order) : order[i] = x
        /\ IsInjective(order) <=> \A i, j \in 1..Len(order) : order[i] = order[j] => i = j
    BY <1>4, SeqParts
  <2>3. IsInjective(order)
    BY <1>1, <1>4, <2>1, <2>2
  <2>4. Range(order) = Range(live) \cup {m}
    BY <1>4, <2>1, <2>2
  <2> QED BY <2>3, <2>4, Zenon
<1>8. IsInjective(q) /\ Range(q) = Range(pending[st]) \cup {m}
  <2> DEFINE p == pending[st]
  <2>1. p \in Seq(Messages) /\ IsInjective(p) /\ m \notin Range(p)
    BY <1>2, <1>3, <1>5, Zenon DEF QueueInv, ChannelInv
  <2>2. /\ Len(q) = Len(p) + 1 /\ q[Len(p) + 1] = m
        /\ \A i \in 1..Len(p) : q[i] = p[i]
    BY <1>6, Zenon
  <2> HIDE DEF p
  <2>3. /\ Len(p) \in Nat /\ \A i, j \in 1..Len(p) : p[i] = p[j] => i = j
        /\ \A x : x \in Range(p) <=> \E i \in 1..Len(p) : p[i] = x
    BY <2>1, SeqParts, Zenon
  <2>4. /\ \A x : x \in Range(q) <=> \E i \in 1..Len(q) : q[i] = x
        /\ IsInjective(q) <=> \A i, j \in 1..Len(q) : q[i] = q[j] => i = j
    BY <1>6, SeqParts
  <2>5. IsInjective(q)
    BY <2>1, <2>2, <2>3, <2>4
  <2>6. Range(q) = Range(p) \cup {m}
    BY <2>2, <2>3, <2>4
  <2> QED BY <2>5, <2>6, Zenon DEF p
<1>9. InUse' = InUse \cup {m} /\ InUse' = U /\ Delivering(inFlight)' = Delivering(inFlight)
  BY <1>1, Zenon DEF InUse, Delivering
<1>10. Evicted(order, live', U)
  BY <1>1, <1>4, <1>7, EvictKeeps, Zenon
<1> HIDE DEF U
<1>11. /\ IsFiniteSet(queued') /\ IsFiniteSet(inFlight') /\ occupied' = occupied + 1
       /\ occupied \in Nat
       /\ IsFiniteSet(InUse') /\ Cardinality(InUse') = occupied + 1
  <2>1. /\ IsFiniteSet(queued) /\ IsFiniteSet(inFlight)
        /\ Cardinality(queued) \in Nat /\ Cardinality(inFlight) \in Nat
        /\ IsFiniteSet(InUse) /\ Cardinality(InUse) = occupied
    BY InUseSize, Zenon DEF QueueInv
  <2>2. IsFiniteSet(queued') /\ Cardinality(queued') = Cardinality(queued) + 1
    BY <1>1, <1>3, <2>1, FS_AddElement, Zenon
  <2>3. IsFiniteSet(InUse') /\ Cardinality(InUse') = Cardinality(InUse) + 1
    BY <1>3, <1>9, <2>1, FS_AddElement, Zenon DEF InUse
  <2>4. occupied' = occupied + 1
    BY <1>1, <2>1, <2>2 DEF occupied
  <2> QED BY <1>1, <2>1, <2>2, <2>3, <2>4 DEF occupied
<1>12. Len(live') <= TombstoneCap
  <2>0. Len(live) \in Nat /\ Len(order) \in Nat /\ Len(live') \in Nat
    BY <1>2, <1>4, <1>10, SeqParts, Zenon DEF Evicted
  <2>1. CASE Len(order) <= TombstoneCap
    BY <1>10, <2>0, <2>1, QueueAssumption DEF Evicted
  <2>2. CASE Len(order) = TombstoneCap + 1
    <3> SUFFICES ASSUME \A j \in 1..Len(order) : order[j] \in U PROVE FALSE
      BY <1>1, <1>4, <2>2, EvictBounded, Zenon DEF U
    <3> DEFINE S == 1..Len(order)
    <3>1. IsFiniteSet(S) /\ Cardinality(S) = Len(order)
      BY <2>0, <2>2, FS_Interval, QueueAssumption
    <3>2. \A i, j \in S : order[i] = order[j] => i = j
      BY <1>4, <1>7, SeqParts, Zenon
    <3>3. IsFiniteSet(U) /\ Cardinality(U) < Cardinality(S)
      BY <1>1, <1>9, <1>11, <2>2, <3>1, QueueAssumption
    <3> DEFINE f == [j \in S |-> order[j]]
    <3>4. f \in [S -> U] /\ \A i, j \in S : f[i] = f[j] => i = j
      BY <3>2, Zenon
    <3> HIDE DEF S, f
    <3> QED BY <3>1, <3>3, <3>4, FS_PigeonHole
  <2> QED BY <1>2, <1>4, <2>0, <2>1, <2>2, QueueAssumption
<1>13. QueueTypeOK'
  <2>1. live' \in Seq(Messages)
    BY <1>10, Zenon DEF Evicted
  <2>2. pending' \in [Streams -> Seq(Messages)]
    BY <1>1, <1>2, <1>6, Zenon
  <2> QED BY <1>1, <2>1, <2>2, Zenon DEF QueueInv, QueueTypeOK
<1>14. DeliveryInv'
  <2>1. \A d, e \in inFlight' : handed'[d] = handed'[e] => d = e
    BY <1>1, Zenon DEF QueueInv, DeliveryInv
  <2>2. queued' \cap Delivering(inFlight)' = {}
    BY <1>1, <1>3, <1>9, Zenon DEF QueueInv, DeliveryInv
  <2> QED BY <1>1, <1>2, <1>9, <2>1, <2>2, Zenon DEF DeliveryInv
<1>15. ChannelInv'
  <2> SUFFICES ASSUME NEW s \in Streams
               PROVE  /\ IsInjective(pending'[s])
                      /\ Range(pending'[s]) = {x \in queued' : Stream[x] = s}
    BY Zenon DEF ChannelInv
  <2>1. IsInjective(pending[s]) /\ Range(pending[s]) = {x \in queued : Stream[x] = s}
    BY Zenon DEF QueueInv, ChannelInv
  <2>2. CASE s = st
    <3>1. pending'[s] = q
      BY <1>1, <1>2, <2>2, Zenon
    <3> QED BY <1>1, <1>8, <2>1, <2>2, <3>1, Zenon
  <2>3. CASE s # st
    <3>1. pending'[s] = pending[s]
      BY <1>1, <1>2, <2>3, Zenon
    <3> QED BY <1>1, <2>1, <2>3, <3>1, Zenon
  <2> QED BY <2>2, <2>3, Zenon
<1>16. MemoryInv'
  <2>1. IsInjective(live')
    BY <1>10, Zenon DEF Evicted
  <2>2. InUse' \subseteq Range(live')
    BY <1>2, <1>7, <1>9, <1>10, Zenon DEF Evicted
  <2> QED BY <2>1, <2>2, Zenon DEF MemoryInv
<1>17. MemoryBounded'
  <2>1. occupied' <= Capacity
    BY <1>1, <1>11, QueueAssumption
  <2> QED BY <1>12, <2>1, Zenon DEF MemoryBounded
<1> QED BY <1>11, <1>13, <1>14, <1>15, <1>16, <1>17, Zenon DEF QueueInv

\* What is acked is nowhere; every other key is remembered as before.
LEMMA AckStep ==
    ASSUME QueueInv, NEW d, ack(d)
    PROVE  QueueInv'
<1> DEFINE m == handed[d]
           U == queued \cup Delivering(inFlight')
<1>1. /\ d \in inFlight /\ inFlight' = inFlight \ {d} /\ unacked' = unacked \ {m}
      /\ live' = evict_tombstones(live, queued, inFlight')
      /\ UNCHANGED <<pending, queued, handed>>
  BY Zenon DEF ack
<1>2. /\ live \in Seq(Messages) /\ IsInjective(live) /\ InUse \subseteq Range(live)
      /\ InUse = unacked /\ Len(live) <= TombstoneCap
      /\ queued \cap Delivering(inFlight) = {}
      /\ \A c, e \in inFlight : handed[c] = handed[e] => c = e
  BY Zenon DEF QueueInv, QueueTypeOK, MemoryInv, DeliveryInv, MemoryBounded
<1>3. Evicted(live, live', U)
  BY <1>1, <1>2, EvictKeeps, Zenon
<1>4. m \in Delivering(inFlight) /\ Delivering(inFlight') = Delivering(inFlight) \ {m}
  BY <1>1, <1>2, Zenon DEF Delivering
<1>5. Delivering(inFlight)' = Delivering(inFlight')
  BY <1>1, Zenon DEF Delivering
<1> HIDE DEF m
<1>6. InUse' = InUse \ {m} /\ InUse' = U
  <2>1. m \notin queued
    BY <1>2, <1>4, Zenon
  <2>2. InUse' = queued \cup (Delivering(inFlight) \ {m})
    BY <1>1, <1>4, <1>5, Zenon DEF InUse
  <2>3. InUse = queued \cup Delivering(inFlight)
    BY Zenon DEF InUse
  <2>4. InUse' = InUse \ {m}
    BY <2>1, <2>2, <2>3, Zenon
  <2> QED BY <1>4, <2>2, <2>4, Zenon
<1> HIDE DEF U
<1>7. QueueTypeOK'
  BY <1>1, <1>3, Zenon DEF QueueInv, QueueTypeOK, Evicted
<1>8. DeliveryInv'
  <2>1. \A c, e \in inFlight' : handed'[c] = handed'[e] => c = e
    BY <1>1, <1>2, Zenon
  <2>2. queued' \cap Delivering(inFlight)' = {}
    BY <1>1, <1>2, <1>4, <1>5, Zenon
  <2>3. InUse' = unacked'
    BY <1>1, <1>2, <1>6, Zenon
  <2> QED BY <2>1, <2>2, <2>3, Zenon DEF DeliveryInv
<1>9. ChannelInv'
  BY <1>1, Zenon DEF QueueInv, ChannelInv
<1>10. MemoryInv'
  BY <1>2, <1>3, <1>6, Zenon DEF MemoryInv, Evicted
<1>11. /\ IsFiniteSet(queued') /\ IsFiniteSet(inFlight') /\ occupied' <= Capacity
  <2>1. /\ IsFiniteSet(queued) /\ IsFiniteSet(inFlight) /\ occupied <= Capacity
        /\ Cardinality(queued) \in Nat /\ Cardinality(inFlight) \in Nat
    BY InUseSize, Zenon DEF QueueInv, MemoryBounded
  <2>2. IsFiniteSet(inFlight') /\ Cardinality(inFlight') = Cardinality(inFlight) - 1
    BY <1>1, <2>1, FS_RemoveElement, Zenon
  <2> QED BY <1>1, <2>1, <2>2, QueueAssumption DEF occupied
<1>12. MemoryBounded'
  <2>1. Len(live') \in Nat /\ Len(live) \in Nat /\ Len(live') <= Len(live)
    BY <1>2, <1>3, SeqParts, Zenon DEF Evicted
  <2> QED BY <1>2, <1>11, <2>1, QueueAssumption DEF MemoryBounded
<1> QED BY <1>7, <1>8, <1>9, <1>10, <1>11, <1>12, Zenon DEF QueueInv

\* A nacked message is first on its channel again.
LEMMA NackStep ==
    ASSUME QueueInv, NEW d, nack(d)
    PROVE  QueueInv'
<1> DEFINE m == handed[d]
           st == Stream[m]
           p == pending[st]
           q == <<m>> \o p
<1>1. /\ d \in inFlight /\ inFlight' = inFlight \ {d} /\ queued' = queued \cup {m}
      /\ pending' = [pending EXCEPT ![st] = q]
      /\ UNCHANGED <<live, handed, unacked>>
  BY Zenon DEF nack
<1>2. /\ pending \in [Streams -> Seq(Messages)] /\ InUse = unacked
      /\ queued \cap Delivering(inFlight) = {} /\ queued \subseteq Messages
      /\ handed \in Seq(Messages) /\ inFlight \subseteq DOMAIN handed
      /\ \A c, e \in inFlight : handed[c] = handed[e] => c = e
  BY Zenon DEF QueueInv, QueueTypeOK, DeliveryInv
<1>3. m \in Messages /\ st \in Streams
  <2>1. m \in Messages
    BY <1>1, <1>2, SeqParts
  <2> QED BY <2>1, Zenon DEF Streams
<1>4. /\ m \in Delivering(inFlight) /\ m \notin queued
      /\ Delivering(inFlight)' = Delivering(inFlight) \ {m}
  BY <1>1, <1>2 DEF Delivering
<1>5. InUse' = InUse
  BY <1>1, <1>4, Zenon DEF InUse
<1>6. p \in Seq(Messages) /\ IsInjective(p) /\ Range(p) = {x \in queued : Stream[x] = st}
  BY <1>2, <1>3, Zenon DEF QueueInv, ChannelInv
<1> HIDE DEF p, m
<1>7. /\ q \in Seq(Messages) /\ Len(q) = Len(p) + 1 /\ q[1] = m
      /\ \A i \in 1..Len(p) : q[i + 1] = p[i]
  <2> DEFINE h == <<m>>
  <2>1. h \in Seq(Messages) /\ Len(h) = 1 /\ h[1] = m
    BY <1>3
  <2>2. Len(p) \in Nat
    BY <1>6, SeqParts, Zenon
  <2> HIDE DEF h
  <2>3. /\ h \o p \in Seq(Messages) /\ Len(h \o p) = Len(h) + Len(p)
        /\ \A i \in 1..(Len(h) + Len(p)) : (h \o p)[i] = IF i <= Len(h) THEN h[i] ELSE p[i - Len(h)]
    BY <1>6, <2>1, ConcatProperties, Zenon
  <2> DEFINE c == h \o p
  <2>4. /\ c \in Seq(Messages) /\ Len(c) = 1 + Len(p)
        /\ \A i \in 1..(1 + Len(p)) : c[i] = IF i <= 1 THEN h[i] ELSE p[i - 1]
    BY <2>1, <2>3, Zenon
  <2>5. c = q
    BY Zenon DEF h
  <2> HIDE DEF c, q
  <2>6. c[1] = m
    BY <2>1, <2>2, <2>4
  <2>7. ASSUME NEW i \in 1..Len(p) PROVE c[i + 1] = p[i]
    <3>1. i + 1 \in 1..(1 + Len(p)) /\ ~(i + 1 <= 1) /\ (i + 1) - 1 = i
      BY <2>2
    <3> QED BY <2>4, <3>1, Zenon
  <2> QED BY <2>2, <2>4, <2>5, <2>6, <2>7
<1> HIDE DEF q
<1>8. IsInjective(q) /\ Range(q) = Range(p) \cup {m}
  <2>1. /\ Len(p) \in Nat /\ \A i, j \in 1..Len(p) : p[i] = p[j] => i = j
        /\ \A x : x \in Range(p) <=> \E i \in 1..Len(p) : p[i] = x
    BY <1>6, SeqParts, Zenon
  <2>2. /\ \A x : x \in Range(q) <=> \E i \in 1..Len(q) : q[i] = x
        /\ IsInjective(q) <=> \A i, j \in 1..Len(q) : q[i] = q[j] => i = j
    BY <1>7, SeqParts
  <2>3. \A i \in 1..Len(q) : i # 1 => i - 1 \in 1..Len(p) /\ q[i] = p[i - 1]
    <3> SUFFICES ASSUME NEW i \in 1..Len(q), i # 1
                 PROVE  i - 1 \in 1..Len(p) /\ q[i] = p[i - 1]
      BY Zenon
    <3>1. i - 1 \in 1..Len(p) /\ (i - 1) + 1 = i
      BY <1>7, <2>1
    <3> QED BY <1>7, <3>1, Zenon
  <2>4. m \notin Range(p) /\ 1 \in 1..Len(q)
    BY <1>4, <1>6, <1>7, <2>1
  <2>5. IsInjective(q)
    <3> SUFFICES ASSUME NEW i \in 1..Len(q), NEW j \in 1..Len(q), q[i] = q[j]
                 PROVE  i = j
      BY <2>2, Zenon
    <3>1. CASE i = 1 \/ j = 1
      BY <1>7, <2>1, <2>3, <2>4, <3>1, Zenon
    <3>2. CASE i # 1 /\ j # 1
      <4>1. /\ i - 1 \in 1..Len(p) /\ q[i] = p[i - 1]
            /\ j - 1 \in 1..Len(p) /\ q[j] = p[j - 1]
        BY <2>3, <3>2, Zenon
      <4>2. i - 1 = j - 1
        BY <2>1, <4>1, Zenon
      <4> QED BY <4>2
    <3> QED BY <3>1, <3>2, Zenon
  <2>6. Range(q) \subseteq Range(p) \cup {m}
    BY <1>7, <2>1, <2>2, <2>3
  <2>7. Range(p) \subseteq Range(q)
    <3> SUFFICES ASSUME NEW x \in Range(p) PROVE x \in Range(q)
      BY Zenon
    <3>1. PICK i \in 1..Len(p) : p[i] = x
      BY <2>1, Zenon
    <3>2. i + 1 \in 1..Len(q) /\ q[i + 1] = x
      BY <1>7, <2>1, <3>1
    <3> QED BY <2>2, <3>2, Zenon
  <2>8. m \in Range(q)
    BY <1>7, <2>2, <2>4, Zenon
  <2> QED BY <2>5, <2>6, <2>7, <2>8, Zenon
<1>9. QueueTypeOK'
  <2>1. pending' \in [Streams -> Seq(Messages)]
    BY <1>1, <1>2, <1>7, Zenon
  <2> QED BY <1>1, <1>3, <2>1, Zenon DEF QueueInv, QueueTypeOK
<1>10. DeliveryInv'
  <2>1. \A c, e \in inFlight' : handed'[c] = handed'[e] => c = e
    BY <1>1, <1>2, Zenon
  <2>2. queued' \cap Delivering(inFlight)' = {}
    BY <1>1, <1>2, <1>4, Zenon
  <2> QED BY <1>1, <1>2, <1>5, <2>1, <2>2, Zenon DEF DeliveryInv
<1>11. ChannelInv'
  <2> SUFFICES ASSUME NEW s \in Streams
               PROVE  /\ IsInjective(pending'[s])
                      /\ Range(pending'[s]) = {x \in queued' : Stream[x] = s}
    BY Zenon DEF ChannelInv
  <2>1. IsInjective(pending[s]) /\ Range(pending[s]) = {x \in queued : Stream[x] = s}
    BY Zenon DEF QueueInv, ChannelInv
  <2>2. CASE s = st
    <3>1. pending'[s] = q
      BY <1>1, <1>2, <2>2, Zenon
    <3> QED BY <1>1, <1>6, <1>8, <2>2, <3>1, Zenon
  <2>3. CASE s # st
    <3>1. pending'[s] = pending[s]
      BY <1>1, <1>2, <2>3, Zenon
    <3> QED BY <1>1, <2>1, <2>3, <3>1, Zenon
  <2> QED BY <2>2, <2>3, Zenon
<1>12. MemoryInv'
  BY <1>1, <1>5, Zenon DEF QueueInv, MemoryInv
<1>13. IsFiniteSet(queued') /\ IsFiniteSet(inFlight') /\ occupied' <= Capacity
  <2>1. /\ IsFiniteSet(queued) /\ IsFiniteSet(inFlight) /\ occupied <= Capacity
        /\ Cardinality(queued) \in Nat /\ Cardinality(inFlight) \in Nat
    BY InUseSize, Zenon DEF QueueInv, MemoryBounded
  <2>2. IsFiniteSet(inFlight') /\ Cardinality(inFlight') = Cardinality(inFlight) - 1
    BY <1>1, <2>1, FS_RemoveElement, Zenon
  <2>3. IsFiniteSet(queued') /\ Cardinality(queued') = Cardinality(queued) + 1
    BY <1>1, <1>4, <2>1, FS_AddElement, Zenon
  <2> QED BY <2>1, <2>2, <2>3, QueueAssumption DEF occupied
<1>14. MemoryBounded'
  BY <1>1, <1>13, Zenon DEF QueueInv, MemoryBounded
<1> QED BY <1>9, <1>10, <1>11, <1>12, <1>13, <1>14, Zenon DEF QueueInv

\* A channel's first n keys, and what is left of it.
LEMMA Split ==
    ASSUME NEW p \in Seq(Messages), IsInjective(p), NEW n \in 1..Len(p)
    PROVE  LET taken == SubSeq(p, 1, n)
               rest == SubSeq(p, n + 1, Len(p))
           IN  /\ taken \in Seq(Messages) /\ Len(taken) = n
               /\ \A i \in 1..n : taken[i] = p[i]
               /\ rest \in Seq(Messages) /\ IsInjective(rest)
               /\ Range(taken) \subseteq Range(p)
               /\ Range(rest) = Range(p) \ Range(taken)
<1> DEFINE N == Len(p)
           taken == SubSeq(p, 1, n)
           rest == SubSeq(p, n + 1, N)
<1>1. /\ N \in Nat /\ \A i \in 1..N : p[i] \in Messages
      /\ \A x : x \in Range(p) <=> \E i \in 1..N : p[i] = x
      /\ \A i, j \in 1..N : p[i] = p[j] => i = j
  BY SeqParts, Zenon
<1>2. n \in Nat /\ 1 <= n /\ n <= N
  BY <1>1
<1> HIDE DEF N
<1>3. /\ taken \in Seq(Messages) /\ Len(taken) = n
      /\ \A i \in 1..n : taken[i] = p[i]
  <2>1. \A i \in 1..n : p[i] \in Messages
    BY <1>1, <1>2
  <2>2. /\ taken \in Seq(Messages)
        /\ Len(taken) = IF 1 <= n THEN n - 1 + 1 ELSE 0
        /\ \A i \in 1..(n - 1 + 1) : taken[i] = p[1 + i - 1]
    BY <1>2, <2>1, SubSeqProperties
  <2> HIDE DEF taken
  <2>3. \A i \in 1..n : 1 + i - 1 = i /\ i \in 1..(n - 1 + 1)
    BY <1>2
  <2> QED BY <1>2, <2>2, <2>3
<1>4. /\ rest \in Seq(Messages) /\ Len(rest) = N - n
      /\ \A i \in 1..(N - n) : rest[i] = p[n + i]
  <2>1. \A i \in (n + 1)..N : p[i] \in Messages
    BY <1>1, <1>2
  <2>2. /\ rest \in Seq(Messages)
        /\ Len(rest) = IF n + 1 <= N THEN N - (n + 1) + 1 ELSE 0
        /\ \A i \in 1..(N - (n + 1) + 1) : rest[i] = p[n + 1 + i - 1]
    BY <1>1, <1>2, <2>1, SubSeqProperties
  <2> HIDE DEF rest
  <2>3. \A i \in 1..(N - n) : n + 1 + i - 1 = n + i /\ i \in 1..(N - (n + 1) + 1)
    BY <1>1, <1>2
  <2>4. Len(rest) = N - n
    BY <1>1, <1>2, <2>2
  <2> QED BY <2>2, <2>3, <2>4, Zenon
<1> HIDE DEF taken, rest
<1>5. \A x : x \in Range(taken) <=> \E i \in 1..n : p[i] = x
  <2>1. \A x : x \in Range(taken) <=> \E i \in 1..n : taken[i] = x
    BY <1>3, SeqParts
  <2> QED BY <1>3, <2>1, Zenon
<1>6. /\ \A x : x \in Range(rest) <=> \E i \in 1..Len(rest) : rest[i] = x
      /\ IsInjective(rest) <=> \A i, j \in 1..Len(rest) : rest[i] = rest[j] => i = j
  <2>1. rest \in Seq(Messages)
    BY <1>4, Zenon
  <2> QED BY <2>1, SeqParts, Zenon
<1>7. IsInjective(rest)
  <2> SUFFICES ASSUME NEW i \in 1..Len(rest), NEW j \in 1..Len(rest), rest[i] = rest[j]
               PROVE  i = j
    BY <1>6, Zenon
  <2>1. n + i \in 1..N /\ n + j \in 1..N /\ p[n + i] = p[n + j]
    BY <1>1, <1>2, <1>4
  <2>2. n + i = n + j
    BY <1>1, <2>1, Zenon
  <2> QED BY <1>2, <2>2
<1>8. Range(taken) \subseteq Range(p)
  <2> SUFFICES ASSUME NEW x \in Range(taken) PROVE x \in Range(p)
    BY Zenon
  <2>1. PICK i \in 1..n : p[i] = x
    BY <1>5, Zenon
  <2>2. i \in 1..N
    BY <1>1, <1>2
  <2> QED BY <1>1, <2>1, <2>2, Zenon
<1>9. Range(rest) \subseteq Range(p) \ Range(taken)
  <2> SUFFICES ASSUME NEW x \in Range(rest) PROVE x \in Range(p) /\ x \notin Range(taken)
    BY Zenon
  <2>1. PICK i \in 1..Len(rest) : rest[i] = x
    BY <1>6, Zenon
  <2>2. n + i \in 1..N /\ p[n + i] = x /\ n + i > n
    BY <1>1, <1>2, <1>4, <2>1
  <2>3. ASSUME NEW j \in 1..n, p[j] = x PROVE FALSE
    <3>1. j \in 1..N /\ j # n + i
      BY <1>1, <1>2, <2>2
    <3> QED BY <1>1, <2>2, <2>3, <3>1, Zenon
  <2> QED BY <1>1, <1>5, <2>2, <2>3, Zenon
<1>10. Range(p) \ Range(taken) \subseteq Range(rest)
  <2> SUFFICES ASSUME NEW x \in Range(p), x \notin Range(taken) PROVE x \in Range(rest)
    BY Zenon
  <2>1. PICK i \in 1..N : p[i] = x
    BY <1>1, Zenon
  <2>2. ~(i \in 1..n)
    BY <1>5, <2>1, Zenon
  <2>3. i - n \in 1..(N - n) /\ n + (i - n) = i
    BY <1>1, <1>2, <2>2
  <2>4. i - n \in 1..Len(rest) /\ rest[i - n] = x
    BY <1>4, <2>1, <2>3, Zenon
  <2> QED BY <1>6, <2>4, Zenon
<1> QED BY <1>3, <1>4, <1>7, <1>8, <1>9, <1>10, Zenon DEF taken, rest, N

\* The first keys of a channel leave it for new deliveries.
LEMMA ConsumeStep ==
    ASSUME QueueInv, NEW s \in Streams, NEW max \in Int, max >= 1, consume(s, max)
    PROVE  QueueInv'
<1> DEFINE p == pending[s]
           n == IF max < Len(p) THEN max ELSE Len(p)
           taken == SubSeq(p, 1, n)
           rest == SubSeq(p, n + 1, Len(p))
           L == Len(handed)
           D == (L + 1)..(L + n)
           R == Range(taken)
<1>1. /\ n > 0 /\ pending' = [pending EXCEPT ![s] = rest] /\ queued' = queued \ R
      /\ handed' = handed \o taken /\ inFlight' = inFlight \cup D
      /\ UNCHANGED <<live, unacked>>
  BY Zenon DEF consume
<1>2. /\ pending \in [Streams -> Seq(Messages)] /\ InUse = unacked
      /\ queued \cap Delivering(inFlight) = {} /\ queued \subseteq Messages
      /\ handed \in Seq(Messages) /\ inFlight \subseteq DOMAIN handed
      /\ \A c, e \in inFlight : handed[c] = handed[e] => c = e
  BY Zenon DEF QueueInv, QueueTypeOK, DeliveryInv
<1>3. p \in Seq(Messages) /\ IsInjective(p) /\ Range(p) = {x \in queued : Stream[x] = s}
  BY <1>2, Zenon DEF QueueInv, ChannelInv
<1>4. Len(p) \in Nat /\ \A i, j \in 1..Len(p) : p[i] = p[j] => i = j
  BY <1>3, SeqParts, Zenon
<1> HIDE DEF p
<1>5. n \in 1..Len(p) /\ n \in Nat /\ n >= 1
  BY <1>1, <1>4
<1> HIDE DEF n
<1>6. /\ taken \in Seq(Messages) /\ Len(taken) = n /\ \A i \in 1..n : taken[i] = p[i]
      /\ rest \in Seq(Messages) /\ IsInjective(rest)
      /\ R \subseteq Range(p) /\ Range(rest) = Range(p) \ R
  BY <1>3, <1>5, Split, Zenon
<1>7. L \in Nat /\ DOMAIN handed = 1..L
  BY <1>2, SeqParts, Zenon
<1> HIDE DEF taken, rest, L
<1>8. /\ handed' \in Seq(Messages) /\ Len(handed') = L + n /\ DOMAIN handed' = 1..(L + n)
      /\ \A i \in 1..L : handed'[i] = handed[i]
      /\ \A i \in 1..n : L + i \in D /\ handed'[L + i] = p[i]
  <2> DEFINE c == handed \o taken
  <2>1. /\ c \in Seq(Messages) /\ Len(c) = Len(handed) + Len(taken)
        /\ \A i \in 1..(Len(handed) + Len(taken)) :
              c[i] = IF i <= Len(handed) THEN handed[i] ELSE taken[i - Len(handed)]
    <3>1. handed \in Seq(Messages) /\ taken \in Seq(Messages)
      BY <1>2, <1>6, Zenon
    <3> QED BY <3>1, ConcatProperties, Zenon
  <2> HIDE DEF c
  <2>2. Len(c) = L + n /\ \A i \in 1..(L + n) : c[i] = IF i <= L THEN handed[i] ELSE taken[i - L]
    BY <1>6, <2>1, Zenon DEF L
  <2>3. \A i \in 1..L : c[i] = handed[i]
    BY <1>5, <1>7, <2>2
  <2>4. ASSUME NEW i \in 1..n PROVE L + i \in D /\ c[L + i] = p[i]
    <3>1. L + i \in 1..(L + n) /\ ~(L + i <= L) /\ L + i - L = i /\ L + i \in D
      BY <1>5, <1>7
    <3>2. ASSUME NEW k \in 1..(L + n), ~(k <= L), k - L = i PROVE c[k] = taken[i]
      BY <2>2, <3>2, Zenon
    <3>3. c[L + i] = taken[i]
      BY <1>5, <1>7, <3>1, <3>2
    <3> QED BY <1>6, <3>1, <3>3, Zenon
  <2>5. DOMAIN c = 1..(L + n)
    BY <2>1, <2>2, SeqParts, Zenon
  <2> QED BY <1>1, <2>1, <2>2, <2>3, <2>4, <2>5, Zenon DEF c
<1>9. ASSUME NEW d \in D PROVE d - L \in 1..n /\ handed'[d] = p[d - L] /\ d \notin 1..L
  <2>1. d - L \in 1..n /\ L + (d - L) = d /\ d \notin 1..L
    BY <1>5, <1>7
  <2> QED BY <1>8, <2>1, Zenon
<1>10. \A x : x \in R <=> \E i \in 1..n : p[i] = x
  <2>1. \A x : x \in R <=> \E i \in 1..Len(taken) : taken[i] = x
    BY <1>6, SeqParts, Zenon
  <2> QED BY <1>6, <2>1, Zenon
<1>11. R \subseteq queued /\ \A x \in R : Stream[x] = s
  BY <1>3, <1>6, Zenon
<1>12. Delivering(inFlight)' = Delivering(inFlight) \cup R
  <2>1. ASSUME NEW x \in Delivering(inFlight)' PROVE x \in Delivering(inFlight) \cup R
    <3>1. PICK d \in inFlight' : handed'[d] = x
      BY Zenon DEF Delivering
    <3>2. CASE d \in inFlight
      BY <1>2, <1>7, <1>8, <3>1, <3>2, Zenon DEF Delivering
    <3>3. CASE d \in D
      BY <1>9, <1>10, <3>1, <3>3, Zenon
    <3> QED BY <1>1, <3>2, <3>3, Zenon
  <2>2. ASSUME NEW x \in Delivering(inFlight) PROVE x \in Delivering(inFlight)'
    <3>1. PICK d \in inFlight : handed[d] = x
      BY Zenon DEF Delivering
    <3>2. d \in inFlight' /\ handed'[d] = x
      BY <1>1, <1>2, <1>7, <1>8, <3>1, Zenon
    <3> QED BY <3>2, Zenon DEF Delivering
  <2>3. ASSUME NEW x \in R PROVE x \in Delivering(inFlight)'
    <3>1. PICK i \in 1..n : p[i] = x
      BY <1>10, Zenon
    <3>2. L + i \in inFlight' /\ handed'[L + i] = x
      BY <1>1, <1>8, <3>1, Zenon
    <3> QED BY <3>2, Zenon DEF Delivering
  <2> QED BY <2>1, <2>2, <2>3, Zenon
<1>13. QueueTypeOK'
  <2>1. pending' \in [Streams -> Seq(Messages)]
    BY <1>1, <1>2, <1>6, Zenon
  <2>2. inFlight' \subseteq DOMAIN handed'
    BY <1>1, <1>2, <1>5, <1>7, <1>8
  <2>3. live \in Seq(Messages) /\ unacked \subseteq Messages
    BY Zenon DEF QueueInv, QueueTypeOK
  <2> QED BY <1>1, <1>2, <1>8, <2>1, <2>2, <2>3, Zenon DEF QueueTypeOK
<1>14. ASSUME NEW c \in inFlight', NEW e \in inFlight', handed'[c] = handed'[e]
       PROVE  c = e
  <2>1. ASSUME NEW a \in inFlight, NEW b \in D PROVE handed'[a] # handed'[b]
    <3>1. handed'[a] \in Delivering(inFlight)
      BY <1>2, <1>7, <1>8, Zenon DEF Delivering
    <3>2. handed'[b] \in queued
      BY <1>9, <1>10, <1>11, Zenon
    <3> QED BY <1>2, <3>1, <3>2, Zenon
  <2>2. CASE c \in inFlight /\ e \in inFlight
    <3>1. handed'[c] = handed[c] /\ handed'[e] = handed[e]
      BY <1>2, <1>7, <1>8, <2>2, Zenon
    <3> QED BY <1>2, <1>14, <2>2, <3>1, Zenon
  <2>3. CASE c \in D /\ e \in D
    <3>1. /\ c - L \in 1..Len(p) /\ e - L \in 1..Len(p) /\ c \in Int /\ e \in Int
          /\ p[c - L] = p[e - L]
      BY <1>4, <1>5, <1>7, <1>9, <1>14, <2>3
    <3>2. c - L = e - L
      BY <1>4, <3>1, Zenon
    <3> QED BY <1>7, <3>1, <3>2
  <2> QED BY <1>1, <1>14, <2>1, <2>2, <2>3, Zenon
<1>15. DeliveryInv'
  <2>1. queued' \cap Delivering(inFlight)' = {}
    BY <1>1, <1>2, <1>12, Zenon
  <2>2. InUse' = unacked'
    BY <1>1, <1>2, <1>11, <1>12, Zenon DEF InUse
  <2> QED BY <1>14, <2>1, <2>2, Zenon DEF DeliveryInv
<1>16. ChannelInv'
  <2> SUFFICES ASSUME NEW t \in Streams
               PROVE  /\ IsInjective(pending'[t])
                      /\ Range(pending'[t]) = {x \in queued' : Stream[x] = t}
    BY Zenon DEF ChannelInv
  <2>1. IsInjective(pending[t]) /\ Range(pending[t]) = {x \in queued : Stream[x] = t}
    BY Zenon DEF QueueInv, ChannelInv
  <2>2. CASE t = s
    <3>1. pending'[t] = rest
      BY <1>1, <1>2, <2>2, Zenon
    <3> QED BY <1>1, <1>3, <1>6, <2>2, <3>1, Zenon
  <2>3. CASE t # s
    <3>1. pending'[t] = pending[t]
      BY <1>1, <1>2, <2>3, Zenon
    <3> QED BY <1>1, <1>11, <2>1, <2>3, <3>1, Zenon
  <2> QED BY <2>2, <2>3, Zenon
<1>17. MemoryInv'
  BY <1>1, <1>11, <1>12, Zenon DEF QueueInv, MemoryInv, InUse
<1>18. IsFiniteSet(queued') /\ IsFiniteSet(inFlight') /\ occupied' = occupied
  <2>1. /\ IsFiniteSet(queued) /\ IsFiniteSet(inFlight)
        /\ Cardinality(queued) \in Nat /\ Cardinality(inFlight) \in Nat
    BY InUseSize, Zenon DEF QueueInv
  <2>2. IsFiniteSet(D) /\ Cardinality(D) = n
    <3>1. L + 1 \in Int /\ L + n \in Int /\ ~(L + 1 > L + n) /\ L + n - (L + 1) + 1 = n
      BY <1>5, <1>7
    <3>2. ASSUME NEW a \in Int, NEW b \in Int, ~(a > b)
          PROVE  IsFiniteSet(a..b) /\ Cardinality(a..b) = b - a + 1
      BY <3>2, FS_Interval, Zenon
    <3>3. IsFiniteSet(D) /\ Cardinality(D) = L + n - (L + 1) + 1
      BY <1>5, <1>7, <3>1, <3>2
    <3> HIDE DEF D
    <3> QED BY <3>1, <3>3, Zenon
  <2>3. IsFiniteSet(R) /\ Cardinality(R) = n
    <3> DEFINE I == 1..n
    <3>1. IsFiniteSet(I) /\ Cardinality(I) = n
      BY <1>5, FS_Interval
    <3>2. \A i, j \in I : p[i] = p[j] => i = j
      BY <1>4, <1>5
    <3>3. R = {p[i] : i \in I}
      BY <1>10, Zenon
    <3> HIDE DEF I, R
    <3> QED BY <3>1, <3>2, <3>3, ImageSize, Zenon
  <2>4. inFlight \cap D = {} /\ queued \cap R = R
    BY <1>2, <1>7, <1>9, <1>11, Zenon
  <2> HIDE DEF D, R
  <2>5. IsFiniteSet(queued') /\ Cardinality(queued') = Cardinality(queued) - n
    <3>1. /\ IsFiniteSet(queued \ R)
          /\ Cardinality(queued \ R) = Cardinality(queued) - Cardinality(queued \cap R)
      BY <2>1, FS_Difference, Zenon
    <3> QED BY <1>1, <2>3, <2>4, <3>1, Zenon
  <2>6. IsFiniteSet(inFlight') /\ Cardinality(inFlight') = Cardinality(inFlight) + n
    <3>1. Cardinality(inFlight \cap D) = 0
      BY <2>4, FS_EmptySet, Zenon
    <3>2. /\ IsFiniteSet(inFlight \cup D)
          /\ Cardinality(inFlight \cup D) =
                Cardinality(inFlight) + Cardinality(D) - Cardinality(inFlight \cap D)
      BY <2>1, <2>2, FS_Union, Zenon
    <3> QED BY <1>1, <1>5, <2>1, <2>2, <3>1, <3>2
  <2> QED BY <1>5, <2>1, <2>5, <2>6 DEF occupied
<1>19. MemoryBounded'
  BY <1>1, <1>18, Zenon DEF QueueInv, MemoryBounded
<1> QED BY <1>13, <1>15, <1>16, <1>17, <1>18, <1>19, Zenon DEF QueueInv

-----------------------------------------------------------------------------
(* The theorems.                                                           *)

LEMMA QueueStep == QueueInv /\ [QueueNext]_queueVars => QueueInv'
<1> SUFFICES ASSUME QueueInv, [QueueNext]_queueVars PROVE QueueInv'
  BY Zenon
<1>1. ASSUME NEW m \in Messages, publish(m) PROVE QueueInv'
  BY <1>1, PublishStep, Zenon
<1>2. ASSUME NEW s \in Streams, NEW n \in 1..MaxBatch, consume(s, n) PROVE QueueInv'
  <2>1. n \in Int /\ n >= 1
    OBVIOUS
  <2> QED BY <1>2, <2>1, ConsumeStep, Zenon
<1>3. ASSUME NEW d, ack(d) \/ nack(d) PROVE QueueInv'
  BY <1>3, AckStep, NackStep, Zenon
<1>4. CASE UNCHANGED queueVars
  <2>1. Delivering(inFlight)' = Delivering(inFlight) /\ InUse' = InUse /\ occupied' = occupied
    BY <1>4, Zenon DEF queueVars, Delivering, InUse, occupied
  <2> QED BY <1>4, <2>1, Zenon DEF queueVars, QueueInv, QueueTypeOK, DeliveryInv, ChannelInv, MemoryInv,
             MemoryBounded
<1> QED BY <1>1, <1>2, <1>3, <1>4, Zenon DEF QueueNext

LEMMA QueueAlways == QueueSpec => []QueueInv
BY QueueInvInit, QueueStep, PTL DEF QueueSpec

\* Whatever is published, retried, consumed, acked and nacked, in any order, an
\* accepted publication waits on its channel exactly once or is in flight under
\* exactly one delivery until it is acked, and is nowhere after; and
\* evict_tombstones always finds a key to forget, so that neither the capacity
\* nor the tombstone cap is ever passed.
THEOREM NothingLost == QueueSpec => []NoneLost
<1>1. QueueInv => HeldOnce
  <2> SUFFICES ASSUME QueueInv PROVE HeldOnce
    BY Zenon
  <2>1. Cardinality(Delivering(inFlight)) = Cardinality(inFlight)
    BY InUseSize, Zenon
  <2> QED BY <2>1, Zenon DEF QueueInv, DeliveryInv, ChannelInv, InUse, HeldOnce
<1>2. QueueInv => NoneLost
  BY <1>1, Zenon DEF QueueInv, NoneLost
<1> QED BY <1>2, QueueAlways, PTL
=============================================================================
