------------------------ MODULE EventPipelineProofs ------------------------
(***************************************************************************)
(* Proofs about EventPipeline: its types, JournalIsPrefix, OncePerKey and  *)
(* the refinement of EventLog, for any commands, streams, readers, batch,  *)
(* page and bus sizes and number of daemon instances.                      *)
(***************************************************************************)
EXTENDS EventPipeline, SequenceTheorems, FiniteSetTheorems,
        WellFoundedInduction, TLAPS

-----------------------------------------------------------------------------
(* The inductive invariants.                                               *)

Commits == Cardinality(Commands)

\* The outbox has no key twice, hence no more rows than there are commands.
OutboxInv ==
    /\ \A s \in Streams : Len(outbox[s]) <= Commits
    /\ \A s, t \in Streams :
          \A i \in 1..Len(outbox[s]), j \in 1..Len(outbox[t]) :
              Key[outbox[s][i]] = Key[outbox[t][j]] => s = t /\ i = j

\* Place by place, the journal of a stream is the beginning of its outbox.
PrefixInv ==
    \A s \in Streams :
        /\ Len(journal[s]) <= Len(outbox[s])
        /\ \A i \in 1..Len(journal[s]) : journal[s][i] = outbox[s][i]

InJournal(r) == r[2] <= Len(journal[r[1]])

\* The rows of a stream up to and with r.
UpTo(r) == {<<r[1], j>> : j \in 1..r[2]}

MarkedInv ==
    \A r \in marked : InJournal(r) /\ UpTo(r) \subseteq marked

\* A dispatcher holds rows of the outbox, with all that come before them and
\* are not marked; while it is not superseded, none that is marked.  The groups
\* it has done are in the journal.
BatchOK(w) ==
    /\ w > fence => pc[w] = "down"
    /\ pc[w] \in {"down", "idle"} => batch[w] = {}
    /\ pc[w] \in {"read", "append"} =>
          /\ at[w] \in Streams
          /\ \A r \in batch[w] : r[1] < at[w] => InJournal(r)
    /\ pc[w] = "append" =>
          /\ from[w] <= Final(w)
          /\ \A r \in Group(w) : r[2] <= from[w] => InJournal(r)
    /\ pc[w] = "mark" => \A r \in batch[w] : InJournal(r)
    /\ pc[w] \in {"read", "append", "mark"} =>
          /\ \A r \in batch[w] : /\ r[2] <= Len(outbox[r[1]])
                                 /\ UpTo(r) \subseteq marked \cup batch[w]
          /\ fence = w => batch[w] \cap marked = {}
    /\ pc[w] = "publish" => batch[w] \subseteq marked

BatchInv == \A w \in Epoch : BatchOK(w)

\* The rows that instance w has marked and not published yet.
Outgoing(w) == IF pc[w] = "publish" THEN batch[w] ELSE {}

\* The rows a subscription is still to see from its bus.
Coming(u) == {buf[u][i] : i \in 1..Len(buf[u])} \cup Outgoing(host[u])

\* What the bus holds for u is marked and, stream by stream, in order; a
\* subscription is with an instance that was started.
BusOK(u) ==
    /\ sub[u] = "off" => host[u] = 0 /\ buf[u] = <<>> /\ ~lost[u]
    /\ sub[u] # "off" => host[u] \in 1..fence
    /\ lost[u] => buf[u] = <<>>
    /\ \A i \in 1..Len(buf[u]) : buf[u][i] \in marked
    /\ \A i, j \in 1..Len(buf[u]) :
          i < j /\ buf[u][i][1] = buf[u][j][1] => buf[u][i][2] < buf[u][j][2]
    /\ sub[u] # "off" =>
          \A i \in 1..Len(buf[u]) : \A r \in Outgoing(host[u]) :
              buf[u][i][1] = r[1] => buf[u][i][2] < r[2]

BusInv == \A u \in Readers : BusOK(u)

\* What the client of u has is the first Seen(u) events of the journal.
Seen(u) == Len(got[u])

GotOK(u) ==
    /\ Seen(u) <= Len(journal[ReadStream[u]])
    /\ \A i \in 1..Seen(u) : got[u][i] = i

GotInv == \A u \in Readers : GotOK(u)

\* A subscription that follows the bus misses nothing: what is to come from
\* the bus has no gap after what was seen, and if its instance is not
\* superseded, every marked row not seen is to come.
NoGap(u) ==
    \A r \in Coming(u) : r[1] = ReadStream[u] =>
        \A j \in (Seen(u) + 1)..r[2] : <<ReadStream[u], j>> \in Coming(u)

NoneMissed(u) ==
    \A r \in marked : r[1] = ReadStream[u] /\ r[2] > Seen(u) => r \in Coming(u)

LiveOK(u) ==
    sub[u] = "live" /\ ~lost[u] =>
        NoGap(u) /\ (host[u] = fence => NoneMissed(u))

LiveInv == \A u \in Readers : LiveOK(u)

-----------------------------------------------------------------------------
(* Facts about the constants, numbers, sequences and rows.                 *)

LEMMA Sizes ==
    /\ Commits \in Nat
    /\ \A s \in Streams : s \in Nat \ {0} /\ s <= StreamCount
    /\ \A w \in Epoch : w \in Nat \ {0} /\ w <= MaxEpoch
    /\ {StreamCount, BatchLimit, PageLimit, BusCapacity} \subseteq Nat \ {0}
    /\ {MaxEpoch, MaxFaults} \subseteq Nat
BY PipelineAssumption, FS_CardinalityType DEF Commits, Streams, Epoch

LEMMA RowParts ==
    /\ \A r \in Rows : /\ r[1] \in Streams /\ r[2] \in 1..Commits
                       /\ r = <<r[1], r[2]>>
    /\ \A s \in Streams, i \in 1..Commits : <<s, i>> \in Rows
BY DEF Rows, Commits

LEMMA LeastNat ==
    ASSUME NEW T \in SUBSET Nat, T # {}
    PROVE  \E m \in T : \A y \in T : m <= y
<1>1. PICK m \in T : \A y \in T : ~(<<y, m>> \in OpToRel(<, Nat))
  BY NatLessThanWellFounded, WFMin, Zenon
<1>2. \A y \in T : ~(y < m)
  BY <1>1, Zenon DEF OpToRel
<1> QED BY <1>2

LEMMA MinOf ==
    ASSUME NEW T \in SUBSET Nat, T # {}
    PROVE  Min(T) \in T /\ \A y \in T : Min(T) <= y
<1>1. \E m \in T : \A y \in T : m <= y
  BY LeastNat, Zenon
<1> QED BY <1>1, Zenon DEF Min

LEMMA MaxOf ==
    ASSUME NEW n \in Nat, NEW T \in SUBSET (0..n), T # {}
    PROVE  Max(T) \in T /\ \A y \in T : Max(T) >= y
<1> DEFINE U == {b \in 0..n : \A y \in T : b >= y}
<1>1. n \in U /\ U \in SUBSET Nat
  OBVIOUS
<1>2. PICK m \in U : \A b \in U : m <= b
  BY <1>1, LeastNat, Zenon
<1>3. m \in T
  <2> SUFFICES ASSUME m \notin T PROVE FALSE
    BY Zenon
  <2>1. \A y \in T : y \in Int /\ y < m
    BY <1>2
  <2>2. m \in 0..n /\ m > 0
    <3>1. PICK y \in T : TRUE
      BY Zenon
    <3> QED BY <1>2, <2>1, <3>1
  <2>3. m - 1 \in U
    BY <2>1, <2>2
  <2> QED BY <1>2, <2>2, <2>3
<1>4. \E x \in T : \A y \in T : x >= y
  BY <1>2, <1>3, Zenon
<1> QED BY <1>4, Zenon DEF Max

\* What an append that finds the head it expects leaves in the journal.
Joined(j, o, n) == j \o SubSeq(o, Len(j) + 1, n)

LEMMA Extended ==
    ASSUME NEW S, NEW o \in Seq(S), NEW j \in Seq(S),
           NEW n \in Nat, Len(j) <= n, n <= Len(o)
    PROVE  /\ Joined(j, o, n) \in Seq(S) /\ Len(Joined(j, o, n)) = n
           /\ \A i \in 1..Len(j) : Joined(j, o, n)[i] = j[i]
           /\ \A i \in (Len(j) + 1)..n : Joined(j, o, n)[i] = o[i]
<1> DEFINE m == Len(j)
           t == SubSeq(o, m + 1, n)
<1>1. m \in Nat /\ Len(o) \in Nat /\ m <= n
  BY LenProperties, Zenon
<1>2. \A i \in (m + 1)..n : o[i] \in S
  BY <1>1, ElementOfSeq
<1>3. /\ t \in Seq(S) /\ Len(t) = n - m
      /\ \A i \in 1..(n - m) : t[i] = o[m + i]
  BY <1>1, <1>2, SubSeqProperties
<1> HIDE DEF t
<1>4. /\ j \o t \in Seq(S) /\ Len(j \o t) = n
      /\ \A i \in 1..n : (j \o t)[i] = IF i <= m THEN j[i] ELSE t[i - m]
  BY <1>1, <1>3, ConcatProperties
<1>5. \A i \in (m + 1)..n : t[i - m] = o[i]
  <2> TAKE i \in (m + 1)..n
  <2>1. i - m \in 1..(n - m) /\ m + (i - m) = i
    BY <1>1
  <2> QED BY <1>3, <2>1, Zenon
<1> HIDE DEF m
<1>6. \A i \in 1..m : (j \o t)[i] = j[i]
  <2> SUFFICES ASSUME NEW i \in 1..m PROVE (j \o t)[i] = j[i]
    BY Zenon
  <2>1. i \in 1..n /\ i <= m
    BY <1>1
  <2> QED BY <1>4, <2>1, Zenon
<1>7. \A i \in (m + 1)..n : (j \o t)[i] = o[i]
  <2> SUFFICES ASSUME NEW i \in (m + 1)..n PROVE (j \o t)[i] = o[i]
    BY Zenon
  <2>1. i \in 1..n /\ ~(i <= m)
    BY <1>1
  <2> QED BY <1>4, <1>5, <2>1, Zenon
<1> QED BY <1>4, <1>6, <1>7, Zenon DEF m, t, Joined

-----------------------------------------------------------------------------
(* The parts of the type invariant, and the groups of a batch.             *)

KernelTypeOK ==
    /\ fence \in 0..MaxEpoch
    /\ outbox \in [Streams -> Seq(Commands)]
    /\ marked \subseteq Rows
    /\ reply \in [Commands -> {"none", "ok", "conflict"}]
    /\ journal \in [Streams -> Seq(Commands)]
    /\ faults \in 0..MaxFaults

DispatcherTypeOK ==
    /\ pc \in [Epoch -> {"down", "idle", "read", "append", "mark", "publish"}]
    /\ batch \in [Epoch -> SUBSET Rows]
    /\ at \in [Epoch -> 0..StreamCount]
    /\ from \in [Epoch -> Nat]

ReaderTypeOK ==
    /\ sub \in [Readers -> {"off", "replay", "live"}]
    /\ host \in [Readers -> 0..MaxEpoch]
    /\ buf \in [Readers -> Seq(Rows)]
    /\ lost \in [Readers -> BOOLEAN]
    /\ got \in [Readers -> Seq(Nat)]
    /\ \A u \in Readers : Len(buf[u]) <= BusCapacity

\* A dispatcher in an iteration has something to work on.
BusyAt(w) ==
    /\ pc[w] \in {"read", "append"} => Group(w) # {}
    /\ pc[w] \in {"mark", "publish"} => batch[w] # {}

BusyOK == \A w \in Epoch : BusyAt(w)

LEMMA TypeParts ==
    TypeOK <=> KernelTypeOK /\ DispatcherTypeOK /\ ReaderTypeOK /\ BusyOK
BY Zenon DEF TypeOK, KernelTypeOK, DispatcherTypeOK, ReaderTypeOK, BusyOK,
       BusyAt

LEMMA TypeNext ==
    ASSUME KernelTypeOK', DispatcherTypeOK', ReaderTypeOK', BusyOK'
    PROVE  TypeOK'
BY Zenon DEF TypeOK, KernelTypeOK, DispatcherTypeOK, ReaderTypeOK, BusyOK, BusyAt

\* Len of what the store and the journal have of a stream.
LEMMA Lengths ==
    ASSUME KernelTypeOK, NEW s \in Streams
    PROVE  /\ Len(outbox[s]) \in Nat /\ Len(journal[s]) \in Nat
           /\ outbox[s] \in Seq(Commands) /\ journal[s] \in Seq(Commands)
           /\ \A i \in 1..Len(outbox[s]) : outbox[s][i] \in Commands
           /\ \A i \in 1..Len(journal[s]) : journal[s][i] \in Commands
<1>1. outbox[s] \in Seq(Commands) /\ journal[s] \in Seq(Commands)
  BY Zenon DEF KernelTypeOK
<1> QED BY <1>1, LenProperties, ElementOfSeq, Zenon

LEMMA FirstStreamOf ==
    ASSUME NEW rows \in SUBSET Rows, rows # {}
    PROVE  /\ FirstStream(rows) \in Streams
           /\ \E r \in rows : r[1] = FirstStream(rows)
           /\ \A r \in rows : FirstStream(rows) <= r[1]
<1> DEFINE T == {r[1] : r \in rows}
<1>1. T \subseteq Streams /\ T # {}
  BY RowParts, Zenon
<1>2. T \in SUBSET Nat
  BY <1>1, Sizes, Zenon
<1>3. FirstStream(rows) \in T /\ \A y \in T : FirstStream(rows) <= y
  BY <1>1, <1>2, MinOf, Zenon DEF FirstStream
<1> QED BY <1>1, <1>3, Zenon

LEMMA GroupEnds ==
    ASSUME DispatcherTypeOK, NEW w \in Epoch, Group(w) # {}
    PROVE  /\ at[w] \in Streams
           /\ Final(w) \in 1..Commits /\ First(w) \in 1..Final(w)
           /\ <<at[w], Final(w)>> \in Group(w)
           /\ \A r \in Group(w) : First(w) <= r[2] /\ r[2] <= Final(w)
<1> DEFINE T == {r[2] : r \in Group(w)}
<1>1. \A r \in Group(w) : r \in batch[w] /\ r \in Rows /\ r[1] = at[w]
  BY Zenon DEF Group, DispatcherTypeOK
<1>2. T \subseteq 1..Commits /\ T # {} /\ at[w] \in Streams
  BY <1>1, RowParts, Zenon
<1>3. T \in SUBSET Nat /\ T \in SUBSET (0..Commits)
  BY <1>2, Sizes
<1>4. First(w) \in T /\ \A y \in T : First(w) <= y
  BY <1>2, <1>3, MinOf, Zenon DEF First
<1>5. Final(w) \in T /\ \A y \in T : Final(w) >= y
  BY <1>2, <1>3, MaxOf, Sizes, Zenon DEF Final
<1>6. PICK z \in Group(w) : z[2] = Final(w)
  BY <1>5, Zenon
<1>7. <<at[w], Final(w)>> \in Group(w)
  BY <1>1, <1>6, RowParts, Zenon
<1>8. First(w) \in Nat /\ Final(w) \in Nat
  BY <1>3, <1>4, <1>5, Zenon
<1>9. \A r \in Group(w) : r[2] \in T
  BY Zenon
<1> HIDE DEF T
<1>10. \A r \in Group(w) : First(w) <= r[2] /\ r[2] <= Final(w)
  <2> TAKE r \in Group(w)
  <2>1. r[2] \in T /\ r[2] \in Nat
    BY <1>3, <1>9, Zenon
  <2> QED BY <1>4, <1>5, <1>8, <2>1, Zenon
<1>11. First(w) <= Final(w) /\ First(w) \in 1..Commits
  BY <1>2, <1>4, <1>5, Zenon
<1>12. First(w) \in 1..Final(w)
  BY <1>8, <1>11, Sizes
<1> QED BY <1>2, <1>5, <1>7, <1>10, <1>12, Zenon

\* recorded_prefix finds a place, and the journal has the group up to it.
LEMMA RecordedOf ==
    ASSUME DispatcherTypeOK, NEW w \in Epoch, Group(w) # {}
    PROVE  /\ RecordedUpTo(w) \in Nat /\ RecordedUpTo(w) <= Final(w)
           /\ \A r \in Group(w) : r[2] <= RecordedUpTo(w) => Matches(r)
<1> DEFINE T == {k \in (First(w) - 1)..Final(w) :
                    k = Final(w) \/ ~Matches(<<at[w], k + 1>>)}
<1>1. First(w) \in Nat \ {0} /\ Final(w) \in Nat /\ First(w) <= Final(w)
  <2>1. Final(w) \in 1..Commits /\ First(w) \in 1..Final(w)
    BY GroupEnds, Zenon
  <2> QED BY <2>1, Sizes
<1>2. T \in SUBSET Nat /\ Final(w) \in T
  BY <1>1
<1>3. PICK n \in T : \A y \in T : n <= y
  BY <1>2, LeastNat, Zenon
<1>4. ASSUME NEW r \in Group(w), r[2] <= n PROVE Matches(r)
  <2>1. r \in Rows /\ r = <<at[w], r[2]>> /\ First(w) <= r[2] /\ r[2] <= Final(w)
    BY GroupEnds, RowParts, Zenon DEF Group, DispatcherTypeOK
  <2>2. r[2] \in Nat
    BY <2>1, RowParts, Sizes
  <2>3. r[2] - 1 \in (First(w) - 1)..Final(w) /\ ~(n <= r[2] - 1)
        /\ r[2] - 1 # Final(w) /\ (r[2] - 1) + 1 = r[2]
    BY <1>1, <1>2, <1>3, <1>4, <2>1, <2>2
  <2> QED BY <1>3, <2>1, <2>3, Zenon
<1>5. \E k \in (First(w) - 1)..Final(w) :
        /\ \A r \in Group(w) : r[2] <= k => Matches(r)
        /\ k = Final(w) \/ ~Matches(<<at[w], k + 1>>)
  BY <1>3, <1>4, Zenon
<1>6. /\ RecordedUpTo(w) \in (First(w) - 1)..Final(w)
      /\ \A r \in Group(w) : r[2] <= RecordedUpTo(w) => Matches(r)
  BY <1>5, Zenon DEF RecordedUpTo
<1> QED BY <1>1, <1>6

-----------------------------------------------------------------------------
(* What the steps of a dispatcher do to its own state.                     *)

\* The other dispatchers stand still.
OnlyDispatcher(w) ==
    \A v \in Epoch \ {w} : /\ pc'[v] = pc[v] /\ batch'[v] = batch[v]
                           /\ at'[v] = at[v] /\ from'[v] = from[v]

LEMMA BusyOthers ==
    ASSUME BusyOK, NEW w \in Epoch, OnlyDispatcher(w), BusyAt(w)'
    PROVE  BusyOK'
BY DEF BusyOK, BusyAt, OnlyDispatcher, Group

\* Boot, Crash and Idle: the instance is left with an empty batch.
LEMMA RestStep ==
    ASSUME DispatcherTypeOK, BusyOK, NEW w \in Epoch,
           NEW p \in {"down", "idle"}, pc' = [pc EXCEPT ![w] = p],
           \/ batch' = [batch EXCEPT ![w] = {}] /\ at' = [at EXCEPT ![w] = 0]
              /\ from' = [from EXCEPT ![w] = 0]
           \/ UNCHANGED <<batch, at, from>>
    PROVE  /\ DispatcherTypeOK' /\ BusyOK' /\ OnlyDispatcher(w) /\ pc'[w] = p
           /\ batch'[w] \in {batch[w], {}}
           /\ ~UNCHANGED batch => batch'[w] = {}
<1>1. /\ DispatcherTypeOK' /\ OnlyDispatcher(w) /\ pc'[w] = p
      /\ batch'[w] \in {batch[w], {}} /\ (~UNCHANGED batch => batch'[w] = {})
  BY Sizes DEF DispatcherTypeOK, OnlyDispatcher
<1>2. BusyAt(w)'
  BY <1>1, Zenon DEF BusyAt
<1> QED BY <1>1, <1>2, BusyOthers, Zenon

LEMMA IdleStep ==
    ASSUME DispatcherTypeOK, BusyOK, NEW w \in Epoch, Idle(w)
    PROVE  /\ DispatcherTypeOK' /\ BusyOK' /\ OnlyDispatcher(w)
           /\ pc'[w] = "idle" /\ batch'[w] = {}
<1>1. /\ DispatcherTypeOK' /\ OnlyDispatcher(w)
      /\ pc'[w] = "idle" /\ batch'[w] = {}
  BY Sizes DEF DispatcherTypeOK, OnlyDispatcher, Idle
<1>2. BusyAt(w)'
  BY <1>1, Zenon DEF BusyAt
<1> QED BY <1>1, <1>2, BusyOthers, Zenon

\* The next group is of the first stream after this one; without one the
\* batch is marked.
LEMMA NextGroupStep ==
    ASSUME DispatcherTypeOK, BusyOK, NEW w \in Epoch, Group(w) # {},
           NextGroup(w)
    PROVE  /\ DispatcherTypeOK' /\ BusyOK' /\ OnlyDispatcher(w)
           /\ batch' = batch
           /\ \/ pc'[w] = "mark" /\ \A r \in batch[w] : r[1] <= at[w]
              \/ /\ pc'[w] = "read" /\ at'[w] \in Streams
                 /\ \A r \in batch[w] : r[1] < at'[w] => r[1] <= at[w]
<1> DEFINE left == {r \in batch[w] : r[1] > at[w]}
<1>0. /\ batch[w] \in SUBSET Rows /\ batch[w] # {}
      /\ left \in SUBSET Rows /\ at[w] \in Streams
  BY GroupEnds, Zenon DEF DispatcherTypeOK, Group
<1>1. \A r \in batch[w] : r[1] \in Nat /\ at[w] \in Nat
  BY <1>0, RowParts, Sizes, Zenon
<1>2. batch' = batch /\ from' = [from EXCEPT ![w] = 0]
  BY Zenon DEF NextGroup
<1>3. CASE left = {}
  <2>1. pc' = [pc EXCEPT ![w] = "mark"] /\ at' = [at EXCEPT ![w] = 0]
    BY <1>3, Zenon DEF NextGroup
  <2>2. /\ DispatcherTypeOK' /\ OnlyDispatcher(w) /\ pc'[w] = "mark"
    BY <1>2, <2>1, Sizes DEF DispatcherTypeOK, OnlyDispatcher
  <2>3. \A r \in batch[w] : r[1] <= at[w]
    BY <1>1, <1>3
  <2>4. BusyAt(w)'
    BY <1>0, <1>2, <2>2, Zenon DEF BusyAt
  <2> QED BY <1>2, <2>2, <2>3, <2>4, BusyOthers, Zenon
<1>4. CASE left # {}
  <2> DEFINE s == FirstStream(left)
  <2>1. pc' = [pc EXCEPT ![w] = "read"] /\ at' = [at EXCEPT ![w] = s]
    BY <1>4, Zenon DEF NextGroup
  <2>2. s \in Streams /\ (\E r \in left : r[1] = s) /\ \A r \in left : s <= r[1]
    BY <1>0, <1>4, FirstStreamOf, Zenon
  <2> HIDE DEF s
  <2>3. s \in 0..StreamCount
    BY <2>2, Sizes
  <2>4. /\ DispatcherTypeOK' /\ OnlyDispatcher(w) /\ pc'[w] = "read"
        /\ at'[w] = s
    BY <1>2, <2>1, <2>3, Zenon DEF DispatcherTypeOK, OnlyDispatcher
  <2>5. \A r \in batch[w] : r[1] < s => r[1] <= at[w]
    <3> SUFFICES ASSUME NEW r \in batch[w], r[1] < s, ~(r[1] <= at[w])
                 PROVE  FALSE
      BY Zenon
    <3>1. r \in left
      BY <1>1
    <3> QED BY <1>1, <2>2, <2>3, <3>1
  <2>6. BusyAt(w)'
    BY <1>2, <2>2, <2>4, Zenon DEF BusyAt, Group
  <2> QED BY <1>2, <2>2, <2>4, <2>5, <2>6, BusyOthers, Zenon
<1> QED BY <1>3, <1>4, Zenon

LEMMA ScanStep ==
    ASSUME DispatcherTypeOK, BusyOK, NEW w \in Epoch, Scan(w)
    PROVE  /\ DispatcherTypeOK' /\ BusyOK' /\ OnlyDispatcher(w)
           /\ pc'[w] = "read" /\ at'[w] \in Streams
           /\ batch'[w] \in SUBSET Unpublished
           /\ \A r \in batch'[w] : at'[w] <= r[1]
           /\ \A r \in batch'[w], q \in Unpublished \ batch'[w] : Before(r, q)
<1>1. PICK rows \in (SUBSET Unpublished) \ {{}} :
          /\ \A r \in rows, q \in Unpublished \ rows : Before(r, q)
          /\ batch' = [batch EXCEPT ![w] = rows]
          /\ at' = [at EXCEPT ![w] = FirstStream(rows)]
  BY Zenon DEF Scan
<1>2. rows \in SUBSET Rows /\ rows # {}
  BY Zenon DEF Unpublished
<1> DEFINE s == FirstStream(rows)
<1>3. s \in Streams /\ (\E r \in rows : r[1] = s) /\ \A r \in rows : s <= r[1]
  BY <1>2, FirstStreamOf, Zenon
<1>4. s \in 0..StreamCount
  BY <1>3, Sizes
<1>5. at' = [at EXCEPT ![w] = s]
  BY <1>1, Zenon
<1> HIDE DEF s
<1>6. /\ DispatcherTypeOK' /\ OnlyDispatcher(w)
      /\ pc'[w] = "read" /\ batch'[w] = rows /\ at'[w] = s
  BY <1>1, <1>2, <1>4, <1>5 DEF Scan, DispatcherTypeOK, OnlyDispatcher
<1>7. BusyAt(w)'
  BY <1>3, <1>6, Zenon DEF BusyAt, Group
<1> QED BY <1>1, <1>3, <1>6, <1>7, BusyOthers, Zenon

\* The journal has the group, or the group is appended, or the iteration ends.
LEMMA ReadBackStep ==
    ASSUME DispatcherTypeOK, BusyOK, NEW w \in Epoch, ReadBack(w)
    PROVE  \/ Idle(w)
           \/ NextGroup(w) /\ \A r \in Group(w) : Matches(r)
           \/ /\ DispatcherTypeOK' /\ BusyOK' /\ OnlyDispatcher(w)
              /\ pc'[w] = "append" /\ batch' = batch /\ at' = at
              /\ from'[w] <= Final(w)
              /\ \A r \in Group(w) : r[2] <= from'[w] => Matches(r)
<1>1. Group(w) # {}
  BY Zenon DEF ReadBack, BusyOK, BusyAt
<1>2. /\ RecordedUpTo(w) \in Nat /\ RecordedUpTo(w) <= Final(w)
      /\ \A r \in Group(w) : r[2] <= RecordedUpTo(w) => Matches(r)
  BY <1>1, RecordedOf, Zenon
<1>3. CASE RecordedUpTo(w) = Final(w) /\ NextGroup(w)
  BY <1>1, <1>2, <1>3, GroupEnds, Zenon
<1>4. CASE /\ pc' = [pc EXCEPT ![w] = "append"]
           /\ from' = [from EXCEPT ![w] = RecordedUpTo(w)]
           /\ UNCHANGED <<batch, at>>
  <2>1. /\ DispatcherTypeOK' /\ OnlyDispatcher(w)
        /\ pc'[w] = "append" /\ batch' = batch /\ at' = at
        /\ from'[w] = RecordedUpTo(w)
    BY <1>2, <1>4, Zenon DEF DispatcherTypeOK, OnlyDispatcher
  <2>2. BusyAt(w)'
    BY <1>1, <2>1, Zenon DEF BusyAt, Group
  <2> QED BY <1>2, <2>1, <2>2, BusyOthers, Zenon
<1> QED BY <1>3, <1>4, Zenon DEF ReadBack

\* What is in the outbox and in the journal stays there, at its place, and
\* what is marked stays marked.
Grown ==
    /\ \A s \in Streams :
          /\ Len(outbox[s]) <= Len(outbox'[s])
          /\ \A i \in 1..Len(outbox[s]) : outbox'[s][i] = outbox[s][i]
          /\ Len(journal[s]) <= Len(journal'[s])
          /\ \A i \in 1..Len(journal[s]) : journal'[s][i] = journal[s][i]
    /\ marked \subseteq marked'

\* The append of a group: its end becomes the end of the stream's journal, and
\* the places up to there come from the outbox.
LEMMA JournalAppendStep ==
    ASSUME TypeOK, NEW w \in Epoch, BatchOK(w), JournalAppend(w)
    PROVE  \/ Idle(w) /\ UNCHANGED journal
           \/ /\ NextGroup(w) /\ UNCHANGED journal
              /\ \A r \in Group(w) : InJournal(r)
           \/ /\ NextGroup(w) /\ at[w] \in Streams
              /\ journal' \in [Streams -> Seq(Commands)]
              /\ \A s \in Streams \ {at[w]} : journal'[s] = journal[s]
              /\ Len(journal[at[w]]) <= Final(w)
              /\ Len(journal'[at[w]]) = Final(w)
              /\ Final(w) <= Len(outbox[at[w]])
              /\ \A i \in 1..Len(journal[at[w]]) :
                    journal'[at[w]][i] = journal[at[w]][i]
              /\ \A i \in (Len(journal[at[w]]) + 1)..Final(w) :
                    journal'[at[w]][i] = outbox[at[w]][i]
<1> DEFINE s == at[w]
           rest == {r \in Group(w) : r[2] > from[w]}
           valid == {r[2] : r \in rest} = (from[w] + 1)..Final(w)
           n == Final(w)
<1>0. pc[w] = "append" /\ Group(w) # {} /\ KernelTypeOK /\ DispatcherTypeOK
  BY TypeParts, Zenon DEF JournalAppend, BusyOK, BusyAt
<1>1. /\ s \in Streams /\ n \in Nat /\ <<s, n>> \in Group(w)
      /\ from[w] <= n /\ from[w] \in Nat
  BY <1>0, GroupEnds, Sizes DEF BatchOK, DispatcherTypeOK
<1>2. <<s, n>> \in batch[w]
  BY <1>1, Zenon DEF Group
<1>3. n <= Len(outbox[s])
  BY <1>0, <1>2, Zenon DEF BatchOK
<1>4. CASE valid /\ Len(journal[s]) = from[w]
  <2> DEFINE k == Joined(journal[s], outbox[s], n)
  <2>1. NextGroup(w) /\ journal' = [journal EXCEPT ![s] = k]
    <3>1. /\ NextGroup(w)
          /\ journal' = [journal EXCEPT ![s] =
                            @ \o SubSeq(outbox[s], from[w] + 1, n)]
      BY <1>4, Zenon DEF JournalAppend
    <3> QED BY <1>0, <1>1, <1>4, <3>1, Zenon DEF KernelTypeOK, Joined
  <2>2. /\ k \in Seq(Commands) /\ Len(k) = n
        /\ \A i \in 1..Len(journal[s]) : k[i] = journal[s][i]
        /\ \A i \in (Len(journal[s]) + 1)..n : k[i] = outbox[s][i]
    <3>1. outbox[s] \in Seq(Commands) /\ journal[s] \in Seq(Commands)
      BY <1>0, <1>1, Lengths, Zenon
    <3>2. n \in Nat /\ Len(journal[s]) <= n /\ n <= Len(outbox[s])
      BY <1>1, <1>3, <1>4, Zenon
    <3> HIDE DEF s, n
    <3> QED BY <3>1, <3>2, Extended
  <2> HIDE DEF k
  <2>3. /\ journal' \in [Streams -> Seq(Commands)] /\ journal'[s] = k
        /\ \A t \in Streams \ {s} : journal'[t] = journal[t]
    BY <1>0, <1>1, <2>1, <2>2, Zenon DEF KernelTypeOK
  <2> QED BY <1>1, <1>3, <1>4, <2>1, <2>2, <2>3, Zenon
<1>5. CASE valid /\ (\A r \in rest : Matches(r)) /\ NextGroup(w) /\ UNCHANGED journal
  <2>1. ASSUME NEW r \in Group(w) PROVE InJournal(r)
    <3>1. r[2] \in Nat
      BY RowParts, Sizes, <1>0 DEF Group, DispatcherTypeOK
    <3> QED BY <1>0, <1>1, <1>5, <3>1 DEF BatchOK, Matches, InJournal
  <2> QED BY <1>5, <2>1, Zenon
<1>6. CASE Idle(w) /\ UNCHANGED journal
  BY <1>6, Zenon
<1> QED BY <1>4, <1>5, <1>6, Zenon DEF JournalAppend

LEMMA GrownUnchanged ==
    ASSUME KernelTypeOK, UNCHANGED <<outbox, journal>>, marked \subseteq marked'
    PROVE  Grown
BY Lengths DEF Grown

\* Execute appends to the outbox of a stream or leaves the outbox alone.
LEMMA ExecuteStep ==
    ASSUME KernelTypeOK, NEW w \in Epoch, NEW c \in Commands, Execute(w, c)
    PROVE  \/ UNCHANGED outbox /\ Recorded(Key[c]) # {}
           \/ /\ Recorded(Key[c]) = {}
              /\ Stream[c] \in Streams
              /\ outbox' = [outbox EXCEPT ![Stream[c]] = Append(@, c)]
              /\ outbox' \in [Streams -> Seq(Commands)]
              /\ \A s \in Streams \ {Stream[c]} : outbox'[s] = outbox[s]
              /\ Len(outbox'[Stream[c]]) = Len(outbox[Stream[c]]) + 1
              /\ \A i \in 1..Len(outbox[Stream[c]]) :
                    outbox'[Stream[c]][i] = outbox[Stream[c]][i]
              /\ outbox'[Stream[c]][Len(outbox'[Stream[c]])] = c
<1> DEFINE s == Stream[c]
           o == Append(outbox[s], c)
<1>1. s \in Streams
  BY PipelineAssumption, Zenon
<1>2. CASE Recorded(Key[c]) # {}
  BY <1>2, Zenon DEF Execute
<1>3. CASE Recorded(Key[c]) = {}
  <2>1. outbox' = [outbox EXCEPT ![s] = o]
    BY <1>3, Zenon DEF Execute
  <2>2. /\ o \in Seq(Commands) /\ Len(o) = Len(outbox[s]) + 1
        /\ \A i \in 1..Len(outbox[s]) : o[i] = outbox[s][i]
        /\ o[Len(outbox[s]) + 1] = c
    BY <1>1, Lengths, AppendProperties
  <2>3. outbox' = [outbox EXCEPT ![s] = Append(@, c)]
    BY <1>3, Zenon DEF Execute
  <2> HIDE DEF o
  <2>4. /\ outbox' \in [Streams -> Seq(Commands)] /\ outbox'[s] = o
        /\ \A t \in Streams \ {s} : outbox'[t] = outbox[t]
    BY <1>1, <2>1, <2>2, Zenon DEF KernelTypeOK
  <2> QED BY <1>1, <1>3, <2>2, <2>3, <2>4, Zenon
<1> QED BY <1>2, <1>3, Zenon

LEMMA GrownStep ==
    ASSUME TypeOK, BatchInv, [Next]_vars
    PROVE  Grown
<1> USE TypeParts DEF kernel
<1>1. ASSUME NEW w \in Epoch, NEW c \in Commands, Execute(w, c)
      PROVE  Grown
  <2>1. UNCHANGED <<marked, journal>>
    BY <1>1, Zenon DEF Execute
  <2>2. \A s \in Streams : Len(outbox[s]) \in Nat /\ Len(journal[s]) \in Nat
    BY Lengths, Zenon
  <2> QED BY <1>1, <2>1, <2>2, ExecuteStep, GrownUnchanged DEF Grown
<1>2. ASSUME NEW w \in Epoch, JournalAppend(w)
      PROVE  Grown
  <2>1. UNCHANGED <<marked, outbox>> /\ BatchOK(w)
    BY <1>2, Zenon DEF JournalAppend, BatchInv
  <2>2. \A s \in Streams : Len(outbox[s]) \in Nat /\ Len(journal[s]) \in Nat
    BY Lengths, Zenon
  <2> QED BY <1>2, <2>1, <2>2, JournalAppendStep, GrownUnchanged DEF Grown
<1>3. CASE UNCHANGED <<outbox, journal>> /\ marked \subseteq marked'
  BY <1>3, GrownUnchanged, Zenon
<1>4. CASE UNCHANGED vars \/ \E u \in Readers :
               \/ Replay(u) \/ Follow(u) \/ Lagged(u) \/ Disconnect(u)
               \/ \E w \in Epoch : Subscribe(u, w)
  BY <1>3, <1>4, Zenon DEF vars, Replay, Follow, Lagged, Disconnect, Subscribe
<1>5. CASE \E w \in Epoch : \/ Boot(w) \/ Crash(w) \/ DispatchFails(w)
                            \/ Scan(w) \/ ReadBack(w) \/ Mark(w) \/ Publish(w)
  BY <1>3, <1>5, Zenon DEF Boot, Crash, DispatchFails, Scan, ReadBack, Mark, Publish
<1> QED BY <1>1, <1>2, <1>4, <1>5, Zenon DEF Next, Dispatch

-----------------------------------------------------------------------------
(* The outbox: a key is committed once.                                    *)

LEMMA OnlyExecute ==
    ASSUME [Next]_vars
    PROVE  \/ UNCHANGED <<outbox, reply>>
           \/ \E w \in Epoch, c \in Commands : Execute(w, c)
<1> USE DEF kernel
<1>1. CASE UNCHANGED vars \/ \E u \in Readers :
               \/ Replay(u) \/ Follow(u) \/ Lagged(u) \/ Disconnect(u)
               \/ \E w \in Epoch : Subscribe(u, w)
  BY <1>1, Zenon DEF vars, Replay, Follow, Lagged, Disconnect, Subscribe
<1>2. CASE \E w \in Epoch : \/ Boot(w) \/ Crash(w) \/ DispatchFails(w)
                            \/ Scan(w) \/ ReadBack(w) \/ Mark(w) \/ Publish(w)
                            \/ JournalAppend(w)
  BY <1>2 DEF Boot, Crash, DispatchFails, Scan, ReadBack, Mark, Publish,
              JournalAppend
<1> QED BY <1>1, <1>2, Zenon DEF Next, Dispatch

\* The lookup of a key that finds nothing means that no row has the key.
LEMMA LookupSound ==
    ASSUME KernelTypeOK, OutboxInv, NEW k, Recorded(k) = {},
           NEW s \in Streams, NEW i \in 1..Len(outbox[s])
    PROVE  Key[outbox[s][i]] # k
<1>1. Len(outbox[s]) \in Nat /\ Len(outbox[s]) <= Commits
  BY Lengths, Zenon DEF OutboxInv
<1>2. <<s, i>> \in Rows
  BY <1>1, RowParts, Sizes
<1>3. <<s, i>>[1] = s /\ <<s, i>>[2] = i /\ i <= Len(outbox[s])
  BY <1>1
<1>4. Key[outbox[s][i]] = k => <<s, i>> \in Committed(k)
  BY <1>2, <1>3, Zenon DEF Committed
<1> QED BY <1>4, Zenon DEF Recorded

LEMMA OutboxStep ==
    ASSUME TypeOK, OutboxInv, [Next]_vars
    PROVE  OutboxInv'
<1>1. CASE UNCHANGED outbox
  BY <1>1 DEF OutboxInv, Commits
<1>2. ASSUME NEW w \in Epoch, NEW c \in Commands, Execute(w, c),
             ~UNCHANGED outbox
      PROVE  OutboxInv'
  <2> DEFINE t == Stream[c]
             n == Len(outbox[t]) + 1
  <2>1. /\ KernelTypeOK /\ Recorded(Key[c]) = {} /\ t \in Streams
        /\ outbox' \in [Streams -> Seq(Commands)]
        /\ \A s \in Streams \ {t} : outbox'[s] = outbox[s]
        /\ Len(outbox'[t]) = n
        /\ \A i \in 1..Len(outbox[t]) : outbox'[t][i] = outbox[t][i]
        /\ outbox'[t][n] = c
    BY <1>2, TypeParts, ExecuteStep, Zenon
  <2>2. \A s \in Streams : Len(outbox[s]) \in Nat /\ Len(outbox[s]) <= Commits
    BY <2>1, Lengths, Zenon DEF OutboxInv
  <2>3. \A s \in Streams : \A i \in 1..Len(outbox[s]) : Key[outbox[s][i]] # Key[c]
    BY <2>1, LookupSound, Zenon
  <2>4. \A s, q \in Streams :
            \A i \in 1..Len(outbox[s]), j \in 1..Len(outbox[q]) :
                Key[outbox[s][i]] = Key[outbox[q][j]] => s = q /\ i = j
    BY Zenon DEF OutboxInv
  <2> HIDE DEF t
  <2>5. \A s \in Streams : \A i \in 1..Len(outbox'[s]) :
            \/ i \in 1..Len(outbox[s]) /\ outbox'[s][i] = outbox[s][i]
            \/ s = t /\ i = n /\ outbox'[s][i] = c
    BY <2>1, <2>2
  <2> HIDE DEF n
  <2>6. ASSUME NEW s \in Streams, NEW q \in Streams,
               NEW i \in 1..Len(outbox'[s]), NEW j \in 1..Len(outbox'[q]),
               Key[outbox'[s][i]] = Key[outbox'[q][j]]
        PROVE  s = q /\ i = j
    <3> DEFINE Old(x, a) == a \in 1..Len(outbox[x]) /\ outbox'[x][a] = outbox[x][a]
               New(x, a) == x = t /\ a = n /\ outbox'[x][a] = c
    <3>1. (Old(s, i) \/ New(s, i)) /\ (Old(q, j) \/ New(q, j))
      BY <2>5, Zenon
    <3>2. CASE Old(s, i) /\ Old(q, j)
      BY <2>4, <2>6, <3>2
    <3>3. CASE Old(s, i) /\ New(q, j)
      BY <2>3, <2>6, <3>3, Zenon
    <3>4. CASE New(s, i) /\ Old(q, j)
      BY <2>3, <2>6, <3>4, Zenon
    <3>5. CASE New(s, i) /\ New(q, j)
      BY <3>5, Zenon
    <3> QED BY <3>1, <3>2, <3>3, <3>4, <3>5, Zenon
  <2>7. Len(outbox'[t]) <= Commits
    <3> DEFINE f == outbox'[t]
    <3>1. f \in [1..n -> Commands] /\ n \in Nat
      BY <2>1, <2>2, LenProperties DEF n
    <3>2. IsFiniteSet(1..n) /\ Cardinality(1..n) = n
      BY <3>1, FS_Interval
    <3>3. \A x, y \in 1..n : f[x] = f[y] => x = y
      BY <2>1, <2>6
    <3> HIDE DEF f
    <3>4. ~(Commits < n)
      BY <3>1, <3>2, <3>3, FS_PigeonHole, PipelineAssumption DEF Commits
    <3> QED BY <2>1, <3>1, <3>4, Sizes
  <2>8. \A s \in Streams : Len(outbox'[s]) <= Commits
    BY <2>1, <2>2, <2>7, Zenon
  <2> QED BY <2>6, <2>8, Zenon DEF OutboxInv, Commits
<1> QED BY <1>1, <1>2, OnlyExecute, Zenon

-----------------------------------------------------------------------------
(* The journal and the marks.                                              *)

LEMMA OnlyAppend ==
    ASSUME [Next]_vars
    PROVE  \/ UNCHANGED journal
           \/ \E w \in Epoch : JournalAppend(w)
<1>1. CASE UNCHANGED vars \/ \E u \in Readers :
               \/ Replay(u) \/ Follow(u) \/ Lagged(u) \/ Disconnect(u)
               \/ \E w \in Epoch : Subscribe(u, w)
  BY <1>1, Zenon DEF vars, Replay, Follow, Lagged, Disconnect, Subscribe
<1>2. CASE \E w \in Epoch : \/ Boot(w) \/ Crash(w) \/ DispatchFails(w)
                            \/ Scan(w) \/ ReadBack(w) \/ Mark(w) \/ Publish(w)
                            \/ \E c \in Commands : Execute(w, c)
  BY <1>2, Zenon DEF Boot, Crash, DispatchFails, Scan, ReadBack, Mark, Publish, Execute
<1> QED BY <1>1, <1>2, Zenon DEF Next, Dispatch

LEMMA OnlyMark ==
    ASSUME [Next]_vars
    PROVE  \/ UNCHANGED marked
           \/ \E w \in Epoch : Mark(w) /\ fence = w
<1> USE DEF kernel
<1>1. CASE UNCHANGED vars \/ \E u \in Readers :
               \/ Replay(u) \/ Follow(u) \/ Lagged(u) \/ Disconnect(u)
               \/ \E w \in Epoch : Subscribe(u, w)
  BY <1>1, Zenon DEF vars, Replay, Follow, Lagged, Disconnect, Subscribe
<1>2. CASE \E w \in Epoch : \/ Boot(w) \/ Crash(w) \/ DispatchFails(w)
                            \/ Scan(w) \/ ReadBack(w) \/ Publish(w)
                            \/ JournalAppend(w) \/ \E c \in Commands : Execute(w, c)
  BY <1>2, Zenon DEF Boot, Crash, DispatchFails, Scan, ReadBack, Publish,
              JournalAppend, Execute
<1>3. CASE \E w \in Epoch : Mark(w)
  BY <1>3, Zenon DEF Mark
<1> QED BY <1>1, <1>2, <1>3, Zenon DEF Next, Dispatch

LEMMA PrefixStep ==
    ASSUME TypeOK, PrefixInv, BatchInv, [Next]_vars
    PROVE  PrefixInv'
<1>0. Grown /\ KernelTypeOK
  BY GrownStep, TypeParts, Zenon
<1>1. \A s \in Streams : Len(outbox[s]) \in Nat /\ Len(journal[s]) \in Nat
  BY <1>0, Lengths, Zenon
<1>2. CASE UNCHANGED journal
  <2> SUFFICES ASSUME NEW s \in Streams
               PROVE  /\ Len(journal[s]) <= Len(outbox'[s])
                      /\ \A i \in 1..Len(journal[s]) : journal[s][i] = outbox'[s][i]
    BY <1>2, Zenon DEF PrefixInv
  <2>1. Len(outbox'[s]) \in Int
    <3>1. CASE UNCHANGED outbox
      BY <1>1, <3>1
    <3>2. CASE \E w \in Epoch, c \in Commands : Execute(w, c)
      BY <1>0, <1>1, <3>2, ExecuteStep
    <3> QED BY <3>1, <3>2, OnlyExecute, Zenon
  <2> QED BY <1>0, <1>1, <2>1 DEF Grown, PrefixInv
<1>3. ASSUME NEW w \in Epoch, JournalAppend(w), ~UNCHANGED journal
      PROVE  PrefixInv'
  <2> DEFINE t == at[w]
             n == Final(w)
  <2>1. /\ t \in Streams
        /\ \A s \in Streams \ {t} : journal'[s] = journal[s]
        /\ Len(journal'[t]) = n /\ n <= Len(outbox[t]) /\ outbox' = outbox
        /\ \A i \in 1..Len(journal[t]) : journal'[t][i] = journal[t][i]
        /\ \A i \in (Len(journal[t]) + 1)..n : journal'[t][i] = outbox[t][i]
    BY <1>3, JournalAppendStep, Zenon DEF BatchInv, JournalAppend, kernel
  <2> HIDE DEF t, n
  <2> QED BY <1>1, <2>1 DEF PrefixInv
<1> QED BY <1>2, <1>3, OnlyAppend, Zenon

LEMMA MarkedStep ==
    ASSUME TypeOK, MarkedInv, BatchInv, [Next]_vars
    PROVE  MarkedInv'
<1>0. Grown /\ KernelTypeOK /\ DispatcherTypeOK
  BY GrownStep, TypeParts, Zenon
<1>1. \A r \in marked : InJournal(r)' /\ UpTo(r) \subseteq marked'
  <2> TAKE r \in marked
  <2>1. r[1] \in Streams /\ r[2] \in Int
    BY <1>0, RowParts, Sizes DEF KernelTypeOK
  <2>2. Len(journal[r[1]]) \in Nat /\ Len(journal'[r[1]]) \in Int
    <3>1. Len(journal[r[1]]) \in Nat
      BY <1>0, <2>1, Lengths, Zenon
    <3>2. journal'[r[1]] = journal[r[1]] \/ journal' \in [Streams -> Seq(Commands)]
      BY OnlyAppend, JournalAppendStep, Zenon DEF BatchInv
    <3>3. CASE journal' \in [Streams -> Seq(Commands)]
      BY <2>1, <3>1, <3>3, LenProperties
    <3> QED BY <3>1, <3>2, <3>3
  <2>3. r[2] <= Len(journal[r[1]]) /\ UpTo(r) \subseteq marked
    BY Zenon DEF MarkedInv, InJournal
  <2> QED BY <1>0, <2>1, <2>2, <2>3 DEF Grown, InJournal
<1>2. CASE UNCHANGED marked
  BY <1>1, <1>2, Zenon DEF MarkedInv, UpTo
<1>3. ASSUME NEW w \in Epoch, Mark(w), fence = w PROVE MarkedInv'
  <2>1. /\ marked' = marked \cup batch[w] /\ journal' = journal
        /\ pc[w] = "mark" /\ BatchOK(w)
    BY <1>3, Zenon DEF Mark, BatchInv
  <2>2. ASSUME NEW r \in batch[w] PROVE InJournal(r)' /\ UpTo(r) \subseteq marked'
    BY <2>1, Zenon DEF BatchOK, InJournal
  <2> QED BY <1>1, <2>1, <2>2, Zenon DEF MarkedInv, UpTo
<1> QED BY <1>2, <1>3, OnlyMark, Zenon

-----------------------------------------------------------------------------
(* Type correctness.                                                       *)

\* A client's cursor is the number of events it has.
LEMMA CursorSeen ==
    ASSUME ReaderTypeOK, GotInv, NEW u \in Readers
    PROVE  Cursor(u) = Seen(u) /\ Seen(u) \in Nat
<1>1. got[u] \in Seq(Nat)
  BY Zenon DEF ReaderTypeOK
<1>2. Len(got[u]) \in Nat /\ (got[u] # <<>> => Len(got[u]) \in Nat \ {0})
      /\ Len(<<>>) = 0
  BY <1>1, LenProperties, EmptySeq, Zenon
<1>3. CASE got[u] = <<>>
  BY <1>2, <1>3, Zenon DEF Cursor, Seen
<1>4. CASE got[u] # <<>>
  <2>1. Len(got[u]) \in 1..Len(got[u])
    BY <1>2, <1>4
  <2>2. got[u][Len(got[u])] = Len(got[u])
    BY <2>1, Zenon DEF GotInv, GotOK, Seen
  <2> QED BY <1>2, <1>4, <2>2, Zenon DEF Cursor, Seen
<1> QED BY <1>3, <1>4, Zenon

LEMMA TypeUnchanged ==
    /\ KernelTypeOK /\ UNCHANGED <<kernel, journal>> /\ (UNCHANGED faults \/ Fault)
          => KernelTypeOK'
    /\ DispatcherTypeOK /\ BusyOK /\ UNCHANGED dispatcher
          => DispatcherTypeOK' /\ BusyOK'
    /\ ReaderTypeOK /\ UNCHANGED readers => ReaderTypeOK'
<1>1. ASSUME KernelTypeOK, UNCHANGED <<kernel, journal>>, UNCHANGED faults \/ Fault
      PROVE  KernelTypeOK'
  BY <1>1, Sizes DEF KernelTypeOK, kernel, Fault
<1>2. ASSUME DispatcherTypeOK, BusyOK, UNCHANGED dispatcher
      PROVE  DispatcherTypeOK' /\ BusyOK'
  BY <1>2, Zenon DEF DispatcherTypeOK, BusyOK, BusyAt, Group, dispatcher
<1>3. ASSUME ReaderTypeOK, UNCHANGED readers PROVE ReaderTypeOK'
  BY <1>3, Zenon DEF ReaderTypeOK, readers
<1> QED BY <1>1, <1>2, <1>3, Zenon

LEMMA TypeReaders ==
    ASSUME TypeOK, GotInv, NEW u \in Readers,
           \/ Replay(u) \/ Follow(u) \/ Lagged(u) \/ Disconnect(u)
           \/ \E w \in Epoch : Subscribe(u, w)
    PROVE  TypeOK'
<1>0. KernelTypeOK /\ DispatcherTypeOK /\ ReaderTypeOK /\ BusyOK
  BY TypeParts, Zenon
<1>1. KernelTypeOK' /\ DispatcherTypeOK' /\ BusyOK'
  BY <1>0, TypeUnchanged, Zenon
     DEF Replay, Follow, Lagged, Disconnect, Subscribe
<1> SUFFICES ReaderTypeOK'
  BY <1>1, TypeNext, Zenon
<1>2. /\ buf[u] \in Seq(Rows) /\ got[u] \in Seq(Nat) /\ Len(buf[u]) <= BusCapacity
      /\ Len(<<>>) = 0 /\ Len(buf[u]) \in Nat
      /\ \A v \in Readers : Len(buf[v]) <= BusCapacity
  BY <1>0, EmptySeq, LenProperties, Zenon DEF ReaderTypeOK
<1>3. CASE \E w \in Epoch : Subscribe(u, w)
  BY <1>0, <1>3, Sizes DEF Subscribe, ReaderTypeOK
<1>4. CASE Replay(u)
  <2> DEFINE tail == Len(journal[ReadStream[u]]) - Cursor(u)
             n == IF tail < PageLimit THEN tail ELSE PageLimit
             page == [i \in 1..n |-> Cursor(u) + i]
  <2>1. Cursor(u) \in Nat /\ tail \in Nat
    <3>1. ReadStream[u] \in Streams
      BY PipelineAssumption, Zenon
    <3>2. Len(journal[ReadStream[u]]) \in Nat
      BY <1>0, <3>1, Lengths, Zenon
    <3> QED BY <1>0, <3>2, CursorSeen DEF GotInv, GotOK
  <2>2. n \in Nat
    BY <2>1, Sizes, Zenon
  <2>3. page \in Seq(Nat)
    BY <2>1, <2>2, IsASeq
  <2>4. got[u] \o page \in Seq(Nat)
    BY <1>2, <2>3, ConcatProperties, Zenon
  <2>5. /\ sub' \in [Readers -> {"off", "replay", "live"}]
        /\ got' = got \/ got' = [got EXCEPT ![u] = got[u] \o page]
        /\ UNCHANGED <<host, buf, lost>>
    BY <1>0, <1>4, Zenon DEF Replay, ReaderTypeOK
  <2> HIDE DEF page
  <2> QED BY <1>0, <2>4, <2>5, Zenon DEF ReaderTypeOK
<1>5. CASE Follow(u)
  <2>1. buf[u] # <<>>
    BY <1>5, Zenon DEF Follow
  <2>2. /\ Tail(buf[u]) \in Seq(Rows) /\ Len(Tail(buf[u])) <= BusCapacity
        /\ Head(buf[u]) \in Rows
    BY <1>2, <2>1, HeadTailProperties, Sizes
  <2>3. Append(got[u], Head(buf[u])[2]) \in Seq(Nat)
    <3>1. Head(buf[u])[2] \in 1..Commits
      BY <2>2, RowParts, Zenon
    <3>2. \A i \in 1..Commits : i \in Nat
      BY Sizes
    <3>3. got[u] \in Seq(Nat)
      BY <1>2, Zenon
    <3> QED BY <3>1, <3>2, <3>3, AppendProperties, Zenon
  <2>4. /\ buf' = [buf EXCEPT ![u] = Tail(buf[u])]
        /\ \/ got' = got
           \/ got' = [got EXCEPT ![u] = Append(got[u], Head(buf[u])[2])]
        /\ UNCHANGED <<sub, host, lost>>
    BY <1>0, <1>5, Zenon DEF Follow, ReaderTypeOK
  <2>5. buf' \in [Readers -> Seq(Rows)] /\ got' \in [Readers -> Seq(Nat)]
    BY <1>0, <2>2, <2>3, <2>4, Zenon DEF ReaderTypeOK
  <2>6. \A v \in Readers : Len(buf'[v]) <= BusCapacity
    BY <1>0, <1>2, <2>2, <2>4, Zenon DEF ReaderTypeOK
  <2> QED BY <1>0, <2>4, <2>5, <2>6, Zenon DEF ReaderTypeOK
<1>6. CASE Lagged(u) \/ Disconnect(u)
  <2>1. Detach(u) /\ UNCHANGED got
    BY <1>6, Zenon DEF Lagged, Disconnect
  <2>2. buf' \in [Readers -> Seq(Rows)]
    BY <1>0, <2>1, EmptySeq, Zenon DEF Detach, ReaderTypeOK
  <2>3. \A v \in Readers : Len(buf'[v]) <= BusCapacity
    BY <1>0, <1>2, <2>1, Sizes DEF Detach, ReaderTypeOK
  <2> QED BY <1>0, <2>1, <2>2, <2>3, Sizes DEF Detach, ReaderTypeOK
<1> QED BY <1>3, <1>4, <1>5, <1>6, Zenon

\* A publication removes its row from the batch and hands it to the readers.
LEMMA PublishStep ==
    ASSUME DispatcherTypeOK, BusyOK, NEW w \in Epoch, Publish(w)
    PROVE  /\ DispatcherTypeOK' /\ BusyOK' /\ OnlyDispatcher(w)
           /\ \E r \in batch[w] :
                 /\ r \in Rows
                 /\ \A q \in batch[w] \ {r} : Before(r, q)
                 /\ batch'[w] = batch[w] \ {r}
                 /\ pc'[w] = "publish" \/ (pc'[w] = "idle" /\ batch'[w] = {})
                 /\ LET listening == {u \in Readers : host[u] = w /\ ~lost[u]}
                        full == {u \in listening : Len(buf[u]) = BusCapacity}
                    IN /\ buf' = [u \in Readers |->
                                    IF u \in full THEN <<>>
                                    ELSE IF u \in listening THEN Append(buf[u], r)
                                    ELSE buf[u]]
                       /\ lost' = [u \in Readers |-> lost[u] \/ u \in full]
<1>1. PICK r \in batch[w] :
          /\ \A q \in batch[w] \ {r} : Before(r, q)
          /\ LET listening == {u \in Readers : host[u] = w /\ ~lost[u]}
                 full == {u \in listening : Len(buf[u]) = BusCapacity}
             IN /\ buf' = [u \in Readers |->
                              IF u \in full THEN <<>>
                              ELSE IF u \in listening THEN Append(buf[u], r)
                              ELSE buf[u]]
                /\ lost' = [u \in Readers |-> lost[u] \/ u \in full]
          /\ IF batch[w] = {r} THEN Idle(w)
             ELSE /\ batch' = [batch EXCEPT ![w] = @ \ {r}]
                  /\ UNCHANGED <<pc, at, from>>
  BY Zenon DEF Publish
<1>2. pc[w] = "publish" /\ batch[w] \in SUBSET Rows
  BY Zenon DEF Publish, DispatcherTypeOK
<1>3. /\ DispatcherTypeOK' /\ BusyOK' /\ OnlyDispatcher(w)
      /\ batch'[w] = batch[w] \ {r}
      /\ pc'[w] = "publish" \/ (pc'[w] = "idle" /\ batch'[w] = {})
  <2>1. CASE batch[w] = {r}
    <3>1. Idle(w)
      BY <1>1, <2>1, Zenon
    <3> QED BY <2>1, <3>1, IdleStep, Zenon
  <2>2. CASE batch[w] # {r}
    <3>1. batch' = [batch EXCEPT ![w] = @ \ {r}] /\ UNCHANGED <<pc, at, from>>
      BY <1>1, <2>2, Zenon
    <3>2. /\ DispatcherTypeOK' /\ OnlyDispatcher(w)
          /\ batch'[w] = batch[w] \ {r} /\ pc'[w] = "publish"
      BY <1>2, <3>1, Zenon DEF DispatcherTypeOK, OnlyDispatcher
    <3>3. BusyAt(w)'
      BY <2>2, <3>2, Zenon DEF BusyAt
    <3>4. BusyOK'
      BY <3>2, <3>3, BusyOthers, Zenon
    <3> QED BY <3>2, <3>4, Zenon
  <2> QED BY <2>1, <2>2, Zenon
<1> QED BY <1>1, <1>2, <1>3, Zenon

LEMMA TypeDispatchers ==
    ASSUME TypeOK, BatchInv, NEW w \in Epoch,
           \/ Boot(w) \/ Crash(w) \/ Dispatch(w) \/ DispatchFails(w)
           \/ \E c \in Commands : Execute(w, c)
    PROVE  TypeOK'
<1>0. /\ KernelTypeOK /\ DispatcherTypeOK /\ ReaderTypeOK /\ BusyOK
      /\ BatchOK(w)
  BY TypeParts, Zenon DEF BatchInv
<1>1. CASE Boot(w)
  <2>1. KernelTypeOK'
    BY <1>0, <1>1, Sizes DEF Boot, KernelTypeOK
  <2>2. DispatcherTypeOK' /\ BusyOK'
    BY <1>0, <1>1, RestStep, Zenon DEF Boot
  <2> QED BY <1>0, <1>1, <2>1, <2>2, TypeUnchanged, TypeNext, Zenon DEF Boot
<1>2. CASE Crash(w)
  <2>1. DispatcherTypeOK' /\ BusyOK'
    BY <1>0, <1>2, RestStep, Zenon DEF Crash
  <2>2. KernelTypeOK'
    BY <1>0, <1>2, TypeUnchanged, Zenon DEF Crash
  <2>3. /\ sub' \in [Readers -> {"off", "replay", "live"}]
        /\ host' \in [Readers -> 0..MaxEpoch]
        /\ got' \in [Readers -> Seq(Nat)]
    BY <1>0, <1>2, Sizes DEF Crash, ReaderTypeOK
  <2>4. lost' \in [Readers -> BOOLEAN]
    BY <1>0, <1>2, Zenon DEF Crash, ReaderTypeOK
  <2>5. \A u \in Readers : buf'[u] = buf[u] \/ buf'[u] = <<>>
    BY <1>2, Zenon DEF Crash
  <2>6. buf' \in [Readers -> Seq(Rows)]
    BY <1>0, <1>2, EmptySeq, Zenon DEF Crash, ReaderTypeOK
  <2>7. \A u \in Readers : Len(buf'[u]) <= BusCapacity
    BY <1>0, <2>5, EmptySeq, Sizes DEF ReaderTypeOK
  <2>8. ReaderTypeOK'
    BY <2>3, <2>4, <2>6, <2>7, Zenon DEF ReaderTypeOK
  <2> QED BY <2>1, <2>2, <2>8, TypeNext, Zenon
<1>3. CASE DispatchFails(w)
  BY <1>0, <1>3, IdleStep, TypeUnchanged, TypeNext, Zenon DEF DispatchFails
<1>4. CASE Scan(w)
  BY <1>0, <1>4, ScanStep, TypeUnchanged, TypeNext, Zenon DEF Scan
<1>5. CASE ReadBack(w)
  <2>1. Group(w) # {}
    BY <1>0, <1>5, Zenon DEF ReadBack, BusyOK, BusyAt
  <2>2. DispatcherTypeOK' /\ BusyOK'
    BY <1>0, <1>5, <2>1, ReadBackStep, IdleStep, NextGroupStep, Zenon
  <2> QED BY <1>0, <1>5, <2>2, TypeUnchanged, TypeNext, Zenon DEF ReadBack
<1>6. CASE JournalAppend(w)
  <2>1. Group(w) # {}
    BY <1>0, <1>6, Zenon DEF JournalAppend, BusyOK, BusyAt
  <2>2. DispatcherTypeOK' /\ BusyOK'
    BY <1>0, <1>6, <2>1, JournalAppendStep, IdleStep, NextGroupStep, Zenon
  <2>3. journal' \in [Streams -> Seq(Commands)]
    BY <1>0, <1>6, JournalAppendStep, Zenon DEF KernelTypeOK
  <2>4. KernelTypeOK' /\ ReaderTypeOK'
    BY <1>0, <1>6, <2>3, TypeUnchanged, Zenon DEF JournalAppend, kernel, KernelTypeOK
  <2> QED BY <2>2, <2>4, TypeNext, Zenon
<1>7. CASE Mark(w)
  <2>1. DispatcherTypeOK' /\ BusyOK'
    <3>1. CASE Idle(w)
      BY <1>0, <3>1, IdleStep, Zenon
    <3>2. CASE pc' = [pc EXCEPT ![w] = "publish"] /\ UNCHANGED <<batch, at, from>>
      <4>1. DispatcherTypeOK' /\ OnlyDispatcher(w) /\ pc'[w] = "publish"
        BY <1>0, <3>2, Zenon DEF DispatcherTypeOK, OnlyDispatcher
      <4>2. batch[w] # {}
        BY <1>0, <1>7, Zenon DEF Mark, BusyOK, BusyAt
      <4>3. BusyAt(w)'
        BY <3>2, <4>1, <4>2, Zenon DEF BusyAt
      <4> QED BY <1>0, <4>1, <4>3, BusyOthers, Zenon
    <3> QED BY <1>7, <3>1, <3>2, Zenon DEF Mark
  <2>2. marked' \subseteq Rows
    BY <1>0, <1>7, Zenon DEF Mark, DispatcherTypeOK, KernelTypeOK
  <2>3. KernelTypeOK' /\ ReaderTypeOK'
    BY <1>0, <1>7, <2>2, TypeUnchanged, Zenon DEF Mark, KernelTypeOK
  <2> QED BY <2>1, <2>3, TypeNext, Zenon
<1>8. CASE Publish(w)
  <2>1. DispatcherTypeOK' /\ BusyOK'
    BY <1>0, <1>8, PublishStep, Zenon
  <2>2. PICK r \in Rows :
          LET listening == {u \in Readers : host[u] = w /\ ~lost[u]}
              full == {u \in listening : Len(buf[u]) = BusCapacity}
          IN /\ buf' = [u \in Readers |->
                          IF u \in full THEN <<>>
                          ELSE IF u \in listening THEN Append(buf[u], r)
                          ELSE buf[u]]
             /\ lost' = [u \in Readers |-> lost[u] \/ u \in full]
    BY <1>0, <1>8, PublishStep, Zenon
  <2>3. \A u \in Readers :
          /\ \/ buf'[u] = <<>> \/ buf'[u] = buf[u]
             \/ buf'[u] = Append(buf[u], r) /\ Len(buf[u]) # BusCapacity
          /\ lost'[u] \in BOOLEAN
    BY <2>2, Zenon
  <2>4. ASSUME NEW u \in Readers
        PROVE  buf'[u] \in Seq(Rows) /\ Len(buf'[u]) <= BusCapacity
    <3>1. /\ buf[u] \in Seq(Rows) /\ Len(buf[u]) \in Nat
          /\ Len(buf[u]) <= BusCapacity /\ BusCapacity \in Nat
      BY <1>0, LenProperties, Sizes, Zenon DEF ReaderTypeOK
    <3>2. /\ <<>> \in Seq(Rows) /\ Len(<<>>) = 0
          /\ Append(buf[u], r) \in Seq(Rows)
          /\ Len(Append(buf[u], r)) = Len(buf[u]) + 1
      BY <3>1, EmptySeq, AppendProperties
    <3>3. CASE buf'[u] = <<>>
      BY <3>1, <3>2, <3>3
    <3>4. CASE buf'[u] = buf[u]
      BY <3>1, <3>4, Zenon
    <3>5. CASE buf'[u] = Append(buf[u], r) /\ Len(buf[u]) # BusCapacity
      <4> DEFINE b == Append(buf[u], r)
      <4>1. b \in Seq(Rows) /\ Len(b) = Len(buf[u]) + 1 /\ buf'[u] = b
        BY <3>2, <3>5, Zenon
      <4> HIDE DEF b
      <4> QED BY <3>1, <3>5, <4>1
    <3> QED BY <2>3, <3>3, <3>4, <3>5, Zenon
  <2>5. buf' \in [Readers -> Seq(Rows)] /\ lost' \in [Readers -> BOOLEAN]
    <3> DEFINE b == [u \in Readers |-> buf'[u]]
    <3>1. buf' = b
      BY <2>2, Zenon
    <3>2. b \in [Readers -> Seq(Rows)]
      BY <2>4, Zenon
    <3>3. lost' \in [Readers -> BOOLEAN]
      BY <2>2, Zenon
    <3> HIDE DEF b
    <3> QED BY <3>1, <3>2, <3>3, Zenon
  <2>6. UNCHANGED <<kernel, journal, sub, host, got, faults>>
    BY <1>8, Zenon DEF Publish
  <2>7. ReaderTypeOK'
    BY <1>0, <2>4, <2>5, <2>6, Zenon DEF ReaderTypeOK
  <2> QED BY <1>0, <2>1, <2>6, <2>7, TypeUnchanged, TypeNext, Zenon
<1>9. ASSUME NEW c \in Commands, Execute(w, c) PROVE TypeOK'
  <2>1. outbox' \in [Streams -> Seq(Commands)]
    BY <1>0, <1>9, ExecuteStep, Zenon DEF KernelTypeOK
  <2>2. reply' \in [Commands -> {"none", "ok", "conflict"}]
    BY <1>0, <1>9, Zenon DEF Execute, KernelTypeOK
  <2>3. faults' \in 0..MaxFaults
    BY <1>0, <1>9, Sizes DEF Execute, Fault, KernelTypeOK
  <2>4. UNCHANGED <<fence, marked, journal, dispatcher, readers>>
    BY <1>9, Zenon DEF Execute
  <2>5. KernelTypeOK'
    BY <1>0, <2>1, <2>2, <2>3, <2>4, Zenon DEF KernelTypeOK
  <2> QED BY <1>0, <2>4, <2>5, TypeUnchanged, TypeNext, Zenon
<1> QED BY <1>1, <1>2, <1>3, <1>4, <1>5, <1>6, <1>7, <1>8, <1>9, Zenon DEF Dispatch

LEMMA TypeStep ==
    ASSUME TypeOK, BatchInv, GotInv, [Next]_vars
    PROVE  TypeOK'
<1>1. CASE UNCHANGED vars
  BY <1>1, TypeParts, TypeUnchanged, TypeNext, Zenon DEF vars
<1>2. CASE Next
  BY <1>2, TypeReaders, TypeDispatchers, Zenon DEF Next
<1> QED BY <1>1, <1>2, Zenon

-----------------------------------------------------------------------------
(* What the dispatchers hold.                                              *)

LEMMA RowsStay ==
    ASSUME TypeOK, TypeOK', Grown, NEW r \in Rows
    PROVE  /\ InJournal(r) => InJournal(r)'
           /\ r[2] <= Len(outbox[r[1]]) => r[2] <= Len(outbox'[r[1]])
<1>1. r[1] \in Streams /\ r[2] \in Int
  BY RowParts, Sizes
<1>2. /\ outbox[r[1]] \in Seq(Commands) /\ outbox'[r[1]] \in Seq(Commands)
      /\ journal[r[1]] \in Seq(Commands) /\ journal'[r[1]] \in Seq(Commands)
  BY <1>1, Zenon DEF TypeOK
<1>3. /\ Len(outbox[r[1]]) \in Int /\ Len(outbox'[r[1]]) \in Int
      /\ Len(journal[r[1]]) \in Int /\ Len(journal'[r[1]]) \in Int
  BY <1>2, LenProperties
<1> QED BY <1>1, <1>3 DEF Grown, InJournal

\* A dispatcher that stands still keeps what is known of it.
LEMMA BatchStays ==
    ASSUME TypeOK, TypeOK', Grown, NEW v \in Epoch, BatchOK(v),
           pc'[v] = pc[v], batch'[v] = batch[v], at'[v] = at[v],
           from'[v] = from[v],
           fence' >= fence, fence' = v => fence = v,
           UNCHANGED marked \/ fence # v
    PROVE  BatchOK(v)'
<1>1. \A r \in batch[v] : r \in Rows
  BY Zenon DEF TypeOK
<1>2. \A r \in batch[v] :
          /\ InJournal(r) => InJournal(r)'
          /\ r[2] <= Len(outbox[r[1]]) => r[2] <= Len(outbox'[r[1]])
  BY <1>1, RowsStay, Zenon
<1>3. Group(v)' = Group(v) /\ Final(v)' = Final(v) /\ Group(v) \subseteq batch[v]
  BY Zenon DEF Group, Final
<1>4. \A r : UpTo(r)' = UpTo(r)
  BY Zenon DEF UpTo
<1>5. marked \subseteq marked' /\ fence \in Int /\ fence' \in Int /\ v \in Int
  BY Sizes DEF Grown, TypeOK
<1>6. v > fence' => pc'[v] = "down"
  BY <1>5 DEF BatchOK
<1>7. /\ pc'[v] \in {"down", "idle"} => batch'[v] = {}
      /\ pc'[v] \in {"read", "append"} =>
            /\ at'[v] \in Streams
            /\ \A r \in batch'[v] : r[1] < at'[v] => InJournal(r)'
      /\ pc'[v] = "append" =>
            /\ from'[v] <= Final(v)'
            /\ \A r \in Group(v)' : r[2] <= from'[v] => InJournal(r)'
      /\ pc'[v] = "mark" => \A r \in batch'[v] : InJournal(r)'
  BY <1>2, <1>3, Zenon DEF BatchOK
<1>8. pc'[v] \in {"read", "append", "mark"} =>
          /\ \A r \in batch'[v] :
                /\ r[2] <= Len(outbox'[r[1]])
                /\ UpTo(r)' \subseteq marked' \cup batch'[v]
          /\ fence' = v => batch'[v] \cap marked' = {}
  BY <1>2, <1>4, <1>5, Zenon DEF BatchOK
<1>9. pc'[v] = "publish" => batch'[v] \subseteq marked'
  BY <1>5, Zenon DEF BatchOK
<1> QED BY <1>6, <1>7, <1>8, <1>9, Zenon DEF BatchOK

LEMMA BatchOthers ==
    ASSUME TypeOK, TypeOK', Grown, BatchInv, NEW w \in Epoch,
           OnlyDispatcher(w), UNCHANGED fence, UNCHANGED marked \/ fence = w,
           BatchOK(w)'
    PROVE  BatchInv'
<1> SUFFICES ASSUME NEW v \in Epoch \ {w} PROVE BatchOK(v)'
  BY Zenon DEF BatchInv
<1>1. /\ BatchOK(v) /\ fence' >= fence
      /\ pc'[v] = pc[v] /\ batch'[v] = batch[v]
      /\ at'[v] = at[v] /\ from'[v] = from[v]
  BY DEF BatchInv, OnlyDispatcher, TypeOK
<1> QED BY <1>1, BatchStays, Zenon

\* An iteration given up, or over.
LEMMA BatchRest ==
    ASSUME NEW w \in Epoch, pc'[w] \in {"down", "idle"}, batch'[w] = {},
           w > fence' => pc'[w] = "down"
    PROVE  BatchOK(w)'
BY Zenon DEF BatchOK

LEMMA BatchIdle ==
    ASSUME TypeOK, TypeOK', Grown, BatchInv, NEW w \in Epoch,
           Idle(w), pc[w] # "down", UNCHANGED <<fence, marked>>
    PROVE  BatchInv'
<1>1. OnlyDispatcher(w) /\ pc'[w] = "idle" /\ batch'[w] = {}
  BY TypeParts, IdleStep, Zenon
<1>2. ~(w > fence')
  BY Zenon DEF BatchInv, BatchOK
<1>3. BatchOK(w)'
  BY <1>1, <1>2, BatchRest, Zenon
<1> QED BY <1>1, <1>3, BatchOthers, Zenon

\* A group that is in the journal is done.
LEMMA BatchNextGroup ==
    ASSUME TypeOK, TypeOK', Grown, BatchInv, NEW w \in Epoch,
           NextGroup(w), pc[w] \in {"read", "append"},
           UNCHANGED <<fence, marked>>, \A r \in Group(w) : InJournal(r)'
    PROVE  BatchInv'
<1>1. BatchOK(w) /\ Group(w) # {} /\ DispatcherTypeOK /\ BusyOK
  BY TypeParts, Zenon DEF BatchInv, BusyOK, BusyAt
<1>2. /\ OnlyDispatcher(w) /\ batch' = batch
      /\ \/ pc'[w] = "mark" /\ \A r \in batch[w] : r[1] <= at[w]
         \/ /\ pc'[w] = "read" /\ at'[w] \in Streams
            /\ \A r \in batch[w] : r[1] < at'[w] => r[1] <= at[w]
  BY <1>1, NextGroupStep, Zenon
<1>3. ASSUME NEW r \in batch[w], r[1] <= at[w] PROVE InJournal(r)'
  <2>1. r \in Rows /\ r[1] \in Int /\ at[w] \in Int
    BY <1>1, RowParts, Sizes DEF DispatcherTypeOK
  <2>2. CASE r[1] = at[w]
    BY <2>2, Zenon DEF Group
  <2>3. CASE r[1] < at[w]
    BY <1>1, <2>1, <2>3, RowsStay, Zenon DEF BatchOK
  <2> QED BY <1>3, <2>1, <2>2, <2>3
<1>4. \A r \in batch[w] : r \in Rows
  BY <1>1, Zenon DEF DispatcherTypeOK
<1>5. \A r \in batch[w] : /\ r[2] <= Len(outbox'[r[1]])
                          /\ UpTo(r)' \subseteq marked' \cup batch[w]
  BY <1>1, <1>4, RowsStay, Zenon DEF BatchOK, UpTo
<1>6. (fence = w => batch[w] \cap marked = {}) /\ (w > fence => pc[w] = "down")
  BY <1>1, Zenon DEF BatchOK
<1>7. BatchOK(w)'
  BY <1>2, <1>3, <1>5, <1>6, Zenon DEF BatchOK
<1> QED BY <1>2, <1>7, BatchOthers, Zenon

LEMMA BatchScan ==
    ASSUME TypeOK, TypeOK', Grown, BatchInv, NEW w \in Epoch, Scan(w)
    PROVE  BatchInv'
<1>1. /\ OnlyDispatcher(w) /\ pc'[w] = "read" /\ at'[w] \in Streams
      /\ batch'[w] \in SUBSET Unpublished
      /\ \A r \in batch'[w] : at'[w] <= r[1]
      /\ \A r \in batch'[w], q \in Unpublished \ batch'[w] : Before(r, q)
  BY TypeParts, ScanStep, Zenon
<1>2. UNCHANGED <<fence, outbox, marked, journal>> /\ fence = w
  BY Zenon DEF Scan, kernel
<1>3. ASSUME NEW r \in batch'[w]
      PROVE  /\ r[2] <= Len(outbox[r[1]]) /\ r \notin marked
             /\ ~(r[1] < at'[w])
             /\ UpTo(r) \subseteq marked \cup batch'[w]
  <2>1. r \in Rows /\ r[2] <= Len(outbox[r[1]]) /\ r \notin marked
    BY <1>1, Zenon DEF Unpublished
  <2>2. r[1] \in Streams /\ r[2] \in 1..Commits /\ r[1] \in Int /\ at'[w] \in Int
        /\ Len(outbox[r[1]]) \in Int
    BY <1>1, <2>1, RowParts, Sizes, Lengths, TypeParts
  <2>3. ASSUME NEW j \in 1..r[2] PROVE <<r[1], j>> \in marked \cup batch'[w]
    <3> DEFINE q == <<r[1], j>>
    <3>1. q \in Rows /\ q[1] = r[1] /\ q[2] = j /\ j <= r[2] /\ j \in Int
      BY <2>2, RowParts, Sizes
    <3>2. q \in marked \/ q \in Unpublished
      <4>1. q[2] <= Len(outbox[q[1]])
        BY <2>1, <2>2, <3>1, Sizes
      <4> HIDE DEF q
      <4> QED BY <3>1, <4>1, Zenon DEF Unpublished
    <3>3. ~Before(r, q)
      BY <2>2, <3>1, Sizes DEF Before
    <3> QED BY <1>1, <3>2, <3>3, Zenon
  <2> QED BY <1>1, <2>1, <2>2, <2>3 DEF UpTo
<1>4. BatchOK(w)'
  <2>1. \A r : UpTo(r)' = UpTo(r)
    BY Zenon DEF UpTo
  <2>2. ~(w > fence')
    BY <1>2, Sizes
  <2> QED BY <1>1, <1>2, <1>3, <2>1, <2>2, Zenon DEF BatchOK
<1> QED BY <1>1, <1>2, <1>4, BatchOthers, Zenon

LEMMA BatchMark ==
    ASSUME TypeOK, TypeOK', Grown, BatchInv, NEW w \in Epoch, Mark(w)
    PROVE  BatchInv'
<1>1. CASE fence # w
  BY <1>1, BatchIdle, Zenon DEF Mark
<1>2. CASE fence = w
  <2>1. /\ marked' = marked \cup batch[w] /\ pc' = [pc EXCEPT ![w] = "publish"]
        /\ UNCHANGED <<batch, at, from, fence>>
    BY <1>2, Zenon DEF Mark
  <2>2. OnlyDispatcher(w) /\ pc'[w] = "publish" /\ batch'[w] \subseteq marked'
    BY <2>1, Zenon DEF OnlyDispatcher, TypeOK
  <2>3. BatchOK(w)'
    BY <1>2, <2>1, <2>2, Sizes DEF BatchOK
  <2> QED BY <1>2, <2>1, <2>2, <2>3, BatchOthers, Zenon
<1> QED BY <1>1, <1>2, Zenon

LEMMA BatchPublish ==
    ASSUME TypeOK, TypeOK', Grown, BatchInv, NEW w \in Epoch, Publish(w)
    PROVE  BatchInv'
<1>1. /\ OnlyDispatcher(w) /\ batch'[w] \subseteq batch[w]
      /\ pc'[w] = "publish" \/ (pc'[w] = "idle" /\ batch'[w] = {})
  BY TypeParts, PublishStep, Zenon
<1>2. UNCHANGED <<fence, marked>> /\ pc[w] = "publish" /\ BatchOK(w)
  BY Zenon DEF Publish, kernel, BatchInv
<1>3. batch[w] \subseteq marked /\ ~(w > fence)
  BY <1>2, Zenon DEF BatchOK
<1>4. BatchOK(w)'
  BY <1>1, <1>2, <1>3, Zenon DEF BatchOK
<1> QED BY <1>1, <1>2, <1>4, BatchOthers, Zenon

LEMMA BatchStep ==
    ASSUME TypeOK, TypeOK', BatchInv, [Next]_vars
    PROVE  BatchInv'
<1> USE DEF kernel
<1>0. Grown /\ \A v \in Epoch : BatchOK(v)
  BY GrownStep, Zenon DEF BatchInv
<1>1. CASE UNCHANGED <<dispatcher, fence, marked>>
  <2>1. fence' >= fence
    BY <1>1 DEF TypeOK
  <2> QED BY <1>0, <1>1, <2>1, BatchStays, Zenon DEF dispatcher, BatchInv
<1>2. CASE \/ UNCHANGED vars
           \/ \E w \in Epoch, c \in Commands : Execute(w, c)
           \/ \E u \in Readers :
                \/ Replay(u) \/ Follow(u) \/ Lagged(u) \/ Disconnect(u)
                \/ \E w \in Epoch : Subscribe(u, w)
  BY <1>1, <1>2, Zenon
     DEF vars, Execute, Replay, Follow, Lagged, Disconnect, Subscribe
<1>3. ASSUME NEW w \in Epoch, Boot(w) PROVE BatchInv'
  <2>1. /\ w = fence + 1 /\ fence' = w /\ UNCHANGED <<batch, at, from, marked>>
        /\ pc' = [pc EXCEPT ![w] = "idle"] /\ fence \in Int
    BY <1>3 DEF Boot, TypeOK
  <2>2. batch'[w] = {} /\ pc'[w] = "idle"
    BY <1>0, <2>1 DEF BatchOK, TypeOK
  <2>3. BatchOK(w)'
    BY <2>1, <2>2, BatchRest
  <2>4. ASSUME NEW v \in Epoch \ {w} PROVE BatchOK(v)'
    <3>1. pc'[v] = pc[v] /\ fence' >= fence /\ ~(fence' = v)
      BY <2>1 DEF TypeOK
    <3> QED BY <1>0, <2>1, <3>1, BatchStays, Zenon
  <2> QED BY <2>3, <2>4, Zenon DEF BatchInv
<1>4. ASSUME NEW w \in Epoch, Crash(w) PROVE BatchInv'
  <2>1. /\ OnlyDispatcher(w) /\ pc'[w] = "down" /\ batch'[w] = {}
        /\ UNCHANGED <<fence, marked>>
    BY <1>4 DEF Crash, OnlyDispatcher, TypeOK
  <2> QED BY <1>0, <2>1, BatchRest, BatchOthers, Zenon
<1>5. ASSUME NEW w \in Epoch, DispatchFails(w) PROVE BatchInv'
  BY <1>0, <1>5, BatchIdle, Zenon DEF DispatchFails
<1>6. ASSUME NEW w \in Epoch, Scan(w) \/ Mark(w) \/ Publish(w) PROVE BatchInv'
  BY <1>0, <1>6, BatchScan, BatchMark, BatchPublish, Zenon
<1>7. ASSUME NEW w \in Epoch, ReadBack(w) PROVE BatchInv'
  <2>1. pc[w] = "read" /\ UNCHANGED <<fence, outbox, marked, journal>>
    BY <1>7, Zenon DEF ReadBack
  <2>2. CASE Idle(w)
    BY <1>0, <2>1, <2>2, BatchIdle, Zenon
  <2>3. CASE NextGroup(w) /\ \A r \in Group(w) : Matches(r)
    BY <1>0, <2>1, <2>3, BatchNextGroup, Zenon DEF Matches, InJournal
  <2>4. CASE /\ OnlyDispatcher(w)
             /\ pc'[w] = "append" /\ batch' = batch /\ at' = at
             /\ from'[w] <= Final(w)
             /\ \A r \in Group(w) : r[2] <= from'[w] => Matches(r)
    <3>1. Group(w)' = Group(w) /\ Final(w)' = Final(w)
      BY <2>4, Zenon DEF Group, Final
    <3>2. \A r : UpTo(r)' = UpTo(r)
      BY Zenon DEF UpTo
    <3>3. \A r \in Group(w)' : r[2] <= from'[w] => InJournal(r)'
      BY <2>1, <2>4, <3>1, Zenon DEF Matches, InJournal
    <3>4. BatchOK(w)'
      BY <1>0, <2>1, <2>4, <3>1, <3>2, <3>3, Zenon DEF BatchOK, InJournal
    <3> QED BY <1>0, <2>1, <2>4, <3>4, BatchOthers, Zenon
  <2> QED BY <1>7, <2>2, <2>3, <2>4, TypeParts, ReadBackStep, Zenon
<1>8. ASSUME NEW w \in Epoch, JournalAppend(w) PROVE BatchInv'
  <2>1. pc[w] = "append" /\ UNCHANGED <<fence, outbox, marked>>
    BY <1>8, Zenon DEF JournalAppend
  <2>2. CASE Idle(w)
    BY <1>0, <2>1, <2>2, BatchIdle, Zenon
  <2>3. CASE NextGroup(w) /\ UNCHANGED journal /\ \A r \in Group(w) : InJournal(r)
    BY <1>0, <2>1, <2>3, BatchNextGroup, Zenon DEF InJournal
  <2>4. CASE NextGroup(w) /\ Len(journal'[at[w]]) = Final(w)
    <3>1. \A r \in Group(w) : r[1] = at[w] /\ r[2] <= Final(w)
      <4>1. DispatcherTypeOK /\ Group(w) # {}
        BY <2>1, TypeParts, Zenon DEF BusyOK, BusyAt
      <4> QED BY <4>1, GroupEnds, Zenon DEF Group
    <3> QED BY <1>0, <2>1, <2>4, <3>1, BatchNextGroup, Zenon DEF InJournal
  <2> QED BY <1>0, <1>8, <2>2, <2>3, <2>4, JournalAppendStep, Zenon
<1> QED BY <1>2, <1>3, <1>4, <1>5, <1>6, <1>7, <1>8, Zenon DEF Next, Dispatch

-----------------------------------------------------------------------------
(* The bus and the subscriptions.                                          *)

Items(q) == {q[i] : i \in 1..Len(q)}

LEMMA ComingItems ==
    ASSUME NEW u PROVE Coming(u) = Items(buf[u]) \cup Outgoing(host[u])
BY Zenon DEF Coming, Items

LEMMA ComingItemsNext ==
    ASSUME NEW u
    PROVE  Coming(u)' = Items(buf'[u]) \cup Outgoing(host[u])'
BY Zenon DEF Coming, Items

LEMMA HeadTail ==
    ASSUME NEW q \in Seq(Rows), q # <<>>
    PROVE  /\ Head(q) = q[1] /\ q[1] \in Rows /\ 1 \in 1..Len(q)
           /\ Len(Tail(q)) = Len(q) - 1
           /\ \A i \in 1..Len(Tail(q)) : i + 1 \in 1..Len(q) /\ Tail(q)[i] = q[i + 1]
           /\ Items(Tail(q)) \subseteq Items(q)
           /\ Items(q) \subseteq Items(Tail(q)) \cup {q[1]}
<1>1. Len(q) \in Nat \ {0}
  BY EmptySeq, Zenon
<1>2. /\ Tail(q) \in Seq(Rows) /\ Len(Tail(q)) = Len(q) - 1
      /\ \A i \in 1..Len(Tail(q)) : Tail(q)[i] = q[i + 1]
  BY HeadTailProperties, Zenon
<1>3. Head(q) = q[1]
  OBVIOUS
<1>4. \A i \in 1..Len(Tail(q)) : i + 1 \in 1..Len(q)
  BY <1>1, <1>2
<1>5. q[1] \in Rows /\ 1 \in 1..Len(q)
  BY <1>1, ElementOfSeq
<1>6. Items(Tail(q)) \subseteq Items(q)
  BY <1>2, <1>4, Zenon DEF Items
<1>7. ASSUME NEW i \in 1..Len(q), i # 1 PROVE q[i] \in Items(Tail(q))
  <2>1. i - 1 \in 1..Len(Tail(q)) /\ (i - 1) + 1 = i
    BY <1>1, <1>2, <1>7
  <2>2. Tail(q)[i - 1] = q[i]
    BY <1>2, <2>1, Zenon
  <2> QED BY <2>1, <2>2, Zenon DEF Items
<1>8. Items(q) \subseteq Items(Tail(q)) \cup {q[1]}
  BY <1>7, Zenon DEF Items
<1> QED BY <1>2, <1>3, <1>4, <1>5, <1>6, <1>8, Zenon

LEMMA AppendItem ==
    ASSUME NEW q \in Seq(Rows), NEW r \in Rows
    PROVE  /\ Len(Append(q, r)) = Len(q) + 1 /\ Len(q) \in Nat
           /\ \A i \in 1..Len(q) : Append(q, r)[i] = q[i]
           /\ Append(q, r)[Len(q) + 1] = r
           /\ Items(Append(q, r)) = Items(q) \cup {r}
<1>1. /\ Len(Append(q, r)) = Len(q) + 1 /\ Len(q) \in Nat
      /\ \A i \in 1..Len(q) : Append(q, r)[i] = q[i]
      /\ Append(q, r)[Len(q) + 1] = r
  BY AppendProperties, LenProperties
<1> DEFINE a == Append(q, r)
<1>2. /\ Len(a) = Len(q) + 1 /\ \A i \in 1..Len(q) : a[i] = q[i]
      /\ a[Len(q) + 1] = r
  BY <1>1, Zenon
<1> HIDE DEF a
<1>3. Items(a) \subseteq Items(q) \cup {r}
  <2> SUFFICES ASSUME NEW i \in 1..Len(a) PROVE a[i] \in Items(q) \cup {r}
    BY Zenon DEF Items
  <2>1. i \in 1..Len(q) \/ i = Len(q) + 1
    BY <1>1, <1>2
  <2> QED BY <1>2, <2>1, Zenon DEF Items
<1>4. Items(q) \cup {r} \subseteq Items(a)
  <2>1. \A i \in 1..Len(q) : i \in 1..Len(a)
    BY <1>1, <1>2
  <2>2. Len(q) + 1 \in 1..Len(a)
    BY <1>1, <1>2
  <2> QED BY <1>2, <2>1, <2>2, Zenon DEF Items
<1>5. Items(a) = Items(q) \cup {r}
  BY <1>3, <1>4, Zenon
<1> QED BY <1>1, <1>5, Zenon DEF a

\* A subscription that takes no step of its own and whose instance neither
\* publishes nor dies.
Same(u) ==
    /\ sub'[u] = sub[u] /\ host'[u] = host[u] /\ buf'[u] = buf[u]
    /\ lost'[u] = lost[u] /\ got'[u] = got[u]

OwnStep(u) ==
    \/ Replay(u) \/ Follow(u) \/ Lagged(u) \/ Disconnect(u)
    \/ \E w \in Epoch : Subscribe(u, w)

LEMMA SameUnless ==
    ASSUME TypeOK, [Next]_vars, NEW u \in Readers
    PROVE  \/ Same(u) \/ OwnStep(u)
           \/ host[u] \in Epoch /\ (Publish(host[u]) \/ Crash(host[u]))
<1>1. CASE UNCHANGED readers
  BY <1>1, Zenon DEF readers, Same
<1>2. CASE \/ UNCHANGED vars
           \/ \E w \in Epoch :
                \/ Boot(w) \/ DispatchFails(w) \/ Scan(w) \/ ReadBack(w)
                \/ JournalAppend(w) \/ Mark(w)
                \/ \E c \in Commands : Execute(w, c)
  BY <1>1, <1>2, Zenon
     DEF vars, Boot, DispatchFails, Scan, ReadBack, JournalAppend, Mark, Execute
<1>3. ASSUME NEW v \in Readers \ {u}, OwnStep(v) PROVE Same(u)
  BY <1>3, TypeParts DEF OwnStep, Replay, Follow, Lagged, Disconnect, Subscribe, Detach,
              Same, ReaderTypeOK
<1>4. ASSUME NEW w \in Epoch, w # host[u], Crash(w) PROVE Same(u)
  <2>1. lost[u] \in BOOLEAN
    BY Zenon DEF TypeOK
  <2>2. lost'[u] = lost[u]
    BY <1>4, <2>1, Zenon DEF Crash
  <2> QED BY <1>4, <2>2, Zenon DEF Crash, Same
<1>5. ASSUME NEW w \in Epoch, w # host[u], Publish(w) PROVE Same(u)
  <2>1. lost[u] \in BOOLEAN
    BY Zenon DEF TypeOK
  <2>2. UNCHANGED <<sub, host, got>>
    BY <1>5, Zenon DEF Publish
  <2>3. lost'[u] = lost[u] /\ buf'[u] = buf[u]
    BY <1>5, <2>1, Zenon DEF Publish
  <2> QED BY <2>2, <2>3, Zenon DEF Same
<1> QED BY <1>2, <1>3, <1>4, <1>5, Zenon DEF Next, Dispatch, OwnStep

LEMMA OutgoingKept ==
    ASSUME TypeOK, BatchInv, [Next]_vars, NEW w \in Epoch
    PROVE  \/ Outgoing(w)' = Outgoing(w)
           \/ (Mark(w) /\ fence = w) \/ Publish(w) \/ Crash(w)
<1>0. DispatcherTypeOK /\ BusyOK /\ \A v \in Epoch : BatchOK(v)
  BY TypeParts, Zenon DEF BatchInv
<1>1. ASSUME pc'[w] = pc[w], batch'[w] = batch[w]
      PROVE  Outgoing(w)' = Outgoing(w)
  BY <1>1, Zenon DEF Outgoing
<1>2. ASSUME NEW v \in Epoch \ {w}, OnlyDispatcher(v)
      PROVE  Outgoing(w)' = Outgoing(w)
  BY <1>1, <1>2, Zenon DEF OnlyDispatcher
<1>3. ASSUME pc[w] # "publish", pc'[w] # "publish"
      PROVE  Outgoing(w)' = Outgoing(w)
  BY <1>3, Zenon DEF Outgoing
<1>4. CASE \/ UNCHANGED vars
           \/ \E v \in Epoch, c \in Commands : Execute(v, c)
           \/ \E u \in Readers : OwnStep(u)
  BY <1>1, <1>4, Zenon
     DEF vars, dispatcher, Execute, OwnStep, Replay, Follow, Lagged, Disconnect,
         Subscribe
<1>5. ASSUME NEW v \in Epoch, Boot(v) PROVE Outgoing(w)' = Outgoing(w)
  <2>1. CASE v # w
    BY <1>1, <1>5, <2>1, Zenon DEF Boot, TypeOK
  <2>2. CASE v = w
    <3>1. pc[w] = "down" /\ pc'[w] = "idle"
      BY <1>0, <1>5, <2>2, Sizes DEF Boot, BatchOK, TypeOK
    <3> QED BY <1>3, <3>1, Zenon
  <2> QED BY <2>1, <2>2, Zenon
<1>6. ASSUME NEW v \in Epoch, Idle(v), pc[v] # "publish"
      PROVE  Outgoing(w)' = Outgoing(w)
  <2>1. OnlyDispatcher(v) /\ pc'[v] = "idle"
    BY <1>0, <1>6, IdleStep, Zenon
  <2> QED BY <1>2, <1>3, <1>6, <2>1, Zenon
<1>7. ASSUME NEW v \in Epoch, NextGroup(v), pc[v] \in {"read", "append"}
      PROVE  Outgoing(w)' = Outgoing(w)
  <2>1. Group(v) # {}
    BY <1>0, <1>7, Zenon DEF BusyOK, BusyAt
  <2>2. OnlyDispatcher(v) /\ pc'[v] \in {"mark", "read"}
    BY <1>0, <1>7, <2>1, NextGroupStep, Zenon
  <2> QED BY <1>2, <1>3, <1>7, <2>2, Zenon
<1>8. ASSUME NEW v \in Epoch, Scan(v) \/ ReadBack(v) \/ JournalAppend(v)
      PROVE  Outgoing(w)' = Outgoing(w)
  <2>1. CASE Scan(v)
    <3>1. OnlyDispatcher(v) /\ pc'[v] = "read" /\ pc[v] = "idle"
      BY <1>0, <2>1, ScanStep, Zenon DEF Scan
    <3> QED BY <1>2, <1>3, <3>1, Zenon
  <2>2. CASE ReadBack(v)
    <3>1. pc[v] = "read"
      BY <2>2, Zenon DEF ReadBack
    <3>2. CASE OnlyDispatcher(v) /\ pc'[v] = "append"
      BY <1>2, <1>3, <3>1, <3>2, Zenon
    <3> QED BY <1>0, <1>6, <1>7, <2>2, <3>1, <3>2, ReadBackStep, Zenon
  <2>3. CASE JournalAppend(v)
    <3>1. pc[v] = "append" /\ (Idle(v) \/ NextGroup(v))
      BY <2>3, Zenon DEF JournalAppend
    <3> QED BY <1>6, <1>7, <3>1, Zenon
  <2> QED BY <1>8, <2>1, <2>2, <2>3, Zenon
<1>9. ASSUME NEW v \in Epoch, DispatchFails(v)
      PROVE  Outgoing(w)' = Outgoing(w)
  BY <1>6, <1>9, Zenon DEF DispatchFails
<1>10. ASSUME NEW v \in Epoch, Mark(v), v # w \/ fence # v
       PROVE  Outgoing(w)' = Outgoing(w)
  <2>1. CASE Idle(v)
    BY <1>6, <1>10, <2>1, Zenon DEF Mark
  <2>2. CASE v # w /\ pc' = [pc EXCEPT ![v] = "publish"] /\ UNCHANGED batch
    BY <1>1, <2>2, Zenon DEF TypeOK
  <2> QED BY <1>10, <2>1, <2>2, Zenon DEF Mark
<1>11. ASSUME NEW v \in Epoch \ {w}, Publish(v) \/ Crash(v)
       PROVE  Outgoing(w)' = Outgoing(w)
  <2>1. OnlyDispatcher(v)
    BY <1>0, <1>11, PublishStep DEF Crash, OnlyDispatcher, DispatcherTypeOK
  <2> QED BY <1>2, <2>1, Zenon
<1> QED BY <1>4, <1>5, <1>8, <1>9, <1>10, <1>11, Zenon DEF Next, Dispatch, OwnStep

\* The fence moves up, by a start only.
LEMMA FenceStep ==
    ASSUME TypeOK, [Next]_vars
    PROVE  \/ fence' = fence
           \/ fence' = fence + 1 /\ UNCHANGED <<marked, readers>>
<1> USE DEF kernel
<1>1. CASE UNCHANGED vars \/ \E u \in Readers :
               \/ Replay(u) \/ Follow(u) \/ Lagged(u) \/ Disconnect(u)
               \/ \E w \in Epoch : Subscribe(u, w)
  BY <1>1, Zenon DEF vars, Replay, Follow, Lagged, Disconnect, Subscribe
<1>2. CASE \E w \in Epoch : \/ Crash(w) \/ DispatchFails(w)
                            \/ Scan(w) \/ ReadBack(w) \/ Publish(w) \/ Mark(w)
                            \/ JournalAppend(w) \/ \E c \in Commands : Execute(w, c)
  BY <1>2, Zenon DEF Crash, DispatchFails, Scan, ReadBack, Publish, Mark,
              JournalAppend, Execute
<1>3. CASE \E w \in Epoch : Boot(w)
  BY <1>3, Zenon DEF Boot
<1> QED BY <1>1, <1>2, <1>3, Zenon DEF Next, Dispatch

LEMMA FenceNat ==
    ASSUME TypeOK
    PROVE  fence \in Nat /\ marked \subseteq Rows
<1>1. fence \in 0..MaxEpoch /\ marked \subseteq Rows
  BY Zenon DEF TypeOK
<1> QED BY <1>1, Sizes

\* A subscription no step is about.
LEMMA BusStays ==
    ASSUME TypeOK, TypeOK', BusInv, NEW u \in Readers, Same(u),
           marked \subseteq marked', fence' >= fence,
           sub[u] # "off" => Outgoing(host[u])' = Outgoing(host[u])
    PROVE  BusOK(u)'
<1>1. BusOK(u)
  BY Zenon DEF BusInv
<1>2. /\ sub'[u] = "off" => host'[u] = 0 /\ buf'[u] = <<>> /\ ~lost'[u]
      /\ lost'[u] => buf'[u] = <<>>
      /\ \A i \in 1..Len(buf'[u]) : buf'[u][i] \in marked'
      /\ \A i, j \in 1..Len(buf'[u]) :
            i < j /\ buf'[u][i][1] = buf'[u][j][1] => buf'[u][i][2] < buf'[u][j][2]
  BY <1>1, Zenon DEF BusOK, Same
<1>3. sub'[u] # "off" => host'[u] \in 1..fence'
  BY <1>1 DEF BusOK, Same, TypeOK
<1>4. sub'[u] # "off" =>
          \A i \in 1..Len(buf'[u]) : \A r \in Outgoing(host[u])' :
              buf'[u][i][1] = r[1] => buf'[u][i][2] < r[2]
  BY <1>1, Zenon DEF BusOK, Same
<1> QED BY <1>2, <1>3, <1>4, Zenon DEF BusOK

\* A subscription that is off, or has lost its place.
LEMMA BusEmpty ==
    ASSUME NEW u \in Readers, buf'[u] = <<>>,
           sub'[u] = "off" => host'[u] = 0 /\ ~lost'[u],
           sub'[u] # "off" => host'[u] \in 1..fence'
    PROVE  BusOK(u)'
<1>1. 1..Len(buf'[u]) = {}
  <2>1. Len(buf'[u]) = 0
    BY EmptySeq, Zenon
  <2> QED BY <2>1
<1> QED BY <1>1, Zenon DEF BusOK

\* The rows a subscription is to see are marked, hence in the journal.
LEMMA ComingMarked ==
    ASSUME TypeOK, BatchInv, BusInv, NEW u \in Readers, sub[u] # "off"
    PROVE  /\ host[u] \in Epoch /\ Outgoing(host[u]) \subseteq marked
           /\ Coming(u) \subseteq marked
<1>1. BusOK(u) /\ host[u] \in 1..fence /\ fence \in 0..MaxEpoch
  BY Zenon DEF BusInv, BusOK, TypeOK
<1>2. host[u] \in Epoch
  BY <1>1, Sizes DEF Epoch
<1>3. BatchOK(host[u])
  BY <1>2, Zenon DEF BatchInv
<1>4. Outgoing(host[u]) \subseteq marked
  BY <1>3, Zenon DEF BatchOK, Outgoing
<1> QED BY <1>1, <1>2, <1>4, Zenon DEF BusOK, Coming

\* mark_published of the instance that serves u: what becomes outgoing comes
\* after all that is on the bus, and continues it without a gap.
LEMMA BusMark ==
    ASSUME TypeOK, TypeOK', MarkedInv, BatchInv, BusInv, LiveInv,
           NEW u \in Readers, NEW w \in Epoch, sub[u] # "off", host[u] = w,
           Mark(w), fence = w, Same(u)
    PROVE  BusOK(u)' /\ LiveOK(u)'
<1>1. /\ pc[w] = "mark" /\ marked' = marked \cup batch[w] /\ UNCHANGED fence
      /\ pc'[w] = "publish" /\ batch' = batch /\ UNCHANGED readers
  BY DEF Mark, TypeOK
<1>2. /\ BusOK(u) /\ LiveOK(u) /\ BatchOK(w) /\ batch[w] \subseteq Rows
      /\ batch[w] \cap marked = {}
      /\ \A r \in batch[w] : UpTo(r) \subseteq marked \cup batch[w]
  BY <1>1, Zenon DEF BusInv, LiveInv, BatchInv, BatchOK, TypeOK
<1>3. /\ Outgoing(host[u]) = {} /\ Outgoing(host[u])' = batch[w]
      /\ UNCHANGED <<buf, got, sub, host, lost>>
  BY <1>1, Zenon DEF Outgoing, readers
<1>4. Coming(u) = Items(buf[u]) /\ Coming(u)' = Items(buf[u]) \cup batch[w]
  BY <1>3, ComingItems, ComingItemsNext, Zenon
<1>5. \A r \in batch[w] \cup marked :
          r \in Rows /\ r = <<r[1], r[2]>> /\ r[2] \in 1..Commits /\ r[2] \in Int
  <2>1. \A r \in batch[w] \cup marked : r \in Rows
    BY <1>2, Zenon DEF TypeOK
  <2> QED BY <2>1, RowParts, Sizes
<1>6. ASSUME NEW i \in 1..Len(buf[u]), NEW r \in batch[w], buf[u][i][1] = r[1]
      PROVE  buf[u][i][2] < r[2]
  <2> DEFINE q == buf[u][i]
  <2>1. q \in marked
    BY <1>2, Zenon DEF BusOK
  <2>2. UpTo(q) \subseteq marked
    BY <2>1, Zenon DEF MarkedInv
  <2>3. q[2] \in Int /\ r[2] \in Int /\ r[2] >= 1
    BY <1>5, <2>1
  <2>4. r[2] <= q[2] => r \in UpTo(q)
    BY <1>5, <1>6, <2>3 DEF UpTo
  <2> QED BY <1>2, <2>2, <2>3, <2>4
<1>7. BusOK(u)'
  <2>1. /\ sub'[u] # "off" /\ host'[u] \in 1..fence' /\ buf'[u] = buf[u]
        /\ lost'[u] => buf'[u] = <<>>
    BY <1>1, <1>2, <1>3, Zenon DEF BusOK
  <2>2. /\ \A i \in 1..Len(buf[u]) : buf[u][i] \in marked'
        /\ \A i, j \in 1..Len(buf[u]) :
              i < j /\ buf[u][i][1] = buf[u][j][1] => buf[u][i][2] < buf[u][j][2]
    BY <1>1, <1>2, Zenon DEF BusOK
  <2>3. \A i \in 1..Len(buf[u]) : \A r \in Outgoing(host[u])' :
            buf[u][i][1] = r[1] => buf[u][i][2] < r[2]
    BY <1>3, <1>6, Zenon
  <2> QED BY <2>1, <2>2, <2>3 DEF BusOK
<1>8. ASSUME sub[u] = "live", ~lost[u] PROVE NoGap(u)' /\ NoneMissed(u)'
  <2> DEFINE s == ReadStream[u]
  <2>0. /\ NoGap(u) /\ NoneMissed(u) /\ Seen(u)' = Seen(u) /\ Seen(u) \in Int
    BY <1>2, <1>3, <1>8, LenProperties DEF LiveOK, Seen, TypeOK
  <2>1. ASSUME NEW r \in Coming(u)', r[1] = s, NEW j \in (Seen(u) + 1)..r[2]
        PROVE  <<s, j>> \in Coming(u)'
    <3>1. CASE r \in Items(buf[u])
      BY <1>4, <2>0, <2>1, <3>1, Zenon DEF NoGap
    <3>2. CASE r \in batch[w]
      <4>1. j \in 1..r[2] /\ j \in Int /\ j > Seen(u)
        BY <1>5, <2>0, <3>2, LenProperties DEF Seen, TypeOK
      <4>2. <<s, j>> \in UpTo(r)
        BY <2>1, <4>1, Zenon DEF UpTo
      <4>3. <<s, j>> \in marked \cup batch[w]
        BY <1>2, <3>2, <4>2, Zenon
      <4>4. <<s, j>> \in marked => <<s, j>> \in Coming(u)
        BY <2>0, <4>1, Zenon DEF NoneMissed
      <4> QED BY <1>4, <4>3, <4>4, Zenon
    <3> QED BY <1>4, <2>1, <3>1, <3>2, Zenon
  <2>2. NoneMissed(u)'
    BY <1>1, <1>4, <2>0, Zenon DEF NoneMissed
  <2> QED BY <2>0, <2>1, <2>2, Zenon DEF NoGap
<1>9. LiveOK(u)'
  BY <1>3, <1>8, Zenon DEF LiveOK
<1> QED BY <1>7, <1>9, Zenon

\* LiveBus::publish of the instance that serves u moves a row from what is
\* outgoing to what the bus holds.
LEMMA BusPublish ==
    ASSUME TypeOK, TypeOK', MarkedInv, BatchInv, BusInv, LiveInv,
           NEW u \in Readers, NEW w \in Epoch, sub[u] # "off", host[u] = w,
           Publish(w)
    PROVE  BusOK(u)' /\ LiveOK(u)'
<1>1. /\ pc[w] = "publish" /\ UNCHANGED <<fence, marked, sub, host, got>>
      /\ BusOK(u) /\ LiveOK(u) /\ BatchOK(w) /\ DispatcherTypeOK /\ BusyOK
  BY TypeParts, Zenon DEF Publish, kernel, BusInv, LiveInv, BatchInv
<1>2. PICK r \in batch[w] :
        /\ r \in Rows
        /\ \A q \in batch[w] \ {r} : Before(r, q)
        /\ batch'[w] = batch[w] \ {r}
        /\ pc'[w] = "publish" \/ (pc'[w] = "idle" /\ batch'[w] = {})
        /\ LET listening == {v \in Readers : host[v] = w /\ ~lost[v]}
               full == {v \in listening : Len(buf[v]) = BusCapacity}
           IN /\ buf' = [v \in Readers |->
                           IF v \in full THEN <<>>
                           ELSE IF v \in listening THEN Append(buf[v], r)
                           ELSE buf[v]]
              /\ lost' = [v \in Readers |-> lost[v] \/ v \in full]
  BY <1>1, PublishStep, Zenon
<1>3. \/ lost[u] /\ buf'[u] = buf[u] /\ lost'[u]
      \/ ~lost[u] /\ Len(buf[u]) = BusCapacity /\ buf'[u] = <<>> /\ lost'[u]
      \/ ~lost[u] /\ buf'[u] = Append(buf[u], r) /\ ~lost'[u]
  BY <1>2, Zenon
<1>4. r \in marked /\ batch[w] \subseteq marked /\ host'[u] \in 1..fence'
  BY <1>1, Zenon DEF BatchOK, BusOK
<1>5. CASE lost'[u]
  <2>1. buf'[u] = <<>>
    BY <1>1, <1>3, <1>5, Zenon DEF BusOK
  <2>2. BusOK(u)'
    BY <1>1, <1>4, <2>1, BusEmpty, Zenon
  <2> QED BY <1>5, <2>2, Zenon DEF LiveOK
<1>6. CASE ~lost'[u]
  <2> DEFINE n == Len(buf[u])
             b == Append(buf[u], r)
  <2>1. /\ buf[u] \in Seq(Rows) /\ buf'[u] = b /\ ~lost[u]
    BY <1>3, <1>6, Zenon DEF TypeOK
  <2>2. /\ Len(b) = n + 1 /\ n \in Nat /\ b[n + 1] = r
        /\ \A i \in 1..n : b[i] = buf[u][i]
        /\ Items(b) = Items(buf[u]) \cup {r}
    BY <1>2, <2>1, AppendItem
  <2> HIDE DEF b
  <2>3. Outgoing(host[u]) = batch[w] /\ Outgoing(host[u])' = batch[w] \ {r}
    BY <1>1, <1>2, Zenon DEF Outgoing
  <2>4. Coming(u)' = Coming(u)
    <3>1. Coming(u) = Items(buf[u]) \cup batch[w]
      BY <2>3, ComingItems, Zenon
    <3>2. Coming(u)' = (Items(buf[u]) \cup {r}) \cup (batch[w] \ {r})
      BY <2>1, <2>2, <2>3, ComingItemsNext, Zenon
    <3> QED BY <3>1, <3>2, Zenon
  <2>5. \A i \in 1..(n + 1) : i \in 1..n \/ i = n + 1
    BY <2>2
  <2>6. \A i \in 1..n : buf[u][i][1] = r[1] => buf[u][i][2] < r[2]
    BY <1>1, <2>3, Zenon DEF BusOK
  <2>7. \A q \in batch[w] \ {r} : r[1] = q[1] => r[2] < q[2]
    <3> TAKE q \in batch[w] \ {r}
    <3>1. Before(r, q) /\ r[1] \in Int
      BY <1>2, RowParts, Sizes
    <3> QED BY <3>1 DEF Before
  <2>8. \A i \in 1..(n + 1) : b[i] \in marked
    BY <1>1, <1>4, <2>2, <2>5, Zenon DEF BusOK
  <2>9. ASSUME NEW i \in 1..(n + 1), NEW j \in 1..(n + 1), i < j,
               b[i][1] = b[j][1]
        PROVE  b[i][2] < b[j][2]
    <3>1. i \in 1..n
      BY <2>2, <2>9
    <3>2. CASE j \in 1..n
      BY <1>1, <2>2, <2>9, <3>1, <3>2, Zenon DEF BusOK
    <3>3. CASE j = n + 1
      BY <2>2, <2>6, <2>9, <3>1, <3>3, Zenon
    <3> QED BY <2>5, <3>2, <3>3, Zenon
  <2>10. ASSUME NEW i \in 1..(n + 1), NEW q \in batch[w] \ {r}, b[i][1] = q[1]
         PROVE  b[i][2] < q[2]
    <3>1. CASE i \in 1..n
      BY <1>1, <2>2, <2>3, <2>10, <3>1, Zenon DEF BusOK
    <3>2. CASE i = n + 1
      BY <2>2, <2>7, <2>10, <3>2, Zenon
    <3> QED BY <2>5, <3>1, <3>2, Zenon
  <2>11. BusOK(u)'
    <3>1. /\ sub'[u] # "off" /\ host'[u] \in 1..fence' /\ ~lost'[u]
          /\ Len(buf'[u]) = n + 1 /\ buf'[u] = b /\ marked' = marked
      BY <1>1, <1>4, <1>6, <2>1, <2>2, Zenon
    <3> QED BY <2>3, <2>8, <2>9, <2>10, <3>1, Zenon DEF BusOK
  <2>12. LiveOK(u)'
    BY <1>1, <2>1, <2>4, Zenon DEF LiveOK, NoGap, NoneMissed, Seen
  <2> QED BY <2>11, <2>12, Zenon
<1> QED BY <1>5, <1>6, Zenon

LEMMA ReadStreamType ==
    ASSUME TypeOK, NEW u \in Readers
    PROVE  /\ ReadStream[u] \in Streams
           /\ Len(journal[ReadStream[u]]) \in Nat
<1>1. ReadStream[u] \in Streams
  BY PipelineAssumption, Zenon
<1> QED BY <1>1, TypeParts, Lengths, Zenon

\* The next row the bus has for a subscription is the one its client lacks, or
\* one to be passed over.
LEMMA NextRow ==
    ASSUME TypeOK, BusInv, LiveInv, GotInv, NEW u \in Readers,
           sub[u] = "live", ~lost[u], buf[u] # <<>>,
           buf[u][1][1] = ReadStream[u], buf[u][1][2] > Seen(u)
    PROVE  buf[u][1][2] = Seen(u) + 1
<1> DEFINE r == buf[u][1]
           n == Seen(u) + 1
           q == <<ReadStream[u], n>>
<1>1. buf[u] \in Seq(Rows) /\ r \in Rows /\ 1 \in 1..Len(buf[u])
  BY HeadTail, Zenon DEF TypeOK
<1>2. r[2] \in Int /\ n \in Int /\ Seen(u) \in Nat /\ Len(buf[u]) \in Nat
  BY <1>1, RowParts, Sizes, TypeParts, CursorSeen, LenProperties
<1>3. BusOK(u) /\ NoGap(u)
  BY Zenon DEF BusInv, LiveInv, LiveOK
<1>4. r \in Coming(u) /\ n \in (Seen(u) + 1)..r[2]
  BY <1>1, <1>2 DEF Coming
<1>5. q \in Coming(u) /\ q[1] = ReadStream[u] /\ q[2] = n
  BY <1>3, <1>4, Zenon DEF NoGap
<1>6. CASE q \in Outgoing(host[u])
  <2>1. r[2] < n
    BY <1>1, <1>3, <1>5, <1>6, Zenon DEF BusOK
  <2> QED BY <1>2, <2>1
<1>7. ASSUME NEW i \in 1..Len(buf[u]), q = buf[u][i] PROVE r[2] = n
  <2>1. CASE i = 1
    BY <1>5, <1>7, <2>1, Zenon
  <2>2. CASE i # 1
    <3>1. 1 < i
      BY <1>2, <2>2
    <3>2. r[2] < n
      BY <1>1, <1>3, <1>5, <1>7, <3>1, Zenon DEF BusOK
    <3> QED BY <1>2, <3>2
  <2> QED BY <2>1, <2>2, Zenon
<1> QED BY <1>5, <1>6, <1>7, Zenon DEF Coming

\* What Follow does to the client.
LEMMA FollowGot ==
    ASSUME TypeOK, MarkedInv, BusInv, LiveInv, GotInv, NEW u \in Readers,
           Follow(u)
    PROVE  LET r == buf[u][1]
           IN \/ /\ r[1] = ReadStream[u] /\ r[2] = Seen(u) + 1
                 /\ Seen(u)' = Seen(u) + 1
                 /\ Seen(u) + 1 <= Len(journal[ReadStream[u]])
                 /\ got'[u][Seen(u) + 1] = Seen(u) + 1
                 /\ \A i \in 1..Seen(u) : got'[u][i] = got[u][i]
              \/ /\ r[1] # ReadStream[u] \/ r[2] <= Seen(u)
                 /\ got' = got
<1> DEFINE r == buf[u][1]
<1>1. /\ sub[u] = "live" /\ ~lost[u] /\ buf[u] # <<>> /\ ReaderTypeOK
      /\ buf[u] \in Seq(Rows) /\ got[u] \in Seq(Nat)
  BY TypeParts, Zenon DEF Follow, TypeOK
<1>2. Head(buf[u]) = r /\ r \in Rows /\ 1 \in 1..Len(buf[u])
  BY <1>1, HeadTail, Zenon
<1>3. Cursor(u) = Seen(u) /\ Seen(u) \in Nat /\ r[2] \in Nat
  <2>1. Cursor(u) = Seen(u) /\ Seen(u) \in Nat
    BY <1>1, CursorSeen, Zenon
  <2> HIDE DEF r
  <2>2. r[2] \in Nat
    BY <1>2, RowParts, Sizes
  <2> QED BY <2>1, <2>2, Zenon
<1>4. CASE r[1] = ReadStream[u] /\ r[2] > Seen(u)
  <2>1. r[2] = Seen(u) + 1
    BY <1>1, <1>4, NextRow, Zenon
  <2>2. got' = [got EXCEPT ![u] = Append(@, r[2])]
    BY <1>2, <1>3, <1>4, Zenon DEF Follow
  <2>3. got'[u] = Append(got[u], r[2])
    BY <1>1, <2>2, Zenon DEF ReaderTypeOK
  <2>4. r \in marked
    BY <1>2, Zenon DEF BusInv, BusOK
  <2>5. r[2] <= Len(journal[ReadStream[u]])
    BY <1>4, <2>4, Zenon DEF MarkedInv, InJournal
  <2> DEFINE a == Append(got[u], r[2])
  <2>6. /\ Len(a) = Seen(u) + 1 /\ a[Seen(u) + 1] = r[2]
        /\ \A i \in 1..Seen(u) : a[i] = got[u][i]
    BY <1>1, <1>3, AppendProperties DEF Seen
  <2>7. got'[u] = a
    BY <2>3, Zenon
  <2> HIDE DEF a
  <2>8. /\ Seen(u)' = Seen(u) + 1 /\ got'[u][Seen(u) + 1] = Seen(u) + 1
        /\ \A i \in 1..Seen(u) : got'[u][i] = got[u][i]
    BY <2>1, <2>6, <2>7, Zenon DEF Seen
  <2> QED BY <1>4, <2>1, <2>5, <2>8, Zenon
<1>5. CASE ~(r[1] = ReadStream[u] /\ r[2] > Seen(u))
  BY <1>2, <1>3, <1>5 DEF Follow
<1> QED BY <1>4, <1>5, Zenon

LEMMA BusFollow ==
    ASSUME TypeOK, TypeOK', MarkedInv, BatchInv, BusInv, LiveInv, GotInv,
           NEW u \in Readers, Follow(u)
    PROVE  BusOK(u)' /\ LiveOK(u)'
<1> DEFINE q == buf[u]
           t == Tail(buf[u])
           h == buf[u][1]
<1>1. /\ sub[u] = "live" /\ ~lost[u] /\ q # <<>> /\ q \in Seq(Rows)
      /\ buf'[u] = t /\ BusOK(u) /\ NoGap(u) /\ (host[u] = fence => NoneMissed(u))
      /\ UNCHANGED <<sub, host, lost, pc, batch, fence, marked>>
  BY DEF Follow, TypeOK, BusInv, LiveInv, LiveOK, kernel, dispatcher
<1>2. /\ Len(t) = Len(q) - 1 /\ h \in Rows /\ Len(q) \in Nat
      /\ \A i \in 1..Len(t) : i + 1 \in 1..Len(q) /\ t[i] = q[i + 1]
      /\ Items(t) \subseteq Items(q) /\ Items(q) \subseteq Items(t) \cup {h}
  BY <1>1, HeadTail, LenProperties, Zenon
<1> HIDE DEF t
<1>3. Outgoing(host[u])' = Outgoing(host[u])
  BY <1>1, Zenon DEF Outgoing
<1>4. /\ Coming(u)' \subseteq Coming(u) /\ Coming(u) \subseteq Coming(u)' \cup {h}
  BY <1>1, <1>2, <1>3, ComingItems, ComingItemsNext, Zenon
<1>5. BusOK(u)'
  <2>1. \A i \in 1..Len(t) : t[i] \in marked
    BY <1>1, <1>2, Zenon DEF BusOK
  <2>2. \A i, j \in 1..Len(t) : i < j /\ t[i][1] = t[j][1] => t[i][2] < t[j][2]
    <3> TAKE i, j \in 1..Len(t)
    <3>1. i < j => i + 1 < j + 1
      BY <1>2
    <3> QED BY <1>1, <1>2, <3>1, Zenon DEF BusOK
  <2>3. \A i \in 1..Len(t) : \A r \in Outgoing(host[u])' :
            t[i][1] = r[1] => t[i][2] < r[2]
    <3>1. \A i \in 1..Len(q) : \A r \in Outgoing(host[u]) :
              q[i][1] = r[1] => q[i][2] < r[2]
      BY <1>1, Zenon DEF BusOK
    <3>2. \A i \in 1..Len(t) : i + 1 \in 1..Len(q) /\ t[i] = q[i + 1]
      BY <1>2, Zenon
    <3> HIDE DEF q
    <3> QED BY <1>3, <3>1, <3>2, Zenon
  <2>4. sub'[u] # "off" /\ host'[u] \in 1..fence' /\ ~lost'[u]
    BY <1>1, Zenon DEF BusOK
  <2> QED BY <1>1, <2>1, <2>2, <2>3, <2>4, Zenon DEF BusOK
<1>6. /\ Seen(u) \in Int /\ Seen(u)' \in Int /\ Seen(u) <= Seen(u)'
      /\ h[1] = ReadStream[u] => h[2] <= Seen(u)'
      /\ h[2] \in Int
  <2>1. Seen(u) \in Int /\ h[2] \in Int
    BY <1>2, TypeParts, CursorSeen, RowParts, Sizes
  <2>2. got' = got => Seen(u)' = Seen(u)
    BY Zenon DEF Seen
  <2> QED BY <2>1, <2>2, FollowGot
<1> HIDE DEF h
<1>7. NoGap(u)'
  <2> SUFFICES ASSUME NEW r \in Coming(u)', r[1] = ReadStream[u],
                      NEW j \in (Seen(u)' + 1)..r[2]
               PROVE  <<ReadStream[u], j>> \in Coming(u)'
    BY Zenon DEF NoGap
  <2>1. r \in Rows /\ r[2] \in Int
    <3>1. r \in marked
      BY <1>1, <1>4, ComingMarked, Zenon
    <3>2. r \in Rows
      BY <3>1, FenceNat, Zenon
    <3> QED BY <3>2, RowParts, Sizes
  <2>2. j \in (Seen(u) + 1)..r[2] /\ j > Seen(u)'
    BY <1>6, <2>1
  <2>3. <<ReadStream[u], j>> \in Coming(u)
    BY <1>1, <1>4, <2>2, Zenon DEF NoGap
  <2>4. <<ReadStream[u], j>> # h
    <3> SUFFICES ASSUME h = <<ReadStream[u], j>> PROVE FALSE
      BY Zenon
    <3>1. h[1] = ReadStream[u] /\ h[2] = j
      BY Zenon
    <3> QED BY <1>6, <2>2, <3>1
  <2> QED BY <1>4, <2>3, <2>4, Zenon
<1>8. ASSUME host[u] = fence PROVE NoneMissed(u)'
  <2> SUFFICES ASSUME NEW r \in marked, r[1] = ReadStream[u], r[2] > Seen(u)'
               PROVE  r \in Coming(u)'
    BY <1>1, Zenon DEF NoneMissed
  <2>1. r[2] \in Int
    <3>1. r \in Rows
      BY FenceNat, Zenon
    <3> QED BY <3>1, RowParts, Sizes
  <2>2. r \in Coming(u)
    BY <1>1, <1>6, <1>8, <2>1 DEF NoneMissed
  <2>3. r # h
    BY <1>6, <2>1
  <2> QED BY <1>4, <2>2, <2>3, Zenon
<1>9. LiveOK(u)'
  BY <1>1, <1>7, <1>8, Zenon DEF LiveOK
<1> QED BY <1>5, <1>9, Zenon

\* What Replay does to the client: the next page of the journal, or nothing
\* when the client has all of it.
LEMMA ReplayGot ==
    ASSUME TypeOK, GotInv, NEW u \in Readers, Replay(u)
    PROVE  \/ /\ sub' = [sub EXCEPT ![u] = "live"] /\ got' = got
              /\ Seen(u) = Len(journal[ReadStream[u]])
           \/ /\ sub' = sub /\ Seen(u)' \in Nat /\ Seen(u) < Seen(u)'
              /\ Seen(u)' <= Len(journal[ReadStream[u]])
              /\ \A i \in 1..Seen(u)' : got'[u][i] = i
              /\ \A v \in Readers \ {u} : got'[v] = got[v]
<1> DEFINE len == Len(journal[ReadStream[u]])
           c == Cursor(u)
           tail == len - c
           n == IF tail < PageLimit THEN tail ELSE PageLimit
           page == [i \in 1..n |-> c + i]
<1>1. /\ len \in Nat /\ c = Seen(u) /\ Seen(u) \in Nat /\ c <= len
      /\ PageLimit \in Nat \ {0} /\ got[u] \in Seq(Nat)
      /\ \A i \in 1..Seen(u) : got[u][i] = i
  BY ReadStreamType, TypeParts, CursorSeen, Sizes, Zenon DEF GotInv, GotOK, TypeOK
<1>2. n \in Nat /\ c + n <= len /\ (n = 0 => c = len)
  BY <1>1
<1>3. CASE n = 0
  BY <1>1, <1>2, <1>3, Zenon DEF Replay
<1>4. CASE n # 0
  <2>1. got' = [got EXCEPT ![u] = @ \o page] /\ sub' = sub
    BY <1>4, Zenon DEF Replay
  <2>2. got'[u] = got[u] \o page /\ \A v \in Readers \ {u} : got'[v] = got[v]
    BY <2>1, Zenon DEF TypeOK
  <2>3. page \in Seq(Nat) /\ Len(page) = n /\ \A i \in 1..n : page[i] = c + i
    <3> HIDE DEF c, n
    <3>1. page \in [1..n -> Nat]
      BY <1>1, <1>2
    <3> QED BY <1>2, <3>1, SeqDef, LenProperties
  <2> HIDE DEF page, n
  <2>4. /\ Len(got[u] \o page) = c + n
        /\ \A i \in 1..(c + n) :
              (got[u] \o page)[i] = IF i <= c THEN got[u][i] ELSE page[i - c]
    <3> DEFINE g == got[u]
    <3>1. c = Len(g) /\ g \in Seq(Nat) /\ page \in Seq(Nat) /\ Len(page) = n
      BY <1>1, <2>3, Zenon DEF Seen
    <3> HIDE DEF c, g
    <3>2. /\ Len(g \o page) = Len(g) + Len(page)
          /\ \A i \in 1..(Len(g) + Len(page)) :
                (g \o page)[i] = IF i <= Len(g) THEN g[i] ELSE page[i - Len(g)]
      BY <3>1, ConcatProperties, Zenon
    <3>3. /\ Len(g \o page) = c + n
          /\ \A i \in 1..(c + n) :
                (g \o page)[i] = IF i <= c THEN g[i] ELSE page[i - c]
      BY <3>1, <3>2, Zenon
    <3> QED BY <3>3, Zenon DEF g
  <2>5. ASSUME NEW i \in 1..(c + n) PROVE got'[u][i] = i
    <3>1. CASE i <= c
      BY <1>1, <1>2, <2>2, <2>4, <3>1
    <3>2. CASE ~(i <= c)
      <4>1. i - c \in 1..n /\ c + (i - c) = i
        BY <1>1, <1>2, <3>2
      <4> QED BY <2>2, <2>3, <2>4, <3>2, <4>1, Zenon
    <3> QED BY <3>1, <3>2, Zenon
  <2>6. Seen(u)' = c + n
    BY <2>2, <2>4, Zenon DEF Seen
  <2>7. Seen(u)' \in Nat /\ Seen(u) < Seen(u)' /\ Seen(u)' <= len
    <3> HIDE DEF len, c
    <3> QED BY <1>1, <1>2, <1>4, <2>6
  <2> QED BY <2>1, <2>2, <2>5, <2>6, <2>7, Zenon
<1> QED BY <1>3, <1>4, Zenon

LEMMA BusReplay ==
    ASSUME TypeOK, TypeOK', MarkedInv, BatchInv, BusInv, LiveInv, GotInv,
           NEW u \in Readers, Replay(u)
    PROVE  BusOK(u)' /\ LiveOK(u)'
<1>1. /\ sub[u] = "replay" /\ BusOK(u)
      /\ UNCHANGED <<host, buf, lost, pc, batch, fence, marked, journal>>
  BY Zenon DEF Replay, BusInv, kernel, dispatcher
<1>2. sub'[u] \in {"replay", "live"}
  BY <1>1, Zenon DEF Replay, TypeOK
<1>3. Outgoing(host[u])' = Outgoing(host[u]) /\ Coming(u)' = Coming(u)
  BY <1>1, Zenon DEF Outgoing, Coming
<1>4. BusOK(u)'
  BY <1>1, <1>2, <1>3 DEF BusOK
<1>5. ASSUME sub'[u] = "live" PROVE NoGap(u)' /\ NoneMissed(u)'
  <2>1. /\ got' = got /\ Seen(u) = Len(journal[ReadStream[u]])
    BY <1>1, <1>5, ReplayGot, Zenon
  <2>2. Seen(u)' = Seen(u) /\ Seen(u) \in Nat
    BY <2>1, ReadStreamType, Zenon DEF Seen
  <2>3. \A r \in marked : r[1] = ReadStream[u] => r[2] \in Int /\ r[2] <= Seen(u)
    <3> TAKE r \in marked
    <3>1. r \in Rows /\ InJournal(r)
      BY Zenon DEF MarkedInv, TypeOK
    <3> QED BY <2>1, <3>1, RowParts, Sizes DEF InJournal
  <2>4. Coming(u) \subseteq marked
    BY <1>1, ComingMarked, Zenon
  <2>5. \A r \in Coming(u) : r[1] = ReadStream[u] => (Seen(u) + 1)..r[2] = {}
    BY <2>2, <2>3, <2>4
  <2>6. NoGap(u)'
    BY <1>3, <2>2, <2>5, Zenon DEF NoGap
  <2>7. NoneMissed(u)'
    <3> SUFFICES ASSUME NEW r \in marked, r[1] = ReadStream[u], r[2] > Seen(u)
                 PROVE  FALSE
      BY <1>1, <2>2, Zenon DEF NoneMissed
    <3> QED BY <2>2, <2>3
  <2> QED BY <2>6, <2>7, Zenon
<1>6. LiveOK(u)'
  BY <1>5, Zenon DEF LiveOK
<1> QED BY <1>4, <1>6, Zenon

\* Subscribe, Lagged, Disconnect and the end of the serving process.
LEMMA BusOnOff ==
    ASSUME TypeOK, TypeOK', BatchInv, BusInv, NEW u \in Readers,
           \/ Lagged(u) \/ Disconnect(u) \/ \E w \in Epoch : Subscribe(u, w)
           \/ host[u] \in Epoch /\ Crash(host[u])
    PROVE  BusOK(u)' /\ LiveOK(u)'
<1>0. BusOK(u)
  BY Zenon DEF BusInv
<1>1. CASE Lagged(u) \/ Disconnect(u)
  <2>1. sub'[u] = "off" /\ host'[u] = 0 /\ buf'[u] = <<>> /\ ~lost'[u]
    BY <1>1 DEF Lagged, Disconnect, Detach, TypeOK
  <2> QED BY <2>1, BusEmpty, Zenon DEF LiveOK
<1>2. CASE host[u] \in Epoch /\ Crash(host[u])
  <2>1. sub'[u] = "off" /\ host'[u] = 0 /\ buf'[u] = <<>> /\ ~lost'[u]
    BY <1>2, Zenon DEF Crash
  <2> QED BY <2>1, BusEmpty, Zenon DEF LiveOK
<1>3. ASSUME NEW w \in Epoch, Subscribe(u, w) PROVE BusOK(u)' /\ LiveOK(u)'
  <2>1. /\ sub[u] = "off" /\ pc[w] # "down" /\ sub'[u] = "replay" /\ host'[u] = w
        /\ UNCHANGED <<buf, fence>>
    BY <1>3, Zenon DEF Subscribe, TypeOK, kernel
  <2>2. w \in 1..fence'
    <3>1. ~(w > fence)
      BY <2>1, Zenon DEF BatchInv, BatchOK
    <3>2. fence \in Nat /\ w \in Nat \ {0}
      BY Sizes DEF TypeOK
    <3> QED BY <2>1, <3>1, <3>2
  <2>3. buf'[u] = <<>>
    BY <1>0, <2>1, Zenon DEF BusOK
  <2>4. BusOK(u)'
    BY <2>1, <2>2, <2>3, BusEmpty, Zenon
  <2> QED BY <2>1, <2>4, Zenon DEF LiveOK
<1> QED BY <1>1, <1>2, <1>3, Zenon

LEMMA LiveStays ==
    ASSUME TypeOK, TypeOK', LiveInv, NEW u \in Readers, Same(u),
           sub[u] # "off" => Outgoing(host[u])' = Outgoing(host[u]),
           host[u] = fence' /\ sub[u] # "off" => host[u] = fence /\ marked' = marked
    PROVE  LiveOK(u)'
<1> SUFFICES ASSUME sub[u] = "live", ~lost[u]
             PROVE  NoGap(u)' /\ (host[u] = fence' => NoneMissed(u)')
  BY Zenon DEF LiveOK, Same
<1>1. NoGap(u) /\ (host[u] = fence => NoneMissed(u))
  BY Zenon DEF LiveInv, LiveOK
<1>2. Coming(u)' = Coming(u) /\ Seen(u)' = Seen(u)
  BY ComingItems, ComingItemsNext, Zenon DEF Same, Seen
<1> QED BY <1>1, <1>2, Zenon DEF NoGap, NoneMissed

LEMMA BusStep ==
    ASSUME TypeOK, TypeOK', MarkedInv, BatchInv, BusInv, LiveInv, GotInv,
           [Next]_vars
    PROVE  BusInv' /\ LiveInv'
<1> SUFFICES ASSUME NEW u \in Readers PROVE BusOK(u)' /\ LiveOK(u)'
  BY Zenon DEF BusInv, LiveInv
<1>0. Grown
  BY GrownStep, Zenon
<1>1. CASE OwnStep(u)
  BY <1>1, BusReplay, BusFollow, BusOnOff, Zenon DEF OwnStep
<1>2. CASE host[u] \in Epoch /\ Crash(host[u])
  BY <1>2, BusOnOff, Zenon
<1>3. CASE host[u] \in Epoch /\ Publish(host[u])
  <2>1. sub[u] # "off"
    BY <1>3, Sizes, Zenon DEF BusInv, BusOK
  <2> QED BY <1>3, <2>1, BusPublish, Zenon
<1>4. CASE Same(u) /\ ~OwnStep(u) /\ ~(host[u] \in Epoch
                /\ (Crash(host[u]) \/ Publish(host[u])))
  <2>1. CASE sub[u] # "off" /\ Mark(host[u]) /\ fence = host[u]
    <3>1. host[u] \in Epoch
      BY <2>1, ComingMarked, Zenon
    <3> QED BY <1>4, <2>1, <3>1, BusMark, Zenon
  <2>2. CASE ~(sub[u] # "off" /\ Mark(host[u]) /\ fence = host[u])
    <3>1. ASSUME sub[u] # "off"
          PROVE  /\ host[u] \in Epoch
                 /\ Outgoing(host[u])' = Outgoing(host[u])
      <4>1. host[u] \in Epoch
        BY <3>1, ComingMarked, Zenon
      <4>2. \A w \in Epoch : host'[u] = w =>
                (Outgoing(w)' = Outgoing(host[u])')
        BY Zenon DEF Outgoing
      <4> QED BY <1>4, <2>2, <3>1, <4>1, <4>2, OutgoingKept, Zenon DEF Same
    <3>2. fence' >= fence /\ marked \subseteq marked'
      <4>1. fence \in Nat /\ marked \subseteq marked'
        BY <1>0, FenceNat, Zenon DEF Grown
      <4>2. fence' = fence \/ fence' = fence + 1
        BY FenceStep, Zenon
      <4> QED BY <4>1, <4>2
    <3>3. ASSUME sub[u] # "off", host[u] = fence'
          PROVE  host[u] = fence /\ marked' = marked
      <4>1. host[u] \in 1..fence /\ fence \in Nat
        BY <3>3, FenceNat, Zenon DEF BusInv, BusOK
      <4>2. fence' = fence
        <5>1. fence' = fence \/ fence' = fence + 1
          BY FenceStep, Zenon
        <5> QED BY <3>3, <4>1, <5>1
      <4> QED BY <2>2, <3>1, <3>3, <4>2, OnlyMark, Zenon
    <3> QED BY <1>4, <3>1, <3>2, <3>3, BusStays, LiveStays, Zenon
  <2> QED BY <2>1, <2>2, Zenon
<1> QED BY <1>1, <1>2, <1>3, <1>4, SameUnless, Zenon

LEMMA GotStep ==
    ASSUME TypeOK, TypeOK', MarkedInv, BatchInv, BusInv, LiveInv, GotInv,
           [Next]_vars
    PROVE  GotInv'
<1> SUFFICES ASSUME NEW u \in Readers PROVE GotOK(u)'
  BY Zenon DEF GotInv
<1> DEFINE s == ReadStream[u]
<1>1. /\ s \in Streams /\ Len(journal[s]) \in Nat /\ Len(journal'[s]) \in Nat
      /\ Len(journal[s]) <= Len(journal'[s])
  <2>1. s \in Streams /\ Len(journal[s]) \in Nat
    BY ReadStreamType, Zenon
  <2>2. journal'[s] \in Seq(Commands)
    BY <2>1, Zenon DEF TypeOK
  <2> QED BY <2>1, <2>2, LenProperties, GrownStep, Zenon DEF Grown
<1>2. /\ Seen(u) \in Nat /\ Seen(u) <= Len(journal[s])
      /\ \A i \in 1..Seen(u) : got[u][i] = i
  BY TypeParts, CursorSeen, Zenon DEF GotInv, GotOK
<1>3. CASE got'[u] = got[u]
  BY <1>1, <1>2, <1>3 DEF GotOK, Seen
<1>4. CASE Replay(u)
  BY <1>1, <1>2, <1>3, <1>4, ReplayGot DEF GotOK
<1>5. CASE Follow(u)
  <2>1. CASE /\ Seen(u)' = Seen(u) + 1 /\ Seen(u) + 1 <= Len(journal[s])
             /\ got'[u][Seen(u) + 1] = Seen(u) + 1
             /\ \A i \in 1..Seen(u) : got'[u][i] = got[u][i]
    <3>1. \A i \in 1..(Seen(u) + 1) : got'[u][i] = i
      <4> TAKE i \in 1..(Seen(u) + 1)
      <4>1. i \in 1..Seen(u) \/ i = Seen(u) + 1
        BY <1>2
      <4> QED BY <1>2, <2>1, <4>1, Zenon
    <3> QED BY <1>1, <1>2, <2>1, <3>1 DEF GotOK
  <2> QED BY <1>3, <1>5, <2>1, FollowGot, Zenon
<1>6. CASE Lagged(u) \/ Disconnect(u) \/ \E w \in Epoch : Subscribe(u, w)
  BY <1>3, <1>6, Zenon DEF Lagged, Disconnect, Subscribe
<1>7. CASE host[u] \in Epoch /\ (Publish(host[u]) \/ Crash(host[u]))
  BY <1>3, <1>7, Zenon DEF Publish, Crash
<1> QED BY <1>3, <1>4, <1>5, <1>6, <1>7, SameUnless, Zenon DEF Same, OwnStep

-----------------------------------------------------------------------------
(* The replies.                                                            *)

\* A client is told what its own request, or the one recorded under its key,
\* came to.
ReplyInv ==
    \A c \in Commands :
        /\ reply[c] = "ok" => \E d \in Recorded(Key[c]) : Body[d] = Body[c]
        /\ reply[c] = "conflict" => \E d \in Recorded(Key[c]) : Body[d] # Body[c]

\* Every event of the outbox is recorded under its key.
LEMMA RecordedRowsNext ==
    ASSUME NEW s \in Streams, NEW i \in 1..Commits, i <= Len(outbox'[s]),
           NEW d, outbox'[s][i] = d
    PROVE  d \in Recorded(Key[d])'
<1> DEFINE r == <<s, i>>
<1>1. r \in Rows /\ r[1] = s /\ r[2] = i
  BY RowParts, Zenon
<1> HIDE DEF r
<1>2. r \in Committed(Key[d])'
  BY <1>1, Zenon DEF Committed
<1> QED BY <1>1, <1>2, Zenon DEF Recorded

LEMMA RecordedStays ==
    ASSUME TypeOK, TypeOK', Grown, NEW k, NEW d \in Recorded(k)
    PROVE  d \in Recorded(k)'
<1>1. PICK r \in Rows : /\ r[2] <= Len(outbox[r[1]]) /\ Key[outbox[r[1]][r[2]]] = k
                        /\ d = outbox[r[1]][r[2]]
  BY Zenon DEF Recorded, Committed
<1> DEFINE s == r[1]
           i == r[2]
<1>2. s \in Streams /\ i \in 1..Commits
  BY RowParts, Zenon
<1>3. Len(outbox[s]) \in Nat /\ Len(outbox'[s]) \in Nat
  <2>1. outbox[s] \in Seq(Commands) /\ outbox'[s] \in Seq(Commands)
    BY <1>2, Zenon DEF TypeOK
  <2> QED BY <2>1, LenProperties, Zenon
<1>4. i <= Len(outbox[s]) /\ outbox[s][i] = d /\ Key[d] = k
  BY <1>1, Zenon
<1> HIDE DEF s, i
<1>5. /\ Len(outbox[s]) <= Len(outbox'[s])
      /\ \A x \in 1..Len(outbox[s]) : outbox'[s][x] = outbox[s][x]
  BY <1>2, Zenon DEF Grown
<1>6. i \in 1..Len(outbox[s]) /\ i <= Len(outbox'[s])
  BY <1>2, <1>3, <1>4, <1>5, Sizes
<1>7. outbox'[s][i] = d
  BY <1>4, <1>5, <1>6, Zenon
<1> QED BY <1>2, <1>4, <1>6, <1>7, RecordedRowsNext, Zenon

LEMMA ReplyStep ==
    ASSUME TypeOK, TypeOK', BatchInv, OutboxInv', ReplyInv, [Next]_vars
    PROVE  ReplyInv'
<1>0. Grown
  BY GrownStep, Zenon
<1>1. ASSUME NEW c \in Commands, reply'[c] = reply[c]
      PROVE  /\ reply'[c] = "ok" => \E d \in Recorded(Key[c])' : Body[d] = Body[c]
             /\ reply'[c] = "conflict" =>
                   \E d \in Recorded(Key[c])' : Body[d] # Body[c]
  BY <1>0, <1>1, RecordedStays, Zenon DEF ReplyInv
<1>2. CASE UNCHANGED reply
  BY <1>1, <1>2, Zenon DEF ReplyInv
<1>3. ASSUME NEW w \in Epoch, NEW c \in Commands, Execute(w, c)
      PROVE  ReplyInv'
  <2>1. \A b \in Commands \ {c} : reply'[b] = reply[b]
    BY <1>3 DEF Execute, TypeOK
  <2>2. CASE reply'[c] = reply[c]
    BY <1>1, <2>1, <2>2, Zenon DEF ReplyInv
  <2>3. CASE Recorded(Key[c]) # {} /\ reply'[c] # reply[c]
    <3>1. reply'[c] = IF \E d \in Recorded(Key[c]) : Body[d] = Body[c]
                      THEN "ok" ELSE "conflict"
      BY <1>3, <2>3 DEF Execute, TypeOK
    <3>2. /\ reply'[c] = "ok" => \E d \in Recorded(Key[c])' : Body[d] = Body[c]
          /\ reply'[c] = "conflict" =>
                \E d \in Recorded(Key[c])' : Body[d] # Body[c]
      BY <1>0, <2>3, <3>1, RecordedStays, Zenon
    <3> QED BY <1>1, <2>1, <3>2, Zenon DEF ReplyInv
  <2>4. CASE Recorded(Key[c]) = {} /\ reply'[c] # reply[c]
    <3> DEFINE s == Stream[c]
               i == Len(outbox'[s])
    <3>1. reply'[c] = "ok"
      BY <1>3, <2>4 DEF Execute, TypeOK
    <3>2. /\ s \in Streams /\ outbox'[s][i] = c /\ Len(outbox[s]) \in Nat
          /\ i = Len(outbox[s]) + 1 /\ outbox' \in [Streams -> Seq(Commands)]
      BY <1>3, <2>4, ExecuteStep, TypeParts, Lengths, Zenon
    <3>3. i \in 1..Commits
      BY <3>2, Sizes DEF OutboxInv, Commits
    <3>4. c \in Recorded(Key[c])'
      BY <3>2, <3>3, RecordedRowsNext
    <3>5. /\ reply'[c] = "ok" => \E d \in Recorded(Key[c])' : Body[d] = Body[c]
          /\ reply'[c] = "conflict" =>
                \E d \in Recorded(Key[c])' : Body[d] # Body[c]
      BY <3>1, <3>4, Zenon
    <3> QED BY <1>1, <2>1, <3>5, Zenon DEF ReplyInv
  <2> QED BY <2>2, <2>3, <2>4, Zenon
<1> QED BY <1>2, <1>3, OnlyExecute, Zenon

-----------------------------------------------------------------------------
(* The theorems.                                                           *)

PipeInv ==
    /\ TypeOK /\ OutboxInv /\ PrefixInv /\ MarkedInv /\ BatchInv
    /\ BusInv /\ GotInv /\ LiveInv /\ ReplyInv

LEMMA PipeInit == Init => PipeInv
<1> SUFFICES ASSUME Init PROVE PipeInv
  BY Zenon
<1>0. <<>> \in Seq(Commands) /\ <<>> \in Seq(Rows) /\ <<>> \in Seq(Nat)
      /\ Len(<<>>) = 0
  BY EmptySeq, Zenon
<1>1. TypeOK
  <2>1. KernelTypeOK
    BY <1>0, Sizes DEF Init, KernelTypeOK
  <2>2. DispatcherTypeOK /\ BusyOK
    BY <1>0, Sizes DEF Init, DispatcherTypeOK, BusyOK, BusyAt
  <2>3. ReaderTypeOK
    BY <1>0, Sizes DEF Init, ReaderTypeOK
  <2> QED BY <2>1, <2>2, <2>3, TypeParts, Zenon
<1>2. OutboxInv /\ PrefixInv
  BY <1>0, Sizes DEF Init, OutboxInv, PrefixInv
<1>3. MarkedInv /\ BatchInv
  BY Zenon DEF Init, MarkedInv, BatchInv, BatchOK
<1>4. BusInv
  <2> SUFFICES ASSUME NEW u \in Readers PROVE BusOK(u)
    BY Zenon DEF BusInv
  <2>1. sub[u] = "off" /\ host[u] = 0 /\ buf[u] = <<>> /\ lost[u] = FALSE
    BY Zenon DEF Init
  <2> QED BY <1>0, <2>1 DEF BusOK
<1>5. GotInv /\ LiveInv
  <2> SUFFICES ASSUME NEW u \in Readers PROVE GotOK(u) /\ LiveOK(u)
    BY Zenon DEF GotInv, LiveInv
  <2>1. sub[u] = "off" /\ got[u] = <<>>
    BY Zenon DEF Init
  <2> QED BY <1>0, <1>1, <2>1, ReadStreamType DEF GotOK, Seen, LiveOK
<1>6. ReplyInv
  BY Zenon DEF Init, ReplyInv
<1> QED BY <1>1, <1>2, <1>3, <1>4, <1>5, <1>6, Zenon DEF PipeInv

LEMMA PipeStep == PipeInv /\ [Next]_vars => PipeInv'
<1> SUFFICES ASSUME PipeInv, [Next]_vars PROVE PipeInv'
  BY Zenon
<1> USE DEF PipeInv
<1>1. TypeOK'
  BY TypeStep, Zenon
<1>2. OutboxInv' /\ PrefixInv' /\ MarkedInv'
  BY OutboxStep, PrefixStep, MarkedStep, Zenon
<1>3. BatchInv'
  BY <1>1, BatchStep, Zenon
<1>4. BusInv' /\ LiveInv'
  BY <1>1, BusStep, Zenon
<1>5. GotInv'
  BY <1>1, GotStep, Zenon
<1>6. ReplyInv'
  BY <1>1, <1>2, ReplyStep, Zenon
<1> QED BY <1>1, <1>2, <1>3, <1>4, <1>5, <1>6, Zenon

LEMMA PipeAlways == Spec => []PipeInv
BY PipeInit, PipeStep, PTL DEF Spec

\* The state of the coordinator, the dispatchers and the subscriptions keeps
\* its types: in particular a dispatcher that is reading or appending a group
\* has one, and no receiver's buffer outgrows the bus.
THEOREM TypeCorrect == Spec => []TypeOK
<1>1. PipeInv => TypeOK
  BY Zenon DEF PipeInv
<1> QED BY <1>1, PipeAlways, PTL

\* However many daemon instances overlap, fail or die between a scan, the
\* append to the journal and the mark, the journal of a stream is a prefix of
\* its outbox, and the marked rows are a prefix of the journal.
THEOREM JournalStaysPrefix == Spec => []JournalIsPrefix
<1>1. ASSUME PipeInv PROVE JournalIsPrefix
  <2>1. ASSUME NEW s \in Streams
        PROVE  /\ Len(journal[s]) <= Len(outbox[s])
               /\ journal[s] = SubSeq(outbox[s], 1, Len(journal[s]))
    <3> DEFINE n == Len(journal[s])
               a == journal[s]
               b == SubSeq(outbox[s], 1, n)
    <3>1. /\ n \in Nat /\ Len(outbox[s]) \in Nat /\ n <= Len(outbox[s])
          /\ \A i \in 1..n : journal[s][i] \in Commands /\ outbox[s][i] \in Commands
          /\ \A i \in 1..n : journal[s][i] = outbox[s][i]
      BY <1>1, TypeParts, Lengths, Zenon DEF PipeInv, PrefixInv
    <3>2. /\ a \in Seq(Commands) /\ Len(a) = n
          /\ \A i \in 1..n : a[i] = journal[s][i]
      BY <1>1, TypeParts, Zenon DEF PipeInv, DispatcherTypeOK, KernelTypeOK
    <3>3. /\ b \in Seq(Commands) /\ Len(b) = n
          /\ \A i \in 1..n : b[i] = outbox[s][i]
      <4>1. /\ b \in Seq(Commands) /\ Len(b) = IF 1 <= n THEN n - 1 + 1 ELSE 0
            /\ \A i \in 1..(n - 1 + 1) : b[i] = outbox[s][1 + i - 1]
        BY <3>1, SubSeqProperties
      <4> HIDE DEF b
      <4> QED BY <3>1, <4>1
    <3> HIDE DEF a, b
    <3>4. a = b
      BY <3>1, <3>2, <3>3, SeqEqual
    <3> QED BY <3>1, <3>4, Zenon DEF a, b
  <2>2. ASSUME NEW r \in marked
        PROVE  /\ r[2] <= Len(journal[r[1]])
               /\ r[2] > 1 => <<r[1], r[2] - 1>> \in marked
    <3>1. InJournal(r) /\ UpTo(r) \subseteq marked /\ r \in Rows
      BY <1>1, Zenon DEF PipeInv, MarkedInv, TypeOK
    <3>2. r[2] \in Nat
      BY <3>1, RowParts, Sizes
    <3>3. r[2] > 1 => r[2] - 1 \in 1..r[2]
      BY <3>2
    <3> QED BY <3>1, <3>3, Zenon DEF InJournal, UpTo
  <2> QED BY <2>1, <2>2, Zenon DEF JournalIsPrefix
<1> QED BY <1>1, PipeAlways, PTL

\* A command takes effect at most once per idempotency key, whatever replies
\* are lost and however often it is submitted again; and a reply tells the
\* client what the command recorded under its key was.
THEOREM KeysCommitOnce == Spec => []OncePerKey
<1>1. ASSUME PipeInv PROVE OncePerKey
  <2>1. ASSUME NEW k \in Keys PROVE Cardinality(Committed(k)) <= 1
    <3>1. ASSUME NEW p \in Committed(k), NEW q \in Committed(k) PROVE p = q
      <4>1. /\ p \in Rows /\ p[2] <= Len(outbox[p[1]]) /\ Key[outbox[p[1]][p[2]]] = k
            /\ q \in Rows /\ q[2] <= Len(outbox[q[1]]) /\ Key[outbox[q[1]][q[2]]] = k
        BY Zenon DEF Committed
      <4>2. /\ p[1] \in Streams /\ p[2] \in 1..Commits /\ p = <<p[1], p[2]>>
            /\ q[1] \in Streams /\ q[2] \in 1..Commits /\ q = <<q[1], q[2]>>
        BY <4>1, RowParts, Zenon
      <4>3. Len(outbox[p[1]]) \in Nat /\ Len(outbox[q[1]]) \in Nat
        BY <1>1, <4>2, TypeParts, Lengths, Zenon DEF PipeInv
      <4>4. p[2] \in 1..Len(outbox[p[1]]) /\ q[2] \in 1..Len(outbox[q[1]])
        BY <4>1, <4>2, <4>3, Sizes
      <4>5. p[1] = q[1] /\ p[2] = q[2]
        BY <1>1, <4>1, <4>2, <4>4 DEF PipeInv, OutboxInv
      <4> QED BY <4>2, <4>5, Zenon
    <3>2. CASE Committed(k) = {}
      BY <3>2, FS_EmptySet
    <3>3. CASE Committed(k) # {}
      <4>1. PICK p \in Committed(k) : TRUE
        BY <3>3, Zenon
      <4>2. Committed(k) = {p}
        BY <3>1, <4>1, Zenon
      <4> QED BY <4>2, FS_Singleton
    <3> QED BY <3>2, <3>3, Zenon
  <2> QED BY <1>1, <2>1, Zenon DEF OncePerKey, PipeInv, ReplyInv
<1> QED BY <1>1, PipeAlways, PTL

-----------------------------------------------------------------------------
(* The refinement of EventLog.                                             *)

\* The keys of the first n commands of a sequence.
KeysTo(q, n) == [i \in 1..n |-> Key[q[i]]]

LEMMA KeysSeq ==
    ASSUME NEW q \in Seq(Commands), NEW n \in Nat, n <= Len(q)
    PROVE  /\ KeysTo(q, n) \in Seq(Keys) /\ Len(KeysTo(q, n)) = n
           /\ \A i \in 1..n : KeysTo(q, n)[i] = Key[q[i]]
<1>1. \A i \in 1..n : q[i] \in Commands
  BY LenProperties, ElementOfSeq
<1>2. KeysTo(q, n) \in [1..n -> Keys]
  BY <1>1, Zenon DEF KeysTo, Keys
<1>3. \A i \in 1..n : KeysTo(q, n)[i] = Key[q[i]]
  BY Zenon DEF KeysTo
<1> QED BY <1>2, <1>3, SeqDef, LenProperties

LEMMA KeysAppend ==
    ASSUME NEW q \in Seq(Commands), NEW p \in Seq(Commands), NEW c \in Commands,
           Len(p) = Len(q) + 1, \A i \in 1..Len(q) : p[i] = q[i], p[Len(p)] = c
    PROVE  KeysTo(p, Len(p)) = Append(KeysTo(q, Len(q)), Key[c])
<1> DEFINE n == Len(q)
           a == KeysTo(p, n + 1)
           b == KeysTo(q, n)
           e == Append(b, Key[c])
<1>1. n \in Nat /\ n <= Len(q) /\ n + 1 \in Nat /\ n + 1 <= Len(p) /\ Key[c] \in Keys
  BY LenProperties DEF Keys
<1>2. /\ a \in Seq(Keys) /\ Len(a) = n + 1
      /\ \A i \in 1..(n + 1) : a[i] = Key[p[i]]
  BY <1>1, KeysSeq, Zenon
<1>3. b \in Seq(Keys) /\ Len(b) = n /\ \A i \in 1..n : b[i] = Key[q[i]]
  BY <1>1, KeysSeq, Zenon
<1> HIDE DEF a, b
<1>4. /\ e \in Seq(Keys) /\ Len(e) = n + 1 /\ \A i \in 1..n : e[i] = b[i]
      /\ e[n + 1] = Key[c]
  BY <1>1, <1>3, AppendProperties
<1> HIDE DEF e
<1>5. ASSUME NEW i \in 1..(n + 1) PROVE a[i] = e[i]
  <2>1. i \in 1..n \/ i = n + 1
    BY <1>1
  <2> QED BY <1>1, <1>2, <1>3, <1>4, <2>1, Zenon
<1>6. a = e
  BY <1>2, <1>4, <1>5, SeqEqual
<1> QED BY <1>6, Zenon DEF a, b, e

LEMMA KeysPrefix ==
    ASSUME NEW q \in Seq(Commands), NEW m \in Nat, NEW n \in Nat,
           n <= m, m <= Len(q)
    PROVE  SubSeq(KeysTo(q, m), 1, n) = KeysTo(q, n)
<1> DEFINE a == KeysTo(q, m)
           b == KeysTo(q, n)
           e == SubSeq(a, 1, n)
<1>0. Len(q) \in Nat /\ n <= Len(q)
  BY LenProperties
<1>1. a \in Seq(Keys) /\ Len(a) = m /\ \A i \in 1..m : a[i] = Key[q[i]]
  BY KeysSeq, Zenon
<1>2. b \in Seq(Keys) /\ Len(b) = n /\ \A i \in 1..n : b[i] = Key[q[i]]
  BY <1>0, KeysSeq, Zenon
<1> HIDE DEF a, b
<1>3. \A i \in 1..n : i \in 1..m /\ a[i] \in Keys
  BY <1>1, ElementOfSeq
<1>4. /\ e \in Seq(Keys) /\ Len(e) = IF 1 <= n THEN n - 1 + 1 ELSE 0
      /\ \A i \in 1..(n - 1 + 1) : e[i] = a[1 + i - 1]
  BY <1>3, SubSeqProperties
<1> HIDE DEF e
<1>5. Len(e) = n /\ \A i \in 1..n : e[i] = a[i]
  BY <1>4
<1>6. \A i \in 1..n : e[i] = b[i]
  BY <1>1, <1>2, <1>3, <1>5, Zenon
<1>7. e = b
  BY <1>2, <1>4, <1>5, <1>6, SeqEqual, Zenon
<1> QED BY <1>7, Zenon DEF a, b, e

\* EventLog's log, and its got when the journal is a prefix of the outbox and a
\* client has the beginning of the journal.
LogView(o) == [s \in Streams |-> KeysTo(o[s], Len(o[s]))]
ReadView(o, g) == [u \in Readers |-> KeysTo(o[ReadStream[u]], Len(g[u]))]

GotKeys(j, g) ==
    [u \in Readers |-> [i \in 1..Len(g[u]) |-> Key[j[ReadStream[u]][g[u][i]]]]]

LEMMA SameView ==
    ASSUME NEW o, NEW j, NEW g,
           \A u \in Readers : \A i \in 1..Len(g[u]) :
               g[u][i] = i /\ j[ReadStream[u]][i] = o[ReadStream[u]][i]
    PROVE  GotKeys(j, g) = ReadView(o, g)
BY DEF GotKeys, ReadView, KeysTo

LEMMA Views ==
    ASSUME PipeInv
    PROVE  /\ GotKeys(journal, got) = ReadView(outbox, got)
           /\ \A u \in Readers :
                 /\ ReadStream[u] \in Streams
                 /\ outbox[ReadStream[u]] \in Seq(Commands)
                 /\ Len(outbox[ReadStream[u]]) \in Nat /\ Len(got[u]) \in Nat
                 /\ Len(got[u]) <= Len(outbox[ReadStream[u]])
<1>1. ASSUME NEW u \in Readers
      PROVE  /\ ReadStream[u] \in Streams
             /\ outbox[ReadStream[u]] \in Seq(Commands)
             /\ Len(outbox[ReadStream[u]]) \in Nat /\ Len(got[u]) \in Nat
             /\ Len(got[u]) <= Len(outbox[ReadStream[u]])
             /\ \A i \in 1..Len(got[u]) :
                   /\ got[u][i] = i
                   /\ journal[ReadStream[u]][i] = outbox[ReadStream[u]][i]
  <2> DEFINE s == ReadStream[u]
  <2>1. /\ s \in Streams /\ Len(journal[s]) \in Nat /\ Len(outbox[s]) \in Nat
        /\ outbox[s] \in Seq(Commands) /\ Len(got[u]) \in Nat
    BY ReadStreamType, TypeParts, Lengths, CursorSeen, Zenon DEF PipeInv, Seen
  <2>2. /\ Len(journal[s]) <= Len(outbox[s])
        /\ \A i \in 1..Len(journal[s]) : journal[s][i] = outbox[s][i]
    BY <2>1, Zenon DEF PipeInv, PrefixInv
  <2>3. Len(got[u]) <= Len(journal[s]) /\ \A i \in 1..Len(got[u]) : got[u][i] = i
    BY Zenon DEF PipeInv, GotInv, GotOK, Seen
  <2> QED BY <2>1, <2>2, <2>3
<1>2. GotKeys(journal, got) = ReadView(outbox, got)
  BY <1>1, SameView, Zenon
<1> QED BY <1>1, <1>2, Zenon

LEMMA ViewsNext ==
    ASSUME PipeInv'
    PROVE  GotKeys(journal', got') = ReadView(outbox', got')
<1>1. ASSUME NEW u \in Readers
      PROVE  \A i \in 1..Len(got'[u]) :
                /\ got'[u][i] = i
                /\ journal'[ReadStream[u]][i] = outbox'[ReadStream[u]][i]
  <2> DEFINE s == ReadStream[u]
  <2>1. s \in Streams
    BY PipelineAssumption, Zenon
  <2>2. journal'[s] \in Seq(Commands) /\ got'[u] \in Seq(Nat)
    BY <2>1, Zenon DEF PipeInv, TypeOK
  <2>3. Len(journal'[s]) \in Nat /\ Len(got'[u]) \in Nat
    BY <2>2, LenProperties, Zenon
  <2>4. \A i \in 1..Len(journal'[s]) : journal'[s][i] = outbox'[s][i]
    BY <2>1, Zenon DEF PipeInv, PrefixInv
  <2>5. /\ Len(got'[u]) <= Len(journal'[s])
        /\ \A i \in 1..Len(got'[u]) : got'[u][i] = i
    BY Zenon DEF PipeInv, GotInv, GotOK, Seen
  <2> QED BY <2>3, <2>4, <2>5
<1> QED BY <1>1, SameView, Zenon

\* Only the subscription's own steps give its client events.
LEMMA OnlyReads ==
    ASSUME [Next]_vars
    PROVE  \/ UNCHANGED got
           \/ \E u \in Readers : UNCHANGED outbox /\ (Replay(u) \/ Follow(u))
<1> USE DEF kernel, readers
<1>1. CASE UNCHANGED vars \/ \E u \in Readers :
               \/ Lagged(u) \/ Disconnect(u) \/ \E w \in Epoch : Subscribe(u, w)
  BY <1>1, Zenon DEF vars, Lagged, Disconnect, Subscribe
<1>2. CASE \E w \in Epoch : \/ Boot(w) \/ Crash(w) \/ DispatchFails(w)
                            \/ Scan(w) \/ ReadBack(w) \/ Mark(w) \/ Publish(w)
                            \/ JournalAppend(w) \/ \E c \in Commands : Execute(w, c)
  BY <1>2, Zenon DEF Boot, Crash, DispatchFails, Scan, ReadBack, Mark, Publish,
              JournalAppend, Execute
<1>3. CASE \E u \in Readers : Replay(u) \/ Follow(u)
  BY <1>3, Zenon DEF Replay, Follow
<1> QED BY <1>1, <1>2, <1>3, Zenon DEF Next, Dispatch

\* A step that gives a client events is EventLog's Read, a step that commits a
\* command is its Commit, and every other step changes neither view.
ReadStep(u, n) ==
    /\ n \in 1..Len(outbox[ReadStream[u]])
    /\ Len(got[u]) < n /\ Len(got'[u]) = n
    /\ \A v \in Readers \ {u} : got'[v] = got[v]

LEMMA ReadsAdvance ==
    ASSUME PipeInv, NEW u \in Readers, Replay(u) \/ Follow(u), ~UNCHANGED got
    PROVE  \E n \in Nat : ReadStep(u, n)
<1>1. /\ Len(journal[ReadStream[u]]) \in Nat /\ Len(got[u]) \in Nat
      /\ Len(outbox[ReadStream[u]]) \in Nat
      /\ Len(journal[ReadStream[u]]) <= Len(outbox[ReadStream[u]])
  BY Views, ReadStreamType, Zenon DEF PipeInv, PrefixInv
<1>2. CASE Replay(u)
  <2>1. /\ Seen(u)' \in Nat /\ Seen(u) < Seen(u)'
        /\ Seen(u)' <= Len(journal[ReadStream[u]])
        /\ \A v \in Readers \ {u} : got'[v] = got[v]
    BY <1>2, ReplayGot, Zenon DEF PipeInv
  <2> QED BY <1>1, <2>1 DEF ReadStep, Seen
<1>3. CASE Follow(u)
  <2>1. /\ Seen(u)' = Seen(u) + 1
        /\ Seen(u) + 1 <= Len(journal[ReadStream[u]])
    BY <1>3, FollowGot, Zenon DEF PipeInv
  <2>2. \A v \in Readers \ {u} : got'[v] = got[v]
    BY <1>3, Zenon DEF Follow, PipeInv, TypeOK
  <2>3. Len(got[u]) + 1 \in 1..Len(outbox[ReadStream[u]]) /\ Len(got[u]) + 1 \in Nat
    BY <1>1, <2>1 DEF Seen
  <2> QED BY <1>1, <2>1, <2>2, <2>3 DEF ReadStep, Seen
<1> QED BY <1>2, <1>3, Zenon

LEMMA ViewRead ==
    ASSUME PipeInv, NEW u \in Readers, NEW n \in Nat, ReadStep(u, n),
           UNCHANGED outbox
    PROVE  /\ n \in 1..Len(LogView(outbox)[ReadStream[u]])
           /\ Len(ReadView(outbox, got)[u]) < n
           /\ ReadView(outbox', got') =
                 [ReadView(outbox, got) EXCEPT ![u] =
                     SubSeq(LogView(outbox)[ReadStream[u]], 1, n)]
<1> DEFINE s == ReadStream[u]
           q == outbox[s]
<1>1. /\ s \in Streams /\ q \in Seq(Commands) /\ Len(q) \in Nat
      /\ Len(got[u]) \in Nat /\ Len(got[u]) <= Len(q)
      /\ n \in 1..Len(q) /\ Len(got[u]) < n /\ Len(got'[u]) = n
  BY Views, Zenon DEF ReadStep
<1>2. LogView(outbox)[s] = KeysTo(q, Len(q)) /\ Len(KeysTo(q, Len(q))) = Len(q)
  BY <1>1, KeysSeq DEF LogView
<1>3. /\ ReadView(outbox, got)[u] = KeysTo(q, Len(got[u]))
      /\ Len(KeysTo(q, Len(got[u]))) = Len(got[u])
  BY <1>1, KeysSeq, Zenon DEF ReadView
<1>4. SubSeq(KeysTo(q, Len(q)), 1, n) = KeysTo(q, n)
  <2>1. q \in Seq(Commands) /\ Len(q) \in Nat /\ n <= Len(q) /\ Len(q) <= Len(q)
    BY <1>1
  <2> QED BY <2>1, KeysPrefix, Zenon
<1>5. ReadView(outbox', got') = [ReadView(outbox, got) EXCEPT ![u] = KeysTo(q, n)]
  <2>1. \A v \in Readers : KeysTo(outbox'[ReadStream[v]], Len(got'[v])) =
            IF v = u THEN KeysTo(q, n) ELSE KeysTo(outbox[ReadStream[v]], Len(got[v]))
    BY <1>1, Zenon DEF ReadStep
  <2> QED BY <2>1, Zenon DEF ReadView
<1> QED BY <1>1, <1>2, <1>3, <1>4, <1>5, Zenon

LEMMA ViewCommit ==
    ASSUME PipeInv, NEW w \in Epoch, NEW c \in Commands, Execute(w, c),
           ~UNCHANGED outbox
    PROVE  /\ Stream[c] \in Streams
           /\ \A s \in Streams : \A i \in 1..Len(LogView(outbox)[s]) :
                 LogView(outbox)[s][i] # Key[c]
           /\ LogView(outbox') =
                 [LogView(outbox) EXCEPT ![Stream[c]] = Append(@, Key[c])]
           /\ ReadView(outbox', got') = ReadView(outbox, got)
<1> DEFINE t == Stream[c]
<1>1. /\ KernelTypeOK /\ OutboxInv /\ Recorded(Key[c]) = {} /\ t \in Streams
      /\ outbox' \in [Streams -> Seq(Commands)]
      /\ \A s \in Streams \ {t} : outbox'[s] = outbox[s]
      /\ Len(outbox'[t]) = Len(outbox[t]) + 1
      /\ \A i \in 1..Len(outbox[t]) : outbox'[t][i] = outbox[t][i]
      /\ outbox'[t][Len(outbox'[t])] = c
  BY TypeParts, ExecuteStep, Zenon DEF PipeInv
<1>2. \A s \in Streams :
          /\ outbox[s] \in Seq(Commands) /\ Len(outbox[s]) \in Nat
          /\ LogView(outbox)[s] = KeysTo(outbox[s], Len(outbox[s]))
  BY <1>1, Lengths, Zenon DEF LogView
<1>3. ASSUME NEW s \in Streams, NEW i \in 1..Len(LogView(outbox)[s])
      PROVE  LogView(outbox)[s][i] # Key[c]
  <2>1. Len(LogView(outbox)[s]) = Len(outbox[s])
    BY <1>2, KeysSeq
  <2>2. LogView(outbox)[s][i] = Key[outbox[s][i]]
    BY <1>2, <2>1, KeysSeq
  <2>3. i \in 1..Len(outbox[s])
    BY <2>1, Zenon
  <2>4. Key[outbox[s][i]] # Key[c]
    BY <1>1, <2>3, LookupSound, Zenon
  <2> QED BY <2>2, <2>4, Zenon
<1>4. KeysTo(outbox'[t], Len(outbox'[t])) =
          Append(KeysTo(outbox[t], Len(outbox[t])), Key[c])
  <2>1. outbox[t] \in Seq(Commands) /\ outbox'[t] \in Seq(Commands)
    BY <1>1, <1>2, Zenon
  <2> QED BY <1>1, <2>1, KeysAppend, Zenon
<1> HIDE DEF t
<1>5. LogView(outbox') = [LogView(outbox) EXCEPT ![t] = Append(@, Key[c])]
  <2> DEFINE e == Append(KeysTo(outbox[t], Len(outbox[t])), Key[c])
  <2>1. [LogView(outbox) EXCEPT ![t] = Append(@, Key[c])] =
            [LogView(outbox) EXCEPT ![t] = e]
    BY <1>1, <1>2, Zenon
  <2> HIDE DEF e
  <2>2. \A s \in Streams : KeysTo(outbox'[s], Len(outbox'[s])) =
            IF s = t THEN e ELSE KeysTo(outbox[s], Len(outbox[s]))
    BY <1>1, <1>4, Zenon DEF e
  <2>3. LogView(outbox') = [LogView(outbox) EXCEPT ![t] = e]
    BY <2>2, Zenon DEF LogView
  <2> QED BY <2>1, <2>3, Zenon
<1>6. ReadView(outbox', got') = ReadView(outbox, got)
  <2>1. got' = got
    BY Zenon DEF Execute, readers
  <2>2. ASSUME NEW u \in Readers
        PROVE  KeysTo(outbox'[ReadStream[u]], Len(got[u])) =
                   KeysTo(outbox[ReadStream[u]], Len(got[u]))
    <3> DEFINE s == ReadStream[u]
    <3>1. /\ s \in Streams /\ Len(got[u]) \in Nat /\ Len(outbox[s]) \in Nat
          /\ Len(got[u]) <= Len(outbox[s])
      BY Views, Zenon
    <3>2. \A i \in 1..Len(outbox[s]) : outbox'[s][i] = outbox[s][i]
      BY <1>1, <3>1, Zenon
    <3>3. \A i \in 1..Len(got[u]) : outbox'[s][i] = outbox[s][i]
      BY <3>1, <3>2
    <3> QED BY <3>3, Zenon DEF KeysTo
  <2> QED BY <2>1, <2>2, Zenon DEF ReadView
<1> QED BY <1>1, <1>3, <1>5, <1>6, Zenon DEF t

\* The event pipeline is the log it promises: a step is the commit of one
\* command under a key of its own, the delivery of the next events of a stream
\* to one client, or invisible; nothing is delivered twice, skipped or out of
\* order, over any number of restarts, lags and reconnections.
THEOREM ImplementsLog == Spec => LogSpec
<1> DEFINE L == LogView(outbox)
           G == GotKeys(journal, got)
<1>1. Init => Log!Init
  <2> SUFFICES ASSUME Init PROVE Log!Init
    BY Zenon
  <2>1. \A n : n = 0 => 1..n = {}
    OBVIOUS
  <2>2. \A s \in Streams : outbox[s] = <<>> /\ Len(outbox[s]) = 0
    BY EmptySeq, Zenon DEF Init
  <2>3. \A u \in Readers : got[u] = <<>> /\ Len(got[u]) = 0
    BY EmptySeq, Zenon DEF Init
  <2> QED BY <2>2, <2>3 DEF Log!Init
<1>2. PipeInv /\ PipeInv' /\ [Next]_vars => Log!Next \/ (L' = L /\ G' = G)
  <2> SUFFICES ASSUME PipeInv, PipeInv', [Next]_vars
               PROVE  Log!Next \/ (L' = L /\ G' = G)
    BY Zenon
  <2> DEFINE R == ReadView(outbox, got)
  <2>0. G = R /\ G' = ReadView(outbox', got')
    BY Views, ViewsNext, Zenon
  <2>1. CASE UNCHANGED <<outbox, got>>
    BY <2>0, <2>1, Zenon
  <2>2. ASSUME NEW w \in Epoch, NEW c \in Commands, Execute(w, c),
               ~UNCHANGED outbox
        PROVE  Log!Next
    <3>1. /\ Stream[c] \in Streams /\ Key[c] \in Keys
          /\ \A s \in Streams : \A i \in 1..Len(L[s]) : L[s][i] # Key[c]
          /\ L' = [L EXCEPT ![Stream[c]] = Append(@, Key[c])]
          /\ G' = G
      BY <2>0, <2>2, ViewCommit, Zenon DEF Keys
    <3>2. Log!Commit(Stream[c], Key[c])
      BY <3>1, Zenon DEF Log!Commit, Log!Committed, LogView, KeysTo, GotKeys
    <3> QED BY <3>1, <3>2, Zenon DEF Log!Next
  <2>3. ASSUME NEW u \in Readers, UNCHANGED outbox, Replay(u) \/ Follow(u),
               ~UNCHANGED got
        PROVE  Log!Next
    <3>1. PICK n \in Nat : ReadStep(u, n)
      BY <2>3, ReadsAdvance, Zenon
    <3>2. /\ n \in 1..Len(L[ReadStream[u]]) /\ Len(G[u]) < n
          /\ G' = [G EXCEPT ![u] = SubSeq(L[ReadStream[u]], 1, n)]
          /\ L' = L
      BY <2>0, <2>3, <3>1, ViewRead, Zenon
    <3>3. Log!Read(u, n)
      BY <3>2, Zenon DEF Log!Read, LogView, KeysTo, GotKeys
    <3>4. n \in 1..Len([s \in Streams |-> [i \in 1..Len(outbox[s]) |->
                            Key[outbox[s][i]]]][ReadStream[u]])
      BY <3>2, Zenon DEF LogView, KeysTo
    <3> QED BY <3>3, <3>4, Zenon DEF Log!Next
  <2> QED BY <2>1, <2>2, <2>3, OnlyExecute, OnlyReads, Zenon
<1>3. PipeInv /\ PipeInv' /\ [Next]_vars =>
        [Log!Next]_<<[s \in Streams |-> [i \in 1..Len(outbox[s]) |->
                                            Key[outbox[s][i]]]],
                     [u \in Readers |-> [i \in 1..Len(got[u]) |->
                          Key[journal[ReadStream[u]][got[u][i]]]]]>>
  BY <1>2, Zenon DEF LogView, KeysTo, GotKeys
<1> QED BY <1>1, <1>3, PipeAlways, PTL DEF Spec, LogSpec, Log!Spec
=============================================================================
