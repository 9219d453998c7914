---------------------------- MODULE MessageQueue ----------------------------
(***************************************************************************)
(* The in-memory message queue (message-queue/src/in_memory.rs): bounded   *)
(* channels with acknowledged delivery and publisher-side deduplication.   *)
(* A message is its (stream, message_id) key; publishing a key that is     *)
(* still remembered changes nothing, whether it replays or conflicts, so   *)
(* payloads are left out.  live_ids and live_order hold the same keys, as  *)
(* do queued and messages.  Every call holds the mutex, so it is one step. *)
(***************************************************************************)
EXTENDS Naturals, Sequences, Functions, FiniteSets

CONSTANTS
    Messages,
    Stream,         \* the stream of each
    Capacity,       \* QUEUE_CAPACITY_MESSAGES
    TombstoneCap,   \* TOMBSTONE_CAP
    MaxBatch,       \* bound: "max" of a consume
    MaxDeliveries   \* bound: deliveries

\* in_memory.rs has TOMBSTONE_CAP = QUEUE_CAPACITY_MESSAGES * 4.
ASSUME QueueAssumption ==
    Capacity \in Nat /\ TombstoneCap \in Nat /\ Capacity <= TombstoneCap

Streams == {Stream[m] : m \in Messages}

VARIABLES
    live,      \* live_order: the keys deduplication remembers
    pending,   \* channel -> keys waiting for a consumer
    queued,    \* the keys on some channel
    handed,    \* delivery d handed out the key handed[d]
    inFlight,  \* deliveries neither acked nor nacked
    unacked    \* ghost: accepted publications not acked yet

queueVars == <<live, pending, queued, handed, inFlight, unacked>>

QueueTypeOK ==
    /\ live \in Seq(Messages)
    /\ pending \in [Streams -> Seq(Messages)]
    /\ queued \subseteq Messages
    /\ handed \in Seq(Messages)
    /\ inFlight \subseteq DOMAIN handed
    /\ unacked \subseteq Messages

QueueInit ==
    /\ live = <<>>
    /\ pending = [s \in Streams |-> <<>>]
    /\ queued = {}
    /\ handed = <<>>
    /\ inFlight = {}
    /\ unacked = {}

-----------------------------------------------------------------------------
occupied == Cardinality(queued) + Cardinality(inFlight)

Delivering(ds) == {handed[d] : d \in ds}

\* Mutant: a key in flight may be forgotten.
evict_tombstones_Flying(order, q, ds) ==
    LET scan[k \in 0..Len(order)] ==
            IF k = 0 THEN order
            ELSE LET o == scan[k - 1]
                 IN  IF Len(o) <= TombstoneCap \/ k > Len(o) THEN o
                     ELSE IF Head(o) \in q THEN Append(Tail(o), Head(o))
                     ELSE Tail(o)
    IN  scan[Len(order)]

\* Mutant: the scan stops at the first key still in use.
evict_tombstones_Stops(order, q, ds) ==
    LET n == Len(order) - TombstoneCap
    IN  IF n > 0 /\ Head(order) \notin q \cup Delivering(ds) THEN Tail(order) ELSE order

\* scan[k] is live_order after k turns of the loop: over the cap, the
\* oldest key is forgotten, or moved to the back while it is in use.
evict_tombstones(order, q, ds) ==
    LET scan[k \in 0..Len(order)] ==
            IF k = 0 THEN order
            ELSE LET o == scan[k - 1]
                 IN  IF Len(o) <= TombstoneCap \/ k > Len(o) THEN o
                     ELSE IF Head(o) \in q \cup Delivering(ds)
                     THEN Append(Tail(o), Head(o))
                     ELSE Tail(o)
    IN  scan[Len(order)]

publish(m) ==
    /\ m \notin Range(live)
    /\ occupied < Capacity
    /\ pending' = [pending EXCEPT ![Stream[m]] = Append(@, m)]
    /\ queued' = queued \cup {m}
    /\ live' = evict_tombstones(Append(live, m), queued', inFlight)
    /\ unacked' = unacked \cup {m}
    /\ UNCHANGED <<handed, inFlight>>

\* Mutant: deliveries are numbered one too far.
consume_OffByOne(s, max) ==
    LET n == IF max < Len(pending[s]) THEN max ELSE Len(pending[s])
        taken == SubSeq(pending[s], 1, n)
    IN  /\ n > 0
        /\ Len(handed) + n <= MaxDeliveries
        /\ pending' = [pending EXCEPT ![s] = SubSeq(@, n + 1, Len(@))]
        /\ queued' = queued \ Range(taken)
        /\ handed' = handed \o taken
        /\ inFlight' = inFlight \cup (Len(handed) + 2 .. Len(handed) + n + 1)
        /\ UNCHANGED <<live, unacked>>

consume(s, max) ==
    LET n == IF max < Len(pending[s]) THEN max ELSE Len(pending[s])
        taken == SubSeq(pending[s], 1, n)
    IN  /\ n > 0
        /\ Len(handed) + n <= MaxDeliveries
        /\ pending' = [pending EXCEPT ![s] = SubSeq(@, n + 1, Len(@))]
        /\ queued' = queued \ Range(taken)
        /\ handed' = handed \o taken
        /\ inFlight' = inFlight \cup (Len(handed) + 1 .. Len(handed) + n)
        /\ UNCHANGED <<live, unacked>>

ack(d) ==
    /\ d \in inFlight
    /\ inFlight' = inFlight \ {d}
    /\ live' = evict_tombstones(live, queued, inFlight')
    /\ unacked' = unacked \ {handed[d]}
    /\ UNCHANGED <<pending, queued, handed>>

nack(d) ==
    /\ d \in inFlight
    /\ inFlight' = inFlight \ {d}
    /\ pending' = [pending EXCEPT ![Stream[handed[d]]] = <<handed[d]>> \o @]
    /\ queued' = queued \cup {handed[d]}
    /\ UNCHANGED <<live, handed, unacked>>

QueueNext ==
    \/ \E m \in Messages : publish(m)
    \/ \E s \in Streams, n \in 1..MaxBatch : consume(s, n)
    \/ \E d \in DOMAIN handed : ack(d)
    \/ \E d \in DOMAIN handed : nack(d)

QueueSpec == QueueInit /\ [][QueueNext]_queueVars

-----------------------------------------------------------------------------
(* Nothing accepted is lost or doubled: every publication not acked yet    *)
(* waits on its channel exactly once or is in flight under exactly one     *)
(* delivery, and an acked one is nowhere, through producer retries, nacks, *)
(* redeliveries and the eviction of tombstones.                            *)
HeldOnce ==
    /\ queued \cap Delivering(inFlight) = {}
    /\ queued \cup Delivering(inFlight) = unacked
    /\ Cardinality(Delivering(inFlight)) = Cardinality(inFlight)
    /\ \A s \in Streams : IsInjective(pending[s])
    /\ \A s \in Streams : Range(pending[s]) = {m \in queued : Stream[m] = s}

(* The queue's memory is bounded: pending and in-flight messages stay      *)
(* within the capacity and remembered keys within the tombstone cap, even  *)
(* when the oldest keys are the ones still in use.                         *)
MemoryBounded ==
    /\ occupied <= Capacity
    /\ Len(live) <= TombstoneCap

(* Nothing accepted is lost or doubled, and capacity and tombstones keep   *)
(* to their bounds (in_memory.rs).                                         *)
NoneLost == HeldOnce /\ MemoryBounded
=============================================================================
