--------------------------- MODULE EventPipeline ---------------------------
(***************************************************************************)
(* From a client's command to a subscriber's event: the command            *)
(* coordinator (command-coordinator/src/lib.rs), the transactional outbox, *)
(* the dispatcher (events/src/dispatcher.rs), the event journal in a       *)
(* database of its own (event-journal-sqlite), the live bus and the        *)
(* subscriptions of the event API (control-api/src/event_service.rs).      *)
(*                                                                         *)
(* Every kernel-store or journal transaction is one step.  A daemon        *)
(* instance is named by its fence epoch.  The kernel store refuses a       *)
(* superseded instance, the journal does not, so that two dispatchers may  *)
(* append to it at a time.  The event a command stages stands for all it   *)
(* writes; its sequence in its stream is its place in outbox.              *)
(***************************************************************************)
EXTENDS Naturals, Sequences, FiniteSets, FiniteSetsExt

CONSTANTS
    Commands,     \* submissions; two of one key and body are a retry
    Key,          \* idempotency key of each
    Body,         \* request digest of each
    Stream,       \* stream of the event it stages
    StreamCount,  \* streams are numbered in the order of their keys
    Readers,      \* subscribers
    ReadStream,   \* the stream each subscribes to
    BatchLimit,   \* rows per dispatch (64)
    PageLimit,    \* events per replay page (256)
    BusCapacity,  \* events the bus keeps for a slow receiver (64)
    MaxEpoch,     \* bound: daemon boots
    MaxFaults     \* bound: lost replies, failed calls and disconnects

Streams == 1..StreamCount
Epoch == 1..MaxEpoch
Keys == {Key[c] : c \in Commands}

ASSUME PipelineAssumption ==
    /\ IsFiniteSet(Commands)
    /\ Stream \in [Commands -> Streams]
    /\ ReadStream \in [Readers -> Streams]
    /\ {StreamCount, BatchLimit, PageLimit, BusCapacity} \subseteq Nat \ {0}
    /\ {MaxEpoch, MaxFaults} \subseteq Nat

VARIABLES
    fence,    \* daemon_fence.epoch
    outbox,   \* outbox_events of each stream, by sequence: the command
    marked,   \* rows whose journal_published_at is set, as <<stream, seq>>
    reply,    \* what each submission's client got
    journal,  \* events of each stream in events.db
    pc,       \* the dispatcher of each instance
    batch,    \* the rows it scanned and, in the end, has yet to publish
    at,       \* the stream whose rows it is journaling
    from,     \* the head it expects of that stream's journal
    sub,      \* state of each subscription
    host,     \* the instance that serves it
    buf,      \* what the bus keeps for it
    lost,     \* whether the bus has overwritten some of that
    got,      \* sequences its client has received, over all connections
    faults    \* faults left

kernel == <<fence, outbox, marked, reply>>
dispatcher == <<pc, batch, at, from>>
readers == <<sub, host, buf, lost, got>>
vars == <<kernel, journal, dispatcher, readers, faults>>

Rows == {<<s, i>> : s \in Streams, i \in 1..Cardinality(Commands)}

\* The rows of a batch go to the journal in groups of one stream.
Group(w) == {r \in batch[w] : r[1] = at[w]}

TypeOK ==
    /\ fence \in 0..MaxEpoch
    /\ outbox \in [Streams -> Seq(Commands)]
    /\ marked \subseteq Rows
    /\ reply \in [Commands -> {"none", "ok", "conflict"}]
    /\ journal \in [Streams -> Seq(Commands)]
    /\ pc \in [Epoch -> {"down", "idle", "read", "append", "mark", "publish"}]
    /\ batch \in [Epoch -> SUBSET Rows]
    /\ at \in [Epoch -> 0..StreamCount]
    /\ from \in [Epoch -> Nat]
    /\ sub \in [Readers -> {"off", "replay", "live"}]
    /\ host \in [Readers -> 0..MaxEpoch]
    /\ buf \in [Readers -> Seq(Rows)]
    /\ lost \in [Readers -> BOOLEAN]
    /\ got \in [Readers -> Seq(Nat)]
    /\ faults \in 0..MaxFaults
    /\ \A w \in Epoch :
          /\ pc[w] \in {"read", "append"} => Group(w) # {}
          /\ pc[w] \in {"mark", "publish"} => batch[w] # {}
    /\ \A u \in Readers : Len(buf[u]) <= BusCapacity

Init ==
    /\ fence = 0
    /\ outbox = [s \in Streams |-> <<>>]
    /\ marked = {}
    /\ reply = [c \in Commands |-> "none"]
    /\ journal = outbox
    /\ pc = [w \in Epoch |-> "down"]
    /\ batch = [w \in Epoch |-> {}]
    /\ at = [w \in Epoch |-> 0]
    /\ from = at
    /\ sub = [u \in Readers |-> "off"]
    /\ host = [u \in Readers |-> 0]
    /\ buf = [u \in Readers |-> <<>>]
    /\ lost = [u \in Readers |-> FALSE]
    /\ got = buf
    /\ faults = MaxFaults

Fault == faults > 0 /\ faults' = faults - 1

-----------------------------------------------------------------------------
(* Instances.                                                              *)

\* fence.rs claim.
Boot(w) ==
    /\ w = fence + 1
    /\ fence' = w
    /\ pc' = [pc EXCEPT ![w] = "idle"]
    /\ UNCHANGED <<outbox, marked, reply, journal, batch, at, from, readers,
                   faults>>

\* The process dies, and with it its bus and its subscriptions.
Crash(w) ==
    /\ pc[w] # "down"
    /\ fence < MaxEpoch \/ fence # w
    /\ pc' = [pc EXCEPT ![w] = "down"]
    /\ batch' = [batch EXCEPT ![w] = {}]
    /\ at' = [at EXCEPT ![w] = 0]
    /\ from' = [from EXCEPT ![w] = 0]
    /\ LET mine == {u \in Readers : host[u] = w}
       IN /\ sub' = [u \in Readers |-> IF u \in mine THEN "off" ELSE sub[u]]
          /\ host' = [u \in Readers |-> IF u \in mine THEN 0 ELSE host[u]]
          /\ buf' = [u \in Readers |-> IF u \in mine THEN <<>> ELSE buf[u]]
          /\ lost' = [u \in Readers |-> u \notin mine /\ lost[u]]
    /\ UNCHANGED <<kernel, journal, got, faults>>

-----------------------------------------------------------------------------
(* The command coordinator.                                                *)

\* The rows committed under an idempotency key; records are written only with
\* the events, so that the outbox has them too.
Committed(k) == {r \in Rows : /\ r[2] <= Len(outbox[r[1]])
                              /\ Key[outbox[r[1]][r[2]]] = k}
Recorded(k) == {outbox[r[1]][r[2]] : r \in Committed(k)}

\* Mutant: the key is not looked up.
Execute_NoLookup(w, c) ==
    /\ fence = w /\ pc[w] # "down"
    /\ reply[c] = "none"
    /\ Len(outbox[Stream[c]]) < Cardinality(Commands)
    /\ outbox' = [outbox EXCEPT ![Stream[c]] = Append(@, c)]
    /\ \/ reply' = [reply EXCEPT ![c] = "ok"] /\ UNCHANGED faults
       \/ Fault /\ UNCHANGED reply
    /\ UNCHANGED <<fence, marked, journal, dispatcher, readers>>

\* execute: one transaction looks the key up, runs the handler, stages its
\* event and records the outcome; the reply may be lost after the commit.
Execute(w, c) ==
    /\ fence = w /\ pc[w] # "down"
    /\ reply[c] = "none"
    /\ LET same == Recorded(Key[c])
           answer == IF same = {} \/ \E d \in same : Body[d] = Body[c]
                     THEN "ok" ELSE "conflict"
       IN /\ outbox' = IF same = {}
                       THEN [outbox EXCEPT ![Stream[c]] = Append(@, c)]
                       ELSE outbox
          /\ \/ reply' = [reply EXCEPT ![c] = answer] /\ UNCHANGED faults
             \/ Fault /\ UNCHANGED reply
    /\ UNCHANGED <<fence, marked, journal, dispatcher, readers>>

-----------------------------------------------------------------------------
(* The outbox dispatcher: dispatch_once.                                   *)

Unpublished == {r \in Rows : r[2] <= Len(outbox[r[1]]) /\ r \notin marked}

Before(q, r) == q[1] < r[1] \/ (q[1] = r[1] /\ q[2] < r[2])
Event(r) == outbox[r[1]][r[2]]

Idle(w) ==
    /\ pc' = [pc EXCEPT ![w] = "idle"]
    /\ batch' = [batch EXCEPT ![w] = {}]
    /\ at' = [at EXCEPT ![w] = 0]
    /\ from' = [from EXCEPT ![w] = 0]

FirstStream(rows) == Min({r[1] : r \in rows})
First(w) == Min({r[2] : r \in Group(w)})
Final(w) == Max({r[2] : r \in Group(w)})

\* scan: a fenced transaction; the first rows by stream key and sequence.
Scan(w) ==
    /\ pc[w] = "idle" /\ fence = w
    /\ \E rows \in (SUBSET Unpublished) \ {{}} :
          /\ Cardinality(rows) <= BatchLimit
          /\ rows = Unpublished \/ Cardinality(rows) = BatchLimit
          /\ \A r \in rows, q \in Unpublished \ rows : Before(r, q)
          /\ batch' = [batch EXCEPT ![w] = rows]
          /\ at' = [at EXCEPT ![w] = FirstStream(rows)]
    /\ pc' = [pc EXCEPT ![w] = "read"]
    /\ UNCHANGED <<kernel, journal, from, readers, faults>>

NextGroup(w) ==
    LET left == {r \in batch[w] : r[1] > at[w]}
    IN /\ IF left = {}
          THEN pc' = [pc EXCEPT ![w] = "mark"] /\ at' = [at EXCEPT ![w] = 0]
          ELSE /\ pc' = [pc EXCEPT ![w] = "read"]
               /\ at' = [at EXCEPT ![w] = FirstStream(left)]
       /\ from' = [from EXCEPT ![w] = 0]
       /\ UNCHANGED batch

\* Whether the journal has the event of a row at the row's place.
Matches(r) == r[2] <= Len(journal[r[1]]) /\ journal[r[1]][r[2]] = Event(r)

\* recorded_prefix: how far the journal has the group; a place of the group
\* with another event in it is a Conflict.
RecordedUpTo(w) ==
    CHOOSE n \in (First(w) - 1)..Final(w) :
        /\ \A r \in Group(w) : r[2] <= n => Matches(r)
        /\ n = Final(w) \/ ~Matches(<<at[w], n + 1>>)

\* Mutant: anything already recorded is taken for a conflict.
Diverges_AnyRecorded(w) ==
    \E r \in Group(w) : r[2] <= Len(journal[r[1]])

Diverges(w) ==
    \E r \in Group(w) : r[2] <= Len(journal[r[1]]) /\ ~Matches(r)

ReadBack(w) ==
    /\ pc[w] = "read"
    /\ IF Diverges(w) THEN Idle(w)
       ELSE IF RecordedUpTo(w) = Final(w) THEN NextGroup(w)
       ELSE /\ pc' = [pc EXCEPT ![w] = "append"]
            /\ from' = [from EXCEPT ![w] = RecordedUpTo(w)]
            /\ UNCHANGED <<batch, at>>
    /\ UNCHANGED <<kernel, journal, readers, faults>>

\* Mutant: the append does not look at the journal's head.
JournalAppend_NoHead(w) ==
    /\ pc[w] = "append"
    /\ Len(journal[at[w]]) < Cardinality(Commands)
    /\ journal' = [journal EXCEPT ![at[w]] =
                     @ \o SubSeq(outbox[at[w]], from[w] + 1, Final(w))]
    /\ NextGroup(w)
    /\ UNCHANGED <<kernel, readers, faults>>

\* append: the rest of the group, which must follow on the expected head
\* without a gap, goes in if the journal's head is the expected one; if not,
\* it must be there already, event for event.
JournalAppend(w) ==
    /\ pc[w] = "append"
    /\ LET s == at[w]
           rest == {r \in Group(w) : r[2] > from[w]}
           valid == {r[2] : r \in rest} = (from[w] + 1)..Final(w)
       IN IF valid /\ Len(journal[s]) = from[w]
          THEN /\ journal' = [journal EXCEPT ![s] =
                                @ \o SubSeq(outbox[s], from[w] + 1, Final(w))]
               /\ NextGroup(w)
          ELSE /\ IF valid /\ \A r \in rest : Matches(r)
                  THEN NextGroup(w) ELSE Idle(w)
               /\ UNCHANGED journal
    /\ UNCHANGED <<kernel, readers, faults>>

\* mark_published: one fenced transaction for the whole batch.
Mark(w) ==
    /\ pc[w] = "mark"
    /\ IF fence = w
       THEN /\ marked' = marked \cup batch[w]
            /\ pc' = [pc EXCEPT ![w] = "publish"]
            /\ UNCHANGED <<batch, at, from>>
       ELSE Idle(w) /\ UNCHANGED marked
    /\ UNCHANGED <<fence, outbox, reply, journal, readers, faults>>

\* A journal or store call fails (or outbox.after_journal_append fires): the
\* iteration is given up.
DispatchFails(w) ==
    /\ pc[w] \in {"read", "append", "mark"}
    /\ Fault
    /\ Idle(w)
    /\ UNCHANGED <<kernel, journal, readers>>

\* Mutant: the bus grows.
Publish_Unbounded(w) ==
    /\ pc[w] = "publish"
    /\ \E r \in batch[w] :
          /\ \A q \in batch[w] \ {r} : Before(r, q)
          /\ buf' = [u \in Readers |->
                        IF host[u] = w THEN Append(buf[u], r) ELSE buf[u]]
          /\ IF batch[w] = {r} THEN Idle(w)
             ELSE /\ batch' = [batch EXCEPT ![w] = @ \ {r}]
                  /\ UNCHANGED <<pc, at, from>>
    /\ UNCHANGED <<kernel, journal, sub, host, lost, got, faults>>

\* LiveBus::publish of the next row: a receiver that is a bus capacity behind
\* has lost its place.
Publish(w) ==
    /\ pc[w] = "publish"
    /\ \E r \in batch[w] :
          /\ \A q \in batch[w] \ {r} : Before(r, q)
          /\ LET listening == {u \in Readers : host[u] = w /\ ~lost[u]}
                 full == {u \in listening : Len(buf[u]) = BusCapacity}
             IN /\ buf' = [u \in Readers |->
                              IF u \in full THEN <<>>
                              ELSE IF u \in listening THEN Append(buf[u], r)
                              ELSE buf[u]]
                /\ lost' = [u \in Readers |-> lost[u] \/ u \in full]
          /\ IF batch[w] = {r} THEN Idle(w)
             ELSE /\ batch' = [batch EXCEPT ![w] = @ \ {r}]
                  /\ UNCHANGED <<pc, at, from>>
    /\ UNCHANGED <<kernel, journal, sub, host, got, faults>>

-----------------------------------------------------------------------------
(* Subscriptions.                                                          *)

Cursor(u) == IF got[u] = <<>> THEN 0 ELSE got[u][Len(got[u])]

\* subscribe: the live receiver is attached before the replay starts.
Subscribe(u, w) ==
    /\ sub[u] = "off"
    /\ pc[w] # "down"
    /\ sub' = [sub EXCEPT ![u] = "replay"]
    /\ host' = [host EXCEPT ![u] = w]
    /\ UNCHANGED <<kernel, journal, dispatcher, buf, lost, got, faults>>

\* One page of durable history, until one is empty.
Replay(u) ==
    /\ sub[u] = "replay"
    /\ LET tail == Len(journal[ReadStream[u]]) - Cursor(u)
           n == IF tail < PageLimit THEN tail ELSE PageLimit
       IN IF n = 0
          THEN sub' = [sub EXCEPT ![u] = "live"] /\ UNCHANGED got
          ELSE /\ got' = [got EXCEPT ![u] = @ \o [i \in 1..n |-> Cursor(u) + i]]
               /\ UNCHANGED sub
    /\ UNCHANGED <<kernel, journal, dispatcher, host, buf, lost, faults>>

\* Mutant: what the replay has sent is not passed over.
Follow_NoDedup(u) ==
    /\ sub[u] = "live"
    /\ ~lost[u] /\ buf[u] # <<>>
    /\ buf' = [buf EXCEPT ![u] = Tail(@)]
    /\ got' = IF Head(buf[u])[1] = ReadStream[u]
              THEN [got EXCEPT ![u] = Append(@, Head(buf[u])[2])] ELSE got
    /\ UNCHANGED <<kernel, journal, dispatcher, sub, host, lost, faults>>

\* Follow the bus: events of other streams, and those the replay has sent,
\* are passed over.
Follow(u) ==
    /\ sub[u] = "live"
    /\ ~lost[u] /\ buf[u] # <<>>
    /\ buf' = [buf EXCEPT ![u] = Tail(@)]
    /\ LET r == Head(buf[u])
       IN got' = IF r[1] = ReadStream[u] /\ r[2] > Cursor(u)
                 THEN [got EXCEPT ![u] = Append(@, r[2])] ELSE got
    /\ UNCHANGED <<kernel, journal, dispatcher, sub, host, lost, faults>>

Detach(u) ==
    /\ sub' = [sub EXCEPT ![u] = "off"]
    /\ host' = [host EXCEPT ![u] = 0]
    /\ buf' = [buf EXCEPT ![u] = <<>>]
    /\ lost' = [lost EXCEPT ![u] = FALSE]

\* A receiver that lost its place ends with a lag notice; the client resumes
\* from the last sequence it got.
Lagged(u) ==
    /\ sub[u] = "live" /\ lost[u]
    /\ Detach(u)
    /\ UNCHANGED <<kernel, journal, dispatcher, got, faults>>

Disconnect(u) ==
    /\ sub[u] # "off"
    /\ Fault
    /\ Detach(u)
    /\ UNCHANGED <<kernel, journal, dispatcher, got>>

-----------------------------------------------------------------------------
Dispatch(w) ==
    Scan(w) \/ ReadBack(w) \/ JournalAppend(w) \/ Mark(w) \/ Publish(w)

Next ==
    \/ \E w \in Epoch :
          \/ Boot(w) \/ Crash(w) \/ Dispatch(w) \/ DispatchFails(w)
          \/ \E c \in Commands : Execute(w, c)
          \/ \E u \in Readers : Subscribe(u, w)
    \/ \E u \in Readers :
          Replay(u) \/ Follow(u) \/ Lagged(u) \/ Disconnect(u)

Spec == Init /\ [][Next]_vars

\* A daemon that is down is restarted and a superseded one ends (the OS lock
\* sees to it), the outbox worker ticks on, clients come back.
FairSpec ==
    /\ Spec
    /\ \A w \in Epoch :
          /\ WF_vars(Boot(w) /\ \A v \in Epoch : pc[v] = "down")
          /\ WF_vars(Crash(w) /\ fence # w)
          /\ WF_vars(Dispatch(w) /\ fence = w)
    /\ \A u \in Readers :
          /\ WF_vars(\E w \in Epoch : Subscribe(u, w))
          /\ WF_vars(Replay(u) \/ Follow(u) \/ Lagged(u))

-----------------------------------------------------------------------------
(* Properties.                                                             *)

\* The journal of a stream is a prefix of what was committed to it, in the
\* order of the commits, whatever dispatchers crash or overlap; and a row is
\* marked only when it is in the journal and its predecessor is marked.
JournalIsPrefix ==
    /\ \A s \in Streams : /\ Len(journal[s]) <= Len(outbox[s])
                          /\ journal[s] = SubSeq(outbox[s], 1, Len(journal[s]))
    /\ \A r \in marked : /\ r[2] <= Len(journal[r[1]])
                          /\ r[2] > 1 => <<r[1], r[2] - 1>> \in marked

\* A command takes effect at most once per idempotency key, and only a client
\* whose own request took effect is told so.
OncePerKey ==
    /\ \A k \in Keys : Cardinality(Committed(k)) <= 1
    /\ \A c \in Commands :
          /\ reply[c] = "ok" => \E d \in Recorded(Key[c]) : Body[d] = Body[c]
          /\ reply[c] = "conflict" => \E d \in Recorded(Key[c]) : Body[d] # Body[c]

Log == INSTANCE EventLog WITH
          log <- [s \in Streams |-> [i \in 1..Len(outbox[s]) |-> Key[outbox[s][i]]]],
          got <- [u \in Readers |->
                    [i \in 1..Len(got[u]) |-> Key[journal[ReadStream[u]][got[u][i]]]]]

\* The pipeline implements EventLog: each step of the coordinator, the
\* dispatchers, the bus and the subscriptions appends one event of a new key
\* to its stream, hands one reader the events that come next on its stream, or
\* shows nothing.  So each client gets the events of its stream from the first
\* on, in order, none twice and none left out, over replays, the hand-over to
\* the bus, lags, disconnects and restarts; and none that is not in the journal.
LogSpec == Log!Spec

\* Every committed event reaches every subscriber of its stream that comes
\* back after a lag, a disconnect or a restart.
Delivered ==
    \A u \in Readers : \A n \in 1..Cardinality(Commands) :
        Len(outbox[ReadStream[u]]) >= n ~> Len(got[u]) >= n
=============================================================================
