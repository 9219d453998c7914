------------------------------ MODULE EventLog ------------------------------
(***************************************************************************)
(* What the event pipeline promises: per stream, an append-only log of the *)
(* committed events, each command's event at most once, and readers that   *)
(* get every event of their stream in order, none twice and none skipped.  *)
(***************************************************************************)
EXTENDS Naturals, Sequences

CONSTANTS Streams, Readers, ReadStream, Keys

VARIABLES log,     \* the keys of the committed commands, per stream
          got      \* the keys each reader has got, in the order it got them

Committed(k) == \E s \in Streams : \E i \in 1..Len(log[s]) : log[s][i] = k

Init ==
    /\ log = [s \in Streams |-> <<>>]
    /\ got = [u \in Readers |-> <<>>]

Commit(s, k) ==
    /\ ~Committed(k)
    /\ log' = [log EXCEPT ![s] = Append(@, k)]
    /\ UNCHANGED got

\* The next events of the reader's stream, up to number n.
Read(u, n) ==
    /\ Len(got[u]) < n
    /\ got' = [got EXCEPT ![u] = SubSeq(log[ReadStream[u]], 1, n)]
    /\ UNCHANGED log

Next ==
    \/ \E s \in Streams, k \in Keys : Commit(s, k)
    \/ \E u \in Readers : \E n \in 1..Len(log[ReadStream[u]]) : Read(u, n)

Spec == Init /\ [][Next]_<<log, got>>
=============================================================================
