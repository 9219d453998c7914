------------------------- MODULE EffectWorkerProofs -------------------------
(***************************************************************************)
(* Proofs about EffectWorker, for every set of effects, every contract,    *)
(* any number of boots and any number of faults.                           *)
(***************************************************************************)
EXTENDS EffectWorker, TLAPS

\* EffectClass::aggregate always yields one of the seven classes.
LEMMA AggregateType ==
    ASSUME NEW classes \in SUBSET EffectClass
    PROVE  Aggregate(classes) \in EffectClass
<1> DEFINE C == classes \cup {"None"}
           Top(c) == \A d \in C : Precedence(d) <= Precedence(c)
<1>1. C \subseteq EffectClass
  BY Zenon DEF EffectClass
<1>2. \E c \in C : Top(c)
  <2>1. CASE "Unknown" \in C
    BY <1>1, <2>1 DEF Precedence, EffectClass
  <2>2. CASE "Unknown" \notin C /\ "DispatchedUnsafe" \in C
    BY <1>1, <2>2 DEF Precedence, EffectClass
  <2>3. CASE /\ C \cap {"Unknown", "DispatchedUnsafe"} = {}
             /\ "DispatchedSafe" \in C
    BY <1>1, <2>3 DEF Precedence, EffectClass
  <2>4. CASE /\ C \cap {"Unknown", "DispatchedUnsafe", "DispatchedSafe"} = {}
             /\ "Claimed" \in C
    BY <1>1, <2>4 DEF Precedence, EffectClass
  <2>5. CASE /\ C \subseteq {"None", "Prepared", "Acknowledged"}
             /\ "Acknowledged" \in C
    BY <1>1, <2>5 DEF Precedence, EffectClass
  <2>6. CASE C \subseteq {"None", "Prepared"} /\ "Prepared" \in C
    BY <1>1, <2>6 DEF Precedence, EffectClass
  <2>7. CASE C \subseteq {"None"}
    BY <1>1, <2>7 DEF Precedence, EffectClass
  <2> QED BY <1>1, <2>1, <2>2, <2>3, <2>4, <2>5, <2>6, <2>7, Zenon DEF EffectClass
<1>3. (CHOOSE c \in C : Top(c)) \in C
  BY <1>2, Zenon
<1> QED BY <1>1, <1>3, Zenon DEF Aggregate

\* The matrix has a row for every WaitingTool run: recovery of such a run
\* never aborts the startup.
LEMMA DispositionType ==
    ASSUME NEW states \in [Effects -> EffectState \cup {"Absent"}]
    PROVE  Disposition(states) \in RecoveryDisposition
<1> DEFINE K == {ClassOf(states[e], Contract[e]) : e \in Effects}
<1>1. K \in SUBSET EffectClass
  BY Zenon DEF ClassOf, EffectClass, EffectState
<1>2. Aggregate(K) \in EffectClass
  BY <1>1, AggregateType, Zenon
<1>3. ASSUME NEW c \in EffectClass
      PROVE  Matrix("WaitingTool", c) \in RecoveryDisposition
  BY <1>3, Zenon DEF Matrix, EffectClass, RecoveryDisposition
<1> QED BY <1>2, <1>3, Zenon DEF Disposition

-----------------------------------------------------------------------------
(* Type correctness.                                                       *)

LEMMA ReconciledStateType ==
    ASSUME NEW e, NEW o
    PROVE  ReconciledState(e, o) \in {"Committed", "Failed", "Prepared", "Unknown"}
BY Zenon DEF ReconciledState

LEMMA TypeInit == Init => TypeOK
BY WorkerAssumption
   DEF Init, TypeOK, NothingTodo, PC, Seen, Result, RecoveryDisposition,
       Calling

\* A daemon instance that moves on, or abandons its scan, stays well typed.
DaemonTypeOK ==
    /\ pc \in [Epoch -> PC]
    /\ todo \in [Epoch -> [Effects -> Seen]]
    /\ cur \in [Epoch -> Effects \cup {NoEffect}]
    /\ tok \in [Epoch -> Nat]
    /\ ans \in [Epoch -> Observation \cup {"none"}]
    /\ \A w \in Epoch : pc[w] \in Calling => cur[w] \in Effects

LEMMA ContinueType ==
    ASSUME TypeOK, NEW w \in Epoch, NEW e \in Effects, Continue(w, e)
    PROVE  DaemonTypeOK'
<1>1. todo' \in [Epoch -> [Effects -> Seen]]
  BY Zenon DEF TypeOK, Continue, Seen
<1>2. /\ pc' \in [Epoch -> PC]
      /\ cur' \in [Epoch -> Effects \cup {NoEffect}]
      /\ tok' \in [Epoch -> Nat]
      /\ ans' \in [Epoch -> Observation \cup {"none"}]
  BY Zenon DEF TypeOK, Continue, EndCall, PC
<1>3. \A v \in Epoch : pc'[v] \in Calling => cur'[v] \in Effects
  BY Zenon DEF TypeOK, Continue, EndCall, Calling
<1> QED BY <1>1, <1>2, <1>3, Zenon DEF DaemonTypeOK

LEMMA AbandonType ==
    ASSUME TypeOK, NEW w \in Epoch, Abandon(w)
    PROVE  DaemonTypeOK'
<1>1. todo' \in [Epoch -> [Effects -> Seen]]
  BY Zenon DEF TypeOK, Abandon, NothingTodo, Seen
<1>2. /\ pc' \in [Epoch -> PC]
      /\ cur' \in [Epoch -> Effects \cup {NoEffect}]
      /\ tok' \in [Epoch -> Nat]
      /\ ans' \in [Epoch -> Observation \cup {"none"}]
  BY Zenon DEF TypeOK, Abandon, EndCall, PC
<1>3. \A v \in Epoch : pc'[v] \in Calling => cur'[v] \in Effects
  BY Zenon DEF TypeOK, Abandon, EndCall, Calling
<1> QED BY <1>1, <1>2, <1>3, Zenon DEF DaemonTypeOK

LEMMA TypeStep == TypeOK /\ [Next]_vars => TypeOK'
<1> SUFFICES ASSUME TypeOK, [Next]_vars PROVE TypeOK'
  BY Zenon
<1> USE WorkerAssumption DEF row, daemon, provider
<1>1. ASSUME NEW w \in Epoch, Boot(w) PROVE TypeOK'
  BY <1>1 DEF TypeOK, Boot, Epoch, PC, Calling
<1>2. ASSUME NEW w \in Epoch, Recover(w) PROVE TypeOK'
  <2>1. est' \in [Effects -> EffectState \cup {"Absent"}]
    BY <1>2, Zenon DEF TypeOK, Recover, EffectState
  <2>2. recovery' \in RecoveryDisposition
    BY <1>2, DispositionType, Zenon DEF TypeOK, Recover
  <2> QED BY <1>2, <2>1, <2>2, Zenon DEF TypeOK, Recover, PC, Calling
<1>3. ASSUME NEW w \in Epoch, Crash(w) PROVE TypeOK'
  BY <1>3, Zenon DEF TypeOK, Crash, EndCall, NothingTodo, PC, Seen, Calling
<1>4. ASSUME NEW w \in Epoch, Scan(w) PROVE TypeOK'
  BY <1>4, Zenon DEF TypeOK, Scan, IsInFlight, PC, Seen, Calling
<1>5. ASSUME NEW w \in Epoch, Send(w) PROVE TypeOK'
  <2>1. cur[w] \in Effects
    BY <1>5, Zenon DEF TypeOK, Send, Calling
  <2>2. /\ sent' \in [Effects -> Nat]
        /\ pending' \in [Effects -> Nat]
    BY <1>5, <2>1 DEF TypeOK, Send
  <2> QED BY <1>5, <2>1, <2>2, Zenon DEF TypeOK, Send, PC, Calling
<1>6. ASSUME NEW w \in Epoch, LoseCall(w) PROVE TypeOK'
  <2>1. cur[w] \in Effects
    BY <1>6, Zenon DEF TypeOK, LoseCall, Calling
  <2>2. DaemonTypeOK'
    BY <1>6, <2>1, ContinueType, AbandonType, Zenon DEF LoseCall
  <2> QED BY <1>6, <2>2 DEF TypeOK, DaemonTypeOK, LoseCall
<1>7. ASSUME NEW w \in Epoch, CallTimeout(w) PROVE TypeOK'
  <2>1. cur[w] \in Effects
    BY <1>7, Zenon DEF TypeOK, CallTimeout, Calling
  <2>2. DaemonTypeOK'
    BY <1>7, <2>1, ContinueType, Zenon DEF CallTimeout
  <2> QED BY <1>7, <2>2, Zenon DEF TypeOK, DaemonTypeOK, CallTimeout
<1>8. ASSUME NEW w \in Epoch, ReceiveAnswer(w) PROVE TypeOK'
  <2>1. cur[w] \in Effects
    BY <1>8, Zenon DEF TypeOK, ReceiveAnswer, Calling
  <2>2. result[cur[w]] \in Observation
    BY <1>8, <2>1, Zenon DEF TypeOK, ReceiveAnswer, Result, Observation
  <2>3. ans' \in [Epoch -> Observation \cup {"none"}]
    BY <1>8, <2>2, Zenon DEF TypeOK, ReceiveAnswer
  <2> QED BY <1>8, <2>1, <2>3, Zenon DEF TypeOK, ReceiveAnswer, PC, Calling
<1>9. ASSUME NEW w \in Epoch, RecordAnswer(w) PROVE TypeOK'
  <2>1. cur[w] \in Effects
    BY <1>9, Zenon DEF TypeOK, RecordAnswer, Calling
  <2>2. DaemonTypeOK'
    BY <1>9, <2>1, ContinueType, AbandonType, Zenon DEF RecordAnswer
  <2>3. est' \in [Effects -> EffectState \cup {"Absent"}]
    <3>1. est' = est \/ \E x \in EffectState : est' = [est EXCEPT ![cur[w]] = x]
      BY <1>9, Zenon DEF RecordAnswer, EffectState
    <3>2. est \in [Effects -> EffectState \cup {"Absent"}]
      BY Zenon DEF TypeOK
    <3> QED BY <2>1, <3>1, <3>2, Zenon
  <2> QED BY <1>9, <2>2, <2>3, Zenon DEF TypeOK, DaemonTypeOK, RecordAnswer
<1>10. ASSUME NEW w \in Epoch, ApplyObserved(w) PROVE TypeOK'
  <2>1. cur[w] \in Effects
    BY <1>10, Zenon DEF TypeOK, ApplyObserved, Calling
  <2>2. DaemonTypeOK'
    BY <1>10, <2>1, ContinueType, AbandonType, Zenon DEF ApplyObserved
  <2>3. est' \in [Effects -> EffectState \cup {"Absent"}]
    <3> DEFINE x == ReconciledState(cur[w], ans[w])
    <3>0. x \in EffectState
      BY ReconciledStateType, Zenon DEF EffectState
    <3>1. est' = est \/ est' = [est EXCEPT ![cur[w]] = x]
      BY <1>10, Zenon DEF ApplyObserved
    <3> HIDE DEF x
    <3>2. est \in [Effects -> EffectState \cup {"Absent"}]
      BY Zenon DEF TypeOK
    <3> QED BY <2>1, <3>0, <3>1, <3>2, Zenon
  <2> QED BY <1>10, <2>2, <2>3, Zenon DEF TypeOK, DaemonTypeOK, ApplyObserved
<1>11. ASSUME NEW w \in Epoch, NEW e \in Effects, Prepare(w, e) PROVE TypeOK'
  BY <1>11, Zenon DEF TypeOK, Prepare, EffectState
<1>12. ASSUME NEW w \in Epoch, NEW e \in Effects, DispatchTxn(w, e)
       PROVE  TypeOK'
  <2>1. CASE fence = w /\ Claimable(e)
    <3>1. /\ est' \in [Effects -> EffectState \cup {"Absent"}]
          /\ token' \in [Effects -> Nat]
          /\ owner' \in [Effects -> 0..MaxEpoch]
          /\ lease' \in [Effects -> {"none", "live", "expired"}]
      <4>1. w \in 0..MaxEpoch
        BY DEF Epoch
      <4>2. /\ est' = [est EXCEPT ![e] = "Dispatched"]
            /\ token' = [token EXCEPT ![e] = @ + 1]
            /\ owner' = [owner EXCEPT ![e] = w]
            /\ lease' = [lease EXCEPT ![e] = "live"]
        BY <1>12, <2>1, Zenon DEF DispatchTxn
      <4> QED BY <4>1, <4>2 DEF TypeOK, EffectState
    <3>2. /\ pc' \in [Epoch -> PC]
          /\ cur' \in [Epoch -> Effects \cup {NoEffect}]
          /\ tok' \in [Epoch -> Nat]
          /\ \A v \in Epoch : pc'[v] \in Calling => cur'[v] \in Effects
      BY <1>12, <2>1 DEF TypeOK, DispatchTxn, PC, Calling
    <3> QED BY <1>12, <2>1, <3>1, <3>2, Zenon DEF TypeOK, DispatchTxn
  <2>2. CASE ~(fence = w /\ Claimable(e))
    <3>1. DaemonTypeOK'
      BY <1>12, <2>2, ContinueType, AbandonType, Zenon DEF DispatchTxn
    <3> QED BY <1>12, <2>2, <3>1, Zenon DEF TypeOK, DaemonTypeOK, DispatchTxn
  <2> QED BY <2>1, <2>2, Zenon
<1>13. ASSUME NEW w \in Epoch, NEW e \in Effects, Probe(w, e) PROVE TypeOK'
  <2>1. Observed(e) \in Observation
    BY Zenon DEF TypeOK, Observed, Result, Observation
  <2>2. ans' \in [Epoch -> Observation \cup {"none"}]
    BY <1>13, <2>1, Zenon DEF TypeOK, Probe, Observation
  <2> QED BY <1>13, <2>2 DEF TypeOK, Probe, PC, Calling
<1>14. ASSUME NEW w \in Epoch, NEW e \in Effects, ProbeUnreachable(w, e)
       PROVE  TypeOK'
  <2>1. DaemonTypeOK'
    BY <1>14, ContinueType, Zenon DEF ProbeUnreachable
  <2> QED BY <1>14, <2>1 DEF TypeOK, DaemonTypeOK, ProbeUnreachable
<1>15. ASSUME NEW w \in Epoch, NEW e \in Effects,
              NEW to \in {"Committed", "Failed", "Prepared"}, Resolve(w, e, to)
       PROVE  TypeOK'
  <2>1. est' \in [Effects -> EffectState \cup {"Absent"}]
    BY <1>15, Zenon DEF TypeOK, Resolve, EffectState
  <2>2. recovery' \in RecoveryDisposition
    BY <1>15, <2>1, DispositionType, Zenon DEF Resolve
  <2> QED BY <1>15, <2>1, <2>2, Zenon DEF TypeOK, Resolve
<1>16. ASSUME NEW e \in Effects, LeaseExpires(e) PROVE TypeOK'
  BY <1>16, Zenon DEF TypeOK, LeaseExpires
<1>17. ASSUME NEW e \in Effects, NEW r \in {"succeeded", "failed"},
              ProviderExecutes(e, r)
       PROVE  TypeOK'
  BY <1>17 DEF TypeOK, ProviderExecutes, Result
<1>18. ASSUME NEW e \in Effects, ProviderDrops(e) PROVE TypeOK'
  BY <1>18 DEF TypeOK, ProviderDrops
<1>19. CASE UNCHANGED vars
  BY <1>19, Zenon DEF TypeOK, vars
<1> QED
  BY <1>1, <1>2, <1>3, <1>4, <1>5, <1>6, <1>7, <1>8, <1>9, <1>10, <1>11,
     <1>12, <1>13, <1>14, <1>15, <1>16, <1>17, <1>18, <1>19, Zenon DEF Next

\* Every reachable state is well typed; in particular startup recovery finds
\* a matrix row for every WaitingTool run.
THEOREM TypeCorrect == Spec => []TypeOK
BY TypeInit, TypeStep, PTL DEF Spec
-----------------------------------------------------------------------------
(* At most one call for an effect that may be handed off only once.        *)

\* Claimed is not durable, so only a Prepared row is ever claimed; an unsent
\* Prepared row has nobody about to send it; and whoever is about to send it
\* is the row's owner, hence unique, and the first.
Sending(w, e) == pc[w] = "send" /\ cur[w] = e

OnceInv ==
    \A e \in Effects : OnceOnly(e) =>
        /\ sent[e] <= 1
        /\ est[e] # "Claimed"
        /\ est[e] \in {"Absent", "Prepared"} =>
              sent[e] = 0 /\ \A w \in Epoch : ~Sending(w, e)
        /\ \A w \in Epoch : Sending(w, e) => sent[e] = 0 /\ owner[e] = w

LEMMA OnceInit == Init => OnceInv
BY DEF Init, OnceInv, Sending

\* A step that sends nothing, leaves the owners alone, starts no call and
\* moves a row only out of Prepared and Absent keeps the invariant.
LEMMA OnceQuiet ==
    ASSUME OnceInv, UNCHANGED <<sent, owner>>,
           \A e \in Effects : OnceOnly(e) =>
                /\ est'[e] # "Claimed"
                /\ est'[e] \in {"Absent", "Prepared"} =>
                      est[e] \in {"Absent", "Prepared"},
           \A w \in Epoch, e \in Effects : Sending(w, e)' => Sending(w, e)
    PROVE  OnceInv'
BY Zenon DEF OnceInv, OnceOnly

LEMMA OnceStep == TypeOK /\ OnceInv /\ [Next]_vars => OnceInv'
<1> SUFFICES ASSUME TypeOK, OnceInv, [Next]_vars PROVE OnceInv'
  BY Zenon
<1> USE DEF row, daemon, provider
<1>1. ASSUME NEW w \in Epoch, Boot(w) PROVE OnceInv'
  BY <1>1, OnceQuiet, Zenon DEF Boot, OnceInv, Sending, TypeOK
<1>2. ASSUME NEW w \in Epoch, Recover(w) PROVE OnceInv'
  BY <1>2, OnceQuiet, Zenon DEF Recover, OnceInv, Sending, TypeOK
<1>3. ASSUME NEW w \in Epoch, Crash(w) PROVE OnceInv'
  BY <1>3, OnceQuiet DEF Crash, EndCall, OnceInv, Sending, TypeOK
<1>4. ASSUME NEW w \in Epoch, Scan(w) PROVE OnceInv'
  BY <1>4, OnceQuiet, Zenon DEF Scan, OnceInv, Sending, TypeOK
<1>5. ASSUME NEW w \in Epoch, Send(w) PROVE OnceInv'
  <2>1. cur[w] \in Effects /\ Sending(w, cur[w])
    BY <1>5, Zenon DEF TypeOK, Send, Calling, Sending
  <2> SUFFICES ASSUME NEW e \in Effects, OnceOnly(e)'
               PROVE  /\ sent'[e] <= 1
                      /\ est'[e] # "Claimed"
                      /\ est'[e] \in {"Absent", "Prepared"} =>
                            sent'[e] = 0 /\ \A v \in Epoch : ~Sending(v, e)'
                      /\ \A v \in Epoch : Sending(v, e)' =>
                            sent'[e] = 0 /\ owner'[e] = v
    BY Zenon DEF OnceInv
  <2>2. OnceOnly(e)
    BY Zenon DEF OnceOnly
  <2>3. \A v \in Epoch : Sending(v, e)' <=> Sending(v, e) /\ v # w
    BY <1>5, Zenon DEF Send, Sending, TypeOK
  <2>4. CASE e = cur[w]
    <3>1. sent[e] = 0 /\ owner[e] = w
      BY <2>1, <2>2, <2>4, Zenon DEF OnceInv
    <3>2. sent'[e] = 1
      BY <1>5, <2>4, <3>1 DEF Send, TypeOK
    <3>3. \A v \in Epoch : ~Sending(v, e)'
      BY <2>2, <2>3, <3>1, Zenon DEF OnceInv
    <3>4. est'[e] \notin {"Absent", "Prepared", "Claimed"}
      BY <1>5, <2>1, <2>2, <2>4, Zenon DEF OnceInv, Send
    <3> QED BY <3>2, <3>3, <3>4
  <2>5. CASE e # cur[w]
    <3>1. sent'[e] = sent[e] /\ est'[e] = est[e] /\ owner'[e] = owner[e]
      BY <1>5, <2>5, Zenon DEF Send, TypeOK
    <3> QED BY <2>2, <2>3, <3>1, Zenon DEF OnceInv
  <2> QED BY <2>4, <2>5, Zenon
<1>6. ASSUME NEW w \in Epoch, LoseCall(w) PROVE OnceInv'
  BY <1>6, OnceQuiet DEF LoseCall, Continue, Abandon, EndCall, OnceInv,
                         Sending, TypeOK
<1>7. ASSUME NEW w \in Epoch, CallTimeout(w) PROVE OnceInv'
  BY <1>7, OnceQuiet, Zenon DEF CallTimeout, Continue, EndCall, OnceInv, Sending,
                         TypeOK
<1>8. ASSUME NEW w \in Epoch, ReceiveAnswer(w) PROVE OnceInv'
  BY <1>8, OnceQuiet, Zenon DEF ReceiveAnswer, OnceInv, Sending, TypeOK
<1>9. ASSUME NEW w \in Epoch, RecordAnswer(w) PROVE OnceInv'
  <2>1. \A v \in Epoch, e \in Effects : Sending(v, e)' => Sending(v, e)
    BY <1>9, Zenon DEF RecordAnswer, Continue, Abandon, EndCall, Sending, TypeOK
  <2>2. \A e \in Effects :
            est'[e] = est[e] \/ est'[e] \in {"Committed", "Failed"}
    BY <1>9, Zenon DEF RecordAnswer, TypeOK
  <2> QED BY <1>9, <2>1, <2>2, OnceQuiet, Zenon DEF RecordAnswer, OnceInv
<1>10. ASSUME NEW w \in Epoch, ApplyObserved(w) PROVE OnceInv'
  <2>1. \A v \in Epoch, e \in Effects : Sending(v, e)' => Sending(v, e)
    BY <1>10, Zenon DEF ApplyObserved, Continue, Abandon, EndCall, Sending, TypeOK
  <2>2. \A e \in Effects : OnceOnly(e) =>
            est'[e] = est[e] \/ est'[e] \in {"Committed", "Failed", "Unknown"}
    BY <1>10, Zenon DEF ApplyObserved, ReconciledState, OnceOnly, TypeOK
  <2> QED BY <1>10, <2>1, <2>2, OnceQuiet, Zenon DEF ApplyObserved, OnceInv
<1>11. ASSUME NEW w \in Epoch, NEW e \in Effects, Prepare(w, e) PROVE OnceInv'
  BY <1>11, OnceQuiet, Zenon DEF Prepare, OnceInv, Sending, TypeOK
<1>12. ASSUME NEW w \in Epoch, NEW e \in Effects, DispatchTxn(w, e)
       PROVE  OnceInv'
  <2>1. CASE fence = w /\ Claimable(e)
    <3> SUFFICES ASSUME NEW f \in Effects, OnceOnly(f)'
                 PROVE  /\ sent'[f] <= 1
                        /\ est'[f] # "Claimed"
                        /\ est'[f] \in {"Absent", "Prepared"} =>
                              sent'[f] = 0 /\ \A v \in Epoch : ~Sending(v, f)'
                        /\ \A v \in Epoch : Sending(v, f)' =>
                              sent'[f] = 0 /\ owner'[f] = v
      BY Zenon DEF OnceInv
    <3>1. OnceOnly(f) /\ sent'[f] = sent[f]
      BY <1>12, Zenon DEF OnceOnly, DispatchTxn
    <3>2. CASE f = e
      <4>1. est[f] = "Prepared"
        BY <2>1, <3>1, <3>2, Zenon DEF OnceInv, Claimable
      <4>2. sent[f] = 0 /\ \A v \in Epoch : ~Sending(v, f)
        BY <3>1, <4>1, Zenon DEF OnceInv
      <4>3. est'[f] = "Dispatched" /\ owner'[f] = w
        BY <1>12, <2>1, <3>2, Zenon DEF DispatchTxn, TypeOK
      <4>4. \A v \in Epoch : Sending(v, f)' => v = w
        BY <1>12, <2>1, <4>2, Zenon DEF DispatchTxn, Sending, TypeOK
      <4> QED BY <3>1, <4>2, <4>3, <4>4
    <3>3. CASE f # e
      <4>1. est'[f] = est[f] /\ owner'[f] = owner[f]
        BY <1>12, <2>1, <3>3 DEF DispatchTxn, TypeOK
      <4>2. \A v \in Epoch : Sending(v, f)' => Sending(v, f)
        BY <1>12, <2>1, <3>3, Zenon DEF DispatchTxn, Sending, TypeOK
      <4> QED BY <3>1, <4>1, <4>2, Zenon DEF OnceInv
    <3> QED BY <3>2, <3>3, Zenon
  <2>2. CASE ~(fence = w /\ Claimable(e))
    BY <1>12, <2>2, OnceQuiet DEF DispatchTxn, Continue, Abandon, EndCall,
                                  OnceInv, Sending, TypeOK
  <2> QED BY <2>1, <2>2, Zenon
<1>13. ASSUME NEW w \in Epoch, NEW e \in Effects, Probe(w, e) PROVE OnceInv'
  BY <1>13, OnceQuiet DEF Probe, OnceInv, Sending, TypeOK
<1>14. ASSUME NEW w \in Epoch, NEW e \in Effects, ProbeUnreachable(w, e)
       PROVE  OnceInv'
  BY <1>14, OnceQuiet, Zenon DEF ProbeUnreachable, Continue, EndCall, OnceInv,
                          Sending, TypeOK
<1>15. ASSUME NEW w \in Epoch, NEW e \in Effects,
              NEW to \in {"Committed", "Failed", "Prepared"}, Resolve(w, e, to)
       PROVE  OnceInv'
  <2>1. \A f \in Effects : OnceOnly(f) =>
            est'[f] = est[f] \/ est'[f] \in {"Committed", "Failed"}
    BY <1>15, Zenon DEF Resolve, OnceOnly, TypeOK
  <2>2. \A v \in Epoch, f \in Effects : Sending(v, f)' => Sending(v, f)
    BY <1>15, Zenon DEF Resolve, Sending
  <2> QED BY <1>15, <2>1, <2>2, OnceQuiet, Zenon DEF Resolve, OnceInv
<1>16. ASSUME NEW e \in Effects, LeaseExpires(e) PROVE OnceInv'
  BY <1>16, OnceQuiet, Zenon DEF LeaseExpires, OnceInv, Sending
<1>17. ASSUME NEW e \in Effects, NEW r \in {"succeeded", "failed"},
              ProviderExecutes(e, r)
       PROVE  OnceInv'
  BY <1>17, OnceQuiet, Zenon DEF ProviderExecutes, OnceInv, Sending
<1>18. ASSUME NEW e \in Effects, ProviderDrops(e) PROVE OnceInv'
  BY <1>18, OnceQuiet, Zenon DEF ProviderDrops, OnceInv, Sending
<1>19. CASE UNCHANGED vars
  BY <1>19, OnceQuiet, Zenon DEF vars, OnceInv, Sending
<1> QED
  BY <1>1, <1>2, <1>3, <1>4, <1>5, <1>6, <1>7, <1>8, <1>9, <1>10, <1>11,
     <1>12, <1>13, <1>14, <1>15, <1>16, <1>17, <1>18, <1>19, Zenon DEF Next

\* The kernel never calls the provider twice for an effect that is neither
\* safely redispatchable nor approved for a duplicate-risk retry, whatever
\* crashes, supersessions, lost answers, expired leases and operators do.
THEOREM CallsAtMostOnce == Spec => []AtMostOnce
<1>1. TypeOK /\ OnceInv => AtMostOnce
  BY Zenon DEF OnceInv, AtMostOnce
<1> QED BY <1>1, OnceInit, OnceStep, TypeInit, TypeStep, PTL DEF Spec
-----------------------------------------------------------------------------
(* The worker implements the abstract effect lifecycle.                    *)

LEMMA TransientInit == Init => NoTransientDurable
BY Zenon DEF Init, NoTransientDurable

LStep == [Lifecycle!Next]_<<est, token>>

\* Each step of the worker is, for the effects, a step of the lifecycle.
LEMMA LifecycleStep ==
    ASSUME TypeOK, NoTransientDurable, [Next]_vars
    PROVE  LStep
<1> USE DEF row, daemon, provider
<1>1. ASSUME UNCHANGED <<est, token>> PROVE LStep
  BY <1>1, Zenon DEF LStep
<1>2. ASSUME NEW e \in Effects, est[e] = "Dispatched", UNCHANGED token,
             \/ est' = [est EXCEPT ![e] = "Committed"]
             \/ est' = [est EXCEPT ![e] = "Failed"]
      PROVE  LStep
  BY <1>2, Zenon DEF LStep, Lifecycle!Next, Lifecycle!Settle
<1>3. ASSUME NEW S \in SUBSET Effects, \A e \in S : est[e] = "Dispatched",
             est' = [e \in Effects |-> IF e \in S THEN "Unknown" ELSE est[e]],
             UNCHANGED token
      PROVE  LStep
  BY <1>3, Zenon DEF LStep, Lifecycle!Next, Lifecycle!Park
<1>4. ASSUME NEW w \in Epoch, Recover(w) PROVE LStep
  <2>1. PICK S \in SUBSET Effects :
             /\ \A e \in S : est[e] = "Dispatched"
             /\ est' = [e \in Effects |-> IF e \in S THEN "Unknown" ELSE est[e]]
    <3>1. CASE Disposition(est) = "BlockedUnknownEffect"
                 /\ Disposition(est) # recovery
      <4>1. est' = [e \in Effects |-> IF e \in UnsafeDispatched
                                      THEN "Unknown" ELSE est[e]]
        BY <1>4, <3>1, Zenon DEF Recover
      <4>2. /\ UnsafeDispatched \in SUBSET Effects
            /\ \A e \in UnsafeDispatched : est[e] = "Dispatched"
        BY Zenon DEF UnsafeDispatched
      <4> QED BY <4>1, <4>2, Zenon
    <3>2. CASE ~(Disposition(est) = "BlockedUnknownEffect"
                   /\ Disposition(est) # recovery)
      BY <1>4, <3>2, Zenon DEF Recover
    <3> QED BY <3>1, <3>2, Zenon
  <2> QED BY <1>3, <1>4, <2>1, Zenon DEF Recover
<1>5. ASSUME NEW w \in Epoch, RecordAnswer(w) PROVE LStep
  <2>1. cur[w] \in Effects
    BY <1>5, Zenon DEF TypeOK, RecordAnswer, Calling
  <2>2. CASE est[cur[w]] = "Dispatched" /\ HoldsClaim(w, cur[w])
    BY <1>2, <1>5, <2>1, <2>2, Zenon DEF RecordAnswer
  <2>3. CASE ~(est[cur[w]] = "Dispatched" /\ HoldsClaim(w, cur[w]))
    BY <1>5, <1>1, <2>3, Zenon DEF RecordAnswer
  <2> QED BY <2>2, <2>3, Zenon
<1>6. ASSUME NEW w \in Epoch, ApplyObserved(w) PROVE LStep
  <2> DEFINE e == cur[w]
             to == ReconciledState(e, ans[w])
  <2>1. e \in Effects
    BY <1>6, Zenon DEF TypeOK, ApplyObserved, Calling
  <2>2. UNCHANGED token
    BY <1>6, Zenon DEF ApplyObserved
  <2>3. CASE fence = w /\ est[e] = "Dispatched"
    <3>1. est' = [est EXCEPT ![e] = to]
      BY <1>6, <2>3, Zenon DEF ApplyObserved
    <3>2. CASE to \in {"Committed", "Failed"}
      BY <1>2, <2>1, <2>2, <2>3, <3>1, <3>2, Zenon
    <3>3. CASE to = "Prepared"
      <4>1. IsSafelyRedispatchable(Contract[e])
        BY <3>3, Zenon DEF ReconciledState
      <4>2. Lifecycle!Rearm(e)
        BY <2>2, <2>3, <3>1, <3>3, <4>1, Zenon DEF Lifecycle!Rearm,
             IsSafelyRedispatchable, Lifecycle!IsSafelyRedispatchable
      <4> QED BY <2>1, <4>2, Zenon DEF LStep, Lifecycle!Next
    <3>4. CASE to = "Unknown"
      <4>1. est' = [f \in Effects |-> IF f \in {e} THEN "Unknown" ELSE est[f]]
        BY <2>1, <3>1, <3>4, Zenon DEF TypeOK
      <4>2. {e} \in SUBSET Effects /\ \A f \in {e} : est[f] = "Dispatched"
        BY <2>1, <2>3, Zenon
      <4> HIDE DEF e
      <4> QED BY <1>3, <2>2, <4>1, <4>2, Zenon
    <3> QED BY <3>2, <3>3, <3>4, ReconciledStateType, Zenon
  <2>4. CASE ~(fence = w /\ est[e] = "Dispatched")
    BY <1>6, <1>1, <2>2, <2>4, Zenon DEF ApplyObserved
  <2> QED BY <2>3, <2>4, Zenon
<1>7. ASSUME NEW w \in Epoch, NEW e \in Effects, Prepare(w, e) PROVE LStep
  BY <1>7, Zenon DEF LStep, Prepare, Lifecycle!Next, Lifecycle!Prepare
<1>8. ASSUME NEW w \in Epoch, NEW e \in Effects, DispatchTxn(w, e) PROVE LStep
  <2>1. CASE fence = w /\ Claimable(e)
    <3>1. est[e] = "Prepared"
      BY <2>1, Zenon DEF Claimable, NoTransientDurable
    <3>2. Lifecycle!Dispatch(e)
      BY <1>8, <2>1, <3>1, Zenon DEF DispatchTxn, Lifecycle!Dispatch
    <3> QED BY <3>2, Zenon DEF LStep, Lifecycle!Next
  <2>2. CASE ~(fence = w /\ Claimable(e))
    BY <1>8, <1>1, <2>2, Zenon DEF DispatchTxn
  <2> QED BY <2>1, <2>2, Zenon
<1>9. ASSUME NEW w \in Epoch, NEW e \in Effects,
             NEW to \in {"Committed", "Failed", "Prepared"}, Resolve(w, e, to)
      PROVE  LStep
  BY <1>9, Zenon DEF LStep, Resolve, Lifecycle!Next, Lifecycle!Resolve
<1>10. ASSUME NEW w \in Epoch,
              \/ Boot(w) \/ Crash(w) \/ Scan(w) \/ Send(w) \/ LoseCall(w)
              \/ CallTimeout(w) \/ ReceiveAnswer(w)
       PROVE  UNCHANGED <<est, token>>
  BY <1>10, Zenon DEF Boot, Crash, Scan, Send, LoseCall, CallTimeout, ReceiveAnswer
<1>11. ASSUME NEW w \in Epoch, NEW e \in Effects,
              Probe(w, e) \/ ProbeUnreachable(w, e)
       PROVE  UNCHANGED <<est, token>>
  BY <1>11, Zenon DEF Probe, ProbeUnreachable
<1>12. ASSUME NEW e \in Effects,
              \/ LeaseExpires(e) \/ ProviderDrops(e)
              \/ \E r \in {"succeeded", "failed"} : ProviderExecutes(e, r)
       PROVE  UNCHANGED <<est, token>>
  BY <1>12, Zenon DEF LeaseExpires, ProviderDrops, ProviderExecutes
<1>13. CASE UNCHANGED vars
  BY <1>1, <1>13, Zenon DEF vars
<1> QED
  BY <1>4, <1>5, <1>6, <1>7, <1>8, <1>9, <1>1, <1>10, <1>11, <1>12, <1>13, Zenon
     DEF Next

\* Claimed, Acknowledged and Cancelled are not reachable through the
\* lifecycle, so no instance ever finds them in the store.
LEMMA TransientStep ==
    ASSUME TypeOK, NoTransientDurable, [Next]_vars
    PROVE  NoTransientDurable'
<1>1. [Lifecycle!Next]_<<est, token>>
  BY LifecycleStep, Zenon DEF LStep
<1> QED
  BY <1>1, Zenon DEF TypeOK, NoTransientDurable, Lifecycle!Next, Lifecycle!Prepare,
     Lifecycle!Dispatch, Lifecycle!Settle, Lifecycle!Park, Lifecycle!Rearm,
     Lifecycle!Resolve

\* The worker never commits a half-done hand-off: claim and dispatch, and
\* acknowledgment and commit, are durable together or not at all.
THEOREM NoTransient == Spec => []NoTransientDurable
<1>1. Init => NoTransientDurable
  BY TransientInit, Zenon
<1>2. TypeOK /\ NoTransientDurable /\ [Next]_vars => NoTransientDurable'
  BY TransientStep, Zenon
<1> QED BY <1>1, <1>2, TypeCorrect, PTL DEF Spec

\* The run worker, with its crashes, races and retries, implements the
\* abstract lifecycle of an effect: every hand-off is recorded and counted,
\* and is repeated only under the conditions the lifecycle names.
THEOREM ImplementsLifecycle == Spec => LifecycleSpec
<1>1. Init => Lifecycle!Init
  BY Zenon DEF Init, Lifecycle!Init
<1>2. TypeOK /\ NoTransientDurable /\ [Next]_vars
        => [Lifecycle!Next]_<<est, token>>
  BY LifecycleStep, Zenon DEF LStep
<1>3. Spec => [](TypeOK /\ NoTransientDurable)
  BY TypeCorrect, NoTransient, PTL
<1> QED BY <1>1, <1>2, <1>3, PTL DEF Spec, LifecycleSpec, Lifecycle!Spec,
           Lifecycle!lvars
-----------------------------------------------------------------------------
(* A settled effect tells the truth.                                       *)

\* The answer an instance holds is the provider's own: `result' never changes
\* once it is known, so the answer is still right when it is recorded, however
\* late, and so is a conclusive observation.
TruthInv ==
    /\ SettledTruthfully
    /\ \A w \in Epoch :
          /\ pc[w] = "record" => ans[w] \in {"succeeded", "failed"}
          /\ pc[w] \in {"record", "observed"}
                /\ ans[w] \in {"succeeded", "failed"} =>
                    result[cur[w]] = ans[w]

LEMMA TruthInit == Init => TruthInv
BY Zenon DEF Init, TruthInv, SettledTruthfully

\* A step that settles no effect and neither hands out an answer nor changes a
\* known outcome keeps the invariant.
LEMMA TruthQuiet ==
    ASSUME TypeOK, TruthInv,
           \A e \in Effects : result[e] # "none" => result'[e] = result[e],
           resolved \subseteq resolved',
           \A e \in Effects \ resolved' :
                est'[e] \in {"Committed", "Failed"} => est'[e] = est[e],
           \A w \in Epoch : pc'[w] \in {"record", "observed"} =>
                pc'[w] = pc[w] /\ ans'[w] = ans[w] /\ cur'[w] = cur[w]
    PROVE  TruthInv'
<1>1. SettledTruthfully'
  BY Zenon DEF TruthInv, SettledTruthfully
<1>2. ASSUME NEW w \in Epoch, pc'[w] \in {"record", "observed"}
      PROVE  /\ pc'[w] = "record" => ans'[w] \in {"succeeded", "failed"}
             /\ ans'[w] \in {"succeeded", "failed"} =>
                    result'[cur'[w]] = ans'[w]
  <2>1. cur[w] \in Effects
    BY <1>2, Zenon DEF TypeOK, Calling
  <2> QED BY <1>2, <2>1 DEF TruthInv
<1> QED BY <1>1, <1>2, Zenon DEF TruthInv

LEMMA TruthStep == TypeOK /\ TruthInv /\ [Next]_vars => TruthInv'
<1> SUFFICES ASSUME TypeOK, TruthInv, [Next]_vars PROVE TruthInv'
  BY Zenon
<1> USE DEF row, daemon, provider
<1>1. ASSUME NEW w \in Epoch, Boot(w) PROVE TruthInv'
  BY <1>1, TruthQuiet, Zenon DEF Boot, TypeOK
<1>2. ASSUME NEW w \in Epoch, Recover(w) PROVE TruthInv'
  <2>1. \A e \in Effects : est'[e] = est[e] \/ est'[e] = "Unknown"
    BY <1>2, Zenon DEF Recover
  <2> QED BY <1>2, <2>1, TruthQuiet, Zenon DEF Recover, TypeOK
<1>3. ASSUME NEW w \in Epoch, Crash(w) PROVE TruthInv'
  BY <1>3, TruthQuiet, Zenon DEF Crash, EndCall, TypeOK
<1>4. ASSUME NEW w \in Epoch, Scan(w) PROVE TruthInv'
  BY <1>4, TruthQuiet, Zenon DEF Scan, TypeOK
<1>5. ASSUME NEW w \in Epoch, Send(w) PROVE TruthInv'
  BY <1>5, TruthQuiet, Zenon DEF Send, TypeOK
<1>6. ASSUME NEW w \in Epoch, LoseCall(w) PROVE TruthInv'
  BY <1>6, TruthQuiet DEF LoseCall, Continue, Abandon, EndCall, TypeOK
<1>7. ASSUME NEW w \in Epoch, CallTimeout(w) PROVE TruthInv'
  BY <1>7, TruthQuiet, Zenon DEF CallTimeout, Continue, EndCall, TypeOK
<1>8. ASSUME NEW w \in Epoch, ReceiveAnswer(w) PROVE TruthInv'
  <2>1. /\ cur[w] \in Effects
        /\ result[cur[w]] \in {"succeeded", "failed"}
    BY <1>8, Zenon DEF TypeOK, ReceiveAnswer, Calling, Result
  <2> QED BY <1>8, <2>1, Zenon DEF TruthInv, SettledTruthfully, ReceiveAnswer, TypeOK
<1>9. ASSUME NEW w \in Epoch, RecordAnswer(w) PROVE TruthInv'
  <2>1. cur[w] \in Effects
    BY <1>9, Zenon DEF TypeOK, RecordAnswer, Calling
  <2>2. /\ ans[w] \in {"succeeded", "failed"}
        /\ result[cur[w]] = ans[w]
    BY <1>9, Zenon DEF RecordAnswer, TruthInv
  <2>3. \A e \in Effects :
            \/ est'[e] = est[e]
            \/ e = cur[w] /\ est'[e] = IF ans[w] = "succeeded"
                                       THEN "Committed" ELSE "Failed"
    BY <1>9, Zenon DEF RecordAnswer, TypeOK
  <2>4. SettledTruthfully'
    BY <1>9, <2>2, <2>3, Zenon DEF RecordAnswer, TruthInv, SettledTruthfully
  <2>5. \A v \in Epoch : pc'[v] \in {"record", "observed"} =>
            pc'[v] = pc[v] /\ ans'[v] = ans[v] /\ cur'[v] = cur[v]
    BY <1>9, Zenon DEF RecordAnswer, Continue, Abandon, EndCall, TypeOK
  <2> QED BY <1>9, <2>4, <2>5, Zenon DEF RecordAnswer, TruthInv
<1>10. ASSUME NEW w \in Epoch, ApplyObserved(w) PROVE TruthInv'
  <2>1. cur[w] \in Effects
    BY <1>10, Zenon DEF TypeOK, ApplyObserved, Calling
  <2>2. \A e \in Effects :
            \/ est'[e] = est[e]
            \/ e = cur[w] /\ est'[e] = ReconciledState(e, ans[w])
    BY <1>10 DEF ApplyObserved, TypeOK
  <2>3. /\ ReconciledState(cur[w], ans[w]) = "Committed" =>
              result[cur[w]] = "succeeded"
        /\ ReconciledState(cur[w], ans[w]) = "Failed" =>
              result[cur[w]] = "failed"
    BY <1>10, Zenon DEF ApplyObserved, TruthInv, ReconciledState
  <2>4. SettledTruthfully'
    BY <1>10, <2>2, <2>3 DEF ApplyObserved, TruthInv, SettledTruthfully
  <2>5. \A v \in Epoch : pc'[v] \in {"record", "observed"} =>
            pc'[v] = pc[v] /\ ans'[v] = ans[v] /\ cur'[v] = cur[v]
    BY <1>10, Zenon DEF ApplyObserved, Continue, Abandon, EndCall, TypeOK
  <2> QED BY <1>10, <2>4, <2>5, Zenon DEF ApplyObserved, TruthInv
<1>11. ASSUME NEW w \in Epoch, NEW e \in Effects, Prepare(w, e) PROVE TruthInv'
  BY <1>11, TruthQuiet, Zenon DEF Prepare, TypeOK
<1>12. ASSUME NEW w \in Epoch, NEW e \in Effects, DispatchTxn(w, e)
       PROVE  TruthInv'
  BY <1>12, TruthQuiet DEF DispatchTxn, Continue, Abandon, EndCall, TypeOK
<1>13. ASSUME NEW w \in Epoch, NEW e \in Effects, Probe(w, e) PROVE TruthInv'
  <2>1. ans'[w] \in {"succeeded", "failed"} => result[e] = ans'[w]
    BY <1>13, Zenon DEF Probe, Observed, TypeOK
  <2> QED BY <1>13, <2>1 DEF TruthInv, SettledTruthfully, Probe, TypeOK
<1>14. ASSUME NEW w \in Epoch, NEW e \in Effects, ProbeUnreachable(w, e)
       PROVE  TruthInv'
  BY <1>14, TruthQuiet, Zenon DEF ProbeUnreachable, Continue, EndCall, TypeOK
<1>15. ASSUME NEW w \in Epoch, NEW e \in Effects,
              NEW to \in {"Committed", "Failed", "Prepared"}, Resolve(w, e, to)
       PROVE  TruthInv'
  BY <1>15, TruthQuiet, Zenon DEF Resolve, TypeOK
<1>16. ASSUME NEW e \in Effects, LeaseExpires(e) PROVE TruthInv'
  BY <1>16, TruthQuiet, Zenon DEF LeaseExpires
<1>17. ASSUME NEW e \in Effects, NEW r \in {"succeeded", "failed"},
              ProviderExecutes(e, r)
       PROVE  TruthInv'
  BY <1>17, TruthQuiet, Zenon DEF ProviderExecutes, TypeOK
<1>18. ASSUME NEW e \in Effects, ProviderDrops(e) PROVE TruthInv'
  BY <1>18, TruthQuiet, Zenon DEF ProviderDrops
<1>19. CASE UNCHANGED vars
  BY <1>19, TruthQuiet, Zenon DEF vars
<1> QED
  BY <1>1, <1>2, <1>3, <1>4, <1>5, <1>6, <1>7, <1>8, <1>9, <1>10, <1>11,
     <1>12, <1>13, <1>14, <1>15, <1>16, <1>17, <1>18, <1>19, Zenon DEF Next

\* What the store says of a settled effect is what happened: Committed only if
\* the provider performed the operation, Failed only if it reported a failure,
\* for any number of instances, lost answers, late answers and probes, unless
\* an operator decided the outcome by hand.
THEOREM SettlesTruthfully == Spec => []SettledTruthfully
<1>1. TruthInv => SettledTruthfully
  BY Zenon DEF TruthInv
<1> QED BY <1>1, TruthInit, TruthStep, TypeInit, TypeStep, PTL DEF Spec
-----------------------------------------------------------------------------
(* While it holds the fence, an instance works on what it saw.             *)

\* Only the fence holder writes rows, and startup recovery is over before the
\* holder serves; so the rows of the holder's snapshot change only by its own
\* hand, one at a time, the one in hand excepted.  No snapshot contains an
\* Unknown row, which is all an operator may move.
InScan(w) == pc[w] \in {"step"} \cup Calling

FreshInv ==
    /\ \A w \in Epoch : pc[w] = "recovering" => fence = w
    /\ \A w \in Epoch, e \in Effects : todo[w][e] # "Unknown"
    /\ \A w \in Epoch : fence = w /\ InScan(w) =>
          \A e \in Effects : \/ todo[w][e] \in {"Done", est[e]}
                             \/ pc[w] \in Calling /\ e = cur[w]
    /\ TimelyAnswerRecorded

LEMMA FreshInit == Init => FreshInv
BY DEF Init, FreshInv, InScan, Calling, NothingTodo, TimelyAnswerRecorded

\* A step that leaves the fence and the rows alone, takes no new snapshot and
\* starts no call keeps the invariant: each instance goes on with what it had,
\* or drops the effect it was calling about.
LEMMA FreshQuiet ==
    ASSUME TypeOK, FreshInv, UNCHANGED <<fence, est, owner, token>>,
           \A w \in Epoch :
              /\ pc'[w] = "recovering" => pc[w] = "recovering"
              /\ \A e \in Effects : todo'[w][e] \in {"Done", todo[w][e]}
              /\ pc'[w] = "step" => /\ InScan(w)
                                    /\ pc[w] \in Calling /\ cur[w] \in Effects
                                          => todo'[w][cur[w]] = "Done"
              /\ pc'[w] \in Calling => /\ InScan(w)
                                       /\ pc[w] \in Calling => cur'[w] = cur[w]
              /\ pc'[w] \in {"send", "await", "record"} =>
                    /\ pc[w] \in {"send", "await", "record"}
                    /\ cur'[w] = cur[w] /\ tok'[w] = tok[w]
    PROVE  FreshInv'
<1>1. ASSUME NEW w \in Epoch
      PROVE  /\ pc'[w] = "recovering" => fence' = w
             /\ \A e \in Effects : todo'[w][e] # "Unknown"
  BY DEF FreshInv
<1>2. ASSUME NEW w \in Epoch, fence' = w, InScan(w)', NEW e \in Effects
      PROVE  \/ todo'[w][e] \in {"Done", est'[e]}
             \/ pc'[w] \in Calling /\ e = cur'[w]
  <2>1. fence = w /\ InScan(w)
    BY <1>2, Zenon DEF InScan
  <2>2. \/ todo[w][e] \in {"Done", est[e]}
        \/ pc[w] \in Calling /\ e = cur[w]
    BY <2>1 DEF FreshInv
  <2> QED BY <1>2, <2>1, <2>2 DEF InScan
<1>3. TimelyAnswerRecorded'
  BY DEF FreshInv, TimelyAnswerRecorded
<1> QED BY <1>1, <1>2, <1>3, Zenon DEF FreshInv

\* The fence holder moves on after the effect in hand, and only that row may
\* have changed.
LEMMA FreshContinue ==
    ASSUME TypeOK, FreshInv, NEW w \in Epoch, NEW e \in Effects,
           Continue(w, e), InScan(w), UNCHANGED fence,
           pc[w] \in Calling => e = cur[w], fence = w,
           \A f \in Effects \ {e} : est'[f] = est[f]
    PROVE  FreshInv'
<1>1. \A v \in Epoch \ {w} : v # fence' /\ pc'[v] = pc[v] /\ todo'[v] = todo[v]
  BY Zenon DEF Continue, TypeOK
<1>2. /\ pc'[w] \in {"step", "idle"}
      /\ todo'[w][e] = "Done"
      /\ \A f \in Effects \ {e} : todo'[w][f] = todo[w][f]
  BY Zenon DEF Continue, TypeOK
<1>3. \A f \in Effects : todo'[w][f] \in {"Done", est'[f]}
  BY <1>2, Zenon DEF FreshInv
<1>4. \A v \in Epoch, f \in Effects : todo'[v][f] # "Unknown"
  BY <1>1, <1>2 DEF FreshInv
<1>5. \A v \in Epoch : pc'[v] = "recovering" => fence' = v
  BY <1>1, <1>2, Zenon DEF FreshInv
<1>6. TimelyAnswerRecorded'
  BY <1>1, <1>2, Zenon DEF TimelyAnswerRecorded
<1> QED BY <1>1, <1>3, <1>4, <1>5, <1>6, Zenon DEF FreshInv

LEMMA FreshStep ==
    ASSUME TypeOK, NoTransientDurable, FreshInv, [Next]_vars
    PROVE  FreshInv'
<1> USE DEF row, daemon, provider
<1>1. ASSUME NEW w \in Epoch, Boot(w) PROVE FreshInv'
  <2>1. fence' = w /\ pc'[w] = "recovering" /\ UNCHANGED todo
    BY <1>1, Zenon DEF Boot, TypeOK
  <2>2. \A v \in Epoch \ {w} : pc'[v] # "recovering" /\ fence' # v
    BY <1>1, Zenon DEF Boot, TypeOK
  <2> QED BY <2>1, <2>2, Zenon DEF FreshInv, TimelyAnswerRecorded, InScan, Calling
<1>2. ASSUME NEW w \in Epoch, Recover(w) PROVE FreshInv'
  <2>1. fence = w /\ pc'[w] = "idle" /\ UNCHANGED <<fence, todo>>
    BY <1>2, Zenon DEF Recover, FreshInv, TypeOK
  <2>2. \A v \in Epoch \ {w} : pc'[v] = pc[v]
    BY <1>2, Zenon DEF Recover, TypeOK
  <2> QED BY <2>1, <2>2 DEF FreshInv, TimelyAnswerRecorded, InScan, Calling
<1>3. ASSUME NEW w \in Epoch, Crash(w) PROVE FreshInv'
  BY <1>3, FreshQuiet, Zenon DEF Crash, EndCall, NothingTodo, TypeOK, InScan, Calling
<1>4. ASSUME NEW w \in Epoch, Scan(w) PROVE FreshInv'
  <2>1. \A v \in Epoch \ {w} : pc'[v] = pc[v] /\ todo'[v] = todo[v]
    BY <1>4, Zenon DEF Scan, TypeOK
  <2>2. /\ pc'[w] = "step"
        /\ \A e \in Effects : /\ todo'[w][e] \in {"Done", est[e]}
                              /\ todo'[w][e] # "Unknown"
    BY <1>4, Zenon DEF Scan, TypeOK
  <2>3. UNCHANGED <<fence, est, owner, token, cur, tok>>
    BY <1>4, Zenon DEF Scan
  <2> QED BY <2>1, <2>2, <2>3 DEF FreshInv, TimelyAnswerRecorded, InScan
<1>5. ASSUME NEW w \in Epoch, Send(w) PROVE FreshInv'
  BY <1>5, FreshQuiet, Zenon DEF Send, TypeOK, InScan, Calling
<1>6. ASSUME NEW w \in Epoch, LoseCall(w) PROVE FreshInv'
  BY <1>6, FreshQuiet DEF LoseCall, Continue, Abandon, EndCall, NothingTodo,
                          TypeOK, InScan, Calling
<1>7. ASSUME NEW w \in Epoch, CallTimeout(w) PROVE FreshInv'
  BY <1>7, FreshQuiet, Zenon DEF CallTimeout, Continue, EndCall, TypeOK, InScan,
                          Calling
<1>8. ASSUME NEW w \in Epoch, ReceiveAnswer(w) PROVE FreshInv'
  BY <1>8, FreshQuiet, Zenon DEF ReceiveAnswer, TypeOK, InScan, Calling
<1>9. ASSUME NEW w \in Epoch, RecordAnswer(w) PROVE FreshInv'
  <2>1. cur[w] \in Effects /\ InScan(w)
    BY <1>9, Zenon DEF TypeOK, RecordAnswer, Calling, InScan
  <2>2. CASE est[cur[w]] = "Dispatched" /\ HoldsClaim(w, cur[w])
    <3>1. \A f \in Effects \ {cur[w]} : est'[f] = est[f]
      BY <1>9, <2>2, Zenon DEF RecordAnswer, TypeOK
    <3>2. Continue(w, cur[w]) /\ fence = w /\ UNCHANGED fence
      BY <1>9, <2>2, Zenon DEF RecordAnswer, HoldsClaim
    <3> QED BY <2>1, <3>1, <3>2, FreshContinue, Zenon
  <2>3. CASE ~(est[cur[w]] = "Dispatched" /\ HoldsClaim(w, cur[w]))
    <3>1. Abandon(w) /\ UNCHANGED <<fence, est, owner, token>>
      BY <1>9, <2>3, Zenon DEF RecordAnswer
    <3> QED BY <3>1, FreshQuiet, Zenon DEF Abandon, EndCall, NothingTodo, TypeOK,
                                    InScan, Calling
  <2> QED BY <2>2, <2>3, Zenon
<1>10. ASSUME NEW w \in Epoch, ApplyObserved(w) PROVE FreshInv'
  <2>1. cur[w] \in Effects /\ InScan(w)
    BY <1>10, Zenon DEF TypeOK, ApplyObserved, Calling, InScan
  <2>2. CASE fence = w
    <3>1. \A f \in Effects \ {cur[w]} : est'[f] = est[f]
      BY <1>10, <2>2, Zenon DEF ApplyObserved, TypeOK
    <3>2. Continue(w, cur[w]) /\ UNCHANGED fence
      BY <1>10, <2>2, Zenon DEF ApplyObserved
    <3> QED BY <2>1, <2>2, <3>1, <3>2, FreshContinue, Zenon
  <2>3. CASE fence # w
    BY <1>10, <2>3, FreshQuiet DEF ApplyObserved, Abandon, EndCall,
                                   NothingTodo, TypeOK, InScan, Calling
  <2> QED BY <2>2, <2>3, Zenon
<1>11. ASSUME NEW w \in Epoch, NEW e \in Effects, Prepare(w, e) PROVE FreshInv'
  <2>1. \A v \in Epoch : fence = v => ~InScan(v)
    BY <1>11, Zenon DEF Prepare, InScan, Calling
  <2> QED BY <1>11, <2>1 DEF Prepare, FreshInv, TimelyAnswerRecorded, InScan,
                             Calling
<1>12. ASSUME NEW w \in Epoch, NEW e \in Effects, DispatchTxn(w, e)
       PROVE  FreshInv'
  <2>1. CASE fence = w /\ Claimable(e)
    <3>1. \A v \in Epoch \ {w} : pc'[v] = pc[v] /\ fence' # v
      BY <1>12, <2>1, Zenon DEF DispatchTxn, TypeOK
    <3>2. /\ pc'[w] = "send" /\ cur'[w] = e
          /\ est'[e] = "Dispatched" /\ owner'[e] = w /\ token'[e] = tok'[w]
          /\ \A f \in Effects \ {e} : est'[f] = est[f]
          /\ UNCHANGED <<fence, todo>>
      BY <1>12, <2>1 DEF DispatchTxn, TypeOK
    <3>3. pc[w] = "step"
      BY <1>12, Zenon DEF DispatchTxn
    <3>4. \A f \in Effects \ {e} : todo'[w][f] \in {"Done", est'[f]}
      BY <2>1, <3>2, <3>3, Zenon DEF FreshInv, InScan, Calling
    <3>5. TimelyAnswerRecorded'
      BY <3>1, <3>2, Zenon DEF TimelyAnswerRecorded
    <3> QED BY <2>1, <3>1, <3>2, <3>4, <3>5, Zenon DEF FreshInv, InScan, Calling
  <2>2. CASE ~(fence = w /\ Claimable(e))
    BY <1>12, <2>2, FreshQuiet DEF DispatchTxn, Continue, Abandon, EndCall,
                                   NothingTodo, TypeOK, InScan, Calling
  <2> QED BY <2>1, <2>2, Zenon
<1>13. ASSUME NEW w \in Epoch, NEW e \in Effects, Probe(w, e) PROVE FreshInv'
  BY <1>13, FreshQuiet, Zenon DEF Probe, TypeOK, InScan, Calling
<1>14. ASSUME NEW w \in Epoch, NEW e \in Effects, ProbeUnreachable(w, e)
       PROVE  FreshInv'
  BY <1>14, FreshQuiet, Zenon DEF ProbeUnreachable, Continue, EndCall, TypeOK,
                           InScan, Calling
<1>15. ASSUME NEW w \in Epoch, NEW e \in Effects,
              NEW to \in {"Committed", "Failed", "Prepared"}, Resolve(w, e, to)
       PROVE  FreshInv'
  <2>1. /\ est[e] = "Unknown"
        /\ \A f \in Effects \ {e} : est'[f] = est[f]
        /\ UNCHANGED <<fence, owner, token, daemon>>
    BY <1>15, Zenon DEF Resolve, TypeOK
  <2>2. TimelyAnswerRecorded'
    <3> SUFFICES ASSUME NEW v \in Epoch, fence = v,
                        pc[v] \in {"send", "await", "record"}
                 PROVE  est'[cur[v]] = est[cur[v]]
      BY <2>1, Zenon DEF TimelyAnswerRecorded, FreshInv
    <3>1. cur[v] \in Effects /\ est[cur[v]] = "Dispatched"
      BY Zenon DEF TypeOK, Calling, FreshInv, TimelyAnswerRecorded
    <3> QED BY <2>1, <3>1, Zenon
  <2> QED BY <2>1, <2>2 DEF FreshInv, InScan
<1>16. ASSUME NEW e \in Effects, LeaseExpires(e) PROVE FreshInv'
  BY <1>16, FreshQuiet, Zenon DEF LeaseExpires, InScan, Calling
<1>17. ASSUME NEW e \in Effects, NEW r \in {"succeeded", "failed"},
              ProviderExecutes(e, r)
       PROVE  FreshInv'
  BY <1>17, FreshQuiet, Zenon DEF ProviderExecutes, InScan, Calling
<1>18. ASSUME NEW e \in Effects, ProviderDrops(e) PROVE FreshInv'
  BY <1>18, FreshQuiet, Zenon DEF ProviderDrops, InScan, Calling
<1>19. CASE UNCHANGED vars
  BY <1>19, FreshQuiet, Zenon DEF vars, InScan, Calling
<1> QED
  BY <1>1, <1>2, <1>3, <1>4, <1>5, <1>6, <1>7, <1>8, <1>9, <1>10, <1>11,
     <1>12, <1>13, <1>14, <1>15, <1>16, <1>17, <1>18, <1>19, Zenon DEF Next

LEMMA FreshAlways == Spec => []FreshInv
<1>1. TypeOK /\ NoTransientDurable /\ FreshInv /\ [Next]_vars => FreshInv'
  BY FreshStep, Zenon
<1> QED BY <1>1, FreshInit, TypeCorrect, NoTransient, PTL DEF Spec

\* A timely answer is always recorded: while the instance that called still
\* holds the fence, nothing has touched the row, so verify_executor accepts it.
THEOREM TimelyAnswers == Spec => []TimelyAnswerRecorded
<1>1. FreshInv => TimelyAnswerRecorded
  BY Zenon DEF FreshInv
<1> QED BY <1>1, FreshAlways, PTL

\* step_waiting_tool lists the effects once and steps them from that list; as
\* long as the instance holds the fence the list does not go stale under it.
THEOREM SnapshotStaysFresh == Spec => []SnapshotFresh
<1>1. FreshInv => SnapshotFresh
  BY Zenon DEF FreshInv, SnapshotFresh, InScan, Calling
<1> QED BY <1>1, FreshAlways, PTL
=============================================================================
