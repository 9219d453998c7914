-------------------------- MODULE RunKernelProofs --------------------------
(***************************************************************************)
(* Proofs about RunKernel, for every forest of runs, any number of turns,  *)
(* boots, cancellations and faults.                                        *)
(***************************************************************************)
EXTENDS RunKernel, SequenceTheorems, TLAPS

(* The inductive invariant.                                                *)

\* A run past Ready never comes back to it.
Past(s) == s \notin {"Absent", "Created", "Ready"}

Driving == {"drive", "call", "follow"}

\* The turn the worker is calling the loop for: issued by this instance, and as
\* long as the row still has the revision the turn was issued at, Running.
CallInv ==
    LET t == turn[cur][Len(turn[cur])]
    IN /\ t.st = "issued"
       /\ t.epoch = epoch
       /\ t.rev <= run[cur].rev
       /\ t.rev = run[cur].rev => run[cur].state = "Running"

\* What the worker and the timer worker rely on between two transactions.
ControlInv ==
    /\ pc # "down" => epoch > 0
    /\ \A r \in Runs : Len(turn[r]) <= MaxStep
    /\ sched # NoSched => sched.run \in Runs /\ sched.step \in Steps
    /\ \A r \in todo : snap[r].state \in {"Running"} \cup Waiting =>
                          Past(run[r].state)
    /\ pc \in Driving => Past(run[cur].state)
    /\ pc = "drive" => Len(turn[cur]) < MaxStep
    /\ pc \in {"call", "follow"} => Len(turn[cur]) > 0
    /\ pc = "call" => CallInv

\* Effects belong to accepted turns, and so does the one being executed.
EffectInv ==
    /\ EffectsDecided
    /\ call # 0 => pc = "effects" /\ eff[cur][call] # "Absent"

\* Only clients observe a parent, and only of a child that has one.
SpawnInv ==
    /\ SpawnFenced
    /\ \A c \in Runs : obs[c] # 0 => c \in ClientRuns /\ Parent[c] \in Runs
-----------------------------------------------------------------------------
(* What the operations on a row, and the classification, return.           *)

LEMMA Bounds ==
    /\ MaxStep \in Nat /\ MaxEpoch \in Nat
    /\ MaxCancel \in Nat /\ MaxFaults \in Nat
BY KernelAssumption, Zenon

\* A row that is moved keeps everything but its state and its revision.
LEMMA MovedRow ==
    ASSUME NEW row \in Row, NEW s \in RunState
    PROVE  /\ Moved(row, s) \in Row
           /\ Moved(row, s).state = s
           /\ Moved(row, s).rev = row.rev + 1
           /\ Moved(row, s).cepoch = row.cepoch
<1>1. /\ row.state \in RunState \cup {"Absent"}
      /\ row.rev \in Nat /\ row.cepoch \in 0..MaxCancel
      /\ row.rec \in RecoveryDisposition /\ row.claim \in 0..MaxEpoch
  BY Zenon DEF Row
<1>2. Moved(row, s) = [state |-> s, rev |-> row.rev + 1, cepoch |-> row.cepoch,
                       rec |-> row.rec, claim |-> row.claim]
  <2> DEFINE one == [row EXCEPT !.state = s]
  <2>1. one = [state |-> s, rev |-> row.rev, cepoch |-> row.cepoch,
               rec |-> row.rec, claim |-> row.claim]
    BY DEF Row
  <2>2. Moved(row, s) = [one EXCEPT !.rev = row.rev + 1]
    BY Zenon DEF Moved
  <2> QED BY <2>1, <2>2, Zenon
<1> QED BY <1>1, <1>2 DEF Row

LEMMA FreshRow ==
    /\ NoRow \in Row /\ NewRow \in Row
    /\ NewRow.state = "Created" /\ NewRow.cepoch = 0 /\ NoRow.state = "Absent"
BY Bounds DEF NoRow, NewRow, Row, RunState, RecoveryDisposition

LEMMA DispositionRow ==
    ASSUME NEW row \in Row, NEW d \in RecoveryDisposition
    PROVE  /\ WithDisposition(row, d) \in Row
           /\ WithDisposition(row, d).state = row.state
           /\ WithDisposition(row, d).cepoch = row.cepoch
           /\ \/ WithDisposition(row, d) = row
              \/ WithDisposition(row, d).rev = row.rev + 1
<1>1. CASE row.rec = d
  BY <1>1, Zenon DEF WithDisposition
<1>2. CASE row.rec # d
  <2>1. /\ row.state \in RunState \cup {"Absent"}
        /\ row.rev \in Nat /\ row.cepoch \in 0..MaxCancel
        /\ row.claim \in 0..MaxEpoch
    BY Zenon DEF Row
  <2>2. WithDisposition(row, d) =
            [state |-> row.state, rev |-> row.rev + 1, cepoch |-> row.cepoch,
             rec |-> d, claim |-> row.claim]
    BY <1>2, Zenon DEF WithDisposition, Row
  <2> QED BY <2>1, <2>2 DEF Row
<1> QED BY <1>1, <1>2, Zenon

\* cancel moves a row where the table's cancellation target says, if anywhere.
LEMMA CancelRow ==
    ASSUME NEW row \in Row
    PROVE  /\ CancelledRow(row) \in Row
           /\ CancelledRow(row).cepoch = row.cepoch
           /\ \/ /\ CancelledRow(row) = row
                 /\ \/ row.state \in {"Absent", "Cancelling"}
                    \/ IsTerminal(row.state)
              \/ /\ CancelledRow(row).rev = row.rev + 1
                 /\ CancelledRow(row).state \in {"Cancelling", "Cancelled"}
                 /\ Allows(row.state, CancelledRow(row).state)
<1>1. CASE row.state \in {"Created", "Ready"}
  <2>1. CancelledRow(row) = Moved(row, "Cancelled")
    BY <1>1, Zenon DEF CancelledRow, CancellationTarget
  <2> QED BY <1>1, <2>1, MovedRow DEF RunState, Allows
<1>2. CASE row.state \in {"Running", "WaitingTool", "WaitingChild",
                          "WaitingHuman", "Suspended"}
  <2>1. CancelledRow(row) = Moved(row, "Cancelling")
    BY <1>2, Zenon DEF CancelledRow, CancellationTarget
  <2> QED BY <1>2, <2>1, MovedRow DEF RunState, Allows
<1>3. CASE row.state \in {"Absent", "Cancelling", "Completed", "Failed",
                          "Cancelled"}
  BY <1>3, Zenon DEF CancelledRow, CancellationTarget, IsTerminal
<1> QED BY <1>1, <1>2, <1>3, Zenon DEF Row, RunState

\* classify yields a disposition, or finds no matrix row.
LEMMA ClassifyType ==
    ASSUME NEW r, NEW effects, NEW e
    PROVE  Classify(r, effects, e) \in RecoveryDisposition \cup {"Unmapped"}
<1>1. ASSUME NEW s, NEW c
      PROVE  Matrix(s, c) \in RecoveryDisposition \cup {"Unmapped"}
  BY Zenon DEF Matrix, RecoveryDisposition
<1> QED BY <1>1, Zenon DEF Classify, RecoveryDisposition
\* claim, reclaim and restake_claim write the claim, reclaim also the recovery.
LEMMA ClaimedRow ==
    ASSUME NEW row \in Row, NEW e \in 0..MaxEpoch
    PROVE  /\ [row EXCEPT !.claim = e] \in Row
           /\ [row EXCEPT !.claim = e].state = row.state
           /\ [row EXCEPT !.claim = e].rev = row.rev
           /\ [row EXCEPT !.claim = e].cepoch = row.cepoch
BY Zenon DEF Row

LEMMA ReclaimedRow ==
    ASSUME NEW row \in Row, NEW e \in 0..MaxEpoch
    PROVE  /\ [row EXCEPT !.claim = e, !.rec = "Normal"] \in Row
           /\ [row EXCEPT !.claim = e, !.rec = "Normal"].state = row.state
           /\ [row EXCEPT !.claim = e, !.rec = "Normal"].rev = row.rev
           /\ [row EXCEPT !.claim = e, !.rec = "Normal"].cepoch = row.cepoch
BY Zenon DEF Row, RecoveryDisposition

\* cancel_subtree advances the named run's cancellation epoch.
LEMMA AdvancedRow ==
    ASSUME NEW row \in Row, row.cepoch < MaxCancel
    PROVE  /\ [row EXCEPT !.cepoch = @ + 1, !.rev = @ + 1] \in Row
           /\ [row EXCEPT !.cepoch = @ + 1, !.rev = @ + 1].state = row.state
           /\ [row EXCEPT !.cepoch = @ + 1, !.rev = @ + 1].rev = row.rev + 1
           /\ [row EXCEPT !.cepoch = @ + 1, !.rev = @ + 1].cepoch
                = row.cepoch + 1
<1>1. row.cepoch + 1 \in 0..MaxCancel /\ row.rev + 1 \in Nat
  BY Bounds DEF Row
<1> QED BY <1>1, Zenon DEF Row

\* A new turn goes to the end of a run's turns; the others stay.
LEMMA AppendTurn ==
    ASSUME NEW ts \in Seq(Turn), NEW t \in Turn
    PROVE  /\ Append(ts, t) \in Seq(Turn)
           /\ Len(Append(ts, t)) = Len(ts) + 1
           /\ Append(ts, t)[Len(ts) + 1] = t
           /\ \A i \in 1..Len(ts) : Append(ts, t)[i] = ts[i]
BY AppendProperties

\* Accepting a turn changes its status and nothing else.
LEMMA AcceptTurn ==
    ASSUME NEW ts \in Seq(Turn), NEW i \in 1..Len(ts)
    PROVE  /\ [ts EXCEPT ![i].st = "accepted"] \in Seq(Turn)
           /\ Len([ts EXCEPT ![i].st = "accepted"]) = Len(ts)
           /\ [ts EXCEPT ![i].st = "accepted"][i].st = "accepted"
           /\ \A j \in 1..Len(ts) \ {i} :
                [ts EXCEPT ![i].st = "accepted"][j] = ts[j]
<1> DEFINE t == [ts[i] EXCEPT !.st = "accepted"]
<1>1. ts[i] \in Turn
  BY ElementOfSeq, Zenon
<1>2. t \in Turn /\ t.st = "accepted"
  BY <1>1, Zenon DEF Turn
<1>3. [ts EXCEPT ![i].st = "accepted"] = [ts EXCEPT ![i] = t]
  BY Zenon
<1> HIDE DEF t
<1> QED BY <1>2, <1>3, ExceptSeq
-----------------------------------------------------------------------------
(* Type correctness.                                                       *)

WorkerTypeOK ==
    /\ pc \in {"down", "boot", "idle", "drive", "call", "follow", "effects"}
    /\ snap \in [Runs -> Row]
    /\ todo \subseteq Runs
    /\ cur \in Runs \cup {NoRun}
    /\ ins \in Decisions \cup {"none"}
    /\ work \subseteq Steps
    /\ call \in 0..MaxStep
    /\ pc \in {"drive", "call", "follow", "effects"} => cur \in todo

StoreTypeOK ==
    /\ run \in [Runs -> Row]
    /\ turn \in [Runs -> Seq(Turn)]
    /\ eff \in [Runs -> [Steps -> EffectState \cup {"Absent"}]]
    /\ timer \in [Runs -> [Steps -> Timer]]
    /\ appr \in [Runs -> [Steps -> Approval]]

RestTypeOK ==
    /\ epoch \in 0..MaxEpoch
    /\ obs \in [Runs -> 0..(MaxCancel + 1)]
    /\ sched \in [run : Runs \cup {NoRun}, step : 0..MaxStep]
    /\ faults \in 0..MaxFaults

LEMMA TypeParts == TypeOK <=> WorkerTypeOK /\ StoreTypeOK /\ RestTypeOK
BY Zenon DEF TypeOK, WorkerTypeOK, StoreTypeOK, RestTypeOK

LEMMA TypeNext == WorkerTypeOK' /\ StoreTypeOK' /\ RestTypeOK' => TypeOK'
BY Zenon DEF TypeOK, WorkerTypeOK, StoreTypeOK, RestTypeOK

LEMMA DoneType ==
    ASSUME WorkerTypeOK, NEW r \in Runs, Done(r)
    PROVE  WorkerTypeOK'
BY Bounds, FreshRow DEF WorkerTypeOK, Done

LEMMA SetRowType ==
    ASSUME StoreTypeOK, NEW r \in Runs, NEW row \in Row, SetRow(r, row)
    PROVE  run' \in [Runs -> Row]
BY Zenon DEF StoreTypeOK, SetRow

LEMMA KernelInit == Init => TypeOK /\ ControlInv /\ EffectInv /\ SpawnInv
<1> SUFFICES ASSUME Init PROVE TypeOK /\ ControlInv /\ EffectInv /\ SpawnInv
  BY Zenon
<1>1. StoreTypeOK
  <2>1. NoTimer \in Timer /\ NoApproval \in Approval
    BY Bounds DEF NoTimer, Timer, NoApproval, Approval
  <2>2. <<>> \in Seq(Turn)
    BY EmptySeq, Zenon
  <2> QED BY <2>1, <2>2, FreshRow, Zenon DEF Init, StoreTypeOK
<1>2. WorkerTypeOK
  BY Bounds, FreshRow DEF Init, WorkerTypeOK
<1>3. RestTypeOK
  BY Bounds DEF Init, RestTypeOK, NoSched
<1>4. ControlInv
  BY Bounds DEF Init, ControlInv, Driving
<1>5. EffectInv
  BY Zenon DEF Init, EffectInv, EffectsDecided
<1>6. SpawnInv
  BY Bounds, FreshRow DEF Init, SpawnInv, SpawnFenced, NoRow
<1> QED BY <1>1, <1>2, <1>3, <1>4, <1>5, <1>6, TypeParts, Zenon

\* The worker's steps from the rows of its tick.
LEMMA TypeTick ==
    ASSUME TypeOK,
           \/ Tick
           \/ \E r \in Runs :
                \/ Bind(r) \/ Claim(r) \/ Reclaim(r) \/ Restake(r)
                \/ StepHuman(r) \/ FinalizeCancel(r) \/ StartDrive(r)
                \/ StartEffects(r) \/ Skip(r)
    PROVE  TypeOK'
<1> USE DEF store
<1>0. WorkerTypeOK /\ StoreTypeOK /\ RestTypeOK
  BY TypeParts, Zenon
<1>1. CASE Tick
  <2>1. WorkerTypeOK'
    BY <1>0, <1>1, FreshRow, Zenon DEF Tick, WorkerTypeOK, StoreTypeOK, Active
  <2> QED BY <1>0, <1>1, <2>1, TypeNext, Zenon DEF Tick, StoreTypeOK, RestTypeOK
<1>2. ASSUME NEW r \in Runs, Done(r), NEW row \in Row,
             SetRow(r, row) \/ UNCHANGED run,
             UNCHANGED <<epoch, turn, eff, timer, appr, obs, sched, faults>>
      PROVE  TypeOK'
  <2>1. WorkerTypeOK'
    BY <1>0, <1>2, DoneType, Zenon
  <2>2. run' \in [Runs -> Row]
    BY <1>0, <1>2, SetRowType, Zenon DEF StoreTypeOK
  <2> QED BY <1>0, <1>2, <2>1, <2>2, TypeNext, Zenon DEF StoreTypeOK, RestTypeOK
<1>3. ASSUME NEW r \in Runs
      PROVE  /\ run[r] \in Row
             /\ \A t \in RunState : Moved(run[r], t) \in Row
             /\ [Moved(run[r], "Running") EXCEPT !.claim = epoch] \in Row
             /\ [Moved(run[r], "Running") EXCEPT !.claim = epoch,
                                                 !.rec = "Normal"] \in Row
  <2>1. run[r] \in Row /\ epoch \in 0..MaxEpoch /\ "Running" \in RunState
    BY <1>0, Zenon DEF StoreTypeOK, RestTypeOK, RunState
  <2> QED BY <2>1, MovedRow, ClaimedRow, ReclaimedRow, Zenon
<1>4. ASSUME NEW r \in Runs, Bind(r) PROVE TypeOK'
  BY <1>2, <1>3, <1>4, Zenon DEF Bind, RunState
<1>5. ASSUME NEW r \in Runs, Claim(r) PROVE TypeOK'
  BY <1>2, <1>3, <1>5, Zenon DEF Claim
<1>6. ASSUME NEW r \in Runs, Reclaim(r) PROVE TypeOK'
  BY <1>2, <1>3, <1>6, Zenon DEF Reclaim
<1>7. ASSUME NEW r \in Runs, Restake(r) PROVE TypeOK'
  <2>1. CASE Unmoved(r)
    <3>1. run[r].state \in RunState
      BY <1>7, <2>1, Zenon DEF Restake, Stepping, Waiting, Unmoved, RunState
    <3>2. [Moved(run[r], run[r].state) EXCEPT !.claim = epoch] \in Row
      BY <1>0, <1>3, <3>1, ClaimedRow, Zenon DEF RestTypeOK
    <3> QED BY <1>2, <1>7, <2>1, <3>2, Zenon DEF Restake
  <2>2. CASE ~Unmoved(r)
    BY <1>2, <1>3, <1>7, <2>2, Zenon DEF Restake
  <2> QED BY <2>1, <2>2, Zenon
<1>8. ASSUME NEW r \in Runs, StepHuman(r) PROVE TypeOK'
  BY <1>2, <1>3, <1>8, Zenon DEF StepHuman, RunState
<1>9. ASSUME NEW r \in Runs, FinalizeCancel(r) PROVE TypeOK'
  BY <1>2, <1>3, <1>9, Zenon DEF FinalizeCancel, RunState
<1>10. ASSUME NEW r \in Runs, StartDrive(r) PROVE TypeOK'
  BY <1>10, Zenon DEF StartDrive, TypeOK
<1>11. ASSUME NEW r \in Runs, StartEffects(r) PROVE TypeOK'
  BY <1>11, Zenon DEF StartEffects, Stepping, InFlight, TypeOK
<1>12. ASSUME NEW r \in Runs, Skip(r) PROVE TypeOK'
  BY <1>2, <1>3, <1>12, Zenon DEF Skip
<1> QED BY <1>1, <1>4, <1>5, <1>6, <1>7, <1>8, <1>9, <1>10, <1>11, <1>12, Zenon
\* Writing one cell of a table indexed by run and step.
LEMMA EffectType ==
    ASSUME StoreTypeOK, NEW r \in Runs, NEW n \in Steps, NEW st \in EffectState,
           eff' = [eff EXCEPT ![r][n] = st]
    PROVE  eff' \in [Runs -> [Steps -> EffectState \cup {"Absent"}]]
BY Zenon DEF StoreTypeOK

LEMMA TimerType ==
    ASSUME StoreTypeOK, NEW r \in Runs, NEW n \in Steps, NEW cell \in Timer,
           timer' = [timer EXCEPT ![r][n] = cell]
    PROVE  timer' \in [Runs -> [Steps -> Timer]]
BY Zenon DEF StoreTypeOK

LEMMA ApprovalType ==
    ASSUME StoreTypeOK, NEW r \in Runs, NEW n \in Steps, NEW cell \in Approval,
           appr' = [appr EXCEPT ![r][n] = cell]
    PROVE  appr' \in [Runs -> [Steps -> Approval]]
BY Zenon DEF StoreTypeOK

\* The turn the worker is at is one of the run's turns.
LEMMA CurrentTurn ==
    ASSUME TypeOK, ControlInv, pc \in {"call", "follow"}
    PROVE  /\ cur \in Runs
           /\ turn[cur] \in Seq(Turn)
           /\ Len(turn[cur]) \in 1..Len(turn[cur])
           /\ Len(turn[cur]) \in Steps
<1>1. cur \in Runs /\ turn[cur] \in Seq(Turn)
  BY Zenon DEF TypeOK
<1>2. Len(turn[cur]) \in Nat
  BY <1>1
<1> QED BY <1>1, <1>2, Bounds DEF ControlInv, Steps

\* The steps of a driven run and of its effects.
LEMMA TypeDrive ==
    ASSUME TypeOK, ControlInv,
           \/ IssueTurn \/ TurnFails \/ FollowUp \/ FollowUpFails
           \/ EffectsDone
           \/ \E d \in Decisions : AcceptDecision(d)
           \/ \E s \in Steps : Dispatch(s)
           \/ \E s \in Steps :
                \E to \in {"Committed", "Failed", "Prepared", "Unknown"} :
                    Reconcile(s, to)
           \/ \E to \in {"Committed", "Failed", "Dispatched"} : Answer(to)
    PROVE  TypeOK'
<1> USE DEF store
<1>0. WorkerTypeOK /\ StoreTypeOK /\ RestTypeOK
  BY TypeParts, Zenon
<1>1. ASSUME pc \in {"drive", "call", "follow", "effects"}, Done(cur)
      PROVE  WorkerTypeOK'
  <2>1. cur \in Runs
    BY <1>0, <1>1, Zenon DEF WorkerTypeOK
  <2> QED BY <1>0, <1>1, <2>1, DoneType, Zenon
<1>2. CASE IssueTurn
  <2>1. cur \in Runs /\ pc = "drive" /\ run[cur] \in Row
        /\ turn[cur] \in Seq(Turn)
    BY <1>0, <1>2, Zenon DEF IssueTurn, WorkerTypeOK, StoreTypeOK
  <2>2. CASE TurnEligible(run[cur].state)
    <3> DEFINE t == [st |-> "issued", rev |-> run[cur].rev + 1,
                     epoch |-> epoch]
    <3>1. t \in Turn
      <4>1. epoch \in 1..MaxEpoch
        BY <1>0, <2>1, Bounds DEF ControlInv, RestTypeOK
      <4>2. run[cur].rev + 1 \in Nat
        BY <2>1 DEF Row
      <4> QED BY <4>1, <4>2, Zenon DEF Turn
    <3>2. Append(turn[cur], t) \in Seq(Turn)
      BY <2>1, <3>1, AppendTurn, Zenon
    <3>3. turn' = [turn EXCEPT ![cur] = Append(turn[cur], t)]
      BY <1>2, <2>2, Zenon DEF IssueTurn
    <3>4. turn' \in [Runs -> Seq(Turn)]
      BY <1>0, <2>1, <3>2, <3>3, Zenon DEF StoreTypeOK
    <3>5. run' \in [Runs -> Row]
      <4>1. Moved(run[cur], "Running") \in Row
        BY <2>1, MovedRow, Zenon DEF RunState
      <4> QED BY <1>0, <1>2, <2>1, <2>2, <4>1, SetRowType, Zenon DEF IssueTurn
    <3>6. WorkerTypeOK'
      BY <1>0, <1>2, <2>2 DEF IssueTurn, WorkerTypeOK
    <3> HIDE DEF t
    <3> QED BY <1>0, <1>2, <3>4, <3>5, <3>6, TypeNext, Zenon
            DEF IssueTurn, StoreTypeOK, RestTypeOK
  <2>3. CASE ~TurnEligible(run[cur].state)
    BY <1>0, <1>1, <1>2, <2>3, TypeNext, Zenon DEF IssueTurn, StoreTypeOK, RestTypeOK
  <2> QED BY <2>2, <2>3, Zenon
<1>3. CASE TurnFails
  <2>1. faults' \in 0..MaxFaults
    BY <1>0, <1>3, Bounds DEF TurnFails, RestTypeOK
  <2> QED BY <1>0, <1>1, <1>3, <2>1, TypeNext, Zenon
          DEF TurnFails, StoreTypeOK, RestTypeOK
<1>4. ASSUME NEW d \in Decisions, AcceptDecision(d) PROVE TypeOK'
  <2> DEFINE n == Len(turn[cur])
  <2>1. /\ pc = "call" /\ cur \in Runs /\ run[cur] \in Row
        /\ turn[cur] \in Seq(Turn) /\ n \in 1..n /\ n \in Steps
    BY <1>0, <1>4, CurrentTurn, Zenon DEF AcceptDecision, StoreTypeOK
  <2>2. CASE run[cur].rev = turn[cur][n].rev
    <3>1. turn' \in [Runs -> Seq(Turn)]
      <4>1. [turn[cur] EXCEPT ![n].st = "accepted"] \in Seq(Turn)
        BY <2>1, AcceptTurn, Zenon
      <4>2. turn' = [turn EXCEPT ![cur] =
                        [turn[cur] EXCEPT ![n].st = "accepted"]]
        BY <1>4, <2>2, Zenon DEF AcceptDecision
      <4> QED BY <1>0, <2>1, <4>1, <4>2, Zenon DEF StoreTypeOK
    <3>2. eff' \in [Runs -> [Steps -> EffectState \cup {"Absent"}]]
      <4>1. eff' = eff \/ eff' = [eff EXCEPT ![cur][n] = "Prepared"]
        BY <1>4, <2>2, Zenon DEF AcceptDecision
      <4> HIDE DEF n
      <4>2. CASE eff' = [eff EXCEPT ![cur][n] = "Prepared"]
        BY <1>0, <2>1, <4>2, EffectType, Zenon DEF EffectState
      <4> QED BY <1>0, <4>1, <4>2, Zenon DEF StoreTypeOK
    <3>3. run' \in [Runs -> Row]
      <4>1. NextState(d) \in RunState
        BY KernelAssumption, Zenon DEF NextState, RunState
      <4>2. Moved(run[cur], NextState(d)) \in Row
        BY <2>1, <4>1, MovedRow, Zenon
      <4> QED BY <1>0, <1>4, <2>1, <2>2, <4>2, SetRowType, Zenon DEF AcceptDecision
    <3>4. WorkerTypeOK'
      BY <1>0, <1>4, <2>2 DEF AcceptDecision, WorkerTypeOK
    <3> QED BY <1>0, <1>4, <3>1, <3>2, <3>3, <3>4, TypeNext, Zenon
            DEF AcceptDecision, StoreTypeOK, RestTypeOK
  <2>3. CASE run[cur].rev # turn[cur][n].rev
    BY <1>0, <1>1, <1>4, <2>3, TypeNext, Zenon
       DEF AcceptDecision, StoreTypeOK, RestTypeOK
  <2> QED BY <2>2, <2>3, Zenon
<1>5. CASE FollowUp
  <2> DEFINE n == Len(turn[cur])
  <2>1. pc = "follow" /\ cur \in Runs /\ n \in Steps
    BY <1>5, CurrentTurn, Zenon DEF FollowUp
  <2>2. WorkerTypeOK'
    BY <1>1, <1>5, Zenon DEF FollowUp
  <2>3. run' \in [Runs -> Row]
    <3>1. UNCHANGED run \/ \E c \in Runs : SetRow(c, NewRow)
      BY <1>5, Zenon DEF FollowUp, Spawnable
    <3> QED BY <1>0, <3>1, SetRowType, FreshRow, Zenon DEF StoreTypeOK
  <2>4. timer' \in [Runs -> [Steps -> Timer]]
    <3> DEFINE cell == [timer[cur][n] EXCEPT !.st = "Scheduled"]
    <3>1. timer' = timer \/ timer' = [timer EXCEPT ![cur][n] = cell]
      BY <1>5, Zenon DEF FollowUp
    <3>2. timer[cur][n] \in Timer
      BY <1>0, <2>1, Zenon DEF StoreTypeOK
    <3>3. cell \in Timer
      BY <3>2, Zenon DEF Timer
    <3> HIDE DEF n, cell
    <3>4. CASE timer' = [timer EXCEPT ![cur][n] = cell]
      BY <1>0, <2>1, <3>3, <3>4, TimerType, Zenon
    <3> QED BY <1>0, <3>1, <3>4, Zenon DEF StoreTypeOK
  <2>5. appr' \in [Runs -> [Steps -> Approval]]
    <3> DEFINE cell == [appr[cur][n] EXCEPT !.resp = "pending"]
    <3>1. appr' = appr \/ appr' = [appr EXCEPT ![cur][n] = cell]
      BY <1>5, Zenon DEF FollowUp
    <3>2. appr[cur][n] \in Approval
      BY <1>0, <2>1, Zenon DEF StoreTypeOK
    <3>3. cell \in Approval
      BY <3>2, Zenon DEF Approval
    <3> HIDE DEF n, cell
    <3>4. CASE appr' = [appr EXCEPT ![cur][n] = cell]
      BY <1>0, <2>1, <3>3, <3>4, ApprovalType, Zenon
    <3> QED BY <1>0, <3>1, <3>4, Zenon DEF StoreTypeOK
  <2> QED BY <1>0, <1>5, <2>2, <2>3, <2>4, <2>5, TypeNext, Zenon
          DEF FollowUp, StoreTypeOK, RestTypeOK
<1>6. CASE FollowUpFails
  <2>1. faults' \in 0..MaxFaults
    BY <1>0, <1>6, Bounds DEF FollowUpFails, RestTypeOK
  <2> QED BY <1>0, <1>1, <1>6, <2>1, TypeNext, Zenon
          DEF FollowUpFails, StoreTypeOK, RestTypeOK
<1>7. CASE EffectsDone
  BY <1>0, <1>1, <1>7, TypeNext, Zenon DEF EffectsDone, StoreTypeOK, RestTypeOK
<1>8. pc = "effects" => cur \in Runs
  BY <1>0, Zenon DEF WorkerTypeOK
<1>9. ASSUME NEW n \in Steps, Dispatch(n) PROVE TypeOK'
  <2>1. WorkerTypeOK'
    BY <1>0, <1>9, Bounds DEF Dispatch, WorkerTypeOK, Steps
  <2> QED BY <1>0, <1>8, <1>9, <2>1, EffectType, TypeNext, Zenon
          DEF Dispatch, StoreTypeOK, RestTypeOK, EffectState
<1>10. ASSUME NEW n \in Steps, NextEffect(n) PROVE WorkerTypeOK'
  BY <1>0, <1>10, Bounds DEF NextEffect, WorkerTypeOK
<1>11. ASSUME NEW n \in Steps,
              NEW to \in {"Committed", "Failed", "Prepared", "Unknown"},
              Reconcile(n, to)
       PROVE  TypeOK'
  BY <1>0, <1>8, <1>10, <1>11, EffectType, TypeNext, Zenon
     DEF Reconcile, StoreTypeOK, RestTypeOK, EffectState
<1>12. ASSUME NEW to \in {"Committed", "Failed", "Dispatched"}, Answer(to)
       PROVE  TypeOK'
  <2>1. call \in Steps
    BY <1>0, <1>12, Bounds DEF Answer, WorkerTypeOK, Steps
  <2>2. faults' \in 0..MaxFaults
    BY <1>0, <1>12, Bounds DEF Answer, RestTypeOK
  <2> QED BY <1>0, <1>8, <1>10, <1>12, <2>1, <2>2, EffectType,
             TypeNext, Zenon
          DEF Answer, StoreTypeOK, RestTypeOK, EffectState
<1> QED
  BY <1>2, <1>3, <1>4, <1>5, <1>6, <1>7, <1>9, <1>11, <1>12, Zenon
\* Startup, crash and the timer worker.
LEMMA TypeDaemon ==
    ASSUME TypeOK, ControlInv,
           \/ Boot \/ Recover \/ Crash \/ WaitExpired \/ MarkFired
           \/ \E r \in Runs, s \in Steps : ClaimTimer(r, s)
    PROVE  TypeOK'
<1> USE DEF store, worker
<1>0. WorkerTypeOK /\ StoreTypeOK /\ RestTypeOK
  BY TypeParts, Zenon
<1>1. CASE Boot
  BY <1>1, Bounds DEF Boot, TypeOK
<1>2. CASE Recover
  <2> DEFINE d == [r \in Active |-> Classify(r, eff[r], epoch)]
  <2>1. CASE \E r \in Active : d[r] = "Unmapped"
    BY <1>2, <2>1, Zenon DEF Recover, TypeOK
  <2>2. CASE \A r \in Active : d[r] # "Unmapped"
    <3>1. \A r \in Active : d[r] \in RecoveryDisposition
      BY <2>2, ClassifyType, Zenon
    <3>2. run' = [r \in Runs |-> IF r \in Active
                                 THEN WithDisposition(run[r], d[r])
                                 ELSE run[r]]
      BY <1>2, <2>2, Zenon DEF Recover
    <3>3. \A r \in Active : run[r] \in Row
      BY <1>0, Zenon DEF StoreTypeOK, Active
    <3> HIDE DEF d
    <3>4. \A r \in Active : WithDisposition(run[r], d[r]) \in Row
      BY <3>1, <3>3, DispositionRow, Zenon
    <3>5. run' \in [Runs -> Row]
      BY <1>0, <3>2, <3>4, Zenon DEF StoreTypeOK
    <3>6. eff' \in [Runs -> [Steps -> EffectState \cup {"Absent"}]]
      <4>1. \E M \in [Runs -> [Steps -> BOOLEAN]] :
                eff' = [r \in Runs |-> [s \in Steps |->
                            IF M[r][s] THEN "Unknown" ELSE eff[r][s]]]
        <5> DEFINE M == [r \in Runs |-> [s \in Steps |->
                           /\ r \in Active
                           /\ Classify(r, eff[r], epoch) = "BlockedUnknownEffect"
                           /\ run[r].rec # Classify(r, eff[r], epoch)
                           /\ eff[r][s] = "Dispatched"
                           /\ DispatchedIsUnsafe(Contract)]]
        <5>1. eff' = [r \in Runs |-> [s \in Steps |->
                            IF M[r][s] THEN "Unknown" ELSE eff[r][s]]]
          BY <1>2, <2>2, Zenon DEF Recover, d
        <5>2. M \in [Runs -> [Steps -> BOOLEAN]]
          BY Zenon
        <5> QED BY <5>1, <5>2, Zenon
      <4> QED BY <1>0, <4>1 DEF StoreTypeOK, EffectState
    <3>7. WorkerTypeOK'
      BY <1>0, <1>2, <2>2, Zenon DEF Recover, WorkerTypeOK, d
    <3> QED BY <1>0, <1>2, <3>5, <3>6, <3>7, TypeNext, Zenon
            DEF Recover, StoreTypeOK, RestTypeOK
  <2> QED BY <2>1, <2>2, Zenon
<1>3. CASE Crash
  BY <1>3, Bounds, FreshRow DEF Crash, TypeOK, NoSched
<1>4. CASE WaitExpired
  <2> DEFINE r == sched.run
             n == sched.step
             cell == [timer[r][n] EXCEPT !.sent = TRUE]
  <2>1. r \in Runs /\ n \in Steps
    BY <1>4, Zenon DEF WaitExpired, ControlInv
  <2>2. timer' = [timer EXCEPT ![r][n] = cell]
    BY <1>4, Zenon DEF WaitExpired
  <2>3. timer[r][n] \in Timer /\ run[r] \in Row
    BY <1>0, <2>1, Zenon DEF StoreTypeOK
  <2>4. cell \in Timer
    BY <2>3, Zenon DEF Timer
  <2>5. UNCHANGED run \/ SetRow(r, Moved(run[r], "Running"))
    BY <1>4, Zenon DEF WaitExpired
  <2>6. Moved(run[r], "Running") \in Row
    BY <2>3, MovedRow, Zenon DEF RunState
  <2> HIDE DEF r, n, cell
  <2>7. timer' \in [Runs -> [Steps -> Timer]]
    BY <1>0, <2>1, <2>2, <2>4, TimerType, Zenon
  <2>8. run' \in [Runs -> Row]
    BY <1>0, <2>1, <2>5, <2>6, SetRowType, Zenon DEF StoreTypeOK
  <2> QED BY <1>0, <1>4, <2>7, <2>8, TypeNext, Zenon
          DEF WaitExpired, WorkerTypeOK, StoreTypeOK, RestTypeOK
<1>5. CASE MarkFired
  <2> DEFINE r == sched.run
             n == sched.step
             cell == [timer[r][n] EXCEPT !.st = "Fired"]
  <2>1. r \in Runs /\ n \in Steps
    BY <1>5, Zenon DEF MarkFired, ControlInv
  <2>2. timer' = [timer EXCEPT ![r][n] = cell]
    BY <1>5, Zenon DEF MarkFired
  <2>3. timer[r][n] \in Timer
    BY <1>0, <2>1, Zenon DEF StoreTypeOK
  <2>4. cell \in Timer
    BY <2>3, Zenon DEF Timer
  <2> HIDE DEF r, n, cell
  <2>5. timer' \in [Runs -> [Steps -> Timer]]
    BY <1>0, <2>1, <2>2, <2>4, TimerType, Zenon
  <2>6. RestTypeOK'
    BY <1>0, <1>5, Bounds DEF MarkFired, RestTypeOK, NoSched
  <2> QED BY <1>0, <1>5, <2>5, <2>6, TypeNext, Zenon
          DEF MarkFired, WorkerTypeOK, StoreTypeOK
<1>6. ASSUME NEW r \in Runs, NEW n \in Steps, ClaimTimer(r, n) PROVE TypeOK'
  <2> DEFINE cell == [timer[r][n] EXCEPT !.st = "Claimed", !.epoch = epoch]
  <2>1. timer' = [timer EXCEPT ![r][n] = cell]
    BY <1>6, Zenon DEF ClaimTimer
  <2>2. timer[r][n] \in Timer /\ epoch \in 0..MaxEpoch
    BY <1>0, Zenon DEF StoreTypeOK, RestTypeOK
  <2>3. cell \in Timer
    BY <2>2, Zenon DEF Timer
  <2> HIDE DEF cell
  <2>4. timer' \in [Runs -> [Steps -> Timer]]
    BY <1>0, <2>1, <2>3, TimerType, Zenon
  <2>5. RestTypeOK'
    <3>1. n \in 0..MaxStep
      BY Bounds DEF Steps
    <3>2. [run |-> r, step |-> n]
            \in [run : Runs \cup {NoRun}, step : 0..MaxStep]
      BY <3>1, Zenon
    <3>3. sched' = [run |-> r, step |-> n]
          /\ UNCHANGED <<epoch, obs, faults>>
      BY <1>6, Zenon DEF ClaimTimer
    <3> QED BY <1>0, <3>2, <3>3, Zenon DEF RestTypeOK
  <2> QED BY <1>0, <1>6, <2>4, <2>5, TypeNext, Zenon
          DEF ClaimTimer, WorkerTypeOK, StoreTypeOK
<1> QED BY <1>1, <1>2, <1>3, <1>4, <1>5, <1>6, Zenon

\* Clients and operators.
LEMMA TypeClient ==
    ASSUME TypeOK, NEW r \in Runs,
           \/ CreateRun(r) \/ ObserveParent(r) \/ CreateChild(r) \/ CancelRun(r)
           \/ \E s \in Steps :
                \/ ApprovalExpires(r, s) \/ CancelTimer(r, s)
                \/ \E d \in {"approve", "deny"} : Respond(r, s, d)
                \/ \E to \in {"Committed", "Failed"} : ResolveUnknown(r, s, to)
    PROVE  TypeOK'
<1> USE DEF store, worker
<1>0. /\ WorkerTypeOK /\ StoreTypeOK /\ RestTypeOK
      /\ run[r] \in Row
  BY TypeParts, Zenon DEF StoreTypeOK
<1>1. CASE CreateRun(r) \/ CreateChild(r)
  BY <1>0, <1>1, SetRowType, FreshRow, TypeNext, Zenon
     DEF CreateRun, CreateChild, WorkerTypeOK, StoreTypeOK, RestTypeOK
<1>2. CASE ObserveParent(r)
  <2>1. run[Parent[r]].cepoch \in 0..MaxCancel
    BY <1>0, <1>2, Zenon DEF ObserveParent, StoreTypeOK, Row
  <2>2. RestTypeOK'
    BY <1>0, <1>2, <2>1, Bounds DEF ObserveParent, RestTypeOK
  <2> QED BY <1>0, <1>2, <2>2, TypeNext, Zenon
          DEF ObserveParent, WorkerTypeOK, StoreTypeOK
<1>3. CASE CancelRun(r)
  <2> DEFINE advanced == [run[r] EXCEPT !.cepoch = @ + 1, !.rev = @ + 1]
  <2>1. advanced \in Row
    BY <1>0, <1>3, AdvancedRow, Zenon DEF CancelRun
  <2>2. run' = [x \in Runs |->
                  IF x = r THEN CancelledRow(advanced)
                  ELSE IF x \in Descendants(r) THEN CancelledRow(run[x])
                  ELSE run[x]]
    BY <1>3, Zenon DEF CancelRun
  <2>3. CancelledRow(advanced) \in Row
    BY <2>1, CancelRow, Zenon
  <2>4. \A x \in Runs : run[x] \in Row /\ CancelledRow(run[x]) \in Row
    BY <1>0, CancelRow, Zenon DEF StoreTypeOK
  <2> HIDE DEF advanced
  <2>5. run' \in [Runs -> Row]
    BY <2>2, <2>3, <2>4, Zenon
  <2> QED BY <1>0, <1>3, <2>5, TypeNext, Zenon
          DEF CancelRun, WorkerTypeOK, StoreTypeOK, RestTypeOK
<1>4. ASSUME NEW n \in Steps, NEW cell \in Approval,
             appr' = [appr EXCEPT ![r][n] = cell],
             UNCHANGED <<epoch, run, turn, eff, timer, obs, worker, sched,
                         faults>>
      PROVE  TypeOK'
  BY <1>0, <1>4, ApprovalType, TypeNext, Zenon
     DEF WorkerTypeOK, StoreTypeOK, RestTypeOK
<1>5. ASSUME NEW n \in Steps, ApprovalExpires(r, n) PROVE TypeOK'
  <2> DEFINE cell == [appr[r][n] EXCEPT !.expired = TRUE]
  <2>0. appr[r][n] \in Approval
    BY <1>0, Zenon DEF StoreTypeOK
  <2>1. cell \in Approval
    BY <2>0, Zenon DEF Approval
  <2>2. appr' = [appr EXCEPT ![r][n] = cell]
    BY <1>5, Zenon DEF ApprovalExpires
  <2> HIDE DEF cell
  <2> QED BY <1>4, <1>5, <2>1, <2>2, Zenon DEF ApprovalExpires
<1>6. ASSUME NEW n \in Steps, NEW d \in {"approve", "deny"}, Respond(r, n, d)
      PROVE  TypeOK'
  <2> DEFINE cell == [appr[r][n] EXCEPT !.resp = d]
  <2>0. appr[r][n] \in Approval
    BY <1>0, Zenon DEF StoreTypeOK
  <2>1. cell \in Approval
    BY <2>0, Zenon DEF Approval
  <2>2. appr' = [appr EXCEPT ![r][n] = cell]
    BY <1>6, Zenon DEF Respond
  <2> HIDE DEF cell
  <2> QED BY <1>4, <1>6, <2>1, <2>2, Zenon DEF Respond
<1>7. ASSUME NEW n \in Steps, CancelTimer(r, n) PROVE TypeOK'
  <2> DEFINE cell == [timer[r][n] EXCEPT !.st = "Cancelled"]
  <2>0. timer[r][n] \in Timer
    BY <1>0, Zenon DEF StoreTypeOK
  <2>1. cell \in Timer
    BY <2>0, Zenon DEF Timer
  <2>2. timer' = [timer EXCEPT ![r][n] = cell]
    BY <1>7, Zenon DEF CancelTimer
  <2> HIDE DEF cell
  <2>3. timer' \in [Runs -> [Steps -> Timer]]
    BY <1>0, <2>1, <2>2, TimerType, Zenon
  <2> QED BY <1>0, <1>7, <2>3, TypeNext, Zenon
          DEF CancelTimer, WorkerTypeOK, StoreTypeOK, RestTypeOK
<1>8. ASSUME NEW n \in Steps, NEW to \in {"Committed", "Failed"},
             ResolveUnknown(r, n, to)
      PROVE  TypeOK'
  <2> DEFINE d == Classify(r, eff'[r], epoch)
  <2>1. eff' \in [Runs -> [Steps -> EffectState \cup {"Absent"}]]
    BY <1>0, <1>8, EffectType, Zenon DEF ResolveUnknown, EffectState
  <2>2. run' \in [Runs -> Row]
    <3>1. \/ UNCHANGED run
          \/ d # "Unmapped" /\ SetRow(r, WithDisposition(run[r], d))
      BY <1>8, Zenon DEF ResolveUnknown
    <3>2. d \in RecoveryDisposition \cup {"Unmapped"}
      BY ClassifyType, Zenon
    <3> HIDE DEF d
    <3> QED BY <1>0, <3>1, <3>2, DispositionRow, SetRowType, Zenon DEF StoreTypeOK
  <2> QED BY <1>0, <1>8, <2>1, <2>2, TypeNext
          DEF ResolveUnknown, WorkerTypeOK, StoreTypeOK, RestTypeOK
<1> QED BY <1>1, <1>2, <1>3, <1>5, <1>6, <1>7, <1>8, Zenon

LEMMA TypeStep == TypeOK /\ ControlInv /\ [Next]_vars => TypeOK'
<1> SUFFICES ASSUME TypeOK, ControlInv, [Next]_vars PROVE TypeOK'
  BY Zenon
<1>1. CASE UNCHANGED vars
  BY <1>1, Zenon DEF vars, store, worker, TypeOK
<1> QED BY <1>1, TypeTick, TypeDrive, TypeDaemon, TypeClient, Zenon
        DEF Next, WorkerStep, TimerStep
-----------------------------------------------------------------------------
(* Every change of a row is one the transition table allows.               *)

LegalRow(old, new) ==
    /\ new.state # old.state => \/ old.state = "Absent" /\ new.state = "Created"
                                \/ Allows(old.state, new.state)
    /\ old.state # "Absent" /\ new # old => new.rev > old.rev

LEMMA LegalRows ==
    ASSUME \A r \in Runs : LegalRow(run[r], run'[r]) PROVE LegalStep
BY Zenon DEF LegalRow, LegalStep

LEMMA LegalSetRow ==
    ASSUME TypeOK, NEW r \in Runs, NEW row \in Row, SetRow(r, row),
           LegalRow(run[r], row)
    PROVE  LegalStep
<1>1. \A q \in Runs : LegalRow(run[q], run'[q])
  BY Zenon DEF SetRow, TypeOK, LegalRow
<1> QED BY <1>1, LegalRows, Zenon

\* A row moved along the table, or within its state.
LEMMA LegalMove ==
    ASSUME TypeOK, NEW r \in Runs, NEW row \in Row, SetRow(r, row),
           row.rev > run[r].rev,
           row.state = run[r].state \/ Allows(run[r].state, row.state)
    PROVE  LegalStep
BY LegalSetRow, Zenon DEF LegalRow

LEMMA LegalUnchanged == UNCHANGED run => LegalStep
BY Zenon DEF LegalStep

\* The rows a tick listed: the worker's CAS finds the row as it was listed.
LEMMA LegalTick ==
    ASSUME TypeOK, ControlInv,
           \E r \in Runs :
                \/ Bind(r) \/ Claim(r) \/ Reclaim(r) \/ Restake(r)
                \/ StepHuman(r) \/ FinalizeCancel(r) \/ StartDrive(r)
                \/ StartEffects(r) \/ Skip(r)
    PROVE  LegalStep
<1> PICK r \in Runs :
        \/ Bind(r) \/ Claim(r) \/ Reclaim(r) \/ Restake(r)
        \/ StepHuman(r) \/ FinalizeCancel(r) \/ StartDrive(r)
        \/ StartEffects(r) \/ Skip(r)
  BY Zenon
<1>0. run[r] \in Row /\ run[r].rev \in Nat /\ epoch \in 0..MaxEpoch
  BY Zenon DEF TypeOK, Row
<1> DEFINE M(s) == Moved(run[r], s)
<1>1. \A s \in RunState : /\ M(s) \in Row
                          /\ M(s).state = s
                          /\ M(s).rev > run[r].rev
  BY <1>0, MovedRow
<1>2. \A s \in RunState : [M(s) EXCEPT !.claim = epoch] \in Row
                          /\ [M(s) EXCEPT !.claim = epoch].state = s
                          /\ [M(s) EXCEPT !.claim = epoch].rev > run[r].rev
  BY <1>0, <1>1, ClaimedRow, Zenon
<1>3. ASSUME NEW s \in RunState, SetRow(r, M(s)),
             s = run[r].state \/ Allows(run[r].state, s)
      PROVE  LegalStep
  BY <1>1, <1>3, LegalMove, Zenon
<1>4. ASSUME NEW s \in RunState, SetRow(r, [M(s) EXCEPT !.claim = epoch]),
             s = run[r].state \/ Allows(run[r].state, s)
      PROVE  LegalStep
  BY <1>2, <1>4, LegalMove, Zenon
<1>5. CASE UNCHANGED run
  BY <1>5, LegalUnchanged, Zenon
<1>6. CASE Bind(r) /\ ~UNCHANGED run
  BY <1>3, <1>6, Zenon DEF Bind, Stepping, Unmoved, Allows, RunState
<1>7. CASE Claim(r) /\ ~UNCHANGED run
  BY <1>4, <1>7, Zenon DEF Claim, Allows, RunState
<1>8. CASE Reclaim(r) /\ ~UNCHANGED run
  <2> DEFINE row == [M("Running") EXCEPT !.claim = epoch, !.rec = "Normal"]
  <2>1. "Running" \in RunState /\ M("Running") \in Row
    BY <1>1, Zenon DEF RunState
  <2>2. row \in Row /\ row.state = "Running" /\ row.rev > run[r].rev
    BY <1>0, <1>1, <2>1, ReclaimedRow, Zenon
  <2>3. SetRow(r, row) /\ run[r].state = "Running"
    BY <1>8, Zenon DEF Reclaim, Stepping, Unmoved
  <2> HIDE DEF row
  <2> QED BY <2>2, <2>3, LegalMove, Zenon
<1>9. CASE Restake(r) /\ ~UNCHANGED run
  <2>1. run[r].state \in RunState
    BY <1>9, Zenon DEF Restake, Stepping, Waiting, Unmoved, RunState
  <2> QED BY <1>4, <1>9, <2>1, Zenon DEF Restake
<1>10. CASE StepHuman(r) /\ ~UNCHANGED run
  BY <1>3, <1>10, Zenon DEF StepHuman, Stepping, Unmoved, Allows, RunState
<1>11. CASE FinalizeCancel(r) /\ ~UNCHANGED run
  BY <1>3, <1>11, Zenon DEF FinalizeCancel, Allows, RunState
<1>12. CASE StartDrive(r) \/ StartEffects(r) \/ Skip(r)
  BY <1>5, <1>12, Zenon DEF StartDrive, StartEffects, Skip, store
<1> QED BY <1>5, <1>6, <1>7, <1>8, <1>9, <1>10, <1>11, <1>12, Zenon

\* A turn is issued only for a run that is past Ready, and a decision is applied
\* only to the Running row its turn left.
LEMMA LegalDrive ==
    ASSUME TypeOK, ControlInv,
           IssueTurn \/ FollowUp \/ \E d \in Decisions : AcceptDecision(d)
    PROVE  LegalStep
<1>0. /\ pc \in {"drive", "call", "follow"}
      /\ cur \in Runs /\ run[cur] \in Row /\ run[cur].rev \in Nat
      /\ run[cur].state \in RunState \cup {"Absent"}
  BY Zenon DEF IssueTurn, FollowUp, AcceptDecision, TypeOK, Row
<1>1. ASSUME NEW s \in RunState, SetRow(cur, Moved(run[cur], s)),
             s = run[cur].state \/ Allows(run[cur].state, s)
      PROVE  LegalStep
  <2>1. /\ Moved(run[cur], s) \in Row
        /\ Moved(run[cur], s).state = s
        /\ Moved(run[cur], s).rev > run[cur].rev
    BY <1>0, MovedRow
  <2> QED BY <1>0, <1>1, <2>1, LegalMove, Zenon
<1>2. CASE UNCHANGED run
  BY <1>2, LegalUnchanged, Zenon
<1>3. CASE IssueTurn /\ ~UNCHANGED run
  <2>1. TurnEligible(run[cur].state) /\ SetRow(cur, Moved(run[cur], "Running"))
    BY <1>3, Zenon DEF IssueTurn
  <2>2. Past(run[cur].state)
    BY <1>3, Zenon DEF IssueTurn, ControlInv, Driving
  <2>3. run[cur].state \in {"Running", "WaitingTool", "WaitingChild"}
    BY <1>0, <2>1, <2>2, Zenon DEF TurnEligible, Past, IsTerminal, RunState
  <2> QED BY <1>1, <2>1, <2>3, Zenon DEF Allows, RunState
<1>4. CASE FollowUp /\ ~UNCHANGED run
  <2>1. PICK c \in Runs : run[c].state = "Absent" /\ SetRow(c, NewRow)
    BY <1>4, Zenon DEF FollowUp, Spawnable
  <2> QED BY <2>1, FreshRow, LegalSetRow, Zenon DEF LegalRow
<1>5. ASSUME NEW d \in Decisions, AcceptDecision(d), ~UNCHANGED run
      PROVE  LegalStep
  <2>1. /\ SetRow(cur, Moved(run[cur], NextState(d)))
        /\ run[cur].rev = turn[cur][Len(turn[cur])].rev
    BY <1>5, Zenon DEF AcceptDecision
  <2>2. run[cur].state = "Running"
    BY <1>5, <2>1, Zenon DEF AcceptDecision, ControlInv, CallInv
  <2>3. NextState(d) \in RunState /\ Allows("Running", NextState(d))
    BY KernelAssumption, Zenon DEF NextState, RunState, Allows
  <2> QED BY <1>1, <2>1, <2>2, <2>3, Zenon
<1> QED BY <1>2, <1>3, <1>4, <1>5, Zenon

\* Recovery, timers, clients and operators.
LEMMA LegalOther ==
    ASSUME TypeOK, ControlInv,
           \/ Recover \/ WaitExpired
           \/ \E r \in Runs :
                \/ CreateRun(r) \/ CreateChild(r) \/ CancelRun(r)
                \/ \E s \in Steps : \E to \in {"Committed", "Failed"} :
                      ResolveUnknown(r, s, to)
    PROVE  LegalStep
<1>0. \A r \in Runs : run[r] \in Row /\ run[r].rev \in Nat
  BY Zenon DEF TypeOK, Row
<1>1. CASE UNCHANGED run
  BY <1>1, LegalUnchanged, Zenon
<1>2. ASSUME NEW r \in Runs, NEW d \in RecoveryDisposition
      PROVE  LegalRow(run[r], WithDisposition(run[r], d))
  BY <1>0, DispositionRow DEF LegalRow
<1>3. CASE Recover /\ ~UNCHANGED run
  <2> DEFINE d == [r \in Active |-> Classify(r, eff[r], epoch)]
  <2>1. \A r \in Active : d[r] # "Unmapped"
    BY <1>3, Zenon DEF Recover
  <2>2. \A r \in Active : d[r] \in RecoveryDisposition
    BY <2>1, ClassifyType, Zenon
  <2>3. run' = [r \in Runs |-> IF r \in Active
                               THEN WithDisposition(run[r], d[r])
                               ELSE run[r]]
    BY <1>3, <2>1, Zenon DEF Recover
  <2> HIDE DEF d
  <2>4. \A r \in Runs : LegalRow(run[r], run[r])
    BY Zenon DEF LegalRow
  <2> QED BY <1>2, <2>2, <2>3, <2>4, LegalRows, Zenon
<1>4. CASE WaitExpired /\ ~UNCHANGED run
  <2> DEFINE r == sched.run
  <2>1. r \in Runs
    BY <1>4, Zenon DEF WaitExpired, ControlInv
  <2>2. run[r].state = "WaitingTool" /\ SetRow(r, Moved(run[r], "Running"))
    BY <1>4, Zenon DEF WaitExpired
  <2> HIDE DEF r
  <2>3. /\ Moved(run[r], "Running") \in Row
        /\ Moved(run[r], "Running").state = "Running"
        /\ Moved(run[r], "Running").rev > run[r].rev
    BY <1>0, <2>1, MovedRow DEF RunState
  <2> QED BY <2>1, <2>2, <2>3, LegalMove, Zenon DEF Allows
<1>5. ASSUME NEW r \in Runs, CreateRun(r) \/ CreateChild(r) PROVE LegalStep
  BY <1>5, FreshRow, LegalSetRow, Zenon DEF CreateRun, CreateChild, LegalRow
<1>6. ASSUME NEW r \in Runs, CancelRun(r) PROVE LegalStep
  <2> DEFINE advanced == [run[r] EXCEPT !.cepoch = @ + 1, !.rev = @ + 1]
  <2>1. /\ advanced \in Row
        /\ advanced.state = run[r].state /\ advanced.rev = run[r].rev + 1
    BY <1>0, <1>6, AdvancedRow, Zenon DEF CancelRun
  <2>2. run' = [x \in Runs |->
                  IF x = r THEN CancelledRow(advanced)
                  ELSE IF x \in Descendants(r) THEN CancelledRow(run[x])
                  ELSE run[x]]
    BY <1>6, Zenon DEF CancelRun
  <2> HIDE DEF advanced
  <2>3. LegalRow(run[r], CancelledRow(advanced))
    BY <1>0, <2>1, CancelRow DEF LegalRow
  <2>4. \A x \in Runs : /\ LegalRow(run[x], CancelledRow(run[x]))
                        /\ LegalRow(run[x], run[x])
    BY <1>0, CancelRow DEF LegalRow
  <2> QED BY <2>2, <2>3, <2>4, LegalRows, Zenon
<1>7. ASSUME NEW r \in Runs, NEW n \in Steps, NEW to \in {"Committed", "Failed"},
             ResolveUnknown(r, n, to), ~UNCHANGED run
      PROVE  LegalStep
  <2> DEFINE d == Classify(r, eff'[r], epoch)
  <2>1. d # "Unmapped" /\ SetRow(r, WithDisposition(run[r], d))
    BY <1>7, Zenon DEF ResolveUnknown
  <2>2. d \in RecoveryDisposition
    BY <2>1, ClassifyType, Zenon
  <2> HIDE DEF d
  <2>3. WithDisposition(run[r], d) \in Row
    BY <1>0, <2>2, DispositionRow, Zenon
  <2> QED BY <1>2, <2>1, <2>2, <2>3, LegalSetRow, Zenon
<1> QED BY <1>1, <1>3, <1>4, <1>5, <1>6, <1>7, Zenon

LEMMA Legal == TypeOK /\ ControlInv /\ [Next]_vars => LegalStep
<1> SUFFICES ASSUME TypeOK, ControlInv, [Next]_vars PROVE LegalStep
  BY Zenon
<1>1. CASE \/ UNCHANGED vars \/ Boot \/ Crash \/ Tick \/ TurnFails
           \/ FollowUpFails \/ EffectsDone \/ MarkFired
           \/ \E s \in Steps : Dispatch(s)
           \/ \E s \in Steps :
                \E to \in {"Committed", "Failed", "Prepared", "Unknown"} :
                    Reconcile(s, to)
           \/ \E to \in {"Committed", "Failed", "Dispatched"} : Answer(to)
           \/ \E r \in Runs, s \in Steps : ClaimTimer(r, s)
           \/ \E r \in Runs : ObserveParent(r)
           \/ \E r \in Runs, s \in Steps :
                \/ ApprovalExpires(r, s) \/ CancelTimer(r, s)
                \/ \E d \in {"approve", "deny"} : Respond(r, s, d)
  BY <1>1, LegalUnchanged, Zenon
     DEF vars, store, Boot, Crash, Tick, TurnFails, FollowUpFails, EffectsDone,
         MarkFired, Dispatch, Reconcile, Answer, ClaimTimer, ObserveParent,
         ApprovalExpires, CancelTimer, Respond
<1> QED BY <1>1, LegalTick, LegalDrive, LegalOther, Zenon
        DEF Next, WorkerStep, TimerStep
-----------------------------------------------------------------------------
(* What the worker relies on between two transactions stays true.          *)

LEMMA PastStays ==
    ASSUME LegalStep, NEW r \in Runs, Past(run[r].state)
    PROVE  Past(run'[r].state)
BY Zenon DEF LegalStep, Past, Allows

\* The rows left of the tick stay past Ready once they were listed so.
LEMMA ListedPast ==
    ASSUME TypeOK, ControlInv, LegalStep, NEW r \in todo,
           snap[r].state \in {"Running"} \cup Waiting
    PROVE  Past(run'[r].state)
BY PastStays, Zenon DEF TypeOK, ControlInv

\* Whoever moves the row while the loop is called also moves its revision.
LEMMA CallStays ==
    ASSUME TypeOK, TypeOK', ControlInv, LegalStep, pc = "call",
           UNCHANGED <<turn, cur, epoch>>
    PROVE  CallInv'
<1>1. /\ cur \in Runs /\ CallInv /\ run[cur].state # "Absent"
      /\ turn[cur][Len(turn[cur])] \in Turn
  <2>1. cur \in Runs /\ CallInv /\ run[cur].state # "Absent"
    BY Zenon DEF TypeOK, ControlInv, Driving, Past
  <2> QED BY <2>1, CurrentTurn, ElementOfSeq, Zenon
<1>2. run'[cur] = run[cur] \/ run'[cur].rev > run[cur].rev
  BY <1>1, Zenon DEF LegalStep
<1>3. /\ run[cur].rev \in Nat /\ run'[cur].rev \in Nat
      /\ turn[cur][Len(turn[cur])].rev \in Nat
  BY <1>1, Zenon DEF TypeOK, Row, Turn
<1> QED BY <1>1, <1>2, <1>3 DEF CallInv

\* Steps of others, while the worker is anywhere.
LEMMA ControlStill ==
    ASSUME TypeOK, TypeOK', ControlInv, LegalStep,
           UNCHANGED <<epoch, turn, worker>>,
           sched' # NoSched => sched'.run \in Runs /\ sched'.step \in Steps
    PROVE  ControlInv'
<1> USE DEF worker
<1>1. pc' = "call" => CallInv'
  BY CallStays, Zenon
<1>2. \A r \in todo' : snap'[r].state \in {"Running"} \cup Waiting =>
                          Past(run'[r].state)
  BY ListedPast, Zenon
<1>3. pc' \in Driving => Past(run'[cur'].state)
  BY PastStays, Zenon DEF ControlInv, TypeOK, Driving
<1> QED BY <1>1, <1>2, <1>3, Zenon DEF ControlInv

\* The worker is through with a run.
LEMMA ControlDone ==
    ASSUME TypeOK, ControlInv, LegalStep, NEW r \in Runs, Done(r),
           pc # "down", UNCHANGED <<epoch, turn, sched>>
    PROVE  ControlInv'
<1>1. \A q \in todo' : q \in todo /\ snap'[q] = snap[q]
  BY Zenon DEF Done, TypeOK
<1>2. \A q \in todo' : snap'[q].state \in {"Running"} \cup Waiting =>
                          Past(run'[q].state)
  BY <1>1, ListedPast, Zenon
<1> QED BY <1>2, Zenon DEF Done, ControlInv, Driving

LEMMA ControlStep ==
    ASSUME TypeOK, TypeOK', ControlInv, LegalStep, [Next]_vars
    PROVE  ControlInv'
<1> USE DEF store, worker
<1>1. CASE Boot
  <2>1. epoch' > 0
    BY <1>1 DEF Boot, TypeOK
  <2> QED BY <1>1, <2>1, Zenon DEF Boot, ControlInv, Driving
<1>2. CASE Recover
  <2>1. \A r \in todo' : snap'[r].state \in {"Running"} \cup Waiting =>
                            Past(run'[r].state)
    BY <1>2, ListedPast, Zenon DEF Recover
  <2> QED BY <1>2, <2>1, Zenon DEF Recover, ControlInv, Driving
<1>3. CASE Crash
  BY <1>3, Zenon DEF Crash, ControlInv, Driving
<1>4. CASE Tick
  <2>1. \A r \in todo' : snap'[r] = run[r] /\ run'[r] = run[r]
    BY <1>4, Zenon DEF Tick, Active
  <2>2. \A s : s \in {"Running"} \cup Waiting => Past(s)
    BY Zenon DEF Waiting, Past
  <2> QED BY <1>4, <2>1, <2>2, Zenon DEF Tick, ControlInv, Driving
<1>5. ASSUME NEW r \in Runs,
             \/ Bind(r) \/ Claim(r) \/ Reclaim(r) \/ Restake(r)
             \/ StepHuman(r) \/ FinalizeCancel(r) \/ Skip(r)
      PROVE  ControlInv'
  <2>1. Done(r) /\ pc = "idle" /\ UNCHANGED <<epoch, turn, sched>>
    BY <1>5, Zenon DEF Bind, Claim, Reclaim, Restake, StepHuman, FinalizeCancel,
                Skip, Stepping
  <2> QED BY <2>1, ControlDone, Zenon
<1>6. ASSUME NEW r \in Runs, StartDrive(r) PROVE ControlInv'
  <2>1. r \in todo /\ snap[r].state \in {"Running"} \cup Waiting
    BY <1>6, Zenon DEF StartDrive, Drivable, Waiting
  <2>2. Past(run'[r].state)
    BY <2>1, ListedPast, Zenon
  <2>3. \A q \in todo : snap[q].state \in {"Running"} \cup Waiting =>
                            Past(run'[q].state)
    BY ListedPast, Zenon
  <2> QED BY <1>6, <2>2, <2>3, Zenon DEF StartDrive, ControlInv, Driving
<1>7. ASSUME NEW r \in Runs, StartEffects(r) PROVE ControlInv'
  <2>1. \A q \in todo : snap[q].state \in {"Running"} \cup Waiting =>
                            Past(run'[q].state)
    BY ListedPast, Zenon
  <2> QED BY <1>7, <2>1, Zenon DEF StartEffects, Stepping, ControlInv, Driving
<1>8. CASE IssueTurn
  <2>1. cur \in Runs /\ pc = "drive" /\ run[cur] \in Row
    BY <1>8, Zenon DEF IssueTurn, TypeOK
  <2>2. CASE ~TurnEligible(run[cur].state)
    BY <1>8, <2>1, <2>2, ControlDone, Zenon DEF IssueTurn
  <2>3. CASE TurnEligible(run[cur].state)
    <3> DEFINE t == [st |-> "issued", rev |-> run[cur].rev + 1,
                     epoch |-> epoch]
               n == Len(turn[cur])
    <3>1. turn' = [turn EXCEPT ![cur] = Append(turn[cur], t)]
      BY <1>8, <2>3, Zenon DEF IssueTurn
    <3>2. t \in Turn
      <4>1. epoch \in 1..MaxEpoch
        BY <2>1, Bounds DEF ControlInv, TypeOK
      <4>2. run[cur].rev + 1 \in Nat
        BY <2>1 DEF Row
      <4> QED BY <4>1, <4>2, Zenon DEF Turn
    <3>3. turn[cur] \in Seq(Turn) /\ turn'[cur] = Append(turn[cur], t)
      BY <2>1, <3>1, Zenon DEF TypeOK
    <3>4. n \in Nat /\ Len(turn'[cur]) = n + 1 /\ turn'[cur][n + 1] = t
      BY <3>2, <3>3, AppendTurn
    <3>5. n < MaxStep
      BY <2>1, Zenon DEF ControlInv
    <3>6. \A r \in Runs : Len(turn'[r]) <= MaxStep
      <4>1. \A r \in Runs \ {cur} : turn'[r] = turn[r]
        BY <3>1, Zenon DEF TypeOK
      <4> QED BY <3>4, <3>5, <4>1, Bounds DEF ControlInv
    <3>7. /\ run'[cur].rev = run[cur].rev + 1
          /\ run'[cur].state = "Running"
      <4>1. run[cur] \in Row /\ "Running" \in RunState
        BY <2>1, Zenon DEF TypeOK, RunState
      <4>2. run'[cur] = Moved(run[cur], "Running")
        BY <1>8, <2>1, <2>3, Zenon DEF IssueTurn, SetRow, TypeOK
      <4> QED BY <4>1, <4>2, MovedRow
    <3>8. cur' = cur /\ pc' = "call" /\ UNCHANGED <<epoch, sched, todo, snap>>
      BY <1>8, <2>3, Zenon DEF IssueTurn
    <3>9. CallInv'
      <4>1. run[cur].rev + 1 \in Nat
        BY <2>1 DEF Row
      <4> QED BY <3>4, <3>7, <3>8, <4>1 DEF CallInv
    <3>10. \A q \in todo : snap[q].state \in {"Running"} \cup Waiting =>
                              Past(run'[q].state)
      BY ListedPast, Zenon
    <3> HIDE DEF t, n
    <3> QED BY <2>1, <3>4, <3>6, <3>7, <3>8, <3>9, <3>10
            DEF ControlInv, Driving, Past
  <2> QED BY <2>2, <2>3, Zenon
<1>9. ASSUME NEW d \in Decisions, AcceptDecision(d) PROVE ControlInv'
  <2> DEFINE n == Len(turn[cur])
  <2>1. /\ pc = "call" /\ cur \in Runs
        /\ turn[cur] \in Seq(Turn) /\ n \in 1..n
    BY <1>9, CurrentTurn, Zenon DEF AcceptDecision
  <2>2. CASE run[cur].rev # turn[cur][n].rev
    BY <1>9, <2>1, <2>2, ControlDone, Zenon DEF AcceptDecision
  <2>3. CASE run[cur].rev = turn[cur][n].rev
    <3>1. turn' = [turn EXCEPT ![cur] =
                      [turn[cur] EXCEPT ![n].st = "accepted"]]
      BY <1>9, <2>3, Zenon DEF AcceptDecision
    <3>2. Len(turn'[cur]) = n /\ \A r \in Runs \ {cur} : turn'[r] = turn[r]
      BY <2>1, <3>1, AcceptTurn DEF TypeOK
    <3>3. pc' = "follow" /\ UNCHANGED <<cur, epoch, sched, todo, snap>>
      BY <1>9, <2>3, Zenon DEF AcceptDecision
    <3>4. Past(run'[cur].state)
      BY <2>1, PastStays, Zenon DEF ControlInv, Driving
    <3>5. \A q \in todo : snap[q].state \in {"Running"} \cup Waiting =>
                              Past(run'[q].state)
      BY ListedPast, Zenon
    <3>6. \A r \in Runs : Len(turn'[r]) <= MaxStep
      BY <2>1, <3>2 DEF ControlInv
    <3> QED BY <2>1, <3>2, <3>3, <3>4, <3>5, <3>6, Zenon DEF ControlInv, Driving
  <2> QED BY <2>2, <2>3, Zenon
<1>10. CASE TurnFails \/ FollowUp \/ FollowUpFails \/ EffectsDone
  <2>1. cur \in Runs /\ pc # "down" /\ Done(cur)
        /\ UNCHANGED <<epoch, turn, sched>>
    BY <1>10, Zenon DEF TurnFails, FollowUp, FollowUpFails, EffectsDone, TypeOK
  <2> QED BY <2>1, ControlDone, Zenon
<1>11. ASSUME pc = "effects", UNCHANGED <<epoch, turn, sched, pc, snap, todo>>
       PROVE  ControlInv'
  <2>1. \A q \in todo : snap[q].state \in {"Running"} \cup Waiting =>
                            Past(run'[q].state)
    BY ListedPast, Zenon
  <2> QED BY <1>11, <2>1, Zenon DEF ControlInv, Driving
<1>12. CASE \/ \E s \in Steps : Dispatch(s)
            \/ \E s \in Steps :
                 \E to \in {"Committed", "Failed", "Prepared", "Unknown"} :
                     Reconcile(s, to)
            \/ \E to \in {"Committed", "Failed", "Dispatched"} : Answer(to)
  BY <1>11, <1>12, Zenon DEF Dispatch, Reconcile, Answer, NextEffect
<1>13. CASE \/ UNCHANGED vars \/ WaitExpired
            \/ \E r \in Runs :
                 \/ CreateRun(r) \/ ObserveParent(r) \/ CreateChild(r)
                 \/ CancelRun(r)
                 \/ \E s \in Steps :
                      \/ ApprovalExpires(r, s) \/ CancelTimer(r, s)
                      \/ \E d \in {"approve", "deny"} : Respond(r, s, d)
                      \/ \E to \in {"Committed", "Failed"} :
                            ResolveUnknown(r, s, to)
  <2>1. UNCHANGED <<epoch, turn, worker, sched>>
    BY <1>13, Zenon DEF vars, WaitExpired, CreateRun, ObserveParent, CreateChild,
         CancelRun, ApprovalExpires, CancelTimer, Respond, ResolveUnknown
  <2> QED BY <2>1, ControlStill, Zenon DEF ControlInv
<1>14. CASE MarkFired
  BY <1>14, ControlStill, Zenon DEF MarkFired
<1>15. ASSUME NEW r \in Runs, NEW n \in Steps, ClaimTimer(r, n)
       PROVE  ControlInv'
  BY <1>15, ControlStill, Zenon DEF ClaimTimer
<1> QED
  BY <1>1, <1>2, <1>3, <1>4, <1>5, <1>6, <1>7, <1>8, <1>9, <1>10, <1>12,
     <1>13, <1>14, <1>15, Zenon DEF Next, WorkerStep, TimerStep

KernelInv == TypeOK /\ ControlInv

LEMMA KernelStep == KernelInv /\ [Next]_vars => KernelInv' /\ LegalStep
BY TypeStep, Legal, ControlStep, Zenon DEF KernelInv

LEMMA KernelAlways == Spec => []KernelInv
<1>1. Init => KernelInv
  BY KernelInit, Zenon DEF KernelInv
<1>2. KernelInv /\ [Next]_vars => KernelInv'
  BY KernelStep, Zenon
<1> QED BY <1>1, <1>2, PTL DEF Spec

\* Every reachable state of the kernel is well typed; in particular the worker
\* drives only runs of its tick, and every turn, timer, effect and approval
\* request it writes to is one that exists.
THEOREM TypeCorrect == Spec => []TypeOK
<1>1. KernelInv => TypeOK
  BY Zenon DEF KernelInv
<1> QED BY <1>1, KernelAlways, PTL

\* Whatever the interleaving of worker, timer worker, clients and crashes, the
\* table of state.rs is obeyed by the CAS writes that never consult it, no
\* terminal state is left, and every change of a row advances its revision.
THEOREM StepsLegal == Spec => RunStepsLegal
<1>1. KernelInv /\ [Next]_vars => [LegalStep]_vars
  BY KernelStep, Zenon
<1> QED BY <1>1, KernelAlways, PTL DEF Spec, RunStepsLegal
-----------------------------------------------------------------------------
(* Decisions are fenced, and effects belong to accepted decisions.         *)

\* Turns are issued by drive and accepted with a decision, and nowhere else.
LEMMA TurnWriters ==
    ASSUME [Next]_vars
    PROVE  UNCHANGED turn \/ IssueTurn \/ \E d \in Decisions : AcceptDecision(d)
BY Zenon DEF Next, WorkerStep, TimerStep, vars, store, Boot, Recover, Crash, Tick,
       TurnFails, FollowUp, FollowUpFails, EffectsDone, Bind, Claim, Reclaim,
       Restake, StepHuman, FinalizeCancel, StartDrive, StartEffects, Skip,
       Dispatch, Reconcile, Answer, WaitExpired, MarkFired, ClaimTimer,
       CreateRun, ObserveParent, CreateChild, CancelRun, ApprovalExpires,
       CancelTimer, Respond, ResolveUnknown

\* A turn issued to a run leaves the run's earlier turns as they are.
LEMMA IssuedTurn ==
    ASSUME TypeOK, ControlInv, IssueTurn
    PROVE  \A r \in Runs : \A s \in 1..Len(turn[r]) :
                s \in 1..Len(turn'[r]) /\ turn'[r][s] = turn[r][s]
<1> DEFINE t == [st |-> "issued", rev |-> run[cur].rev + 1, epoch |-> epoch]
<1>1. cur \in Runs /\ turn[cur] \in Seq(Turn) /\ run[cur] \in Row
  BY Zenon DEF IssueTurn, TypeOK
<1>2. CASE UNCHANGED turn
  BY <1>2, Zenon
<1>3. CASE turn' = [turn EXCEPT ![cur] = Append(turn[cur], t)]
  <2>1. t \in Turn
    <3>1. epoch \in 1..MaxEpoch
      BY Bounds DEF ControlInv, TypeOK, IssueTurn
    <3>2. run[cur].rev + 1 \in Nat
      BY <1>1 DEF Row
    <3> QED BY <3>1, <3>2, Zenon DEF Turn
  <2> HIDE DEF t
  <2>2. turn'[cur] = Append(turn[cur], t)
        /\ \A r \in Runs \ {cur} : turn'[r] = turn[r]
    BY <1>1, <1>3, Zenon DEF TypeOK
  <2>3. /\ Len(turn'[cur]) = Len(turn[cur]) + 1
        /\ Len(turn[cur]) \in Nat
        /\ \A s \in 1..Len(turn[cur]) : turn'[cur][s] = turn[cur][s]
    BY <1>1, <2>1, <2>2, AppendTurn
  <2>4. \A s \in 1..Len(turn[cur]) : s \in 1..Len(turn'[cur])
    BY <2>3
  <2> QED BY <2>2, <2>3, <2>4, Zenon
<1> QED BY <1>2, <1>3, Zenon DEF IssueTurn

\* An accepted decision marks the newest turn of the driven run.
LEMMA AcceptedTurn ==
    ASSUME TypeOK, ControlInv, NEW d \in Decisions, AcceptDecision(d),
           ~UNCHANGED turn
    PROVE  /\ cur \in Runs
           /\ run[cur].rev = turn[cur][Len(turn[cur])].rev
           /\ Len(turn[cur]) \in 1..Len(turn'[cur])
           /\ Len(turn[cur]) \in Steps
           /\ turn'[cur][Len(turn[cur])].st = "accepted"
           /\ \A r \in Runs : \A s \in 1..Len(turn[r]) :
                /\ s \in 1..Len(turn'[r])
                /\ \/ turn'[r][s] = turn[r][s]
                   \/ r = cur /\ s = Len(turn[cur])
<1> DEFINE n == Len(turn[cur])
<1>1. pc = "call"
  BY Zenon DEF AcceptDecision
<1>2. cur \in Runs /\ turn[cur] \in Seq(Turn) /\ n \in 1..n /\ n \in Steps
  BY <1>1, CurrentTurn, Zenon
<1>3. /\ run[cur].rev = turn[cur][n].rev
      /\ turn' = [turn EXCEPT ![cur] = [turn[cur] EXCEPT ![n].st = "accepted"]]
  BY Zenon DEF AcceptDecision
<1>4. turn'[cur] = [turn[cur] EXCEPT ![n].st = "accepted"]
      /\ \A r \in Runs \ {cur} : turn'[r] = turn[r]
  BY <1>2, <1>3, Zenon DEF TypeOK
<1>5. /\ Len(turn'[cur]) = n
      /\ turn'[cur][n].st = "accepted"
      /\ \A j \in 1..n \ {n} : turn'[cur][j] = turn[cur][j]
  BY <1>2, <1>4, AcceptTurn
<1> QED BY <1>2, <1>3, <1>4, <1>5, Zenon

LEMMA Fenced == KernelInv /\ [Next]_vars => FencedDecision
<1> SUFFICES ASSUME TypeOK, ControlInv, [Next]_vars,
                    NEW r \in Runs, NEW s \in 1..Len(turn[r]),
                    turn[r][s].st = "issued", turn'[r][s].st = "accepted"
             PROVE  /\ s = Len(turn[r])
                    /\ run[r].state = "Running"
                    /\ turn[r][s].epoch = epoch
  BY Zenon DEF KernelInv, FencedDecision
<1>1. CASE UNCHANGED turn
  BY <1>1, Zenon
<1>2. CASE IssueTurn
  BY <1>2, IssuedTurn, Zenon
<1>3. ASSUME NEW d \in Decisions, AcceptDecision(d), ~UNCHANGED turn
      PROVE  /\ s = Len(turn[r])
             /\ run[r].state = "Running"
             /\ turn[r][s].epoch = epoch
  <2>1. r = cur /\ s = Len(turn[cur])
    BY <1>3, AcceptedTurn, Zenon
  <2>2. run[cur].rev = turn[cur][Len(turn[cur])].rev /\ CallInv
    BY <1>3, AcceptedTurn, Zenon DEF AcceptDecision, ControlInv
  <2> QED BY <2>1, <2>2, Zenon DEF CallInv
<1> QED BY <1>1, <1>2, <1>3, TurnWriters, Zenon

\* A turn that was accepted stays accepted.
LEMMA AcceptedStays ==
    ASSUME TypeOK, ControlInv, [Next]_vars, NEW r \in Runs, NEW s \in Steps,
           s <= Len(turn[r]), turn[r][s].st = "accepted"
    PROVE  s <= Len(turn'[r]) /\ turn'[r][s].st = "accepted"
<1>1. s \in 1..Len(turn[r])
  BY DEF TypeOK, Steps
<1>2. CASE UNCHANGED turn
  BY <1>2, Zenon
<1>3. CASE IssueTurn
  BY <1>1, <1>3, IssuedTurn
<1>4. ASSUME NEW d \in Decisions, AcceptDecision(d), ~UNCHANGED turn
      PROVE  s <= Len(turn'[r]) /\ turn'[r][s].st = "accepted"
  BY <1>1, <1>4, AcceptedTurn
<1> QED BY <1>2, <1>3, <1>4, TurnWriters, Zenon

\* Steps that neither prepare nor erase an effect keep the invariant, as long as
\* the effect in execution stays the same or is done with.
LEMMA EffectQuiet ==
    ASSUME TypeOK, ControlInv, EffectInv, [Next]_vars,
           \A r \in Runs, s \in Steps :
                eff'[r][s] = "Absent" <=> eff[r][s] = "Absent",
           call' # 0 => UNCHANGED <<pc, cur, call>>
    PROVE  EffectInv'
<1>1. EffectsDecided'
  BY AcceptedStays DEF EffectInv, EffectsDecided
<1>2. ASSUME call' # 0 PROVE pc' = "effects" /\ eff'[cur'][call'] # "Absent"
  <2>1. pc = "effects" /\ eff[cur][call] # "Absent"
    BY <1>2, Zenon DEF EffectInv
  <2>2. cur \in Runs /\ call \in Steps
    BY <1>2, <2>1, Bounds DEF TypeOK, Steps
  <2> QED BY <1>2, <2>1, <2>2, Zenon
<1> QED BY <1>1, <1>2, Zenon DEF EffectInv

LEMMA EffectStep ==
    ASSUME TypeOK, ControlInv, EffectInv, [Next]_vars
    PROVE  EffectInv'
<1> USE DEF store, worker
<1>1. CASE UNCHANGED eff /\ (UNCHANGED <<pc, cur, call>> \/ call' = 0)
  BY <1>1, EffectQuiet, Zenon
<1>2. CASE Recover
  <2>1. call' = 0
    BY <1>2, Zenon DEF Recover, EffectInv
  <2>2. \A r \in Runs, s \in Steps :
            \/ eff'[r][s] = eff[r][s]
            \/ eff[r][s] = "Dispatched" /\ eff'[r][s] = "Unknown"
    <3> DEFINE M == [r \in Runs |-> [s \in Steps |->
                       /\ r \in Active
                       /\ Classify(r, eff[r], epoch) = "BlockedUnknownEffect"
                       /\ run[r].rec # Classify(r, eff[r], epoch)
                       /\ eff[r][s] = "Dispatched"
                       /\ DispatchedIsUnsafe(Contract)]]
    <3>1. \/ UNCHANGED eff
          \/ eff' = [r \in Runs |-> [s \in Steps |->
                        IF M[r][s] THEN "Unknown" ELSE eff[r][s]]]
      BY <1>2, Zenon DEF Recover
    <3>2. \A r \in Runs, s \in Steps : M[r][s] => eff[r][s] = "Dispatched"
      BY Zenon
    <3> HIDE DEF M
    <3> QED BY <3>1, <3>2
  <2> QED BY <2>1, <2>2, EffectQuiet, Zenon
<1>3. ASSUME NEW d \in Decisions, AcceptDecision(d) PROVE EffectInv'
  <2>1. call' = 0 /\ pc = "call"
    BY <1>3, Zenon DEF AcceptDecision, Done, EffectInv
  <2>2. CASE UNCHANGED eff
    BY <2>1, <2>2, EffectQuiet, Zenon
  <2>3. CASE ~UNCHANGED eff
    <3> DEFINE n == Len(turn[cur])
    <3>1. cur \in Runs /\ n \in Steps /\ turn[cur] \in Seq(Turn) /\ n \in 1..n
      BY <2>1, CurrentTurn, Zenon
    <3>2. /\ eff' = [eff EXCEPT ![cur][n] = "Prepared"]
          /\ turn' = [turn EXCEPT ![cur] =
                         [turn[cur] EXCEPT ![n].st = "accepted"]]
      BY <1>3, <2>3, Zenon DEF AcceptDecision
    <3>3. /\ turn'[cur] = [turn[cur] EXCEPT ![n].st = "accepted"]
      BY <3>1, <3>2, Zenon DEF TypeOK
    <3>4. Len(turn'[cur]) = n /\ turn'[cur][n].st = "accepted"
      BY <3>1, <3>3, AcceptTurn
    <3> HIDE DEF n
    <3>5. \A r \in Runs, s \in Steps :
              eff'[r][s] = eff[r][s] \/ (r = cur /\ s = n)
      BY <3>1, <3>2, Zenon DEF TypeOK
    <3>6. n <= Len(turn'[cur])
      BY <3>1, <3>4
    <3>7. EffectsDecided'
      BY <3>4, <3>5, <3>6, AcceptedStays, Zenon DEF EffectInv, EffectsDecided
    <3> QED BY <2>1, <3>7, Zenon DEF EffectInv
  <2> QED BY <2>2, <2>3, Zenon
<1>4. ASSUME pc = "effects", NEW n \in Steps, NEW st \in EffectState,
             eff[cur][n] # "Absent", eff' = [eff EXCEPT ![cur][n] = st]
      PROVE  /\ cur \in Runs
             /\ \A r \in Runs, s \in Steps :
                    eff'[r][s] = "Absent" <=> eff[r][s] = "Absent"
             /\ eff'[cur][n] # "Absent"
  BY <1>4, Zenon DEF TypeOK, EffectState
<1>5. ASSUME NEW n \in Steps, Dispatch(n) PROVE EffectInv'
  <2>1. /\ \A r \in Runs, s \in Steps :
                eff'[r][s] = "Absent" <=> eff[r][s] = "Absent"
        /\ eff'[cur][n] # "Absent"
    BY <1>4, <1>5, Zenon DEF Dispatch, EffectState
  <2>2. EffectsDecided'
    BY <2>1, AcceptedStays DEF EffectInv, EffectsDecided
  <2> QED BY <1>5, <2>1, <2>2, Zenon DEF Dispatch, EffectInv
<1>6. ASSUME NEW n \in Steps,
             NEW to \in {"Committed", "Failed", "Prepared", "Unknown"},
             Reconcile(n, to)
      PROVE  EffectInv'
  <2>1. /\ \A r \in Runs, s \in Steps :
                eff'[r][s] = "Absent" <=> eff[r][s] = "Absent"
    BY <1>4, <1>6, Zenon DEF Reconcile, EffectState
  <2> QED BY <1>6, <2>1, EffectQuiet, Zenon DEF Reconcile, NextEffect
<1>7. ASSUME NEW to \in {"Committed", "Failed", "Dispatched"}, Answer(to)
      PROVE  EffectInv'
  <2>1. call \in Steps /\ eff[cur][call] # "Absent"
    BY <1>7, Bounds DEF Answer, TypeOK, Steps, EffectInv
  <2>2. /\ \A r \in Runs, s \in Steps :
                eff'[r][s] = "Absent" <=> eff[r][s] = "Absent"
    BY <1>4, <1>7, <2>1, Zenon DEF Answer, EffectState
  <2> QED BY <1>7, <2>2, EffectQuiet, Zenon DEF Answer, NextEffect
<1>8. ASSUME NEW r \in Runs, NEW n \in Steps, NEW to \in {"Committed", "Failed"},
             ResolveUnknown(r, n, to)
      PROVE  EffectInv'
  <2>1. \A q \in Runs, s \in Steps :
            eff'[q][s] = "Absent" <=> eff[q][s] = "Absent"
    BY <1>8, Zenon DEF ResolveUnknown, TypeOK
  <2> QED BY <1>8, <2>1, EffectQuiet, Zenon DEF ResolveUnknown
<1>9. CASE UNCHANGED vars \/ Crash \/ WaitExpired \/ MarkFired
  BY <1>1, <1>9, Zenon DEF vars, Crash, WaitExpired, MarkFired
<1>10. CASE Boot \/ Tick \/ IssueTurn
  BY <1>1, <1>10, Zenon DEF Boot, Tick, IssueTurn, Done, EffectInv
<1>11. CASE TurnFails \/ FollowUp \/ FollowUpFails \/ EffectsDone
  BY <1>1, <1>11, Zenon DEF TurnFails, FollowUp, FollowUpFails, EffectsDone, Done
<1>12. ASSUME NEW r \in Runs,
              \/ Bind(r) \/ Claim(r) \/ Reclaim(r) \/ Restake(r)
              \/ StepHuman(r) \/ FinalizeCancel(r) \/ Skip(r)
       PROVE  EffectInv'
  <2>1. UNCHANGED eff /\ Done(r)
    BY <1>12, Zenon DEF Bind, Claim, Reclaim, Restake, StepHuman, FinalizeCancel, Skip
  <2> QED BY <1>1, <2>1, Zenon DEF Done
<1>13. ASSUME NEW r \in Runs, StartDrive(r) \/ StartEffects(r) PROVE EffectInv'
  <2>1. UNCHANGED eff /\ call' = 0
    BY <1>13, Zenon DEF StartDrive, StartEffects, Stepping, EffectInv
  <2> QED BY <1>1, <2>1, Zenon
<1>14. ASSUME NEW r \in Runs,
              \/ CreateRun(r) \/ ObserveParent(r) \/ CreateChild(r)
              \/ CancelRun(r)
       PROVE  EffectInv'
  BY <1>1, <1>14, Zenon DEF CreateRun, ObserveParent, CreateChild, CancelRun
<1>15. ASSUME NEW r \in Runs, NEW n \in Steps,
              \/ ClaimTimer(r, n) \/ ApprovalExpires(r, n) \/ CancelTimer(r, n)
              \/ \E d \in {"approve", "deny"} : Respond(r, n, d)
       PROVE  EffectInv'
  BY <1>1, <1>15, Zenon DEF ClaimTimer, ApprovalExpires, CancelTimer, Respond
<1> QED
  BY <1>2, <1>3, <1>5, <1>6, <1>7, <1>8, <1>9, <1>10, <1>11, <1>12, <1>13,
     <1>14, <1>15, Zenon DEF Next, WorkerStep, TimerStep

\* A decision is accepted only for the newest turn of a run still Running as the
\* turn left it, by the instance that issued it; and an effect exists exactly
\* when its turn was accepted, for any number of runs, turns and restarts.
THEOREM DecisionsAreFenced == Spec => DecisionsFenced
<1>1. KernelInv /\ [Next]_vars => [FencedDecision]_vars
  BY Fenced, Zenon
<1>2. KernelInv /\ EffectInv /\ [Next]_vars => EffectInv'
  BY EffectStep, Zenon DEF KernelInv
<1>3. Init => EffectInv
  BY KernelInit, Zenon
<1>4. EffectInv => EffectsDecided
  BY Zenon DEF EffectInv
<1> QED BY <1>1, <1>2, <1>3, <1>4, KernelAlways, PTL DEF Spec, DecisionsFenced
-----------------------------------------------------------------------------
(* The cancellation epoch fences spawns.                                   *)

\* No run is created and no run is named by a cancellation.
RowsKept ==
    \A r \in Runs : /\ run'[r].cepoch = run[r].cepoch
                    /\ run[r].state = "Absent" => run'[r].state = "Absent"

LEMMA KeptSetRow ==
    ASSUME TypeOK, NEW r \in Runs, NEW row \in Row, SetRow(r, row),
           row.cepoch = run[r].cepoch, run[r].state # "Absent"
    PROVE  RowsKept
BY Zenon DEF SetRow, TypeOK, RowsKept

LEMMA KeptMoved ==
    ASSUME TypeOK, NEW r \in Runs, NEW s \in RunState,
           SetRow(r, Moved(run[r], s)), run[r].state # "Absent"
    PROVE  RowsKept
<1>1. run[r] \in Row
  BY Zenon DEF TypeOK
<1>2. Moved(run[r], s) \in Row /\ Moved(run[r], s).cepoch = run[r].cepoch
  BY <1>1, MovedRow, Zenon
<1> QED BY <1>2, KeptSetRow, Zenon

LEMMA KeptClaimed ==
    ASSUME TypeOK, NEW r \in Runs, NEW s \in RunState,
           \/ SetRow(r, [Moved(run[r], s) EXCEPT !.claim = epoch])
           \/ SetRow(r, [Moved(run[r], s) EXCEPT !.claim = epoch,
                                                 !.rec = "Normal"]),
           run[r].state # "Absent"
    PROVE  RowsKept
<1> DEFINE m == Moved(run[r], s)
<1>1. run[r] \in Row /\ epoch \in 0..MaxEpoch
  BY Zenon DEF TypeOK
<1>2. m \in Row /\ m.cepoch = run[r].cepoch
  BY <1>1, MovedRow, Zenon
<1>3. CASE SetRow(r, [m EXCEPT !.claim = epoch])
  <2> HIDE DEF m
  <2>1. /\ [m EXCEPT !.claim = epoch] \in Row
        /\ [m EXCEPT !.claim = epoch].cepoch = run[r].cepoch
    BY <1>1, <1>2, ClaimedRow, Zenon
  <2> QED BY <1>3, <2>1, KeptSetRow, Zenon
<1>4. CASE SetRow(r, [m EXCEPT !.claim = epoch, !.rec = "Normal"])
  <2> HIDE DEF m
  <2>1. /\ [m EXCEPT !.claim = epoch, !.rec = "Normal"] \in Row
        /\ [m EXCEPT !.claim = epoch, !.rec = "Normal"].cepoch = run[r].cepoch
    BY <1>1, <1>2, ReclaimedRow, Zenon
  <2> QED BY <1>4, <2>1, KeptSetRow, Zenon
<1> QED BY <1>3, <1>4, Zenon

\* Only clients and spawning loops create runs; only CancelRun names one.
LEMMA RowsKeptUnless ==
    ASSUME TypeOK, ControlInv, [Next]_vars
    PROVE  \/ RowsKept
           \/ FollowUp
           \/ \E r \in Runs : CreateRun(r) \/ CreateChild(r) \/ CancelRun(r)
<1> USE DEF store
<1>1. CASE UNCHANGED run
  BY <1>1, Zenon DEF RowsKept
<1>2. ASSUME NEW r \in Runs, ~UNCHANGED run,
             \/ Bind(r) \/ Claim(r) \/ Reclaim(r) \/ Restake(r)
             \/ StepHuman(r) \/ FinalizeCancel(r) \/ StartDrive(r)
             \/ StartEffects(r) \/ Skip(r)
      PROVE  RowsKept
  <2>1. CASE Bind(r) \/ StepHuman(r) \/ FinalizeCancel(r)
    BY <1>2, <2>1, KeptMoved, Zenon
       DEF Bind, StepHuman, FinalizeCancel, Stepping, Unmoved, RunState
  <2>2. CASE Claim(r) \/ Reclaim(r)
    BY <1>2, <2>2, KeptClaimed, Zenon DEF Claim, Reclaim, Stepping, Unmoved, RunState
  <2>3. CASE Restake(r)
    <3>1. run[r].state \in RunState /\ run[r].state # "Absent"
      BY <1>2, <2>3, Zenon DEF Restake, Stepping, Waiting, Unmoved, RunState
    <3> QED BY <1>2, <2>3, <3>1, KeptClaimed, Zenon DEF Restake
  <2>4. CASE StartDrive(r) \/ StartEffects(r) \/ Skip(r)
    BY <1>2, <2>4, Zenon DEF StartDrive, StartEffects, Skip
  <2> QED BY <1>2, <2>1, <2>2, <2>3, <2>4, Zenon
<1>3. CASE IssueTurn /\ ~UNCHANGED run
  <2>1. cur \in Runs /\ run[cur].state # "Absent"
    BY <1>3, Zenon DEF IssueTurn, TypeOK, ControlInv, Driving, Past
  <2> QED BY <1>3, <2>1, KeptMoved, Zenon DEF IssueTurn, RunState
<1>4. ASSUME NEW d \in Decisions, AcceptDecision(d), ~UNCHANGED run
      PROVE  RowsKept
  <2>1. cur \in Runs /\ run[cur].state # "Absent"
    BY <1>4, Zenon DEF AcceptDecision, TypeOK, ControlInv, Driving, Past
  <2>2. NextState(d) \in RunState
    BY KernelAssumption, Zenon DEF NextState, RunState
  <2> QED BY <1>4, <2>1, <2>2, KeptMoved, Zenon DEF AcceptDecision
<1>5. CASE Recover /\ ~UNCHANGED run
  <2> DEFINE d == [r \in Active |-> Classify(r, eff[r], epoch)]
  <2>1. \A r \in Active : d[r] # "Unmapped"
    BY <1>5, Zenon DEF Recover
  <2>2. \A r \in Active : d[r] \in RecoveryDisposition
    BY <2>1, ClassifyType, Zenon
  <2>3. run' = [r \in Runs |-> IF r \in Active
                               THEN WithDisposition(run[r], d[r])
                               ELSE run[r]]
    BY <1>5, <2>1, Zenon DEF Recover
  <2> HIDE DEF d
  <2>4. \A r \in Active :
            /\ WithDisposition(run[r], d[r]).state = run[r].state
            /\ WithDisposition(run[r], d[r]).cepoch = run[r].cepoch
    BY <2>2, DispositionRow, Zenon DEF TypeOK, Active
  <2> QED BY <2>3, <2>4, Zenon DEF RowsKept
<1>6. CASE WaitExpired /\ ~UNCHANGED run
  <2>1. sched.run \in Runs
    BY <1>6, Zenon DEF WaitExpired, ControlInv
  <2> QED BY <1>6, <2>1, KeptMoved, Zenon DEF WaitExpired, RunState
<1>7. ASSUME NEW r \in Runs, NEW n \in Steps, NEW to \in {"Committed", "Failed"},
             ResolveUnknown(r, n, to), ~UNCHANGED run
      PROVE  RowsKept
  <2> DEFINE d == Classify(r, eff'[r], epoch)
  <2>1. d # "Unmapped" /\ SetRow(r, WithDisposition(run[r], d)) /\ r \in Active
    BY <1>7, Zenon DEF ResolveUnknown
  <2>2. d \in RecoveryDisposition /\ run[r] \in Row
    BY <2>1, ClassifyType, Zenon DEF TypeOK
  <2> HIDE DEF d
  <2> QED BY <2>1, <2>2, DispositionRow, KeptSetRow, Zenon DEF Active
<1>8. CASE \/ UNCHANGED vars \/ Boot \/ Crash \/ Tick \/ TurnFails
           \/ FollowUpFails \/ EffectsDone \/ MarkFired
           \/ \E s \in Steps : Dispatch(s)
           \/ \E s \in Steps :
                \E to \in {"Committed", "Failed", "Prepared", "Unknown"} :
                    Reconcile(s, to)
           \/ \E to \in {"Committed", "Failed", "Dispatched"} : Answer(to)
           \/ \E r \in Runs, s \in Steps : ClaimTimer(r, s)
           \/ \E r \in Runs : ObserveParent(r)
           \/ \E r \in Runs, s \in Steps :
                \/ ApprovalExpires(r, s) \/ CancelTimer(r, s)
                \/ \E d \in {"approve", "deny"} : Respond(r, s, d)
  BY <1>1, <1>8, Zenon
     DEF vars, Boot, Crash, Tick, TurnFails, FollowUpFails, EffectsDone,
         MarkFired, Dispatch, Reconcile, Answer, ClaimTimer, ObserveParent,
         ApprovalExpires, CancelTimer, Respond
<1> QED BY <1>1, <1>2, <1>3, <1>4, <1>5, <1>6, <1>7, <1>8, Zenon
        DEF Next, WorkerStep, TimerStep

\* A child that no cancellation of its parent may still miss.
Ended(s) == s = "Cancelling" \/ IsTerminal(s)

FencedChild(r, c) ==
    (c \in ClientRuns /\ obs[c] > run[r].cepoch) \/ Ended(run[c].state)

LEMMA SpawnFencedDef ==
    SpawnFenced <=> \A r \in Runs : run[r].cepoch > 0 =>
                        \A c \in Children(r) : FencedChild(r, c)
BY Zenon DEF SpawnFenced, FencedChild, Ended

LEMMA SpawnFencedNext ==
    (\A r \in Runs : run'[r].cepoch > 0 =>
        \A c \in Children(r)' : FencedChild(r, c)') => SpawnFenced'
BY Zenon DEF SpawnFenced, FencedChild, Ended

LEMMA EndedStays ==
    ASSUME LegalStep, NEW c \in Runs, Ended(run[c].state)
    PROVE  Ended(run'[c].state)
BY Zenon DEF LegalStep, Ended, IsTerminal, Allows

\* An existing child stays fenced while its parent's epoch and the epoch its
\* creator observed stay.
LEMMA FencedStays ==
    ASSUME LegalStep, SpawnInv, NEW r \in Runs, NEW c \in Children(r),
           run[r].cepoch > 0, run'[r].cepoch = run[r].cepoch, obs'[c] = obs[c]
    PROVE  FencedChild(r, c)'
<1>1. FencedChild(r, c) /\ c \in Runs
  BY SpawnFencedDef, Zenon DEF SpawnInv, Children
<1> QED BY <1>1, EndedStays, Zenon DEF FencedChild

\* A step of the worker, of recovery or of a timer: no child appears.
LEMMA SpawnKept ==
    ASSUME LegalStep, SpawnInv, RowsKept, UNCHANGED obs
    PROVE  SpawnInv'
<1>1. ASSUME NEW r \in Runs, run'[r].cepoch > 0, NEW c \in Children(r)'
      PROVE  FencedChild(r, c)'
  <2>1. c \in Children(r) /\ run[r].cepoch = run'[r].cepoch
    BY <1>1, Zenon DEF RowsKept, Children
  <2> QED BY <1>1, <2>1, FencedStays, Zenon
<1>2. SpawnFenced'
  BY <1>1, SpawnFencedNext, Zenon
<1> QED BY <1>2, Zenon DEF SpawnInv

\* A run is created: a child of a run whose epoch its creator knew.
LEMMA SpawnCreated ==
    ASSUME TypeOK, LegalStep, SpawnInv, UNCHANGED obs,
           NEW n \in Runs, run[n].state = "Absent", SetRow(n, NewRow),
           \/ Parent[n] \notin Runs
           \/ run[Parent[n]].cepoch = 0
           \/ n \in ClientRuns /\ obs[n] > run[Parent[n]].cepoch
    PROVE  SpawnInv'
<1>0. /\ run'[n] = NewRow
      /\ \A r \in Runs \ {n} : run'[r] = run[r]
  BY Zenon DEF SetRow, TypeOK
<1>1. ASSUME NEW r \in Runs, run'[r].cepoch > 0, NEW c \in Children(r)'
      PROVE  FencedChild(r, c)'
  <2>1. r # n /\ run'[r] = run[r]
    BY <1>0, <1>1, FreshRow
  <2>2. CASE c = n
    <3>1. Parent[n] = r
      BY <1>1, <2>2, Zenon DEF Children
    <3> QED BY <1>1, <2>1, <2>2, <3>1 DEF FencedChild
  <2>3. CASE c # n
    <3>1. c \in Children(r)
      BY <1>0, <1>1, <2>3, Zenon DEF Children
    <3> QED BY <1>1, <2>1, <3>1, FencedStays, Zenon
  <2> QED BY <2>2, <2>3, Zenon
<1>2. SpawnFenced'
  BY <1>1, SpawnFencedNext, Zenon
<1> QED BY <1>2, Zenon DEF SpawnInv

LEMMA ChildrenAreDescendants ==
    ASSUME NEW r, NEW c \in Children(r) PROVE c \in Descendants(r)
BY Zenon DEF Descendants, Children

LEMMA SpawnStep ==
    ASSUME TypeOK, ControlInv, LegalStep, SpawnInv, [Next]_vars
    PROVE  SpawnInv'
<1>1. CASE FollowUp
  <2>1. CASE UNCHANGED run
    <3>1. RowsKept
      BY <2>1, Zenon DEF RowsKept
    <3> QED BY <1>1, <3>1, SpawnKept, Zenon DEF FollowUp
  <2>2. CASE ~UNCHANGED run
    <3>1. PICK c \in Runs : /\ SetRow(c, NewRow) /\ run[c].state = "Absent"
                            /\ Parent[c] = cur /\ run[cur].cepoch = 0
      BY <1>1, <2>2, Zenon DEF FollowUp, EpochMatches, Spawnable
    <3> QED BY <1>1, <3>1, SpawnCreated, Zenon DEF FollowUp
  <2> QED BY <2>1, <2>2, Zenon
<1>2. ASSUME NEW r \in Runs, CreateRun(r) PROVE SpawnInv'
  BY <1>2, SpawnCreated, KernelAssumption, Zenon DEF CreateRun
<1>3. ASSUME NEW c \in Runs, CreateChild(c) PROVE SpawnInv'
  <2>1. /\ c \in ClientRuns /\ Parent[c] \in Runs
        /\ run[Parent[c]].cepoch = obs[c] - 1 /\ obs[c] \in Nat
    BY <1>3 DEF CreateChild, EpochMatches, SpawnInv, TypeOK
  <2>2. obs[c] > run[Parent[c]].cepoch
    BY <2>1
  <2> QED BY <1>3, <2>1, <2>2, SpawnCreated, Zenon DEF CreateChild
<1>4. ASSUME NEW n \in Runs, CancelRun(n) PROVE SpawnInv'
  <2> DEFINE advanced == [run[n] EXCEPT !.cepoch = @ + 1, !.rev = @ + 1]
  <2>1. run' = [x \in Runs |->
                  IF x = n THEN CancelledRow(advanced)
                  ELSE IF x \in Descendants(n) THEN CancelledRow(run[x])
                  ELSE run[x]]
        /\ UNCHANGED obs
    BY <1>4, Zenon DEF CancelRun
  <2>2. \A x \in Runs : run[x] \in Row
    BY Zenon DEF TypeOK
  <2>3. advanced \in Row /\ advanced.state = run[n].state
    BY <1>4, <2>2, AdvancedRow, Zenon DEF CancelRun
  <2> HIDE DEF advanced
  <2>4. \A x \in Runs \ {n} : run'[x].cepoch = run[x].cepoch
    BY <2>1, <2>2, CancelRow, Zenon
  <2>5. \A x \in Runs : run[x].state = "Absent" => run'[x].state = "Absent"
    <3>1. \A row \in Row : row.state = "Absent" => CancelledRow(row) = row
      BY Zenon DEF CancelledRow, CancellationTarget
    <3> QED BY <1>4, <2>1, <2>2, <3>1, Zenon DEF CancelRun
  <2>6. \A x \in Runs \ {n} : x \in Descendants(n) /\ run'[x].state # "Absent"
                                => Ended(run'[x].state)
    BY <2>1, <2>2, CancelRow, Zenon DEF Ended, IsTerminal
  <2>7. Ended(run'[n].state)
    BY <1>4, <2>1, <2>3, CancelRow, Zenon DEF CancelRun, Ended, IsTerminal
  <2>8. ASSUME NEW r \in Runs, run'[r].cepoch > 0, NEW c \in Children(r)'
        PROVE  FencedChild(r, c)'
    <3>1. c \in Children(r) /\ c \in Runs /\ run'[c].state # "Absent"
      BY <2>5, <2>8, Zenon DEF Children
    <3>2. CASE r = n
      BY <2>6, <2>7, <3>1, <3>2, ChildrenAreDescendants, Zenon DEF FencedChild
    <3>3. CASE r # n
      BY <2>1, <2>4, <2>8, <3>1, <3>3, FencedStays, Zenon
    <3> QED BY <3>2, <3>3, Zenon
  <2>9. SpawnFenced'
    BY <2>8, SpawnFencedNext, Zenon
  <2> QED BY <2>1, <2>9, Zenon DEF SpawnInv
<1>5. ASSUME NEW n \in Runs, ObserveParent(n) PROVE SpawnInv'
  <2>1. /\ UNCHANGED run /\ \A c \in Runs \ {n} : obs'[c] = obs[c]
        /\ run[n].state = "Absent" /\ n \in ClientRuns /\ Parent[n] \in Runs
    BY <1>5, Zenon DEF ObserveParent, TypeOK, store
  <2>2. ASSUME NEW r \in Runs, run'[r].cepoch > 0, NEW c \in Children(r)'
        PROVE  FencedChild(r, c)'
    <3>1. c \in Children(r) /\ c # n /\ c \in Runs
      BY <2>1, <2>2, Zenon DEF Children
    <3> QED BY <2>1, <2>2, <3>1, FencedStays, Zenon
  <2>3. SpawnFenced'
    BY <2>2, SpawnFencedNext, Zenon
  <2> QED BY <2>1, <2>3, Zenon DEF SpawnInv
<1>6. CASE RowsKept /\ UNCHANGED obs
  BY <1>6, SpawnKept, Zenon
<1>7. UNCHANGED obs \/ \E n \in Runs : ObserveParent(n)
  BY Zenon DEF Next, WorkerStep, TimerStep, vars, Boot, Recover, Crash, Tick,
         IssueTurn, AcceptDecision, TurnFails, FollowUp, FollowUpFails,
         EffectsDone, Bind, Claim, Reclaim, Restake, StepHuman, FinalizeCancel,
         StartDrive, StartEffects, Skip, Dispatch, Reconcile, Answer,
         WaitExpired, MarkFired, ClaimTimer, CreateRun, CreateChild, CancelRun,
         ApprovalExpires, CancelTimer, Respond, ResolveUnknown
<1> QED BY <1>1, <1>2, <1>3, <1>4, <1>5, <1>6, <1>7, RowsKeptUnless, Zenon

\* A run that a cancellation named has no live child, except one whose creator
\* observed the new epoch: in any tree of runs, a spawn decided or a parent
\* observed before the cancellation loses the race.
THEOREM SpawnsFenced == Spec => []SpawnFenced
<1>1. Init => SpawnInv
  BY KernelInit, Zenon
<1>2. KernelInv /\ SpawnInv /\ [Next]_vars => SpawnInv'
  BY SpawnStep, KernelStep, Zenon DEF KernelInv
<1>3. SpawnInv => SpawnFenced
  BY Zenon DEF SpawnInv
<1> QED BY <1>1, <1>2, <1>3, KernelAlways, PTL DEF Spec
=============================================================================
