---------------------------- MODULE EffectWorker ----------------------------
(***************************************************************************)
(* The run worker executing the effects of one run in state WaitingTool:   *)
(* agentd/src/workers/runs.rs (step_waiting_tool, dispatch_effect,         *)
(* maybe_reconcile_effect) over the effects crate (claim, mark_dispatched, *)
(* acknowledge, commit, fail, reconcile_plan, apply_observed), the daemon  *)
(* fence, startup recovery of the run and ResolveUnknownEffect.            *)
(*                                                                         *)
(* A daemon instance is named by the fence epoch it acquired; instances    *)
(* crash, and a superseded instance may still run.  Every transaction is   *)
(* one step; an adapter call is several, so anything may happen between    *)
(* the commit of Dispatched, the call, its answer and the recording of it. *)
(*                                                                         *)
(* Several effects of one run may be in flight: a late Wait timer moves a  *)
(* WaitingTool run to Running without looking at its effects (see the      *)
(* RunWaitExpired handler), and the next decision may invoke another.      *)
(***************************************************************************)
EXTENDS Naturals, RecoveryMatrix

CONSTANTS
    Effects,        \* effect ids of the run
    Contract,       \* the contract each effect was prepared with
    RetryApproved,  \* effects whose retry is covered by an Approved request
    NoEffect,       \* not an effect id
    MaxEpoch,       \* bound: daemon boots
    MaxFaults       \* bound: lost, dropped or inconclusive provider calls

ASSUME WorkerAssumption ==
    /\ Contract \in [Effects -> EffectContract]
    /\ RetryApproved \subseteq Effects
    /\ NoEffect \notin Effects
    /\ MaxEpoch \in Nat
    /\ MaxFaults \in Nat

Epoch == 1..MaxEpoch

VARIABLES
    fence,      \* daemon_fence.epoch, 0 before the first boot
    est,        \* effects.state, "Absent" before the row exists
    token,      \* effects.executor_fencing_token
    owner,      \* effects.daemon_fencing_epoch; fixes executor_id as well
    lease,      \* whether effects.lease_expires_ms is in the future
    recovery,   \* runs.recovery of the owning run
    pc,         \* where each daemon instance is
    todo,       \* its snapshot of the in-flight effects left to step
    cur,        \* the effect its current call is about
    tok,        \* the fencing token of its current call
    ans,        \* the answer or observation its current call returned
    sent,       \* execute calls made to the provider (external)
    pending,    \* of those, the ones the provider may still execute
    result,     \* what the provider would report of the operation
    resolved,   \* effects an operator resolved
    faults      \* faults left

row == <<est, token, owner, lease>>
daemon == <<pc, todo, cur, tok, ans>>
provider == <<sent, pending, result>>
vars == <<fence, row, recovery, daemon, provider, resolved, faults>>

PC == {"down", "recovering", "idle", "step", "send", "await", "record",
       "observed"}
Calling == {"send", "await", "record", "observed"}
Seen == EffectState \cup {"Done"}
Result == {"none", "succeeded", "failed"}
Observation == {"not_found", "succeeded", "failed", "inconclusive"}

TypeOK ==
    /\ fence \in 0..MaxEpoch
    /\ est \in [Effects -> EffectState \cup {"Absent"}]
    /\ token \in [Effects -> Nat]
    /\ owner \in [Effects -> 0..MaxEpoch]
    /\ lease \in [Effects -> {"none", "live", "expired"}]
    /\ recovery \in RecoveryDisposition
    /\ pc \in [Epoch -> PC]
    /\ todo \in [Epoch -> [Effects -> Seen]]
    /\ cur \in [Epoch -> Effects \cup {NoEffect}]
    /\ tok \in [Epoch -> Nat]
    /\ ans \in [Epoch -> Observation \cup {"none"}]
    /\ sent \in [Effects -> Nat]
    /\ pending \in [Effects -> Nat]
    /\ result \in [Effects -> Result]
    /\ resolved \subseteq Effects
    /\ faults \in 0..MaxFaults
    /\ \A w \in Epoch : pc[w] \in Calling => cur[w] \in Effects

NothingTodo == [e \in Effects |-> "Done"]

Init ==
    /\ fence = 0
    /\ est = [e \in Effects |-> "Absent"]
    /\ token = [e \in Effects |-> 0]
    /\ owner = [e \in Effects |-> 0]
    /\ lease = [e \in Effects |-> "none"]
    /\ recovery = "Normal"
    /\ pc = [w \in Epoch |-> "down"]
    /\ todo = [w \in Epoch |-> NothingTodo]
    /\ cur = [w \in Epoch |-> NoEffect]
    /\ tok = [w \in Epoch |-> 0]
    /\ ans = [w \in Epoch |-> "none"]
    /\ sent = [e \in Effects |-> 0]
    /\ pending = [e \in Effects |-> 0]
    /\ result = [e \in Effects |-> "none"]
    /\ resolved = {}
    /\ faults = MaxFaults

-----------------------------------------------------------------------------
(* Daemon instances: boot, startup recovery, crash.                        *)

Serving(w) == pc[w] \notin {"down", "recovering"}

\* fence.rs claim: the next epoch is taken whatever the previous holder does.
\* The OS lock would keep a second instance out altogether; here a serving
\* instance may be superseded, so that the fence is what protects the rows.
\* Only startup recovery, which runs alone, relies on the lock.
Boot(w) ==
    /\ w = fence + 1
    /\ \A v \in Epoch : pc[v] # "recovering"
    /\ fence' = w
    /\ pc' = [pc EXCEPT ![w] = "recovering"]
    /\ UNCHANGED <<row, recovery, todo, cur, tok, ans, provider, resolved,
                   faults>>

\* Mutant: the run is looked up in the row of another waiting state.
Disposition_WrongRow(states) ==
    Matrix("WaitingChild",
           Aggregate({ClassOf(states[e], Contract[e]) : e \in Effects}))

\* classify of the run (in state WaitingTool) given the states of its effects.
Disposition(states) ==
    Matrix("WaitingTool",
           Aggregate({ClassOf(states[e], Contract[e]) : e \in Effects}))

UnsafeDispatched == {e \in Effects : /\ est[e] = "Dispatched"
                                     /\ DispatchedIsUnsafe(Contract[e])}

\* reconstruct: marking goes with a disposition that changed to blocked.
Recover(w) ==
    /\ pc[w] = "recovering"
    /\ LET d == Disposition(est)
           marked == IF d = "BlockedUnknownEffect" /\ d # recovery
                     THEN UnsafeDispatched ELSE {}
       IN /\ est' = [e \in Effects |->
                        IF e \in marked THEN "Unknown" ELSE est[e]]
          /\ recovery' = d
    /\ pc' = [pc EXCEPT ![w] = "idle"]
    /\ UNCHANGED <<fence, token, owner, lease, todo, cur, tok, ans, provider,
                   resolved, faults>>

\* The locals of a call go out of scope.
EndCall(w) ==
    /\ cur' = [cur EXCEPT ![w] = NoEffect]
    /\ tok' = [tok EXCEPT ![w] = 0]
    /\ ans' = [ans EXCEPT ![w] = "none"]

\* The process dies; only bounded boots may follow, so the last one stays up.
Crash(w) ==
    /\ pc[w] # "down"
    /\ w < MaxEpoch
    /\ pc' = [pc EXCEPT ![w] = "down"]
    /\ todo' = [todo EXCEPT ![w] = NothingTodo]
    /\ EndCall(w)
    /\ UNCHANGED <<fence, row, recovery, provider, resolved, faults>>

\* effects.lease_expires_ms (30 s after the claim) passes; only an
\* outstanding hand-off's lease is ever read.
LeaseExpires(e) ==
    /\ est[e] = "Dispatched"
    /\ lease[e] = "live"
    /\ lease' = [lease EXCEPT ![e] = "expired"]
    /\ UNCHANGED <<fence, est, token, owner, recovery, daemon, provider,
                   resolved, faults>>

-----------------------------------------------------------------------------
(* The worker's steps.                                                     *)

\* An accepted InvokeEffect decision prepared the effect (the run worker of
\* the serving instance accepts decisions, and steps effects, one at a time).
Prepare(w, e) ==
    /\ pc[w] = "idle"
    /\ fence = w
    /\ est[e] = "Absent"
    /\ est' = [est EXCEPT ![e] = "Prepared"]
    /\ UNCHANGED <<fence, token, owner, lease, recovery, daemon, provider,
                   resolved, faults>>

\* step_waiting_tool: any Unknown parks the run, otherwise the in-flight
\* effects are stepped from this snapshot.
Scan(w) ==
    /\ pc[w] = "idle"
    /\ \A e \in Effects : est[e] # "Unknown"
    /\ \E e \in Effects : IsInFlight(est[e])
    /\ todo' = [todo EXCEPT ![w] =
                  [e \in Effects |-> IF IsInFlight(est[e])
                                     THEN est[e] ELSE "Done"]]
    /\ pc' = [pc EXCEPT ![w] = "step"]
    /\ UNCHANGED <<fence, row, recovery, cur, tok, ans, provider, resolved,
                   faults>>

\* On to the next effect of the snapshot ...
Continue(w, e) ==
    /\ EndCall(w)
    /\ todo' = [todo EXCEPT ![w][e] = "Done"]
    /\ pc' = [pc EXCEPT ![w] = IF \E f \in Effects \ {e} : todo[w][f] # "Done"
                               THEN "step" ELSE "idle"]

\* ... or an error abandons the rest of it until the next tick.
Abandon(w) ==
    /\ EndCall(w)
    /\ todo' = [todo EXCEPT ![w] = NothingTodo]
    /\ pc' = [pc EXCEPT ![w] = "idle"]

\* effect_claims.rs claim.
Claimable(e) ==
    \/ est[e] = "Prepared"
    \/ est[e] = "Claimed" /\ lease[e] # "live"

\* Mutant: the claim commits in a transaction of its own.
DispatchTxn_ClaimOnly(w, e) ==
    /\ pc[w] = "step"
    /\ todo[w][e] \in {"Prepared", "Claimed"}
    /\ fence = w /\ Claimable(e)
    /\ est' = [est EXCEPT ![e] = "Claimed"]
    /\ token' = [token EXCEPT ![e] = @ + 1]
    /\ owner' = [owner EXCEPT ![e] = w]
    /\ lease' = [lease EXCEPT ![e] = "live"]
    /\ Continue(w, e)
    /\ UNCHANGED <<fence, recovery, provider, resolved, faults>>

\* Mutant: a claim does not take a fresh fencing token.
DispatchTxn_SameToken(w, e) ==
    /\ pc[w] = "step"
    /\ todo[w][e] \in {"Prepared", "Claimed"}
    /\ fence = w /\ Claimable(e)
    /\ est' = [est EXCEPT ![e] = "Dispatched"]
    /\ owner' = [owner EXCEPT ![e] = w]
    /\ lease' = [lease EXCEPT ![e] = "live"]
    /\ pc' = [pc EXCEPT ![w] = "send"]
    /\ cur' = [cur EXCEPT ![w] = e]
    /\ tok' = [tok EXCEPT ![w] = token[e]]
    /\ UNCHANGED <<fence, token, recovery, todo, ans, provider, resolved,
                   faults>>

\* dispatch_effect, first transaction: claim and mark_dispatched, committed
\* before the adapter is called.
DispatchTxn(w, e) ==
    /\ pc[w] = "step"
    /\ todo[w][e] \in {"Prepared", "Claimed"}
    /\ IF fence = w /\ Claimable(e)
       THEN /\ est' = [est EXCEPT ![e] = "Dispatched"]
            /\ token' = [token EXCEPT ![e] = @ + 1]
            /\ owner' = [owner EXCEPT ![e] = w]
            /\ lease' = [lease EXCEPT ![e] = "live"]
            /\ pc' = [pc EXCEPT ![w] = "send"]
            /\ cur' = [cur EXCEPT ![w] = e]
            /\ tok' = [tok EXCEPT ![w] = token[e] + 1]
            /\ UNCHANGED <<todo, ans>>
       ELSE /\ IF fence = w THEN Continue(w, e) ELSE Abandon(w)
            /\ UNCHANGED row
    /\ UNCHANGED <<fence, recovery, provider, resolved, faults>>

\* The adapter is spawned and called.
Send(w) ==
    /\ pc[w] = "send"
    /\ pc' = [pc EXCEPT ![w] = "await"]
    /\ sent' = [sent EXCEPT ![cur[w]] = @ + 1]
    /\ pending' = [pending EXCEPT ![cur[w]] = @ + 1]
    /\ UNCHANGED <<fence, row, recovery, todo, cur, tok, ans, result, resolved,
                   faults>>

\* The adapter could not be spawned, the call timed out or failed: the row is
\* left Dispatched.  An answer that does not decode abandons the scan as well.
LoseCall(w) ==
    /\ pc[w] \in {"send", "await"}
    /\ faults > 0
    /\ faults' = faults - 1
    /\ Continue(w, cur[w]) \/ (pc[w] = "await" /\ Abandon(w))
    /\ UNCHANGED <<fence, row, recovery, provider, resolved>>

\* A request the provider dropped is never answered: the call times out.
CallTimeout(w) ==
    /\ pc[w] = "await"
    /\ pending[cur[w]] = 0
    /\ result[cur[w]] = "none"
    /\ Continue(w, cur[w])
    /\ UNCHANGED <<fence, row, recovery, provider, resolved, faults>>

ReceiveAnswer(w) ==
    /\ pc[w] = "await"
    /\ result[cur[w]] # "none"
    /\ ans' = [ans EXCEPT ![w] = result[cur[w]]]
    /\ pc' = [pc EXCEPT ![w] = "record"]
    /\ UNCHANGED <<fence, row, recovery, todo, cur, tok, provider, resolved,
                   faults>>

\* executor.rs verify_executor, in a transaction fenced by begin_write.
HoldsClaim(w, e) ==
    /\ fence = w
    /\ owner[e] = w
    /\ token[e] = tok[w]
    /\ lease[e] = "live"

\* dispatch_effect, second transaction: acknowledge and commit, or fail.
RecordAnswer(w) ==
    /\ pc[w] = "record"
    /\ LET e == cur[w]
       IN IF est[e] = "Dispatched" /\ HoldsClaim(w, e)
          THEN /\ est' = [est EXCEPT ![e] = IF ans[w] = "succeeded"
                                            THEN "Committed" ELSE "Failed"]
               /\ Continue(w, e)
          ELSE Abandon(w) /\ UNCHANGED est
    /\ UNCHANGED <<fence, token, owner, lease, recovery, provider, resolved,
                   faults>>

Observed(e) == IF result[e] = "none" THEN "not_found" ELSE result[e]

\* maybe_reconcile_effect, the status call.  The row is this instance's own
\* (it is no longer calling) or another epoch's, so the early return on a
\* live foreign claim of this epoch never applies.
Probe(w, e) ==
    /\ pc[w] = "step"
    /\ todo[w][e] = "Dispatched"
    /\ pc' = [pc EXCEPT ![w] = "observed"]
    /\ cur' = [cur EXCEPT ![w] = e]
    /\ \/ /\ ans' = [ans EXCEPT ![w] = Observed(e)]
          /\ UNCHANGED faults
       \/ /\ faults > 0
          /\ faults' = faults - 1
          /\ ans' = [ans EXCEPT ![w] = "inconclusive"]
    /\ UNCHANGED <<fence, row, recovery, todo, tok, provider, resolved>>

\* The status call failed or returned an error: nothing is recorded.
ProbeUnreachable(w, e) ==
    /\ pc[w] = "step"
    /\ todo[w][e] = "Dispatched"
    /\ faults > 0
    /\ faults' = faults - 1
    /\ Continue(w, e)
    /\ UNCHANGED <<fence, row, recovery, provider, resolved>>

\* Mutants: not_found rearms whatever the contract says; not_found is taken
\* for a failure; not_found leaves the row as it is.
ReconciledState_RearmAlways(e, o) ==
    CASE o = "succeeded" -> "Committed"
      [] o = "failed" -> "Failed"
      [] o = "not_found" -> "Prepared"
      [] OTHER -> "Unknown"

ReconciledState_NotFoundFails(e, o) ==
    CASE o = "succeeded" -> "Committed"
      [] o \in {"failed", "not_found"} -> "Failed"
      [] OTHER -> "Unknown"

ReconciledState_NotFoundWaits(e, o) ==
    CASE o = "succeeded" -> "Committed"
      [] o = "failed" -> "Failed"
      [] o = "not_found" -> "Dispatched"
      [] OTHER -> "Unknown"

\* reconcile_plan followed by apply_observed's transitions.
ReconciledState(e, o) ==
    CASE o = "succeeded" -> "Committed"
      [] o = "failed" -> "Failed"
      [] o = "not_found" /\ IsSafelyRedispatchable(Contract[e]) -> "Prepared"
      [] OTHER -> "Unknown"

\* maybe_reconcile_effect, the transaction: a row no longer Dispatched is left.
ApplyObserved(w) ==
    /\ pc[w] = "observed"
    /\ LET e == cur[w]
       IN IF fence = w
          THEN /\ est' = IF est[e] = "Dispatched"
                         THEN [est EXCEPT ![e] = ReconciledState(e, ans[w])]
                         ELSE est
               /\ Continue(w, e)
          ELSE Abandon(w) /\ UNCHANGED est
    /\ UNCHANGED <<fence, token, owner, lease, recovery, provider, resolved,
                   faults>>

-----------------------------------------------------------------------------
(* The operator and the provider.                                          *)

\* Mutant: any in-flight effect may be resolved.
Resolve_AnyInFlight(w, e, to) ==
    /\ fence = w
    /\ Serving(w)
    /\ IsInFlight(est[e])
    /\ to = "Prepared" => e \in RetryApproved
    /\ est' = [est EXCEPT ![e] = to]
    /\ recovery' = Disposition(est')
    /\ resolved' = resolved \cup {e}
    /\ UNCHANGED <<fence, token, owner, lease, daemon, provider, faults>>

\* ResolveUnknownEffect: mark_succeeded, mark_failed or, with an approved
\* request, retry_accepting_duplicate_risk; the run is reclassified.
Resolve(w, e, to) ==
    /\ fence = w
    /\ Serving(w)
    /\ est[e] = "Unknown"
    /\ to = "Prepared" => e \in RetryApproved
    /\ est' = [est EXCEPT ![e] = to]
    /\ recovery' = Disposition(est')
    /\ resolved' = resolved \cup {e}
    /\ UNCHANGED <<fence, token, owner, lease, daemon, provider, faults>>

\* The provider executes a request; the operation's first outcome is the one
\* its operation id reports from then on.
ProviderExecutes(e, r) ==
    /\ pending[e] > 0
    /\ pending' = [pending EXCEPT ![e] = @ - 1]
    /\ result' = [result EXCEPT ![e] = IF @ = "none" THEN r ELSE @]
    /\ UNCHANGED <<fence, row, recovery, daemon, sent, resolved, faults>>

ProviderDrops(e) ==
    /\ pending[e] > 0
    /\ faults > 0
    /\ faults' = faults - 1
    /\ pending' = [pending EXCEPT ![e] = @ - 1]
    /\ UNCHANGED <<fence, row, recovery, daemon, sent, result, resolved>>

Next ==
    \/ \E w \in Epoch :
          \/ Boot(w) \/ Recover(w) \/ Crash(w)
          \/ Scan(w) \/ Send(w) \/ LoseCall(w) \/ CallTimeout(w)
          \/ ReceiveAnswer(w) \/ RecordAnswer(w) \/ ApplyObserved(w)
          \/ \E e \in Effects :
                \/ Prepare(w, e) \/ DispatchTxn(w, e)
                \/ Probe(w, e) \/ ProbeUnreachable(w, e)
                \/ \E to \in {"Committed", "Failed", "Prepared"} :
                      Resolve(w, e, to)
    \/ \E e \in Effects :
          \/ LeaseExpires(e)
          \/ \E r \in {"succeeded", "failed"} : ProviderExecutes(e, r)
          \/ ProviderDrops(e)

Spec == Init /\ [][Next]_vars

\* The daemon keeps ticking, an instance that is gone is restarted, and the
\* provider works through its requests.  Faults and crashes are bounded, which
\* is what the code relies on when it leaves a row for the next tick.
WorkerStep(w) ==
    \/ Recover(w) \/ Scan(w) \/ Send(w) \/ CallTimeout(w)
    \/ ReceiveAnswer(w) \/ RecordAnswer(w) \/ ApplyObserved(w)
    \/ \E e \in Effects : DispatchTxn(w, e) \/ Probe(w, e)

Fairness ==
    /\ \A w \in Epoch : WF_vars(WorkerStep(w)) /\ WF_vars(Boot(w))
    /\ \A e \in Effects :
          WF_vars(\E r \in {"succeeded", "failed"} : ProviderExecutes(e, r))

FairSpec == Spec /\ Fairness

-----------------------------------------------------------------------------
(* Properties.                                                             *)

OnceOnly(e) == ~IsSafelyRedispatchable(Contract[e]) /\ e \notin RetryApproved

\* An effect that is not safely redispatchable, and whose duplicate-risk retry
\* nobody approved, reaches the provider at most once, over any sequence of
\* crashes, superseded instances, lost answers, expired leases, probes and
\* operator resolutions (dispatch_effect commits Dispatched before the call,
\* reconcile_plan rearms only idempotent contracts).
AtMostOnce == \A e \in Effects : OnceOnly(e) => sent[e] <= 1

\* A settled effect tells the truth: unless an operator resolved it, Committed
\* means the provider performed the operation and Failed that it did not
\* (acknowledge/commit/fail after an answer, apply_observed after a probe).
SettledTruthfully ==
    \A e \in Effects \ resolved :
        /\ est[e] = "Committed" => result[e] = "succeeded"
        /\ est[e] = "Failed" => result[e] = "failed"

\* Claimed and Acknowledged exist only inside a transaction: no instance can
\* find them after a crash, because claim commits with mark_dispatched and
\* acknowledge with commit.  Nothing the daemon runs cancels an effect.
NoTransientDurable ==
    \A e \in Effects : est[e] \notin {"Claimed", "Acknowledged", "Cancelled"}

\* While an instance that still holds the fence awaits the answer of a call
\* and its lease is live, the row is its own Dispatched row under its token:
\* no scan, probe, recovery or resolution has touched it, so a timely answer
\* is always recorded (verify_executor succeeds).
TimelyAnswerRecorded ==
    \A w \in Epoch :
        fence = w /\ pc[w] \in {"send", "await", "record"} =>
            /\ est[cur[w]] = "Dispatched"
            /\ owner[cur[w]] = w
            /\ token[cur[w]] = tok[w]

\* The snapshot a worker steps from is still accurate when it is used, as long
\* as the worker holds the fence (step_waiting_tool lists once, then steps).
SnapshotFresh ==
    \A w \in Epoch : fence = w /\ pc[w] = "step" =>
        \A e \in Effects : todo[w][e] \in {"Done", est[e]}

\* The abstract effect lifecycle, with the fencing token as the number of
\* hand-offs.
Lifecycle == INSTANCE EffectLifecycle WITH dispatches <- token

LifecycleSpec == Lifecycle!Spec

\* With finitely many faults and crashes, a prepared effect is eventually
\* settled, unless some effect of the run is Unknown and parks it.
EffectsSettle ==
    \A e \in Effects :
        est[e] = "Prepared" ~> \/ IsSettled(est[e])
                              \/ \E f \in Effects : est[f] = "Unknown"

\* specs/effect-coordinator.md: an effect marked Unknown sets the owning run's
\* recovery disposition to BlockedUnknownEffect.
UnknownBlocksRun ==
    (\E w \in Epoch : fence = w /\ Serving(w)) =>
        ((\E e \in Effects : est[e] = "Unknown")
            => recovery = "BlockedUnknownEffect")
=============================================================================
