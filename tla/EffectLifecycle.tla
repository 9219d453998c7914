-------------------------- MODULE EffectLifecycle --------------------------
(***************************************************************************)
(* What the effects machinery promises of each effect, whoever executes    *)
(* it: an effect is prepared once, every hand-off to the outside world is  *)
(* recorded before it happens, a hand-off is repeated only when the        *)
(* contract makes the repetition harmless or an operator accepted the      *)
(* risk, and a settled effect never moves again.  The states of one effect *)
(* are the rows of `can_transition' in effects/src/record.rs that survive  *)
(* a transaction; EffectWorker is shown to implement this specification.   *)
(***************************************************************************)
EXTENDS Naturals, EffectTables

CONSTANTS
    Effects,        \* effect ids
    Contract,       \* the contract each effect was prepared with
    RetryApproved   \* effects whose duplicate-risk retry an operator approved

VARIABLES
    est,            \* effects.state, "Absent" before the row exists
    dispatches      \* effects.executor_fencing_token: hand-offs so far

lvars == <<est, dispatches>>

\* At most one hand-off is ever allowed.
OnceOnly(e) == ~IsSafelyRedispatchable(Contract[e]) /\ e \notin RetryApproved

Init ==
    /\ est = [e \in Effects |-> "Absent"]
    /\ dispatches = [e \in Effects |-> 0]

\* prepare_effect inserts the row.
Prepare(e) ==
    /\ est[e] = "Absent"
    /\ est' = [est EXCEPT ![e] = "Prepared"]
    /\ UNCHANGED dispatches

\* claim and mark_dispatched commit together.
Dispatch(e) ==
    /\ est[e] = "Prepared"
    /\ est' = [est EXCEPT ![e] = "Dispatched"]
    /\ dispatches' = [dispatches EXCEPT ![e] = @ + 1]

\* The outcome became known, from the answer or from a later probe.
Settle(e) ==
    /\ est[e] = "Dispatched"
    /\ \E s \in {"Committed", "Failed"} : est' = [est EXCEPT ![e] = s]
    /\ UNCHANGED dispatches

\* The outcome of some hand-offs cannot be established.
Park(S) ==
    /\ \A e \in S : est[e] = "Dispatched"
    /\ est' = [e \in Effects |-> IF e \in S THEN "Unknown" ELSE est[e]]
    /\ UNCHANGED dispatches

\* The provider never saw the operation and a repetition is harmless.
Rearm(e) ==
    /\ est[e] = "Dispatched"
    /\ IsSafelyRedispatchable(Contract[e])
    /\ est' = [est EXCEPT ![e] = "Prepared"]
    /\ UNCHANGED dispatches

\* ResolveUnknownEffect.
Resolve(e) ==
    /\ est[e] = "Unknown"
    /\ \E s \in {"Committed", "Failed", "Prepared"} :
          /\ s = "Prepared" => e \in RetryApproved
          /\ est' = [est EXCEPT ![e] = s]
    /\ UNCHANGED dispatches

Next ==
    \/ \E e \in Effects : \/ Prepare(e) \/ Dispatch(e) \/ Settle(e)
                          \/ Rearm(e) \/ Resolve(e)
    \/ \E S \in SUBSET Effects : Park(S)

Spec == Init /\ [][Next]_lvars
=============================================================================
