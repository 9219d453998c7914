----------------------------- MODULE RunTables -----------------------------
(***************************************************************************)
(* The run state machine's tables: run states, the transition table the    *)
(* runtime crate calls normative, the cancellation target of each state    *)
(* and the dependency conditions of the run graph.  Constant operators     *)
(* only, so that every module of the project shares one copy.              *)
(***************************************************************************)

\* domain/src/run.rs, enum RunState (Unspecified is never persisted).
RunState == {"Created", "Ready", "Running", "WaitingTool", "WaitingChild",
             "WaitingHuman", "Suspended", "Cancelling",
             "Completed", "Failed", "Cancelled"}

\* RunState::is_terminal.
IsTerminal(s) == s \in {"Completed", "Failed", "Cancelled"}

\* RunState::cancellation_target; "None" when cancellation no longer applies.
CancellationTarget(s) ==
    CASE s \in {"Created", "Ready"} -> "Cancelled"
      [] s \in {"Running", "WaitingTool", "WaitingChild", "WaitingHuman",
                "Suspended"} -> "Cancelling"
      [] OTHER -> "None"

\* runtime/src/state.rs, allows.
Allows(from, to) ==
    \/ from = "Created" /\ to \in {"Ready", "Cancelled"}
    \/ from = "Ready" /\ to \in {"Running", "Cancelled"}
    \/ /\ from = "Running"
       /\ to \in {"WaitingTool", "WaitingChild", "WaitingHuman", "Suspended",
                  "Cancelling", "Completed", "Failed"}
    \/ /\ from \in {"WaitingTool", "WaitingChild", "WaitingHuman", "Suspended"}
       /\ to \in {"Running", "Cancelling", "Failed"}
    \/ from = "Cancelling" /\ to \in {"Cancelled", "Failed"}

\* run-graph/src/readiness.rs, condition_met.
DependencyCondition ==
    {"CompletedSuccessfully", "AnyTerminal", "CompletedOrCancelled"}

ConditionMet(condition, s) ==
    CASE condition = "CompletedSuccessfully" -> s = "Completed"
      [] condition = "AnyTerminal" -> IsTerminal(s)
      [] condition = "CompletedOrCancelled" -> s \in {"Completed", "Cancelled"}

\* domain/src/run.rs, enum RecoveryDisposition.
RecoveryDisposition ==
    {"Normal", "NeedsReconciliation", "Recovering", "BlockedUnknownEffect",
     "BlockedMissingResource", "RequiresHumanDecision"}
=============================================================================
