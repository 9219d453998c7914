---------------------------- MODULE EffectTables ----------------------------
(***************************************************************************)
(* The effects crate's tables: effect states, the legal transition table   *)
(* and the two questions the kernel asks of an effect's contract.          *)
(***************************************************************************)

\* domain/src/effect.rs, enum EffectState (Unspecified is never persisted).
EffectState == {"Prepared", "Claimed", "Dispatched", "Acknowledged",
                "Committed", "Failed", "Cancelled", "Unknown"}

IdempotencySemantics ==
    {"NaturallyIdempotent", "IdempotencyKeySupported", "NotIdempotent",
     "UnknownIdempotency"}

ReconciliationSemantics ==
    {"StatusLookup", "ResultLookup", "DeterministicInspection", "Impossible",
     "UnknownReconciliation"}

\* The two axes of an EffectContract that decide recovery.
EffectContract == [idempotency : IdempotencySemantics,
                   reconciliation : ReconciliationSemantics]

\* effects/src/record.rs, can_transition.
CanTransition(from, to) ==
    \/ from = "Prepared" /\ to \in {"Claimed", "Cancelled"}
    \/ from = "Claimed" /\ to \in {"Claimed", "Dispatched", "Cancelled"}
    \/ /\ from = "Dispatched"
       /\ to \in {"Prepared", "Acknowledged", "Failed", "Cancelled", "Unknown"}
    \/ from = "Acknowledged" /\ to \in {"Committed", "Failed"}
    \/ from = "Unknown" /\ to \in {"Committed", "Failed", "Prepared"}

\* record.rs, is_terminal and is_in_flight.
IsSettled(s) == s \in {"Committed", "Failed", "Cancelled"}

IsInFlight(s) == s \in EffectState /\ ~IsSettled(s)

\* contract.rs, is_reconcilable and is_safely_redispatchable.
IsReconcilable(c) ==
    c.reconciliation \in {"StatusLookup", "ResultLookup",
                          "DeterministicInspection"}

IsSafelyRedispatchable(c) ==
    c.idempotency \in {"NaturallyIdempotent", "IdempotencyKeySupported"}

\* runtime/src/recovery.rs, dispatched_is_unsafe.
DispatchedIsUnsafe(c) ==
    /\ c.reconciliation \in {"Impossible", "UnknownReconciliation"}
    /\ c.idempotency \in {"NotIdempotent", "UnknownIdempotency"}
=============================================================================
