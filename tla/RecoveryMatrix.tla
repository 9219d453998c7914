--------------------------- MODULE RecoveryMatrix ---------------------------
(***************************************************************************)
(* runtime/src/recovery.rs: the startup classification of a run from its   *)
(* state and the states of its effects.                                    *)
(***************************************************************************)
EXTENDS Naturals, RunTables, EffectTables

EffectClass == {"None", "Prepared", "Claimed", "Acknowledged",
                "DispatchedSafe", "DispatchedUnsafe", "Unknown"}

\* The class of one effect; settled effects count as no effect.
ClassOf(state, contract) ==
    CASE state = "Dispatched" -> IF DispatchedIsUnsafe(contract)
                                 THEN "DispatchedUnsafe" ELSE "DispatchedSafe"
      [] state \in {"Prepared", "Claimed", "Acknowledged", "Unknown"} -> state
      [] OTHER -> "None"

\* EffectClass::precedence.
Precedence(class) ==
    CASE class = "None" -> 0
      [] class = "Prepared" -> 1
      [] class = "Acknowledged" -> 2
      [] class = "Claimed" -> 3
      [] class = "DispatchedSafe" -> 4
      [] class = "DispatchedUnsafe" -> 5
      [] class = "Unknown" -> 6

\* EffectClass::aggregate over the classes of a run's effects.
Aggregate(classes) ==
    CHOOSE c \in classes \cup {"None"} :
        \A d \in classes \cup {"None"} : Precedence(d) <= Precedence(c)

\* EffectClass::is_ordinary: Matrix D may override these rows.
IsOrdinary(class) == class \in {"None", "Prepared", "Claimed", "Acknowledged"}

\* matrix; "Unmapped" stands for None, which aborts startup.
Matrix(s, class) ==
    CASE s \in {"Created", "Ready"} /\ class = "None" -> "Normal"
      [] s = "Running" /\ class = "None" -> "Recovering"
      [] s \in {"WaitingTool", "WaitingChild", "WaitingHuman"} /\ class = "None"
            -> "Normal"
      [] /\ s = "Suspended"
         /\ class \in {"None", "Prepared", "Claimed", "Acknowledged",
                       "DispatchedSafe"}
            -> "RequiresHumanDecision"
      [] s \in {"Running", "WaitingTool"} /\ class = "Prepared" -> "Normal"
      [] /\ s \in {"Running", "WaitingTool", "Cancelling"}
         /\ class \in {"Claimed", "Acknowledged"}
            -> "Recovering"
      [] /\ s \in {"Running", "WaitingTool", "Cancelling"}
         /\ class = "DispatchedSafe"
            -> "NeedsReconciliation"
      [] /\ s \in {"Running", "WaitingTool", "Cancelling", "Suspended"}
         /\ class \in {"DispatchedUnsafe", "Unknown"}
            -> "BlockedUnknownEffect"
      [] s = "Cancelling" /\ class \in {"None", "Prepared"} -> "Recovering"
      [] OTHER -> "Unmapped"
=============================================================================
