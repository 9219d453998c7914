---------------------------- MODULE MCRunKernel ----------------------------
(***************************************************************************)
(* Instances of RunKernel: a chain of three runs, each the parent of the   *)
(* next, and contracts for the effects.                                    *)
(***************************************************************************)
EXTENDS RunKernel

CONSTANTS a, b, c

ChainParent == [r \in Runs |-> CASE r = a -> NoRun
                                 [] r = b -> a
                                 [] OTHER -> b]

UnsafeContract == [idempotency |-> "NotIdempotent",
                   reconciliation |-> "Impossible"]
LookupContract == [idempotency |-> "IdempotencyKeySupported",
                   reconciliation |-> "StatusLookup"]

\* Bound: a behaviour goes on while there is one run that spawns nothing, or a
\* tree whose loops took two turns at most, without effects, waits or approvals,
\* and one fault.
OneOrTree ==
    \/ \A r \in Runs : IF Parent[r] = NoRun THEN run[r].state # "WaitingChild"
                       ELSE run[r].state = "Absent"
    \/ /\ \A r \in Runs :
              /\ Len(turn[r]) <= 2 /\ run[r].state \notin {"WaitingTool", "WaitingHuman"}
              /\ \A s \in Steps : /\ eff[r][s] = "Absent"
                                  /\ timer[r][s] = NoTimer
                                  /\ appr[r][s] = NoApproval
       /\ faults >= MaxFaults - 1
=============================================================================
