------------------------------ MODULE StoreRows ------------------------------
(***************************************************************************)
(* The rows of the kernel store port (kernel-store/src/models.rs) and the  *)
(* vocabulary its two implementations share: module SqliteStore models     *)
(* kernel-store-sqlite, module MockStore the in-memory double of testkit.  *)
(*                                                                         *)
(* A store is a record of tables; a table is a function from the keys that *)
(* are present to rows.  A row keeps the columns that a constraint, an     *)
(* expectation, a patch or a query of either implementation reads.  Ids    *)
(* are numbers, Null is the absent id, token, time or epoch.  An operation *)
(* takes a store to the store it leaves and the answer it gives.           *)
(***************************************************************************)
EXTENDS Naturals, Sequences, FiniteSets, TLC, SequencesExt

CONSTANTS
    Keys,     \* ids the callers use: numbers from 1 on
    Missing   \* an id of which no row is ever inserted: another number

Null == 0
Refs == Keys \cup {Missing}
OptRefs == Refs \cup {Null}
Unknown == "unknown-literal"

RunStates == {"Ready", "Running", "Completed"}
TurnStates == {"issued", "accepted", "stale"}
DecisionTypes == {"Complete", "Fail", "Wait", "SpawnAgent", "InvokeEffect", "RequestApproval"}
ResponseDecisions == {"approve", "deny"}
ValidationStates == {"proposed", "validated", "rejected"}
TestStates == {"untested", "passed", "failed"}
InstanceStates == {"starting", "ready", "exited", "failed"}
ReportResults == {"pass", "fail"}
Conditions == {"completed_successfully", "any_terminal", "completed_or_cancelled"}

SessionRow == [created : Nat]
AgentSpecRow == [digest : Nat, body : Nat]
TaskRow == [session : OptRefs]
ResolvedEnvironmentRow == [run : Refs]
ResolvedBindingRow == [adapter : Nat]
RunGraphHeadRow == [revision : Nat]
RunDependencyRow ==
    [task : Refs, source : Refs, target : Refs, condition : Conditions, revision : Nat]
RunRow ==
    [task : Refs, parent : OptRefs, state : RunStates, revision : Nat,
     cancellation : Nat, environment : OptRefs, token : Nat]
WorkspaceRow == [parent : OptRefs]
WorkspaceLeaseRow ==
    [workspace : Refs, owner : Refs, mode : {"shared", "exclusive"}, epoch : Nat,
     enforcement : {"active", "revoked"}]
EffectRow ==
    [run : Refs, identity : Nat, step : Nat, state : {"Prepared", "Claimed", "Succeeded"},
     token : Nat, lease : Nat]
ReservationRow == [run : Refs, parent : OptRefs, state : {"reserved", "allocated"}, token : Nat]
TimerRow ==
    [run : OptRefs, due : Nat, state : {"scheduled", "claimed", "fired"}, version : Nat,
     owner : Nat]
LoopTurnRow == [run : Refs, state : TurnStates]
DecisionRow == [turn : Refs, type : DecisionTypes]
CapabilityGrantRow == [run : OptRefs, parent : OptRefs]
DelegationHopRow == [run : OptRefs]
ApprovalRequestRow == [digest : Nat, run : OptRefs]
ApprovalResponseRow == [decision : ResponseDecisions]
AdapterRegistrationRow == [conformance : {"untested", "passed", "failed"}]
AdapterInstanceRow == [registration : Refs, state : InstanceStates, heartbeat : Nat]
ConformanceReportRow == [result : ReportResults]
ArtifactRow == [uri : Nat, run : Refs, effect : OptRefs]
ConfigGenerationRow == [digest : Nat, validation : ValidationStates, test : TestStates]
ActiveConfigGenerationRow == [generation : Refs, revision : Nat]
IdempotencyRecordRow == [digest : Nat]
EventStreamHeadRow == [last : Nat]
OutboxEventRow == [stream : Nat, sequence : Nat, journal : BOOLEAN, live : BOOLEAN]

(* the row type of every table: what a read of it decodes to *)
RowOf ==
    [sessions |-> SessionRow, specs |-> AgentSpecRow, tasks |-> TaskRow,
     environments |-> ResolvedEnvironmentRow, bindings |-> ResolvedBindingRow,
     heads |-> RunGraphHeadRow, dependencies |-> RunDependencyRow, runs |-> RunRow,
     workspaces |-> WorkspaceRow, leases |-> WorkspaceLeaseRow, effects |-> EffectRow,
     reservations |-> ReservationRow, timers |-> TimerRow, turns |-> LoopTurnRow,
     decisions |-> DecisionRow, grants |-> CapabilityGrantRow, hops |-> DelegationHopRow,
     requests |-> ApprovalRequestRow, responses |-> ApprovalResponseRow,
     registrations |-> AdapterRegistrationRow, instances |-> AdapterInstanceRow,
     reports |-> ConformanceReportRow, artifacts |-> ArtifactRow,
     generations |-> ConfigGenerationRow, active |-> ActiveConfigGenerationRow,
     idempotency |-> IdempotencyRecordRow, streams |-> EventStreamHeadRow,
     outbox |-> OutboxEventRow]
Tables == DOMAIN RowOf
NoRows == [k \in {} |-> Null]
EmptyStore == [t \in Tables |-> NoRows]

-----------------------------------------------------------------------------
Has(db, t, k) == k \in DOMAIN db[t]
HasOpt(db, t, k) == k = Null \/ Has(db, t, k)
Put(db, t, k, row) == [db EXCEPT ![t] = (k :> row) @@ @]
Rows(db, t) == {db[t][k] : k \in DOMAIN db[t]}
Matching(db, t, P(_)) == {k \in DOMAIN db[t] : P(db[t][k])}

(* keys in the order of a rank, as an ORDER BY or a sort_by_key puts them *)
Ordered(K, Rank(_)) == SetToSortSeq(K, LAMBDA a, b : Rank(a) < Rank(b))

(* an answer: an error code, "Ok", or the value returned *)
Answer(db, r) == [db |-> db, r |-> r]
Precondition(ok) == IF ok THEN "Ok" ELSE "FailedPrecondition"
Unique(ok) == IF ok THEN "Ok" ELSE "Conflict"
Found(ok) == IF ok THEN "Ok" ELSE "NotFound"

(* the first check that fails decides; when none does the write happens *)
FirstFault(checks) ==
    LET faults == SelectSeq(checks, LAMBDA c : c # "Ok")
    IN  IF faults = <<>> THEN "Ok" ELSE Head(faults)
Then(db, check, next) == IF check = "Ok" THEN next ELSE Answer(db, check)
Write(db, checks, after) == Then(db, FirstFault(checks), Answer(after, "Ok"))

(* a conditional update: no row or a failed expectation is the answer "False" *)
Cas(db, t, k, Expected(_), Patched(_), Checks(_)) ==
    IF ~Has(db, t, k) \/ ~Expected(db[t][k])
      THEN Answer(db, "False")
      ELSE LET new == Patched(db[t][k])
           IN  Then(db, FirstFault(Checks(new)), Answer(Put(db, t, k, new), "True"))
NoChecks(row) == <<>>
=============================================================================
