------------------------------ MODULE Approvals ------------------------------
(***************************************************************************)
(* Approval requests and their one response (approvals/src/lib.rs), and    *)
(* the command that settles an Unknown effect under one                    *)
(* (runtime/src/effect_recovery.rs).  Each handler is one store            *)
(* transaction; a handler that refuses changes nothing.  A request's row   *)
(* is immutable (trigger trg_approval_requests_update).                    *)
(*                                                                         *)
(* A digest is the record it is computed over: the framing is unambiguous  *)
(* and the hash is taken to be injective.  The clock does not run back.    *)
(***************************************************************************)
EXTENDS Permissions, WallClock

CONSTANTS
    RequestIds,     \* ids given by the caller or taken from the command
    Principals,
    Devices,
    Effect,         \* the effect whose outcome is unknown
    Run             \* the run it belongs to

VARIABLES
    requests,    \* approval_requests: id -> row
    responses,   \* approval_responses: id -> row
    staged,      \* approval events put in the outbox, in order
    effect       \* state of Effect

approvals == <<requests, responses, staged, effect>>
approvalVars == <<approvals, now>>

Resolve == <<"effect", "resolve_unknown">>
Resolutions == {"mark_succeeded", "mark_failed", "retry_accepting_duplicate_risk"}
RESOLVE_OPERATION(action) == <<"effect.resolve_unknown", action>>
Retry == RESOLVE_OPERATION("retry_accepting_duplicate_risk")
NoText == <<>>      \* an empty operation or target

-----------------------------------------------------------------------------
\* approval events
Asked(id) == <<"ApprovalRequested", id>>
Answered(id) == <<"ApprovalResolved", id>>

(* a table with a row added *)
With(table, id, row) == [i \in DOMAIN table \cup {id} |-> IF i = id THEN row ELSE table[i]]

(* the capabilities are sorted and deduplicated before they are hashed *)
canonical_digest(id, in) ==
    [id |-> id, principal |-> in.principal, run |-> in.run, operation |-> in.operation,
     target |-> in.target, capabilities |-> ToSet(in.capabilities), expires |-> in.expires, nonce |-> id]

(* from the stored columns: an absent target reads as the empty text *)
recompute_digest(id) ==
    LET row == requests[id]
        target == IF row.target = {} THEN NoText ELSE CHOOSE t \in row.target : TRUE
    IN  [id |-> id, principal |-> row.principal, run |-> row.run, operation |-> row.operation,
         target |-> target, capabilities |-> row.capabilities, expires |-> row.expires, nonce |-> id]

ApprovalsInit ==
    /\ requests = << >>
    /\ responses = << >>
    /\ staged = <<>>
    /\ effect = "Unknown"
    /\ now = 0

(* create_request: the row and its event, one transaction; ctx is the       *)
(* principal the command runs for                                          *)
create_request(ctx, id, in) ==
    /\ in.principal = ctx
    /\ in.operation # NoText
    /\ \A c \in ToSet(in.capabilities) : is_supported(c)
    /\ id \notin DOMAIN requests
    /\ requests' = With(requests, id,
          [principal |-> in.principal, run |-> in.run, operation |-> in.operation,
           target |-> {in.target} \ {NoText}, capabilities |-> ToSet(in.capabilities),
           expires |-> in.expires, digest |-> canonical_digest(id, in), state |-> "pending"])
    /\ staged' = Append(staged, Asked(id))
    /\ UNCHANGED <<responses, effect, now>>

(* a mutant: the request can be answered at the instant it expires *)
respond_Late(ctx, device, id, digest, decision) ==
    /\ id \in DOMAIN requests /\ id \notin DOMAIN responses
    /\ digest = recompute_digest(id)
    /\ now <= requests[id].expires
    /\ ctx = requests[id].principal
    /\ \E d \in device :
         responses' = With(responses, id, [digest |-> digest, decision |-> decision, device |-> d,
                                           responder |-> ctx, at |-> now])
    /\ staged' = Append(staged, Answered(id))
    /\ UNCHANGED <<requests, effect, now>>

(* respond: device is {} when the command names none *)
respond(ctx, device, id, digest, decision) ==
    /\ id \in DOMAIN requests
    /\ recompute_digest(id) = requests[id].digest
    /\ digest = recompute_digest(id)
    /\ now < requests[id].expires
    /\ id \notin DOMAIN responses
    /\ ctx = requests[id].principal
    /\ \E d \in device :
         responses' = With(responses, id, [digest |-> digest, decision |-> decision, device |-> d,
                                           responder |-> ctx, at |-> now])
    /\ staged' = Append(staged, Answered(id))
    /\ UNCHANGED <<requests, effect, now>>

(* a mutant: expiry is looked at before the response *)
is_satisfied_ExpiryFirst(id, expected) ==
    IF id \notin DOMAIN requests THEN "Unknown"
    ELSE IF expected # recompute_digest(id) THEN "Invalidated"
    ELSE IF now >= requests[id].expires THEN "Expired"
    ELSE IF id \in DOMAIN responses THEN responses[id].decision
    ELSE "Pending"

is_satisfied(id, expected) ==
    IF id \notin DOMAIN requests THEN "Unknown"
    ELSE IF recompute_digest(id) # requests[id].digest THEN "Internal"
    ELSE IF expected # recompute_digest(id) THEN "Invalidated"
    ELSE IF id \in DOMAIN responses
      THEN IF responses[id].digest # expected THEN "Invalidated" ELSE responses[id].decision
    ELSE IF now >= requests[id].expires THEN "Expired"
    ELSE "Pending"

-----------------------------------------------------------------------------
\* settling the effect

(* the chain seeded at boot: one unscoped grant that never lapses *)
seed_operator_chain ==
    [hops |-> <<[index |-> 0, grants |-> <<1>>, capabilities |-> <<Resolve>>]>>,
     rows |-> {[id |-> 1, capability |-> Resolve, scope |-> {}, expires |-> Forever]}]

(* the cited request is approved and names this resolution of this effect *)
verify_approval(action, id) ==
    /\ id \in DOMAIN requests
    /\ requests[id].state = "approved"
    /\ requests[id].operation = RESOLVE_OPERATION(action)
    /\ requests[id].run = {Run}
    /\ requests[id].target = {Effect}
    /\ requests[id].expires > now

authorize(action, id) ==
    LET decision == evaluate(seed_operator_chain.hops, seed_operator_chain.rows, {}, Resolve,
                             [kind |-> "none"], now).d
    IN  \/ decision = "Allow" /\ action # "retry_accepting_duplicate_risk"
        \/ decision # "Deny" /\ verify_approval(action, id)

(* a mutant: a confirmed success stays in the transient state *)
apply_resolution_Transient(action) ==
    CASE action = "mark_succeeded" -> "Acknowledged"
      [] action = "mark_failed" -> "Failed"
      [] action = "retry_accepting_duplicate_risk" -> "Prepared"

apply_resolution(action) ==
    CASE action = "mark_succeeded" -> "Committed"
      [] action = "mark_failed" -> "Failed"
      [] action = "retry_accepting_duplicate_risk" -> "Prepared"

ResolveUnknownEffect(action, id) ==
    /\ effect = "Unknown"
    /\ authorize(action, id)
    /\ effect' = apply_resolution(action)
    /\ UNCHANGED <<requests, responses, staged, now>>

Tick == Advance /\ UNCHANGED approvals

-----------------------------------------------------------------------------
Inputs ==
    [principal : Principals, run : {{}, {Run}}, operation : {NoText, Retry},
     target : {NoText, Effect}, capabilities : {<<Resolve, Resolve>>, <<<<"effect", "use">>>>},
     expires : 1..MaxTime]

ApprovalsNext ==
    \/ \E ctx \in Principals, id \in RequestIds, in \in Inputs : create_request(ctx, id, in)
    \/ \E ctx \in Principals, device \in {{}} \cup {{d} : d \in Devices}, id \in RequestIds,
          of \in RequestIds, decision \in {"approve", "deny"} :
         of \in DOMAIN requests /\ respond(ctx, device, id, requests[of].digest, decision)
    \/ \E action \in Resolutions, id \in RequestIds : ResolveUnknownEffect(action, id)
    \/ Tick

ApprovalsSpec == ApprovalsInit /\ [][ApprovalsNext]_approvalVars

-----------------------------------------------------------------------------
ApprovalsTypeOK ==
    /\ DOMAIN requests \subseteq RequestIds
    /\ DOMAIN responses \subseteq DOMAIN requests
    /\ effect \in {"Unknown", "Committed", "Failed", "Prepared"}
    /\ now \in 0..MaxTime

(* An outcome a waiting run may act on survives every step, whatever digest *)
(* it expects: that the request expires, that another one is answered; and *)
(* an expired request stays so (is_satisfied).                             *)
OutcomeKept ==
    \A id \in RequestIds, of \in DOMAIN requests :
        LET before == is_satisfied(id, requests[of].digest)
        IN  before \in {"approve", "deny", "Expired", "Invalidated", "Internal"} =>
              is_satisfied(id, requests[of].digest)' = before

(* Every response is by the request's own principal from a device, on its   *)
(* exact content and before it expired; every request and every response   *)
(* was announced once, the request first.                                  *)
AnswersBinding ==
    /\ \A id \in DOMAIN responses :
         /\ responses[id].responder = requests[id].principal
         /\ responses[id].digest = requests[id].digest
         /\ responses[id].at < requests[id].expires
    /\ IsInjective(staged)
    /\ ToSet(staged) = {Asked(id) : id \in DOMAIN requests}
                       \cup {Answered(id) : id \in DOMAIN responses}
    /\ \A i, j \in DOMAIN staged : \A id \in RequestIds :
         staged[i] = Answered(id) /\ staged[j] = Asked(id) => j < i

(* An outcome that a run may act on does not change afterwards, and every   *)
(* response answers exactly what was asked, by the one who was asked, in   *)
(* time, and was announced once after its request (approvals/src/lib.rs).  *)
OutcomeFinal == [][OutcomeKept /\ AnswersBinding']_approvalVars

(* What the comment on verify_approval says: a request that was approved,   *)
(* has not expired and names this resolution covers it.                    *)
ApprovalCounts ==
    \A id \in DOMAIN responses :
        /\ responses[id].decision = "approve"
        /\ requests[id].operation = Retry
        /\ requests[id].run = {Run}
        /\ requests[id].target = {Effect}
        /\ now < requests[id].expires
        => verify_approval("retry_accepting_duplicate_risk", id)
=============================================================================
