------------------------ MODULE ApprovalSecretProofs ------------------------
(***************************************************************************)
(* Proofs about Approvals and SecretBroker.  For any requests, principals, *)
(* devices and expiries, an outcome that a run may act on stands, and      *)
(* every response answers what was asked.  For any callers and failures of *)
(* the store every use of a secret is allowed and recorded, and what the   *)
(* keychain reports is whole.                                              *)
(***************************************************************************)
EXTENDS Approvals, SecretBroker, SequenceTheorems, TLAPS

-----------------------------------------------------------------------------
(* Approvals: the inductive invariant.                                     *)

Events == {Asked(id) : id \in RequestIds} \cup {Answered(id) : id \in RequestIds}

\* A request's digest is the one its columns give; only requests are answered.
RequestInv ==
    /\ DOMAIN requests \subseteq RequestIds /\ DOMAIN responses \subseteq DOMAIN requests
    /\ \A id \in DOMAIN requests : /\ recompute_digest(id) = requests[id].digest
                                   /\ requests[id].expires \in Int

ApprovalInv == now \in Nat /\ staged \in Seq(Events) /\ RequestInv /\ AnswersBinding

LEMMA ApprovalInvInit == ApprovalsInit => ApprovalInv
<1> SUFFICES ASSUME ApprovalsInit PROVE ApprovalInv
  OBVIOUS
<1>1. now = 0 /\ staged = <<>> /\ DOMAIN requests = {} /\ DOMAIN responses = {} /\ DOMAIN staged = {}
  BY DEF ApprovalsInit
<1>2. now \in Nat /\ staged \in Seq(Events)
  BY <1>1
<1>3. RequestInv
  BY <1>1 DEF RequestInv
<1>4. ToSet(staged) = {}
  BY <1>1 DEF ToSet
<1>5. AnswersBinding
  BY <1>1, <1>4 DEF AnswersBinding, IsInjective
<1> QED BY <1>2, <1>3, <1>5, Zenon DEF ApprovalInv

-----------------------------------------------------------------------------
(* The steps.                                                              *)

\* Events tell requests from answers, and the requests apart.
LEMMA EventsDiffer ==
    ASSUME NEW a, NEW b
    PROVE  /\ Asked(a) # Answered(b)
           /\ Asked(a) = Asked(b) <=> a = b
           /\ Answered(a) = Answered(b) <=> a = b
BY DEF Asked, Answered

\* What recompute_digest makes of a row.
RowDigest(id, row) ==
    LET target == IF row.target = {} THEN NoText ELSE CHOOSE t \in row.target : TRUE
    IN  [id |-> id, principal |-> row.principal, run |-> row.run, operation |-> row.operation,
         target |-> target, capabilities |-> row.capabilities, expires |-> row.expires, nonce |-> id]

LEMMA Recomputed ==
    ASSUME NEW id
    PROVE  /\ recompute_digest(id) = RowDigest(id, requests[id])
           /\ recompute_digest(id)' = RowDigest(id, requests'[id])
BY Zenon DEF recompute_digest, RowDigest

\* The digest of a row is that of the input the row was made from.
LEMMA DigestKept ==
    ASSUME NEW in, NEW id, NEW row,
           row = [principal |-> in.principal, run |-> in.run, operation |-> in.operation,
                  target |-> {in.target} \ {NoText}, capabilities |-> ToSet(in.capabilities),
                  expires |-> in.expires, digest |-> canonical_digest(id, in), state |-> "pending"]
    PROVE  /\ RowDigest(id, row) = row.digest
           /\ row.principal = in.principal /\ row.expires = in.expires
<1> DEFINE target == IF row.target = {} THEN NoText ELSE CHOOSE t \in row.target : TRUE
<1>1. /\ row.principal = in.principal /\ row.run = in.run /\ row.operation = in.operation
      /\ row.target = {in.target} \ {NoText} /\ row.capabilities = ToSet(in.capabilities)
      /\ row.expires = in.expires /\ row.digest = canonical_digest(id, in)
  OBVIOUS
<1>2. target = in.target
  <2>1. CASE in.target = NoText
    BY <1>1, <2>1, Zenon
  <2>2. CASE in.target # NoText
    <3>1. row.target = {in.target} /\ row.target # {}
      BY <1>1, <2>2, Zenon
    <3>2. (CHOOSE t \in row.target : TRUE) \in row.target
      BY <3>1, Zenon
    <3> QED BY <3>1, <3>2, Zenon
  <2> QED BY <2>1, <2>2
<1>3. RowDigest(id, row) =
        [id |-> id, principal |-> row.principal, run |-> row.run, operation |-> row.operation,
         target |-> target, capabilities |-> row.capabilities, expires |-> row.expires, nonce |-> id]
  BY Zenon DEF RowDigest
<1> HIDE DEF target
<1>4. RowDigest(id, row) = canonical_digest(id, in)
  BY <1>1, <1>2, <1>3, Zenon DEF canonical_digest
<1> QED BY <1>1, <1>4, Zenon

\* An event is announced for the first time.
LEMMA Announced ==
    ASSUME staged \in Seq(Events), NEW e \in Events, staged' = Append(staged, e),
           e \notin ToSet(staged), IsInjective(staged)
    PROVE  /\ staged' \in Seq(Events) /\ IsInjective(staged') /\ ToSet(staged') = ToSet(staged) \cup {e}
           /\ DOMAIN staged' = DOMAIN staged \cup {Len(staged) + 1} /\ staged'[Len(staged) + 1] = e
           /\ \A i \in DOMAIN staged : staged'[i] = staged[i] /\ i < Len(staged) + 1
<1>1. /\ staged' \in Seq(Events)
      /\ DOMAIN staged' = DOMAIN staged \cup {Len(staged) + 1} /\ staged'[Len(staged) + 1] = e
      /\ \A i \in DOMAIN staged : staged'[i] = staged[i] /\ i < Len(staged) + 1
  OBVIOUS
<1>2. \A x : x \in ToSet(staged') <=> x \in ToSet(staged) \cup {e}
  BY <1>1, Zenon DEF ToSet
<1>3. \A i \in DOMAIN staged : staged[i] # e
  BY Zenon DEF ToSet
<1>4. IsInjective(staged')
  <2> SUFFICES ASSUME NEW i \in DOMAIN staged', NEW j \in DOMAIN staged', staged'[i] = staged'[j]
               PROVE  i = j
    BY Zenon DEF IsInjective
  <2>1. CASE i \in DOMAIN staged /\ j \in DOMAIN staged
    BY <1>1, <2>1, Zenon DEF IsInjective
  <2>2. CASE ~(i \in DOMAIN staged /\ j \in DOMAIN staged)
    BY <1>1, <1>3, <2>2, Zenon
  <2> QED BY <2>1, <2>2
<1> QED BY <1>1, <1>2, <1>4

\* What a step never does: change a request or a response, answer a request that
\* has expired, or turn back the clock.
TablesKept ==
    /\ DOMAIN requests \subseteq DOMAIN requests' /\ DOMAIN responses \subseteq DOMAIN responses'
    /\ \A id \in DOMAIN requests : requests'[id] = requests[id]
    /\ \A id \in DOMAIN responses : responses'[id] = responses[id]
    /\ \A id \in DOMAIN responses' \ DOMAIN responses : now < requests[id].expires
    /\ now' \in Nat /\ now <= now'

LEMMA CreateStep ==
    ASSUME ApprovalInv, NEW ctx \in Principals, NEW id \in RequestIds, NEW in \in Inputs,
           create_request(ctx, id, in)
    PROVE  ApprovalInv' /\ TablesKept
<1> DEFINE row == [principal |-> in.principal, run |-> in.run, operation |-> in.operation,
                   target |-> {in.target} \ {NoText}, capabilities |-> ToSet(in.capabilities),
                   expires |-> in.expires, digest |-> canonical_digest(id, in), state |-> "pending"]
<1>1. /\ id \notin DOMAIN requests /\ requests' = With(requests, id, row)
      /\ staged' = Append(staged, Asked(id)) /\ UNCHANGED <<responses, effect, now>>
  BY Zenon DEF create_request
<1>2. RowDigest(id, row) = row.digest /\ row.expires = in.expires
  BY DigestKept, Zenon
<1>3. row.expires \in Int
  <2>1. in.expires \in 1..MaxTime
    BY DEF Inputs
  <2> QED BY <1>2, <2>1
<1> HIDE DEF row
<1>4. /\ DOMAIN requests' = DOMAIN requests \cup {id} /\ requests'[id] = row
      /\ \A i \in DOMAIN requests : requests'[i] = requests[i]
  <2>1. /\ DOMAIN With(requests, id, row) = DOMAIN requests \cup {id}
        /\ With(requests, id, row)[id] = row
        /\ \A i \in DOMAIN requests : i # id => With(requests, id, row)[i] = requests[i]
    BY DEF With
  <2> QED BY <1>1, <2>1, Zenon
<1>5. now \in Nat /\ now <= now
  BY DEF ApprovalInv
<1>6. TablesKept
  BY <1>1, <1>4, <1>5, Zenon DEF TablesKept
<1>7. RequestInv'
  <2>1. \A i \in DOMAIN requests' : recompute_digest(i)' = requests'[i].digest
    <3> SUFFICES ASSUME NEW i \in DOMAIN requests' PROVE recompute_digest(i)' = requests'[i].digest
      BY Zenon
    <3>1. recompute_digest(i)' = RowDigest(i, requests'[i])
      BY Recomputed, Zenon
    <3>2. CASE i = id
      BY <1>2, <1>4, <3>1, <3>2, Zenon
    <3>3. CASE i \in DOMAIN requests
      <4>1. recompute_digest(i) = RowDigest(i, requests[i]) /\ recompute_digest(i) = requests[i].digest
        BY <3>3, Recomputed, Zenon DEF ApprovalInv, RequestInv
      <4> QED BY <1>4, <3>1, <3>3, <4>1, Zenon
    <3> QED BY <1>4, <3>2, <3>3, Zenon
  <2> QED BY <1>1, <1>3, <1>4, <2>1, Zenon DEF ApprovalInv, RequestInv
<1>8. Asked(id) \in Events /\ Asked(id) \notin ToSet(staged) /\ Answered(id) \notin ToSet(staged)
  <2>1. ToSet(staged) = {Asked(x) : x \in DOMAIN requests} \cup {Answered(x) : x \in DOMAIN responses}
    BY Zenon DEF ApprovalInv, AnswersBinding
  <2>2. id \notin DOMAIN responses
    BY <1>1, Zenon DEF ApprovalInv, RequestInv
  <2>3. \A x \in DOMAIN requests : Asked(x) # Asked(id) /\ Asked(x) # Answered(id)
    BY <1>1, EventsDiffer, Zenon
  <2>4. \A x \in DOMAIN responses : Answered(x) # Answered(id) /\ Answered(x) # Asked(id)
    BY <2>2, EventsDiffer, Zenon
  <2> QED BY <2>1, <2>3, <2>4, Zenon DEF Events
<1>9. /\ staged' \in Seq(Events) /\ IsInjective(staged') /\ ToSet(staged') = ToSet(staged) \cup {Asked(id)}
      /\ DOMAIN staged' = DOMAIN staged \cup {Len(staged) + 1} /\ staged'[Len(staged) + 1] = Asked(id)
      /\ \A i \in DOMAIN staged : staged'[i] = staged[i] /\ i < Len(staged) + 1
  BY <1>1, <1>8, Announced, Zenon DEF ApprovalInv, AnswersBinding
<1>10. Answered(id) \notin ToSet(staged)
  BY <1>8, Zenon
<1>11. \A i, j \in DOMAIN staged' : \A x \in RequestIds :
         staged'[i] = Answered(x) /\ staged'[j] = Asked(x) => j < i
  <2> SUFFICES ASSUME NEW i \in DOMAIN staged', NEW j \in DOMAIN staged', NEW x \in RequestIds,
                      staged'[i] = Answered(x), staged'[j] = Asked(x)
               PROVE  j < i
    BY Zenon
  <2>1. i \in DOMAIN staged /\ staged[i] = Answered(x)
    BY <1>9, EventsDiffer, Zenon
  <2>2. x # id
    BY <1>10, <2>1, Zenon DEF ToSet
  <2>3. j \in DOMAIN staged /\ staged[j] = Asked(x)
    BY <1>9, <2>2, EventsDiffer, Zenon
  <2> QED BY <2>1, <2>3, Zenon DEF ApprovalInv, AnswersBinding
<1>12. ToSet(staged') = {Asked(x) : x \in DOMAIN requests'} \cup {Answered(x) : x \in DOMAIN responses'}
  BY <1>1, <1>4, <1>9, Zenon DEF ApprovalInv, AnswersBinding
<1>13. \A x \in DOMAIN responses' :
         /\ responses'[x].responder = requests'[x].principal
         /\ responses'[x].digest = requests'[x].digest
         /\ responses'[x].at < requests'[x].expires
  BY <1>1, <1>4, Zenon DEF ApprovalInv, AnswersBinding, RequestInv
<1>14. AnswersBinding'
  BY <1>9, <1>11, <1>12, <1>13, Zenon DEF AnswersBinding
<1> QED BY <1>1, <1>5, <1>6, <1>7, <1>9, <1>14, Zenon DEF ApprovalInv

LEMMA RespondStep ==
    ASSUME ApprovalInv, NEW ctx \in Principals, NEW device, NEW id \in RequestIds, NEW digest,
           NEW decision, respond(ctx, device, id, digest, decision)
    PROVE  ApprovalInv' /\ TablesKept
<1>1. /\ id \in DOMAIN requests /\ id \notin DOMAIN responses /\ now < requests[id].expires
      /\ ctx = requests[id].principal /\ digest = requests[id].digest
      /\ staged' = Append(staged, Answered(id)) /\ UNCHANGED <<requests, effect, now>>
  BY Zenon DEF respond
<1>2. PICK d \in device :
        responses' = With(responses, id, [digest |-> digest, decision |-> decision, device |-> d,
                                          responder |-> ctx, at |-> now])
  BY Zenon DEF respond
<1> DEFINE row == [digest |-> digest, decision |-> decision, device |-> d, responder |-> ctx, at |-> now]
<1>3. row.digest = digest /\ row.responder = ctx /\ row.at = now /\ responses' = With(responses, id, row)
  BY <1>2
<1> HIDE DEF row
<1>4. /\ DOMAIN responses' = DOMAIN responses \cup {id} /\ responses'[id] = row
      /\ \A i \in DOMAIN responses : responses'[i] = responses[i]
  <2>1. /\ DOMAIN With(responses, id, row) = DOMAIN responses \cup {id}
        /\ With(responses, id, row)[id] = row
        /\ \A i \in DOMAIN responses : i # id => With(responses, id, row)[i] = responses[i]
    BY DEF With
  <2> QED BY <1>1, <1>3, <2>1, Zenon
<1>5. now \in Nat /\ now <= now
  BY DEF ApprovalInv
<1>6. TablesKept
  BY <1>1, <1>4, <1>5, Zenon DEF TablesKept
<1>7. RequestInv'
  <2>1. \A i \in DOMAIN requests : recompute_digest(i)' = recompute_digest(i)
    BY <1>1, Recomputed, Zenon
  <2> QED BY <1>1, <1>4, <2>1, Zenon DEF ApprovalInv, RequestInv
<1>8. Answered(id) \in Events /\ Answered(id) \notin ToSet(staged)
  <2>1. ToSet(staged) = {Asked(x) : x \in DOMAIN requests} \cup {Answered(x) : x \in DOMAIN responses}
    BY Zenon DEF ApprovalInv, AnswersBinding
  <2>2. \A x \in DOMAIN requests : Asked(x) # Answered(id)
    BY EventsDiffer, Zenon
  <2>3. \A x \in DOMAIN responses : Answered(x) # Answered(id)
    BY <1>1, EventsDiffer, Zenon
  <2> QED BY <2>1, <2>2, <2>3, Zenon DEF Events
<1>9. /\ staged' \in Seq(Events) /\ IsInjective(staged')
      /\ ToSet(staged') = ToSet(staged) \cup {Answered(id)}
      /\ DOMAIN staged' = DOMAIN staged \cup {Len(staged) + 1}
      /\ staged'[Len(staged) + 1] = Answered(id)
      /\ \A i \in DOMAIN staged : staged'[i] = staged[i] /\ i < Len(staged) + 1
  BY <1>1, <1>8, Announced, Zenon DEF ApprovalInv, AnswersBinding
<1>10. \A i, j \in DOMAIN staged' : \A x \in RequestIds :
         staged'[i] = Answered(x) /\ staged'[j] = Asked(x) => j < i
  <2> SUFFICES ASSUME NEW i \in DOMAIN staged', NEW j \in DOMAIN staged', NEW x \in RequestIds,
                      staged'[i] = Answered(x), staged'[j] = Asked(x)
               PROVE  j < i
    BY Zenon
  <2>1. j \in DOMAIN staged /\ staged[j] = Asked(x) /\ j < Len(staged) + 1
    <3>1. j # Len(staged) + 1
      BY <1>9, EventsDiffer, Zenon
    <3> QED BY <1>9, <3>1, Zenon
  <2>2. CASE i \in DOMAIN staged
    BY <1>9, <2>1, <2>2, Zenon DEF ApprovalInv, AnswersBinding
  <2>3. CASE i = Len(staged) + 1
    BY <2>1, <2>3, Zenon
  <2> QED BY <1>9, <2>2, <2>3, Zenon
<1>11. ToSet(staged') = {Asked(x) : x \in DOMAIN requests'} \cup {Answered(x) : x \in DOMAIN responses'}
  BY <1>1, <1>4, <1>9, Zenon DEF ApprovalInv, AnswersBinding
<1>12. \A x \in DOMAIN responses' :
         /\ responses'[x].responder = requests'[x].principal
         /\ responses'[x].digest = requests'[x].digest
         /\ responses'[x].at < requests'[x].expires
  BY <1>1, <1>3, <1>4, Zenon DEF ApprovalInv, AnswersBinding
<1>13. AnswersBinding'
  BY <1>9, <1>10, <1>11, <1>12, Zenon DEF AnswersBinding
<1> QED BY <1>1, <1>5, <1>6, <1>7, <1>9, <1>13, Zenon DEF ApprovalInv

LEMMA TickStep ==
    ASSUME ApprovalInv, UNCHANGED <<requests, responses, staged>>, now' \in {now, now + 1}
    PROVE  ApprovalInv' /\ TablesKept
<1>1. now' \in Nat /\ now <= now'
  BY DEF ApprovalInv
<1>2. \A i \in DOMAIN requests : recompute_digest(i)' = recompute_digest(i)
  BY Recomputed, Zenon
<1>3. RequestInv' /\ AnswersBinding'
  BY <1>2, Zenon DEF ApprovalInv, RequestInv, AnswersBinding
<1> QED BY <1>1, <1>3, Zenon DEF ApprovalInv, TablesKept

LEMMA ApprovalStep ==
    ASSUME ApprovalInv, [ApprovalsNext]_approvalVars
    PROVE  ApprovalInv' /\ TablesKept
<1>1. CASE \E ctx \in Principals, id \in RequestIds, in \in Inputs : create_request(ctx, id, in)
  BY <1>1, CreateStep, Zenon
<1>2. CASE \E ctx \in Principals, device \in {{}} \cup {{d} : d \in Devices}, id \in RequestIds,
              of \in RequestIds, decision \in {"approve", "deny"} :
             of \in DOMAIN requests /\ respond(ctx, device, id, requests[of].digest, decision)
  BY <1>2, RespondStep, Zenon
<1>3. CASE \E action \in Resolutions, id \in RequestIds : ResolveUnknownEffect(action, id)
  BY <1>3, TickStep, Zenon DEF ResolveUnknownEffect
<1>4. CASE Tick
  <2>1. UNCHANGED <<requests, responses, staged>> /\ now' \in {now, now + 1}
    BY <1>4 DEF Tick, Advance, approvals
  <2> QED BY <2>1, TickStep, Zenon
<1>5. CASE UNCHANGED approvalVars
  BY <1>5, TickStep, Zenon DEF approvalVars, approvals
<1> QED BY <1>1, <1>2, <1>3, <1>4, <1>5, Zenon DEF ApprovalsNext

\* What a request's outcome is, once the request's digest is known to be right.
LEMMA OutcomeStep ==
    ASSUME ApprovalInv, ApprovalInv', TablesKept
    PROVE  OutcomeKept
<1> SUFFICES ASSUME NEW id \in RequestIds, NEW of \in DOMAIN requests,
                    is_satisfied(id, requests[of].digest)
                      \in {"approve", "deny", "Expired", "Invalidated", "Internal"}
             PROVE  is_satisfied(id, requests[of].digest)' = is_satisfied(id, requests[of].digest)
  BY Zenon DEF OutcomeKept
<1>1. id \in DOMAIN requests
  BY Zenon DEF is_satisfied
<1>2. /\ id \in DOMAIN requests' /\ requests'[id] = requests[id] /\ requests'[of] = requests[of]
      /\ recompute_digest(id)' = recompute_digest(id)
      /\ recompute_digest(id) = requests[id].digest
  BY <1>1, Recomputed, Zenon DEF ApprovalInv, RequestInv, TablesKept
<1>3. CASE requests[of].digest # recompute_digest(id)
  BY <1>1, <1>2, <1>3, Zenon DEF is_satisfied
<1>4. CASE requests[of].digest = recompute_digest(id) /\ id \in DOMAIN responses
  <2>1. id \in DOMAIN responses' /\ responses'[id] = responses[id]
    BY <1>4, Zenon DEF TablesKept
  <2> QED BY <1>1, <1>2, <1>4, <2>1, Zenon DEF is_satisfied
<1>5. CASE requests[of].digest = recompute_digest(id) /\ id \notin DOMAIN responses
  <2>1. now >= requests[id].expires
    BY <1>1, <1>2, <1>5, Zenon DEF is_satisfied
  <2>2. id \notin DOMAIN responses' /\ now' >= requests'[id].expires
    <3>1. /\ now \in Nat /\ now' \in Nat /\ now <= now' /\ requests[id].expires \in Int
      BY <1>1, Zenon DEF ApprovalInv, RequestInv, TablesKept
    <3>2. ~(now < requests[id].expires) /\ now' >= requests[id].expires
      BY <2>1, <3>1
    <3> QED BY <1>2, <1>5, <3>2, Zenon DEF TablesKept
  <2> QED BY <1>1, <1>2, <1>5, <2>1, <2>2, Zenon DEF is_satisfied
<1> QED BY <1>3, <1>4, <1>5, Zenon

-----------------------------------------------------------------------------
(* Approvals: the theorem.                                                 *)

\* respond and is_satisfied keep their word: for any requests, principals and
\* devices, an outcome a run may act on is the outcome ever after, and every
\* response answers exactly what was asked, by the one who was asked, in time, and
\* is announced once after its request.
THEOREM OutcomesFinal == ApprovalsSpec => OutcomeFinal
<1>1. ApprovalInv /\ [ApprovalsNext]_approvalVars => ApprovalInv'
  BY ApprovalStep
<1>2. ApprovalInv /\ [ApprovalsNext]_approvalVars => [OutcomeKept /\ AnswersBinding']_approvalVars
  BY ApprovalStep, OutcomeStep, Zenon DEF ApprovalInv
<1> QED BY <1>1, <1>2, ApprovalInvInit, PTL DEF ApprovalsSpec, OutcomeFinal

-----------------------------------------------------------------------------
(* Secrets: the inductive invariant.                                       *)

ActionOf(req) == IF req.method = "sign_or_act" THEN "sign_or_act" ELSE "use"
Answers == {"InvalidArgument", "Denied", "ApprovalRequired", "NotFound", "Value", "Reference",
            "Metadata", "Internal", "FailedPrecondition", "Unavailable"}
Outcomes == {"Denied", "ApprovalRequired", "Allowed", "Acted", "Failed"}

Returns == [req : Requests, at : Nat, result : Answers, records : Nat]

\* A call that waits for the store was allowed when it was authorized.
CallsInv ==
    /\ now \in Nat /\ DOMAIN call = Callers
    /\ \A c \in Callers : call[c] # AtRest =>
        /\ call[c].req \in Requests /\ call[c].at \in Nat
        /\ Backed(call[c].req, ActionOf(call[c].req), call[c].at)

AuditInv ==
    /\ audit \in Seq(Outcomes)
    /\ returned \in Seq(Returns)
    /\ \A i \in DOMAIN returned : returned[i].records <= Len(audit)
    /\ AuditComplete

\* Between its two items a put has written the value, a delete removed it.
WriteInv ==
    \/ write = AtRest
    \/ /\ backend = "keychain"
       /\ \E m \in Metadata, v \in Values :
            write = Put(m, v) /\ value = {v} /\ encode_metadata(m) # {}
    \/ backend = "keychain" /\ write = Delete /\ value = {}

ReportInv ==
    /\ reported.ok => reported.op = Delete \/ \E m \in Metadata, v \in Values : reported.op = Put(m, v)
    /\ WritesWhole

SecretInv == CallsInv /\ AuditInv /\ WriteInv /\ ReportInv

-----------------------------------------------------------------------------
\* An allowed call has a grant of its capability that stands.
LEMMA GrantBacks ==
    ASSUME NEW chain, NEW rows, NEW c, NEW target, NEW t \in Nat,
           \A g \in rows : g.expires \in Nat,
           backing_grants(chain, rows, c, target, t).d # "Deny"
    PROVE  \E g \in rows : t < g.expires /\ g.capability = c
<1> DEFINE standing == {r \in {r \in rows : r.id \in ToSet(Last(chain).grants) /\ r.capability = c} :
                          ~grant_expired(r.expires, t)}
           covering == {r \in standing : \A s \in r.scope : target_covers(s, target)}
<1>1. \A reason : Deny(reason).d = "Deny"
  BY DEF Deny
<1>2. covering # {}
  BY <1>1 DEF backing_grants
<1>3. PICK g \in rows : g.capability = c /\ ~grant_expired(g.expires, t)
  BY <1>2, Zenon
<1>4. t < g.expires
  BY <1>3 DEF grant_expired
<1> QED BY <1>3, <1>4, Zenon

LEMMA AllowGranted ==
    ASSUME NEW chain, NEW rows, NEW tools, NEW c, NEW target, NEW t \in Nat,
           \A g \in rows : g.expires \in Nat,
           evaluate(chain, rows, tools, c, target, t).d = "Allow"
    PROVE  \E g \in rows : t < g.expires /\ g.capability = c
<1>1. \A reason : Deny(reason).d # "Allow"
  BY DEF Deny
<1>2. \A risk : [d |-> "RequireApproval", capabilities |-> risk].d # "Allow"
  OBVIOUS
<1>3. backing_grants(chain, rows, c, target, t).d # "Deny"
  BY <1>1, <1>2, Zenon DEF evaluate
<1> QED BY <1>3, GrantBacks

LEMMA AllowBacks ==
    ASSUME NEW req \in Requests, now \in Nat, permission_decision(req) = "Allow"
    PROVE  Backed(req, ActionOf(req), now)
<1>1. \A g \in req.rows : g.expires \in Nat
  BY BrokerAssumption, Zenon
<1> DEFINE c == <<"secret", ActionOf(req)>>
           target == [kind |-> "secret", uri |-> req.uri, egress |-> req.egress]
<1>2. evaluate(req.hops, req.rows, {}, c, target, now).d = "Allow"
  BY Zenon DEF permission_decision, ActionOf
<1> HIDE DEF c, target
<1>3. \E g \in req.rows : now < g.expires /\ g.capability = c
  BY <1>1, <1>2, AllowGranted
<1> QED BY <1>3, Zenon DEF Backed, c

\* What the store answers fits the method asked for.
LEMMA AnswerFits ==
    ASSUME NEW req \in Requests, NEW answer \in StoreAnswer(req)
    PROVE  /\ answer \in Answers \ {"InvalidArgument", "Denied", "ApprovalRequired"}
           /\ Released(answer) =>
                ActionOf(req) = (IF answer = "Reference" THEN "sign_or_act" ELSE "use")
<1>1. req.method \in {"resolve_metadata", "use_secret", "sign_or_act"}
  BY BrokerAssumption, Zenon
<1> QED BY <1>1 DEF StoreAnswer, Released, ActionOf, Answers

-----------------------------------------------------------------------------
\* A call returns: with no record, or with the one of its outcome.
LEMMA ReturnStep ==
    ASSUME AuditInv, NEW req \in Requests, NEW at \in Nat, NEW result \in Answers,
           \/ result = "InvalidArgument" /\ audit' = audit
           \/ /\ audit' = Append(audit, Outcome(result))
              /\ Released(result) =>
                    Backed(req, IF result = "Reference" THEN "sign_or_act" ELSE "use", at),
           returned' = Append(returned, [req |-> req, at |-> at, result |-> result,
                                         records |-> Len(audit')])
    PROVE  AuditInv'
<1> DEFINE r == [req |-> req, at |-> at, result |-> result, records |-> Len(audit')]
<1>n. PICK n : n = Len(returned)
  OBVIOUS
<1>0. /\ audit \in Seq(Outcomes) /\ returned \in Seq(Returns)
      /\ \A i \in DOMAIN returned : returned[i].records <= Len(audit) /\ Accounted(i)
      /\ Len(audit) = RecordsAfter(n)
  BY <1>n, Zenon DEF AuditInv, AuditComplete
<1>1. /\ audit \in Seq(Outcomes) /\ returned \in Seq(Returns) /\ n \in Nat /\ Len(audit) \in Nat
      /\ \A i \in 1..n : returned[i].records \in Nat
      /\ \A i \in 1..n : returned[i].records <= Len(audit)
      /\ Len(audit) = RecordsAfter(n)
      /\ \A i \in 1..n : Accounted(i)
  <2>1. DOMAIN returned = 1..n /\ n \in Nat /\ Len(audit) \in Nat
    BY <1>n, <1>0
  <2>2. \A i \in 1..n : returned[i] \in Returns
    BY <1>0, <2>1
  <2>3. \A x \in Returns : x.records \in Nat
    BY DEF Returns
  <2> QED BY <1>0, <2>1, <2>2, <2>3, Zenon
<1>2. Outcome(result) \in Outcomes
  BY DEF Outcome, Answers, Outcomes
<1>3. /\ audit' \in Seq(Outcomes) /\ Len(audit') \in Nat
      /\ Len(audit) <= Len(audit')
      /\ \A k \in 1..Len(audit) : audit'[k] = audit[k]
  <2>1. CASE audit' = audit
    BY <1>1, <2>1
  <2>2. CASE audit' = Append(audit, Outcome(result))
    BY <1>1, <1>2, <2>2
  <2> QED BY <2>1, <2>2
<1>4. r \in Returns
  BY <1>3 DEF Returns
<1>5. /\ returned' \in Seq(Returns) /\ Len(returned') = n + 1 /\ DOMAIN returned' = 1..(n + 1)
      /\ returned'[n + 1] = r /\ \A i \in 1..n : returned'[i] = returned[i]
  <2> HIDE DEF r
  <2> QED BY <1>n, <1>1, <1>4, AppendProperties DEF r
<1>6. \A i \in 0..n : RecordsAfter(i)' = RecordsAfter(i)
  BY <1>1, <1>5 DEF RecordsAfter
<1>7. RecordsAfter(n + 1)' = Len(audit')
  BY <1>1, <1>5 DEF RecordsAfter
<1>8. ASSUME NEW i \in 1..n PROVE Accounted(i)'
  <2>1. /\ returned'[i] = returned[i] /\ i - 1 \in 0..n /\ RecordsAfter(i - 1)' = RecordsAfter(i - 1)
        /\ RecordsAfter(i - 1) \in Nat /\ returned[i].records \in Nat
        /\ returned[i].records <= Len(audit)
    BY <1>1, <1>5, <1>6 DEF RecordsAfter
  <2>2. Accounted(i)
    BY <1>1
  <2>3. returned[i].records = RecordsAfter(i - 1) + 1 => audit'[returned[i].records] = audit[returned[i].records]
    BY <1>1, <1>3, <2>1
  <2> QED BY <2>1, <2>2, <2>3, Zenon DEF Accounted, Backed
<1>9. Accounted(n + 1)'
  <2>1. (n + 1) - 1 = n /\ RecordsAfter(n)' = Len(audit)
    BY <1>1, <1>6
  <2>2. returned'[n + 1].req = req /\ returned'[n + 1].at = at /\ returned'[n + 1].result = result
        /\ returned'[n + 1].records = Len(audit')
    BY <1>5
  <2>3. CASE result = "InvalidArgument" /\ audit' = audit
    BY <2>1, <2>2, <2>3, Zenon DEF Accounted
  <2>4. CASE /\ audit' = Append(audit, Outcome(result))
             /\ Released(result) =>
                   Backed(req, IF result = "Reference" THEN "sign_or_act" ELSE "use", at)
    <3>1. Len(audit') = Len(audit) + 1 /\ audit'[Len(audit')] = Outcome(result)
      BY <1>1, <1>2, <2>4
    <3>2. /\ returned'[n + 1].records = RecordsAfter((n + 1) - 1)' + 1
          /\ audit'[returned'[n + 1].records] = Outcome(returned'[n + 1].result)
      BY <2>1, <2>2, <3>1, Zenon
    <3>3. Released(returned'[n + 1].result) =>
            Backed(returned'[n + 1].req,
                   IF returned'[n + 1].result = "Reference" THEN "sign_or_act" ELSE "use",
                   returned'[n + 1].at)
      BY <2>2, <2>4, Zenon
    <3> QED BY <3>2, <3>3, Zenon DEF Accounted
  <2> QED BY <2>3, <2>4
<1>10. \A i \in 1..(n + 1) : Accounted(i)' /\ returned'[i].records <= Len(audit')
  <2> SUFFICES ASSUME NEW i \in 1..(n + 1) PROVE Accounted(i)' /\ returned'[i].records <= Len(audit')
    OBVIOUS
  <2>1. CASE i = n + 1
    BY <1>3, <1>5, <1>9, <2>1
  <2>2. CASE i \in 1..n
    BY <1>1, <1>3, <1>5, <1>8, <2>2
  <2>3. i = n + 1 \/ i \in 1..n
    BY <1>1
  <2> QED BY <2>1, <2>2, <2>3
<1> QED BY <1>3, <1>5, <1>7, <1>10, Zenon DEF AuditInv, AuditComplete

\* A caller's request ends, and the others' stay as they are.
LEMMA CallEnds ==
    ASSUME CallsInv, NEW c \in Callers, call' = [call EXCEPT ![c] = AtRest], now' = now
    PROVE  CallsInv'
<1>1. DOMAIN call' = Callers /\ call'[c] = AtRest /\ \A d \in Callers \ {c} : call'[d] = call[d]
  BY DEF CallsInv
<1> QED BY <1>1, Zenon DEF CallsInv, Backed

\* The stored items are out of the callers' reach.
LEMMA StoreKept ==
    ASSUME WriteInv, ReportInv, UNCHANGED <<backend, kept>>
    PROVE  WriteInv' /\ ReportInv'
<1>1. UNCHANGED <<backend, value, meta, write, reported>>
  BY Zenon DEF kept
<1>2. WriteInv'
  BY <1>1, Zenon DEF WriteInv
<1>3. ReportInv'
  BY <1>1, Zenon DEF ReportInv, WritesWhole
<1> QED BY <1>2, <1>3, Zenon

LEMMA AuthorizeStep ==
    ASSUME SecretInv, NEW c \in Callers, NEW req \in Requests, authorize_call(c, req)
    PROVE  SecretInv'
<1>1. CallsInv /\ AuditInv /\ now \in Nat
  BY Zenon DEF SecretInv, CallsInv
<1>2. UNCHANGED <<backend, kept>> /\ now' = now
  BY Zenon DEF authorize_call
<1>3. WriteInv' /\ ReportInv'
  BY <1>2, StoreKept, Zenon DEF SecretInv
<1>4. ASSUME NEW result \in {"InvalidArgument", "Denied", "ApprovalRequired"},
             \/ result = "InvalidArgument" /\ audit' = audit
             \/ result # "InvalidArgument" /\ record(result),
             Return(c, req, now, result)
      PROVE  SecretInv'
  <2>1. CallsInv'
    BY <1>1, <1>2, <1>4, CallEnds, Zenon DEF Return
  <2>2. /\ result \in Answers /\ ~Released(result)
        /\ result # "InvalidArgument" => Outcome(result) = result
    BY <1>4 DEF Answers, Released, Outcome
  <2>3. AuditInv'
    <3> DEFINE t == now
    <3>1. t \in Nat /\ Return(c, req, t, result)
      BY <1>1, <1>4
    <3> HIDE DEF t
    <3>2. returned' = Append(returned, [req |-> req, at |-> t, result |-> result,
                                        records |-> Len(audit')])
      BY <3>1, Zenon DEF Return
    <3>3. \/ result = "InvalidArgument" /\ audit' = audit
          \/ audit' = Append(audit, Outcome(result))
      BY <1>4, <2>2, Zenon DEF record
    <3> QED BY <1>1, <2>2, <3>1, <3>2, <3>3, ReturnStep, Zenon
  <2> QED BY <1>3, <2>1, <2>3, Zenon DEF SecretInv
<1>5. CASE /\ permission_decision(req) = "Allow"
           /\ call' = [call EXCEPT ![c] = [pc |-> "store", req |-> req, at |-> now]]
           /\ UNCHANGED <<returned, audit>>
  <2>1. /\ DOMAIN call' = Callers /\ call'[c] = [pc |-> "store", req |-> req, at |-> now]
        /\ \A d \in Callers \ {c} : call'[d] = call[d]
    BY <1>1, <1>5 DEF CallsInv
  <2>2. Backed(req, ActionOf(req), now)
    BY <1>1, <1>5, AllowBacks, Zenon
  <2>3. call'[c].req = req /\ call'[c].at = now
    BY <2>1
  <2>4. CallsInv'
    BY <1>1, <1>2, <2>1, <2>2, <2>3, Zenon DEF CallsInv, Backed
  <2>5. AuditInv'
    BY <1>1, <1>5, Zenon DEF AuditInv, AuditComplete, Accounted, RecordsAfter
  <2> QED BY <1>3, <2>4, <2>5, Zenon DEF SecretInv
<1> QED BY <1>4, <1>5 DEF authorize_call

LEMMA FinishStep ==
    ASSUME SecretInv, NEW c \in Callers, NEW answer, finish_call(c, answer)
    PROVE  SecretInv'
<1>1. CallsInv /\ AuditInv /\ UNCHANGED <<backend, kept>> /\ now' = now
  BY Zenon DEF SecretInv, finish_call
<1>2. PICK req \in Requests, at \in Nat :
        req = call[c].req /\ at = call[c].at /\ Backed(req, ActionOf(req), at)
  BY <1>1, Zenon DEF finish_call, CallsInv
<1>3. answer \in StoreAnswer(req) /\ Return(c, req, at, answer)
  BY <1>2, Zenon DEF finish_call
<1>4. /\ answer \in Answers \ {"InvalidArgument", "Denied", "ApprovalRequired"}
      /\ Released(answer) => ActionOf(req) = (IF answer = "Reference" THEN "sign_or_act" ELSE "use")
  BY <1>3, AnswerFits, Zenon
<1>5. /\ answer \in Answers
      /\ (IF answer \in {"Value", "Metadata"} THEN "Allowed"
          ELSE IF answer = "Reference" THEN "Acted" ELSE "Failed") = Outcome(answer)
  BY <1>4 DEF Answers, Outcome
<1>6. audit' = Append(audit, Outcome(answer))
  BY <1>5, Zenon DEF finish_call, record
<1>7. Released(answer) => Backed(req, IF answer = "Reference" THEN "sign_or_act" ELSE "use", at)
  BY <1>2, <1>4, Zenon
<1>8. AuditInv'
  BY <1>1, <1>3, <1>5, <1>6, <1>7, ReturnStep, Zenon DEF Return
<1>9. CallsInv'
  BY <1>1, <1>3, CallEnds, Zenon DEF Return
<1> QED BY <1>1, <1>8, <1>9, StoreKept, Zenon DEF SecretInv

-----------------------------------------------------------------------------
\* Metadata that can be stored is read back as it was put.
LEMMA ReadBack ==
    ASSUME NEW m \in Metadata, encode_metadata(m) # {}, m.kind # <<>>
    PROVE  UNION {decode_metadata(l) : l \in encode_metadata(m)} = {m}
<1>1. m \in [kind : Seq(Text), scopes : Seq(Text)]
  BY BrokerAssumption, Zenon
<1>2. m.kind \in Seq(Text) /\ m.scopes \in Seq(Text) /\ m = [kind |-> m.kind, scopes |-> m.scopes]
  BY <1>1
<1> DEFINE Lines == {METADATA_HEADER} \cup Seq(Text) \cup Text
           head == <<METADATA_HEADER, m.kind>>
           lines == head \o m.scopes
<1>3. encode_metadata(m) = {lines}
  BY Zenon DEF encode_metadata
<1>4. head \in Seq(Lines) /\ m.scopes \in Seq(Lines) /\ Len(head) = 2
  <2>1. \A i \in 1..2 : head[i] \in Lines
    BY <1>2
  <2>2. m.scopes \in Seq(Lines)
    BY <1>2
  <2> QED BY <2>1, <2>2
<1>5. head[1] = METADATA_HEADER /\ head[2] = m.kind
  OBVIOUS
<1> HIDE DEF Lines, head
<1>6. /\ lines \in Seq(Lines) /\ Len(lines) = 2 + Len(m.scopes) /\ lines[1] = head[1]
      /\ lines[2] = head[2]
      /\ \A i \in 1..Len(m.scopes) : lines[i + 2] = m.scopes[i]
  <2>1. /\ lines \in Seq(Lines) /\ Len(lines) = 2 + Len(m.scopes)
        /\ \A i \in 1..Len(lines) : lines[i] = IF i <= 2 THEN head[i] ELSE m.scopes[i - 2]
    <3>1. /\ lines \in Seq(Lines) /\ Len(lines) = Len(head) + Len(m.scopes)
          /\ \A i \in 1..(Len(head) + Len(m.scopes)) :
                lines[i] = IF i <= Len(head) THEN head[i] ELSE m.scopes[i - Len(head)]
      BY <1>4, ConcatProperties, Zenon
    <3> QED BY <1>4, <3>1, Zenon
  <2>2. Len(m.scopes) \in Nat
    BY <1>4
  <2> HIDE DEF lines
  <2>3. /\ 1 \in 1..Len(lines) /\ 2 \in 1..Len(lines)
        /\ \A i \in 1..Len(m.scopes) : i + 2 \in 1..Len(lines) /\ ~(i + 2 <= 2) /\ i + 2 - 2 = i
    BY <2>1, <2>2
  <2> QED BY <2>1, <2>3
<1>7. SubSeq(lines, 3, Len(lines)) = m.scopes
  <2>1. SubSeq(lines, 3, Len(lines)) = [i \in 1..(Len(lines) - 3 + 1) |-> lines[3 + i - 1]]
    BY <1>4, <1>6
  <2>2. Len(lines) - 3 + 1 = Len(m.scopes) /\ \A i \in 1..Len(m.scopes) : lines[3 + i - 1] = m.scopes[i]
    BY <1>4, <1>6
  <2>3. m.scopes = [i \in 1..Len(m.scopes) |-> m.scopes[i]]
    BY <1>4
  <2> QED BY <2>1, <2>2, <2>3, Zenon
<1>8. Len(lines) >= 2
  BY <1>4, <1>6
<1> HIDE DEF lines
<1>9. decode_metadata(lines) = {m}
  BY <1>2, <1>5, <1>6, <1>7, <1>8, Zenon DEF decode_metadata
<1> QED BY <1>3, <1>9, Zenon

LEMMA Written ==
    /\ \A m, v : /\ Put(m, v) # Delete /\ Put(m, v) # AtRest /\ Put(m, v).pc = "put"
                 /\ Put(m, v).m = m /\ Put(m, v).v = v
    /\ Delete # AtRest /\ Delete.pc = "delete" /\ AtRest.pc = "idle"
BY DEF Put, Delete, AtRest

\* Provisioning leaves the callers alone.
LEMMA CallersKept ==
    ASSUME CallsInv, AuditInv, UNCHANGED callers
    PROVE  CallsInv' /\ AuditInv'
<1>1. UNCHANGED <<call, returned, audit, now>>
  BY Zenon DEF callers
<1>2. CallsInv'
  BY <1>1, Zenon DEF CallsInv, Backed
<1>3. AuditInv'
  BY <1>1, Zenon DEF AuditInv, AuditComplete, Accounted, RecordsAfter
<1> QED BY <1>2, <1>3, Zenon

\* A write that is not reported as done, and one under way, promise nothing.
LEMMA Unreported ==
    ASSUME NEW op, NEW ok, Report(op, ok),
           ok => op = Delete \/ \E m \in Metadata, v \in Values : op = Put(m, v),
           ok => (IF op = Delete THEN value = {} /\ meta = {}
                  ELSE /\ value = {op.v}
                       /\ \/ backend = "memory" /\ meta = {op.m}
                          \/ backend = "keychain" /\ op.m.kind = <<>>
                          \/ /\ backend = "keychain"
                             /\ UNION {decode_metadata(l) : l \in meta} = {op.m})'
    PROVE  WriteInv' /\ ReportInv'
<1>1. write' = AtRest /\ reported'.op = op /\ reported'.ok = ok
  BY DEF Report
<1>2. WriteInv'
  BY <1>1, Zenon DEF WriteInv
<1>3. ReportInv'
  BY <1>1, Zenon DEF ReportInv, WritesWhole
<1> QED BY <1>2, <1>3, Zenon

LEMMA InsertStep ==
    ASSUME SecretInv, NEW m \in Metadata, NEW v \in Values, insert_secret(m, v)
    PROVE  SecretInv'
<1>1. CallsInv' /\ AuditInv'
  BY CallersKept, Zenon DEF SecretInv, insert_secret, Begin
<1>2. /\ backend' = "memory" /\ value' = {v} /\ meta' = {m}
      /\ Report(Put(m, v), TRUE)
  BY Zenon DEF insert_secret, Begin
<1>3. WriteInv' /\ ReportInv'
  BY <1>2, Written, Unreported
<1> QED BY <1>1, <1>3, Zenon DEF SecretInv

LEMMA UnderWay ==
    ASSUME ReportInv, write' # AtRest, reported' = reported
    PROVE  ReportInv'
BY Zenon DEF ReportInv, WritesWhole

LEMMA PutValueStep ==
    ASSUME SecretInv, NEW m \in Metadata, NEW v \in Values, put_value(m, v)
    PROVE  SecretInv'
<1>1. CallsInv' /\ AuditInv'
  BY CallersKept, Zenon DEF SecretInv, put_value, Begin
<1>2. CASE encode_metadata(m) # {} /\ value' = {v} /\ write' = Put(m, v) /\ UNCHANGED reported
  <2>1. ReportInv'
    BY <1>2, UnderWay, Written, Zenon DEF SecretInv
  <2>2. backend' = "keychain"
    BY Zenon DEF put_value, Begin
  <2>3. WriteInv'
    BY <1>2, <2>2, Zenon DEF WriteInv
  <2> QED BY <1>1, <2>1, <2>3, Zenon DEF SecretInv
<1>3. CASE Report(Put(m, v), FALSE)
  <2>1. WriteInv' /\ ReportInv'
    BY <1>3, Unreported
  <2> QED BY <1>1, <2>1, Zenon DEF SecretInv
<1> QED BY <1>2, <1>3, Zenon DEF put_value

LEMMA PutMetadataStep == ASSUME SecretInv, put_metadata PROVE SecretInv'
<1>1. CallsInv' /\ AuditInv'
  BY CallersKept, Zenon DEF SecretInv, put_metadata
<1>2. write.pc = "put" /\ UNCHANGED <<backend, value>>
  BY Zenon DEF put_metadata
<1>3. write # AtRest /\ write # Delete
  BY <1>2, Written
<1>4. PICK m \in Metadata, v \in Values :
        backend = "keychain" /\ write = Put(m, v) /\ value = {v} /\ encode_metadata(m) # {}
  BY <1>3, Zenon DEF SecretInv, WriteInv
<1>5. CASE meta' = encode_metadata(m) /\ Report(Put(m, v), TRUE)
  <2>1. m.kind = <<>> \/ UNION {decode_metadata(l) : l \in meta'} = {m}
    BY <1>4, <1>5, ReadBack, Zenon
  <2>2. /\ Put(m, v) # Delete /\ value' = {Put(m, v).v} /\ backend' = "keychain"
        /\ \/ Put(m, v).m.kind = <<>>
           \/ UNION {decode_metadata(l) : l \in meta'} = {Put(m, v).m}
    BY <1>2, <1>4, <2>1, Written, Zenon
  <2>3. WriteInv' /\ ReportInv'
    BY <1>5, <2>2, Unreported, Zenon
  <2> QED BY <1>1, <2>3, Zenon DEF SecretInv
<1>6. CASE Report(Put(m, v), FALSE)
  <2>1. WriteInv' /\ ReportInv'
    BY <1>6, Unreported
  <2> QED BY <1>1, <2>1, Zenon DEF SecretInv
<1>7. /\ write = Put(m, v) => write.m = m
      /\ (meta' = encode_metadata(write.m) /\ Report(write, TRUE)) \/ Report(write, FALSE)
  <2>1. write = Put(m, v) => write.m = m
    BY Written, Zenon
  <2> QED BY <2>1, Zenon DEF put_metadata
<1> QED BY <1>4, <1>5, <1>6, <1>7, Zenon

LEMMA DeleteValueStep == ASSUME SecretInv, delete_value PROVE SecretInv'
<1>1. CallsInv' /\ AuditInv'
  BY CallersKept, Zenon DEF SecretInv, delete_value, Begin
<1>2. CASE value' = {} /\ write' = Delete /\ UNCHANGED reported
  <2>1. ReportInv'
    BY <1>2, UnderWay, Written, Zenon DEF SecretInv
  <2>2. backend' = "keychain"
    BY Zenon DEF delete_value, Begin
  <2>3. WriteInv'
    BY <1>2, <2>2, Zenon DEF WriteInv
  <2> QED BY <1>1, <2>1, <2>3, Zenon DEF SecretInv
<1>3. CASE Report(Delete, FALSE)
  <2>1. WriteInv' /\ ReportInv'
    BY <1>3, Unreported
  <2> QED BY <1>1, <2>1, Zenon DEF SecretInv
<1> QED BY <1>2, <1>3, Zenon DEF delete_value

LEMMA DeleteMetadataStep == ASSUME SecretInv, delete_metadata PROVE SecretInv'
<1>1. CallsInv' /\ AuditInv'
  BY CallersKept, Zenon DEF SecretInv, delete_metadata
<1>2. write.pc = "delete" /\ UNCHANGED <<backend, value>>
  BY Zenon DEF delete_metadata
<1>3. write # AtRest /\ \A m, v : write # Put(m, v)
  BY <1>2, Written
<1>4. write = Delete /\ value' = {}
  BY <1>2, <1>3, Zenon DEF SecretInv, WriteInv
<1>5. CASE meta' = {} /\ Report(Delete, TRUE)
  <2>1. WriteInv' /\ ReportInv'
    BY <1>4, <1>5, Unreported
  <2> QED BY <1>1, <2>1, Zenon DEF SecretInv
<1>6. CASE Report(Delete, FALSE)
  <2>1. WriteInv' /\ ReportInv'
    BY <1>6, Unreported
  <2> QED BY <1>1, <2>1, Zenon DEF SecretInv
<1> QED BY <1>4, <1>5, <1>6, Zenon DEF delete_metadata

LEMMA BrokerTickStep == ASSUME SecretInv, BrokerTick PROVE SecretInv'
<1>1. UNCHANGED <<backend, kept, call, returned, audit>>
  BY Zenon DEF BrokerTick, secrets, kept
<1>2. now' \in Nat
  BY DEF BrokerTick, Advance, SecretInv, CallsInv
<1>3. CallsInv'
  BY <1>1, <1>2, Zenon DEF SecretInv, CallsInv, Backed
<1>4. AuditInv'
  BY <1>1, Zenon DEF SecretInv, AuditInv, AuditComplete, Accounted, RecordsAfter
<1> QED BY <1>1, <1>3, <1>4, StoreKept, Zenon DEF SecretInv

LEMMA SecretInvInit == SecretsInit => SecretInv
<1> SUFFICES ASSUME SecretsInit PROVE SecretInv
  OBVIOUS
<1>1. CallsInv
  BY DEF SecretsInit, CallsInv
<1>2. AuditInv
  BY DEF SecretsInit, AuditInv, AuditComplete, RecordsAfter
<1>3. WriteInv /\ ReportInv
  BY DEF SecretsInit, WriteInv, ReportInv, WritesWhole
<1> QED BY <1>1, <1>2, <1>3, Zenon DEF SecretInv

LEMMA SecretsStep == ASSUME SecretInv, [SecretsNext]_brokerVars PROVE SecretInv'
<1>1. CASE UNCHANGED brokerVars
  <2>1. UNCHANGED <<backend, kept>> /\ UNCHANGED callers
    BY <1>1, Zenon DEF brokerVars, secrets, kept, callers
  <2> QED BY <2>1, StoreKept, CallersKept, Zenon DEF SecretInv
<1> QED BY <1>1, AuthorizeStep, FinishStep, InsertStep, PutValueStep, PutMetadataStep,
           DeleteValueStep, DeleteMetadataStep, BrokerTickStep, Zenon DEF SecretsNext

\* For any callers, requests, grants and metadata, and however the keychain
\* fails between its two items: one audit record for each call with the outcome
\* its caller saw, nothing released without a grant that stood when the call
\* was authorized, and a put or delete that reported success did all of it.
THEOREM SecretsAreAccounted == SecretsSpec => []SecretsAccounted
<1>1. SecretInv => SecretsAccounted
  BY Zenon DEF SecretInv, AuditInv, ReportInv, SecretsAccounted
<1> QED BY SecretInvInit, SecretsStep, <1>1, PTL DEF SecretsSpec
=============================================================================
