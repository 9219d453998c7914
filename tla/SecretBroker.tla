---------------------------- MODULE SecretBroker ----------------------------
(***************************************************************************)
(* The secrets broker (secrets/src/broker.rs) over the in-memory store or  *)
(* the macOS keychain (keychain.rs), which keeps a value and its metadata  *)
(* as two items.  A call is authorized, then awaits the store; other calls *)
(* and the operator's put and delete run in between.  One stored secret.   *)
(***************************************************************************)
EXTENDS Permissions, WallClock

CONSTANTS
    Callers,
    Requests,      \* [method, uri, egress, operation, hops, rows]: what callers ask
    Held,          \* the URI of the stored secret
    Text,          \* what a line of metadata says
    Metadata,      \* metadata that may be put: [kind, scopes], kind a sequence of lines
    Values,
    MaxBrokered,   \* bound: calls
    MaxWrites      \* bound: puts and deletes

\* A request names one of the three methods, and a grant lapses at some instant.
ASSUME BrokerAssumption ==
    /\ \A req \in Requests :
        /\ req.method \in {"resolve_metadata", "use_secret", "sign_or_act"}
        /\ \A g \in req.rows : g.expires \in Nat
    /\ Metadata \subseteq [kind : Seq(Text), scopes : Seq(Text)]

VARIABLES
    backend,    \* "memory" or "keychain"
    value,      \* the value item: {} or {v}
    meta,       \* the metadata item: {} or {its lines}; in memory, {the record}
    write,      \* the operator's put or delete between its two items
    reported,   \* the last put or delete that returned, and whether it was Ok
    writes,     \* writes begun
    call,       \* caller -> [pc, req, at]
    returned,   \* what calls returned, and the audit records there were then
    audit       \* the outcomes recorded

kept == <<value, meta, write, reported, writes>>
secrets == <<backend, value, meta, write, reported, writes, call, returned, audit>>
brokerVars == <<secrets, now>>

METADATA_HEADER == "agentd-secrets-v1"
AtRest == [pc |-> "idle"]

-----------------------------------------------------------------------------
\* metadata as lines: header, kind, scopes

encode_metadata(m) ==
    IF Len(m.kind) > 1 THEN {} ELSE {<<METADATA_HEADER, m.kind>> \o m.scopes}

decode_metadata(lines) ==
    IF /\ Len(lines) >= 2
       /\ lines[1] = METADATA_HEADER
       /\ lines[2] # <<>>
    THEN {[kind |-> lines[2], scopes |-> SubSeq(lines, 3, Len(lines))]} ELSE {}

-----------------------------------------------------------------------------
SecretsInit ==
    /\ backend \in {"memory", "keychain"}
    /\ value = {}
    /\ meta = {}
    /\ write = AtRest
    /\ reported = [op |-> AtRest, ok |-> FALSE]
    /\ writes = 0
    /\ call = [c \in Callers |-> AtRest]
    /\ returned = <<>>
    /\ audit = <<>>
    /\ now = 0

record(outcome) == audit' = Append(audit, outcome)

Return(c, req, at, result) ==
    /\ returned' = Append(returned, [req |-> req, at |-> at, result |-> result,
                                     records |-> Len(audit')])
    /\ call' = [call EXCEPT ![c] = AtRest]

permission_decision(req) ==
    evaluate(req.hops, req.rows, {},
             <<"secret", IF req.method = "sign_or_act" THEN "sign_or_act" ELSE "use">>,
             [kind |-> "secret", uri |-> req.uri, egress |-> req.egress], now).d

(* the synchronous part of a call, up to the store's await *)
authorize_call(c, req) ==
    LET decision == permission_decision(req)
        invalid == req.method = "sign_or_act" /\ req.operation = ""
    IN  /\ call[c] = AtRest
        /\ Len(returned) + Cardinality({d \in Callers : call[d] # AtRest}) < MaxBrokered
        /\ \/ invalid /\ UNCHANGED audit /\ Return(c, req, now, "InvalidArgument")
           \/ /\ ~invalid /\ decision = "Deny"
              /\ record("Denied") /\ Return(c, req, now, "Denied")
           \/ /\ ~invalid /\ decision = "RequireApproval"
              /\ record("ApprovalRequired") /\ Return(c, req, now, "ApprovalRequired")
           \/ /\ ~invalid /\ decision = "Allow"
              /\ call' = [call EXCEPT ![c] = [pc |-> "store", req |-> req, at |-> now]]
              /\ UNCHANGED <<returned, audit>>
        /\ UNCHANGED <<backend, kept, now>>

(* what the store answers; the keychain can fail to read anything *)
StoreAnswer(req) ==
    LET item == IF req.method = "resolve_metadata" THEN meta ELSE value
        read == IF req.uri # Held \/ item = {} THEN "NotFound"
                ELSE IF req.method = "use_secret" THEN "Value"
                ELSE IF req.method = "sign_or_act" THEN "Reference"
                ELSE IF backend = "keychain" /\ decode_metadata(CHOOSE l \in meta : TRUE) = {}
                  THEN "Internal" ELSE "Metadata"
    IN  IF backend = "memory" THEN {read}
        ELSE IF req.method = "sign_or_act" THEN {"FailedPrecondition"}
        ELSE {read, "Unavailable"}

(* a mutant: an authorized call is recorded as a success whatever came back *)
finish_call_Allowed(c, answer) ==
    /\ call[c] # AtRest
    /\ answer \in StoreAnswer(call[c].req)
    /\ record(IF call[c].req.method = "sign_or_act" THEN "Acted" ELSE "Allowed")
    /\ Return(c, call[c].req, call[c].at, answer)
    /\ UNCHANGED <<backend, kept, now>>

(* resolve_metadata, use_secret, sign_or_act after the store's answer *)
finish_call(c, answer) ==
    /\ call[c] # AtRest
    /\ answer \in StoreAnswer(call[c].req)
    /\ record(IF answer \in {"Value", "Metadata"} THEN "Allowed"
              ELSE IF answer = "Reference" THEN "Acted" ELSE "Failed")
    /\ Return(c, call[c].req, call[c].at, answer)
    /\ UNCHANGED <<backend, kept, now>>

-----------------------------------------------------------------------------
\* provisioning, by one operator

Put(m, v) == [pc |-> "put", m |-> m, v |-> v]
Delete == [pc |-> "delete"]

Report(op, ok) ==
    /\ reported' = [op |-> op, ok |-> ok]
    /\ write' = AtRest

callers == <<call, returned, audit, now>>

Begin(in) ==
    /\ backend = in /\ write = AtRest /\ writes < MaxWrites
    /\ writes' = writes + 1
    /\ UNCHANGED <<backend, callers>>

insert_secret(m, v) ==
    /\ Begin("memory")
    /\ value' = {v} /\ meta' = {m}
    /\ Report(Put(m, v), TRUE)

(* the value first; refused metadata and a failed write leave all as it was *)
put_value(m, v) ==
    /\ Begin("keychain")
    /\ \/ encode_metadata(m) # {} /\ value' = {v} /\ write' = Put(m, v) /\ UNCHANGED reported
       \/ Report(Put(m, v), FALSE) /\ UNCHANGED value
    /\ UNCHANGED meta

put_metadata ==
    /\ write.pc = "put"
    /\ \/ meta' = encode_metadata(write.m) /\ Report(write, TRUE)
       \/ Report(write, FALSE) /\ UNCHANGED meta
    /\ UNCHANGED <<backend, value, writes, callers>>

(* a mutant: a value that is already gone ends the delete *)
delete_value_StopAtMissing ==
    /\ Begin("keychain")
    /\ \/ value = {} /\ Report(Delete, TRUE) /\ UNCHANGED value
       \/ value # {} /\ value' = {} /\ write' = Delete /\ UNCHANGED reported
    /\ UNCHANGED meta

(* the value first; an item that is missing is not an error *)
delete_value ==
    /\ Begin("keychain")
    /\ \/ value' = {} /\ write' = Delete /\ UNCHANGED reported
       \/ Report(Delete, FALSE) /\ UNCHANGED value
    /\ UNCHANGED meta

delete_metadata ==
    /\ write.pc = "delete"
    /\ \/ meta' = {} /\ Report(write, TRUE)
       \/ Report(write, FALSE) /\ UNCHANGED meta
    /\ UNCHANGED <<backend, value, writes, callers>>

BrokerTick == Advance /\ UNCHANGED secrets

SecretsNext ==
    \/ \E c \in Callers, req \in Requests : authorize_call(c, req)
    \/ \E c \in Callers :
         \E answer \in {"NotFound", "Value", "Reference", "Metadata", "Internal",
                        "FailedPrecondition", "Unavailable"} : finish_call(c, answer)
    \/ \E m \in Metadata, v \in Values : insert_secret(m, v) \/ put_value(m, v)
    \/ put_metadata
    \/ delete_value
    \/ delete_metadata
    \/ BrokerTick

SecretsSpec == SecretsInit /\ [][SecretsNext]_brokerVars

-----------------------------------------------------------------------------
(* Items, calls and counters have their types. *)
SecretsTypeOK ==
    /\ Cardinality(value) <= 1 /\ Cardinality(meta) <= 1
    /\ write.pc \in {"idle", "put", "delete"}
    /\ writes \in 0..MaxWrites /\ Len(returned) <= MaxBrokered /\ now \in 0..MaxTime

Outcome(result) ==
    CASE result \in {"Denied", "ApprovalRequired"} -> result
      [] result \in {"Value", "Metadata"} -> "Allowed"
      [] result = "Reference" -> "Acted"
      [] OTHER -> "Failed"

Released(result) == result \in {"Value", "Metadata", "Reference"}

(* a grant of the capability stood at that instant *)
Backed(req, action, at) ==
    \E g \in req.rows : at < g.expires /\ g.capability = <<"secret", action>>

RecordsAfter(i) == IF i = 0 THEN 0 ELSE returned[i].records

(* the i-th call to return left one record, unless its arguments were bad *)
Accounted(i) ==
    LET r == returned[i]
    IN  \/ r.result = "InvalidArgument" /\ r.records = RecordsAfter(i - 1)
        \/ /\ r.records = RecordsAfter(i - 1) + 1
           /\ audit[r.records] = Outcome(r.result)
           /\ Released(r.result) =>
                Backed(r.req, IF r.result = "Reference" THEN "sign_or_act" ELSE "use", r.at)

(* Every call that got past its own arguments left one audit record, in the *)
(* order the calls returned and with the outcome its caller saw; and what  *)
(* released anything was allowed by a grant of its capability that stood   *)
(* when it was authorized, however long the store then took.               *)
AuditComplete ==
    /\ Len(audit) = RecordsAfter(Len(returned))
    /\ \A i \in DOMAIN returned : Accounted(i)

(* A put or delete that reported success did all of it, whatever failed     *)
(* part-way before and was tried again: the value and its metadata are     *)
(* those of the last put, or both are gone.  (Metadata put with an empty   *)
(* kind cannot be read back from the keychain.)                            *)
WritesWhole ==
    write = AtRest /\ reported.ok =>
        IF reported.op = Delete THEN value = {} /\ meta = {}
        ELSE /\ value = {reported.op.v}
             /\ \/ backend = "memory" /\ meta = {reported.op.m}
                \/ backend = "keychain" /\ reported.op.m.kind = <<>>
                \/ /\ backend = "keychain"
                   /\ UNION {decode_metadata(l) : l \in meta} = {reported.op.m}

(* Secrets (broker.rs, keychain.rs): one audit record for each call, with   *)
(* the outcome its caller saw; what released anything was allowed when it  *)
(* was authorized; and a put or delete that reported success did all of it. *)
SecretsAccounted == AuditComplete /\ WritesWhole
=============================================================================
