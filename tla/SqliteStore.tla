----------------------------- MODULE SqliteStore -----------------------------
(***************************************************************************)
(* The repositories of kernel-store-sqlite/src/repos over the schema of    *)
(* agent-os/schema/kernel_store.sql.  SQLite evaluates a statement's CHECK *)
(* constraints first, then its unique indexes, and its foreign keys when   *)
(* the statement ends, with the new row in place; mapping.rs turns a       *)
(* uniqueness fault into Conflict and any other into FailedPrecondition.   *)
(* A conditional UPDATE answers whether its WHERE clause found the row.    *)
(***************************************************************************)
EXTENDS StoreRows, Relation

(* classify_sqlite: what each kind of constraint fault is reported as *)
ClassifySqlite(check, unique, refs) ==
    <<Precondition(check), Unique(unique), Precondition(refs)>>

Insert(db, t, k, row, check, unique, Referenced(_)) ==
    LET after == Put(db, t, k, row)
    IN  Write(db, ClassifySqlite(check, ~Has(db, t, k) /\ unique, Referenced(after)), after)
NoReferences(db) == TRUE

(* a read decodes every column and fails closed on a value it does not know *)
Decode(db, t, k) ==
    IF ~Has(db, t, k) THEN [r |-> "None"]
    ELSE IF db[t][k] \in RowOf[t] THEN [r |-> "Some", row |-> db[t][k]]
    ELSE [r |-> "Internal"]

-----------------------------------------------------------------------------
\* sessions, agent specs, tasks, runs

GetSession(db, k) == Decode(db, "sessions", k)
InsertSession(db, k, new) == Insert(db, "sessions", k, new, TRUE, TRUE, NoReferences)

GetSpec(db, k) == Decode(db, "specs", k)
InsertSpec(db, k, new) ==
    IF Has(db, "specs", k)
      THEN Answer(db, Unique(db.specs[k] = new))
      ELSE Insert(db, "specs", k, new, TRUE, \A r \in Rows(db, "specs") : r.digest # new.digest,
                  NoReferences)

GetTask(db, k) == Decode(db, "tasks", k)
TasksBySession(db, s) == Ordered(Matching(db, "tasks", LAMBDA r : r.session = s), LAMBDA k : k)
InsertTask(db, k, new) ==
    Insert(db, "tasks", k, new, TRUE, TRUE, LAMBDA after : HasOpt(after, "sessions", new.session))

GetRun(db, k) == Decode(db, "runs", k)
RunsByTask(db, t) == Ordered(Matching(db, "runs", LAMBDA r : r.task = t), LAMBDA k : k)
ChildRuns(db, p) == Ordered(Matching(db, "runs", LAMBDA r : r.parent = p), LAMBDA k : k)
ActiveRuns(db) == Ordered(Matching(db, "runs", LAMBDA r : r.state # "Completed"), LAMBDA k : k)
InsertRun(db, k, new) ==
    Insert(db, "runs", k, [revision |-> 0, token |-> Null] @@ new, TRUE, TRUE,
           LAMBDA after : /\ Has(after, "tasks", new.task)
                          /\ HasOpt(after, "runs", new.parent)
                          /\ HasOpt(after, "environments", new.environment))
CasRun(db, k, expect, patch, bump) ==
    Cas(db, "runs", k,
        LAMBDA r : /\ r.revision = expect.revision
                   /\ expect.state \in {"any", r.state},
        LAMBDA r : patch @@ [r EXCEPT !.revision = @ + bump],
        LAMBDA r : <<Precondition(HasOpt(db, "environments", r.environment))>>)

-----------------------------------------------------------------------------
\* the dependency graph and resolved environments

GetHead(db, t) == Decode(db, "heads", t)
GetDependency(db, k) == Decode(db, "dependencies", k)
Dependencies(db, t) ==
    Ordered(Matching(db, "dependencies", LAMBDA r : r.task = t),
            LAMBDA k : 10 * db.dependencies[k].revision + k)

(* the recursive query: the endpoints a path of stored edges leads to *)
IsReachableOn(db, from, to) ==
    LET edge == [p \in Refs \X Refs |-> \E d \in Rows(db, "dependencies") :
                                          d.source = p[1] /\ d.target = p[2]]
    IN  ReflexiveTransitiveClosure(edge, Refs)[from, to]

EnsureHead(db, t) ==
    IF Has(db, "heads", t) THEN Answer(db, "Ok")
    ELSE Insert(db, "heads", t, [revision |-> 0], TRUE, TRUE,
                LAMBDA after : Has(after, "tasks", t))
CasHead(db, t, expected) ==
    Cas(db, "heads", t, LAMBDA r : r.revision = expected,
        LAMBDA r : [r EXCEPT !.revision = @ + 1], NoChecks)
InsertDependency(db, k, new, expected) ==
    LET added == Insert(db, "dependencies", k, [revision |-> expected] @@ new,
                        new.condition \in Conditions,
                        \A r \in Rows(db, "dependencies") :
                          <<r.source, r.target>> # <<new.source, new.target>>,
                        LAMBDA after : /\ Has(after, "tasks", new.task)
                                       /\ Has(after, "runs", new.source)
                                       /\ Has(after, "runs", new.target))
    IN  Then(db, Found(Has(db, "heads", new.task)),
        Then(db, Unique(db.heads[new.task].revision = expected),
        Then(db, Unique(~IsReachableOn(db, new.target, new.source)),
        Then(db, added.r, Answer(CasHead(added.db, new.task, expected).db, "Ok")))))

GetEnvironment(db, k) == Decode(db, "environments", k)
GetBinding(db, k) == Decode(db, "bindings", k)
BindingsOf(db, e) ==
    Ordered({k \in DOMAIN db.bindings : k[1] = e}, LAMBDA k : k[2])
InsertEnvironment(db, k, new) ==
    Insert(db, "environments", k, new, TRUE,
           \A r \in Rows(db, "environments") : r.run # new.run, NoReferences)

(* one statement per binding; the first that fails ends the loop *)
InsertBindings(db, e, ports) ==
    FoldLeft(LAMBDA acc, p :
               IF acc.r # "Ok" THEN acc
               ELSE Insert(acc.db, "bindings", <<e, p>>, [adapter |-> 1], TRUE, TRUE,
                           LAMBDA after : Has(after, "environments", e)),
             Answer(db, "Ok"), ports)

-----------------------------------------------------------------------------
\* effects, artifacts, reservations, timers

GetEffect(db, k) == Decode(db, "effects", k)
EffectsByRun(db, run) ==
    Ordered(Matching(db, "effects", LAMBDA r : r.run = run),
            LAMBDA k : 10 * db.effects[k].step + k)
InsertEffect(db, k, new) ==
    Insert(db, "effects", k, [token |-> Null, lease |-> Null] @@ new, TRUE,
           \A r \in Rows(db, "effects") : <<r.run, r.identity>> # <<new.run, new.identity>>,
           LAMBDA after : Has(after, "runs", new.run))

(* one conditional UPDATE that answers the token it stored *)
ClaimEffect(db, k, lease, now) ==
    LET free(r) == \/ r.state = "Prepared"
                   \/ r.state = "Claimed" /\ r.lease # Null /\ r.lease <= now
        row == db.effects[k]
    IN  IF ~Has(db, "effects", k) \/ ~free(row) THEN Answer(db, Null)
        ELSE Answer(Put(db, "effects", k, [row EXCEPT !.state = "Claimed", !.token = @ + 1,
                                                      !.lease = lease]),
                    row.token + 1)
CasEffect(db, k, state, token, patch) ==
    Cas(db, "effects", k, LAMBDA r : r.state = state /\ token \in {Null, r.token},
        LAMBDA r : patch @@ r, NoChecks)

GetArtifact(db, k) == Decode(db, "artifacts", k)
ArtifactByUri(db, u) == Matching(db, "artifacts", LAMBDA r : r.uri = u)
ArtifactsByRun(db, run) == Matching(db, "artifacts", LAMBDA r : r.run = run)
InsertArtifact(db, k, new) ==
    Insert(db, "artifacts", k, new, TRUE, \A r \in Rows(db, "artifacts") : r.uri # new.uri,
           LAMBDA after : Has(after, "runs", new.run) /\ HasOpt(after, "effects", new.effect))

GetReservation(db, k) == Decode(db, "reservations", k)
ReservationsByRun(db, run) ==
    Ordered(Matching(db, "reservations", LAMBDA r : r.run = run), LAMBDA k : k)
ChildReservations(db, p) ==
    Ordered(Matching(db, "reservations", LAMBDA r : r.parent = p), LAMBDA k : k)
InsertReservation(db, k, new) ==
    Insert(db, "reservations", k, new, TRUE, TRUE,
           LAMBDA after : Has(after, "runs", new.run) /\ HasOpt(after, "reservations", new.parent))
CasReservation(db, k, state, patch) ==
    Cas(db, "reservations", k, LAMBDA r : r.state = state, LAMBDA r : patch @@ r, NoChecks)

GetTimer(db, k) == Decode(db, "timers", k)
DueTimers(db, now) ==
    Ordered(Matching(db, "timers", LAMBDA r : r.due <= now), LAMBDA k : 10 * db.timers[k].due + k)
TimersByRun(db, run) ==
    Ordered(Matching(db, "timers", LAMBDA r : r.run = run), LAMBDA k : 10 * db.timers[k].due + k)
InsertTimer(db, k, new) ==
    Insert(db, "timers", k, [owner |-> Null] @@ new, TRUE, TRUE,
           LAMBDA after : HasOpt(after, "runs", new.run))
CasTimer(db, k, state, version, patch) ==
    Cas(db, "timers", k, LAMBDA r : r.state = state /\ r.version = version,
        LAMBDA r : patch @@ [r EXCEPT !.version = @ + 1], NoChecks)

-----------------------------------------------------------------------------
\* workspaces and leases

GetWorkspace(db, k) == Decode(db, "workspaces", k)
InsertWorkspace(db, k, new) ==
    Insert(db, "workspaces", k, new, TRUE, TRUE,
           LAMBDA after : HasOpt(after, "workspaces", new.parent))

(* uq_workspace_exclusive_lease, as row k of the table would have it *)
ExclusiveLeaseFree(db, k, row) ==
    \/ row.mode # "exclusive" \/ row.enforcement # "active"
    \/ \A l \in DOMAIN db.leases \ {k} :
         ~(/\ db.leases[l].workspace = row.workspace
           /\ db.leases[l].mode = "exclusive"
           /\ db.leases[l].enforcement = "active")
GetLease(db, k) == Decode(db, "leases", k)
InsertLease(db, k, new) ==
    Insert(db, "leases", k, new, TRUE, ExclusiveLeaseFree(db, k, new),
           LAMBDA after : Has(after, "runs", new.owner))
CasLease(db, k, epoch, patch) ==
    Cas(db, "leases", k, LAMBDA r : r.epoch = epoch, LAMBDA r : patch @@ r,
        LAMBDA r : ClassifySqlite(TRUE, ExclusiveLeaseFree(db, k, r), Has(db, "runs", r.owner)))

-----------------------------------------------------------------------------
\* grants, delegation hops, approvals

GetGrant(db, k) == Decode(db, "grants", k)
InsertGrant(db, k, new) ==
    Insert(db, "grants", k, new, TRUE, TRUE,
           LAMBDA after : HasOpt(after, "runs", new.run) /\ HasOpt(after, "grants", new.parent))

GetHop(db, k) == Decode(db, "hops", k)
HopsOf(db, chain) == Ordered({k \in DOMAIN db.hops : k[1] = chain}, LAMBDA k : k[2])
InsertHop(db, k, new) ==
    Insert(db, "hops", k, new, TRUE, TRUE, LAMBDA after : HasOpt(after, "runs", new.run))

GetRequest(db, k) == Decode(db, "requests", k)
RequestsByRun(db, run) ==
    Ordered(Matching(db, "requests", LAMBDA r : r.run = run), LAMBDA k : k)
AllRequests(db) == Ordered(DOMAIN db.requests, LAMBDA k : k)
InsertRequest(db, k, new) ==
    Insert(db, "requests", k, new, TRUE, \A r \in Rows(db, "requests") : r.digest # new.digest,
           NoReferences)

GetResponse(db, k) == Decode(db, "responses", k)
ResponsesOf(db, k) == {k} \cap DOMAIN db.responses
InsertResponse(db, k, new) ==
    Insert(db, "responses", k, new, new.decision \in ResponseDecisions, TRUE,
           LAMBDA after : Has(after, "requests", k))

-----------------------------------------------------------------------------
\* configuration generations

GetGeneration(db, k) == Decode(db, "generations", k)
GenerationByDigest(db, d) == Matching(db, "generations", LAMBDA r : r.digest = d)
GetActive(db) == Decode(db, "active", 1)
InsertGeneration(db, k, new) ==
    Insert(db, "generations", k, new,
           new.validation \in ValidationStates /\ new.test \in TestStates,
           \A r \in Rows(db, "generations") : r.digest # new.digest, NoReferences)
SetGenerationStates(db, k, patch) ==
    LET row == patch @@ db.generations[k]
    IN  Then(db, Found(Has(db, "generations", k)),
        Then(db, Precondition(row.validation \in ValidationStates /\ row.test \in TestStates),
             Answer(Put(db, "generations", k, row), "Ok")))
CasActive(db, expected, k) ==
    LET current == IF Has(db, "active", 1) THEN db.active[1].revision ELSE 0
    IN  IF current # expected THEN Answer(db, "False")
        ELSE Then(db, Found(Has(db, "generations", k)),
                  Answer(Put(db, "active", 1, [generation |-> k, revision |-> expected + 1]),
                         "True"))

-----------------------------------------------------------------------------
\* adapters; one number stands for (adapter id, version, bundle digest)

GetRegistration(db, k) == Decode(db, "registrations", k)
Registrations(db) == Ordered(DOMAIN db.registrations, LAMBDA k : k)
InsertRegistration(db, k, new) == Insert(db, "registrations", k, new, TRUE, TRUE, NoReferences)
SetConformanceState(db, k, value) ==
    Answer(IF Has(db, "registrations", k)
             THEN [db EXCEPT !.registrations[k].conformance = value] ELSE db, "Ok")

GetInstance(db, k) == Decode(db, "instances", k)
InsertInstance(db, k, new) ==
    Insert(db, "instances", k, new, new.state \in InstanceStates, TRUE,
           LAMBDA after : Has(after, "registrations", new.registration))
CasInstanceState(db, k, state, patch) ==
    Cas(db, "instances", k, LAMBDA r : r.state = state, LAMBDA r : patch @@ r,
        LAMBDA r : <<Precondition(r.state \in InstanceStates)>>)

GetConformanceReport(db, k) == Decode(db, "reports", k)
InsertConformanceReport(db, k, new) ==
    Insert(db, "reports", k, new, new.result \in ReportResults, TRUE,
           LAMBDA after : Has(after, "registrations", k))

-----------------------------------------------------------------------------
\* turns and decisions; a decision's key is <<run, decision id>>

GetTurn(db, k) == Decode(db, "turns", k)
InsertTurn(db, k, new) ==
    Insert(db, "turns", k, new, new.state \in TurnStates, TRUE,
           LAMBDA after : Has(after, "runs", new.run))
CasTurn(db, k, state, value) ==
    Cas(db, "turns", k, LAMBDA r : r.state = state, LAMBDA r : [r EXCEPT !.state = value],
        LAMBDA r : <<Precondition(r.state \in TurnStates)>>)
GetDecision(db, k) == Decode(db, "decisions", k)
InsertDecision(db, k, new) ==
    Insert(db, "decisions", k, new, new.type \in DecisionTypes,
           \A d \in DOMAIN db.decisions : d[2] # k[2],
           LAMBDA after : Has(after, "runs", k[1]) /\ Has(after, "turns", new.turn))

-----------------------------------------------------------------------------
\* idempotency records, event streams, the outbox

LookupIdempotency(db, k) == Decode(db, "idempotency", k)
InsertIdempotency(db, k, new) == Insert(db, "idempotency", k, new, TRUE, TRUE, NoReferences)

AllocateSequence(db, s) ==
    LET last == IF Has(db, "streams", s) THEN db.streams[s].last ELSE 0
    IN  Answer(Put(db, "streams", s, [last |-> last + 1]), last + 1)
GetEvent(db, k) == Decode(db, "outbox", k)
InsertOutbox(db, k, new) ==
    Insert(db, "outbox", k, [journal |-> FALSE, live |-> FALSE] @@ new, TRUE,
           \A r \in Rows(db, "outbox") : <<r.stream, r.sequence>> # <<new.stream, new.sequence>>,
           NoReferences)
ScanUnpublished(db, limit) ==
    LET all == Ordered(Matching(db, "outbox", LAMBDA r : ~r.journal),
                       LAMBDA k : 10 * db.outbox[k].stream + db.outbox[k].sequence)
    IN  SubSeq(all, 1, IF Len(all) < limit THEN Len(all) ELSE limit)
MarkPublished(db, k, kind) ==
    Then(db, Found(Has(db, "outbox", k)), Answer([db EXCEPT !.outbox[k][kind] = TRUE], "Ok"))
=============================================================================
