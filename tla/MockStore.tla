------------------------------ MODULE MockStore ------------------------------
(***************************************************************************)
(* The in-memory repositories of testkit/src/store.rs, operation by        *)
(* operation in the order its code checks.  Its maps are the tables of     *)
(* StoreRows; "uris" is the second index of the artifact map.              *)
(***************************************************************************)
EXTENDS StoreRows

(* insert_unique: the key's entry is free *)
InsertUnique(db, t, k, row) ==
    Write(db, <<Unique(~Has(db, t, k))>>, Put(db, t, k, row))
CheckLiteral(value, allowed) == Precondition(value \in allowed)
Get(db, t, k) ==
    IF Has(db, t, k) THEN [r |-> "Some", row |-> db[t][k]] ELSE [r |-> "None"]

-----------------------------------------------------------------------------
\* sessions, agent specs, tasks, runs

InsertSession(db, k, new) == InsertUnique(db, "sessions", k, new)

InsertSpec(db, k, new) ==
    IF Has(db, "specs", k)
      THEN Answer(db, Unique(db.specs[k] = new))
      ELSE Write(db, <<Unique(~\E r \in Rows(db, "specs") : r.digest = new.digest)>>,
                 Put(db, "specs", k, new))

TasksBySession(db, s) == Ordered(Matching(db, "tasks", LAMBDA r : r.session = s), LAMBDA k : k)
InsertTask(db, k, new) ==
    Then(db, Precondition(HasOpt(db, "sessions", new.session)),
         InsertUnique(db, "tasks", k, new))

RunsByTask(db, t) == Ordered(Matching(db, "runs", LAMBDA r : r.task = t), LAMBDA k : k)
ChildRuns(db, p) == Ordered(Matching(db, "runs", LAMBDA r : r.parent = p), LAMBDA k : k)
ActiveRuns(db) == Ordered(Matching(db, "runs", LAMBDA r : r.state # "Completed"), LAMBDA k : k)
InsertRun(db, k, new) ==
    Then(db, Precondition(Has(db, "tasks", new.task)),
    Then(db, Precondition(HasOpt(db, "runs", new.parent)),
         InsertUnique(db, "runs", k, [revision |-> 0, token |-> Null] @@ new)))
CasRun(db, k, expect, patch, bump) ==
    Cas(db, "runs", k,
        LAMBDA r : r.revision = expect.revision /\ expect.state \in {"any", r.state},
        LAMBDA r : patch @@ [r EXCEPT !.revision = @ + bump], NoChecks)

-----------------------------------------------------------------------------
\* the dependency graph and resolved environments

Dependencies(db, t) ==
    Ordered(Matching(db, "dependencies", LAMBDA r : r.task = t),
            LAMBDA k : 10 * db.dependencies[k].revision + k)

(* the breadth-first search: the runs seen after each round of the queue *)
Reaches(db, from, to) ==
    LET seen[n \in 0..Cardinality(Refs)] ==
          IF n = 0 THEN {from}
          ELSE seen[n - 1] \cup {d.target : d \in {e \in Rows(db, "dependencies") :
                                                     e.source \in seen[n - 1]}}
    IN  to \in seen[Cardinality(Refs)]

EnsureHead(db, t) ==
    Answer(IF Has(db, "heads", t) THEN db ELSE Put(db, "heads", t, [revision |-> 0]), "Ok")
CasHead(db, t, expected) ==
    Cas(db, "heads", t, LAMBDA r : r.revision = expected,
        LAMBDA r : [r EXCEPT !.revision = @ + 1], NoChecks)
InsertDependency(db, k, new, expected) ==
    LET added == InsertUnique(db, "dependencies", k, [revision |-> expected] @@ new)
    IN  Then(db, Found(Has(db, "heads", new.task)),
        Then(db, Unique(db.heads[new.task].revision = expected),
        Then(db, Precondition(Has(db, "runs", new.source) /\ Has(db, "runs", new.target)),
        Then(db, Unique(~Reaches(db, new.target, new.source)),
        Then(db, Unique(~\E r \in Rows(db, "dependencies") :
                           r.source = new.source /\ r.target = new.target),
        Then(db, added.r,
             Answer([added.db EXCEPT !.heads[new.task].revision = @ + 1], "Ok")))))))

BindingsOf(db, e) == Ordered({k \in DOMAIN db.bindings : k[1] = e}, LAMBDA k : k[2])
InsertEnvironment(db, k, new) ==
    Then(db, Unique(~\E r \in Rows(db, "environments") : r.run = new.run),
         InsertUnique(db, "environments", k, new))
InsertBindings(db, e, ports) ==
    Then(db, Precondition(Has(db, "environments", e)),
         FoldLeft(LAMBDA acc, p :
                    IF acc.r # "Ok" THEN acc
                    ELSE InsertUnique(acc.db, "bindings", <<e, p>>, [adapter |-> 1]),
                  Answer(db, "Ok"), ports))

-----------------------------------------------------------------------------
\* effects, artifacts, reservations, timers

EffectsByRun(db, run) ==
    Ordered(Matching(db, "effects", LAMBDA r : r.run = run),
            LAMBDA k : 10 * db.effects[k].step + k)
InsertEffect(db, k, new) ==
    Then(db, Precondition(Has(db, "runs", new.run)),
    Then(db, Unique(~\E r \in Rows(db, "effects") :
                       r.run = new.run /\ r.identity = new.identity),
         InsertUnique(db, "effects", k, [token |-> Null, lease |-> Null] @@ new)))
ClaimEffect(db, k, lease, now) ==
    LET row == db.effects[k]
        eligible == \/ row.state = "Prepared"
                    \/ row.state = "Claimed" /\ row.lease # Null /\ row.lease <= now
    IN  IF ~Has(db, "effects", k) \/ ~eligible THEN Answer(db, Null)
        ELSE Answer(Put(db, "effects", k, [row EXCEPT !.state = "Claimed", !.token = @ + 1,
                                                      !.lease = lease]),
                    row.token + 1)
CasEffect(db, k, state, token, patch) ==
    Cas(db, "effects", k, LAMBDA r : r.state = state /\ (token # Null => r.token = token),
        LAMBDA r : patch @@ r, NoChecks)

ArtifactByUri(db, u) ==
    IF u \in DOMAIN db.uris THEN {db.uris[u]} \cap DOMAIN db.artifacts ELSE {}
ArtifactsByRun(db, run) == Matching(db, "artifacts", LAMBDA r : r.run = run)
InsertArtifact(db, k, new) ==
    LET indexed == Put(db, "uris", new.uri, k)
    IN  Then(db, Precondition(Has(db, "runs", new.run)),
        Then(db, Precondition(HasOpt(db, "effects", new.effect)),
        Then(db, Unique(new.uri \notin DOMAIN db.uris),
             InsertUnique(indexed, "artifacts", k, new))))

ReservationsByRun(db, run) ==
    Ordered(Matching(db, "reservations", LAMBDA r : r.run = run), LAMBDA k : k)
ChildReservations(db, p) ==
    Ordered(Matching(db, "reservations", LAMBDA r : r.parent = p), LAMBDA k : k)
InsertReservation(db, k, new) == InsertUnique(db, "reservations", k, new)
CasReservation(db, k, state, patch) ==
    Cas(db, "reservations", k, LAMBDA r : r.state = state, LAMBDA r : patch @@ r, NoChecks)

DueTimers(db, now) ==
    Ordered(Matching(db, "timers", LAMBDA r : r.due <= now), LAMBDA k : 10 * db.timers[k].due + k)
TimersByRun(db, run) ==
    Ordered(Matching(db, "timers", LAMBDA r : r.run = run), LAMBDA k : 10 * db.timers[k].due + k)
InsertTimer(db, k, new) ==
    Then(db, Precondition(HasOpt(db, "runs", new.run)),
         InsertUnique(db, "timers", k, [owner |-> Null] @@ new))
CasTimer(db, k, state, version, patch) ==
    Cas(db, "timers", k, LAMBDA r : r.state = state /\ r.version = version,
        LAMBDA r : patch @@ [r EXCEPT !.version = @ + 1], NoChecks)

-----------------------------------------------------------------------------
\* workspaces and leases

InsertWorkspace(db, k, new) == InsertUnique(db, "workspaces", k, new)
CheckExclusiveLease(db, row, exclude) ==
    Unique(~(/\ row.mode = "exclusive"
             /\ row.enforcement = "active"
             /\ \E l \in DOMAIN db.leases :
                  /\ db.leases[l].workspace = row.workspace
                  /\ db.leases[l].mode = "exclusive"
                  /\ db.leases[l].enforcement = "active"
                  /\ l # exclude))
InsertLease(db, k, new) ==
    Then(db, Precondition(Has(db, "workspaces", new.workspace)),
    Then(db, Precondition(Has(db, "runs", new.owner)),
    Then(db, CheckExclusiveLease(db, new, Null),
         InsertUnique(db, "leases", k, new))))
(* a mutant: the update forgets the partial unique index *)
CasLeaseUnchecked(db, k, epoch, patch) ==
    Cas(db, "leases", k, LAMBDA r : r.epoch = epoch, LAMBDA r : patch @@ r,
        LAMBDA r : <<Precondition(Has(db, "runs", r.owner))>>)
CasLease(db, k, epoch, patch) ==
    Cas(db, "leases", k, LAMBDA r : r.epoch = epoch, LAMBDA r : patch @@ r,
        LAMBDA r : <<Precondition(Has(db, "runs", r.owner)), CheckExclusiveLease(db, r, k)>>)

-----------------------------------------------------------------------------
\* grants, delegation hops, approvals

InsertGrant(db, k, new) ==
    Then(db, Precondition(HasOpt(db, "runs", new.run)),
    Then(db, Precondition(HasOpt(db, "grants", new.parent)),
         InsertUnique(db, "grants", k, new)))
HopsOf(db, chain) == Ordered({k \in DOMAIN db.hops : k[1] = chain}, LAMBDA k : k[2])
InsertHop(db, k, new) ==
    Then(db, Precondition(HasOpt(db, "runs", new.run)), InsertUnique(db, "hops", k, new))

RequestsByRun(db, run) ==
    Ordered(Matching(db, "requests", LAMBDA r : r.run = run), LAMBDA k : k)
AllRequests(db) == Ordered(DOMAIN db.requests, LAMBDA k : k)
InsertRequest(db, k, new) ==
    Then(db, Unique(~\E r \in Rows(db, "requests") : r.digest = new.digest),
         InsertUnique(db, "requests", k, new))
ResponsesOf(db, k) == {q \in DOMAIN db.responses : q = k}
InsertResponse(db, k, new) ==
    Then(db, CheckLiteral(new.decision, ResponseDecisions),
    Then(db, Precondition(Has(db, "requests", k)),
         InsertUnique(db, "responses", k, new)))

-----------------------------------------------------------------------------
\* configuration generations

GenerationByDigest(db, d) == Matching(db, "generations", LAMBDA r : r.digest = d)
GetActive(db) == Get(db, "active", 1)
InsertGeneration(db, k, new) ==
    Then(db, CheckLiteral(new.validation, ValidationStates),
    Then(db, CheckLiteral(new.test, TestStates),
    Then(db, Unique(~\E r \in Rows(db, "generations") : r.digest = new.digest),
         InsertUnique(db, "generations", k, new))))

(* one field after the other: a literal refused leaves the earlier field set *)
SetGenerationStates(db, k, patch) ==
    LET set(store, field, allowed) ==
          IF field \notin DOMAIN patch THEN Answer(store, "Ok")
          ELSE Then(store, CheckLiteral(patch[field], allowed),
                    Answer([store EXCEPT !.generations[k][field] = patch[field]], "Ok"))
        first == set(db, "validation", ValidationStates)
    IN  Then(db, Found(Has(db, "generations", k)),
        Then(db, first.r, set(first.db, "test", TestStates)))
CasActive(db, expected, k) ==
    LET current == IF Has(db, "active", 1) THEN db.active[1].revision ELSE 0
    IN  IF current # expected THEN Answer(db, "False")
        ELSE Then(db, Found(Has(db, "generations", k)),
                  Answer(Put(db, "active", 1, [generation |-> k, revision |-> expected + 1]),
                         "True"))

-----------------------------------------------------------------------------
\* adapters

Registrations(db) == Ordered(DOMAIN db.registrations, LAMBDA k : k)
InsertRegistration(db, k, new) == InsertUnique(db, "registrations", k, new)
SetConformanceState(db, k, value) ==
    Then(db, Found(Has(db, "registrations", k)),
         Answer([db EXCEPT !.registrations[k].conformance = value], "Ok"))
InsertInstance(db, k, new) ==
    Then(db, CheckLiteral(new.state, InstanceStates),
    Then(db, Precondition(Has(db, "registrations", new.registration)),
         InsertUnique(db, "instances", k, new)))
CasInstanceState(db, k, state, patch) ==
    Cas(db, "instances", k, LAMBDA r : r.state = state, LAMBDA r : patch @@ r,
        LAMBDA r : <<CheckLiteral(r.state, InstanceStates)>>)
InsertConformanceReport(db, k, new) ==
    Then(db, CheckLiteral(new.result, ReportResults),
    Then(db, Precondition(Has(db, "registrations", k)),
         InsertUnique(db, "reports", k, new)))

-----------------------------------------------------------------------------
\* turns and decisions

InsertTurn(db, k, new) ==
    Then(db, CheckLiteral(new.state, TurnStates),
    Then(db, Precondition(Has(db, "runs", new.run)),
         InsertUnique(db, "turns", k, new)))
CasTurn(db, k, state, value) ==
    Cas(db, "turns", k, LAMBDA r : r.state = state, LAMBDA r : [r EXCEPT !.state = value],
        LAMBDA r : <<CheckLiteral(r.state, TurnStates)>>)
InsertDecision(db, k, new) ==
    Then(db, CheckLiteral(new.type, DecisionTypes),
    Then(db, Precondition(Has(db, "runs", k[1])),
    Then(db, Precondition(Has(db, "turns", new.turn)),
         InsertUnique(db, "decisions", k, new))))

-----------------------------------------------------------------------------
\* idempotency records, event streams, the outbox

InsertIdempotency(db, k, new) == InsertUnique(db, "idempotency", k, new)
AllocateSequence(db, s) ==
    LET head == IF Has(db, "streams", s) THEN db.streams[s].last ELSE 0
    IN  Answer(Put(db, "streams", s, [last |-> head + 1]), head + 1)
InsertOutbox(db, k, new) ==
    Then(db, Unique(~Has(db, "outbox", k)),
    Then(db, Unique(~\E r \in Rows(db, "outbox") :
                       r.stream = new.stream /\ r.sequence = new.sequence),
         Answer(Put(db, "outbox", k, [journal |-> FALSE, live |-> FALSE] @@ new), "Ok")))
ScanUnpublished(db, limit) ==
    LET rows == Ordered(Matching(db, "outbox", LAMBDA r : ~r.journal),
                        LAMBDA k : 10 * db.outbox[k].stream + db.outbox[k].sequence)
    IN  SubSeq(rows, 1, IF limit < Len(rows) THEN limit ELSE Len(rows))
MarkPublished(db, k, kind) ==
    Then(db, Found(Has(db, "outbox", k)), Answer([db EXCEPT !.outbox[k][kind] = TRUE], "Ok"))
=============================================================================
