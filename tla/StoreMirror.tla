----------------------------- MODULE StoreMirror -----------------------------
(***************************************************************************)
(* The SQLite store and its in-memory double given the same operations,    *)
(* one after the other, within one write transaction of each.  A behaviour *)
(* works on one group of tables (focus), with the rows other groups own    *)
(* already there.  The double declares some constraints it does not check  *)
(* (testkit/src/store.rs:108-113); operations that only those refuse are   *)
(* left out.  Corners names operations, given too, on which the two differ *)
(* without the double saying so:                                           *)
(*   "order"      a taken key and a missing reference at once, or a row    *)
(*                that refers to itself: the order of the checks shows;    *)
(*   "endpoint"   a dependency of a missing run on itself;                 *)
(*   "condition"  a dependency with the unspecified condition;             *)
(*   "bindings"   no bindings for a missing environment;                   *)
(*   "artifact"   an artifact id that is taken, with a new URI;            *)
(*   "workspace"  a lease on a workspace without a row;                    *)
(*   "literal"    two state literals of which only the second is unknown;  *)
(*   "conformance" the conformance state of a missing registration;        *)
(*   "decision"   one decision id for two runs.                            *)
(***************************************************************************)
EXTENDS StoreRows

CONSTANTS
    Corners,   \* the corners included
    MaxCount   \* bound of revisions, versions, tokens and sequences

VARIABLES
    focus,  \* the group of tables in use
    sql,    \* the tables of the SQLite store
    mock,   \* the maps of the double
    agree   \* whether their last answers were the same

S == INSTANCE SqliteStore
M == INSTANCE MockStore

vars == <<focus, sql, mock, agree>>

Groups == {"work", "run", "spec", "graph", "environment", "effect", "artifact", "budget", "timer",
           "workspace", "security", "approval", "config", "adapter", "loop", "log"}

BaseRun == [task |-> 1, parent |-> Null, state |-> "Ready", revision |-> 0,
            cancellation |-> 0, environment |-> Null, token |-> Null]

(* tasks and runs exist for every key, except where they are what is inserted *)
BaseStore ==
    [EmptyStore EXCEPT !.tasks = [k \in Keys |-> [session |-> Null]],
                       !.runs = [k \in Keys |-> BaseRun]]

Init ==
    /\ focus \in Groups
    /\ sql = IF focus = "work" THEN EmptyStore ELSE BaseStore
    /\ mock = sql @@ [uris |-> NoRows]
    /\ agree = TRUE

Both(s, m) ==
    /\ sql' = s.db
    /\ mock' = m.db
    /\ agree' = (s.r = m.r)
    /\ UNCHANGED focus

(* not both a key that is taken and a reference that is missing, nor a     *)
(* reference to the row itself: there the two stores' order of checking,   *)
(* and what SQLite's deferred reference check sees, shows in the error     *)
OneFault(t, k, self, refs) == "order" \in Corners \/ ((Has(sql, t, k) => refs) /\ self # k)

-----------------------------------------------------------------------------
Work ==
    /\ focus = "work"
    /\ \/ \E k \in Keys : Both(S!InsertSession(sql, k, [created |-> 1]),
                               M!InsertSession(mock, k, [created |-> 1]))
       \/ \E k \in Keys, s \in OptRefs :
            /\ OneFault("tasks", k, Null, HasOpt(sql, "sessions", s))
            /\ Both(S!InsertTask(sql, k, [session |-> s]), M!InsertTask(mock, k, [session |-> s]))
       \/ \E k \in Keys, t \in Keys, p \in OptRefs :
            LET new == [task |-> t, parent |-> p, state |-> "Ready", cancellation |-> 0,
                        environment |-> Null]
            IN  /\ OneFault("runs", k, p, Has(sql, "tasks", t) /\ HasOpt(sql, "runs", p))
                /\ Both(S!InsertRun(sql, k, new), M!InsertRun(mock, k, new))

RunUpdates ==
    /\ focus \in {"run", "environment"}
    /\ \E k \in Refs, rev \in 0..MaxCount, st \in {"any", "Ready"}, bump \in {0, 1},
          p \in {[state |-> "Completed"], [token |-> 1, state |-> "Running"],
                 [environment |-> 1]} :
         /\ "environment" \in DOMAIN p => Has(sql, "environments", 1)
         /\ focus = "environment" => k = 1 /\ "environment" \in DOMAIN p
         /\ Has(sql, "runs", k) => sql.runs[k].revision < MaxCount
         /\ Both(S!CasRun(sql, k, [revision |-> rev, state |-> st], p, bump),
                 M!CasRun(mock, k, [revision |-> rev, state |-> st], p, bump))

Graph ==
    /\ focus = "graph"
    /\ \/ \E t \in Keys : Both(S!EnsureHead(sql, t), M!EnsureHead(mock, t))
       \/ \E t \in Keys, rev \in 0..1 : Both(S!CasHead(sql, t, rev), M!CasHead(mock, t, rev))
       \/ \E k \in Keys, t \in Keys, rev \in 0..MaxCount, a \in Refs, b \in Refs,
             c \in {"any_terminal"} \cup (IF "condition" \in Corners THEN {"unspecified"} ELSE {}) :
            LET new == [task |-> t, source |-> a, target |-> b, condition |-> c]
            IN  /\ OneFault("dependencies", k, Null, Missing \notin {a, b})
                /\ "endpoint" \in Corners \/ a # Missing \/ b # Missing
                /\ Both(S!InsertDependency(sql, k, new, rev), M!InsertDependency(mock, k, new, rev))

AgentSpec ==
    /\ focus = "spec"
    /\ \E k \in Keys, d \in {1, 2}, b \in {1, 2} :
         Both(S!InsertSpec(sql, k, [digest |-> d, body |-> b]),
              M!InsertSpec(mock, k, [digest |-> d, body |-> b]))

Environment ==
    /\ focus = "environment"
    /\ \/ \E k \in Keys, r \in Keys : Both(S!InsertEnvironment(sql, k, [run |-> r]),
                                           M!InsertEnvironment(mock, k, [run |-> r]))
       \/ \E k \in Keys, ports \in {<<>>, <<1>>, <<2, 1>>} :
            /\ "bindings" \in Corners \/ ports # <<>> \/ Has(sql, "environments", k)
            /\ Both(S!InsertBindings(sql, k, ports), M!InsertBindings(mock, k, ports))

Effect ==
    /\ focus = "effect"
    /\ \/ \E k \in Keys, r \in Refs, i \in {1, 2} :
            LET new == [run |-> r, identity |-> i, step |-> 3 - k, state |-> "Prepared"]
            IN  /\ OneFault("effects", k, Null, r # Missing)
                /\ Both(S!InsertEffect(sql, k, new), M!InsertEffect(mock, k, new))
       \/ \E k \in Keys, lease \in {2, 3}, now \in {1, 2} :
            /\ Has(sql, "effects", k) => sql.effects[k].token < MaxCount
            /\ Both(S!ClaimEffect(sql, k, lease, now), M!ClaimEffect(mock, k, lease, now))
       \/ \E k \in Keys, st \in {"Prepared", "Claimed"}, token \in 0..1,
             p \in {[state |-> "Succeeded"], [lease |-> 1]} :
            Both(S!CasEffect(sql, k, st, token, p), M!CasEffect(mock, k, st, token, p))

Artifact ==
    /\ focus = "artifact"
    /\ \/ \E k \in Keys : LET new == [run |-> k, identity |-> 1, step |-> 1, state |-> "Prepared"]
                          IN  Both(S!InsertEffect(sql, k, new), M!InsertEffect(mock, k, new))
       \/ \E k \in Keys, u \in {1, 2}, r \in Refs, e \in OptRefs :
            LET new == [uri |-> u, run |-> r, effect |-> e]
                refs == r # Missing /\ HasOpt(sql, "effects", e)
            IN  /\ OneFault("artifacts", k, Null, refs)
                /\ "order" \in Corners \/ refs \/ \A a \in Rows(sql, "artifacts") : a.uri # u
                /\ "artifact" \in Corners \/ ~Has(sql, "artifacts", k)
                /\ Both(S!InsertArtifact(sql, k, new), M!InsertArtifact(mock, k, new))

Budget ==
    /\ focus = "budget"
    /\ \/ \E k \in Keys, r \in Keys, p \in {Null} \cup DOMAIN sql.reservations :
            LET new == [run |-> r, parent |-> p, state |-> "reserved", token |-> 1]
            IN  Both(S!InsertReservation(sql, k, new), M!InsertReservation(mock, k, new))
       \/ \E k \in Keys, st \in {"reserved", "allocated"},
             p \in {[state |-> "allocated"], [token |-> 2]} :
            Both(S!CasReservation(sql, k, st, p), M!CasReservation(mock, k, st, p))

Timer ==
    /\ focus = "timer"
    /\ \/ \E k \in Keys, r \in OptRefs, d \in {1, 2} :
            LET new == [run |-> r, due |-> d, state |-> "scheduled", version |-> 0]
            IN  /\ OneFault("timers", k, Null, r # Missing)
                /\ Both(S!InsertTimer(sql, k, new), M!InsertTimer(mock, k, new))
       \/ \E k \in Keys, st \in {"scheduled", "claimed"}, v \in 0..MaxCount,
             p \in {[state |-> "claimed", owner |-> 1], [state |-> "fired"], [due |-> 2]} :
            /\ Has(sql, "timers", k) => sql.timers[k].version < MaxCount
            /\ Both(S!CasTimer(sql, k, st, v, p), M!CasTimer(mock, k, st, v, p))

Workspace ==
    /\ focus = "workspace"
    /\ \/ \E k \in Keys, p \in {Null} \cup DOMAIN sql.workspaces :
            Both(S!InsertWorkspace(sql, k, [parent |-> p]), M!InsertWorkspace(mock, k, [parent |-> p]))
       \/ \E k \in Keys, w \in Refs, r \in Refs, m \in {"shared", "exclusive"} :
            LET new == [workspace |-> w, owner |-> r, mode |-> m, epoch |-> 1,
                        enforcement |-> "active"]
            IN  /\ "workspace" \in Corners \/ Has(sql, "workspaces", w)
                /\ "order" \in Corners \/ r # Missing
                     \/ (~Has(sql, "leases", k) /\ S!ExclusiveLeaseFree(sql, k, new))
                /\ Both(S!InsertLease(sql, k, new), M!InsertLease(mock, k, new))
       \/ \E k \in Keys, e \in 1..2,
             p \in {[owner |-> 2, epoch |-> 2], [owner |-> Missing], [mode |-> "exclusive"],
                   [enforcement |-> "revoked"], [enforcement |-> "active", epoch |-> 1]} :
            Both(S!CasLease(sql, k, e, p), M!CasLease(mock, k, e, p))

Security ==
    /\ focus = "security"
    /\ \/ \E k \in Keys, r \in OptRefs, p \in OptRefs :
            LET new == [run |-> r, parent |-> p]
            IN  /\ OneFault("grants", k, p, r # Missing /\ HasOpt(sql, "grants", p))
                /\ Both(S!InsertGrant(sql, k, new), M!InsertGrant(mock, k, new))
       \/ \E c \in Keys, i \in {0, 1}, r \in OptRefs :
            /\ OneFault("hops", <<c, i>>, <<Null, Null>>, r # Missing)
            /\ Both(S!InsertHop(sql, <<c, i>>, [run |-> r]), M!InsertHop(mock, <<c, i>>, [run |-> r]))

Approval ==
    /\ focus = "approval"
    /\ \/ \E k \in Keys, d \in {1, 2}, r \in OptRefs :
            LET new == [digest |-> d, run |-> r]
            IN  Both(S!InsertRequest(sql, k, new), M!InsertRequest(mock, k, new))
       \/ \E k \in Refs, d \in ResponseDecisions \cup {Unknown} :
            Both(S!InsertResponse(sql, k, [decision |-> d]), M!InsertResponse(mock, k, [decision |-> d]))

Config ==
    /\ focus = "config"
    /\ \/ \E k \in Keys, d \in {1, 2}, v \in {"proposed", Unknown}, t \in {"untested", Unknown} :
            LET new == [digest |-> d, validation |-> v, test |-> t]
            IN  Both(S!InsertGeneration(sql, k, new), M!InsertGeneration(mock, k, new))
       \/ \E k \in Refs, p \in {[validation |-> "validated"], [test |-> "passed"],
                                [validation |-> "rejected", test |-> "failed"],
                                [validation |-> Unknown], [test |-> Unknown]}
                               \cup (IF "literal" \in Corners
                                     THEN {[validation |-> "validated", test |-> Unknown]} ELSE {}) :
            Both(S!SetGenerationStates(sql, k, p), M!SetGenerationStates(mock, k, p))
       \/ \E rev \in 0..MaxCount, k \in Refs :
            /\ rev < MaxCount
            /\ Both(S!CasActive(sql, rev, k), M!CasActive(mock, rev, k))

Adapter ==
    /\ focus = "adapter"
    /\ \/ \E k \in Keys : LET new == [conformance |-> "untested"]
                          IN  Both(S!InsertRegistration(sql, k, new), M!InsertRegistration(mock, k, new))
       \/ \E k \in Keys, v \in {"passed", "failed"} :
            /\ "conformance" \in Corners \/ Has(sql, "registrations", k)
            /\ Both(S!SetConformanceState(sql, k, v), M!SetConformanceState(mock, k, v))
       \/ \E k \in Keys, r \in Refs, st \in {"starting", Unknown} :
            LET new == [registration |-> r, state |-> st, heartbeat |-> Null]
            IN  /\ OneFault("instances", k, Null, Has(sql, "registrations", r))
                /\ Both(S!InsertInstance(sql, k, new), M!InsertInstance(mock, k, new))
       \/ \E k \in Keys, st \in {"starting", "ready"},
             p \in {[state |-> "ready", heartbeat |-> 1], [state |-> "exited"], [state |-> Unknown]} :
            Both(S!CasInstanceState(sql, k, st, p), M!CasInstanceState(mock, k, st, p))
       \/ \E k \in Refs, r \in ReportResults \cup {Unknown} :
            Both(S!InsertConformanceReport(sql, k, [result |-> r]),
                 M!InsertConformanceReport(mock, k, [result |-> r]))

Loop ==
    /\ focus = "loop"
    /\ \/ \E k \in Keys, r \in Refs, st \in {"issued", Unknown} :
            LET new == [run |-> r, state |-> st]
            IN  /\ OneFault("turns", k, Null, r # Missing)
                /\ Both(S!InsertTurn(sql, k, new), M!InsertTurn(mock, k, new))
       \/ \E k \in Keys, st \in {"issued", "accepted"}, v \in {"accepted", "stale", Unknown} :
            Both(S!CasTurn(sql, k, st, v), M!CasTurn(mock, k, st, v))
       \/ \E r \in Refs, d \in {1, 2}, t \in Refs, ty \in {"Complete", Unknown} :
            LET new == [turn |-> t, type |-> ty]
                refs == r # Missing /\ Has(sql, "turns", t)
            IN  /\ OneFault("decisions", <<r, d>>, <<Null, Null>>, refs)
                /\ "decision" \in Corners \/ \A k \in DOMAIN sql.decisions : k[2] = d => k[1] = r
                /\ Both(S!InsertDecision(sql, <<r, d>>, new), M!InsertDecision(mock, <<r, d>>, new))

Log ==
    /\ focus = "log"
    /\ \/ \E k \in Keys, d \in {1, 2} : Both(S!InsertIdempotency(sql, k, [digest |-> d]),
                                              M!InsertIdempotency(mock, k, [digest |-> d]))
       \/ \E s \in {1, 2} :
            /\ Has(sql, "streams", s) => sql.streams[s].last < MaxCount
            /\ Both(S!AllocateSequence(sql, s), M!AllocateSequence(mock, s))
       \/ \E k \in Keys, s \in {1, 2}, q \in 1..MaxCount :
            LET new == [stream |-> s, sequence |-> q]
            IN  Both(S!InsertOutbox(sql, k, new), M!InsertOutbox(mock, k, new))
       \/ \E k \in Refs, kind \in {"journal", "live"} :
            Both(S!MarkPublished(sql, k, kind), M!MarkPublished(mock, k, kind))

Next ==
    \/ Work \/ RunUpdates \/ AgentSpec \/ Graph \/ Environment \/ Effect \/ Artifact
    \/ Budget \/ Timer \/ Workspace \/ Security \/ Approval \/ Config \/ Adapter \/ Loop \/ Log

Spec == Init /\ [][Next]_vars

-----------------------------------------------------------------------------
(* Both stores keep their tables, and the double's rows the ports' types.   *)
TypeOK ==
    /\ focus \in Groups
    /\ DOMAIN sql = Tables
    /\ DOMAIN mock = Tables \cup {"uris"}
    /\ \A t \in Tables : \A k \in DOMAIN mock[t] : mock[t][k] \in RowOf[t]

(* Every query of the port answers alike on the two stores. *)
SameReads ==
    /\ S!ActiveRuns(sql) = M!ActiveRuns(mock)
    /\ S!AllRequests(sql) = M!AllRequests(mock)
    /\ S!Registrations(sql) = M!Registrations(mock)
    /\ S!GetActive(sql) = M!GetActive(mock)
    /\ \A k \in Keys :
         /\ S!RunsByTask(sql, k) = M!RunsByTask(mock, k)
         /\ S!ChildRuns(sql, k) = M!ChildRuns(mock, k)
         /\ S!TasksBySession(sql, k) = M!TasksBySession(mock, k)
         /\ S!Dependencies(sql, k) = M!Dependencies(mock, k)
         /\ S!BindingsOf(sql, k) = M!BindingsOf(mock, k)
         /\ S!EffectsByRun(sql, k) = M!EffectsByRun(mock, k)
         /\ S!ArtifactByUri(sql, k) = M!ArtifactByUri(mock, k)
         /\ S!ArtifactsByRun(sql, k) = M!ArtifactsByRun(mock, k)
         /\ S!ReservationsByRun(sql, k) = M!ReservationsByRun(mock, k)
         /\ S!ChildReservations(sql, k) = M!ChildReservations(mock, k)
         /\ S!DueTimers(sql, k) = M!DueTimers(mock, k)
         /\ S!TimersByRun(sql, k) = M!TimersByRun(mock, k)
         /\ S!HopsOf(sql, k) = M!HopsOf(mock, k)
         /\ S!RequestsByRun(sql, k) = M!RequestsByRun(mock, k)
         /\ S!ResponsesOf(sql, k) = M!ResponsesOf(mock, k)
         /\ S!GenerationByDigest(sql, k) = M!GenerationByDigest(mock, k)
         /\ S!ScanUnpublished(sql, k) = M!ScanUnpublished(mock, k)
         /\ \A j \in Keys : S!IsReachableOn(sql, k, j) = M!Reaches(mock, k, j)

(* Every row is read alike: the SQLite repositories decode each column and  *)
(* fail with Internal on a literal they do not know, the double hands out  *)
(* the row it was given.                                                   *)
SameRows ==
    LET SameRow(t, Get(_, _)) == \A k \in Refs : Get(sql, k) = M!Get(mock, t, k)
        SamePair(t, Get(_, _)) == \A k \in Refs \X (0..2) : Get(sql, k) = M!Get(mock, t, k)
    IN  /\ SameRow("sessions", S!GetSession) /\ SameRow("specs", S!GetSpec)
        /\ SameRow("tasks", S!GetTask) /\ SameRow("runs", S!GetRun)
        /\ SameRow("heads", S!GetHead) /\ SameRow("dependencies", S!GetDependency)
        /\ SameRow("environments", S!GetEnvironment) /\ SamePair("bindings", S!GetBinding)
        /\ SameRow("effects", S!GetEffect) /\ SameRow("artifacts", S!GetArtifact)
        /\ SameRow("reservations", S!GetReservation) /\ SameRow("timers", S!GetTimer)
        /\ SameRow("workspaces", S!GetWorkspace) /\ SameRow("leases", S!GetLease)
        /\ SameRow("grants", S!GetGrant) /\ SamePair("hops", S!GetHop)
        /\ SameRow("requests", S!GetRequest) /\ SameRow("responses", S!GetResponse)
        /\ SameRow("generations", S!GetGeneration)
        /\ SameRow("registrations", S!GetRegistration) /\ SameRow("instances", S!GetInstance)
        /\ SameRow("reports", S!GetConformanceReport)
        /\ SameRow("turns", S!GetTurn) /\ SamePair("decisions", S!GetDecision)
        /\ SameRow("idempotency", S!LookupIdempotency) /\ SameRow("outbox", S!GetEvent)

(* The double mirrors the store (testkit/src/store.rs:3): the operation     *)
(* just given had the same answer from both, every row reads back the same *)
(* and decodes, and so does every query.  A kernel test that passes on the *)
(* double says something about the daemon only while this holds.           *)
MirrorsStore ==
    /\ agree
    /\ sql.streams = mock.streams
    /\ SameRows
    /\ SameReads
=============================================================================
