----------------------------- MODULE MCPlatform -----------------------------
(***************************************************************************)
(* The parts around the kernel that share no state with one another, each  *)
(* on a small instance: a behaviour picks one of them and takes its steps. *)
(***************************************************************************)
EXTENDS Permissions, Approvals, SecretBroker, AdapterSession, Artifacts, AdapterBundles, TLC

CONSTANTS c1, c2

VARIABLES focus, grants, hops, probe,
          state, step, effects, children, cap, turn, told, decided, missed

-----------------------------------------------------------------------------
(* Scopes, targets and requests.                                           *)

Ws(u, p) == [kind |-> "workspace", uri |-> u, path |-> p]
Net(ds) == [kind |-> "network", domains |-> ds]
Sec(u, e) == [kind |-> "secret", uri |-> u, egress |-> e]
Use == <<"secret", "use">>
Sign == <<"secret", "sign_or_act">>

GrantRow(c, s, e, r) == [capability |-> c, scope |-> s, expires |-> e, revoked |-> r]
DomainLists ==
    {{}, {<<"com">>, <<".", "com", "x">>}}
    \cup {{t} : t \in {<<"*">>, <<".", "com">>, <<".", "com", "x">>, <<"com">>,
                       <<"com", "X">>, <<"com", "x", "x">>, <<"-">>}}

D == INSTANCE Delegation WITH
        GrantIds <- {1, 2}, MaxHops <- 3,
        GrantRows <- {GrantRow(Use, {}, 1, Forever),
                      GrantRow(Use, {Sec(<<"sec", "a">>, {{<<".", "com">>}})}, Forever, 2),
                      GrantRow(Connect, {Net({<<"com">>})}, Forever, Forever)},
        Targets <- {Sec(<<"sec", "a", "b">>, {}), Sec(<<"sec", "b">>, {}),
                    Sec(<<"sec", "a">>, {{<<"com", "x">>}}), Sec(<<"sec", "a">>, {{}}),
                    Net({<<"com">>}), Net({<<"*">>})},
        Scopes <- {Ws(u, p) : u \in {<<"ws", "a">>, <<"ws", "a", "">>, <<"ws", "..">>,
                                     <<"ws", "a", "b">>},
                              p \in {{}, {<<"b">>}, {<<"..", "b">>}, {<<"ws", "a", "b">>},
                                     {<<"ws", "b">>}}}
                  \cup {Net(l) : l \in DomainLists}
                  \cup {Sec(u, e) : u \in {<<"sec", "a">>, <<"sec", "a", "b">>, <<"sec", "b">>},
                                    e \in {{}} \cup {{l} : l \in DomainLists}}
                  \cup {[kind |-> "config", operation |-> o] : o \in {"test", "activate"}}
                  \cup {[kind |-> "child_count", max |-> m] : m \in 0..2}
                  \cup {[kind |-> "none"]}

UnknownEffect == <<"effect-1">>

Grant(i, c, s, e) == [id |-> i, capability |-> c, scope |-> s, expires |-> e]
Req(m, u, o, caps, held_rows) ==
    [method |-> m, uri |-> u, egress |-> {}, operation |-> o, rows |-> held_rows,
     hops |-> <<[index |-> 0, grants |-> [i \in DOMAIN caps |-> i], capabilities |-> caps]>>]
HeldUri == <<"sec", "a">>

SomeRequests ==
    {Req("use_secret", HeldUri, "", <<Use>>, {Grant(1, Use, {Sec(HeldUri, {})}, 1)}),
     Req("use_secret", HeldUri, "", <<Use, Connect>>,
         {Grant(1, Use, {}, Forever), Grant(2, Connect, {}, Forever)}),
     Req("use_secret", <<"sec", "b">>, "", <<Use>>, {Grant(1, Use, {}, Forever)}),
     Req("resolve_metadata", HeldUri, "", <<Use>>, {Grant(1, Use, {}, Forever)}),
     Req("sign_or_act", HeldUri, "sign", <<Sign>>, {Grant(1, Sign, {}, 1)}),
     Req("sign_or_act", HeldUri, "", <<Sign>>, {Grant(1, Sign, {}, 1)})}
SomeMetadata ==
    {[kind |-> <<"k">>, scopes |-> <<>>], [kind |-> <<"k">>, scopes |-> <<"s">>],
     [kind |-> <<>>, scopes |-> <<>>], [kind |-> <<"k", "k">>, scopes |-> <<>>]}

-----------------------------------------------------------------------------
(* Adapters and the turn's feed.                                           *)

Bundle(v, d) == [id |-> 1, version |-> v, digest |-> d, ports |-> {<<"agent_loop", 1>>},
                 caps |-> {}]

SomeBundles == {Bundle(1, 1), Bundle(2, 2), Bundle(1, 3)}
SomeQueries == {[ids |-> {1}, version |-> {}], [ids |-> {1}, version |-> {1}]}
SomeProfiles == {[loop |-> [major |-> 1, pin |-> {}], bindings |-> <<>>],
                 [loop |-> [major |-> 1, pin |-> {1}],
                  bindings |-> [tool |-> [id |-> 1, major |-> 1]]]}

\* Nothing tells the two clients of the bundle commands apart.
Interchangeable == Permutations({c1, c2})

F == INSTANCE LoopFeed WITH
        Results <- {[len |-> 0, image |-> 0], [len |-> 3, image |-> 0], [len |-> 4, image |-> 3]},
        Caps <- {0, 3, 4, 5, 6, 7, 8, 12}, MaxFed <- 2, Excerpt <- 1,
        MaxSteps <- 5, MaxEffects <- 2, MaxChildren <- 3

-----------------------------------------------------------------------------
delegation == <<grants, hops, probe>>
feed == <<state, step, effects, children, cap, turn, told, decided, missed>>
vars == <<focus, now, delegation, approvals, secrets, sessionVars, bundleVars, feed, artifactVars>>

Init ==
    /\ focus \in {"delegation", "approvals", "secrets", "session", "adapters", "feed",
                  "artifacts"}
    /\ focus # "secrets" => backend = "memory"
    /\ focus # "feed" => cap = 0
    /\ D!Init /\ ApprovalsInit /\ SecretsInit /\ SessionInit /\ BundlesInit /\ F!Init /\ ArtifactsInit

Next ==
    \/ /\ focus = "delegation" /\ D!Next
       /\ UNCHANGED <<focus, approvals, secrets, sessionVars, bundleVars, feed, artifactVars>>
    \/ /\ focus = "approvals" /\ ApprovalsNext
       /\ UNCHANGED <<focus, delegation, secrets, sessionVars, bundleVars, feed, artifactVars>>
    \/ /\ focus = "secrets" /\ SecretsNext
       /\ UNCHANGED <<focus, delegation, approvals, sessionVars, bundleVars, feed, artifactVars>>
    \/ /\ focus = "session" /\ SessionNext
       /\ UNCHANGED <<focus, now, delegation, approvals, secrets, bundleVars, feed, artifactVars>>
    \/ /\ focus = "adapters" /\ BundlesNext
       /\ UNCHANGED <<focus, now, delegation, approvals, secrets, sessionVars, feed, artifactVars>>
    \/ /\ focus = "feed" /\ F!Next
       /\ UNCHANGED <<focus, now, delegation, approvals, secrets, sessionVars, bundleVars, artifactVars>>
    \/ /\ focus = "artifacts" /\ ArtifactsNext
       /\ UNCHANGED <<focus, now, delegation, approvals, secrets, sessionVars, bundleVars, feed>>

Spec == Init /\ [][Next]_vars

-----------------------------------------------------------------------------
\* The rows, files, frames and feeds of every part have their types.
TypeOK ==
    /\ focus = "delegation" => D!TypeOK
    /\ focus = "approvals" => ApprovalsTypeOK
    /\ focus = "secrets" => SecretsTypeOK
    /\ focus = "session" => SessionTypeOK
    /\ focus = "adapters" => BundlesTypeOK
    /\ focus = "feed" => F!TypeOK
    /\ focus = "artifacts" => ArtifactsTypeOK

\* Permissions (policy.rs): a scope that covers a target covers all the target
\* stands for, and a stored scope is read back as it was granted or refused.
ScopeSound == D!ScopeSound

\* Delegation (delegation.rs, policy.rs): every chain built from accepted hops
\* loads, and what is allowed on it is backed by grants on every hop, of which
\* one at the tip stands now and reaches all that is asked for.
AllowBacked == focus = "delegation" => D!ChainLoads /\ D!AllowBacked

\* The turn's feed (runs.rs, drive): within its byte cap, guard fields and
\* outcomes survive whatever else has to be cut, and an effect's outcome is in
\* at most one accepted turn.
OutcomesKept == F!GuardsSurvive /\ F!OutcomesKept /\ F!EffectsFedOnce

\* The comment on drive (runs.rs): the batch carries the effect outcomes
\* settled by the last accepted decision's step.
OutcomeDelivered == F!OutcomeDelivered
=============================================================================
