----------------------------- MODULE Delegation -----------------------------
(***************************************************************************)
(* Grants and delegation hops as they are stored and loaded back           *)
(* (identity/src/delegation.rs) to be decided over.  One chain: chains     *)
(* share only the grants, and a stored grant never changes.  A probe       *)
(* compares one scope with one target.                                     *)
(***************************************************************************)
EXTENDS Permissions, WallClock, TLC

CONSTANTS
    GrantIds,       \* 1..n
    GrantRows,      \* what may be granted: [capability, scope, expires, revoked]
    Targets,        \* the targets asked for
    Scopes,         \* the scopes probed
    MaxHops         \* bound: hops of the chain

VARIABLES
    grants,    \* capability_grants: id -> row, its scope encoded
    hops,      \* delegation_hops of the chain, by hop_index
    probe      \* {} or {<<scope, target>>}

vars == <<grants, hops, now, probe>>

Lists(S, n) == UNION {[1..k -> S] : k \in 0..n}

-----------------------------------------------------------------------------
\* the scope blob: {} unscoped, otherwise fields with their list counts

Field(v) == <<"field", v>>
Count(n) == <<"count", n>>
Domains(ds) == <<Count(Cardinality(ds))>> \o SetToSeq({Field(d) : d \in ds})

encode_grant_scope(scope) ==
    <<scope.kind>> \o
    CASE scope.kind = "workspace" -> <<Field(scope.uri)>> \o SetToSeq({Field(p) : p \in scope.path})
      [] scope.kind = "network" -> Domains(scope.domains)
      [] scope.kind = "secret" ->
           <<Field(scope.uri), Count(Cardinality(scope.egress))>>
           \o (IF scope.egress = {} THEN <<>> ELSE Domains(UNION scope.egress))
      [] scope.kind = "config" -> <<Field(scope.operation)>>
      [] scope.kind = "child_count" -> <<Count(scope.max)>>
      [] scope.kind = "none" -> <<>>

(* strict: a missing, extra or empty field is refused *)
decode_grant_scope(blob) ==
    LET kind == Head(blob)
        f == Tail(blob)
        listed(from) ==   \* exactly the counted fields follow, and are not empty
            /\ Len(f) >= from /\ f[from][1] = "count" /\ Len(f) = from + f[from][2]
            /\ \A i \in from + 1..Len(f) : f[i][1] = "field" /\ f[i][2] # <<>>
        rest(from) == {f[i][2] : i \in from + 1..Len(f)}
    IN  CASE kind = "workspace" ->
               IF Len(f) \in 1..2 /\ \A i \in DOMAIN f : f[i][2] # <<>>
               THEN {[kind |-> kind, uri |-> f[1][2], path |-> rest(1)]} ELSE {}
          [] kind = "network" ->
               IF listed(1) THEN {[kind |-> kind, domains |-> rest(1)]} ELSE {}
          [] kind = "secret" ->
               IF Len(f) = 2 /\ f[2] = Count(0)
                 THEN {[kind |-> kind, uri |-> f[1][2], egress |-> {}]}
               ELSE IF Len(f) > 2 /\ f[2] = Count(1) /\ listed(3)
                 THEN {[kind |-> kind, uri |-> f[1][2], egress |-> {rest(3)}]} ELSE {}
          [] kind = "config" ->
               IF Len(f) = 1 /\ f[1][2] \in Actions
               THEN {[kind |-> kind, operation |-> f[1][2]]} ELSE {}
          [] kind = "child_count" -> IF Len(f) = 1 THEN {[kind |-> kind, max |-> f[1][2]]} ELSE {}
          [] kind = "none" -> IF f = <<>> THEN {[kind |-> kind]} ELSE {}

-----------------------------------------------------------------------------
\* loading

earlier(a, b) == IF a < b THEN a ELSE b

(* every grant must resolve; a revoked grant has lapsed *)
load_grant_scopes(ids) ==
    {[id |-> g, capability |-> grants[g].capability,
      scope |-> UNION {decode_grant_scope(b) : b \in grants[g].scope},
      expires |-> earlier(grants[g].expires, grants[g].revoked)] : g \in ids}

resolve(ids) == {grants[g].capability : g \in ids}

(* the stored hops with the capabilities of their grants, if they validate *)
load_chain(rows) ==
    LET stored == \A i \in DOMAIN rows : ToSet(rows[i].grants) \subseteq DOMAIN grants
        chain == [i \in DOMAIN rows |->
                    [index |-> rows[i].index, grants |-> rows[i].grants,
                     capabilities |-> SetToSeq(resolve(ToSet(rows[i].grants)))]]
    IN  IF stored /\ validate_chain(chain) THEN {chain} ELSE {}

-----------------------------------------------------------------------------
Init ==
    /\ grants = << >>
    /\ hops = <<>>
    /\ now = 0
    /\ probe = {}

(* ids are fresh; the n-th grant is n *)
InsertGrant(g, row) ==
    /\ g = Cardinality(DOMAIN grants) + 1
    /\ grants' = g :> [row EXCEPT !.scope = {encode_grant_scope(s) : s \in @}] @@ grants
    /\ UNCHANGED <<hops, now, probe>>

(* a mutant: the hop is compared with the root instead of its parent *)
persist_hop_Root(hop) ==
    /\ ToSet(hop.grants) \subseteq DOMAIN grants
    /\ hop_capabilities(hop) = {resolve(ToSet(hop.grants))}
    /\ hop.index = Len(hops)
    /\ hops # <<>> => resolve(ToSet(hop.grants)) \subseteq resolve(ToSet(hops[1].grants))
    /\ hops' = Append(hops, [index |-> hop.index, grants |-> hop.grants])
    /\ UNCHANGED <<grants, now, probe>>

(* resolve_hop: the grants exist and carry what the hop declares; then the  *)
(* hop must extend the loaded chain without adding to its tip              *)
persist_hop(hop) ==
    /\ ToSet(hop.grants) \subseteq DOMAIN grants
    /\ hop_capabilities(hop) = {resolve(ToSet(hop.grants))}
    /\ \E chain \in load_chain(hops) :
         /\ hop.index = Len(chain)
         /\ chain # <<>> =>
              resolve(ToSet(hop.grants)) \subseteq ToSet(Last(chain).capabilities)
    /\ hops' = Append(hops, [index |-> hop.index, grants |-> hop.grants])
    /\ UNCHANGED <<grants, now, probe>>

Tick == Advance /\ UNCHANGED <<grants, hops, probe>>

Probe(scope, target) ==
    /\ probe' = {<<scope, target>>}
    /\ UNCHANGED <<grants, hops, now>>

Capabilities == {r.capability : r \in GrantRows}

Next ==
    \/ \E g \in GrantIds, row \in GrantRows : probe = {} /\ InsertGrant(g, row)
    \/ \E ids \in Lists(GrantIds, 2), caps \in Lists(Capabilities, 2), i \in 0..MaxHops - 1 :
         probe = {} /\ persist_hop([index |-> i, grants |-> ids, capabilities |-> caps])
    \/ probe = {} /\ hops # <<>> /\ Tick
    \/ Init /\ \E scope \in Scopes, target \in Scopes : Probe(scope, target)

Spec == Init /\ [][Next]_vars

-----------------------------------------------------------------------------
TypeOK ==
    /\ DOMAIN grants \subseteq GrantIds
    /\ \A i \in DOMAIN hops : hops[i].index \in 0..MaxHops - 1 /\ Len(hops[i].grants) <= 2
    /\ now \in 0..MaxTime
    /\ probe \subseteq Scopes \X Scopes

(* What a target stands for: the URIs below it, the hosts it names, the     *)
(* counts it allows.  Hosts and URIs of up to three parts.                 *)
Hosts == Lists(Labels, 3) \ {<<>>}
Uris == {<<s>> \o p : s \in Schemes, p \in Lists(Segments, 3)}
HostsOf(ds) ==
    UNION {UNION {IF d = <<"*">> THEN Hosts
                  ELSE IF Head(d) = "." THEN {h \in Hosts : IsPrefix(Tail(d), h)}
                  ELSE {d} : d \in normalize_domain(t)} : t \in ds}
EgressOf(e) == UNION {IF ds = {} THEN Hosts ELSE HostsOf(ds) : ds \in e}
Below(S) == {u \in Uris : \E r \in S : IsPrefix(r, u)}
Reach(t) ==
    CASE t.kind = "workspace" -> Below(normalized_workspace(t.uri, t.path))
      [] t.kind = "network" -> HostsOf(t.domains)
      [] t.kind = "secret" -> Below(normalize_uri(t.uri)) \cup EgressOf(t.egress)
      [] t.kind = "config" -> {t.operation}
      [] t.kind = "child_count" -> 1..t.max
      [] t.kind = "none" -> {}

(* A scope that covers a target covers all the target stands for: prefix    *)
(* matching of paths, suffix and wildcard matching of domains, egress      *)
(* bounds and counts never let more through than the scope names           *)
(* (target_covers in policy.rs).  And a scope read back from its blob is   *)
(* the scope that was granted, or is refused.                              *)
ScopeSound ==
    \A p \in probe :
        /\ target_covers(p[1], p[2]) => Reach(p[2]) \subseteq Reach(p[1])
        /\ decode_grant_scope(encode_grant_scope(p[1])) \subseteq {p[1]}

(* However grants and hops are added, the chain loads and validates: no     *)
(* sequence of accepted hops makes a chain load_chain then rejects.        *)
ChainLoads == load_chain(hops) # {}

(* A request is allowed only if a grant stored for every hop, root to tip,  *)
(* carries the capability, and one of the tip's stands at this instant,    *)
(* not revoked, with a scope that reaches all that is asked for.           *)
AllowBacked ==
    \A chain \in load_chain(hops), c \in Capabilities, target \in Targets :
        LET ids == UNION {ToSet(hops[i].grants) : i \in DOMAIN hops}
        IN  evaluate(chain, load_grant_scopes(ids), {}, c, target, now).d # "Deny" =>
              /\ \A i \in DOMAIN hops : \E g \in ToSet(hops[i].grants) : grants[g].capability = c
              /\ \E g \in ToSet(Last(hops).grants) :
                   /\ grants[g].capability = c
                   /\ now < grants[g].expires /\ now < grants[g].revoked
                   /\ \A b \in grants[g].scope : \A s \in decode_grant_scope(b) :
                        Reach(target) \subseteq Reach(s)
=============================================================================
