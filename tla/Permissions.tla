----------------------------- MODULE Permissions -----------------------------
(***************************************************************************)
(* The pure permission engine: capabilities and delegation chains          *)
(* (identity/src/delegation.rs), their catalogue and the single decision   *)
(* over both (permissions/src/capabilities.rs, policy.rs).                 *)
(*                                                                         *)
(* Text is a sequence of its parts: a URI <<"ws", "a", "b">> is ws://a/b   *)
(* (a last part "" is a trailing slash), a domain is its labels from the   *)
(* top, <<"com", "x">> for x.com, with <<".", "com">> for the suffix rule  *)
(* .com and <<"*">> for the wildcard.  An Option, or a result that may be  *)
(* refused, is a set of at most one element.                               *)
(***************************************************************************)
EXTENDS Integers, Sequences, SequencesExt, FiniteSets

CONSTANTS
    Schemes,    \* well-formed URI schemes
    Segments,   \* well-formed path segments
    Labels      \* well-formed domain labels, in lower case

Forever == 99       \* an expiry that is never reached: expires_at_ms None

-----------------------------------------------------------------------------
\* capabilities: <<family, action>>

Families == {"workspace", "network", "secret", "agent", "extension", "config", "effect",
             "resource"}
Actions == {"read", "write", "fork", "merge", "transfer_exclusive_write",
            "shared_coordinated_write", "connect", "use", "sign_or_act", "spawn", "install",
            "enable", "disable", "propose", "test", "activate", "rollback", "reconcile",
            "resolve_unknown", "reserve"}

(* Capability::is_supported, the pairs a stored token may name *)
is_supported(c) ==
    c[2] \in CASE c[1] = "workspace" -> {"read", "write", "fork", "merge",
                                         "transfer_exclusive_write", "shared_coordinated_write"}
               [] c[1] = "network" -> {"connect"}
               [] c[1] = "secret" -> {"use", "sign_or_act"}
               [] c[1] = "agent" -> {"spawn"}
               [] c[1] = "extension" -> {"install", "enable", "disable"}
               [] c[1] = "config" -> {"propose", "test", "activate", "rollback"}
               [] c[1] = "effect" -> {"reconcile", "resolve_unknown"}
               [] c[1] = "resource" -> {"reserve"}

(* FAMILY_SPECS, the catalogue the engine consults *)
FAMILY_SPECS ==
    {<<"workspace", a>> : a \in {"read", "write", "fork", "merge", "transfer_exclusive_write",
                                 "shared_coordinated_write"}}
    \cup {<<"secret", a>> : a \in {"use", "sign_or_act"}}
    \cup {<<"extension", a>> : a \in {"install", "enable", "disable"}}
    \cup {<<"config", a>> : a \in {"propose", "test", "activate", "rollback"}}
    \cup {<<"effect", a>> : a \in {"reconcile", "resolve_unknown"}}
    \cup {<<"network", "connect">>, <<"agent", "spawn">>, <<"resource", "reserve">>}
supports(c) == c \in FAMILY_SPECS

(* The two tables are kept by hand in two crates: a token that parses is    *)
(* one the engine decides about, and the other way round.                  *)
ASSUME CataloguesAgree == \A c \in Families \X Actions : is_supported(c) <=> supports(c)

Connect == <<"network", "connect">>

-----------------------------------------------------------------------------
\* normal forms

Lower(label) == IF label = "X" THEN "x" ELSE label

normalize_domain(t) ==
    LET low == [i \in DOMAIN t |-> Lower(t[i])]
        body == IF low # <<>> /\ Head(low) = "." THEN Tail(low) ELSE low
    IN  IF t = <<"*">> \/ (body # <<>> /\ ToSet(body) \subseteq Labels) THEN {low} ELSE {}

normalized_domains(ds) ==
    LET good == UNION {normalize_domain(d) : d \in ds}
    IN  IF ds = {} \/ \E d \in ds : normalize_domain(d) = {} THEN {} ELSE {good}

normalize_uri(u) ==
    LET rest == Tail(u)
        bare == IF rest # <<>> /\ Last(rest) = "" THEN Front(rest) ELSE rest
    IN  IF Head(u) \in Schemes /\ bare # <<>> /\ ToSet(bare) \subseteq Segments
        THEN {<<Head(u)>> \o bare} ELSE {}

normalize_relative_path(p) == IF p # <<>> /\ ToSet(p) \subseteq Segments THEN {p} ELSE {}

(* a path is relative to the root, or itself a URI that must lie under it *)
normalized_workspace(uri, path) ==
    LET under(root) ==
          IF path = {} THEN {root}
          ELSE LET p == CHOOSE q \in path : TRUE
                   found == IF Head(p) \in Schemes THEN normalize_uri(p)
                            ELSE {root \o r : r \in normalize_relative_path(p)}
               IN  {c \in found : IsPrefix(root, c)}
    IN  UNION {under(root) : root \in normalize_uri(uri)}

segment_prefix(scope, target) == IsPrefix(scope, target)

-----------------------------------------------------------------------------
\* what a scope covers

domain_matches(rule, host) ==
    \E r \in normalize_domain(rule), h \in normalize_domain(host) :
        /\ h # <<"*">>
        /\ \/ r = <<"*">>
           \/ IF Head(r) = "." THEN IsPrefix(Tail(r), h) ELSE r = h

(* a mutant: a requested suffix is matched like a host, by its name alone *)
RequestedByName(allowed, requested) ==
    \E q \in normalize_domain(requested) :
        LET name == IF Head(q) = "." THEN Tail(q) ELSE q
        IN  \E rule \in allowed : domain_matches(rule, name) \/ normalize_domain(rule) = {q}

requested_domain_covered(allowed, requested) ==
    \E q \in normalize_domain(requested) :
        IF q = <<"*">> THEN \E rule \in allowed : normalize_domain(rule) = {q}
        ELSE IF Head(q) # "." THEN \E rule \in allowed : domain_matches(rule, q)
        ELSE \E rule \in allowed : \E r \in normalize_domain(rule) :
               r \in {<<"*">>, q} \/ (Head(r) = "." /\ IsPrefix(Tail(r), Tail(q)))

unbounded(egress) == egress = {} \/ \E d \in egress : normalize_domain(d) = {<<"*">>}

(* egress: {} for None, {ds} for Some(ds) *)
egress_covers(grant, request) ==
    \A r \in request : \E g \in grant :
        IF r = {} THEN unbounded(g) ELSE \A d \in r : requested_domain_covered(g, d)

target_covers(scope, target) ==
    /\ scope.kind = target.kind
    /\ CASE scope.kind = "workspace" ->
              \E s \in normalized_workspace(scope.uri, scope.path) :
                  \E t \in normalized_workspace(target.uri, target.path) : segment_prefix(s, t)
         [] scope.kind = "network" ->
              \A d \in target.domains : requested_domain_covered(scope.domains, d)
         [] scope.kind = "secret" ->
              /\ \E s \in normalize_uri(scope.uri), t \in normalize_uri(target.uri) :
                   segment_prefix(s, t)
              /\ egress_covers(scope.egress, target.egress)
         [] scope.kind = "config" -> scope.operation = target.operation
         [] scope.kind = "child_count" -> target.max <= scope.max
         [] scope.kind = "none" -> TRUE

(* the target is of the capability's family and has a normal form *)
scoped_target_token(c, target) ==
    CASE c[1] = "workspace" /\ target.kind = "workspace" ->
           normalized_workspace(target.uri, target.path) # {}
      [] c[1] = "network" /\ target.kind = "network" -> normalized_domains(target.domains) # {}
      [] c[1] = "secret" /\ target.kind = "secret" ->
           /\ normalize_uri(target.uri) # {}
           /\ \A ds \in target.egress : ds = {} \/ normalized_domains(ds) # {}
      [] c[1] = "agent" /\ target.kind = "child_count" -> target.max >= 1
      [] c[1] = "config" /\ target.kind = "config" -> target.operation = c[2]
      [] c[1] \in {"extension", "effect", "resource"} /\ target.kind = "none" -> TRUE
      [] OTHER -> FALSE

-----------------------------------------------------------------------------
\* chains: a sequence of hops [index, grants, capabilities]

(* the capabilities of a hop, if its lists repeat nothing and its grants    *)
(* can back them                                                           *)
hop_capabilities(hop) ==
    LET caps == ToSet(hop.capabilities)
        ids == ToSet(hop.grants)
    IN  IF /\ Cardinality(ids) = Len(hop.grants)
           /\ Cardinality(caps) = Len(hop.capabilities)
           /\ Cardinality(caps) <= Cardinality(ids)
        THEN {caps} ELSE {}

validate_chain(hops) ==
    \A i \in DOMAIN hops :
        /\ hops[i].index = i - 1
        /\ hop_capabilities(hops[i]) # {}
        /\ i > 1 => ToSet(hops[i].capabilities) \subseteq ToSet(hops[i - 1].capabilities)

ancestor_capabilities(hops) ==
    IF hops = <<>> THEN {}
    ELSE {c \in ToSet(hops[1].capabilities) :
            \A i \in DOMAIN hops : c \in ToSet(hops[i].capabilities)}

(* what a child may be given: what it asks for, if the tip holds it all *)
derive_child_chain(hops, requested) ==
    LET held == IF hops = <<>> THEN {} ELSE ToSet(Last(hops).capabilities)
    IN  IF validate_chain(hops) /\ requested \subseteq held THEN {requested} ELSE {}

-----------------------------------------------------------------------------
\* the decision

Deny(reason) == [d |-> "Deny", reason |-> reason]

(* a mutant: a grant still stands at the instant it lapses *)
grant_expired_Late(expires, now) == expires < now
grant_expired(expires, now) == expires <= now

(* the tip's grants that stand and cover the target, or why there are none *)
backing_grants(hops, rows, c, target, now) ==
    LET held == {r \in rows : r.id \in ToSet(Last(hops).grants) /\ r.capability = c}
        standing == {r \in held : ~grant_expired(r.expires, now)}
        covering == {r \in standing : \A s \in r.scope : target_covers(s, target)}
    IN  IF held = {} THEN Deny("NoGrant")
        ELSE IF ~scoped_target_token(c, target) THEN Deny("OutOfScope")
        ELSE IF covering # {} THEN [d |-> "Allow", grants |-> {r.id : r \in covering}]
        ELSE Deny(IF standing # {} THEN "OutOfScope" ELSE "ExpiredGrant")

(* the capabilities exercised together: {} when there is no joint risk *)
joint_risk(c, target, effective) ==
    LET wide == target.kind = "secret" /\ \E ds \in target.egress : unbounded(ds)
    IN  IF c[1] = "secret" /\ (Connect \in effective \/ wide)
        THEN {c} \cup (effective \cap {Connect}) ELSE {}

(* tools: {} when the tool has no allow list, {list} otherwise *)
evaluate(hops, rows, tools, c, target, now) ==
    LET ancestors == ancestor_capabilities(hops)
        effective == {h \in ancestors : \A list \in tools : h \in list}
        backing == backing_grants(hops, rows, c, target, now)
        risk == joint_risk(c, target, effective)
    IN  IF ~supports(c) THEN Deny("Unsupported")
        ELSE IF c \notin ancestors
          THEN Deny(IF hops # <<>> /\ c \in ToSet(Last(hops).capabilities)
                    THEN "AncestorConstraint" ELSE "NoGrant")
        ELSE IF ~validate_chain(hops) THEN Deny("NoGrant")
        ELSE IF c \notin effective THEN Deny("ToolRestriction")
        ELSE IF backing.d = "Deny" THEN backing
        ELSE IF risk # {} THEN [d |-> "RequireApproval", capabilities |-> risk]
        ELSE backing
=============================================================================
