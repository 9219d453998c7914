--------------------------- MODULE AdapterBundles ---------------------------
(***************************************************************************)
(* Installed adapter bundles.  `agentd adapter install|enable|disable|     *)
(* remove` processes (Clients) edit the directory of installed bundles and *)
(* its index while the daemon boots, registers what is enabled, and        *)
(* resolves the adapters of new runs.                                      *)
(*                                                                         *)
(* A bundle is the record [id, version, digest, ports, caps]; its          *)
(* directory name carries all three parts of its identity, so a directory  *)
(* holds nothing, a torn copy, or the whole bundle.  A source bundle does  *)
(* not change while it is being installed.  The index has at most one      *)
(* entry for an id and version, and nothing depends on their order: it is  *)
(* a set.                                                                  *)
(***************************************************************************)
EXTENDS Integers, FiniteSets

CONSTANTS Clients, Bundles, Queries, Profiles, MaxOps

VARIABLES dirs,        \* what each bundle's installed directory holds
          index,       \* index.json: entries [b, enabled]
          op,          \* the command each client is running
          lock,        \* the holders of the index lock (at most one)
          ops,         \* commands started
          registered,  \* adapter_registrations: conformance of each identity
          todo,        \* bundle directories boot has still to register
          bundles,     \* the bundles this daemon can spawn
          offered,     \* entries enabled when this daemon booted
          bound,       \* the plans made: the adapters of each new run
          installed,   \* installs that returned and that nothing touched since
          expected     \* those of them that this boot has to find

installs == <<dirs, index, op, lock, ops>>
daemon == <<todo, bundles, offered, bound>>
bundleVars == <<installs, daemon, registered, installed, expected>>

Idle == [kind |-> "idle"]
Busy(c) == op[c] # Idle
At(c, pc) == Busy(c) /\ op[c].pc = pc

BundlesInit ==
    /\ dirs = [b \in Bundles |-> "none"]
    /\ index = {}
    /\ op = [c \in Clients |-> Idle]
    /\ lock = {}
    /\ ops = 0
    /\ registered = <<>>
    /\ todo = {}
    /\ bundles = {}
    /\ offered = {}
    /\ bound = {}
    /\ installed = {}
    /\ expected = {}

(***************************************************************************)
(* Bundles on disk.                                                        *)
(***************************************************************************)

\* Every asset of the lock is there with its digest, and the digest
\* recomputed over the lock and the manifest is the bundle's own.
compute_bundle_digest(b) == dirs[b] = "whole"

verify_bundle(b) == compute_bundle_digest(b)

\* The registration exists and the directory still verifies.
verify_for_spawn(b) == b \in DOMAIN registered /\ compute_bundle_digest(b)

(***************************************************************************)
(* What a command may change about a bundle, for the record of installs    *)
(* that nothing has touched since they returned.                           *)
(***************************************************************************)
SameVersion(a, b) == a.id = b.id /\ a.version = b.version

\* A query is an id prefix, given by the ids that have it, and a version or none.
Matches(q, b) == b.id \in q.ids /\ (q.version = {} \/ b.version \in q.version)

Touches(o, b) ==
    CASE o.kind = "install" -> SameVersion(o.b, b)
      [] o.kind \in {"remove", "disable"} -> Matches(o.q, b)
      [] OTHER -> FALSE

Touched(o) == {b \in Bundles : Touches(o, b)}

Installing(c) == Busy(c) /\ op[c].kind = "install"

\* Command o starts; installs of what it touches are no longer undisturbed.
Start(c, o) ==
    /\ ~Busy(c)
    /\ ops < MaxOps
    /\ ops' = ops + 1
    /\ op' = [d \in Clients |->
                IF d = c THEN o
                ELSE IF Installing(d) /\ Touches(o, op[d].b)
                     THEN [op[d] EXCEPT !.quiet = FALSE] ELSE op[d]]
    /\ installed' = installed \ Touched(o)
    /\ expected' = expected \ Touched(o)

\* The directory of b is removed, under every copy into it that is under way.
Uproot(c, b, o) ==
    /\ dirs' = [dirs EXCEPT ![b] = "none"]
    /\ op' = [d \in Clients |->
                IF d = c THEN o
                ELSE IF Installing(d) /\ op[d].b = b
                     THEN [op[d] EXCEPT !.clean = FALSE] ELSE op[d]]

(***************************************************************************)
(* install                                                                 *)
(***************************************************************************)

\* The source verifies, and the destination is cleared.
install(c, b, check) ==
    \/ /\ Start(c, [kind |-> "install", pc |-> "clear", b |-> b, check |-> check,
                    clean |-> TRUE, seen |-> {},
                    quiet |-> \A d \in Clients : Busy(d) => ~Touches(op[d], b)])
       /\ UNCHANGED <<dirs, index, lock, registered, daemon>>
    \/ /\ At(c, "clear") /\ op[c].b = b /\ op[c].check = check
       /\ Uproot(c, b, [op[c] EXCEPT !.pc = "copy"])
       /\ UNCHANGED <<index, lock, ops, registered, daemon, installed, expected>>

\* The copy starts, and finishes; it is whole unless the directory was
\* removed under it and no other copy has completed it.
copy_dir(c) ==
    /\ UNCHANGED <<index, lock, ops, registered, daemon, installed, expected>>
    /\ \/ /\ At(c, "copy")
          /\ dirs' = [dirs EXCEPT ![op[c].b] = "torn"]
          /\ op' = [op EXCEPT ![c].pc = "fill", ![c].clean = TRUE]
       \/ /\ At(c, "fill")
          /\ dirs' = [dirs EXCEPT ![op[c].b] =
                        IF op[c].clean \/ @ = "whole" THEN "whole" ELSE "torn"]
          /\ op' = [op EXCEPT ![c].pc = "verify"]

\* The copy is verified; with --check it is then smoke-tested, and a failed
\* test removes the directory.  A bad copy ends the command with an error.
check_bundle(c) ==
    /\ UNCHANGED <<index, lock, ops, registered, daemon, installed, expected>>
    /\ \/ /\ At(c, "verify")
          /\ op' = [op EXCEPT ![c] =
                      IF ~verify_bundle(@.b) THEN Idle
                      ELSE [@ EXCEPT !.pc = IF op[c].check THEN "check" ELSE "load"]]
          /\ UNCHANGED dirs
       \/ /\ At(c, "check")
          /\ verify_bundle(op[c].b)
          /\ op' = [op EXCEPT ![c].pc = "load"]
          /\ UNCHANGED dirs
       \/ /\ At(c, "check")
          /\ verify_bundle(op[c].b)
          /\ Uproot(c, op[c].b, Idle)

(***************************************************************************)
(* The index.                                                              *)
(***************************************************************************)

\* Plausible bug: the index is loaded without waiting for the lock.
with_index_lock_Unheld(c) ==
    /\ At(c, "load")
    /\ lock' = lock \cup {c}
    /\ op' = [op EXCEPT ![c].pc = "save", ![c].seen = index]
    /\ UNCHANGED <<dirs, index, ops, registered, daemon, installed, expected>>

\* flock, then load_index.
with_index_lock(c) ==
    /\ At(c, "load")
    /\ lock = {}
    /\ lock' = {c}
    /\ op' = [op EXCEPT ![c].pc = "save", ![c].seen = index]
    /\ UNCHANGED <<dirs, index, ops, registered, daemon, installed, expected>>

\* The rename publishes the new index, and the command returns.
save_index(c, entries) ==
    /\ index' = entries
    /\ lock' = lock \ {c}
    /\ op' = [op EXCEPT ![c] = Idle]

\* The entries that match; a command needs exactly one.
find_entry(entries, q) == {e \in entries : Matches(q, e.b)}

\* The end of install: its entry replaces those of the same (id, version).
record_entry(c) ==
    /\ At(c, "save") /\ op[c].kind = "install"
    /\ LET b == op[c].b
           kept == {e \in op[c].seen : ~SameVersion(e.b, b)}
       IN /\ save_index(c, kept \cup {[b |-> b, enabled |-> TRUE]})
          /\ installed' = IF op[c].quiet THEN installed \cup {b} ELSE installed
    /\ UNCHANGED <<dirs, ops, registered, daemon, expected>>

Query(kind, q) == [kind |-> kind, pc |-> "load", q |-> q, seen |-> {}]

\* enable and disable: start, and once the index is held, the flip.
set_enabled(c, enabled) ==
    LET kind == IF enabled THEN "enable" ELSE "disable" IN
    \/ /\ \E q \in Queries : Start(c, Query(kind, q))
       /\ UNCHANGED <<dirs, index, lock, registered, daemon>>
    \/ /\ At(c, "save") /\ op[c].kind = kind
       /\ \E e \in op[c].seen :
            /\ find_entry(op[c].seen, op[c].q) = {e}
            /\ save_index(c, (op[c].seen \ {e}) \cup {[e EXCEPT !.enabled = enabled]})
       /\ UNCHANGED <<dirs, ops, registered, daemon, installed, expected>>

\* remove: the directory goes first, then the entry, both under the lock.
remove(c) ==
    \/ /\ \E q \in Queries : Start(c, Query("remove", q))
       /\ UNCHANGED <<dirs, index, lock, registered, daemon>>
    \/ /\ At(c, "save") /\ op[c].kind = "remove"
       /\ \E e \in op[c].seen :
            /\ find_entry(op[c].seen, op[c].q) = {e}
            /\ Uproot(c, e.b, [op[c] EXCEPT !.pc = "drop"])
       /\ UNCHANGED <<index, lock, ops, registered, daemon, installed, expected>>
    \/ /\ At(c, "drop")
       /\ save_index(c, op[c].seen \ find_entry(op[c].seen, op[c].q))
       /\ UNCHANGED <<dirs, ops, registered, daemon, installed, expected>>

\* An error leaves a command where it is, and so does a kill: nothing is
\* undone, and the lock goes with the file descriptor.
Fail(c) ==
    /\ Busy(c)
    /\ op' = [op EXCEPT ![c] = Idle]
    /\ lock' = lock \ {c}
    /\ UNCHANGED <<dirs, index, ops, registered, daemon, installed, expected>>

(***************************************************************************)
(* The daemon.                                                             *)
(***************************************************************************)

\* A restart reads the enabled entries of the index, without the lock.
enabled_bundle_dirs ==
    /\ offered' = {e.b : e \in {x \in index : x.enabled}}
    /\ todo' = offered'
    /\ bundles' = {}
    /\ expected' = installed
    /\ UNCHANGED <<installs, registered, bound, installed>>

\* register_bundle: a bundle that verifies is registered, or reloads its
\* registration; one that is missing or torn is skipped with a warning.
register_bundle(b) ==
    /\ b \in todo
    /\ todo' = todo \ {b}
    /\ IF compute_bundle_digest(b)
       THEN /\ bundles' = bundles \cup {b}
            /\ registered' = [r \in DOMAIN registered \cup {b} |->
                                IF r \in DOMAIN registered THEN registered[r]
                                ELSE "Untested"]
       ELSE UNCHANGED <<bundles, registered>>
    /\ UNCHANGED <<installs, offered, bound, installed, expected>>

\* A conformance report sets the state of the identity it names.
persist_report(b, passed) ==
    /\ b \in DOMAIN registered
    /\ registered' = [registered EXCEPT ![b] = IF passed THEN "Passed" ELSE "Failed"]
    /\ UNCHANGED <<installs, daemon, installed, expected>>

(***************************************************************************)
(* Resolution.                                                             *)
(***************************************************************************)

\* T2 and above need every capability of the catalogue's T2 list.
hosts_tier(b, tier) == tier < 2 \/ "t2" \in b.caps

\* The daemon registers every bundle as trusted, so the trust clause of the
\* sandbox policy always holds; conformance is the mutable part.
Eligible(req, b) ==
    /\ <<req.port, req.major>> \in b.ports
    /\ req.caps \subseteq b.caps
    /\ hosts_tier(b, req.tier)
    /\ req.pin = {} \/ b.id \in req.pin
    /\ registered[b] # "Failed"
    /\ req.passed => registered[b] = "Passed"

\* The order of immutable identities, and the first eligible candidate; {}
\* when no adapter satisfies the port.
Before(a, b) ==
    \/ a.id < b.id
    \/ a.id = b.id /\ a.version < b.version
    \/ a.id = b.id /\ a.version = b.version /\ a.digest <= b.digest

resolve(req, candidates) ==
    LET matches == {b \in candidates : Eligible(req, b)}
    IN {b \in matches : \A o \in matches : Before(b, o)}

\* Plausible bug: every durable registration is a candidate.
candidates_Registered == DOMAIN registered

\* Registrations whose exact identity this daemon has on disk.
Candidates == DOMAIN registered \cap bundles

Requirement(port, major, pin) ==
    [port |-> port, major |-> major, pin |-> pin, caps |-> {}, tier |-> 0,
     passed |-> FALSE]

\* The profile's agent loop, pinned or not, then each of its adapter
\* bindings; any of them missing fails the plan.
plan_environment(p) ==
    LET loop == resolve(Requirement("agent_loop", p.loop.major, p.loop.pin), Candidates)
        bind == [s \in DOMAIN p.bindings |->
                   resolve(Requirement(s, p.bindings[s].major, {p.bindings[s].id}),
                           Candidates)]
    IN IF loop = {} \/ \E s \in DOMAIN bind : bind[s] = {} THEN {}
       ELSE loop \cup UNION {bind[s] : s \in DOMAIN bind}

\* A run is bound to the adapters of its plan once the daemon has booted.
BindRun(p) ==
    /\ todo = {}
    /\ plan_environment(p) # {}
    /\ bound' = plan_environment(p)
    /\ UNCHANGED <<installs, registered, todo, bundles, offered, installed, expected>>

BundlesNext ==
    \/ \E c \in Clients :
        \/ \E b \in Bundles, check \in BOOLEAN : install(c, b, check)
        \/ copy_dir(c)
        \/ check_bundle(c)
        \/ with_index_lock(c)
        \/ record_entry(c)
        \/ \E enabled \in BOOLEAN : set_enabled(c, enabled)
        \/ remove(c)
        \/ Fail(c)
    \/ enabled_bundle_dirs
    \/ \E b \in todo : register_bundle(b)
    \/ \E b \in Bundles, passed \in BOOLEAN : persist_report(b, passed)
    \/ \E p \in Profiles : BindRun(p)

BundlesSpec == BundlesInit /\ [][BundlesNext]_bundleVars

(***************************************************************************)
(* Properties.                                                             *)
(***************************************************************************)

\* Every variable has its type.
BundlesTypeOK ==
    /\ dirs \in [Bundles -> {"none", "torn", "whole"}]
    /\ index \subseteq [b : Bundles, enabled : BOOLEAN]
    /\ lock \subseteq Clients
    /\ DOMAIN registered \subseteq Bundles
    /\ bundles \subseteq Bundles /\ bound \subseteq Bundles
    /\ ops \in 0..MaxOps

\* What was installed and left alone is on disk and enabled, and this boot
\* registers it.
Loads ==
    /\ \A b \in installed : dirs[b] = "whole" /\ [b |-> b, enabled |-> TRUE] \in index
    /\ todo = {} => \A b \in expected : b \in bundles /\ verify_for_spawn(b)

\* A run is bound to adapters whose entries were enabled when this daemon
\* booted and whose registration has not failed.
BindsCurrent ==
    bound' # bound => \A b \in bound' : b \in offered /\ registered[b] # "Failed"

\* adapters.rs promises that install, then a restart, gives a registered and
\* spawnable adapter.  Once an install has returned, and as long as no
\* command touches that bundle, its directory stays whole and its entry
\* enabled whatever other commands do to the index and wherever they are
\* killed; and a daemon booted in that time registers it and can spawn it.
\* And a run is only bound to adapters that were enabled at boot and have not
\* failed conformance, although registrations of disabled and removed bundles
\* stay in the store.
InstalledLoads == [][Loads' /\ BindsCurrent]_bundleVars
=============================================================================
