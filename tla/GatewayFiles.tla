---------------------------- MODULE GatewayFiles ----------------------------
(***************************************************************************)
(* The files the gateway keeps for itself (agentgw/src/main.rs): the index *)
(* of what its callers created, which the control API cannot list, the     *)
(* device id it answers approvals under, and the staged configuration      *)
(* proposals with their bound.                                             *)
(*                                                                         *)
(* A file that was cut short, by a kill or a full disk, is Torn: it no     *)
(* longer parses. Ghosts: `cut` says that a write of the index failed or   *)
(* was cut, `id_cut` the same for the device id, `owed` that a proposal    *)
(* was written whose writer did not prune.                                 *)
(***************************************************************************)
EXTENDS Naturals, FiniteSets, Sequences

CONSTANTS Sessions, Specs, RunIds,  \* the ids callers give
          Handlers,           \* requests in progress at once
          MAX_INDEX_ENTRIES,
          MAX_PROPOSALS,
          MaxProposed, MaxKills, MaxClock

ASSUME FilesAssumption ==
    MAX_INDEX_ENTRIES \in Nat \ {0} /\ MAX_PROPOSALS \in Nat /\ MaxKills \in Nat

VARIABLES up,                 \* "down", "minting" or "serving"
          index, disk,        \* the index in memory and its file
          holder,             \* the holder of the index's write lock
          handler, acked,     \* requests in progress; entries reported
          local_id, id_file, used,
          documents,          \* the .yaml files, by creation, and their mtimes
          staged, clock, mtime, removed,
          cut, id_cut, owed, kills

index_vars == <<index, disk, holder, acked, cut>>
id_vars == <<local_id, id_file, used, id_cut>>
proposal_vars == <<documents, staged, clock, mtime, removed, owed>>
filesVars == <<up, handler, kills, index_vars, id_vars, proposal_vars>>

Entry(i, p) == [id |-> i, profile |-> p]
Kinds == {"sessions", "specs", "tasks", "runs"}
Empty == [k \in Kinds |-> <<>>]
Torn == [k \in Kinds |-> <<Entry(0, "torn")>>]
TornId == 0
NoRequest == [pc |-> "idle"]

FilesInit ==
    /\ up = "down" /\ kills = 0 /\ handler = [h \in Handlers |-> NoRequest]
    /\ index = Empty
    /\ disk \in {Empty} \cup {[Empty EXCEPT !["specs"] = <<Entry(i, "")>>] :
                              i \in Specs}     \* of an older gateway
    /\ holder = {} /\ acked = {} /\ cut = FALSE
    /\ local_id = 0 /\ id_file \in {{}, {MaxKills + 2}} /\ used = {} /\ id_cut = FALSE
    /\ documents = {} /\ staged = 0 /\ clock = 0 /\ mtime = <<>> /\ removed = {}
    /\ owed = FALSE

-----------------------------------------------------------------------------
(* Start and stop.                                                         *)

\* An index that does not parse, like one that is missing, is empty.
load_index == IF disk = Torn THEN Empty ELSE disk

\* local_device_id, its first half: the id of the file if it is one.
Start ==
    /\ up = "down"
    /\ index' = load_index
    /\ LET saved == id_file \ {TornId}
       IN  /\ up' = IF saved = {} THEN "minting" ELSE "serving"
           /\ local_id' = IF saved = {} THEN kills + 1 ELSE CHOOSE i \in saved : TRUE
           /\ used' = used \cup saved
    /\ UNCHANGED <<handler, kills, disk, holder, acked, cut, id_file, id_cut, proposal_vars>>

local_device_id_Unsaved ==
    /\ up = "minting" /\ up' = "serving"
    /\ used' = used \cup {local_id}
    /\ UNCHANGED <<handler, kills, local_id, id_file, id_cut, index_vars, proposal_vars>>

\* Its second half: the new id is written, and used even if that fails.
local_device_id ==
    /\ up = "minting" /\ up' = "serving"
    /\ used' = used \cup {local_id}
    /\ \/ id_file' = {local_id} /\ UNCHANGED id_cut
       \/ id_file' \in {id_file, {TornId}} /\ id_cut' = TRUE
    /\ UNCHANGED <<handler, kills, local_id, index_vars, proposal_vars>>
\* A kill anywhere. What is being written then may be cut.
KillGateway ==
    /\ up # "down" /\ kills < MaxKills
    /\ up' = "down" /\ kills' = kills + 1
    /\ handler' = [h \in Handlers |-> NoRequest] /\ holder' = {} /\ index' = Empty
    /\ disk' \in IF holder = {} THEN {disk} ELSE {disk, Torn, index}
    /\ cut' = (cut \/ holder # {})
    /\ id_file' \in IF up = "minting" THEN {id_file, {TornId}, {local_id}} ELSE {id_file}
    /\ owed' = (owed \/ \E h \in Handlers : handler[h].pc \in {"list", "remove"})
    /\ UNCHANGED <<acked, local_id, used, id_cut, documents, staged, clock, mtime, removed>>

-----------------------------------------------------------------------------
(* Creating a session, a spec or a run.                                    *)

\* submit: the daemon has accepted the command. When it refuses one the request
\* ends with its error and nothing has changed here. The ids may be ones that
\* were used before.
submit(entries) == [pc |-> "remember", entries |-> entries]

api_create_session(h) ==
    /\ up = "serving" /\ handler[h] = NoRequest
    /\ \E i \in Sessions : handler' = [handler EXCEPT ![h] = submit([sessions |-> Entry(i, "")])]
    /\ UNCHANGED <<up, kills, index_vars, id_vars, proposal_vars>>

\* The body names the runtime profile, or none.
api_put_spec(h) ==
    /\ up = "serving" /\ handler[h] = NoRequest
    /\ \E i \in Specs, p \in {"", "p"} :
        handler' = [handler EXCEPT ![h] = submit([specs |-> Entry(i, p)])]
    /\ UNCHANGED <<up, kills, index_vars, id_vars, proposal_vars>>

Profiled(i) ==
    \E n \in DOMAIN index["specs"] : index["specs"][n].id = i /\ index["specs"][n].profile # ""

\* A run without a profile takes that of its spec: from the index, or from the
\* kernel's database, and then the index is brought up to date first.
api_create_run(h) ==
    /\ up = "serving" /\ handler[h] = NoRequest
    /\ \E i \in RunIds :
        LET run == [tasks |-> Entry(i, ""), runs |-> Entry(i, "")]
        IN  \/ handler' = [handler EXCEPT ![h] = submit(run)]
            \/ \E spec \in Specs :
                /\ ~Profiled(spec)
                /\ handler' = [handler EXCEPT ![h] =
                                [pc |-> "hydrate", spec |-> spec, entries |-> run]]
    /\ UNCHANGED <<up, kills, index_vars, id_vars, proposal_vars>>

IdsIn(list) == {list[n].id : n \in DOMAIN list}

\* An entry that is not there goes to the end of its list while that has room.
index_push(list, e) ==
    IF e.id \in IdsIn(list) \/ Len(list) >= MAX_INDEX_ENTRIES THEN list ELSE Append(list, e)

Pushed(v, entries) ==
    [k \in Kinds |-> IF k \in DOMAIN entries THEN index_push(v[k], entries[k]) ELSE v[k]]

Hydrated(v, i) ==
    [v EXCEPT !["specs"] = [n \in DOMAIN @ |-> IF @[n].id = i THEN Entry(i, "p") ELSE @[n]]]

remember_Unlocked(h) ==
    /\ handler[h].pc \in {"remember", "hydrate"}
    /\ index' = IF handler[h].pc = "hydrate" THEN Hydrated(index, handler[h].spec)
                ELSE Pushed(index, handler[h].entries)
    /\ handler' = [handler EXCEPT ![h] = [pc |-> "write", image |-> index', entries |-> @.entries,
                                          done |-> @.pc = "remember"]]
    /\ UNCHANGED <<up, kills, disk, holder, acked, cut, id_vars, proposal_vars>>

\* remember: the lock is taken and the index changed.
remember(h) ==
    /\ handler[h].pc \in {"remember", "hydrate"} /\ holder = {}
    /\ holder' = {h}
    /\ index' = IF handler[h].pc = "hydrate" THEN Hydrated(index, handler[h].spec)
                ELSE Pushed(index, handler[h].entries)
    /\ handler' = [handler EXCEPT ![h] = [pc |-> "write", image |-> index', entries |-> @.entries,
                                          done |-> @.pc = "remember"]]
    /\ UNCHANGED <<up, kills, disk, acked, cut, id_vars, proposal_vars>>
\* remember, under the same lock: the whole index replaces the file in place.
\* A failure is dropped and the request goes on all the same.
persist(h) ==
    /\ handler[h].pc = "write"
    /\ \/ disk' = handler[h].image /\ UNCHANGED cut
       \/ disk' \in {disk, Torn} /\ cut' = TRUE
    /\ holder' = {}
    /\ IF handler[h].done
       THEN /\ acked' = acked \cup {<<k, handler[h].entries[k].id>> : k \in DOMAIN handler[h].entries}
            /\ handler' = [handler EXCEPT ![h] = NoRequest]
       ELSE /\ handler' \in {[handler EXCEPT ![h] = r] : r \in {submit(handler[h].entries), NoRequest}}
            /\ UNCHANGED acked
    /\ UNCHANGED <<up, kills, index, id_vars, proposal_vars>>

-----------------------------------------------------------------------------
(* Staging a proposal.                                                     *)

\* api_proposals_create: the document is written under a new name. A failed
\* write ends the request, perhaps with a file left behind.
api_proposals_create(h) ==
    /\ up = "serving" /\ handler[h] = NoRequest /\ staged < MaxProposed
    /\ staged' = staged + 1
    /\ mtime' = Append(mtime, clock)
    /\ \/ /\ documents' = documents \cup {staged + 1}
          /\ handler' = [handler EXCEPT ![h] = [pc |-> "list"]]
          /\ UNCHANGED owed
       \/ /\ documents' \in {documents, documents \cup {staged + 1}}
          /\ owed' = TRUE /\ UNCHANGED handler
    /\ UNCHANGED <<up, kills, clock, removed, index_vars, id_vars>>

Oldest_Short(files, excess) ==
    {s \in SUBSET files :
        /\ Cardinality(s) = (IF excess > 1 THEN 1 ELSE excess)
        /\ \A p \in s, q \in files \ s : mtime[p] <= mtime[q]}

\* The `excess` oldest of the files, in either order where mtimes are equal.
Oldest(files, excess) ==
    {s \in SUBSET files :
        /\ Cardinality(s) = excess
        /\ \A p \in s, q \in files \ s : mtime[p] <= mtime[q]}

Excess(files) == IF Cardinality(files) > MAX_PROPOSALS
                 THEN Cardinality(files) - MAX_PROPOSALS ELSE 0

\* prune_proposals: the directory is read and sorted, or the request fails,
prune_proposals(h) ==
    /\ handler[h].pc = "list"
    /\ \/ /\ \E s \in Oldest(documents, Excess(documents)) :
                handler' = [handler EXCEPT ![h] = [pc |-> "remove", files |-> s]]
          /\ owed' = FALSE
       \/ handler' = [handler EXCEPT ![h] = NoRequest] /\ owed' = TRUE
    /\ UNCHANGED <<up, kills, documents, staged, clock, mtime, removed, index_vars, id_vars>>

\* and the excess removed, one file after the other; another request may have
\* removed it already, and a failure is dropped.
remove_file(h) ==
    /\ handler[h].pc = "remove"
    /\ \/ \E p \in handler[h].files :
            /\ handler' = [handler EXCEPT ![h].files = @ \ {p}]
            /\ \/ /\ documents' = documents \ {p} /\ removed' = removed \cup {p}
                  /\ UNCHANGED owed
               \/ owed' = TRUE /\ UNCHANGED <<documents, removed>>
       \/ /\ handler[h].files = {} /\ handler' = [handler EXCEPT ![h] = NoRequest]
          /\ UNCHANGED <<documents, removed, owed>>
    /\ UNCHANGED <<up, kills, staged, clock, mtime, index_vars, id_vars>>

Tick ==
    /\ clock < MaxClock /\ clock' = clock + 1
    /\ UNCHANGED <<up, handler, kills, index_vars, id_vars, documents, staged, mtime, removed, owed>>

-----------------------------------------------------------------------------
IndexNext ==      \* from a runtime directory that has a device id
    \/ Start \/ KillGateway
    \/ \E h \in Handlers :
        \/ api_create_session(h) \/ api_put_spec(h) \/ api_create_run(h)
        \/ remember(h) \/ persist(h)

ProposalNext ==
    \/ Start \/ local_device_id \/ KillGateway \/ Tick
    \/ \E h \in Handlers : api_proposals_create(h) \/ prune_proposals(h) \/ remove_file(h)

FilesSpec == FilesInit /\ [][IndexNext \/ ProposalNext]_filesVars

-----------------------------------------------------------------------------
\* The index, the id and the proposals have their types.
FilesTypeOK ==
    /\ up \in {"down", "minting", "serving"}
    /\ index \in [Kinds -> Seq([id : Sessions \cup Specs \cup RunIds, profile : {"", "p"}])]
    /\ DOMAIN disk = Kinds
    /\ holder \subseteq Handlers /\ Cardinality(holder) <= 1
    /\ Cardinality(id_file) <= 1 /\ documents \subseteq 1..staged /\ removed \subseteq 1..staged

\* "a racing writer can't overwrite a newer index with an older snapshot"
\* (remember): unless a write failed or was cut, the file is the index whenever
\* no request holds it, across restarts; and what was reported is in it once,
\* or it is full.
IndexKept ==
    /\ \A k \in Kinds :
        /\ \A m, n \in DOMAIN index[k] : index[k][m].id = index[k][n].id => m = n
        /\ Len(index[k]) <= MAX_INDEX_ENTRIES
    /\ ~cut /\ holder = {} /\ up # "down" => disk = index
    /\ ~cut => \A x \in acked :
        x[2] \in IdsIn(disk[x[1]]) \/ Len(disk[x[1]]) = MAX_INDEX_ENTRIES

\* "persisted under the runtime dir so restarts keep the same id": unless
\* writing it failed, approvals are answered under one id, also when a start is
\* killed while it writes.
IdentityStable == ~id_cut => \A i, j \in used : i = j

\* "the oldest staged documents are deleted past this bound" (MAX_PROPOSALS):
\* when no request is staging one and none ended before it pruned, the bound
\* holds; and what was deleted had as many others as the bound that are no older.
ProposalsBounded ==
    /\ (~owed /\ \A h \in Handlers : handler[h] = NoRequest) => Cardinality(documents) <= MAX_PROPOSALS
    /\ \A p \in removed :
        Cardinality({q \in 1..staged \ {p} : mtime[q] >= mtime[p]}) >= MAX_PROPOSALS

\* The gateway's own files (agentgw/src/main.rs): the index is on disk as it is
\* in memory, the device id survives restarts, and only the oldest proposals
\* make way for new ones.
GatewayFilesKept == IndexKept /\ IdentityStable /\ ProposalsBounded
=============================================================================
