-------------------------- MODULE WorkspaceLeases --------------------------
(***************************************************************************)
(* Write authority over workspaces: workspace/src/coordinator.rs over the  *)
(* workspaces and workspace_leases tables, and the command execution the   *)
(* lease gates (sandbox/src/manager.rs).  A call returns the lease row;    *)
(* the run that made it keeps the row as a handle, however old it gets.    *)
(* Coordinator calls are one write transaction each.  exec_in_workspace    *)
(* checks the handle and runs the command inside one transaction, so a     *)
(* command in progress keeps every other writer out.                       *)
(***************************************************************************)
EXTENDS Naturals, FiniteSets, Optional

CONSTANTS
    Holders,   \* the runs that ask for leases
    Workspaces,
    Leases,    \* lease ids still to be minted
    MaxEpoch   \* bound: transfers and revocations of a lease

Modes == {"ReadOnly", "ExclusiveWrite", "IsolatedFork", "SharedCoordinatedWrite"}

Lease == [ws : Workspaces, owner : Holders, mode : Modes, epoch : 1..MaxEpoch,
          active : BOOLEAN]

Handle == [lease : Leases, ws : Workspaces, run : Holders, epoch : 1..MaxEpoch]

\* The absence of a row is no row, and a first epoch can be given out.
ASSUME LeaseAssumption == MaxEpoch \in Nat \ {0} /\ None \notin Lease \cup Handle

VARIABLES
    known,    \* rows of workspaces
    leases,   \* rows of workspace_leases
    handles,  \* rows callers have been given
    writer    \* the handle of the command in progress

leaseVars == <<known, leases, handles, writer>>

LeaseTypeOK ==
    /\ known \subseteq Workspaces
    /\ leases \in [Leases -> Lease \cup {None}]
    /\ handles \subseteq Handle
    /\ writer \in Handle \cup {None}

LeaseInit ==
    /\ known = {}
    /\ leases = [l \in Leases |-> None]
    /\ handles = {}
    /\ writer = None

-----------------------------------------------------------------------------
\* Mutant: transactions are not serialised.
begin_write_Deferred == TRUE

\* BEGIN IMMEDIATE waits for the command's transaction to end.
begin_write == writer = None

\* The partial unique index: one active exclusive lease per workspace.
IndexFree(w) ==
    ~ \E l \in Leases : /\ leases[l] # None
                        /\ leases[l].ws = w
                        /\ leases[l].mode = "ExclusiveWrite"
                        /\ leases[l].active

Give(l, w, r, e) ==
    handles' = handles \cup {[lease |-> l, ws |-> w, run |-> r, epoch |-> e]}

\* Mutant: the index does not cover the insertion.
Insert_NoIndex(l, w, r, m) ==
    /\ leases[l] = None
    /\ leases' = [leases EXCEPT ![l] = [ws |-> w, owner |-> r, mode |-> m,
                                        epoch |-> 1, active |-> TRUE]]
    /\ Give(l, w, r, 1)

Insert(l, w, r, m) ==
    /\ leases[l] = None
    /\ m = "ExclusiveWrite" => IndexFree(w)
    /\ leases' = [leases EXCEPT ![l] = [ws |-> w, owner |-> r, mode |-> m,
                                        epoch |-> 1, active |-> TRUE]]
    /\ Give(l, w, r, 1)

\* capable: the adapter advertises locking, versioned writes and conflict
\* reports.  A lease does not need a workspace row.
acquire_lease(l, w, r, m, capable) ==
    /\ begin_write
    /\ m = "SharedCoordinatedWrite" => capable
    /\ Insert(l, w, r, m)
    /\ UNCHANGED <<known, writer>>

record_workspace(w) ==
    /\ begin_write
    /\ w \notin known
    /\ known' = known \cup {w}
    /\ UNCHANGED <<leases, handles, writer>>

\* git: the parent is a repository, whose recorded base the fork needs.
fork_for_child(l, parent, w, r, git) ==
    /\ begin_write
    /\ git => parent \in known
    /\ w \notin known
    /\ known' = known \cup {w}
    /\ Insert(l, w, r, "ExclusiveWrite")
    /\ UNCHANGED writer

\* Mutant: a transfer keeps the epoch.
transfer_exclusive_SameEpoch(h, to) ==
    /\ begin_write
    /\ LET l == leases[h.lease]
       IN  /\ l.mode = "ExclusiveWrite" /\ l.active
           /\ l.owner = h.run /\ l.epoch = h.epoch
    /\ leases' = [leases EXCEPT ![h.lease].owner = to]
    /\ Give(h.lease, leases[h.lease].ws, to, h.epoch)
    /\ UNCHANGED <<known, writer>>

transfer_exclusive(h, to) ==
    /\ begin_write
    /\ h.epoch < MaxEpoch
    /\ LET l == leases[h.lease]
       IN  /\ l.mode = "ExclusiveWrite" /\ l.active
           /\ l.owner = h.run /\ l.epoch = h.epoch
    /\ leases' = [leases EXCEPT ![h.lease].owner = to,
                                ![h.lease].epoch = h.epoch + 1]
    /\ Give(h.lease, leases[h.lease].ws, to, h.epoch + 1)
    /\ UNCHANGED <<known, writer>>

\* Only the epoch is compared: any mode, and a revoked lease too.
revoke_lease(h) ==
    /\ begin_write
    /\ h.epoch < MaxEpoch
    /\ leases[h.lease].epoch = h.epoch
    /\ leases' = [leases EXCEPT ![h.lease].active = FALSE,
                                ![h.lease].epoch = h.epoch + 1]
    /\ UNCHANGED <<known, handles, writer>>

verify_write_authority(h) ==
    LET l == leases[h.lease]
    IN  /\ l.ws = h.ws /\ l.owner = h.run /\ l.epoch = h.epoch
        /\ l.active /\ l.mode = "ExclusiveWrite"

\* The command starts in the transaction that checked its handle ...
exec_in_workspace(h) ==
    /\ begin_write
    /\ verify_write_authority(h)
    /\ writer' = h
    /\ UNCHANGED <<known, leases, handles>>

\* ... which ends after the command: it exits, or its process group is
\* killed on the deadline, on cancellation or when the call is dropped.
ExecEnds ==
    /\ writer # None
    /\ writer' = None
    /\ UNCHANGED <<known, leases, handles>>

LeaseNext ==
    \/ \E l \in Leases, w \in Workspaces, r \in Holders, m \in Modes, c \in BOOLEAN :
           acquire_lease(l, w, r, m, c)
    \/ \E w \in Workspaces : record_workspace(w)
    \/ \E l \in Leases, p, w \in Workspaces, r \in Holders, g \in BOOLEAN :
           fork_for_child(l, p, w, r, g)
    \/ \E h \in handles, to \in Holders : transfer_exclusive(h, to)
    \/ \E h \in handles : revoke_lease(h)
    \/ \E h \in handles : exec_in_workspace(h)
    \/ ExecEnds

LeaseSpec == LeaseInit /\ [][LeaseNext]_leaseVars

-----------------------------------------------------------------------------
(* Of all the handles runs have ever been given, at most one has write     *)
(* authority over a workspace, through acquisitions, forks, transfers and  *)
(* revocations.                                                            *)
AtMostOne ==
    \A h, k \in handles :
        /\ h.ws = k.ws
        /\ verify_write_authority(h)
        /\ verify_write_authority(k)
        => h = k

(* A stale handle is dead for good: once verify_write_authority refuses a  *)
(* handle it refuses it for ever, even when the lease comes back to the    *)
(* same run.                                                               *)
StaleStaysStale ==
    \A h \in handles :
        ~verify_write_authority(h) => ~verify_write_authority(h)'

(* A command never outlives its authority: while one runs, its run holds   *)
(* the exclusive lease at the epoch it was checked at.                     *)
WriterAuthorised == writer # None => verify_write_authority(writer)

(* At most one handle can write to a workspace, a running command holds it *)
(* throughout, and a handle that has gone stale stays stale                *)
(* (coordinator.rs, sandbox manager.rs).                                   *)
OneAuthority == [][(AtMostOne /\ WriterAuthorised)' /\ StaleStaysStale]_leaseVars
=============================================================================
