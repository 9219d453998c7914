----------------------------- MODULE Artifacts -----------------------------
(***************************************************************************)
(* The local artifact store (artifacts/src/local.rs): content in files     *)
(* named after id and digest, metadata in the caller's transaction.  One   *)
(* write transaction is open at a time.  The process may die between any   *)
(* two steps, and so may the machine, which forgets a rename whose         *)
(* directory was not yet synced; a committed transaction is durable.       *)
(*                                                                         *)
(* The directory sync of write_atomic is taken to succeed: the code        *)
(* ignores its errors.                                                     *)
(***************************************************************************)
EXTENDS Integers, FiniteSets

CONSTANTS Ids, Contents, MaxTxns

Retentions == {"Ephemeral", "Standard"}

VARIABLES
    files,      \* file name -> "none", "renamed" (not synced) or "synced"
    stored,     \* committed rows: [id, digest, retention]
    open,       \* whether a transaction is open
    pending,    \* the rows it sees, its own included
    put_pc,     \* the put under way: at most one [row, at]
    unlinked,   \* rows whose content `delete` removed
    txns        \* transactions begun

artifactVars == <<files, stored, open, pending, put_pc, unlinked, txns>>

Rows == [id : Ids, digest : Contents, retention : Retentions]

ArtifactsInit ==
    /\ files = [f \in Ids \X Contents |-> "none"]
    /\ stored = {} /\ pending = {} /\ open = FALSE
    /\ put_pc = {}
    /\ unlinked = {}
    /\ txns = 0

\* The content-addressed file of a row.
locator(row) == <<row.id, row.digest>>

\* The digest of the name is that of the content, so reading verifies it.
Readable(row) == files[locator(row)] # "none"

lookup(id) == {r \in pending : r.id = id}

begin_write ==
    /\ ~open /\ txns < MaxTxns
    /\ open' = TRUE
    /\ pending' = stored
    /\ txns' = txns + 1
    /\ UNCHANGED <<files, stored, put_pc, unlinked>>

\* Plausible bug: the metadata row goes in before the content is on disk.
put_RowFirst(row) ==
    /\ open /\ put_pc = {}
    /\ lookup(row.id) = {}
    /\ put_pc' = {[row |-> row, at |-> "rename"]}
    /\ pending' = pending \cup {row}
    /\ UNCHANGED <<files, stored, open, unlinked, txns>>

\* put: a known uri is a Conflict; otherwise the content is written first.
put(row) ==
    /\ open /\ put_pc = {}
    /\ lookup(row.id) = {}
    /\ put_pc' = {[row |-> row, at |-> "rename"]}
    /\ UNCHANGED <<files, stored, open, pending, unlinked, txns>>

\* write_atomic: the synced temporary file takes the final name, then the
\* directory is synced; either may fail, which ends the put.
write_atomic ==
    \E p \in put_pc :
      /\ \/ /\ p.at = "rename"
            /\ files' = [files EXCEPT ![locator(p.row)] =
                                        IF @ = "synced" THEN @ ELSE "renamed"]
            /\ put_pc' = {[p EXCEPT !.at = "sync"]}
         \/ /\ p.at = "sync"
            /\ files' = [files EXCEPT ![locator(p.row)] = "synced"]
            /\ put_pc' = {[p EXCEPT !.at = "insert"]}
         \/ /\ p.at = "rename"
            /\ put_pc' = {}
            /\ UNCHANGED files
      /\ UNCHANGED <<stored, open, pending, unlinked, txns>>

\* The row is inserted and read back, or the insert fails.
insert ==
    \E p \in put_pc :
      /\ p.at = "insert"
      /\ pending' \in {pending \cup {p.row}, pending}
      /\ put_pc' = {}
      /\ UNCHANGED <<files, stored, open, unlinked, txns>>

\* delete: only ephemeral content, at once; the row stays, whatever becomes
\* of the transaction.
delete(id) ==
    /\ open /\ put_pc = {}
    /\ \E row \in lookup(id) :
         /\ row.retention = "Ephemeral"
         /\ files' = [files EXCEPT ![locator(row)] = "none"]
         /\ unlinked' = unlinked \cup {row}
    /\ UNCHANGED <<stored, open, pending, put_pc, txns>>

commit ==
    /\ open /\ put_pc = {}
    /\ stored' = pending
    /\ open' = FALSE /\ pending' = {}
    /\ UNCHANGED <<files, put_pc, unlinked, txns>>

\* The caller rolls back, or the process dies, in the middle of a put or not.
rollback ==
    /\ open
    /\ open' = FALSE /\ pending' = {} /\ put_pc' = {}
    /\ UNCHANGED <<files, stored, unlinked, txns>>

\* The machine loses power, and with it any of the renames not yet synced.
PowerLoss ==
    /\ \E lost \in SUBSET {f \in DOMAIN files : files[f] = "renamed"} :
         files' = [f \in DOMAIN files |-> IF f \in lost THEN "none" ELSE files[f]]
    /\ open' = FALSE /\ pending' = {} /\ put_pc' = {}
    /\ UNCHANGED <<stored, unlinked, txns>>

ArtifactsNext ==
    \/ begin_write
    \/ \E row \in Rows : put(row)
    \/ write_atomic
    \/ insert
    \/ \E id \in Ids : delete(id)
    \/ commit
    \/ rollback
    \/ PowerLoss

ArtifactsSpec == ArtifactsInit /\ [][ArtifactsNext]_artifactVars

\* Every variable has its type.
ArtifactsTypeOK ==
    /\ files \in [Ids \X Contents -> {"none", "renamed", "synced"}]
    /\ stored \subseteq Rows /\ pending \subseteq Rows
    /\ Cardinality(put_pc) <= 1
    /\ unlinked \subseteq Rows

\* put promises that a committed artifact is always readable.  Every committed
\* row has its content, across rollbacks, kills and power losses, and also
\* when an earlier transaction left the same file behind, unless `delete` was
\* asked to unlink that content; and an id never names two contents.
CommittedReadable ==
    /\ \A row \in stored : Readable(row) \/ row \in unlinked
    /\ \A r, s \in stored : r.id = s.id => r = s
=============================================================================
