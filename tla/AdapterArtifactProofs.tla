------------------------ MODULE AdapterArtifactProofs -----------------------
(***************************************************************************)
(* Proofs about Artifacts, AdapterSession and AdapterBundles, the parts of *)
(* the platform that keep files and processes.  For any artifacts,         *)
(* contents and transactions every committed artifact can be read; for any *)
(* number of processes, calls and frames a call is answered by its own     *)
(* process, and a terminated group is gone; for any bundles and commands   *)
(* at once an installed bundle loads and a run binds to a current one.     *)
(***************************************************************************)
EXTENDS Artifacts, AdapterSession, AdapterBundles, SequenceTheorems, TLAPS

-----------------------------------------------------------------------------
(* Artifacts: the inductive invariant.                                     *)

Stages == {"rename", "sync", "insert"}

\* A row that is stored, or that a transaction sees, has its content on disk for
\* good, unless delete took it.
ContentInv ==
    \A row \in stored \cup pending : files[locator(row)] = "synced" \/ row \in unlinked

\* The open transaction sees what is stored; no id has two rows in it.
RowsInv ==
    /\ IF open THEN stored \subseteq pending ELSE pending = {} /\ put_pc = {}
    /\ \A r, s \in stored \cup pending : r.id = s.id => r = s

\* There is one put at a time, of an id without a row, and it inserts the row
\* only when the content is on disk for good.
PutInv ==
    /\ \A p, q \in put_pc : p = q
    /\ \A p \in put_pc : /\ \A r \in pending : r.id # p.row.id
                         /\ p.at = "insert" => files[locator(p.row)] = "synced"

ArtifactInv ==
    /\ files \in [Ids \X Contents -> {"none", "renamed", "synced"}]
    /\ stored \subseteq Rows /\ pending \subseteq Rows /\ unlinked \subseteq Rows
    /\ put_pc \subseteq [row : Rows, at : Stages]
    /\ ContentInv /\ RowsInv /\ PutInv

LEMMA ArtifactInvInit == ArtifactsInit => ArtifactInv
BY DEF ArtifactsInit, ArtifactInv, ContentInv, RowsInv, PutInv

-----------------------------------------------------------------------------
(* Artifacts: the steps.                                                   *)

\* A row's file is named after its id and digest.
LEMMA LocatorParts ==
    ASSUME NEW r \in Rows, NEW s \in Rows
    PROVE  /\ locator(r) \in Ids \X Contents
           /\ locator(r) = locator(s) => r.id = s.id
BY DEF Rows, locator

LEMMA BeginStep == ASSUME ArtifactInv, begin_write PROVE ArtifactInv'
BY DEF ArtifactInv, ContentInv, RowsInv, PutInv, begin_write

LEMMA PutStep == ASSUME ArtifactInv, NEW row \in Rows, put(row) PROVE ArtifactInv'
<1>1. /\ open /\ put_pc' = {[row |-> row, at |-> "rename"]} /\ \A r \in pending : r.id # row.id
      /\ UNCHANGED <<files, stored, open, pending, unlinked, txns>>
  BY Zenon DEF put, lookup
<1>2. [row |-> row, at |-> "rename"] \in [row : Rows, at : Stages]
  BY DEF Stages
<1>3. put_pc' \subseteq [row : Rows, at : Stages]
  BY <1>1, <1>2, Zenon
<1>4. PutInv'
  BY <1>1 DEF PutInv
<1> QED BY <1>1, <1>3, <1>4, Zenon DEF ArtifactInv, ContentInv, RowsInv

LEMMA WriteStep == ASSUME ArtifactInv, write_atomic PROVE ArtifactInv'
<1>1. PICK p \in put_pc :
        /\ \/ /\ p.at = "rename"
              /\ files' = [files EXCEPT ![locator(p.row)] =
                                          IF @ = "synced" THEN @ ELSE "renamed"]
              /\ put_pc' = {[p EXCEPT !.at = "sync"]}
           \/ /\ p.at = "sync"
              /\ files' = [files EXCEPT ![locator(p.row)] = "synced"]
              /\ put_pc' = {[p EXCEPT !.at = "insert"]}
           \/ p.at = "rename" /\ put_pc' = {} /\ UNCHANGED files
        /\ UNCHANGED <<stored, open, pending, unlinked, txns>>
  BY Zenon DEF write_atomic
<1>2. /\ p \in [row : Rows, at : Stages] /\ p.row \in Rows
      /\ open /\ stored \subseteq pending /\ \A r \in pending : r.id # p.row.id
  <2>1. p \in [row : Rows, at : Stages]
    BY <1>1, Zenon DEF ArtifactInv
  <2>2. p.row \in Rows
    BY <2>1
  <2>3. open /\ stored \subseteq pending /\ \A r \in pending : r.id # p.row.id
    BY <1>1, Zenon DEF ArtifactInv, RowsInv, PutInv
  <2> QED BY <2>1, <2>2, <2>3, Zenon
<1>3. /\ files' \in [Ids \X Contents -> {"none", "renamed", "synced"}]
      /\ \A f \in Ids \X Contents : f # locator(p.row) => files'[f] = files[f]
      /\ p.at = "sync" => files'[locator(p.row)] = "synced"
  <2>1. files \in [Ids \X Contents -> {"none", "renamed", "synced"}]
    BY Zenon DEF ArtifactInv
  <2>2. locator(p.row) \in Ids \X Contents
    BY <1>2, LocatorParts, Zenon
  <2> QED BY <1>1, <2>1, <2>2
<1>4. ContentInv'
  <2> SUFFICES ASSUME NEW r \in stored \cup pending
               PROVE  files'[locator(r)] = "synced" \/ r \in unlinked
    BY <1>1, Zenon DEF ContentInv
  <2>1. r \in Rows /\ r.id # p.row.id
    BY <1>2, Zenon DEF ArtifactInv
  <2>2. locator(r) # locator(p.row) /\ locator(r) \in Ids \X Contents
    BY <1>2, <2>1, LocatorParts, Zenon
  <2> QED BY <1>3, <2>2, Zenon DEF ArtifactInv, ContentInv
<1>5. put_pc' \subseteq [row : Rows, at : Stages] /\ PutInv'
  <2>1. /\ [p EXCEPT !.at = "sync"] \in [row : Rows, at : Stages]
        /\ [p EXCEPT !.at = "insert"] \in [row : Rows, at : Stages]
        /\ [p EXCEPT !.at = "sync"].row = p.row /\ [p EXCEPT !.at = "sync"].at = "sync"
        /\ [p EXCEPT !.at = "insert"].row = p.row
    BY <1>2 DEF Stages
  <2> QED BY <1>1, <1>2, <1>3, <2>1, Zenon DEF PutInv
<1>6. RowsInv'
  BY <1>1, <1>2, Zenon DEF ArtifactInv, RowsInv
<1> QED BY <1>1, <1>3, <1>4, <1>5, <1>6, Zenon DEF ArtifactInv

LEMMA InsertStep == ASSUME ArtifactInv, insert PROVE ArtifactInv'
<1>1. PICK p \in put_pc :
        /\ p.at = "insert" /\ pending' \in {pending \cup {p.row}, pending} /\ put_pc' = {}
        /\ UNCHANGED <<files, stored, open, unlinked, txns>>
  BY Zenon DEF insert
<1>2. p \in [row : Rows, at : Stages]
  BY <1>1, Zenon DEF ArtifactInv
<1>3. /\ p.row \in Rows /\ files[locator(p.row)] = "synced"
      /\ open /\ stored \subseteq pending /\ \A r \in pending : r.id # p.row.id
  <2>1. p.row \in Rows
    BY <1>2
  <2> QED BY <1>1, <2>1, Zenon DEF ArtifactInv, RowsInv, PutInv
<1>4. ContentInv' /\ PutInv'
  BY <1>1, <1>3, Zenon DEF ArtifactInv, ContentInv, PutInv
<1>5. RowsInv'
  BY <1>1, <1>3, Zenon DEF ArtifactInv, RowsInv
<1> QED BY <1>1, <1>3, <1>4, <1>5, Zenon DEF ArtifactInv

LEMMA DeleteStep == ASSUME ArtifactInv, NEW id \in Ids, delete(id) PROVE ArtifactInv'
<1>1. PICK row \in pending :
        /\ open /\ put_pc = {}
        /\ files' = [files EXCEPT ![locator(row)] = "none"]
        /\ unlinked' = unlinked \cup {row}
        /\ UNCHANGED <<stored, open, pending, put_pc, txns>>
  BY Zenon DEF delete, lookup
<1>2. row \in Rows /\ files \in [Ids \X Contents -> {"none", "renamed", "synced"}]
  BY <1>1, Zenon DEF ArtifactInv
<1>3. /\ files' \in [Ids \X Contents -> {"none", "renamed", "synced"}]
      /\ \A f \in Ids \X Contents : f # locator(row) => files'[f] = files[f]
  BY <1>1, <1>2
<1>4. ContentInv'
  <2> SUFFICES ASSUME NEW r \in stored \cup pending, r # row
               PROVE  files'[locator(r)] = "synced" \/ r \in unlinked
    BY <1>1, Zenon DEF ContentInv
  <2>1. r \in Rows /\ r.id # row.id
    BY <1>1, Zenon DEF ArtifactInv, RowsInv
  <2>2. locator(r) # locator(row) /\ locator(r) \in Ids \X Contents
    BY <1>2, <2>1, LocatorParts, Zenon
  <2> QED BY <1>3, <2>2, Zenon DEF ArtifactInv, ContentInv
<1> QED BY <1>1, <1>2, <1>3, <1>4, Zenon DEF ArtifactInv, RowsInv, PutInv

LEMMA PowerLossStep == ASSUME ArtifactInv, PowerLoss PROVE ArtifactInv'
<1>1. PICK lost \in SUBSET {f \in DOMAIN files : files[f] = "renamed"} :
        /\ files' = [f \in DOMAIN files |-> IF f \in lost THEN "none" ELSE files[f]]
        /\ open' = FALSE /\ pending' = {} /\ put_pc' = {}
        /\ UNCHANGED <<stored, unlinked, txns>>
  BY Zenon DEF PowerLoss
<1>2. files \in [Ids \X Contents -> {"none", "renamed", "synced"}]
  BY Zenon DEF ArtifactInv
<1>3. /\ files' \in [Ids \X Contents -> {"none", "renamed", "synced"}]
      /\ \A f \in Ids \X Contents : files[f] = "synced" => files'[f] = "synced"
  BY <1>1, <1>2
<1>4. ContentInv'
  BY <1>1, <1>3, LocatorParts, Zenon DEF ArtifactInv, ContentInv
<1> QED BY <1>1, <1>3, <1>4, Zenon DEF ArtifactInv, RowsInv, PutInv

LEMMA ArtifactStep ==
    ASSUME ArtifactInv, [ArtifactsNext]_artifactVars
    PROVE  ArtifactInv'
<1>1. CASE begin_write
  BY <1>1, BeginStep, Zenon
<1>2. CASE \E row \in Rows : put(row)
  BY <1>2, PutStep, Zenon
<1>3. CASE write_atomic \/ insert
  BY <1>3, WriteStep, InsertStep, Zenon
<1>4. CASE \E id \in Ids : delete(id)
  BY <1>4, DeleteStep, Zenon
<1>5. CASE commit
  BY <1>5, Zenon DEF commit, ArtifactInv, ContentInv, RowsInv, PutInv
<1>6. CASE rollback
  BY <1>6, Zenon DEF rollback, ArtifactInv, ContentInv, RowsInv, PutInv
<1>7. CASE PowerLoss
  BY <1>7, PowerLossStep, Zenon
<1>8. CASE UNCHANGED artifactVars
  BY <1>8, Zenon DEF artifactVars, ArtifactInv, ContentInv, RowsInv, PutInv
<1> QED BY <1>1, <1>2, <1>3, <1>4, <1>5, <1>6, <1>7, <1>8, Zenon DEF ArtifactsNext

-----------------------------------------------------------------------------
(* Artifacts: the theorem.                                                 *)

\* put promises that a committed artifact is always readable: for any ids and
\* contents, through rollbacks, kills and power losses at any point of a put,
\* every committed row has its content on disk unless delete unlinked it, and an
\* id never names two contents.
THEOREM ArtifactsReadable == ArtifactsSpec => []CommittedReadable
<1>1. ArtifactInv => CommittedReadable
  BY Zenon DEF ArtifactInv, ContentInv, RowsInv, CommittedReadable, Readable
<1>2. ArtifactInv /\ [ArtifactsNext]_artifactVars => ArtifactInv'
  BY ArtifactStep
<1> QED BY <1>1, <1>2, ArtifactInvInit, PTL DEF ArtifactsSpec

-----------------------------------------------------------------------------
(* Adapter processes: the inductive invariant.                             *)

Process == [leader : BOOLEAN, kin : BOOLEAN, heard : SUBSET Nat, named : BOOLEAN]
Results == {"pending", "ok", "cancelled", "refused", "closed", "expired", "lost"}
Call == [to : Nat, result : Results]
Seen(box) == {box[n] : n \in DOMAIN box}

\* Every process has a socket, and every row a process.
ProcInv ==
    /\ procs \in Seq(Process) /\ inbox \in Seq(Seq(Frames)) /\ Len(inbox) = Len(procs)
    /\ DOMAIN rows \subseteq DOMAIN procs

\* The worker is idle exactly when it works on no process; while it starts a loop
\* process it keeps no other, and a turn runs on the one it keeps.
WorkInv ==
    /\ cur \in 0..Len(procs) /\ held \in 0..Len(procs)
    /\ pc = "idle" <=> cur = 0
    /\ kind \in {"effect", "loop"}
    /\ kind = "loop" => /\ pc \in {"spawned", "recorded", "hello", "verified"} => held = 0
                        /\ pc = "calling" => cur = held

\* An answer that waits in a socket was sent by that process, and a good greeting
\* named it.
MailInv ==
    \A i \in DOMAIN inbox : \A frame \in Seen(inbox[i]) :
        /\ frame.f = "Response" => <<i, frame.id>> \in answered
        /\ frame.f = "Hello" /\ frame.good => procs[i].named

\* The process that is past its greeting, and the one that is kept, were named.
NameInv ==
    /\ pc \in {"verified", "ready"} => procs[cur].named
    /\ held # 0 => procs[held].named

\* A call went to a named process, which sent the answer it got; the last call is
\* the one under way.
CallInv ==
    /\ calls \in Seq(Call)
    /\ \A k \in DOMAIN calls :
         /\ calls[k].to \in DOMAIN procs /\ procs[calls[k].to].named
         /\ calls[k].result = "ok" => <<calls[k].to, k>> \in answered
    /\ pc = "calling" => Len(calls) # 0 /\ calls[Len(calls)].to = cur

SessionInv == ProcInv /\ WorkInv /\ MailInv /\ NameInv /\ CallInv /\ GroupGone

LEMMA SessionInvInit == SessionInit => SessionInv
<1> SUFFICES ASSUME SessionInit PROVE SessionInv
  OBVIOUS
<1>1. /\ procs = <<>> /\ inbox = <<>> /\ calls = <<>> /\ rows = <<>>
      /\ pc = "idle" /\ cur = 0 /\ kind = "effect" /\ held = 0
  BY Zenon DEF SessionInit
<1>2. ProcInv /\ CallInv
  BY <1>1 DEF ProcInv, CallInv
<1>3. WorkInv /\ MailInv /\ NameInv /\ GroupGone
  BY <1>1 DEF WorkInv, MailInv, NameInv, GroupGone
<1> QED BY <1>2, <1>3, Zenon DEF SessionInv

-----------------------------------------------------------------------------
(* Adapter processes: what a step does to processes, sockets and calls.    *)

LiveAfter(i) == procs'[i].leader \/ procs'[i].kin

\* No process is added, forgets its name or comes back to life.
Quiet ==
    /\ procs' \in Seq(Process) /\ Len(procs') = Len(procs) /\ DOMAIN procs' = DOMAIN procs
    /\ \A i \in DOMAIN procs : /\ procs[i].named => procs'[i].named
                               /\ LiveAfter(i) => Alive(i)

\* Frames are read or lost, and none arrives.
Shrunk ==
    /\ inbox' \in Seq(Seq(Frames)) /\ Len(inbox') = Len(inbox) /\ DOMAIN inbox' = DOMAIN inbox
    /\ \A i \in DOMAIN inbox : Seen(inbox'[i]) \subseteq Seen(inbox[i])

LEMMA QuietSame == ASSUME ProcInv, UNCHANGED procs PROVE Quiet
BY Zenon DEF ProcInv, Quiet, LiveAfter, Alive

\* One process changes, which does not bring it back to life or take its name.
LEMMA QuietChange ==
    ASSUME ProcInv, NEW i \in DOMAIN procs, NEW q \in Process, procs' = [procs EXCEPT ![i] = q],
           procs[i].named => q.named, q.leader \/ q.kin => Alive(i)
    PROVE  Quiet /\ procs'[i] = q
<1>1. procs \in Seq(Process)
  BY Zenon DEF ProcInv
<1>2. /\ procs' \in Seq(Process) /\ Len(procs') = Len(procs) /\ DOMAIN procs' = DOMAIN procs
      /\ procs'[i] = q /\ \A j \in DOMAIN procs : j # i => procs'[j] = procs[j]
  BY <1>1
<1> QED BY <1>2, Zenon DEF Quiet, LiveAfter, Alive

LEMMA QuietKill ==
    ASSUME ProcInv, NEW i \in DOMAIN procs, Kill(i)
    PROVE  Quiet /\ ~LiveAfter(i)
<1> DEFINE q == [procs[i] EXCEPT !.leader = FALSE, !.kin = FALSE]
<1>1. procs[i] \in Process
  BY DEF ProcInv
<1>2. q \in Process /\ q.named = procs[i].named /\ q.leader = FALSE /\ q.kin = FALSE
  BY <1>1 DEF Process
<1>3. procs' = [procs EXCEPT ![i] = q]
  BY DEF Kill, ProcInv
<1> HIDE DEF q
<1> QED BY <1>2, <1>3, QuietChange, Zenon DEF LiveAfter

LEMMA ShrunkSame == ASSUME ProcInv, UNCHANGED inbox PROVE Shrunk
BY Zenon DEF ProcInv, Shrunk

LEMMA ShrunkClose == ASSUME ProcInv, NEW S, Close(S) PROVE Shrunk
<1>1. /\ inbox \in Seq(Seq(Frames)) /\ DOMAIN inbox = 1..Len(inbox) /\ Len(inbox) \in Nat
      /\ inbox' = [i \in 1..Len(inbox) |-> IF i \in S THEN <<>> ELSE inbox[i]]
  BY DEF ProcInv, Close
<1>2. \A i \in 1..Len(inbox) : inbox[i] \in Seq(Frames) /\ inbox'[i] \in {<<>>, inbox[i]}
  BY <1>1
<1>3. <<>> \in Seq(Frames) /\ Seen(<<>>) = {}
  BY DEF Seen
<1>4. inbox' \in [1..Len(inbox) -> Seq(Frames)]
  BY <1>1, <1>3
<1>5. inbox' \in Seq(Seq(Frames)) /\ Len(inbox') = Len(inbox) /\ DOMAIN inbox' = DOMAIN inbox
  BY <1>1, <1>4
<1>6. \A i \in DOMAIN inbox : Seen(inbox'[i]) \subseteq Seen(inbox[i])
  BY <1>1, <1>2, <1>3, Zenon
<1> QED BY <1>5, <1>6, Zenon DEF Shrunk

LEMMA ShrunkTake ==
    ASSUME ProcInv, cur \in DOMAIN inbox, inbox[cur] # <<>>, Take
    PROVE  Shrunk /\ Head(inbox[cur]) \in Seen(inbox[cur])
<1>1. /\ inbox \in Seq(Seq(Frames)) /\ inbox[cur] \in Seq(Frames)
      /\ inbox' = [inbox EXCEPT ![cur] = Tail(inbox[cur])]
  BY DEF ProcInv, Take
<1>2. /\ Tail(inbox[cur]) \in Seq(Frames) /\ Seen(Tail(inbox[cur])) \subseteq Seen(inbox[cur])
      /\ Head(inbox[cur]) \in Seen(inbox[cur])
  <2> DEFINE box == inbox[cur]
  <2>1. box \in Seq(Frames) /\ box # <<>>
    BY <1>1
  <2> HIDE DEF box
  <2>2. /\ Tail(box) \in Seq(Frames) /\ Len(Tail(box)) = Len(box) - 1 /\ Len(box) \in Nat \ {0}
        /\ \A n \in 1..Len(Tail(box)) : Tail(box)[n] = box[n + 1]
        /\ Head(box) = box[1] /\ DOMAIN box = 1..Len(box) /\ DOMAIN Tail(box) = 1..Len(Tail(box))
    BY <2>1
  <2>3. Tail(box) \in Seq(Frames) /\ Seen(Tail(box)) \subseteq Seen(box) /\ Head(box) \in Seen(box)
    BY <2>2 DEF Seen
  <2> QED BY <2>3 DEF box
<1>3. /\ inbox' \in Seq(Seq(Frames)) /\ Len(inbox') = Len(inbox) /\ DOMAIN inbox' = DOMAIN inbox
      /\ inbox'[cur] = Tail(inbox[cur]) /\ \A i \in DOMAIN inbox : i # cur => inbox'[i] = inbox[i]
  BY <1>1, <1>2
<1>4. \A i \in DOMAIN inbox : Seen(inbox'[i]) \subseteq Seen(inbox[i])
  BY <1>2, <1>3, Zenon
<1> QED BY <1>2, <1>3, <1>4, Zenon DEF Shrunk

LEMMA ProcKept ==
    ASSUME ProcInv, Quiet, Shrunk, DOMAIN rows' \subseteq DOMAIN procs
    PROVE  ProcInv'
BY Zenon DEF ProcInv, Quiet, Shrunk

LEMMA MailKept ==
    ASSUME ProcInv, MailInv, Quiet, Shrunk, UNCHANGED answered
    PROVE  MailInv'
<1>1. DOMAIN inbox = DOMAIN procs
  BY DEF ProcInv
<1> QED BY <1>1, Zenon DEF MailInv, Quiet, Shrunk

LEMMA CallKept ==
    ASSUME CallInv, Quiet, UNCHANGED <<calls, answered>>,
           pc' = "calling" => pc = "calling" /\ cur' = cur
    PROVE  CallInv'
BY Zenon DEF CallInv, Quiet

LEMMA CallEnds ==
    ASSUME CallInv, Quiet, UNCHANGED answered, pc = "calling", pc' # "calling",
           NEW r \in Results, Finish(r), r = "ok" => <<cur, Len(calls)>> \in answered
    PROVE  CallInv'
<1>1. /\ calls \in Seq(Call) /\ Len(calls) \in DOMAIN calls /\ calls[Len(calls)].to = cur
      /\ calls' = [calls EXCEPT ![Len(calls)].result = r]
  BY DEF CallInv, Finish
<1>2. calls[Len(calls)] \in Call
  BY <1>1
<1>3. [calls[Len(calls)] EXCEPT !.result = r] \in Call
  BY <1>2, Zenon DEF Call
<1>4. /\ calls' \in Seq(Call) /\ DOMAIN calls' = DOMAIN calls
      /\ \A k \in DOMAIN calls : k # Len(calls) => calls'[k] = calls[k]
      /\ calls'[Len(calls)] = [calls[Len(calls)] EXCEPT !.result = r]
  BY <1>1, <1>3
<1>5. calls'[Len(calls)].to = cur /\ calls'[Len(calls)].result = r
  BY <1>1, <1>2, <1>4 DEF Call
<1>6. \A k \in DOMAIN calls' :
        /\ calls'[k].to \in DOMAIN procs /\ procs[calls'[k].to].named
        /\ calls'[k].result = "ok" => <<calls'[k].to, k>> \in answered
  <2>1. CASE r = "ok"
    BY <2>1, <1>1, <1>4, <1>5, Zenon DEF CallInv
  <2>2. CASE r # "ok"
    BY <2>2, <1>1, <1>4, <1>5, Zenon DEF CallInv
  <2> QED BY <2>1, <2>2
<1> QED BY <1>4, <1>6, Zenon DEF CallInv, Quiet

LEMMA GoneKept ==
    ASSUME GroupGone, Quiet,
           \A i \in DOMAIN procs : \/ i \in {cur', held'} \cup dropped'
                                   \/ i \notin {cur, held} \cup dropped
                                   \/ ~LiveAfter(i),
           pc' = "mark" => cur' \in DOMAIN procs /\ ~LiveAfter(cur'),
           \A i \in DOMAIN procs : i \in DOMAIN rows' /\ rows'[i] = "exited" =>
                \/ i \in DOMAIN rows /\ rows[i] = "exited"
                \/ ~LiveAfter(i)
    PROVE  GroupGone'
<1> SUFFICES ASSUME NEW i \in DOMAIN procs, LiveAfter(i)
             PROVE  /\ i \in {cur', held'} \cup dropped'
                    /\ ~(i = cur' /\ pc' = "mark")
                    /\ ~(i \in DOMAIN rows' /\ rows'[i] = "exited")
  BY Zenon DEF Quiet, GroupGone, LiveAfter, Alive
<1>1. Alive(i)
  BY Zenon DEF Quiet
<1>2. i \in {cur, held} \cup dropped /\ ~(i \in DOMAIN rows /\ rows[i] = "exited")
  BY <1>1, Zenon DEF GroupGone
<1> QED BY <1>2, Zenon

\* No row changes to exited.
RowsKept ==
    /\ DOMAIN rows' \subseteq DOMAIN procs
    /\ \A i \in DOMAIN rows' : rows'[i] = "exited" => i \in DOMAIN rows /\ rows[i] = "exited"

LEMMA RowsSame == ASSUME ProcInv, UNCHANGED rows PROVE RowsKept
BY Zenon DEF ProcInv, RowsKept

LEMMA RowsFailed == ASSUME ProcInv, mark_failed PROVE RowsKept
<1>1. CASE rows' = [rows EXCEPT ![cur] = "failed"]
  BY <1>1 DEF ProcInv, RowsKept
<1> QED BY <1>1, RowsSame, Zenon DEF mark_failed

LEMMA Domains ==
    ASSUME ProcInv, WorkInv
    PROVE  /\ DOMAIN procs = 1..Len(procs) /\ DOMAIN inbox = DOMAIN procs /\ 0 \notin DOMAIN procs
           /\ pc # "idle" => cur \in DOMAIN procs
           /\ held # 0 => held \in DOMAIN procs
BY DEF ProcInv, WorkInv

\* Giving up a process to terminate.
LEMMA TerminateStep ==
    ASSUME SessionInv, NEW state, Terminate(state), pc # "idle", Quiet, Shrunk, RowsKept,
           UNCHANGED <<answered, dropped>>, CallInv'
    PROVE  SessionInv'
<1>1. /\ pc' = "grace" /\ cur' = cur /\ kind' = kind
      /\ held' = IF held = cur THEN 0 ELSE held
  BY Zenon DEF Terminate
<1>2. ProcInv' /\ MailInv'
  BY ProcKept, MailKept, Zenon DEF SessionInv, RowsKept
<1>3. 0 \in 0..Len(procs)
  BY DEF SessionInv, ProcInv
<1>4. WorkInv'
  BY <1>1, <1>3, Zenon DEF SessionInv, WorkInv, Quiet
<1>5. NameInv'
  BY <1>1, Domains, Zenon DEF SessionInv, NameInv, Quiet
<1>6. GroupGone'
  BY <1>1, GoneKept, Zenon DEF SessionInv, RowsKept
<1> QED BY <1>2, <1>4, <1>5, <1>6, Zenon DEF SessionInv

\* Letting go of a process without terminate.
LEMMA DropStep ==
    ASSUME SessionInv, Drop, UNCHANGED <<rows, procs, calls, answered>>
    PROVE  SessionInv'
<1>1. /\ pc' = "idle" /\ cur' = 0 /\ kind' = kind /\ held' = held
      /\ dropped' = dropped \cup {cur} /\ Close({cur})
  BY Zenon DEF Drop
<1>2. Quiet /\ Shrunk /\ RowsKept
  BY <1>1, QuietSame, ShrunkClose, RowsSame, Zenon DEF SessionInv
<1>3. ProcInv' /\ MailInv' /\ CallInv'
  BY <1>1, <1>2, ProcKept, MailKept, CallKept, Zenon DEF SessionInv, RowsKept
<1>4. 0 \in 0..Len(procs)
  BY DEF SessionInv, ProcInv
<1>5. WorkInv' /\ NameInv'
  BY <1>1, <1>4, Zenon DEF SessionInv, WorkInv, NameInv
<1>6. GroupGone'
  BY <1>1, <1>2, GoneKept, Zenon DEF SessionInv, RowsKept
<1> QED BY <1>3, <1>5, <1>6, Zenon DEF SessionInv

-----------------------------------------------------------------------------
(* Adapter processes: one lemma per action.                                *)

LEMMA SpawnStep ==
    ASSUME SessionInv, NEW k \in {"effect", "loop"}, spawn(k)
    PROVE  SessionInv'
<1> DEFINE p == [leader |-> TRUE, kin |-> FALSE, heard |-> {}, named |-> FALSE]
           n == Len(procs) + 1
<1>1. /\ pc = "idle" /\ (k = "loop" => held = 0)
      /\ procs' = Append(procs, p) /\ inbox' = Append(inbox, <<>>)
      /\ pc' = "spawned" /\ cur' = n /\ kind' = k
      /\ UNCHANGED <<rows, held, last, calls, answered, dropped>>
  BY Zenon DEF spawn
<1>2. p \in Process
  BY DEF Process
<1> HIDE DEF p
<1>3. procs \in Seq(Process) /\ inbox \in Seq(Seq(Frames)) /\ Len(inbox) = Len(procs)
  BY Zenon DEF SessionInv, ProcInv
<1>4. <<>> \in Seq(Frames) /\ Seen(<<>>) = {}
  BY DEF Seen
<1>5. /\ procs' \in Seq(Process) /\ Len(procs') = n /\ n \in Nat \ {0}
      /\ DOMAIN procs' = DOMAIN procs \cup {n} /\ n \notin DOMAIN procs
      /\ \A i \in DOMAIN procs : procs'[i] = procs[i]
  BY <1>1, <1>2, <1>3
<1>6. /\ inbox' \in Seq(Seq(Frames)) /\ Len(inbox') = n
      /\ DOMAIN inbox' = DOMAIN inbox \cup {n} /\ DOMAIN inbox = DOMAIN procs
      /\ inbox'[n] = <<>> /\ \A i \in DOMAIN inbox : inbox'[i] = inbox[i]
  BY <1>1, <1>3, <1>4
<1>7. ProcInv'
  BY <1>1, <1>5, <1>6, Zenon DEF SessionInv, ProcInv
<1>8. WorkInv'
  <2>1. cur' \in 0..Len(procs') /\ held' \in 0..Len(procs') /\ cur' # 0
    BY <1>1, <1>3, <1>5 DEF SessionInv, WorkInv
  <2> QED BY <1>1, <2>1, Zenon DEF WorkInv
<1>9. MailInv'
  BY <1>1, <1>4, <1>5, <1>6, Zenon DEF SessionInv, MailInv
<1>10. NameInv'
  BY <1>1, <1>5, Domains, Zenon DEF SessionInv, NameInv
<1>11. CallInv'
  BY <1>1, <1>5, Zenon DEF SessionInv, CallInv
<1>12. GroupGone'
  <2> SUFFICES ASSUME NEW i \in DOMAIN procs', i # n
               PROVE  /\ i \in DOMAIN procs /\ procs'[i] = procs[i] /\ i # cur'
                      /\ i \in {cur, held} \cup dropped => i \in {cur', held'} \cup dropped'
    <3>1. n \notin DOMAIN rows' /\ n = cur' /\ pc' # "mark"
      BY <1>1, <1>5, Zenon DEF SessionInv, ProcInv
    <3> QED BY <1>1, <3>1, Zenon DEF SessionInv, GroupGone, Alive
  <2>1. cur = 0 /\ 0 \notin DOMAIN procs
    BY <1>1, Domains, Zenon DEF SessionInv, WorkInv
  <2> QED BY <1>1, <1>5, <2>1, Zenon
<1> QED BY <1>7, <1>8, <1>9, <1>10, <1>11, <1>12, Zenon DEF SessionInv

LEMMA RecordStep == ASSUME SessionInv, record_instance_spawn PROVE SessionInv'
<1>1. /\ pc = "spawned" /\ UNCHANGED <<procs, inbox, answered, calls, dropped>>
      /\ \/ /\ rows' = [i \in DOMAIN rows \cup {cur} |-> IF i = cur THEN "starting" ELSE rows[i]]
            /\ pc' = "recorded" /\ UNCHANGED <<cur, kind, held, last>>
         \/ Terminate("") /\ UNCHANGED rows
  BY Zenon DEF record_instance_spawn, world, To
<1>2. Quiet /\ Shrunk
  BY <1>1, QuietSame, ShrunkSame, Zenon DEF SessionInv
<1>3. CASE Terminate("") /\ UNCHANGED rows
  <2>1. CallInv' /\ RowsKept
    BY <1>1, <1>2, <1>3, CallKept, RowsSame, Zenon DEF SessionInv, Terminate
  <2> QED BY <1>1, <1>2, <1>3, <2>1, TerminateStep, Zenon
<1>4. CASE /\ rows' = [i \in DOMAIN rows \cup {cur} |-> IF i = cur THEN "starting" ELSE rows[i]]
           /\ pc' = "recorded" /\ UNCHANGED <<cur, kind, held, last>>
  <2>1. cur \in DOMAIN procs
    BY <1>1, Domains, Zenon DEF SessionInv
  <2>2. RowsKept
    <3>1. DOMAIN rows \subseteq DOMAIN procs
      BY Zenon DEF SessionInv, ProcInv
    <3> QED BY <1>4, <2>1, <3>1 DEF RowsKept
  <2>3. ProcInv' /\ MailInv' /\ CallInv'
    BY <1>1, <1>2, <1>4, <2>2, ProcKept, MailKept, CallKept, Zenon DEF SessionInv, RowsKept
  <2>4. WorkInv' /\ NameInv'
    BY <1>1, <1>4, Zenon DEF SessionInv, WorkInv, NameInv
  <2>5. GroupGone'
    <3>1. UNCHANGED <<cur, held, dropped>> /\ pc' # "mark"
      BY <1>1, <1>4, Zenon
    <3> QED BY <1>2, <2>2, <3>1, GoneKept, Zenon DEF SessionInv, RowsKept
  <2> QED BY <2>3, <2>4, <2>5, Zenon DEF SessionInv
<1> QED BY <1>1, <1>3, <1>4, Zenon

LEMMA BootstrapStep == ASSUME SessionInv, bootstrap PROVE SessionInv'
<1>1. CASE ~procs[cur].leader /\ Drop /\ UNCHANGED procs
  BY <1>1, DropStep, Zenon DEF bootstrap
<1>2. CASE /\ procs' = [procs EXCEPT ![cur].heard = @ \cup {0}]
           /\ To("hello") /\ UNCHANGED <<inbox, held, last, dropped>>
  <2> DEFINE q == [procs[cur] EXCEPT !.heard = @ \cup {0}]
  <2>1. /\ pc = "recorded" /\ pc' = "hello"
        /\ UNCHANGED <<rows, inbox, cur, kind, held, last, calls, answered, dropped>>
    BY <1>2, Zenon DEF bootstrap, To
  <2>2. cur \in DOMAIN procs /\ procs \in Seq(Process)
    BY <2>1, Domains, Zenon DEF SessionInv, ProcInv
  <2>3. procs[cur] \in Process
    BY <2>2
  <2>4. /\ q \in Process /\ q.named = procs[cur].named
        /\ q.leader = procs[cur].leader /\ q.kin = procs[cur].kin
    BY <2>3 DEF Process
  <2>5. procs' = [procs EXCEPT ![cur] = q]
    BY <1>2
  <2> HIDE DEF q
  <2>6. Quiet
    BY <2>2, <2>4, <2>5, QuietChange, Zenon DEF SessionInv, Alive
  <2>7. Shrunk /\ RowsKept
    BY <2>1, ShrunkSame, RowsSame, Zenon DEF SessionInv
  <2>8. ProcInv' /\ MailInv' /\ CallInv'
    BY <2>1, <2>6, <2>7, ProcKept, MailKept, CallKept, Zenon DEF SessionInv, RowsKept
  <2>9. WorkInv' /\ NameInv'
    BY <2>1, <2>6, Domains, Zenon DEF SessionInv, WorkInv, NameInv, Quiet
  <2>10. GroupGone'
    BY <2>1, <2>6, <2>7, GoneKept, Zenon DEF SessionInv, RowsKept
  <2> QED BY <2>8, <2>9, <2>10, Zenon DEF SessionInv
<1> QED BY <1>1, <1>2, Zenon DEF bootstrap

LEMMA HelloStep == ASSUME SessionInv, read_hello PROVE SessionInv'
<1> DEFINE frame == Head(inbox[cur])
<1>1. pc = "hello" /\ UNCHANGED <<procs, answered, calls>>
  BY Zenon DEF read_hello
<1>2. Quiet /\ cur \in DOMAIN procs /\ cur \in DOMAIN inbox
  BY <1>1, QuietSame, Domains, Zenon DEF SessionInv
<1>3. CASE Drop /\ UNCHANGED rows
  BY <1>1, <1>3, DropStep, Zenon
<1>4. CASE /\ mark_failed /\ Terminate("") /\ UNCHANGED dropped
           /\ (inbox[cur] # <<>> /\ Take) \/ UNCHANGED inbox
  <2>1. Shrunk /\ RowsKept
    BY <1>2, <1>4, ShrunkTake, ShrunkSame, RowsFailed, Zenon DEF SessionInv
  <2>2. CallInv'
    BY <1>1, <1>2, <1>4, CallKept, Zenon DEF SessionInv, Terminate
  <2> QED BY <1>1, <1>2, <1>4, <2>1, <2>2, TerminateStep, Zenon
<1>5. CASE /\ inbox[cur] # <<>> /\ frame.f = "Hello" /\ verify_hello(frame)
           /\ Take /\ To("verified") /\ UNCHANGED <<rows, held, last, dropped>>
  <2>1. pc' = "verified" /\ UNCHANGED <<cur, kind, held, rows, dropped>>
    BY <1>5, Zenon DEF To
  <2>2. Shrunk /\ RowsKept /\ frame \in Seen(inbox[cur])
    BY <1>2, <1>5, ShrunkTake, RowsSame, Zenon DEF SessionInv
  <2>3. procs[cur].named
    BY <1>2, <1>5, <2>2, Zenon DEF SessionInv, MailInv, verify_hello
  <2>4. ProcInv' /\ MailInv' /\ CallInv'
    BY <1>1, <1>2, <2>1, <2>2, ProcKept, MailKept, CallKept, Zenon DEF SessionInv, RowsKept
  <2>5. WorkInv' /\ NameInv'
    BY <1>1, <2>1, <2>3, Zenon DEF SessionInv, WorkInv, NameInv
  <2>6. GroupGone'
    BY <1>2, <2>1, <2>2, GoneKept, Zenon DEF SessionInv, RowsKept
  <2> QED BY <2>4, <2>5, <2>6, Zenon DEF SessionInv
<1> QED BY <1>3, <1>4, <1>5, Zenon DEF read_hello

LEMMA ReadyStep == ASSUME SessionInv, mark_instance_ready PROVE SessionInv'
<1>1. /\ pc = "verified" /\ UNCHANGED <<procs, inbox, answered, calls, dropped>>
      /\ \/ /\ rows' = [rows EXCEPT ![cur] = IF @ = "starting" THEN "ready" ELSE @]
            /\ pc' = IF kind = "loop" THEN "idle" ELSE "ready"
            /\ cur' = IF kind = "loop" THEN 0 ELSE cur
            /\ held' = IF kind = "loop" THEN cur ELSE held
            /\ UNCHANGED <<kind, last>>
         \/ Terminate("") /\ UNCHANGED rows
  BY Zenon DEF mark_instance_ready, world
<1>2. Quiet /\ Shrunk
  BY <1>1, QuietSame, ShrunkSame, Zenon DEF SessionInv
<1>3. CASE Terminate("") /\ UNCHANGED rows
  <2>1. CallInv' /\ RowsKept
    BY <1>1, <1>2, <1>3, CallKept, RowsSame, Zenon DEF SessionInv, Terminate
  <2> QED BY <1>1, <1>2, <1>3, <2>1, TerminateStep, Zenon
<1>4. CASE /\ rows' = [rows EXCEPT ![cur] = IF @ = "starting" THEN "ready" ELSE @]
           /\ pc' = IF kind = "loop" THEN "idle" ELSE "ready"
           /\ cur' = IF kind = "loop" THEN 0 ELSE cur
           /\ held' = IF kind = "loop" THEN cur ELSE held
           /\ UNCHANGED <<kind, last>>
  <2>1. /\ procs[cur].named /\ (kind = "loop" => held = 0) /\ cur # 0 /\ cur \in 0..Len(procs)
        /\ held \in 0..Len(procs) /\ (held # 0 => procs[held].named)
        /\ kind \in {"effect", "loop"}
    BY <1>1, Zenon DEF SessionInv, WorkInv, NameInv
  <2>2. 0 \in 0..Len(procs) /\ 0 \notin DOMAIN procs
    BY DEF SessionInv, ProcInv
  <2>3. RowsKept
    BY <1>4 DEF SessionInv, ProcInv, RowsKept
  <2>4. ProcInv' /\ MailInv'
    BY <1>1, <1>2, <2>3, ProcKept, MailKept, Zenon DEF SessionInv, RowsKept
  <2>5. CASE kind = "loop"
    <3>1. /\ pc' = "idle" /\ cur' = 0 /\ held' = cur /\ held = 0
          /\ UNCHANGED <<kind, procs, calls, answered, dropped>>
      BY <1>1, <1>4, <2>1, <2>5, Zenon
    <3>2. WorkInv' /\ NameInv'
      BY <2>1, <2>2, <3>1, Zenon DEF WorkInv, NameInv
    <3>3. CallInv' /\ GroupGone'
      BY <1>2, <2>2, <2>3, <3>1, CallKept, GoneKept, Zenon DEF SessionInv, RowsKept
    <3> QED BY <2>4, <3>2, <3>3, Zenon DEF SessionInv
  <2>6. CASE kind # "loop"
    <3>1. /\ pc' = "ready" /\ UNCHANGED <<cur, held, kind, procs, calls, answered, dropped>>
      BY <1>1, <1>4, <2>6, Zenon
    <3>2. WorkInv' /\ NameInv'
      BY <2>1, <2>6, <3>1, Zenon DEF WorkInv, NameInv
    <3>3. CallInv' /\ GroupGone'
      BY <1>2, <2>3, <3>1, CallKept, GoneKept, Zenon DEF SessionInv, RowsKept
    <3> QED BY <2>4, <3>2, <3>3, Zenon DEF SessionInv
  <2> QED BY <2>5, <2>6, Zenon
<1> QED BY <1>1, <1>3, <1>4, Zenon

LEMMA DispatchStep ==
    ASSUME SessionInv, NEW k \in {"effect", "loop"}, dispatch_call(k)
    PROVE  SessionInv'
<1> DEFINE call == [to |-> cur', result |-> "pending"]
           q == [procs[cur'] EXCEPT !.heard = IF procs[cur'].leader THEN @ \cup {Len(calls) + 1} ELSE @]
<1>1. /\ calls' = Append(calls, call) /\ pc' = "calling" /\ kind' = k
      /\ procs' = [procs EXCEPT ![cur'].heard = IF procs[cur'].leader THEN @ \cup {Len(calls) + 1} ELSE @]
      /\ UNCHANGED <<rows, inbox, held, last, answered, dropped>>
  BY Zenon DEF dispatch_call
<1>2. \/ k = "effect" /\ pc = "ready" /\ cur' = cur
      \/ k = "loop" /\ pc = "idle" /\ held # 0 /\ cur' = held
  BY Zenon DEF dispatch_call
<1>3. /\ cur' \in DOMAIN procs /\ procs[cur'].named /\ (k = "loop" => cur' = held)
      /\ cur \in {0, cur'}
  BY <1>2, Domains, Zenon DEF SessionInv, WorkInv, NameInv
<1>4. /\ procs \in Seq(Process) /\ calls \in Seq(Call) /\ 0 \notin DOMAIN procs
      /\ procs[cur'] \in Process /\ Len(calls) + 1 \in Nat /\ cur' \in 0..Len(procs) /\ cur' \in Nat
  BY <1>3 DEF SessionInv, ProcInv, CallInv
<1>5. /\ q \in Process /\ q.named = procs[cur'].named
      /\ q.leader = procs[cur'].leader /\ q.kin = procs[cur'].kin
  BY <1>4 DEF Process
<1>6. procs' = [procs EXCEPT ![cur'] = q]
  BY <1>1
<1> HIDE DEF q
<1>7. Quiet
  BY <1>3, <1>5, <1>6, QuietChange, Zenon DEF SessionInv, Alive
<1>8. Shrunk /\ RowsKept
  BY <1>1, ShrunkSame, RowsSame, Zenon DEF SessionInv
<1>9. ProcInv' /\ MailInv'
  BY <1>1, <1>7, <1>8, ProcKept, MailKept, Zenon DEF SessionInv, RowsKept
<1>10. WorkInv'
  <2>1. cur' # 0 /\ held \in 0..Len(procs)
    BY <1>3, <1>4, Zenon DEF SessionInv, WorkInv
  <2> QED BY <1>1, <1>3, <1>4, <1>7, <2>1, Zenon DEF WorkInv, Quiet
<1>11. NameInv'
  BY <1>1, <1>7, Domains, Zenon DEF SessionInv, NameInv, Quiet
<1>12. CallInv'
  <2>1. call \in Call /\ call.to = cur' /\ call.result # "ok"
    BY <1>4 DEF Call, Results
  <2> HIDE DEF call
  <2>2. /\ calls' \in Seq(Call) /\ Len(calls') = Len(calls) + 1 /\ Len(calls') # 0
        /\ DOMAIN calls' = DOMAIN calls \cup {Len(calls')} /\ calls'[Len(calls')] = call
        /\ \A j \in DOMAIN calls : calls'[j] = calls[j]
    BY <1>1, <1>4, <2>1
  <2>3. \A j \in DOMAIN calls' :
          /\ calls'[j].to \in DOMAIN procs /\ procs[calls'[j].to].named
          /\ calls'[j].result = "ok" => <<calls'[j].to, j>> \in answered
    BY <1>3, <2>1, <2>2, Zenon DEF SessionInv, CallInv
  <2> QED BY <1>1, <1>7, <2>1, <2>2, <2>3, Zenon DEF CallInv, Quiet
<1>13. GroupGone'
  BY <1>1, <1>3, <1>4, <1>7, <1>8, GoneKept, Zenon DEF SessionInv, RowsKept
<1> QED BY <1>9, <1>10, <1>11, <1>12, <1>13, Zenon DEF SessionInv

LEMMA ReadStep == ASSUME SessionInv, read PROVE SessionInv'
<1> DEFINE frame == Head(inbox[cur])
           own == frame.f \in {"Response", "Cancel"} /\ frame.id = Len(calls)
<1>1. pc = "calling" /\ inbox[cur] # <<>> /\ Take /\ UNCHANGED <<rows, procs, answered, dropped>>
  BY Zenon DEF read
<1>2. Quiet /\ RowsKept /\ cur \in DOMAIN procs /\ cur \in DOMAIN inbox
  BY <1>1, QuietSame, RowsSame, Domains, Zenon DEF SessionInv
<1>3. Shrunk /\ frame \in Seen(inbox[cur])
  BY <1>1, <1>2, ShrunkTake, Zenon DEF SessionInv
<1>4. ProcInv' /\ MailInv'
  BY <1>1, <1>2, <1>3, ProcKept, MailKept, Zenon DEF SessionInv, RowsKept
<1>5. {"ok", "cancelled", "refused"} \subseteq Results
  BY Zenon DEF Results
<1>6. frame.f = "Response" /\ own => <<cur, Len(calls)>> \in answered
  BY <1>2, <1>3, Zenon DEF SessionInv, MailInv
<1>7. ASSUME NEW r \in Results, Finish(r), r = "ok" => frame.f = "Response" /\ own,
             NEW state, Terminate(state)
      PROVE  SessionInv'
  <2>1. CallInv'
    BY <1>1, <1>2, <1>6, <1>7, CallEnds, Zenon DEF SessionInv, Terminate
  <2> QED BY <1>1, <1>2, <1>3, <1>7, <2>1, TerminateStep, Zenon
<1>8. CASE /\ frame.f = "Response" /\ own /\ Finish("ok") /\ kind # "effect"
           /\ pc' = "idle" /\ cur' = 0 /\ UNCHANGED <<kind, held, last>>
  <2>1. CallInv'
    BY <1>1, <1>2, <1>5, <1>6, <1>8, CallEnds, Zenon DEF SessionInv
  <2>2. 0 \in 0..Len(procs) /\ 0 \notin DOMAIN procs
    BY DEF SessionInv, ProcInv
  <2>3. WorkInv' /\ NameInv'
    BY <1>1, <1>8, <2>2, Zenon DEF SessionInv, WorkInv, NameInv
  <2>4. kind = "loop"
    BY <1>8, Zenon DEF SessionInv, WorkInv
  <2>5. cur = held
    BY <1>1, <2>4, Zenon DEF SessionInv, WorkInv
  <2>6. GroupGone'
    BY <1>1, <1>2, <1>8, <2>5, GoneKept, Zenon DEF SessionInv, RowsKept
  <2> QED BY <1>4, <2>1, <2>3, <2>6, Zenon DEF SessionInv
<1>9. CASE UNCHANGED <<calls, pc, cur, kind, held, last>>
  <2>1. CallInv' /\ WorkInv' /\ NameInv'
    BY <1>1, <1>2, <1>9, CallKept, Zenon DEF SessionInv, WorkInv, NameInv
  <2>2. GroupGone'
    BY <1>1, <1>2, <1>9, GoneKept, Zenon DEF SessionInv, RowsKept
  <2> QED BY <1>4, <2>1, <2>2, Zenon DEF SessionInv
<1> QED BY <1>5, <1>7, <1>8, <1>9, Zenon DEF read, AfterFailure

LEMMA CallFailsStep == ASSUME SessionInv, call_fails PROVE SessionInv'
<1>1. pc = "calling" /\ UNCHANGED <<rows, procs, inbox, answered, dropped>>
  BY Zenon DEF call_fails, world
<1>2. Quiet /\ Shrunk /\ RowsKept
  BY <1>1, QuietSame, ShrunkSame, RowsSame, Zenon DEF SessionInv
<1>3. PICK r \in {"closed", "expired"} : Finish(r)
  BY Zenon DEF call_fails
<1>4. PICK state : Terminate(state)
  BY Zenon DEF call_fails, AfterFailure
<1>5. r \in Results /\ r # "ok"
  BY <1>3, Zenon DEF Results
<1>6. CallInv'
  BY <1>1, <1>2, <1>3, <1>4, <1>5, CallEnds, Zenon DEF SessionInv, Terminate
<1> QED BY <1>1, <1>2, <1>4, <1>6, TerminateStep, Zenon

LEMMA StopStep ==
    ASSUME SessionInv, NEW state \in {"exited", "failed"}, stop_loop(state)
    PROVE  SessionInv'
<1>1. /\ pc = "idle" /\ held # 0 /\ pc' = "grace" /\ cur' = held /\ held' = 0
      /\ UNCHANGED <<rows, procs, inbox, answered, kind, calls, dropped>>
  BY Zenon DEF stop_loop, world
<1>2. Quiet /\ Shrunk /\ RowsKept
  BY <1>1, QuietSame, ShrunkSame, RowsSame, Zenon DEF SessionInv
<1>3. ProcInv' /\ MailInv' /\ CallInv'
  BY <1>1, <1>2, ProcKept, MailKept, CallKept, Zenon DEF SessionInv, RowsKept
<1>4. 0 \in 0..Len(procs) /\ 0 \notin DOMAIN procs
  BY DEF SessionInv, ProcInv
<1>5. WorkInv' /\ NameInv' /\ cur = 0
  BY <1>1, <1>4, Zenon DEF SessionInv, WorkInv, NameInv
<1>6. GroupGone'
  BY <1>1, <1>2, <1>4, <1>5, GoneKept, Zenon DEF SessionInv, RowsKept
<1> QED BY <1>3, <1>5, <1>6, Zenon DEF SessionInv

\* A step of terminate: signals, and the next place.
LEMMA SignalStep ==
    ASSUME SessionInv, pc \in {"grace", "kill", "sweep"}, NEW label \in {"kill", "sweep", "mark"},
           To(label), UNCHANGED <<rows, inbox, held, last, calls, answered, dropped>>,
           Quiet, label = "mark" => ~LiveAfter(cur)
    PROVE  SessionInv'
<1>1. pc' = label /\ UNCHANGED <<cur, kind>> /\ cur \in DOMAIN procs
  BY Domains, Zenon DEF SessionInv, To
<1>2. Shrunk /\ RowsKept
  BY ShrunkSame, RowsSame, Zenon DEF SessionInv
<1>3. ProcInv' /\ MailInv' /\ CallInv'
  BY <1>1, <1>2, ProcKept, MailKept, CallKept, Zenon DEF SessionInv, RowsKept
<1>4. WorkInv' /\ NameInv'
  BY <1>1, Domains, Zenon DEF SessionInv, WorkInv, NameInv, Quiet
<1>5. GroupGone'
  BY <1>1, <1>2, GoneKept, Zenon DEF SessionInv, RowsKept
<1> QED BY <1>3, <1>4, <1>5, Zenon DEF SessionInv

LEMMA GraceStep == ASSUME SessionInv, grace PROVE SessionInv'
<1>1. pc = "grace" /\ cur \in DOMAIN procs /\ procs \in Seq(Process)
  BY Domains, Zenon DEF grace, SessionInv, ProcInv
<1>2. CASE UNCHANGED procs /\ To("sweep")
  BY <1>1, <1>2, QuietSame, SignalStep, Zenon DEF SessionInv, grace
<1>3. CASE Term(cur) /\ To("kill")
  <2>1. PICK l \in {FALSE, procs[cur].leader}, k \in {FALSE, procs[cur].kin} :
          procs' = [procs EXCEPT ![cur].leader = l, ![cur].kin = k]
    BY <1>3, Zenon DEF Term
  <2> DEFINE q == [procs[cur] EXCEPT !.leader = l, !.kin = k]
  <2>2. procs[cur] \in Process
    BY <1>1
  <2>3. /\ q \in Process /\ q.named = procs[cur].named
        /\ q.leader \/ q.kin => procs[cur].leader \/ procs[cur].kin
    BY <2>1, <2>2 DEF Process
  <2>4. procs' = [procs EXCEPT ![cur] = q]
    BY <1>1, <2>1
  <2> HIDE DEF q
  <2>5. Quiet
    BY <1>1, <2>3, <2>4, QuietChange, Zenon DEF SessionInv, Alive
  <2> QED BY <1>1, <1>3, <2>5, SignalStep, Zenon DEF grace
<1> QED BY <1>2, <1>3, Zenon DEF grace

LEMMA KillStep == ASSUME SessionInv, kill PROVE SessionInv'
<1>1. pc = "kill" /\ cur \in DOMAIN procs /\ (Kill(cur) \/ UNCHANGED procs)
  BY Domains, Zenon DEF kill, SessionInv
<1>2. Quiet
  BY <1>1, QuietKill, QuietSame, Zenon DEF SessionInv
<1> QED BY <1>1, <1>2, SignalStep, Zenon DEF kill

LEMMA SweepStep == ASSUME SessionInv, sweep PROVE SessionInv'
<1>1. pc = "sweep" /\ cur \in DOMAIN procs /\ Kill(cur)
  BY Domains, Zenon DEF sweep, SessionInv
<1>2. Quiet /\ ~LiveAfter(cur)
  BY <1>1, QuietKill, Zenon DEF SessionInv
<1> QED BY <1>1, <1>2, SignalStep, Zenon DEF sweep

LEMMA ExitStep == ASSUME SessionInv, mark_instance_exit PROVE SessionInv'
<1>1. /\ pc = "mark" /\ pc' = "idle" /\ cur' = 0 /\ Close({cur})
      /\ UNCHANGED <<procs, answered, kind, held, calls, dropped>>
  BY Zenon DEF mark_instance_exit
<1>2. Quiet /\ Shrunk
  BY <1>1, QuietSame, ShrunkClose, Zenon DEF SessionInv
<1>3. cur \in DOMAIN procs /\ ~LiveAfter(cur)
  BY <1>1, Domains, Zenon DEF SessionInv, GroupGone, LiveAfter, Alive
<1>4. /\ DOMAIN rows' = DOMAIN rows
      /\ \A i \in DOMAIN rows : i # cur => rows'[i] = rows[i]
  <2>1. rows' = [rows EXCEPT ![cur] = last] \/ rows' = rows
    BY Zenon DEF mark_instance_exit
  <2> QED BY <2>1
<1>5. ProcInv' /\ MailInv' /\ CallInv'
  BY <1>1, <1>2, <1>4, ProcKept, MailKept, CallKept, Zenon DEF SessionInv, ProcInv
<1>6. 0 \in 0..Len(procs)
  BY DEF SessionInv, ProcInv
<1>7. WorkInv' /\ NameInv'
  BY <1>1, <1>6, Zenon DEF SessionInv, WorkInv, NameInv
<1>8. GroupGone'
  BY <1>1, <1>2, <1>3, <1>4, GoneKept, Zenon DEF SessionInv
<1> QED BY <1>5, <1>7, <1>8, Zenon DEF SessionInv

LEMMA SendStep ==
    ASSUME SessionInv, NEW i \in DOMAIN procs, NEW frame \in Frames, procs[i].leader,
           inbox' = [inbox EXCEPT ![i] = Append(@, frame)],
           answered' = IF frame.f = "Response" THEN answered \cup {<<i, frame.id>>} ELSE answered,
           procs' = [procs EXCEPT ![i].named = @ \/ (frame.f = "Hello" /\ frame.good)],
           UNCHANGED <<rows, pc, cur, kind, held, last, calls, dropped>>
    PROVE  SessionInv'
<1> DEFINE q == [procs[i] EXCEPT !.named = @ \/ (frame.f = "Hello" /\ frame.good)]
<1>1. /\ procs \in Seq(Process) /\ procs[i] \in Process /\ inbox \in Seq(Seq(Frames))
      /\ i \in DOMAIN inbox /\ inbox[i] \in Seq(Frames) /\ DOMAIN inbox = DOMAIN procs
  BY DEF SessionInv, ProcInv
<1>2. /\ q \in Process /\ q.leader = procs[i].leader /\ q.kin = procs[i].kin
      /\ procs[i].named => q.named
      /\ frame.f = "Hello" /\ frame.good => q.named
  BY <1>1 DEF Process
<1>3. procs' = [procs EXCEPT ![i] = q]
  OBVIOUS
<1> HIDE DEF q
<1>4. Quiet /\ procs'[i] = q
  BY <1>2, <1>3, QuietChange, Zenon DEF SessionInv, Alive
<1>5. /\ Append(inbox[i], frame) \in Seq(Frames)
      /\ Seen(Append(inbox[i], frame)) = Seen(inbox[i]) \cup {frame}
  <2> DEFINE box == inbox[i]
  <2>1. box \in Seq(Frames)
    BY <1>1
  <2> HIDE DEF box
  <2>2. /\ Append(box, frame) \in Seq(Frames)
        /\ DOMAIN Append(box, frame) = DOMAIN box \cup {Len(box) + 1}
        /\ Append(box, frame)[Len(box) + 1] = frame
        /\ \A n \in DOMAIN box : Append(box, frame)[n] = box[n]
    BY <2>1
  <2>3. \A f : f \in Seen(Append(box, frame)) <=> f \in Seen(box) \cup {frame}
    BY <2>2, Zenon DEF Seen
  <2> QED BY <2>2, <2>3 DEF box
<1>6. /\ inbox' \in Seq(Seq(Frames)) /\ Len(inbox') = Len(inbox) /\ DOMAIN inbox' = DOMAIN inbox
      /\ inbox'[i] = Append(inbox[i], frame)
      /\ \A j \in DOMAIN inbox : j # i => inbox'[j] = inbox[j]
  BY <1>1, <1>5
<1>7. ProcInv'
  BY <1>4, <1>6, Zenon DEF SessionInv, ProcInv, Quiet
<1>8. WorkInv' /\ NameInv'
  BY <1>4, Domains, Zenon DEF SessionInv, WorkInv, NameInv, Quiet
<1>9. answered \subseteq answered' /\ (frame.f = "Response" => <<i, frame.id>> \in answered')
  BY Zenon
<1>10. MailInv'
  <2> SUFFICES ASSUME NEW j \in DOMAIN inbox, NEW f \in Seen(inbox'[j])
               PROVE  /\ f.f = "Response" => <<j, f.id>> \in answered'
                      /\ f.f = "Hello" /\ f.good => procs'[j].named
    BY <1>6, Zenon DEF MailInv
  <2>1. CASE f \in Seen(inbox[j])
    BY <2>1, <1>1, <1>4, <1>9, Zenon DEF SessionInv, MailInv, Quiet
  <2>2. CASE f \notin Seen(inbox[j])
    <3>1. j = i /\ f = frame
      BY <2>2, <1>5, <1>6, Zenon
    <3> QED BY <3>1, <1>2, <1>4, <1>9, Zenon
  <2> QED BY <2>1, <2>2
<1>11. CallInv'
  BY <1>4, <1>9, Zenon DEF SessionInv, CallInv, Quiet
<1>12. GroupGone'
  <2>1. RowsKept
    BY RowsSame, Zenon DEF SessionInv
  <2>2. pc = "mark" => ~LiveAfter(cur) /\ cur \in DOMAIN procs
    BY <1>4, Domains, Zenon DEF SessionInv, GroupGone, Quiet
  <2> QED BY <1>4, <2>1, <2>2, GoneKept, Zenon DEF SessionInv, RowsKept
<1> QED BY <1>7, <1>8, <1>10, <1>11, <1>12, Zenon DEF SessionInv

LEMMA AdapterStep ==
    ASSUME SessionInv, NEW i \in DOMAIN procs, Adapter(i)
    PROVE  SessionInv'
<1>1. procs[i].leader /\ UNCHANGED <<rows, pc, cur, kind, held, last, calls, dropped>>
  BY Zenon DEF Adapter
<1>2. ASSUME NEW q \in Process, procs' = [procs EXCEPT ![i] = q], q.named = procs[i].named,
             UNCHANGED <<inbox, answered>>
      PROVE  SessionInv'
  <2>1. Alive(i)
    BY <1>1, Zenon DEF Alive
  <2>2. Quiet /\ Shrunk /\ RowsKept
    BY <1>1, <1>2, <2>1, QuietChange, ShrunkSame, RowsSame, Zenon DEF SessionInv
  <2>3. ProcInv' /\ MailInv' /\ CallInv'
    BY <1>1, <1>2, <2>2, ProcKept, MailKept, CallKept, Zenon DEF SessionInv, RowsKept
  <2>4. WorkInv' /\ NameInv'
    BY <1>1, <2>2, Domains, Zenon DEF SessionInv, WorkInv, NameInv, Quiet
  <2>5. pc = "mark" => ~LiveAfter(cur) /\ cur \in DOMAIN procs
    BY <2>2, Domains, Zenon DEF SessionInv, GroupGone, Quiet
  <2>6. GroupGone'
    BY <1>1, <2>2, <2>5, GoneKept, Zenon DEF SessionInv, RowsKept
  <2> QED BY <2>3, <2>4, <2>6, Zenon DEF SessionInv
<1>3. procs[i] \in Process
  BY DEF SessionInv, ProcInv
<1>4. /\ [procs[i] EXCEPT !.kin = TRUE] \in Process
      /\ [procs[i] EXCEPT !.leader = FALSE] \in Process
      /\ [procs[i] EXCEPT !.kin = TRUE].named = procs[i].named
      /\ [procs[i] EXCEPT !.leader = FALSE].named = procs[i].named
  BY <1>3 DEF Process
<1>5. CASE procs' = [procs EXCEPT ![i].kin = TRUE] /\ UNCHANGED <<inbox, answered>>
  <2>1. procs' = [procs EXCEPT ![i] = [procs[i] EXCEPT !.kin = TRUE]]
    BY <1>5
  <2> QED BY <1>2, <1>4, <1>5, <2>1, Zenon
<1>6. CASE procs' = [procs EXCEPT ![i].leader = FALSE] /\ UNCHANGED <<inbox, answered>>
  <2>1. procs' = [procs EXCEPT ![i] = [procs[i] EXCEPT !.leader = FALSE]]
    BY <1>6
  <2> QED BY <1>2, <1>4, <1>6, <2>1, Zenon
<1> QED BY <1>1, <1>5, <1>6, SendStep, Zenon DEF Adapter

LEMMA CrashStep == ASSUME SessionInv, Crash PROVE SessionInv'
<1>1. /\ pc' = "idle" /\ cur' = 0 /\ held' = 0 /\ dropped' = dropped \cup ({cur, held} \ {0})
      /\ Close({cur, held}) /\ UNCHANGED <<rows, procs, answered, kind>>
      /\ calls' = [k \in DOMAIN calls |-> IF calls[k].result = "pending"
                                          THEN [calls[k] EXCEPT !.result = "lost"] ELSE calls[k]]
  BY Zenon DEF Crash
<1>2. Quiet /\ Shrunk /\ RowsKept
  BY <1>1, QuietSame, ShrunkClose, RowsSame, Zenon DEF SessionInv
<1>3. ProcInv' /\ MailInv'
  BY <1>1, <1>2, ProcKept, MailKept, Zenon DEF SessionInv, RowsKept
<1>4. 0 \in 0..Len(procs) /\ 0 \notin DOMAIN procs
  BY DEF SessionInv, ProcInv
<1>5. WorkInv' /\ NameInv'
  BY <1>1, <1>4, Zenon DEF SessionInv, WorkInv, NameInv
<1>6. CallInv'
  <2>1. calls \in Seq(Call) /\ DOMAIN calls = 1..Len(calls) /\ Len(calls) \in Nat
    BY DEF SessionInv, CallInv
  <2>2. ASSUME NEW k \in DOMAIN calls
        PROVE  /\ calls'[k] \in Call /\ calls'[k].to = calls[k].to
               /\ calls'[k].result = "ok" => calls[k].result = "ok"
    <3>1. calls[k] \in Call
      BY <2>1
    <3>2. /\ [calls[k] EXCEPT !.result = "lost"] \in Call
          /\ [calls[k] EXCEPT !.result = "lost"].to = calls[k].to
          /\ [calls[k] EXCEPT !.result = "lost"].result # "ok"
      BY <3>1 DEF Call, Results
    <3> QED BY <1>1, <3>1, <3>2, Zenon
  <2>3. calls' \in [1..Len(calls) -> Call]
    BY <1>1, <2>1, <2>2
  <2>4. calls' \in Seq(Call) /\ DOMAIN calls' = DOMAIN calls
    BY <2>1, <2>3
  <2> QED BY <1>1, <2>2, <2>4, Zenon DEF SessionInv, CallInv
<1>7. GroupGone'
  BY <1>1, <1>2, <1>4, GoneKept, Zenon DEF SessionInv, RowsKept
<1> QED BY <1>3, <1>5, <1>6, <1>7, Zenon DEF SessionInv

LEMMA SessionStep ==
    ASSUME SessionInv, [SessionNext]_sessionVars
    PROVE  SessionInv'
<1>1. CASE \E k \in {"effect", "loop"} : spawn(k) \/ dispatch_call(k)
  BY <1>1, SpawnStep, DispatchStep, Zenon
<1>2. CASE record_instance_spawn \/ bootstrap \/ read_hello \/ mark_instance_ready
  BY <1>2, RecordStep, BootstrapStep, HelloStep, ReadyStep, Zenon
<1>3. CASE read \/ call_fails \/ \E state \in {"exited", "failed"} : stop_loop(state)
  BY <1>3, ReadStep, CallFailsStep, StopStep, Zenon
<1>4. CASE grace \/ kill \/ sweep \/ mark_instance_exit
  BY <1>4, GraceStep, KillStep, SweepStep, ExitStep, Zenon
<1>5. CASE \E i \in DOMAIN procs : Adapter(i)
  BY <1>5, AdapterStep, Zenon
<1>6. CASE Crash
  BY <1>6, CrashStep, Zenon
<1>7. CASE UNCHANGED sessionVars
  BY <1>7, Zenon DEF sessionVars, SessionInv, ProcInv, WorkInv, MailInv, NameInv, CallInv,
                     GroupGone, Alive
<1> QED BY <1>1, <1>2, <1>3, <1>4, <1>5, <1>6, <1>7, Zenon DEF SessionNext

-----------------------------------------------------------------------------
(* Adapter processes: the theorems.                                        *)

\* dispatch_call accepts only its own answer: for any number of processes, calls
\* and frames, with late, repeated and unsolicited frames, restarts and crashes, a
\* call goes to a process that proved its identity and succeeds only by that
\* process's answer to that very call.
THEOREM AnswersOwned == SessionSpec => []OwnAnswer
<1>1. SessionInv => OwnAnswer
  BY Zenon DEF SessionInv, CallInv, OwnAnswer
<1>2. SessionInv /\ [SessionNext]_sessionVars => SessionInv'
  BY SessionStep
<1> QED BY <1>1, <1>2, SessionInvInit, PTL DEF SessionSpec

\* terminate leaves nothing behind: whatever the adapters fork and ignore, once it
\* has returned no process of the group is left, and no instance recorded as exited
\* still runs.
THEOREM GroupsGone == SessionSpec => []GroupGone
<1>1. SessionInv => GroupGone
  BY Zenon DEF SessionInv
<1>2. SessionInv /\ [SessionNext]_sessionVars => SessionInv'
  BY SessionStep
<1> QED BY <1>1, <1>2, SessionInvInit, PTL DEF SessionSpec

-----------------------------------------------------------------------------
(* Installed bundles: the inductive invariant.                             *)

DirStates == {"none", "torn", "whole"}
InstallSteps == {"clear", "copy", "fill", "verify", "check", "load", "save"}
Entries == [b : Bundles, enabled : BOOLEAN]
InstallOps ==
    [kind : {"install"}, pc : InstallSteps, b : Bundles, check : BOOLEAN, clean : BOOLEAN,
     seen : SUBSET Entries, quiet : BOOLEAN]
QueryOps ==
    [kind : {"enable", "disable", "remove"}, pc : {"load", "save", "drop"}, q : Queries,
     seen : SUBSET Entries]
Ops == {Idle} \cup InstallOps \cup QueryOps

\* No command under way touches b, but for those of the clients in but.
Untouched(b, but) == \A d \in Clients \ but : Busy(d) => ~Touches(op[d], b)

\* Whoever has read the index holds the lock, and the index is as it was read.
HeldIndex ==
    /\ \A c \in Clients : At(c, "save") \/ At(c, "drop") => lock = {c} /\ op[c].seen = index
    /\ \A c \in Clients : At(c, "drop") => op[c].kind = "remove"

\* An undisturbed install is the only command that touches its bundle, and what
\* it has verified stays whole.
QuietInv ==
    \A c \in Clients : Installing(c) /\ op[c].quiet =>
        /\ Untouched(op[c].b, {c})
        /\ op[c].pc \in {"check", "load", "save"} => dirs[op[c].b] = "whole"

\* What is installed is whole and enabled, and no command touches it.
InstalledInv ==
    \A b \in installed :
        /\ dirs[b] = "whole" /\ [b |-> b, enabled |-> TRUE] \in index
        /\ Untouched(b, {})

\* What this boot has to find is still to be registered, or is.
BootInv ==
    /\ expected \subseteq installed
    /\ \A b \in expected : b \in todo \/ (b \in bundles /\ b \in DOMAIN registered)
    /\ todo \cup bundles \subseteq offered

BundleTypes ==
    /\ dirs \in [Bundles -> DirStates]
    /\ index \subseteq Entries
    /\ op \in [Clients -> Ops]
    /\ installed \subseteq Bundles

BundleInv == BundleTypes /\ HeldIndex /\ QuietInv /\ InstalledInv /\ BootInv

LEMMA BundleInvInit == BundlesInit => BundleInv
<1> SUFFICES ASSUME BundlesInit PROVE BundleInv
  OBVIOUS
<1>1. BundleTypes
  BY DEF BundlesInit, BundleTypes, Ops, DirStates
<1>2. \A c \in Clients : ~Busy(c)
  BY DEF BundlesInit, Busy
<1>3. HeldIndex /\ QuietInv
  BY <1>2, Zenon DEF HeldIndex, QuietInv, At, Installing
<1>4. InstalledInv /\ BootInv
  BY DEF BundlesInit, InstalledInv, BootInv
<1> QED BY <1>1, <1>3, <1>4, Zenon DEF BundleInv

-----------------------------------------------------------------------------
\* What a command touches depends on its verb and its bundle or query only.
LEMMA TouchKinds ==
    ASSUME NEW o \in InstallOps \cup QueryOps, NEW b
    PROVE  /\ o.kind = "install" => (Touches(o, b) <=> SameVersion(o.b, b))
           /\ o.kind \in {"remove", "disable"} => (Touches(o, b) <=> Matches(o.q, b))
           /\ o.kind = "enable" => ~Touches(o, b)
BY DEF Touches, InstallOps, QueryOps

\* The kinds tell installs, queries and no command apart.
LEMMA OpKinds ==
    ASSUME NEW o \in Ops
    PROVE  /\ o = Idle <=> o.kind = "idle"
           /\ o \in InstallOps <=> o.kind = "install"
           /\ o \in QueryOps <=> o.kind \in {"enable", "disable", "remove"}
BY DEF Ops, Idle, InstallOps, QueryOps

\* p is the command o at some step, with what others may spoil spoilt or not.
Follows(o, p) ==
    /\ p \in Ops /\ p.kind = o.kind
    /\ o.kind = "install" => p.b = o.b /\ (p.quiet => o.quiet)
    /\ o.kind \in {"enable", "disable", "remove"} => p.q = o.q

\* What the others see of a step of c.
OthersKept(c) ==
    \A d \in Clients \ {c} :
        Follows(op[d], op'[d]) /\ (Busy(d) => op'[d].pc = op[d].pc /\ op'[d].seen = op[d].seen)

LEMMA FollowTouches ==
    ASSUME NEW o \in Ops, NEW p, Follows(o, p)
    PROVE  /\ p = Idle <=> o = Idle
           /\ o # Idle => \A b : Touches(p, b) <=> Touches(o, b)
<1>1. p \in Ops /\ p.kind = o.kind
  BY DEF Follows
<1>2. p = Idle <=> o = Idle
  BY <1>1, OpKinds, Zenon
<1>3. ASSUME o # Idle, NEW b PROVE Touches(p, b) <=> Touches(o, b)
  <2>1. o \in InstallOps \cup QueryOps /\ p \in InstallOps \cup QueryOps
    BY <1>1, <1>2, <1>3, Zenon DEF Ops
  <2>2. CASE o.kind = "install"
    <3>1. p.b = o.b
      BY <2>2, Zenon DEF Follows
    <3> QED BY <1>1, <2>1, <2>2, <3>1, TouchKinds, Zenon
  <2>3. CASE o.kind \in {"remove", "disable"}
    <3>1. p.q = o.q
      BY <2>3 DEF Follows
    <3> QED BY <1>1, <2>1, <2>3, <3>1, TouchKinds, Zenon
  <2>4. CASE o.kind = "enable"
    BY <1>1, <2>1, <2>4, TouchKinds, Zenon
  <2>5. o.kind \in {"install", "remove", "disable", "enable"}
    BY <2>1 DEF InstallOps, QueryOps
  <2> QED BY <2>2, <2>3, <2>4, <2>5
<1> QED BY <1>2, <1>3, Zenon

\* The commands of the others touch what they touched.
LEMMA OthersTouch ==
    ASSUME BundleTypes, NEW c \in Clients, OthersKept(c), NEW d \in Clients \ {c}
    PROVE  /\ Busy(d)' <=> Busy(d)
           /\ Busy(d) => \A b : Touches(op'[d], b) <=> Touches(op[d], b)
<1>1. op[d] \in Ops
  BY Zenon DEF BundleTypes
<1>2. Follows(op[d], op'[d])
  BY Zenon DEF OthersKept
<1> QED BY <1>1, <1>2, FollowTouches, Zenon DEF Busy

\* What a step of c's command may change: what it touches.
OwnChanges(c) ==
    /\ \A b \in Bundles : ~Touches(op[c], b) => dirs'[b] = dirs[b]
    /\ \A b \in Bundles : /\ ~Touches(op[c], b) /\ [b |-> b, enabled |-> TRUE] \in index
                         => [b |-> b, enabled |-> TRUE] \in index'

\* c's command goes on or ends, and has verified what it leaves whole.
GoesOn(c) ==
    /\ Follows(op[c], op'[c]) \/ op'[c] = Idle
    /\ Installing(c)' /\ op'[c].quiet /\ op'[c].pc \in {"check", "load", "save"} =>
         dirs'[op'[c].b] = "whole"

LEMMA Untouching ==
    ASSUME BundleTypes, NEW c \in Clients, OthersKept(c), GoesOn(c), NEW b, NEW but,
           Untouched(b, but)
    PROVE  Untouched(b, but)'
<1> SUFFICES ASSUME NEW d \in Clients \ but, Busy(d)' PROVE ~Touches(op'[d], b)
  BY Zenon DEF Untouched
<1>1. op \in [Clients -> Ops]
  BY Zenon DEF BundleTypes
<1>2. CASE d # c
  BY <1>2, OthersTouch, Zenon DEF Untouched
<1>3. CASE d = c
  <2>1. op'[c] # Idle
    BY <1>3, Zenon DEF Busy
  <2>2. Follows(op[c], op'[c])
    BY <2>1, Zenon DEF GoesOn
  <2> QED BY <1>1, <1>3, <2>1, <2>2, FollowTouches, Zenon DEF Busy, Untouched
<1> QED BY <1>2, <1>3, Zenon

\* A step of a command that has started keeps what concerns the bundles; what it
\* has installed is whole, enabled and untouched.
LEMMA EndStep ==
    ASSUME BundleInv, NEW c \in Clients, Busy(c), BundleTypes', HeldIndex',
           OthersKept(c), GoesOn(c), OwnChanges(c), installed \subseteq installed',
           \A b \in installed' \ installed :
              /\ dirs'[b] = "whole" /\ [b |-> b, enabled |-> TRUE] \in index'
              /\ Untouched(b, {})',
           UNCHANGED <<expected, todo, bundles, offered, registered>>
    PROVE  BundleInv'
<1>1. BundleTypes /\ HeldIndex /\ QuietInv /\ InstalledInv /\ BootInv
  BY Zenon DEF BundleInv
<1>2. InstalledInv'
  <2> SUFFICES ASSUME NEW b \in installed
               PROVE  /\ dirs'[b] = "whole" /\ [b |-> b, enabled |-> TRUE] \in index'
                      /\ Untouched(b, {})'
    BY Zenon DEF InstalledInv
  <2>1. b \in Bundles /\ dirs[b] = "whole" /\ [b |-> b, enabled |-> TRUE] \in index /\ Untouched(b, {})
    BY <1>1, Zenon DEF InstalledInv, BundleTypes
  <2>2. ~Touches(op[c], b)
    BY <2>1, Zenon DEF Untouched
  <2> QED BY <1>1, <2>1, <2>2, Untouching, Zenon DEF OwnChanges
<1>3. QuietInv'
  <2> SUFFICES ASSUME NEW d \in Clients, Installing(d)', op'[d].quiet
               PROVE  /\ Untouched(op[d].b, {d})'
                      /\ op'[d].pc \in {"check", "load", "save"} => dirs'[op'[d].b] = "whole"
    BY Zenon DEF QuietInv
  <2>1. op[d] \in Ops /\ op'[d].kind = "install" /\ op'[d] # Idle
    BY <1>1, Zenon DEF BundleTypes, Installing, Busy
  <2>2. Follows(op[d], op'[d])
    BY <2>1, Zenon DEF OthersKept, GoesOn
  <2>3. Installing(d) /\ op[d].quiet /\ op'[d].b = op[d].b /\ op[d] \in InstallOps
    <3>1. op[d].kind = "install"
      BY <2>1, <2>2, Zenon DEF Follows
    <3> QED BY <2>1, <2>2, <3>1, OpKinds, FollowTouches, Zenon DEF Follows, Installing, Busy
  <2>4. Untouched(op[d].b, {d})
    BY <1>1, <2>3, Zenon DEF QuietInv
  <2>5. CASE d = c
    BY <1>1, <2>3, <2>4, <2>5, Untouching, Zenon DEF GoesOn
  <2>6. CASE d # c
    <3>1. op[d].b \in Bundles
      BY <2>3 DEF InstallOps
    <3>2. dirs'[op[d].b] = dirs[op[d].b]
      BY <2>4, <2>6, <3>1, Zenon DEF Untouched, OwnChanges
    <3>3. op'[d].pc = op[d].pc
      BY <2>3, <2>6, Zenon DEF OthersKept, Installing
    <3> QED BY <1>1, <2>3, <2>4, <3>2, <3>3, Untouching, Zenon DEF QuietInv
  <2> QED BY <2>5, <2>6, Zenon
<1>4. BootInv'
  BY <1>1, Zenon DEF BootInv
<1> QED BY <1>2, <1>3, <1>4, Zenon DEF BundleInv

LEMMA CommandStep ==
    ASSUME BundleInv, NEW c \in Clients, Busy(c), BundleTypes', HeldIndex',
           OthersKept(c), GoesOn(c), OwnChanges(c),
           UNCHANGED <<installed, expected, todo, bundles, offered, registered>>
    PROVE  BundleInv'
<1>1. installed \subseteq installed' /\ installed' \ installed = {}
  OBVIOUS
<1> QED BY <1>1, EndStep, Zenon

-----------------------------------------------------------------------------
\* A command starts: the installs of what it touches are no longer undisturbed.
LEMMA StartStep ==
    ASSUME BundleInv, NEW c \in Clients, NEW o \in InstallOps \cup QueryOps, Start(c, o),
           o.pc \in {"clear", "load"}, o.kind = "install" => o.pc = "clear",
           o.kind = "install" /\ o.quiet => \A d \in Clients : Busy(d) => ~Touches(op[d], o.b),
           UNCHANGED <<dirs, index, lock, registered, daemon>>
    PROVE  BundleInv'
<1>1. BundleTypes /\ HeldIndex /\ QuietInv /\ InstalledInv /\ BootInv
  BY Zenon DEF BundleInv
<1>2. ~Busy(c) /\ op \in [Clients -> Ops]
  BY <1>1, Zenon DEF Start, BundleTypes
<1>3. /\ DOMAIN op' = Clients /\ op'[c] = o
      /\ \A d \in Clients \ {c} :
           op'[d] = IF Installing(d) /\ Touches(o, op[d].b)
                    THEN [op[d] EXCEPT !.quiet = FALSE] ELSE op[d]
      /\ op' = [d \in Clients |-> op'[d]]
  BY DEF Start
<1>4. ASSUME NEW d \in Clients \ {c}
      PROVE  /\ Follows(op[d], op'[d]) /\ (Busy(d) => op'[d].pc = op[d].pc /\ op'[d].seen = op[d].seen)
             /\ Installing(d) /\ op'[d].quiet => ~Touches(o, op[d].b)
  <2>1. op[d] \in Ops
    BY <1>2, Zenon
  <2>2. CASE Installing(d) /\ Touches(o, op[d].b)
    <3>1. op[d] \in InstallOps /\ op[d].kind = "install"
      BY <2>1, <2>2, OpKinds, Zenon DEF Installing
    <3>2. /\ [op[d] EXCEPT !.quiet = FALSE] \in InstallOps
          /\ [op[d] EXCEPT !.quiet = FALSE].kind = op[d].kind
          /\ [op[d] EXCEPT !.quiet = FALSE].b = op[d].b
          /\ [op[d] EXCEPT !.quiet = FALSE].quiet = FALSE
          /\ [op[d] EXCEPT !.quiet = FALSE].pc = op[d].pc
          /\ [op[d] EXCEPT !.quiet = FALSE].seen = op[d].seen
      BY <3>1 DEF InstallOps
    <3> QED BY <1>3, <2>2, <3>1, <3>2 DEF Follows, Ops
  <2>3. CASE ~(Installing(d) /\ Touches(o, op[d].b))
    BY <1>3, <2>1, <2>3, Zenon DEF Follows
  <2> QED BY <2>2, <2>3, Zenon
<1>5. OthersKept(c)
  BY <1>4, Zenon DEF OthersKept
<1>6. BundleTypes'
  <2>1. \A d \in Clients : op'[d] \in Ops
    BY <1>3, <1>4, Zenon DEF Follows, Ops
  <2>2. op' \in [Clients -> Ops]
    BY <1>3, <2>1
  <2> QED BY <1>1, <2>2, Zenon DEF BundleTypes, Start
<1>7. HeldIndex'
  <2>1. ~At(c, "save")' /\ ~At(c, "drop")'
    BY <1>3 DEF At
  <2>2. \A d \in Clients \ {c} : Busy(d)' => Busy(d) /\ op'[d].kind = op[d].kind
    BY <1>1, <1>4, <1>5, OthersTouch, Zenon DEF Follows
  <2> QED BY <1>1, <1>4, <2>1, <2>2, Zenon DEF HeldIndex, At
<1>8. ASSUME NEW b, NEW but, Untouched(b, but), ~Touches(o, b)
      PROVE  Untouched(b, but)'
  <2> SUFFICES ASSUME NEW d \in Clients \ but, Busy(d)' PROVE ~Touches(op'[d], b)
    BY Zenon DEF Untouched
  <2> QED BY <1>1, <1>3, <1>5, <1>8, OthersTouch, Zenon DEF Untouched
<1>9. installed' = installed \ Touched(o) /\ expected' = expected \ Touched(o)
  BY Zenon DEF Start
<1>10. InstalledInv'
  <2> SUFFICES ASSUME NEW b \in installed'
               PROVE  /\ dirs'[b] = "whole" /\ [b |-> b, enabled |-> TRUE] \in index'
                      /\ Untouched(b, {})'
    BY Zenon DEF InstalledInv
  <2>1. b \in installed /\ b \in Bundles /\ ~Touches(o, b)
    BY <1>1, <1>9, Zenon DEF Touched, BundleTypes
  <2> QED BY <1>1, <1>8, <2>1, Zenon DEF InstalledInv
<1>11. QuietInv'
  <2> SUFFICES ASSUME NEW d \in Clients, Installing(d)', op'[d].quiet
               PROVE  /\ Untouched(op[d].b, {d})'
                      /\ op'[d].pc \in {"check", "load", "save"} => dirs'[op'[d].b] = "whole"
    BY Zenon DEF QuietInv
  <2>1. CASE d = c
    <3>1. o.kind = "install" /\ o.pc = "clear" /\ o.quiet
      BY <1>3, <2>1, Zenon DEF Installing
    <3>2. \A e \in Clients \ {c} : Busy(e)' => ~Touches(op'[e], o.b)
      BY <1>1, <1>5, <3>1, OthersTouch, Zenon
    <3>3. Untouched(op[d].b, {d})'
      BY <1>3, <2>1, <3>2, Zenon DEF Untouched
    <3>4. op'[d].pc \notin {"check", "load", "save"}
      BY <1>3, <2>1, <3>1
    <3> QED BY <3>3, <3>4, Zenon
  <2>2. CASE d # c
    <3>1. Follows(op[d], op'[d]) /\ op[d] \in Ops
      BY <1>2, <1>4, <2>2, Zenon
    <3>2. Installing(d) /\ op[d].quiet /\ op'[d].b = op[d].b
      BY <3>1, FollowTouches, Zenon DEF Installing, Busy, Follows
    <3>3. ~Touches(o, op[d].b) /\ op'[d].pc = op[d].pc
      BY <1>4, <2>2, <3>2, Zenon DEF Installing
    <3> QED BY <1>1, <1>8, <3>2, <3>3, Zenon DEF QuietInv
  <2> QED BY <2>1, <2>2, Zenon
<1>12. BootInv'
  BY <1>1, <1>9, Zenon DEF BootInv, daemon
<1> QED BY <1>6, <1>7, <1>10, <1>11, <1>12, Zenon DEF BundleInv
-----------------------------------------------------------------------------
\* Only c's command moves.
LEMMA OwnMove ==
    ASSUME BundleTypes, NEW c \in Clients, NEW p \in Ops, op' = [op EXCEPT ![c] = p]
    PROVE  op' \in [Clients -> Ops] /\ op'[c] = p /\ OthersKept(c)
<1>1. op \in [Clients -> Ops]
  BY Zenon DEF BundleTypes
<1>2. op' \in [Clients -> Ops] /\ op'[c] = p /\ \A d \in Clients \ {c} : op'[d] = op[d]
  BY <1>1
<1> QED BY <1>1, <1>2, Zenon DEF OthersKept, Follows

\* A directory is removed: copies into it are no longer clean.
LEMMA UprootMove ==
    ASSUME BundleTypes, NEW c \in Clients, NEW b \in Bundles, NEW p \in Ops, Uproot(c, b, p)
    PROVE  /\ op' \in [Clients -> Ops] /\ op'[c] = p /\ OthersKept(c)
           /\ dirs' \in [Bundles -> DirStates]
           /\ \A x \in Bundles : x # b => dirs'[x] = dirs[x]
<1>1. op \in [Clients -> Ops] /\ dirs \in [Bundles -> DirStates]
  BY Zenon DEF BundleTypes
<1>2. /\ op'[c] = p /\ op' = [d \in Clients |-> op'[d]]
      /\ \A d \in Clients \ {c} :
           op'[d] = IF Installing(d) /\ op[d].b = b THEN [op[d] EXCEPT !.clean = FALSE] ELSE op[d]
  BY DEF Uproot
<1>3. ASSUME NEW d \in Clients \ {c}
      PROVE  Follows(op[d], op'[d]) /\ (Busy(d) => op'[d].pc = op[d].pc /\ op'[d].seen = op[d].seen)
  <2>1. op[d] \in Ops
    BY <1>1, Zenon
  <2>2. CASE Installing(d) /\ op[d].b = b
    <3>1. op[d] \in InstallOps /\ op[d].kind = "install"
      BY <2>1, <2>2, OpKinds, Zenon DEF Installing
    <3>2. /\ [op[d] EXCEPT !.clean = FALSE] \in InstallOps
          /\ [op[d] EXCEPT !.clean = FALSE].kind = op[d].kind
          /\ [op[d] EXCEPT !.clean = FALSE].b = op[d].b
          /\ [op[d] EXCEPT !.clean = FALSE].quiet = op[d].quiet
          /\ [op[d] EXCEPT !.clean = FALSE].pc = op[d].pc
          /\ [op[d] EXCEPT !.clean = FALSE].seen = op[d].seen
      BY <3>1 DEF InstallOps
    <3> QED BY <1>2, <2>2, <3>1, <3>2 DEF Follows, Ops
  <2>3. CASE ~(Installing(d) /\ op[d].b = b)
    BY <1>2, <2>1, <2>3, Zenon DEF Follows
  <2> QED BY <2>2, <2>3, Zenon
<1>4. \A d \in Clients : op'[d] \in Ops
  BY <1>2, <1>3, Zenon DEF Follows
<1>5. op' \in [Clients -> Ops]
  BY <1>2, <1>4
<1>6. /\ dirs' \in [Bundles -> DirStates]
      /\ \A x \in Bundles : x # b => dirs'[x] = dirs[x]
  BY <1>1 DEF Uproot, DirStates
<1> QED BY <1>2, <1>3, <1>5, <1>6, Zenon DEF OthersKept

\* A step of a command that does not hold the index.
LEMMA NotHolding ==
    ASSUME BundleTypes, HeldIndex, NEW c \in Clients, OthersKept(c), UNCHANGED <<index, lock>>,
           op'[c] # Idle => op'[c].pc \notin {"save", "drop"}
    PROVE  HeldIndex'
<1>1. ~At(c, "save")' /\ ~At(c, "drop")'
  BY DEF At, Busy
<1>2. \A d \in Clients \ {c} :
        Busy(d)' => Busy(d) /\ op'[d].kind = op[d].kind /\ op'[d].pc = op[d].pc
                    /\ op'[d].seen = op[d].seen
  BY OthersTouch, Zenon DEF OthersKept, Follows
<1> QED BY <1>1, <1>2, Zenon DEF HeldIndex, At

\* The holder of the index ends, or anyone else does.
LEMMA LetGo ==
    ASSUME BundleTypes, HeldIndex, NEW c \in Clients, OthersKept(c), op'[c] = Idle,
           lock' = lock \ {c}, lock = {c} \/ UNCHANGED index
    PROVE  HeldIndex'
<1>1. ~At(c, "save")' /\ ~At(c, "drop")'
  BY Zenon DEF At, Busy
<1>2. \A d \in Clients \ {c} :
        Busy(d)' => Busy(d) /\ op'[d].kind = op[d].kind /\ op'[d].pc = op[d].pc
                    /\ op'[d].seen = op[d].seen
  BY OthersTouch, Zenon DEF OthersKept, Follows
<1>3. ASSUME NEW d \in Clients, At(d, "save")' \/ At(d, "drop")'
      PROVE  /\ d # c /\ lock = {d} /\ lock' = {d} /\ op[d].seen = index /\ UNCHANGED index
             /\ op'[d].seen = op[d].seen
             /\ At(d, "drop")' => At(d, "drop") /\ op'[d].kind = op[d].kind
  <2>1. d # c /\ Busy(d)' /\ (op'[d].pc = "save" \/ op'[d].pc = "drop")
    BY <1>1, <1>3, Zenon DEF At
  <2>2. At(d, "save") \/ At(d, "drop")
    BY <1>2, <2>1, Zenon DEF At
  <2>3. lock = {d} /\ op[d].seen = index
    BY <2>2, Zenon DEF HeldIndex
  <2>4. lock' = {d} /\ lock # {c}
    BY <2>1, <2>3
  <2> QED BY <1>2, <2>1, <2>3, <2>4, Zenon DEF At
<1> QED BY <1>3, Zenon DEF HeldIndex

\* What the step of a command says about it.
LEMMA StepKinds ==
    ASSUME BundleTypes, NEW c \in Clients, NEW at, At(c, at)
    PROVE  /\ Busy(c) /\ op[c] \in Ops /\ op[c].pc = at
           /\ op[c] \in InstallOps \/ op[c] \in QueryOps
           /\ at \in {"clear", "copy", "fill", "verify", "check"} =>
                op[c] \in InstallOps /\ op[c].kind = "install" /\ op[c].b \in Bundles
           /\ op[c] \in InstallOps => op[c].b \in Bundles /\ Touches(op[c], op[c].b)
<1>1. Busy(c) /\ op[c] \in Ops /\ op[c].pc = at /\ op[c] # Idle
  BY Zenon DEF At, Busy, BundleTypes
<1>2. op[c] \in InstallOps \/ op[c] \in QueryOps
  BY <1>1, Zenon DEF Ops
<1>3. op[c] \in QueryOps => op[c].pc \in {"load", "save", "drop"}
  BY DEF QueryOps
<1>4. op[c] \in InstallOps => op[c].b \in Bundles /\ op[c].kind = "install"
  BY DEF InstallOps
<1>5. op[c] \in InstallOps => Touches(op[c], op[c].b)
  BY <1>4, TouchKinds, Zenon DEF SameVersion
<1>6. at \in {"clear", "copy", "fill", "verify", "check"} => op[c] \in InstallOps
  BY <1>1, <1>2, <1>3
<1> QED BY <1>1, <1>2, <1>4, <1>5, <1>6, Zenon

\* A step of an install before it takes the index changes no directory but its
\* own, and goes on to the check or the index only with a whole copy.
LEMMA CopyStep ==
    ASSUME BundleInv, NEW c \in Clients, Busy(c), op[c] \in InstallOps, NEW p \in Ops,
           op' \in [Clients -> Ops], op'[c] = p, OthersKept(c),
           dirs' \in [Bundles -> DirStates],
           \A x \in Bundles : x # op[c].b => dirs'[x] = dirs[x],
           p # Idle => /\ p \in InstallOps /\ p.b = op[c].b /\ p.quiet = op[c].quiet
                       /\ p.pc # "save"
                       /\ p.pc \in {"check", "load"} => dirs'[p.b] = "whole",
           UNCHANGED <<index, lock, ops, registered, daemon, installed, expected>>
    PROVE  BundleInv'
<1>1. BundleTypes /\ HeldIndex
  BY Zenon DEF BundleInv
<1>2. op[c].kind = "install" /\ op[c].b \in Bundles /\ op[c].kind \notin {"enable", "disable", "remove"}
  BY DEF InstallOps
<1>3. p # Idle => p.kind = "install" /\ p.pc # "drop"
  BY DEF InstallOps, InstallSteps
<1>4. GoesOn(c)
  <2>1. p # Idle => Follows(op[c], p)
    BY <1>2, <1>3, Zenon DEF Follows
  <2>2. p # Idle /\ p.pc \in {"check", "load", "save"} => dirs'[p.b] = "whole"
    OBVIOUS
  <2> QED BY <2>1, <2>2, Zenon DEF GoesOn, Installing, Busy
<1>5. Touches(op[c], op[c].b)
  BY <1>2, TouchKinds, Zenon DEF SameVersion
<1>6. OwnChanges(c)
  BY <1>5, Zenon DEF OwnChanges
<1>7. HeldIndex'
  <2>1. op'[c] # Idle => op'[c].pc \notin {"save", "drop"}
    BY <1>3
  <2> QED BY <1>1, <2>1, NotHolding, Zenon
<1>8. BundleTypes'
  BY <1>1, Zenon DEF BundleTypes
<1> QED BY <1>4, <1>6, <1>7, <1>8, CommandStep, Zenon DEF daemon

LEMMA InstallStep ==
    ASSUME BundleInv, NEW c \in Clients, NEW b \in Bundles, NEW check \in BOOLEAN,
           install(c, b, check)
    PROVE  BundleInv'
<1> DEFINE o == [kind |-> "install", pc |-> "clear", b |-> b, check |-> check,
                 clean |-> TRUE, seen |-> {},
                 quiet |-> \A d \in Clients : Busy(d) => ~Touches(op[d], b)]
           p == [op[c] EXCEPT !.pc = "copy"]
<1>1. BundleTypes
  BY Zenon DEF BundleInv
<1>2. CASE Start(c, o) /\ UNCHANGED <<dirs, index, lock, registered, daemon>>
  <2>1. (\A d \in Clients : Busy(d) => ~Touches(op[d], b)) \in BOOLEAN
    BY Zenon
  <2>2. /\ o \in InstallOps /\ o.pc = "clear" /\ o.b = b
        /\ o.quiet = \A d \in Clients : Busy(d) => ~Touches(op[d], b)
    BY <2>1 DEF InstallOps, InstallSteps, Entries
  <2> HIDE DEF o
  <2>3. o \in InstallOps \cup QueryOps /\ o.pc \in {"clear", "load"}
    BY <2>2
  <2> QED BY <1>2, <2>2, <2>3, StartStep, Zenon
<1>3. CASE /\ At(c, "clear") /\ op[c].b = b /\ Uproot(c, b, p)
           /\ UNCHANGED <<index, lock, ops, registered, daemon, installed, expected>>
  <2>1. Busy(c) /\ op[c] \in InstallOps
    BY <1>1, <1>3, StepKinds
  <2>2. p \in InstallOps /\ p.b = op[c].b /\ p.quiet = op[c].quiet /\ p.pc = "copy"
    BY <2>1 DEF InstallOps, InstallSteps
  <2> HIDE DEF p
  <2>3. p \in Ops /\ p.pc # "save" /\ p.pc \notin {"check", "load"}
    BY <2>2 DEF Ops
  <2>4. /\ op' \in [Clients -> Ops] /\ op'[c] = p /\ OthersKept(c)
        /\ dirs' \in [Bundles -> DirStates]
        /\ \A x \in Bundles : x # op[c].b => dirs'[x] = dirs[x]
    BY <1>1, <1>3, <2>3, UprootMove
  <2> QED BY <1>3, <2>1, <2>2, <2>3, <2>4, CopyStep, Zenon
<1> QED BY <1>2, <1>3, Zenon DEF install

LEMMA CopyDirStep == ASSUME BundleInv, NEW c \in Clients, copy_dir(c) PROVE BundleInv'
<1>1. BundleTypes /\ op \in [Clients -> Ops] /\ dirs \in [Bundles -> DirStates]
  BY Zenon DEF BundleInv, BundleTypes
<1>2. CASE /\ At(c, "copy")
           /\ dirs' = [dirs EXCEPT ![op[c].b] = "torn"]
           /\ op' = [op EXCEPT ![c].pc = "fill", ![c].clean = TRUE]
           /\ UNCHANGED <<index, lock, ops, registered, daemon, installed, expected>>
  <2> DEFINE p == [op[c] EXCEPT !.pc = "fill", !.clean = TRUE]
  <2>1. Busy(c) /\ op[c] \in InstallOps /\ op[c].b \in Bundles
    BY <1>1, <1>2, StepKinds
  <2>2. p \in InstallOps /\ p.b = op[c].b /\ p.quiet = op[c].quiet /\ p.pc = "fill"
    BY <2>1 DEF InstallOps, InstallSteps
  <2>3. op' = [op EXCEPT ![c] = p]
    BY <1>1, <1>2
  <2> HIDE DEF p
  <2>4. p \in Ops /\ p.pc # "save" /\ p.pc \notin {"check", "load"}
    BY <2>2 DEF Ops
  <2>5. /\ dirs' \in [Bundles -> DirStates]
        /\ \A x \in Bundles : x # op[c].b => dirs'[x] = dirs[x]
    BY <1>1, <1>2, <2>1 DEF DirStates
  <2>6. op' \in [Clients -> Ops] /\ op'[c] = p /\ OthersKept(c)
    BY <1>1, <2>3, <2>4, OwnMove, Zenon
  <2> QED BY <1>2, <2>1, <2>2, <2>4, <2>5, <2>6, CopyStep, Zenon
<1>3. CASE /\ At(c, "fill")
           /\ dirs' = [dirs EXCEPT ![op[c].b] =
                          IF op[c].clean \/ @ = "whole" THEN "whole" ELSE "torn"]
           /\ op' = [op EXCEPT ![c].pc = "verify"]
           /\ UNCHANGED <<index, lock, ops, registered, daemon, installed, expected>>
  <2> DEFINE p == [op[c] EXCEPT !.pc = "verify"]
  <2>1. Busy(c) /\ op[c] \in InstallOps /\ op[c].b \in Bundles
    BY <1>1, <1>3, StepKinds
  <2>2. p \in InstallOps /\ p.b = op[c].b /\ p.quiet = op[c].quiet /\ p.pc = "verify"
    BY <2>1 DEF InstallOps, InstallSteps
  <2>3. op' = [op EXCEPT ![c] = p]
    BY <1>1, <1>3
  <2> HIDE DEF p
  <2>4. p \in Ops /\ p.pc # "save" /\ p.pc \notin {"check", "load"}
    BY <2>2 DEF Ops
  <2>5. /\ dirs' \in [Bundles -> DirStates]
        /\ \A x \in Bundles : x # op[c].b => dirs'[x] = dirs[x]
    BY <1>1, <1>3, <2>1 DEF DirStates
  <2>6. op' \in [Clients -> Ops] /\ op'[c] = p /\ OthersKept(c)
    BY <1>1, <2>3, <2>4, OwnMove, Zenon
  <2> QED BY <1>3, <2>1, <2>2, <2>4, <2>5, <2>6, CopyStep, Zenon
<1> QED BY <1>2, <1>3, Zenon DEF copy_dir

LEMMA CheckStep == ASSUME BundleInv, NEW c \in Clients, check_bundle(c) PROVE BundleInv'
<1>1. BundleTypes /\ op \in [Clients -> Ops] /\ dirs \in [Bundles -> DirStates]
  BY Zenon DEF BundleInv, BundleTypes
<1>2. UNCHANGED <<index, lock, ops, registered, daemon, installed, expected>>
  BY Zenon DEF check_bundle
<1>3. Idle \in Ops
  BY Zenon DEF Ops
<1>4. CASE At(c, "verify") /\ ~verify_bundle(op[c].b) /\ op' = [op EXCEPT ![c] = Idle]
           /\ UNCHANGED dirs
  <2>1. Busy(c) /\ op[c] \in InstallOps
    BY <1>1, <1>4, StepKinds
  <2> QED BY <1>1, <1>2, <1>3, <1>4, <2>1, OwnMove, CopyStep, Zenon
<1>5. CASE /\ At(c, "verify") \/ At(c, "check")
           /\ verify_bundle(op[c].b) /\ UNCHANGED dirs
           /\ \E at \in {"check", "load"} : op' = [op EXCEPT ![c] = [op[c] EXCEPT !.pc = at]]
  <2>1. PICK at \in {"check", "load"} : op' = [op EXCEPT ![c] = [op[c] EXCEPT !.pc = at]]
    BY <1>5, Zenon
  <2> DEFINE p == [op[c] EXCEPT !.pc = at]
  <2>2. Busy(c) /\ op[c] \in InstallOps
    BY <1>1, <1>5, StepKinds
  <2>3. p \in InstallOps /\ p.b = op[c].b /\ p.quiet = op[c].quiet /\ p.pc = at
    BY <2>2 DEF InstallOps, InstallSteps
  <2>4. p.pc # "save"
    BY <2>3
  <2>5. op' = [op EXCEPT ![c] = p]
    BY <2>1
  <2> HIDE DEF p
  <2>6. p \in Ops
    BY <2>3, Zenon DEF Ops
  <2>7. dirs'[p.b] = "whole"
    BY <1>5, <2>3, Zenon DEF verify_bundle, compute_bundle_digest
  <2> QED BY <1>1, <1>2, <1>5, <2>2, <2>3, <2>4, <2>5, <2>6, <2>7, OwnMove, CopyStep, Zenon
<1>6. CASE At(c, "check") /\ Uproot(c, op[c].b, Idle)
  <2>1. Busy(c) /\ op[c] \in InstallOps /\ op[c].b \in Bundles
    BY <1>1, <1>6, StepKinds
  <2>2. /\ op' \in [Clients -> Ops] /\ op'[c] = Idle /\ OthersKept(c)
        /\ dirs' \in [Bundles -> DirStates]
        /\ \A x \in Bundles : x # op[c].b => dirs'[x] = dirs[x]
    BY <1>1, <1>3, <1>6, <2>1, UprootMove
  <2> QED BY <1>2, <1>3, <2>1, <2>2, CopyStep, Zenon
<1>7. CASE /\ At(c, "verify") /\ UNCHANGED dirs
           /\ op' = [op EXCEPT ![c] =
                       IF ~verify_bundle(@.b) THEN Idle
                       ELSE [@ EXCEPT !.pc = IF op[c].check THEN "check" ELSE "load"]]
  <2>1. CASE ~verify_bundle(op[c].b)
    <3>1. op' = [op EXCEPT ![c] = Idle]
      BY <1>1, <1>7, <2>1
    <3> QED BY <1>4, <1>7, <2>1, <3>1, Zenon
  <2>2. CASE verify_bundle(op[c].b)
    <3>1. op' = [op EXCEPT ![c] = [op[c] EXCEPT !.pc = IF op[c].check THEN "check" ELSE "load"]]
      BY <1>1, <1>7, <2>2
    <3>2. (IF op[c].check THEN "check" ELSE "load") \in {"check", "load"}
      OBVIOUS
    <3> QED BY <1>5, <1>7, <2>2, <3>1, <3>2, Zenon
  <2> QED BY <2>1, <2>2, Zenon
<1>8. CASE /\ At(c, "check") /\ verify_bundle(op[c].b) /\ UNCHANGED dirs
           /\ op' = [op EXCEPT ![c].pc = "load"]
  <2>1. op' = [op EXCEPT ![c] = [op[c] EXCEPT !.pc = "load"]]
    BY <1>1, <1>8
  <2>2. "load" \in {"check", "load"}
    OBVIOUS
  <2> QED BY <1>5, <1>8, <2>1, <2>2, Zenon
<1> QED BY <1>6, <1>7, <1>8, Zenon DEF check_bundle
-----------------------------------------------------------------------------
LEMMA LockStep == ASSUME BundleInv, NEW c \in Clients, with_index_lock(c) PROVE BundleInv'
<1> DEFINE p == [op[c] EXCEPT !.pc = "save", !.seen = index]
<1>1. BundleTypes /\ HeldIndex /\ QuietInv /\ op \in [Clients -> Ops] /\ index \subseteq Entries
  BY Zenon DEF BundleInv, BundleTypes
<1>2. At(c, "load") /\ lock = {} /\ lock' = {c}
  BY Zenon DEF with_index_lock
<1>3. /\ op' = [op EXCEPT ![c] = p]
      /\ UNCHANGED <<dirs, index, ops, registered, daemon, installed, expected>>
  BY <1>1 DEF with_index_lock
<1>4. Busy(c) /\ (op[c] \in InstallOps \/ op[c] \in QueryOps) /\ op[c].pc = "load"
  BY <1>1, <1>2, StepKinds, Zenon
<1>5. /\ p \in Ops /\ p.kind = op[c].kind /\ p.pc = "save" /\ p.seen = index
      /\ op[c] \in InstallOps => p.b = op[c].b /\ p.quiet = op[c].quiet
      /\ op[c] \in QueryOps => p.q = op[c].q
  BY <1>1, <1>4 DEF InstallOps, QueryOps, InstallSteps, Ops
<1>6. op[c] \in InstallOps <=> op[c].kind = "install"
  BY <1>1, OpKinds, Zenon
<1>7. op[c] \in QueryOps <=> op[c].kind \in {"enable", "disable", "remove"}
  BY <1>1, OpKinds, Zenon
<1> HIDE DEF p
<1>8. op' \in [Clients -> Ops] /\ op'[c] = p /\ OthersKept(c)
  BY <1>1, <1>3, <1>5, OwnMove, Zenon
<1>9. GoesOn(c)
  <2>1. Follows(op[c], p)
    BY <1>5, <1>6, <1>7, Zenon DEF Follows
  <2>2. ASSUME Installing(c)', p.quiet PROVE dirs'[p.b] = "whole"
    <3>1. op[c].kind = "install" /\ op[c] \in InstallOps /\ Installing(c) /\ op[c].quiet
      BY <1>4, <1>5, <1>6, <1>8, <2>2, Zenon DEF Installing
    <3>2. op[c].pc \in {"check", "load", "save"}
      BY <1>4
    <3> QED BY <1>1, <1>3, <1>5, <3>1, <3>2, Zenon DEF QuietInv
  <2> QED BY <1>8, <2>1, <2>2, Zenon DEF GoesOn
<1>10. OwnChanges(c)
  BY <1>3, Zenon DEF OwnChanges
<1>11. HeldIndex'
  <2>1. ASSUME NEW d \in Clients, At(d, "save")' \/ At(d, "drop")' PROVE d = c
    <3> SUFFICES ASSUME d # c PROVE FALSE
      OBVIOUS
    <3>1. At(d, "save") \/ At(d, "drop")
      BY <1>1, <1>8, <2>1, OthersTouch, Zenon DEF At, OthersKept
    <3>2. lock = {d}
      BY <1>1, <3>1, Zenon DEF HeldIndex
    <3> QED BY <1>2, <3>2
  <2>2. ~At(c, "drop")'
    BY <1>5, <1>8 DEF At
  <2> QED BY <1>2, <1>3, <1>5, <1>8, <2>1, <2>2, Zenon DEF HeldIndex
<1>12. BundleTypes'
  BY <1>1, <1>3, <1>8, Zenon DEF BundleTypes
<1> QED BY <1>3, <1>4, <1>8, <1>9, <1>10, <1>11, <1>12, CommandStep, Zenon DEF daemon

\* Facts about the holder of the index when it publishes new entries.
LEMMA SaveMove ==
    ASSUME BundleInv, NEW c \in Clients, NEW entries \in SUBSET Entries, save_index(c, entries),
           At(c, "save") \/ At(c, "drop")
    PROVE  /\ Busy(c) /\ op[c].seen = index /\ index' = entries /\ index' \subseteq Entries
           /\ op' \in [Clients -> Ops] /\ op'[c] = Idle /\ OthersKept(c) /\ GoesOn(c)
           /\ HeldIndex'
<1>1. BundleTypes /\ HeldIndex
  BY Zenon DEF BundleInv
<1>2. lock = {c} /\ op[c].seen = index /\ Busy(c)
  BY <1>1, Zenon DEF HeldIndex, At
<1>3. Idle \in Ops
  BY Zenon DEF Ops
<1>4. op' \in [Clients -> Ops] /\ op'[c] = Idle /\ OthersKept(c)
  BY <1>1, <1>3, OwnMove, Zenon DEF save_index
<1>5. GoesOn(c)
  BY <1>4, Zenon DEF GoesOn, Installing, Busy
<1>6. HeldIndex'
  BY <1>1, <1>2, <1>4, LetGo, Zenon DEF save_index
<1> QED BY <1>2, <1>4, <1>5, <1>6, Zenon DEF save_index

LEMMA RecordEntryStep == ASSUME BundleInv, NEW c \in Clients, record_entry(c) PROVE BundleInv'
<1>1. BundleTypes /\ QuietInv /\ op[c] \in Ops /\ index \subseteq Entries /\ installed \subseteq Bundles
  BY Zenon DEF BundleInv, BundleTypes
<1>2. At(c, "save") /\ op[c].kind = "install"
  BY Zenon DEF record_entry
<1>3. Busy(c) /\ op[c] \in InstallOps /\ op[c].b \in Bundles /\ op[c].pc = "save"
  BY <1>1, <1>2, OpKinds, StepKinds, Zenon
<1>4. PICK b \in Bundles : op[c].b = b
  BY <1>3, Zenon
<1> DEFINE kept == {e \in op[c].seen : ~SameVersion(e.b, b)}
           entry == [b |-> b, enabled |-> TRUE]
<1>5. /\ save_index(c, kept \cup {entry})
      /\ installed' = IF op[c].quiet THEN installed \cup {b} ELSE installed
      /\ UNCHANGED <<dirs, ops, registered, daemon, expected>>
  BY <1>4, Zenon DEF record_entry
<1>6. op[c].seen \subseteq Entries /\ entry \in Entries
  BY <1>3 DEF InstallOps, Entries
<1>7. kept \cup {entry} \in SUBSET Entries
  BY <1>6, Zenon
<1>8. \A x \in Bundles : /\ ~Touches(op[c], x) /\ [b |-> x, enabled |-> TRUE] \in op[c].seen
                        => [b |-> x, enabled |-> TRUE] \in kept
  <2> SUFFICES ASSUME NEW x \in Bundles, ~Touches(op[c], x), [b |-> x, enabled |-> TRUE] \in op[c].seen
               PROVE  ~SameVersion([b |-> x, enabled |-> TRUE].b, b)
    BY Zenon
  <2>1. [b |-> x, enabled |-> TRUE].b = x
    OBVIOUS
  <2>2. ~SameVersion(b, x)
    BY <1>2, <1>3, <1>4, TouchKinds, Zenon
  <2> QED BY <2>1, <2>2, Zenon DEF SameVersion
<1> HIDE DEF kept
<1>9. /\ op[c].seen = index /\ index' = kept \cup {entry} /\ index' \subseteq Entries
      /\ op' \in [Clients -> Ops] /\ op'[c] = Idle /\ OthersKept(c) /\ GoesOn(c) /\ HeldIndex'
  BY <1>2, <1>5, <1>7, SaveMove, Zenon
<1>10. OwnChanges(c)
  BY <1>5, <1>8, <1>9, Zenon DEF OwnChanges
<1>11. /\ installed \subseteq installed' /\ installed' \subseteq Bundles
       /\ \A x \in installed' \ installed : x = b /\ op[c].quiet
  BY <1>1, <1>5
<1>12. ASSUME op[c].quiet
       PROVE  dirs'[b] = "whole" /\ entry \in index' /\ Untouched(b, {})'
  <2>1. Installing(c) /\ op[c].pc \in {"check", "load", "save"}
    BY <1>2, <1>3 DEF Installing
  <2>2. dirs[b] = "whole" /\ Untouched(b, {c})
    BY <1>1, <1>4, <1>12, <2>1, Zenon DEF QuietInv
  <2>3. Untouched(b, {c})'
    BY <1>1, <1>9, <2>2, Untouching, Zenon
  <2>4. Untouched(b, {})'
    BY <1>9, <2>3, Zenon DEF Untouched, Busy
  <2> QED BY <1>5, <1>9, <2>2, <2>4, Zenon
<1>13. BundleTypes'
  BY <1>1, <1>5, <1>9, <1>11, Zenon DEF BundleTypes
<1>14. \A x \in installed' \ installed :
              /\ dirs'[x] = "whole" /\ [b |-> x, enabled |-> TRUE] \in index'
              /\ Untouched(x, {})'
  BY <1>11, <1>12, Zenon
<1> QED BY <1>3, <1>5, <1>9, <1>10, <1>11, <1>13, <1>14, EndStep, Zenon DEF daemon

LEMMA EnableStep ==
    ASSUME BundleInv, NEW c \in Clients, NEW enabled \in BOOLEAN, set_enabled(c, enabled)
    PROVE  BundleInv'
<1> DEFINE verb == IF enabled THEN "enable" ELSE "disable"
<1>1. BundleTypes /\ op[c] \in Ops
  BY Zenon DEF BundleInv, BundleTypes
<1>2. CASE /\ \E q \in Queries : Start(c, Query(verb, q))
           /\ UNCHANGED <<dirs, index, lock, registered, daemon>>
  <2>1. PICK q \in Queries : Start(c, Query(verb, q))
    BY <1>2, Zenon
  <2>2. Query(verb, q) \in QueryOps /\ Query(verb, q).pc = "load" /\ Query(verb, q).kind # "install"
    BY DEF Query, QueryOps
  <2>3. Query(verb, q) \in InstallOps \cup QueryOps /\ Query(verb, q).pc \in {"clear", "load"}
    BY <2>2
  <2> QED BY <1>2, <2>1, <2>2, <2>3, StartStep, Zenon
<1>3. ASSUME /\ At(c, "save") /\ op[c].kind = verb
             /\ \E e \in op[c].seen :
                  /\ find_entry(op[c].seen, op[c].q) = {e}
                  /\ save_index(c, (op[c].seen \ {e}) \cup {[e EXCEPT !.enabled = enabled]})
             /\ UNCHANGED <<dirs, ops, registered, daemon, installed, expected>>
      PROVE  BundleInv'
  <2>1. PICK e \in op[c].seen :
          /\ find_entry(op[c].seen, op[c].q) = {e}
          /\ save_index(c, (op[c].seen \ {e}) \cup {[e EXCEPT !.enabled = enabled]})
    BY <1>3, Zenon
  <2>2. op[c].kind \in {"enable", "disable", "remove"}
    BY <1>3
  <2>3. op[c] \in QueryOps
    BY <1>1, <2>2, OpKinds, Zenon
  <2>4. op[c].seen \subseteq Entries
    BY <2>3 DEF QueryOps
  <2>5. e \in Entries /\ [e EXCEPT !.enabled = enabled] \in Entries
        /\ (enabled /\ e = [b |-> e.b, enabled |-> TRUE] => [e EXCEPT !.enabled = enabled] = e)
    BY <2>4 DEF Entries
  <2> DEFINE entries == (op[c].seen \ {e}) \cup {[e EXCEPT !.enabled = enabled]}
  <2>6. entries \in SUBSET Entries
    BY <2>4, <2>5, Zenon
  <2>7. Matches(op[c].q, e.b)
    BY <2>1, Zenon DEF find_entry
  <2>8. \A x \in Bundles : /\ ~Touches(op[c], x) /\ [b |-> x, enabled |-> TRUE] \in op[c].seen
                          => [b |-> x, enabled |-> TRUE] \in entries
    <3> SUFFICES ASSUME NEW x \in Bundles, ~Touches(op[c], x), e = [b |-> x, enabled |-> TRUE]
                 PROVE  [e EXCEPT !.enabled = enabled] = e
      BY Zenon
    <3>1. e.b = x /\ e = [b |-> e.b, enabled |-> TRUE]
      OBVIOUS
    <3>2. CASE enabled
      BY <2>5, <3>1, <3>2, Zenon
    <3>3. CASE ~enabled
      <4>1. op[c].kind = "disable"
        BY <1>3, <3>3
      <4>2. op[c].kind \in {"remove", "disable"}
        BY <4>1
      <4> QED BY <2>3, <2>7, <3>1, <4>2, TouchKinds, Zenon
    <3> QED BY <3>2, <3>3, Zenon
  <2> HIDE DEF entries
  <2>9. /\ Busy(c) /\ op[c].seen = index /\ index' = entries /\ index' \subseteq Entries
        /\ op' \in [Clients -> Ops] /\ OthersKept(c) /\ GoesOn(c) /\ HeldIndex'
    BY <1>3, <2>1, <2>6, SaveMove, Zenon DEF entries
  <2>10. OwnChanges(c)
    BY <1>3, <2>8, <2>9, Zenon DEF OwnChanges
  <2>11. BundleTypes'
    BY <1>1, <1>3, <2>9, Zenon DEF BundleTypes
  <2> QED BY <1>3, <2>9, <2>10, <2>11, CommandStep, Zenon DEF daemon
<1> QED BY <1>2, <1>3, Zenon DEF set_enabled
LEMMA RemoveStep == ASSUME BundleInv, NEW c \in Clients, remove(c) PROVE BundleInv'
<1>1. BundleTypes /\ HeldIndex /\ op[c] \in Ops
  BY Zenon DEF BundleInv, BundleTypes
<1>2. CASE /\ \E q \in Queries : Start(c, Query("remove", q))
           /\ UNCHANGED <<dirs, index, lock, registered, daemon>>
  <2>1. PICK q \in Queries : Start(c, Query("remove", q))
    BY <1>2, Zenon
  <2>2. /\ Query("remove", q) \in QueryOps /\ Query("remove", q).pc = "load"
        /\ Query("remove", q).kind # "install"
    BY DEF Query, QueryOps
  <2>3. Query("remove", q) \in InstallOps \cup QueryOps /\ Query("remove", q).pc \in {"clear", "load"}
    BY <2>2
  <2> QED BY <1>2, <2>1, <2>2, <2>3, StartStep, Zenon
<1>3. ASSUME op[c].kind = "remove", Busy(c)
      PROVE  /\ op[c] \in QueryOps /\ op[c].seen \subseteq Entries
             /\ \A x : Touches(op[c], x) <=> Matches(op[c].q, x)
  <2>1. op[c].kind \in {"enable", "disable", "remove"} /\ op[c].kind \in {"remove", "disable"}
    BY <1>3
  <2>2. op[c] \in QueryOps
    BY <1>1, <2>1, OpKinds, Zenon
  <2>3. op[c].seen \subseteq Entries
    BY <2>2 DEF QueryOps
  <2> QED BY <2>1, <2>2, <2>3, TouchKinds, Zenon
<1>4. ASSUME /\ At(c, "save") /\ op[c].kind = "remove"
             /\ \E e \in op[c].seen :
                  /\ find_entry(op[c].seen, op[c].q) = {e}
                  /\ Uproot(c, e.b, [op[c] EXCEPT !.pc = "drop"])
             /\ UNCHANGED <<index, lock, ops, registered, daemon, installed, expected>>
      PROVE  BundleInv'
  <2> DEFINE p == [op[c] EXCEPT !.pc = "drop"]
  <2>1. PICK e \in op[c].seen : find_entry(op[c].seen, op[c].q) = {e} /\ Uproot(c, e.b, p)
    BY <1>4, Zenon
  <2>2. /\ Busy(c) /\ op[c] \in QueryOps /\ op[c].seen \subseteq Entries
        /\ lock = {c} /\ op[c].seen = index
        /\ \A x : Touches(op[c], x) <=> Matches(op[c].q, x)
    BY <1>1, <1>3, <1>4, Zenon DEF At, HeldIndex
  <2>3. e.b \in Bundles
    BY <2>2 DEF Entries
  <2>4. Touches(op[c], e.b)
    BY <2>1, <2>2, Zenon DEF find_entry
  <2>5. /\ p \in QueryOps /\ p.kind = op[c].kind /\ p.q = op[c].q /\ p.pc = "drop"
        /\ p.seen = op[c].seen /\ p.kind # "install"
    BY <2>2 DEF QueryOps
  <2> HIDE DEF p
  <2>6. p \in Ops
    BY <2>5, Zenon DEF Ops
  <2>7. /\ op' \in [Clients -> Ops] /\ op'[c] = p /\ OthersKept(c)
        /\ dirs' \in [Bundles -> DirStates]
        /\ \A x \in Bundles : x # e.b => dirs'[x] = dirs[x]
    BY <1>1, <2>1, <2>3, <2>6, UprootMove
  <2>8. GoesOn(c)
    <3>1. Follows(op[c], p)
      BY <2>5, <2>6, Zenon DEF Follows
    <3> QED BY <2>5, <2>7, <3>1, Zenon DEF GoesOn, Installing
  <2>9. OwnChanges(c)
    BY <1>4, <2>4, <2>7, Zenon DEF OwnChanges
  <2>10. HeldIndex'
    <3>1. ASSUME NEW d \in Clients, At(d, "save")' \/ At(d, "drop")' PROVE d = c
      <4> SUFFICES ASSUME d # c PROVE FALSE
        OBVIOUS
      <4>1. At(d, "save") \/ At(d, "drop")
        BY <1>1, <2>7, <3>1, OthersTouch, Zenon DEF At, OthersKept
      <4>2. lock = {d}
        BY <1>1, <4>1, Zenon DEF HeldIndex
      <4> QED BY <2>2, <4>2
    <3> QED BY <1>4, <2>2, <2>5, <2>7, <3>1, Zenon DEF HeldIndex
  <2>11. BundleTypes'
    BY <1>1, <1>4, <2>7, Zenon DEF BundleTypes
  <2> QED BY <1>4, <2>2, <2>7, <2>8, <2>9, <2>10, <2>11, CommandStep, Zenon DEF daemon
<1>5. ASSUME /\ At(c, "drop")
             /\ save_index(c, op[c].seen \ find_entry(op[c].seen, op[c].q))
             /\ UNCHANGED <<dirs, ops, registered, daemon, installed, expected>>
      PROVE  BundleInv'
  <2> DEFINE entries == op[c].seen \ find_entry(op[c].seen, op[c].q)
  <2>1. Busy(c) /\ op[c].kind = "remove"
    BY <1>1, <1>5, Zenon DEF At, HeldIndex
  <2>2. op[c].seen \subseteq Entries /\ \A x : Touches(op[c], x) <=> Matches(op[c].q, x)
    BY <1>3, <2>1, Zenon
  <2>3. entries \in SUBSET Entries
    BY <2>2, Zenon
  <2>4. \A x \in Bundles : /\ ~Touches(op[c], x) /\ [b |-> x, enabled |-> TRUE] \in op[c].seen
                          => [b |-> x, enabled |-> TRUE] \in entries
    <3> SUFFICES ASSUME NEW x \in Bundles, ~Touches(op[c], x)
                 PROVE  ~Matches(op[c].q, [b |-> x, enabled |-> TRUE].b)
      BY Zenon DEF find_entry
    <3>1. [b |-> x, enabled |-> TRUE].b = x
      OBVIOUS
    <3> QED BY <2>2, <3>1, Zenon
  <2> HIDE DEF entries
  <2>5. /\ op[c].seen = index /\ index' = entries /\ index' \subseteq Entries
        /\ op' \in [Clients -> Ops] /\ OthersKept(c) /\ GoesOn(c) /\ HeldIndex'
    BY <1>5, <2>3, SaveMove, Zenon DEF entries
  <2>6. OwnChanges(c)
    BY <1>5, <2>4, <2>5, Zenon DEF OwnChanges
  <2>7. BundleTypes'
    BY <1>1, <1>5, <2>5, Zenon DEF BundleTypes
  <2> QED BY <1>5, <2>1, <2>5, <2>6, <2>7, CommandStep, Zenon DEF daemon
<1> QED BY <1>2, <1>4, <1>5, Zenon DEF remove

LEMMA FailStep == ASSUME BundleInv, NEW c \in Clients, Fail(c) PROVE BundleInv'
<1>1. BundleTypes /\ HeldIndex
  BY Zenon DEF BundleInv
<1>2. /\ Busy(c) /\ op' = [op EXCEPT ![c] = Idle] /\ lock' = lock \ {c}
      /\ UNCHANGED <<dirs, index, ops, registered, daemon, installed, expected>>
  BY Zenon DEF Fail
<1>3. Idle \in Ops
  BY Zenon DEF Ops
<1>4. op' \in [Clients -> Ops] /\ op'[c] = Idle /\ OthersKept(c)
  BY <1>1, <1>2, <1>3, OwnMove, Zenon
<1>5. GoesOn(c) /\ OwnChanges(c)
  BY <1>2, <1>4, Zenon DEF GoesOn, OwnChanges, Installing, Busy
<1>6. HeldIndex'
  BY <1>1, <1>2, <1>4, LetGo, Zenon
<1>7. BundleTypes'
  BY <1>1, <1>2, <1>4, Zenon DEF BundleTypes
<1> QED BY <1>2, <1>4, <1>5, <1>6, <1>7, CommandStep, Zenon DEF daemon

-----------------------------------------------------------------------------
\* The daemon changes nothing the commands keep.
LEMMA DaemonStep ==
    ASSUME BundleInv, UNCHANGED <<installs, installed>>, BootInv'
    PROVE  BundleInv'
<1>1. UNCHANGED <<dirs, index, op, lock>>
  BY Zenon DEF installs
<1>2. BundleTypes' /\ HeldIndex'
  BY <1>1, Zenon DEF BundleInv, BundleTypes, HeldIndex, At, Busy
<1>3. QuietInv' /\ InstalledInv'
  BY <1>1, Zenon DEF BundleInv, QuietInv, InstalledInv, Installing, Untouched, Busy
<1> QED BY <1>2, <1>3, Zenon DEF BundleInv

LEMMA BootStep == ASSUME BundleInv, enabled_bundle_dirs PROVE BundleInv'
<1>1. InstalledInv /\ BootInv
  BY Zenon DEF BundleInv
<1>2. /\ offered' = {e.b : e \in {x \in index : x.enabled}} /\ todo' = offered'
      /\ bundles' = {} /\ expected' = installed
      /\ UNCHANGED <<installs, registered, bound, installed>>
  BY Zenon DEF enabled_bundle_dirs
<1>3. \A b \in installed : b \in offered'
  <2> SUFFICES ASSUME NEW b \in installed PROVE b \in offered'
    OBVIOUS
  <2>1. [b |-> b, enabled |-> TRUE] \in index
    BY <1>1, Zenon DEF InstalledInv
  <2>2. [b |-> b, enabled |-> TRUE].enabled /\ [b |-> b, enabled |-> TRUE].b = b
    OBVIOUS
  <2> QED BY <1>2, <2>1, <2>2, Zenon
<1>4. BootInv'
  BY <1>2, <1>3, Zenon DEF BootInv
<1> QED BY <1>2, <1>4, DaemonStep, Zenon

LEMMA RegisterStep == ASSUME BundleInv, NEW b \in todo, register_bundle(b) PROVE BundleInv'
<1>1. BundleTypes /\ InstalledInv /\ BootInv
  BY Zenon DEF BundleInv
<1>2. /\ todo' = todo \ {b} /\ UNCHANGED <<installs, offered, bound, installed, expected>>
      /\ \/ /\ compute_bundle_digest(b) /\ bundles' = bundles \cup {b}
            /\ registered' = [r \in DOMAIN registered \cup {b} |->
                                IF r \in DOMAIN registered THEN registered[r] ELSE "Untested"]
         \/ ~compute_bundle_digest(b) /\ UNCHANGED <<bundles, registered>>
  BY Zenon DEF register_bundle
<1>3. b \in expected => compute_bundle_digest(b)
  BY <1>1, Zenon DEF BootInv, InstalledInv, compute_bundle_digest
<1>4. CASE compute_bundle_digest(b)
  <2>1. bundles' = bundles \cup {b} /\ DOMAIN registered' = DOMAIN registered \cup {b}
    BY <1>2, <1>4, Zenon
  <2>2. BootInv'
    BY <1>1, <1>2, <2>1, Zenon DEF BootInv
  <2> QED BY <1>2, <2>2, DaemonStep, Zenon
<1>5. CASE ~compute_bundle_digest(b)
  <2>1. UNCHANGED <<bundles, registered>> /\ b \notin expected
    BY <1>2, <1>3, <1>5, Zenon
  <2>2. BootInv'
    BY <1>1, <1>2, <2>1, Zenon DEF BootInv
  <2> QED BY <1>2, <2>2, DaemonStep, Zenon
<1> QED BY <1>4, <1>5, Zenon

LEMMA ReportStep ==
    ASSUME BundleInv, NEW b \in Bundles, NEW passed \in BOOLEAN, persist_report(b, passed)
    PROVE  BundleInv'
<1>1. DOMAIN registered' = DOMAIN registered
  BY DEF persist_report
<1>2. BootInv'
  BY <1>1, Zenon DEF BundleInv, BootInv, persist_report, daemon
<1> QED BY <1>2, DaemonStep, Zenon DEF persist_report

LEMMA BindStep == ASSUME BundleInv, NEW p \in Profiles, BindRun(p) PROVE BundleInv'
<1>1. BootInv'
  BY Zenon DEF BundleInv, BootInv, BindRun
<1> QED BY <1>1, DaemonStep, Zenon DEF BindRun

\* The adapters of a plan are among the candidates and have not failed.
LEMMA PlanCandidates ==
    ASSUME NEW p
    PROVE  \A b \in plan_environment(p) : b \in Candidates /\ registered[b] # "Failed"
<1>1. \A req : \A b \in resolve(req, Candidates) : b \in Candidates /\ registered[b] # "Failed"
  BY Zenon DEF resolve, Eligible
<1> QED BY <1>1, Zenon DEF plan_environment

LEMMA BundlesStep ==
    ASSUME BundleInv, [BundlesNext]_bundleVars
    PROVE  BundleInv' /\ BindsCurrent
<1>1. ASSUME NEW c \in Clients,
             \/ \E b \in Bundles, check \in BOOLEAN : install(c, b, check)
             \/ copy_dir(c) \/ check_bundle(c) \/ with_index_lock(c) \/ record_entry(c)
             \/ \E enabled \in BOOLEAN : set_enabled(c, enabled)
             \/ remove(c) \/ Fail(c)
      PROVE  BundleInv' /\ bound' = bound
  <2>1. BundleInv'
    BY <1>1, InstallStep, CopyDirStep, CheckStep, LockStep, RecordEntryStep, EnableStep, RemoveStep,
       FailStep, Zenon
  <2>2. UNCHANGED daemon
    BY <1>1, Zenon DEF install, copy_dir, check_bundle, with_index_lock, record_entry, set_enabled,
                       remove, Fail
  <2> QED BY <2>1, <2>2, Zenon DEF daemon
<1>2. CASE enabled_bundle_dirs
  BY <1>2, BootStep, Zenon DEF BindsCurrent, enabled_bundle_dirs
<1>3. ASSUME NEW b \in todo, register_bundle(b) PROVE BundleInv' /\ bound' = bound
  BY <1>3, RegisterStep, Zenon DEF register_bundle
<1>4. ASSUME NEW b \in Bundles, NEW passed \in BOOLEAN, persist_report(b, passed)
      PROVE  BundleInv' /\ bound' = bound
  BY <1>4, ReportStep, Zenon DEF persist_report, daemon
<1>5. ASSUME NEW p \in Profiles, BindRun(p) PROVE BundleInv' /\ BindsCurrent
  <2>1. bundles \subseteq offered
    BY Zenon DEF BundleInv, BootInv
  <2>2. \A b \in bound' : b \in offered /\ registered[b] # "Failed"
    BY <1>5, <2>1, PlanCandidates, Zenon DEF BindRun, Candidates
  <2> QED BY <1>5, <2>2, BindStep, Zenon DEF BindsCurrent
<1>6. CASE UNCHANGED bundleVars
  <2>1. UNCHANGED <<installs, installed, expected, registered, todo, bundles, offered, bound>>
    BY <1>6, Zenon DEF bundleVars, daemon
  <2>2. BootInv'
    BY <2>1, Zenon DEF BundleInv, BootInv
  <2> QED BY <2>1, <2>2, DaemonStep, Zenon DEF BindsCurrent
<1> QED BY <1>1, <1>2, <1>3, <1>4, <1>5, <1>6, Zenon DEF BundlesNext, BindsCurrent

LEMMA InvLoads == BundleInv => Loads
BY Zenon DEF BundleInv, InstalledInv, BootInv, Loads, verify_for_spawn, compute_bundle_digest

\* For any commands and any bundles, what was installed and left alone is whole
\* and enabled, wherever other commands are killed, and loads at the next boot;
\* and a run is bound only to adapters enabled then that have not failed.
THEOREM InstallsLoad == BundlesSpec => InstalledLoads
<1>1. BundleInv /\ [BundlesNext]_bundleVars => BundleInv' /\ Loads' /\ BindsCurrent
  <2>1. BundleInv' => Loads'
    BY InvLoads, PTL
  <2> QED BY <2>1, BundlesStep, Zenon
<1> QED BY BundleInvInit, <1>1, PTL DEF BundlesSpec, InstalledLoads
=============================================================================
