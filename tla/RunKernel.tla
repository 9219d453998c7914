----------------------------- MODULE RunKernel -----------------------------
(***************************************************************************)
(* Agent runs under one daemon: the run worker (agentd/src/workers/runs.rs *)
(* and loops.rs) ticking over the active runs, the runtime commands that   *)
(* move a run (create, bind, claim, cancel, loop turn, loop decision,      *)
(* resolve), the timer worker, approvals, and startup recovery.            *)
(*                                                                         *)
(* Every transaction is one step.  The worker steps runs one at a time     *)
(* from the rows its tick listed, so a row may have moved on by the time   *)
(* it is used; each loop or effect call is a separate step from the        *)
(* transactions around it.  Effects are abstracted to their lifecycle      *)
(* (module EffectWorker has the detail); effect, timer and approval        *)
(* request number s of a run belong to the decision of its turn s.         *)
(*                                                                         *)
(* Run dependencies are left out: no daemon command inserts one (module    *)
(* RunGraph has them, and the claims that wait for them).                  *)
(***************************************************************************)
EXTENDS Naturals, Sequences, FiniteSets, RecoveryMatrix

CONSTANTS
    Runs,        \* run ids
    NoRun,       \* not a run id
    Parent,      \* parent_run_id each run is created with, or NoRun
    SameTask,    \* child runs created on their parent's task
    ClientRuns,  \* runs that a client creates; loops spawn the others
    Decisions,   \* decisions loops make
    Contract,    \* contract of the effects
    MaxStep,     \* bound: loop turns of a run
    MaxEpoch,    \* bound: daemon boots
    MaxCancel,   \* bound: cancellations naming a run
    MaxFaults    \* bound: failed loop calls, follow-ups and effect calls

ASSUME KernelAssumption ==
    /\ NoRun \notin Runs
    /\ Parent \in [Runs -> Runs \cup {NoRun}]
    /\ SameTask \subseteq Runs
    /\ ClientRuns \subseteq Runs
    /\ Decisions \subseteq {"Complete", "Fail", "Wait", "SpawnAgent",
                            "InvokeEffect", "RequestApproval"}
    /\ Contract \in EffectContract
    /\ {MaxStep, MaxEpoch, MaxCancel, MaxFaults} \subseteq Nat

Steps == 1..MaxStep

VARIABLES
    epoch,   \* daemon_fence.epoch
    run,     \* the runs table
    turn,    \* loop_turns of each run, by step_sequence
    eff,     \* effects.state, by run and step
    timer,   \* timers scheduled by Wait decisions, by run and step
    appr,    \* approval requests, by run and step
    obs,     \* parent epoch a client observed for the child it will create
    pc,      \* the daemon and its run worker
    snap,    \* the rows the current tick listed
    todo,    \* of those, the runs not stepped yet
    cur,     \* the run being driven
    ins,     \* the instruction of the decision just accepted
    work,    \* in-flight effects of cur left to step
    call,    \* the effect being executed, 0 if none
    sched,   \* the timer worker's claimed timer
    faults   \* faults left

store == <<run, turn, eff, timer, appr>>
worker == <<pc, snap, todo, cur, ins, work, call>>
vars == <<epoch, store, obs, worker, sched, faults>>

Row == [state : RunState \cup {"Absent"}, rev : Nat, cepoch : 0..MaxCancel,
        rec : RecoveryDisposition, claim : 0..MaxEpoch]
NoRow == [state |-> "Absent", rev |-> 0, cepoch |-> 0, rec |-> "Normal",
          claim |-> 0]
NewRow == [NoRow EXCEPT !.state = "Created"]

Turn == [st : {"issued", "accepted", "stale"}, rev : Nat, epoch : 1..MaxEpoch]
Timer == [st : {"none", "Scheduled", "Claimed", "Fired", "Cancelled"},
          epoch : 0..MaxEpoch, sent : BOOLEAN]
NoTimer == [st |-> "none", epoch |-> 0, sent |-> FALSE]
Approval == [resp : {"none", "pending", "approve", "deny"}, expired : BOOLEAN]
NoApproval == [resp |-> "none", expired |-> FALSE]
NoSched == [run |-> NoRun, step |-> 0]

TypeOK ==
    /\ epoch \in 0..MaxEpoch
    /\ run \in [Runs -> Row]
    /\ turn \in [Runs -> Seq(Turn)]
    /\ eff \in [Runs -> [Steps -> EffectState \cup {"Absent"}]]
    /\ timer \in [Runs -> [Steps -> Timer]]
    /\ appr \in [Runs -> [Steps -> Approval]]
    /\ obs \in [Runs -> 0..(MaxCancel + 1)]
    /\ pc \in {"down", "boot", "idle", "drive", "call", "follow", "effects"}
    /\ snap \in [Runs -> Row]
    /\ todo \subseteq Runs
    /\ cur \in Runs \cup {NoRun}
    /\ ins \in Decisions \cup {"none"}
    /\ work \subseteq Steps
    /\ call \in 0..MaxStep
    /\ sched \in [run : Runs \cup {NoRun}, step : 0..MaxStep]
    /\ faults \in 0..MaxFaults
    /\ pc \in {"drive", "call", "follow", "effects"} => cur \in todo

Init ==
    /\ epoch = 0
    /\ run = [r \in Runs |-> NoRow]
    /\ turn = [r \in Runs |-> <<>>]
    /\ eff = [r \in Runs |-> [s \in Steps |-> "Absent"]]
    /\ timer = [r \in Runs |-> [s \in Steps |-> NoTimer]]
    /\ appr = [r \in Runs |-> [s \in Steps |-> NoApproval]]
    /\ obs = [r \in Runs |-> 0]
    /\ pc = "down"
    /\ snap = run
    /\ todo = {}
    /\ cur = NoRun
    /\ ins = "none"
    /\ work = {}
    /\ call = 0
    /\ sched = NoSched
    /\ faults = MaxFaults

-----------------------------------------------------------------------------
(* The store.                                                              *)

Serving == pc \notin {"down", "boot"}

Active == {r \in Runs : run[r].state # "Absent" /\ ~IsTerminal(run[r].state)}

\* list_children.
Children(r) == {c \in Runs : Parent[c] = r /\ run[c].state # "Absent"}

\* repository.rs descendants: what every set closed under children contains.
Descendants(r) ==
    {c \in Runs : \A S \in SUBSET Runs :
        Children(r) \cup UNION {Children(d) : d \in S} \subseteq S => c \in S}

InFlight(r) == {s \in Steps : IsInFlight(eff[r][s])}

\* RunRepo::cas_update with bump_revision.
Moved(row, s) == [row EXCEPT !.state = s, !.rev = @ + 1]
SetRow(r, row) == run' = [run EXCEPT ![r] = row]

\* The worker is through with a run of its tick.
Done(r) ==
    /\ todo' = todo \ {r}
    /\ snap' = [snap EXCEPT ![r] = NoRow]
    /\ pc' = "idle"
    /\ cur' = NoRun
    /\ ins' = "none"
    /\ work' = {}
    /\ call' = 0

-----------------------------------------------------------------------------
(* Clients.                                                                *)

\* CreateTaskRun without a parent.
CreateRun(r) ==
    /\ Serving
    /\ r \in ClientRuns /\ Parent[r] = NoRun
    /\ run[r].state = "Absent"
    /\ SetRow(r, NewRow)
    /\ UNCHANGED <<epoch, turn, eff, timer, appr, obs, worker, sched, faults>>

\* A client that will create a child reads its parent's cancellation epoch.
ObserveParent(c) ==
    /\ Serving
    /\ c \in ClientRuns /\ Parent[c] \in Runs
    /\ run[Parent[c]].state # "Absent"
    /\ run[c].state = "Absent" /\ obs[c] = 0
    /\ obs' = [obs EXCEPT ![c] = run[Parent[c]].cepoch + 1]
    /\ UNCHANGED <<epoch, store, worker, sched, faults>>

\* Mutant: the epoch is not compared.
EpochMatches_Any(p, observed) == run[p].cepoch \in Nat

\* create_task_run with a parent: only the parent's cancellation epoch is
\* compared with the observed one.
EpochMatches(p, observed) == run[p].cepoch = observed

CreateChild(c) ==
    /\ Serving
    /\ run[c].state = "Absent" /\ obs[c] # 0
    /\ EpochMatches(Parent[c], obs[c] - 1)
    /\ SetRow(c, NewRow)
    /\ UNCHANGED <<epoch, turn, eff, timer, appr, obs, worker, sched, faults>>

\* cancel_subtree and cancel: the named run's epoch advances, and it and
\* every descendant that can still be cancelled move to their target.
CancelledRow(row) ==
    IF CancellationTarget(row.state) = "None" THEN row
    ELSE Moved(row, CancellationTarget(row.state))

CancelRun(r) ==
    /\ Serving
    /\ run[r].state # "Absent"
    /\ run[r].cepoch < MaxCancel
    /\ LET advanced == [run[r] EXCEPT !.cepoch = @ + 1, !.rev = @ + 1]
       IN run' = [x \in Runs |->
                    IF x = r THEN CancelledRow(advanced)
                    ELSE IF x \in Descendants(r) THEN CancelledRow(run[x])
                    ELSE run[x]]
    /\ UNCHANGED <<epoch, turn, eff, timer, appr, obs, worker, sched, faults>>

\* approvals respond; the request's expiry.
Respond(r, s, decision) ==
    /\ Serving
    /\ appr[r][s] = [resp |-> "pending", expired |-> FALSE]
    /\ appr' = [appr EXCEPT ![r][s].resp = decision]
    /\ UNCHANGED <<epoch, run, turn, eff, timer, obs, worker, sched, faults>>

\* (Only the expiry of an active run's latest request is ever read.)
ApprovalExpires(r, s) ==
    /\ r \in Active
    /\ appr[r][s].resp # "none" /\ ~appr[r][s].expired
    /\ \A t \in Steps : t > s => appr[r][t].resp = "none"
    /\ appr' = [appr EXCEPT ![r][s].expired = TRUE]
    /\ UNCHANGED <<epoch, run, turn, eff, timer, obs, worker, sched, faults>>

\* scheduler cancel.
CancelTimer(r, s) ==
    /\ Serving
    /\ timer[r][s].st = "Scheduled"
    /\ timer' = [timer EXCEPT ![r][s].st = "Cancelled"]
    /\ UNCHANGED <<epoch, run, turn, eff, appr, obs, worker, sched, faults>>

-----------------------------------------------------------------------------
(* Recovery: classify, reconstruct, ResolveUnknownEffect.                  *)

LatestApproval(r) ==
    LET asked == {s \in Steps : appr[r][s].resp # "none"}
    IN IF asked = {} THEN NoApproval
       ELSE appr[r][CHOOSE s \in asked : \A t \in asked : t <= s]

\* waiting_child_advanced; it looks for the children on the parent's task.
WaitingChildAdvanced(r) ==
    \A c \in Children(r) \cap SameTask : IsTerminal(run[c].state)

StaleTimer(r, e) ==
    \E s \in Steps : timer[r][s].st = "Claimed" /\ timer[r][s].epoch # e

\* classify; frozen environments never change, so Matrix D has nothing to do.
Classify(r, effects, e) ==
    LET s == run[r].state
        class == Aggregate({ClassOf(effects[t], Contract) : t \in Steps})
        d == IF s = "WaitingChild" /\ class = "None"
             THEN IF WaitingChildAdvanced(r) THEN "Recovering" ELSE "Normal"
             ELSE IF s = "WaitingHuman" /\ class = "None"
                     /\ LatestApproval(r).expired
             THEN "RequiresHumanDecision"
             ELSE Matrix(s, class)
    IN IF d = "Normal" /\ StaleTimer(r, e) THEN "Recovering" ELSE d

WithDisposition(row, d) ==
    IF row.rec = d THEN row ELSE [row EXCEPT !.rec = d, !.rev = @ + 1]

Boot ==
    /\ pc = "down"
    /\ epoch < MaxEpoch
    /\ epoch' = epoch + 1
    /\ pc' = "boot"
    /\ UNCHANGED <<store, obs, snap, todo, cur, ins, work, call, sched, faults>>

\* reconstruct: one unmapped run and the daemon exits.
Recover ==
    /\ pc = "boot"
    /\ LET d == [r \in Active |-> Classify(r, eff[r], epoch)]
           marked(r, s) == /\ r \in Active
                           /\ d[r] = "BlockedUnknownEffect" /\ run[r].rec # d[r]
                           /\ eff[r][s] = "Dispatched"
                           /\ DispatchedIsUnsafe(Contract)
       IN IF \E r \in Active : d[r] = "Unmapped"
          THEN pc' = "down" /\ UNCHANGED <<run, eff>>
          ELSE /\ pc' = "idle"
               /\ run' = [r \in Runs |-> IF r \in Active
                                         THEN WithDisposition(run[r], d[r])
                                         ELSE run[r]]
               /\ eff' = [r \in Runs |-> [s \in Steps |->
                            IF marked(r, s) THEN "Unknown" ELSE eff[r][s]]]
    /\ UNCHANGED <<epoch, turn, timer, appr, obs, snap, todo, cur, ins, work,
                   call, sched, faults>>

\* The process dies; the last boot stays up.
Crash ==
    /\ pc # "down"
    /\ epoch < MaxEpoch
    /\ pc' = "down"
    /\ snap' = [r \in Runs |-> NoRow]
    /\ todo' = {} /\ cur' = NoRun /\ ins' = "none" /\ work' = {} /\ call' = 0
    /\ sched' = NoSched
    /\ UNCHANGED <<epoch, store, obs, faults>>

\* ResolveUnknownEffect: mark_succeeded or mark_failed (the third action asks
\* for an approval no request ever reaches).
ResolveUnknown(r, s, to) ==
    /\ Serving
    /\ eff[r][s] = "Unknown"
    /\ eff' = [eff EXCEPT ![r][s] = to]
    /\ LET d == Classify(r, eff'[r], epoch)
       IN IF r \in Active
          THEN d # "Unmapped" /\ SetRow(r, WithDisposition(run[r], d))
          ELSE UNCHANGED run
    /\ UNCHANGED <<epoch, turn, timer, appr, obs, worker, sched, faults>>

-----------------------------------------------------------------------------
(* The run worker: one tick lists the active runs, then steps each.        *)

Tick ==
    /\ pc = "idle" /\ todo = {} /\ Active # {}
    /\ todo' = Active
    /\ snap' = [r \in Runs |-> IF r \in Active THEN run[r] ELSE NoRow]
    /\ UNCHANGED <<epoch, store, obs, pc, cur, ins, work, call, sched, faults>>

Stepping(r, s) == pc = "idle" /\ r \in todo /\ snap[r].state = s
ClaimOurs(r) == snap[r].claim = epoch

\* The row is still the one the tick listed (CAS on revision and state).
Unmoved(r) == run[r].rev = snap[r].rev /\ run[r].state = snap[r].state

\* BindRun from the listed revision.
Bind(r) ==
    /\ Stepping(r, "Created")
    /\ IF Unmoved(r) THEN SetRow(r, Moved(run[r], "Ready")) ELSE UNCHANGED run
    /\ Done(r)
    /\ UNCHANGED <<epoch, turn, eff, timer, appr, obs, sched, faults>>

\* ClaimReadyRun: claim_with_ids.
Claim(r) ==
    /\ Stepping(r, "Ready")
    /\ IF run[r].state = "Ready" /\ run[r].rec = "Normal"
       THEN SetRow(r, [Moved(run[r], "Running") EXCEPT !.claim = epoch])
       ELSE UNCHANGED run
    /\ Done(r)
    /\ UNCHANGED <<epoch, turn, eff, timer, appr, obs, sched, faults>>

\* Mutant: the claim of the dead instance stays.
Reclaim_KeepsClaim(r) ==
    /\ Stepping(r, "Running")
    /\ snap[r].rec = "Recovering"
    /\ IF Unmoved(r)
       THEN SetRow(r, [Moved(run[r], "Running") EXCEPT !.rec = "Normal"])
       ELSE UNCHANGED run
    /\ Done(r)
    /\ UNCHANGED <<epoch, turn, eff, timer, appr, obs, sched, faults>>

\* reclaim: loop_epoch, which only goes into later turns, is left out.
Reclaim(r) ==
    /\ Stepping(r, "Running")
    /\ snap[r].rec = "Recovering"
    /\ IF Unmoved(r)
       THEN SetRow(r, [Moved(run[r], "Running") EXCEPT !.claim = epoch,
                                                       !.rec = "Normal"])
       ELSE UNCHANGED run
    /\ Done(r)
    /\ UNCHANGED <<epoch, turn, eff, timer, appr, obs, sched, faults>>

Waiting == {"WaitingTool", "WaitingChild", "WaitingHuman"}

\* Mutant: runs that wait for a human are left to their dead claim.
Restake_NotHuman(r) ==
    /\ \E s \in Waiting \ {"WaitingHuman"} : Stepping(r, s)
    /\ ~ClaimOurs(r)
    /\ IF Unmoved(r)
       THEN SetRow(r, [Moved(run[r], run[r].state) EXCEPT !.claim = epoch])
       ELSE UNCHANGED run
    /\ Done(r)
    /\ UNCHANGED <<epoch, turn, eff, timer, appr, obs, sched, faults>>

\* restake_claim.
Restake(r) ==
    /\ \E s \in Waiting : Stepping(r, s)
    /\ ~ClaimOurs(r)
    /\ IF Unmoved(r)
       THEN SetRow(r, [Moved(run[r], run[r].state) EXCEPT !.claim = epoch])
       ELSE UNCHANGED run
    /\ Done(r)
    /\ UNCHANGED <<epoch, turn, eff, timer, appr, obs, sched, faults>>

\* step_waiting_human, once the latest request has a response.
StepHuman(r) ==
    /\ Stepping(r, "WaitingHuman")
    /\ ClaimOurs(r)
    /\ LatestApproval(r).resp \in {"approve", "deny"}
    /\ IF Unmoved(r)
       THEN SetRow(r, Moved(run[r], IF LatestApproval(r).resp = "approve"
                                    THEN "Running" ELSE "Failed"))
       ELSE UNCHANGED run
    /\ Done(r)
    /\ UNCHANGED <<epoch, turn, eff, timer, appr, obs, sched, faults>>

\* Mutant: only the instance that claimed the run finalizes it.
FinalizeCancel_OnlyOurs(r) ==
    /\ Stepping(r, "Cancelling")
    /\ IF run[r].state = "Cancelling" /\ ClaimOurs(r)
       THEN SetRow(r, Moved(run[r], "Cancelled"))
       ELSE UNCHANGED run
    /\ Done(r)
    /\ UNCHANGED <<epoch, turn, eff, timer, appr, obs, sched, faults>>

\* finalize_cancel: RunCancelComplete, which ignores the in-flight effects.
FinalizeCancel(r) ==
    /\ Stepping(r, "Cancelling")
    /\ IF run[r].state = "Cancelling"
       THEN SetRow(r, Moved(run[r], "Cancelled"))
       ELSE UNCHANGED run
    /\ Done(r)
    /\ UNCHANGED <<epoch, turn, eff, timer, appr, obs, sched, faults>>

ChildrenTerminal(r) ==
    /\ Children(r) # {}
    /\ \A c \in Children(r) : IsTerminal(run[c].state)

HasUnknown(r) == \E s \in Steps : eff[r][s] = "Unknown"

\* step_waiting_tool with nothing in flight: any effect at all, or a fired
\* timer, is reason to go on.
ToolWaitOver(r) ==
    /\ InFlight(r) = {}
    /\ \/ \E s \in Steps : eff[r][s] # "Absent"
       \/ \E s \in Steps : timer[r][s].st = "Fired"

\* Mutant: a parent's children are looked up on its own task.
Drivable_SameTask(r) ==
    /\ ClaimOurs(r)
    /\ \/ snap[r].state = "Running" /\ snap[r].rec # "Recovering"
       \/ /\ snap[r].state = "WaitingChild"
          /\ Children(r) \cap SameTask # {}
          /\ \A c \in Children(r) \cap SameTask : IsTerminal(run[c].state)
       \/ snap[r].state = "WaitingTool" /\ ToolWaitOver(r)

\* The cases in which step reaches drive and drive goes on.
Drivable(r) ==
    /\ ClaimOurs(r)
    /\ \/ snap[r].state = "Running" /\ snap[r].rec # "Recovering"
       \/ snap[r].state = "WaitingChild" /\ ChildrenTerminal(r)
       \/ snap[r].state = "WaitingTool" /\ ToolWaitOver(r)

\* Mutant: the worker goes on with whatever run it drove before.
StartDrive_KeepsRun(r) ==
    /\ pc = "idle" /\ r \in todo
    /\ Drivable(r)
    /\ Len(turn[r]) < MaxStep
    /\ pc' = "drive"
    /\ UNCHANGED <<epoch, store, obs, snap, todo, cur, ins, work, call, sched,
                   faults>>

\* The loop is up and its input read; loops of bounded length.
StartDrive(r) ==
    /\ pc = "idle" /\ r \in todo
    /\ Drivable(r)
    /\ Len(turn[r]) < MaxStep
    /\ pc' = "drive"
    /\ cur' = r
    /\ UNCHANGED <<epoch, store, obs, snap, todo, ins, work, call, sched,
                   faults>>

\* step_waiting_tool with effects to step.
StartEffects(r) ==
    /\ Stepping(r, "WaitingTool")
    /\ ClaimOurs(r) /\ ~HasUnknown(r) /\ InFlight(r) # {}
    /\ pc' = "effects"
    /\ cur' = r
    /\ work' = InFlight(r)
    /\ UNCHANGED <<epoch, store, obs, snap, todo, ins, call, sched, faults>>

\* The cases in which step does nothing.
Skip(r) ==
    /\ pc = "idle" /\ r \in todo
    /\ CASE snap[r].state = "Running" ->
                /\ snap[r].rec # "Recovering"
                /\ ~ClaimOurs(r) \/ Len(turn[r]) = MaxStep
         [] snap[r].state = "WaitingChild" ->
                ClaimOurs(r) /\ (~ChildrenTerminal(r) \/ Len(turn[r]) = MaxStep)
         [] snap[r].state = "WaitingHuman" ->
                ClaimOurs(r) /\ LatestApproval(r).resp \in {"none", "pending"}
         [] snap[r].state = "WaitingTool" ->
                /\ ClaimOurs(r)
                /\ \/ HasUnknown(r)
                   \/ /\ InFlight(r) = {}
                      /\ ~ToolWaitOver(r) \/ Len(turn[r]) = MaxStep
         [] OTHER -> FALSE
    /\ Done(r)
    /\ UNCHANGED <<epoch, store, obs, sched, faults>>

-----------------------------------------------------------------------------
(* A driven run: loop turn, decision, follow-up.                           *)

\* issue_turn: the states it refuses.
TurnEligible(s) ==
    ~IsTerminal(s) /\ s \notin {"Cancelling", "Suspended", "WaitingHuman"}

IssueTurn ==
    /\ pc = "drive"
    /\ IF TurnEligible(run[cur].state)
       THEN /\ SetRow(cur, Moved(run[cur], "Running"))
            /\ turn' = [turn EXCEPT ![cur] =
                          Append(@, [st |-> "issued", rev |-> run[cur].rev + 1,
                                     epoch |-> epoch])]
            /\ pc' = "call"
            /\ UNCHANGED <<snap, todo, cur, ins, work, call>>
       ELSE Done(cur) /\ UNCHANGED <<run, turn>>
    /\ UNCHANGED <<epoch, eff, timer, appr, obs, sched, faults>>

\* The loop could not be started (drive), or its call failed, or its decision
\* did not match the turn (loops.rs drive_turn).  accept_decision marks the
\* turn of a mismatched decision stale, but drive_turn then drops the
\* transaction with the error: the turn stays issued.
TurnFails ==
    /\ pc \in {"drive", "call"}
    /\ faults > 0
    /\ faults' = faults - 1
    /\ Done(cur)
    /\ UNCHANGED <<epoch, store, obs, sched>>

NextState(d) ==
    CASE d = "Complete" -> "Completed"
      [] d = "Fail" -> "Failed"
      [] d \in {"Wait", "InvokeEffect"} -> "WaitingTool"
      [] d = "SpawnAgent" -> "WaitingChild"
      [] d = "RequestApproval" -> "WaitingHuman"

Spawnable(r) == {c \in Runs \ ClientRuns : Parent[c] = r
                                           /\ run[c].state = "Absent"}

\* Mutant: the decision is applied whatever the row's revision.
AcceptDecision_NoRevision(d) ==
    /\ pc = "call"
    /\ d = "SpawnAgent" => Spawnable(cur) # {}
    /\ LET s == Len(turn[cur])
       IN /\ SetRow(cur, Moved(run[cur], NextState(d)))
          /\ turn' = [turn EXCEPT ![cur][s].st = "accepted"]
          /\ eff' = IF d = "InvokeEffect"
                    THEN [eff EXCEPT ![cur][s] = "Prepared"] ELSE eff
          /\ pc' = "follow" /\ ins' = d
          /\ UNCHANGED <<snap, todo, cur, work, call>>
    /\ UNCHANGED <<epoch, timer, appr, obs, sched, faults>>

\* accept_decision: the run must still have the revision the turn was issued
\* at; an InvokeEffect prepares its effect in the same transaction.  (A loop
\* of a bounded model spawns only children that are left.)
AcceptDecision(d) ==
    /\ pc = "call"
    /\ d = "SpawnAgent" => Spawnable(cur) # {}
    /\ LET s == Len(turn[cur])
       IN IF run[cur].rev = turn[cur][s].rev
          THEN /\ SetRow(cur, Moved(run[cur], NextState(d)))
               /\ turn' = [turn EXCEPT ![cur][s].st = "accepted"]
               /\ eff' = IF d = "InvokeEffect"
                         THEN [eff EXCEPT ![cur][s] = "Prepared"] ELSE eff
               /\ pc' = "follow" /\ ins' = d
               /\ UNCHANGED <<snap, todo, cur, work, call>>
          ELSE Done(cur) /\ UNCHANGED <<run, turn, eff>>
    /\ UNCHANGED <<epoch, timer, appr, obs, sched, faults>>

\* follow_up, a command of its own for each of the other instructions.  A
\* spawned child carries the epoch its loop put in the request, always 0.
FollowUp ==
    /\ pc = "follow"
    /\ LET s == Len(turn[cur])
       IN CASE ins = "SpawnAgent" ->
                  /\ IF EpochMatches(cur, 0)
                     THEN \E c \in Spawnable(cur) : SetRow(c, NewRow)
                     ELSE UNCHANGED run
                  /\ UNCHANGED <<timer, appr>>
            [] ins = "Wait" ->
                  /\ timer' = [timer EXCEPT ![cur][s].st = "Scheduled"]
                  /\ UNCHANGED <<run, appr>>
            [] ins = "RequestApproval" ->
                  /\ appr' = [appr EXCEPT ![cur][s].resp = "pending"]
                  /\ UNCHANGED <<run, timer>>
            [] OTHER -> UNCHANGED <<run, timer, appr>>
    /\ Done(cur)
    /\ UNCHANGED <<epoch, turn, eff, obs, sched, faults>>

\* The command is rejected (a malformed or refused draft): it is not retried.
FollowUpFails ==
    /\ pc = "follow"
    /\ ins \in {"SpawnAgent", "Wait", "RequestApproval"}
    /\ faults > 0
    /\ faults' = faults - 1
    /\ Done(cur)
    /\ UNCHANGED <<epoch, store, obs, sched>>

-----------------------------------------------------------------------------
(* The effects of a WaitingTool run, as their lifecycle.                   *)

\* dispatch_effect, first transaction.
Dispatch(s) ==
    /\ pc = "effects" /\ call = 0
    /\ s \in work
    /\ eff[cur][s] = "Prepared"
    /\ eff' = [eff EXCEPT ![cur][s] = "Dispatched"]
    /\ call' = s
    /\ UNCHANGED <<epoch, run, turn, timer, appr, obs, pc, snap, todo, cur, ins,
                   work, sched, faults>>

NextEffect(s) ==
    /\ work' = work \ {s}
    /\ call' = 0
    /\ UNCHANGED <<pc, snap, todo, cur, ins>>

\* dispatch_effect, second transaction; a lost answer leaves the row.
Answer(to) ==
    /\ pc = "effects" /\ call # 0
    /\ to \in {"Committed", "Failed"} \/ (to = "Dispatched" /\ faults > 0)
    /\ faults' = IF to = "Dispatched" THEN faults - 1 ELSE faults
    /\ eff' = [eff EXCEPT ![cur][call] = to]
    /\ NextEffect(call)
    /\ UNCHANGED <<epoch, run, turn, timer, appr, obs, sched>>

\* maybe_reconcile_effect: what the status call may lead to.
Reconcile(s, to) ==
    /\ pc = "effects" /\ call = 0
    /\ s \in work
    /\ eff[cur][s] = "Dispatched"
    /\ to = "Prepared" => IsSafelyRedispatchable(Contract)
    /\ eff' = [eff EXCEPT ![cur][s] = to]
    /\ NextEffect(s)
    /\ UNCHANGED <<epoch, run, turn, timer, appr, obs, sched, faults>>

EffectsDone ==
    /\ pc = "effects" /\ call = 0 /\ work = {}
    /\ Done(cur)
    /\ UNCHANGED <<epoch, store, obs, sched, faults>>

-----------------------------------------------------------------------------
(* The timer worker: claim_next_due, then fire.                            *)

\* A scheduled timer, or one a dead instance had claimed.
ClaimTimer(r, s) ==
    /\ Serving /\ sched = NoSched
    /\ \/ timer[r][s].st = "Scheduled"
       \/ timer[r][s].st = "Claimed" /\ timer[r][s].epoch < epoch
    /\ timer' = [timer EXCEPT ![r][s] = [@ EXCEPT !.st = "Claimed",
                                                  !.epoch = epoch]]
    /\ sched' = [run |-> r, step |-> s]
    /\ UNCHANGED <<epoch, run, turn, eff, appr, obs, worker, faults>>

\* fire submits RunWaitExpired under the timer's own idempotency key, so that
\* a timer reclaimed after a crash does not end another wait.
WaitExpired ==
    /\ sched # NoSched
    /\ LET r == sched.run
           s == sched.step
       IN /\ ~timer[r][s].sent
          /\ timer' = [timer EXCEPT ![r][s].sent = TRUE]
          /\ IF run[r].state = "WaitingTool"
             THEN SetRow(r, Moved(run[r], "Running"))
             ELSE UNCHANGED run
    /\ UNCHANGED <<epoch, turn, eff, appr, obs, worker, sched, faults>>

MarkFired ==
    /\ sched # NoSched
    /\ timer[sched.run][sched.step].sent
    /\ timer' = [timer EXCEPT ![sched.run][sched.step].st = "Fired"]
    /\ sched' = NoSched
    /\ UNCHANGED <<epoch, run, turn, eff, appr, obs, worker, faults>>

-----------------------------------------------------------------------------
WorkerStep ==
    \/ Tick \/ IssueTurn \/ FollowUp \/ EffectsDone
    \/ \E d \in Decisions : AcceptDecision(d)
    \/ \E r \in Runs :
          \/ Bind(r) \/ Claim(r) \/ Reclaim(r) \/ Restake(r) \/ StepHuman(r)
          \/ FinalizeCancel(r) \/ StartDrive(r) \/ StartEffects(r) \/ Skip(r)
    \/ \E s \in Steps :
          \/ Dispatch(s)
          \/ \E to \in {"Committed", "Failed", "Prepared", "Unknown"} :
                Reconcile(s, to)
    \/ \E to \in {"Committed", "Failed", "Dispatched"} : Answer(to)

TimerStep ==
    \/ WaitExpired \/ MarkFired
    \/ \E r \in Runs, s \in Steps : ClaimTimer(r, s)

Next ==
    \/ Boot \/ Recover \/ Crash
    \/ WorkerStep \/ TurnFails \/ FollowUpFails
    \/ TimerStep
    \/ \E r \in Runs :
          \/ CreateRun(r) \/ ObserveParent(r) \/ CreateChild(r) \/ CancelRun(r)
          \/ \E s \in Steps :
                \/ ApprovalExpires(r, s) \/ CancelTimer(r, s)
                \/ \E d \in {"approve", "deny"} : Respond(r, s, d)
                \/ \E to \in {"Committed", "Failed"} : ResolveUnknown(r, s, to)

Spec == Init /\ [][Next]_vars

\* The daemon is restarted when it is down, recovers, and its worker ticks on.
FairSpec == Spec /\ WF_vars(Boot) /\ WF_vars(Recover) /\ WF_vars(WorkerStep)

-----------------------------------------------------------------------------
(* Properties.                                                             *)

LegalStep ==
    \A r \in Runs :
        /\ run'[r].state # run[r].state =>
              \/ run[r].state = "Absent" /\ run'[r].state = "Created"
              \/ Allows(run[r].state, run'[r].state)
        /\ run[r].state # "Absent" /\ run'[r] # run[r] => run'[r].rev > run[r].rev

FencedDecision ==
    \A r \in Runs : \A s \in 1..Len(turn[r]) :
        turn[r][s].st = "issued" /\ turn'[r][s].st = "accepted" =>
            /\ s = Len(turn[r])
            /\ run[r].state = "Running"
            /\ turn[r][s].epoch = epoch

\* The decision and the preparation of its effect are one transaction.
EffectsDecided ==
    \A r \in Runs, s \in Steps :
        eff[r][s] # "Absent" => s <= Len(turn[r]) /\ turn[r][s].st = "accepted"

\* state.rs calls its table the only authority for run state changes, yet the
\* worker, the decision path and the timer handler write states by CAS without
\* asking it: whatever the interleaving, every change they make is one the
\* table allows, none leaves a terminal state, and each advances the revision
\* that stale ticks and late decisions are compared with.
RunStepsLegal == [][LegalStep]_vars

\* A decision is accepted only for the newest turn of a run that is still
\* Running as that turn left it, under the instance that issued the turn: not
\* after a cancellation, a recovery or a resolution came in between; and an
\* effect exists exactly when the turn it belongs to was accepted.
DecisionsFenced == [][FencedDecision]_vars /\ []EffectsDecided

\* The cancellation epoch is a spawn fence: a run that a cancellation named has
\* no live child, except one whose creator observed the new epoch.  A spawn
\* decided, or a parent observed, before the cancellation loses the race.
SpawnFenced ==
    \A r \in Runs : run[r].cepoch > 0 =>
        \A c \in Children(r) :
            \/ c \in ClientRuns /\ obs[c] > run[r].cepoch
            \/ run[c].state = "Cancelling"
            \/ IsTerminal(run[c].state)

\* A cancelled run is eventually Cancelled, across crashes of the daemon.
CancelCompletes ==
    \A r \in Runs : run[r].state = "Cancelling" ~> run[r].state = "Cancelled"

\* A wait whose condition is met ends, across crashes of the daemon: a parent
\* whose children are all terminal gets its next turn (unless its loop used up
\* the turns of the model), and a run that waits for a human goes on, or fails,
\* once its latest request has a response (unless the request of a decision
\* just accepted becomes the latest).
WaitsEnd ==
    /\ \A r \in Runs :
          run[r].state = "WaitingChild" /\ ChildrenTerminal(r)
              /\ Len(turn[r]) < MaxStep
              ~> run[r].state # "WaitingChild"
    /\ \A r \in Runs :
          run[r].state = "WaitingHuman" /\ LatestApproval(r).resp \in {"approve", "deny"}
              ~> \/ run[r].state # "WaitingHuman"
                 \/ LatestApproval(r).resp = "pending"

\* runs.rs: what left a run Running (a claim, a reclaim, an approval, a fired
\* wait timer) is followed by its next turn, or by a state it is not driven in,
\* across crashes of the daemon: no run is Running under a claim that no worker
\* of this daemon takes for its own (unless its loop used up the turns of the
\* model).
RunningDriven ==
    \A r \in Runs, s \in 0..(MaxStep - 1) :
        run[r].state = "Running" /\ Len(turn[r]) = s
            ~> run[r].state # "Running" \/ Len(turn[r]) > s

\* run-graph.md: a child creation that races a cancellation does not escape it.
NoEscapedChild ==
    [][\A c \in Runs :
          run[c].state = "Absent" /\ run'[c].state = "Created"
                /\ c \notin ClientRuns =>
              run[Parent[c]].state \notin {"Cancelling", "Cancelled"}]_vars

\* recovery-table.md: effects settle before a run waits for a child or a human.
EffectsSettleFirst ==
    \A r \in Runs :
        run[r].state \in {"WaitingChild", "WaitingHuman"} => InFlight(r) = {}

\* runtime-flow.md: acceptance and child creation are atomic, so that no run is
\* left waiting for a child that was never created.
WaitingChildHasChild ==
    pc = "idle" => \A r \in Runs :
        run[r].state = "WaitingChild" => Children(r) # {}

\* A run resumes on the answer to the request it waits for, not on an earlier
\* one.
ApprovalOfThisWait ==
    [][\A r \in Runs :
          run[r].state = "WaitingHuman" /\ run'[r].state = "Running" =>
              appr[r][Len(turn[r])].resp = "approve"]_vars
=============================================================================
