------------------------------ MODULE RunGraph ------------------------------
(***************************************************************************)
(* The dependency graph of a task's runs: run-graph/src and the claim of a *)
(* ready run that waits for it (runtime/src/claim.rs).  An editor reads    *)
(* the graph's head revision in one transaction and adds an edge against   *)
(* it in a later one; a claim and the moves of the runs come in between.   *)
(* Refusals leave the tables as they were and are not steps, and neither   *)
(* is the repetition of an edge that is there.  The runtime's other        *)
(* commands move a run along the transition table (module RunKernel shows  *)
(* that they keep to it).                                                  *)
(***************************************************************************)
EXTENDS Naturals, FiniteSets, RunTables, Optional

CONSTANTS
    Runs,        \* run ids
    Task,        \* the task each run belongs to
    Editors,     \* callers of add_dependency
    EdgeConditions  \* dependency conditions they use

Tasks == {Task[r] : r \in Runs}

VARIABLES
    state,  \* state of each run; a run holds a claim once it has left Ready
    deps,   \* run_dependencies: records of source, target and condition
    head,   \* run_graph_heads: graph_revision of each task
    read    \* what each editor read: a task, its revision, its edges

Edge == [source : Runs, target : Runs, condition : EdgeConditions]

\* What an editor holds.
Reading == [task : Tasks, revision : Nat, deps : SUBSET Edge]

ASSUME GraphAssumption ==
    /\ IsFiniteSet(Runs)
    /\ EdgeConditions \subseteq DependencyCondition
    /\ None \notin Reading

GraphTypeOK ==
    /\ state \in [Runs -> RunState]
    /\ deps \subseteq Edge
    /\ head \in [Tasks -> Nat]
    /\ \A e \in Editors : read[e] # None =>
         /\ read[e].task \in Tasks
         /\ read[e].revision \in 0..head[read[e].task]

GraphInit ==
    /\ state = [r \in Runs |-> "Created"]
    /\ deps = {}
    /\ head = [t \in Tasks |-> 0]
    /\ read = [e \in Editors |-> None]

-----------------------------------------------------------------------------
TaskDeps(t) == {d \in deps : Task[d.target] = t}

\* Mutant: only the direct targets are looked at.
Reach_OneHop(r) == {r} \cup {d.target : d \in {x \in deps : x.source = r}}

\* is_reachable_on: the runs that edges lead to from run r, r included.
Reach(r) ==
    LET within[n \in 0..Cardinality(Runs)] ==
          IF n = 0 THEN {r}
          ELSE within[n - 1] \cup
                 {d.target : d \in {x \in deps : x.source \in within[n - 1]}}
    IN within[Cardinality(Runs)]

\* Mutant: any run that has not ended takes new edges.
is_mutable_target_Live(r) == ~IsTerminal(state[r])

\* Ready without a live claim: a claimed run is Running or past it.
is_mutable_target(r) == state[r] \in {"Created", "Ready"}

get_head(e, t) ==
    /\ read' = [read EXCEPT ![e] = [task |-> t, revision |-> head[t],
                                    deps |-> TaskDeps(t)]]
    /\ UNCHANGED <<state, deps, head>>

\* Mutant: the head stays where it was.
insert_dependency_SameHead(s, r, c) ==
    /\ s \notin Reach(r)
    /\ deps' = deps \cup {[source |-> s, target |-> r, condition |-> c]}
    /\ UNCHANGED head

insert_dependency(s, r, c) ==
    /\ s \notin Reach(r)
    /\ deps' = deps \cup {[source |-> s, target |-> r, condition |-> c]}
    /\ head' = [head EXCEPT ![Task[r]] = @ + 1]

add_dependency(e, s, r, c) ==
    /\ read[e] # None
    /\ Task[s] = Task[r]
    /\ is_mutable_target(r)
    /\ read[e].task = Task[r]
    /\ head[Task[r]] = read[e].revision
    /\ \A d \in TaskDeps(Task[r]) : d.source # s \/ d.target # r
    /\ insert_dependency(s, r, c)
    /\ read' = [read EXCEPT ![e] = None]
    /\ UNCHANGED state

dependencies_satisfied(r) ==
    \A d \in TaskDeps(Task[r]) :
        d.target = r => ConditionMet(d.condition, state[d.source])

\* Its other refusal, a recovery disposition that is not Normal, is left out:
\* more claims happen here than in the code.
claim_with_ids(r) ==
    /\ state[r] = "Ready"
    /\ dependencies_satisfied(r)
    /\ state' = [state EXCEPT ![r] = "Running"]
    /\ UNCHANGED <<deps, head, read>>

\* The other commands of the runtime.
Move(r) ==
    /\ \E to \in RunState :
         /\ Allows(state[r], to)
         /\ state[r] # "Ready" \/ to # "Running"
         /\ state' = [state EXCEPT ![r] = to]
    /\ UNCHANGED <<deps, head, read>>

GraphNext ==
    \/ \E e \in Editors, t \in Tasks : get_head(e, t)
    \/ \E e \in Editors, s \in Runs, r \in Runs, c \in EdgeConditions :
         add_dependency(e, s, r, c)
    \/ \E r \in Runs : claim_with_ids(r)
    \/ \E r \in Runs : Move(r)

graphVars == <<state, deps, head, read>>

GraphSpec == GraphInit /\ [][GraphNext]_graphVars

-----------------------------------------------------------------------------
(* The edges never close a cycle, however editors interleave: every set of *)
(* runs has one that waits for none of the others, so the runs of a task   *)
(* can always be put in an order (insert_dependency's reachability check). *)
NoCycles ==
    \A S \in SUBSET Runs : S # {} =>
        \E r \in S : \A d \in deps : d.target = r => d.source \notin S

(* A run that has started had every source it waits for end the way its    *)
(* condition asks, and no edge is added behind a run's back: an edge into  *)
(* a started run is satisfied for good.                                    *)
StartedSatisfied ==
    \A r \in Runs :
        state[r] \in {"Running", "WaitingTool", "WaitingChild",
                      "WaitingHuman", "Suspended", "Completed", "Failed"} =>
            dependencies_satisfied(r)

(* An edge is accepted only from an editor that has seen every edge of     *)
(* the task: the revision it read stands for the whole edge set.           *)
NoBlindEdge ==
    \A d \in deps' \ deps :
        \E e \in Editors : /\ read[e] # None
                           /\ read[e].task = Task[d.target]
                           /\ read[e].deps = TaskDeps(Task[d.target])

(* However editors interleave, the edges close no cycle, and an editor has *)
(* seen every edge of the task it adds one to (graph.rs).                  *)
Acyclic == [][NoCycles' /\ NoBlindEdge]_graphVars
=============================================================================
