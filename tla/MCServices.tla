----------------------------- MODULE MCServices -----------------------------
(***************************************************************************)
(* The kernel services that share no state with one another, the two       *)
(* kernel stores and the gateway's files, each on a small instance: a      *)
(* behaviour picks one of them and takes its steps.                        *)
(***************************************************************************)
EXTENDS Reservations, WorkspaceLeases, MessageQueue, RunGraph, GatewayDevices,
        GatewayFiles, ConfigGenerations, TLC

CONSTANTS m1, m2, m3, m4, m5, d1, d2, d3, s1, s2, a1, g1, g2, g3, e1, e2

VARIABLES focus, group, sql, mock, agree

-----------------------------------------------------------------------------
(* The constants of the services that are functions or sequences.          *)

StreamOf == [m \in {m1, m2, m3, m4, m5} |-> IF m = m5 THEN "b" ELSE "a"]
TaskOf == [r \in {g1, g2, g3} |-> "t"]
MintedIds == {<<"a", "b">>, <<"a", "c">>}
GivenIds == {<<"a">>, <<"a", "b">>}
ServicesOf == d1 :> s1 @@ d2 :> s1 @@ d3 :> s2
NeedsOf == d1 :> {} @@ d2 :> {a1} @@ d3 :> {}

\* The editors of the graph, the device commands and the gateway's handlers
\* are the same two values, which nothing tells apart.
Interchangeable == Permutations(Editors)

T == INSTANCE StoreMirror WITH focus <- group,
         Keys <- {1, 2}, Missing <- 3, Corners <- {}, MaxCount <- 2

-----------------------------------------------------------------------------
stores == <<group, sql, mock, agree>>
vars == <<focus, rsv, leaseVars, queueVars, configVars, graphVars, stores, devicesVars, filesVars>>

Init ==
    /\ focus \in {"reservations", "workspaces", "queue", "config", "graph", "stores",
                  "devices", "index", "proposals"}
    /\ focus # "stores" => group = "work"
    /\ BudgetInit
    /\ LeaseInit
    /\ QueueInit
    /\ ConfigInit
    /\ GraphInit
    /\ T!Init
    /\ DevicesInit
    /\ FilesInit
    /\ focus # "devices" => gate.auth_token = {} /\ gate.devices_file /\ gate.loopback
    /\ focus = "index" <=> id_file # {}
    /\ focus # "index" => disk = index

Next ==
    \/ /\ focus = "reservations"
       /\ BudgetNext
       /\ UNCHANGED <<focus, leaseVars, queueVars, configVars, graphVars, stores, devicesVars, filesVars>>
    \/ /\ focus = "workspaces"
       /\ LeaseNext
       /\ UNCHANGED <<focus, rsv, queueVars, configVars, graphVars, stores, devicesVars, filesVars>>
    \/ /\ focus = "queue"
       /\ QueueNext
       /\ UNCHANGED <<focus, rsv, leaseVars, configVars, graphVars, stores, devicesVars, filesVars>>
    \/ /\ focus = "config"
       /\ ConfigNext
       /\ UNCHANGED <<focus, rsv, leaseVars, queueVars, graphVars, stores, devicesVars, filesVars>>
    \/ /\ focus = "graph"
       /\ GraphNext
       /\ UNCHANGED <<focus, rsv, leaseVars, queueVars, configVars, stores, devicesVars, filesVars>>
    \/ /\ focus = "stores"
       /\ T!Next
       /\ UNCHANGED <<focus, rsv, leaseVars, queueVars, configVars, graphVars, devicesVars, filesVars>>
    \/ /\ focus = "devices"
       /\ DevicesNext
       /\ UNCHANGED <<focus, rsv, leaseVars, queueVars, configVars, graphVars, stores, filesVars>>
    \/ /\ \/ focus = "index" /\ IndexNext
          \/ focus = "proposals" /\ ProposalNext
       /\ UNCHANGED <<focus, rsv, leaseVars, queueVars, configVars, graphVars, stores, devicesVars>>

Spec == Init /\ [][Next]_vars

-----------------------------------------------------------------------------
(* The rows and queues of the services and the stores stay within their    *)
(* types.                                                                  *)
TypeOK ==
    /\ focus = "reservations" => BudgetTypeOK
    /\ focus = "workspaces" => LeaseTypeOK
    /\ focus = "queue" => QueueTypeOK
    /\ focus = "config" => ConfigTypeOK
    /\ focus = "graph" => GraphTypeOK
    /\ focus = "stores" => T!TypeOK
    /\ focus = "devices" => DevicesTypeOK
    /\ focus \in {"index", "proposals"} => FilesTypeOK

(* Stores (testkit/src/store.rs): the in-memory double answers and reads   *)
(* back as the SQLite store does.                                          *)
MirrorsStore == focus = "stores" => T!MirrorsStore
=============================================================================
