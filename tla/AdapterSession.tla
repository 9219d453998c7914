--------------------------- MODULE AdapterSession ---------------------------
(***************************************************************************)
(* The run worker's adapter processes: spawn, handshake, calls over the    *)
(* private socket and termination (process-supervisor/src/spawn.rs,        *)
(* adapter-protocol/src/session.rs and handshake.rs, spawn_loop and        *)
(* spawn_effect_adapter in agentd/src/workers/runs.rs), with the durable   *)
(* adapter_instances row of every process.                                 *)
(*                                                                         *)
(* The worker runs one step at a time and keeps one loop process between   *)
(* turns; an effect process serves one call.  The adapter is external: it  *)
(* may answer late, twice or not at all, send any frame, fork and ignore   *)
(* signals, but it answers only calls it has received.                     *)
(***************************************************************************)
EXTENDS Integers, Sequences, FiniteSets

CONSTANTS
    MaxSpawns,      \* bound: processes
    MaxCalls,       \* bound: calls
    MaxFrames,      \* bound: frames waiting in a socket
    StoreFails      \* whether a write to the kernel store may fail

VARIABLES
    rows,       \* adapter_instances: instance -> state
    procs,      \* instance -> [leader, kin, heard, named]: what the process is and got
    inbox,      \* instance -> frames the worker has not read
    pc,         \* where the worker is
    cur,        \* the instance it is working on, 0 for none
    kind,       \* "effect" or "loop"
    held,       \* the loop process kept between turns, 0 for none
    last,       \* the state mark_instance_exit is to record, "" for none
    calls,      \* call -> [to, result]
    answered,   \* <<instance, call>>: answers the adapters sent
    dropped     \* processes the worker let go of without terminate

sessionVars == <<rows, procs, inbox, pc, cur, kind, held, last, calls, answered, dropped>>

(* Ping stands for Pong too, Request for every kernel frame and for one     *)
(* without a body, Garbage for what read_frame rejects                     *)
Frames ==
    [f : {"Hello"}, good : BOOLEAN] \cup [f : {"Response", "Cancel"}, id : 1..MaxCalls]
    \cup [f : {"Ping", "Request", "Garbage"}]

Alive(i) == procs[i].leader \/ procs[i].kin

-----------------------------------------------------------------------------
SessionInit ==
    /\ rows = << >> /\ procs = <<>> /\ inbox = <<>>
    /\ pc = "idle" /\ cur = 0 /\ kind = "effect" /\ held = 0 /\ last = ""
    /\ calls = <<>> /\ answered = {} /\ dropped = {}

world == <<procs, inbox, answered>>
To(label) == pc' = label /\ UNCHANGED <<cur, kind>>

(* terminate(cur), then the row's last state if there is one to record *)
Terminate(state) ==
    /\ pc' = "grace" /\ last' = state
    /\ held' = IF held = cur THEN 0 ELSE held
    /\ UNCHANGED <<cur, kind>>

(* the socket is closed, and with it goes what was not read *)
Close(instances) == inbox' = [i \in DOMAIN inbox |-> IF i \in instances THEN <<>> ELSE inbox[i]]

(* an early return: the handle is dropped, the process is not terminated *)
Drop ==
    /\ pc' = "idle" /\ cur' = 0
    /\ Close({cur})
    /\ dropped' = dropped \cup {cur}
    /\ UNCHANGED <<kind, held, last>>

-----------------------------------------------------------------------------
\* spawn_loop and spawn_effect_adapter

spawn(k) ==
    /\ pc = "idle" /\ Len(procs) < MaxSpawns
    /\ k = "loop" => held = 0
    /\ procs' = Append(procs, [leader |-> TRUE, kin |-> FALSE, heard |-> {}, named |-> FALSE])
    /\ inbox' = Append(inbox, <<>>)
    /\ pc' = "spawned" /\ cur' = Len(procs) + 1 /\ kind' = k
    /\ UNCHANGED <<rows, held, last, calls, answered, dropped>>

record_instance_spawn ==
    /\ pc = "spawned"
    /\ \/ /\ rows' = [i \in DOMAIN rows \cup {cur} |-> IF i = cur THEN "starting" ELSE rows[i]]
          /\ To("recorded") /\ UNCHANGED <<held, last>>
       \/ StoreFails /\ Terminate("") /\ UNCHANGED rows
    /\ UNCHANGED <<world, calls, dropped>>

bootstrap ==
    /\ pc = "recorded"
    /\ \/ /\ procs[cur].leader
          /\ procs' = [procs EXCEPT ![cur].heard = @ \cup {0}]
          /\ To("hello") /\ UNCHANGED <<inbox, held, last, dropped>>
       \/ ~procs[cur].leader /\ Drop /\ UNCHANGED procs
    /\ UNCHANGED <<rows, calls, answered>>

EndOfStream == inbox[cur] = <<>> /\ ~procs[cur].leader
Take == inbox' = [inbox EXCEPT ![cur] = Tail(@)]

(* instance, adapter, version, digest and protocol are the pinned ones *)
verify_hello(hello) == hello.good

(* the frames that a ready session admits *)
accept_inbound(frame) == frame.f \in {"Response", "Cancel", "Ping", "Hello"}

(* the row of a process that did not greet is marked before it is stopped *)
mark_failed ==
    \/ rows' = [rows EXCEPT ![cur] = "failed"]
    \/ StoreFails /\ UNCHANGED rows

read_hello_Unverified ==   \* a mutant: the hello's identity is not compared
    /\ pc = "hello"
    /\ inbox[cur] # <<>> /\ Head(inbox[cur]).f = "Hello"
    /\ Take /\ To("verified") /\ UNCHANGED <<rows, procs, answered, held, last, dropped, calls>>

read_hello ==
    /\ pc = "hello"
    /\ \/ /\ inbox[cur] # <<>>
          /\ LET frame == Head(inbox[cur])
             IN  \/ frame.f = "Hello" /\ verify_hello(frame)
                    /\ Take /\ To("verified") /\ UNCHANGED <<rows, held, last, dropped>>
                 \/ frame.f = "Hello" /\ ~verify_hello(frame) /\ Drop /\ UNCHANGED rows
                 \/ frame.f = "Garbage" /\ Drop /\ UNCHANGED rows
                 \/ frame.f \notin {"Hello", "Garbage"}
                    /\ Take /\ mark_failed /\ Terminate("") /\ UNCHANGED dropped
       \/ EndOfStream /\ mark_failed /\ Terminate("") /\ UNCHANGED <<inbox, dropped>>
       \/ Drop /\ UNCHANGED rows      \* the read timed out
    /\ UNCHANGED <<procs, answered, calls>>

mark_instance_ready ==
    /\ pc = "verified"
    /\ \/ /\ rows' = [rows EXCEPT ![cur] = IF @ = "starting" THEN "ready" ELSE @]
          /\ pc' = IF kind = "loop" THEN "idle" ELSE "ready"
          /\ cur' = IF kind = "loop" THEN 0 ELSE cur
          /\ held' = IF kind = "loop" THEN cur ELSE held
          /\ UNCHANGED <<kind, last>>
       \/ StoreFails /\ Terminate("") /\ UNCHANGED rows
    /\ UNCHANGED <<world, calls, dropped>>

-----------------------------------------------------------------------------
\* dispatch_call

Finish(result) == calls' = [calls EXCEPT ![Len(calls)].result = result]

(* a failed effect call still ends in exited; a failed turn in failed *)
AfterFailure == Terminate(IF kind = "effect" THEN "exited" ELSE "failed")

dispatch_call(k) ==
    /\ Len(calls) < MaxCalls
    /\ \/ k = "effect" /\ pc = "ready" /\ cur' = cur
       \/ k = "loop" /\ pc = "idle" /\ held # 0 /\ cur' = held
    /\ calls' = Append(calls, [to |-> cur', result |-> "pending"])
    /\ procs' = [procs EXCEPT ![cur'].heard = IF procs[cur'].leader THEN @ \cup {Len(calls) + 1} ELSE @]
    /\ pc' = "calling" /\ kind' = k
    /\ UNCHANGED <<rows, inbox, held, last, answered, dropped>>

read_AnyResponse ==   \* a mutant: any response ends the call
    /\ pc = "calling" /\ inbox[cur] # <<>> /\ Head(inbox[cur]).f = "Response"
    /\ Take /\ Finish("ok")
    /\ IF kind = "effect" THEN Terminate("exited")
       ELSE pc' = "idle" /\ cur' = 0 /\ UNCHANGED <<kind, held, last>>
    /\ UNCHANGED <<rows, procs, answered, dropped>>

(* accept_inbound, then the frame itself: only this call's own answer or    *)
(* cancellation ends it; other answers, pings and pongs are passed over    *)
read ==
    /\ pc = "calling" /\ inbox[cur] # <<>> /\ Take
    /\ LET frame == Head(inbox[cur])
           own == frame.f \in {"Response", "Cancel"} /\ frame.id = Len(calls)
       IN  \/ /\ frame.f = "Response" /\ own
              /\ Finish("ok")
              /\ IF kind = "effect" THEN Terminate("exited")
                 ELSE \/ pc' = "idle" /\ cur' = 0 /\ UNCHANGED <<kind, held, last>>
                      \/ AfterFailure      \* the answer did not decode or was not accepted
           \/ frame.f = "Cancel" /\ own /\ Finish("cancelled") /\ AfterFailure
           \/ ~accept_inbound(frame) /\ Finish("refused") /\ AfterFailure
           \/ accept_inbound(frame) /\ ~own
              /\ UNCHANGED <<calls, pc, cur, kind, held, last>>
    /\ UNCHANGED <<rows, procs, answered, dropped>>

(* the request could not be written, the stream ended or time ran out *)
call_fails ==
    /\ pc = "calling"
    /\ \/ ~procs[cur].leader /\ Finish("closed")
       \/ Finish("expired")
    /\ AfterFailure
    /\ UNCHANGED <<rows, world, dropped>>

(* stop_loop, outside a turn: cancellation, reclaim or shutdown *)
stop_loop(state) ==
    /\ pc = "idle" /\ held # 0
    /\ pc' = "grace" /\ cur' = held /\ held' = 0 /\ last' = state
    /\ UNCHANGED <<rows, world, kind, calls, dropped>>

-----------------------------------------------------------------------------
\* terminate

Kill(i) == procs' = [procs EXCEPT ![i].leader = FALSE, ![i].kin = FALSE]

(* SIGTERM to the group: each process may ignore it *)
Term(i) ==
    \E l \in {FALSE, procs[i].leader}, k \in {FALSE, procs[i].kin} :
        procs' = [procs EXCEPT ![i].leader = l, ![i].kin = k]

(* a shutdown frame, then up to grace for the leader to exit *)
grace ==
    /\ pc = "grace"
    /\ \/ ~procs[cur].leader /\ To("sweep") /\ UNCHANGED procs
       \/ Term(cur) /\ To("kill")      \* the grace period is over
    /\ UNCHANGED <<rows, inbox, held, last, calls, answered, dropped>>

kill ==
    /\ pc = "kill"
    /\ IF procs[cur].leader THEN Kill(cur) ELSE UNCHANGED procs
    /\ To("sweep")
    /\ UNCHANGED <<rows, inbox, held, last, calls, answered, dropped>>

sweep_Skipped ==   \* a mutant: nothing is signalled once the leader is gone
    /\ pc = "sweep" /\ To("mark")
    /\ UNCHANGED <<rows, procs, inbox, held, last, calls, answered, dropped>>

(* what outlived the leader goes too *)
sweep ==
    /\ pc = "sweep"
    /\ Kill(cur)
    /\ To("mark")
    /\ UNCHANGED <<rows, inbox, held, last, calls, answered, dropped>>

(* best effort, from ready or starting *)
mark_instance_exit ==
    /\ pc = "mark"
    /\ \/ rows' = IF last # "" /\ cur \in DOMAIN rows /\ rows[cur] \in {"ready", "starting"}
                  THEN [rows EXCEPT ![cur] = last] ELSE rows
       \/ StoreFails /\ UNCHANGED rows
    /\ pc' = "idle" /\ cur' = 0 /\ last' = ""
    /\ Close({cur})
    /\ UNCHANGED <<procs, answered, kind, held, calls, dropped>>

-----------------------------------------------------------------------------
\* the adapters, and the daemon's death

(* a process the worker let go of is of no more consequence *)
Adapter(i) ==
    /\ procs[i].leader /\ i \in {cur, held}
    /\ \/ \E frame \in Frames :
            /\ Len(inbox[i]) < MaxFrames
            /\ frame.f \in {"Response", "Cancel"} => frame.id \in procs[i].heard
            /\ inbox' = [inbox EXCEPT ![i] = Append(@, frame)]
            /\ answered' = IF frame.f = "Response" THEN answered \cup {<<i, frame.id>>} ELSE answered
            /\ procs' = [procs EXCEPT ![i].named = @ \/ (frame.f = "Hello" /\ frame.good)]
       \/ procs' = [procs EXCEPT ![i].kin = TRUE] /\ UNCHANGED <<inbox, answered>>
       \/ procs' = [procs EXCEPT ![i].leader = FALSE] /\ UNCHANGED <<inbox, answered>>
    /\ UNCHANGED <<rows, pc, cur, kind, held, last, calls, dropped>>

Crash ==
    /\ pc # "idle" \/ held # 0
    /\ pc' = "idle" /\ cur' = 0 /\ held' = 0 /\ last' = ""
    /\ dropped' = dropped \cup ({cur, held} \ {0})
    /\ calls' = [k \in DOMAIN calls |-> IF calls[k].result = "pending"
                                        THEN [calls[k] EXCEPT !.result = "lost"] ELSE calls[k]]
    /\ Close({cur, held})
    /\ UNCHANGED <<rows, procs, answered, kind>>

SessionNext ==
    \/ \E k \in {"effect", "loop"} : spawn(k) \/ dispatch_call(k)
    \/ record_instance_spawn \/ bootstrap \/ read_hello \/ mark_instance_ready
    \/ read \/ call_fails
    \/ \E state \in {"exited", "failed"} : stop_loop(state)
    \/ grace \/ kill \/ sweep \/ mark_instance_exit
    \/ \E i \in DOMAIN procs : Adapter(i)
    \/ Crash

SessionSpec == SessionInit /\ [][SessionNext]_sessionVars

-----------------------------------------------------------------------------
SessionTypeOK ==
    /\ DOMAIN rows \subseteq DOMAIN procs
    /\ \A i \in DOMAIN rows : rows[i] \in {"starting", "ready", "exited", "failed"}
    /\ {cur, held} \subseteq {0} \cup DOMAIN procs
    /\ \A i \in DOMAIN inbox : inbox[i] \in Seq(Frames)

(* A call is answered only by the process it was sent to, which greeted     *)
(* with the identity pinned for it, and only by an answer to that very     *)
(* call: a late answer to a call that expired or was superseded never      *)
(* passes for a newer one, across turns, effects and restarts.             *)
OwnAnswer ==
    \A k \in DOMAIN calls :
        /\ procs[calls[k].to].named
        /\ calls[k].result = "ok" => <<calls[k].to, k>> \in answered

(* Once terminate has returned nothing of the process group is left, even   *)
(* if the leader exited first and its descendants ignore signals; and an   *)
(* instance recorded as exited is gone.                                    *)
GroupGone ==
    \A i \in DOMAIN procs :
        \/ i \notin {cur, held} \cup dropped
        \/ i = cur /\ pc = "mark"
        \/ i \in DOMAIN rows /\ rows[i] = "exited"
        => ~Alive(i)
=============================================================================
