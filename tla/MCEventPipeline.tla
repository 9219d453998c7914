-------------------------- MODULE MCEventPipeline --------------------------
(***************************************************************************)
(* EventPipeline on two streams: two commands on the first, of which one   *)
(* has its key reused for a different request, and one on the second.      *)
(***************************************************************************)
EXTENDS EventPipeline

CONSTANTS x, y, z, u1

MCKey == [c \in Commands |-> IF c = y THEN x ELSE c]
MCBody == [c \in Commands |-> c]
MCStream == [c \in Commands |-> IF c = y THEN 2 ELSE 1]
MCReadStream == [u \in Readers |-> 1]
=============================================================================
