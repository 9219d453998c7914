------------------------------ MODULE WallClock ------------------------------
(***************************************************************************)
(* The clock a command reads once and carries in its context.  It does not *)
(* run back.                                                               *)
(***************************************************************************)
EXTENDS Naturals

CONSTANT MaxTime    \* bound: the clock
VARIABLE now

Advance == now < MaxTime /\ now' = now + 1
=============================================================================
