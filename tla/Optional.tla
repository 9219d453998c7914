------------------------------ MODULE Optional ------------------------------
(***************************************************************************)
(* What stands for Option::None in the services' rows and registers: no    *)
(* row, no owner, no revision, no document.                                *)
(***************************************************************************)
CONSTANT None
=============================================================================
