------------------------------- MODULE MCExec -------------------------------
(* The instance of Exec for TLC: it has no constants.                       *)
EXTENDS Exec
=============================================================================
