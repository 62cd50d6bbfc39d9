----------------------------- MODULE MCRegistry -----------------------------
(* Instances of Registry for TLC: every connection of the same agent.       *)
EXTENDS Registry

CONSTANT a1

OneAgent == [c \in Conn |-> a1]
=============================================================================
