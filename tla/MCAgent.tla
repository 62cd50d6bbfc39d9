------------------------------ MODULE MCAgent ------------------------------
(* Instances of Agent for TLC.                                              *)
EXTENDS Agent

CONSTANTS s1, s2

Mixed == [s \in Session |-> IF s = s1 THEN "stream" ELSE "http"]
Streams == [s \in Session |-> "stream"]
=============================================================================
