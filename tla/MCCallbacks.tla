----------------------------- MODULE MCCallbacks -----------------------------
(* Instances of Callbacks for TLC.                                           *)
EXTENDS Callbacks

CONSTANTS a1, c1, c2, s1, s2

OneAgent == [c \in Conn |-> a1]
AskedOne == [s \in Session |-> a1]
Lower    == [i \in Id |-> i]

Stream   == [s \in Session |-> "ws"]
Mixed    == [s \in Session |-> IF s = s1 THEN "ws" ELSE "http"]

\* A bound: the operator ends no connection that is not broken.
OnlyBreaks == \A c \in Conn : cancelled[c] => link[c] = "down"
=============================================================================
