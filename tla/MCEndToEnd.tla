----------------------------- MODULE MCEndToEnd -----------------------------
(* Instances of EndToEnd for TLC.                                           *)
EXTENDS EndToEnd

CONSTANTS a1, c1, c2, s1, s2

OneAgent == [c \in Conn |-> a1]
AskedOne == [s \in Session |-> a1]
Lower    == [i \in Id |-> i]

Stream   == [s \in Session |-> "ws"]
Ssh      == [s \in Session |-> "ssh"]
Exchange == [s \in Session |-> "http"]
=============================================================================
