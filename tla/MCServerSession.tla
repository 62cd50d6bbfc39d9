--------------------------- MODULE MCServerSession ---------------------------
(* Instances of ServerSession for TLC.                                       *)
EXTENDS ServerSession

CONSTANTS a1, c1, c2, s1, s2

OneAgent == [c \in Conn |-> a1]
AskedOne == [s \in Session |-> a1]
Lower    == [i \in Id |-> i]

Stream   == [s \in Session |-> "ws"]
Ssh      == [s \in Session |-> "ssh"]
Exchange == [s \in Session |-> "http"]
Mixed    == [s \in Session |-> IF s = s1 THEN "ws" ELSE "http"]
=============================================================================
