------------------------------- MODULE Tunnel -------------------------------
(***************************************************************************)
(* What a tunnel promises about a stream, whatever server, agent and       *)
(* network do in between: a user is told that the session is connected     *)
(* only after its downstream was reached, and that the downstream hung up  *)
(* only if it did, was never reached, or the connection to the agent was   *)
(* lost.  A downstream is reached once and not after it was hung up.       *)
(***************************************************************************)
CONSTANT Session

VARIABLES user,  \* "waiting", "open", "left" or "hung up"
          far,   \* the downstream: "none", "open" or "closed"
          lost   \* the agent's connection is

tvars == <<user, far, lost>>

TunnelInit ==
    /\ user = [s \in Session |-> "waiting"]
    /\ far = [s \in Session |-> "none"]
    /\ lost = FALSE

Reach(s) ==
    /\ far[s] = "none"
    /\ far' = [far EXCEPT ![s] = "open"]
    /\ UNCHANGED <<user, lost>>

Open(s) ==
    /\ user[s] = "waiting" /\ far[s] # "none"
    /\ user' = [user EXCEPT ![s] = "open"]
    /\ UNCHANGED <<far, lost>>

HangUp(s) ==
    /\ far[s] = "open"
    /\ far' = [far EXCEPT ![s] = "closed"]
    /\ UNCHANGED <<user, lost>>

HearOfIt(s) ==
    /\ user[s] # "hung up"
    /\ far[s] # "open" \/ lost
    /\ user' = [user EXCEPT ![s] = "hung up"]
    /\ UNCHANGED <<far, lost>>

Leave(s) ==
    /\ user[s] \in {"waiting", "open"}
    /\ user' = [user EXCEPT ![s] = "left"]
    /\ UNCHANGED <<far, lost>>

Lose ==
    /\ ~lost
    /\ lost' = TRUE
    /\ UNCHANGED <<user, far>>

TunnelNext == Lose \/ \E s \in Session : Reach(s) \/ Open(s) \/ HangUp(s) \/ HearOfIt(s) \/ Leave(s)

TunnelSpec == TunnelInit /\ [][TunnelNext]_tvars
=============================================================================
