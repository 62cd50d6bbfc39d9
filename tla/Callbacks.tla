----------------------------- MODULE Callbacks -----------------------------
(***************************************************************************)
(* What the program around the server is told of sessions: the hub runs    *)
(* registerSessionCallback and unregisterSessionCallback in its own        *)
(* goroutine, outside every lock, while what they report goes on changing. *)
(***************************************************************************)
EXTENDS ServerSession, Naturals

VARIABLES opened,  \* how often registerSessionCallback ran for a session
          ended    \* sessions for which unregisterSessionCallback ran

told == <<opened, ended>>

CallbacksTypeOK ==
    /\ opened \in [Session -> 0..2]
    /\ ended \subseteq Session

CallbacksInit ==
    /\ Init
    /\ opened = [s \in Session |-> 0]
    /\ ended = {}

\* Mutant: the status is not looked at.
OpensAny(s) == shub = Shub("announce", s) /\ shub' = Idle

\* The session the hub stored is reported if it is connected by now.
Opens(s) == shub = Shub("announce", s) /\ shub' = Idle /\ sess[s].status = "connected"

\* Mutant: only a session whose user left is reported.
EndsUpstream(s) ==
    shub = Shub("close", s) /\ shub' = Idle /\ sess[s].status = "upstream closed"

\* A session it removed is reported before it is closed.
Ends(s) == shub = Shub("close", s) /\ shub' = Idle

CallbacksNext ==
    /\ Next
    /\ opened' = [s \in Session |-> IF Opens(s) THEN opened[s] + 1 ELSE opened[s]]
    /\ ended' = ended \cup {s \in Session : Ends(s)}

CallbacksSpec == CallbacksInit /\ [][CallbacksNext]_<<vars, told>>

-----------------------------------------------------------------------------
(* Properties.                                                             *)

\* A session that was reported registered is reported unregistered once its
\* handler is done, whether the handler, the agent's writer or both at once
\* brought it to the hub.
DoneIsReported ==
    \A s \in Session : opened[s] > 0 /\ sess[s].at = "done" /\ shub.session # s => s \in ended

\* No session is reported registered after it was reported unregistered,
\* although the hub may store it again after it removed it.
NotReopened == [][\A s \in ended : opened'[s] = opened[s]]_<<vars, told>>
=============================================================================
