---------------------------- MODULE TunnelTypes ----------------------------
(***************************************************************************)
(* The vocabulary both ends of a tunnel share (pkg/type.go): what a        *)
(* TunnelMessage can ask for and the status of a session.                  *)
(***************************************************************************)

\* ConnectMessage, BinaryMessage or TextMessage, CloseMessage.
MessageType == {"connect", "data", "close"}

Ended  == {"upstream closed", "downstream closed"}
\* "" is the zero value the agent's sessions start from.
Status == {"", "connecting", "connected", "process failed"} \cup Ended

\* SetStatus under Session.Mu: the first end that is recorded stays.
SetStatus(old, new) == IF old \in Ended THEN old ELSE new

\* What the server has heard about a session: it asked the agent to connect
\* it, the agent did, the agent said that it is closed or answered the request.
Hearsay == {"unaware", "asked", "open", "ended"}

\* What an agent may say of a session next: an answer to a connect request is
\* given once, before any close; data can overtake it and follow the close.
MaySay(heard, http, type) ==
    \/ type = "connect" /\ heard = "asked"
    \/ type \in {"data", "close"} /\ ~http /\ heard # "unaware"

Hears(heard, http, type) ==
    CASE type = "connect" -> IF http THEN "ended" ELSE "open"
      [] type = "close" -> "ended"
      [] OTHER -> heard
=============================================================================
