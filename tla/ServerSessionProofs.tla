------------------------ MODULE ServerSessionProofs ------------------------
(***************************************************************************)
(* The safety of the composed server for every number of connections,      *)
(* identifiers and sessions, and that its connections remain those of      *)
(* Registry.  SessionInv is inductive.  The steps that only move one       *)
(* session along share MovesInv; those in which sessions end, or the hub   *)
(* or a writer works for one, share EndingKeeps and show the other         *)
(* conjuncts one by one.                                                   *)
(*                                                                         *)
(* Then its liveness, where nobody waits that ServerUnblocked says can go  *)
(* on.  What any step does to one connection (ConnGoesOn) and to one       *)
(* session (GoesOn) gives the order of their stages; fairness takes each   *)
(* stage to the next; and the hub, at its select again and again           *)
(* (HubSelects), serves whoever waits for it.                              *)
(***************************************************************************)
EXTENDS ServerSession, RegistryProofs

\* What most steps do to a session s: its agent, once known, and its socket
\* stay, an end that is recorded stays, and only a session that the agent
\* answered is connected or forwards.
Moves(s) ==
    /\ sess' \in [Session -> SessionObject]
    /\ \A t \in Session \ {s} : sess'[t] = sess[t]
    /\ sess[s].down # None => sess'[s].down = sess[s].down
    /\ sess'[s].down = None => sess'[s].at \in {"new", "leave", "done"}
    /\ sess'[s].closed = sess[s].closed
    /\ sess'[s].at = "new" => sess[s].at = "new" /\ sess'[s].down = sess[s].down
    /\ sess'[s].at \in {"login", "dial"} => sess[s].at \in {"new", "login", "dial"}
    /\ sess'[s].at \in {"unenrol", "done"} <=> sess[s].at \in {"unenrol", "done"}
    /\ sess'[s].at = "done" <=> sess[s].at = "done"
    /\ \/ sess'[s].status = sess[s].status \/ sess'[s].status \in Ended
       \/ sess'[s].status = "connected" /\ sess[s].status \notin Ended
    /\ ~Http(s) /\ (sess'[s].status = "connected" \/ sess'[s].reader = "send")
          => agent[s] \in {"open", "ended"}

\* ... while the hub at most takes s to store it, a reader at most delivers what
\* it held, and a writer at most takes what an answered session forwards.
LEMMA MovesInv ==
  ASSUME SessionInv, NEW s \in Session, Moves(s),
         UNCHANGED <<sessions, agent, crash>>,
         \/ shub' = shub
         \/ shub = Idle /\ shub' = Shub("store", s) /\ sess[s].down # None,
         toUser' = toUser \/ (\E c \in Conn : toUser' = [toUser EXCEPT ![c] = None]),
         \/ toAgent' = toAgent
         \/ /\ Http(s) \/ agent[s] \in {"open", "ended"}
            /\ \E c \in Conn :
                  toAgent' = [toAgent EXCEPT ![c] = [session |-> s, at |-> "write"]]
  PROVE  SessionInv'
<1> USE SessionAssumption
<1>1. SessionTypeOK /\ SessionTypeOK'
  <2>1. SessionTypeOK
    BY DEF SessionInv
  <2>2. toUser' \in [Conn -> [session : Session, type : MessageType] \cup {None}]
    BY <2>1 DEF SessionTypeOK
  <2>3. toAgent' \in [Conn -> [session : Session, at : {"write", "unenrol"}] \cup {None}]
    <3>1. toAgent \in [Conn -> [session : Session, at : {"write", "unenrol"}] \cup {None}]
      BY <2>1 DEF SessionTypeOK
    <3>2. [session |-> s, at |-> "write"] \in [session : Session, at : {"write", "unenrol"}]
      OBVIOUS
    <3>3. QED  BY <3>1, <3>2
  <2>4. /\ shub' \in [op : ShubOp, session : Session \cup {None}]
        /\ shub'.session = None <=> shub'.op = "select"
    <3>1. CASE shub' = shub
      BY <2>1, <3>1 DEF SessionTypeOK
    <3>2. CASE shub' = Shub("store", s)
      BY <3>2 DEF Shub, ShubOp
    <3>3. QED  BY <3>1, <3>2
  <2>5. \A t \in Session :
          /\ sess'[t].at = "new" => sess'[t].down = None
          /\ sess'[t].down = None => sess'[t].at \in {"new", "leave", "done"}
    BY <2>1 DEF SessionTypeOK, Moves
  <2>6. QED  BY <2>1, <2>2, <2>3, <2>4, <2>5 DEF SessionTypeOK, Moves
<1>2. \A c \in Conn : /\ toUser'[c] \in {toUser[c], None}
                      /\ \/ toAgent'[c] = toAgent[c]
                         \/ toAgent'[c] = [session |-> s, at |-> "write"]
  BY <1>1 DEF SessionTypeOK
<1>3. HubHasAgent'
  <2>1. \A t \in Session : sess[t].down # None => sess'[t].down # None
    BY DEF Moves
  <2>2. sessions \cup ({shub.session} \ {None}) \subseteq Session
    BY <1>1 DEF SessionTypeOK
  <2>3. shub'.session \in {shub.session, s} /\ (shub'.session = s => sess[s].down # None)
    BY <2>2 DEF SessionInv, HubHasAgent, Shub
  <2>4. QED  BY <2>1, <2>2, <2>3 DEF SessionInv, HubHasAgent
<1>4. UndialledIsUnaware'
  BY DEF SessionInv, UndialledIsUnaware, Moves, Http
<1>5. AnswerWasGiven'
  BY <1>2 DEF SessionInv, AnswerWasGiven, Http
<1>6. ForwardedIsAnswered'
  BY <1>2 DEF SessionInv, ForwardedIsAnswered, Moves, Http
<1>7. \A t \in Session :
        /\ sess'[t].closed = sess[t].closed
        /\ sess[t].at = "done" <=> sess'[t].at = "done"
        /\ sess[t].status \in Ended => sess'[t].status \in Ended
        /\ sess'[t].at = "unenrol" => sess[t].at = "unenrol"
  BY DEF Moves
<1>8. ClosedIsOver'
  BY <1>7 DEF SessionInv, ClosedIsOver
<1>9. CloseIsOver'
  <2>1. /\ shub.op = "close" => shub.session \in Session
        /\ \A c \in Conn : toAgent[c] # None => toAgent[c].session \in Session
    BY <1>1 DEF SessionTypeOK
  <2>2. shub'.op = "close" => shub' = shub
    BY DEF Shub
  <2>3. \A c \in Conn : toAgent'[c] # None /\ toAgent'[c].at = "unenrol"
                            => toAgent'[c] = toAgent[c]
    BY <1>2
  <2>4. QED  BY <1>7, <2>1, <2>2, <2>3 DEF SessionInv, CloseIsOver
<1>10. \A t \in Session : shub = Shub("close", t) => shub' = shub
  BY DEF Shub, Idle
<1>11. DoneIsClosed'
  BY <1>7, <1>10 DEF SessionInv, DoneIsClosed, Http, Shub
<1>12. RemovedIsClosed'
  BY <1>7, <1>10 DEF SessionInv, RemovedIsClosed, Http, Shub
<1>13. QED
  BY <1>1, <1>3, <1>4, <1>5, <1>6, <1>8, <1>9, <1>11, <1>12 DEF SessionInv

\* A step that gives s a new object and leaves the other sessions alone.
LEMMA Update ==
  ASSUME sess \in [Session -> SessionObject], NEW s \in Session,
         NEW r \in SessionObject, sess' = [sess EXCEPT ![s] = r]
  PROVE  /\ sess' \in [Session -> SessionObject]
         /\ sess'[s] = r
         /\ \A t \in Session \ {s} : sess'[t] = sess[t]
OBVIOUS

\* What SessionInv says of one session, as the steps below need it.
LEMMA SessionFacts ==
  ASSUME SessionInv, NEW s \in Session
  PROVE  /\ sess \in [Session -> SessionObject]
         /\ sess[s].at = "new" => sess[s].down = None
         /\ sess[s].down = None => sess[s].at \in {"new", "leave", "done"}
         /\ ~Http(s) /\ (sess[s].status = "connected" \/ sess[s].reader = "send")
               => agent[s] \in {"open", "ended"}
BY DEF SessionInv, SessionTypeOK, ForwardedIsAnswered

\* proxy up to its pumps, the pumps' own ends, and the user's departure.
LEMMA MovesInvSteps ==
  ASSUME RegistryTypeOK, SessionInv, NEW s \in Session,
         \/ Lookup(s) \/ Login(s) \/ Encode(s) \/ RequestPanics(s) \/ AwaitTimesOut(s)
         \/ PumpEnds(s) \/ UserLeaves(s)
         \/ UpReaderStops(s) \/ UpReaderFails(s) \/ UpReaderReads(s)
  PROVE  SessionInv'
<1>1. ASSUME Lookup(s) PROVE Moves(s)
  <2>1. PICK c, at : /\ c \in Conn \cup {None} /\ at \in {"leave", "enrol", "login", "dial"}
                     /\ c = None => at = "leave"
                     /\ sess' = [sess EXCEPT ![s].down = c, ![s].at = at]
    <3> DEFINE d == clients[ToLower[Asked[s]]]
    <3>1. sess[s].at = "new" /\ sess' = [sess EXCEPT ![s].down = d, ![s].at =
             CASE d = None -> "leave"
               [] d # None /\ Protocol[s] = "http" -> "enrol"
               [] d # None /\ Protocol[s] = "ssh" -> "login"
               [] d # None /\ Protocol[s] = "ws" -> "dial"]
      BY <1>1 DEF Lookup
    <3>2. d \in Conn \cup {None}
      BY SessionAssumption DEF RegistryTypeOK
    <3>3. Protocol[s] \in {"http", "ssh", "ws"}
      BY SessionAssumption
    <3> HIDE DEF d
    <3>4. CASE d = None
      BY <3>1, <3>2, <3>4
    <3>5. CASE d # None
      BY <3>1, <3>2, <3>3, <3>5
    <3>6. QED  BY <3>4, <3>5
  <2>2. sess[s].at = "new" /\ sess[s].down = None /\ sess \in [Session -> SessionObject]
    BY <1>1, SessionFacts DEF Lookup
  <2> DEFINE r == [sess[s] EXCEPT !.down = c, !.at = at]
  <2>3. r \in SessionObject
    BY <2>1, <2>2 DEF SessionObject, ProxyAt
  <2>4. /\ r.down = c /\ r.at = at /\ r.closed = sess[s].closed
        /\ r.status = sess[s].status /\ r.reader = sess[s].reader
    BY <2>1, <2>2 DEF SessionObject
  <2>5. sess' = [sess EXCEPT ![s] = r]
    BY <2>1, <2>2
  <2>6. /\ sess' \in [Session -> SessionObject] /\ sess'[s] = r
        /\ \A t \in Session \ {s} : sess'[t] = sess[t]
    BY <2>2, <2>3, <2>5, Update
  <2> HIDE DEF r
  <2>7. QED  BY <2>1, <2>2, <2>4, <2>6, SessionFacts DEF Moves
<1>2. ASSUME Login(s) PROVE Moves(s)
  BY <1>2, SessionFacts DEF Login, Moves, SessionObject, ProxyAt
<1>3. ASSUME Encode(s) PROVE Moves(s)
  BY <1>3, SessionFacts DEF Encode, Moves, SessionObject, ProxyAt
<1>4. ASSUME RequestPanics(s) PROVE Moves(s)
  BY <1>4, SessionFacts DEF RequestPanics, Moves, SessionObject, ProxyAt
<1>5. ASSUME AwaitTimesOut(s) PROVE Moves(s)
  BY <1>5, SessionFacts DEF AwaitTimesOut, Moves, SessionObject, ProxyAt
<1>6. ASSUME PumpEnds(s) PROVE Moves(s)
  <2>1. sess[s] \in SessionObject
    BY SessionFacts
  <2> DEFINE r == [sess[s] EXCEPT !.at = "leave", !.ended = TRUE]
  <2>2. r \in SessionObject
    BY <2>1 DEF SessionObject, ProxyAt
  <2>3. sess' = [sess EXCEPT ![s] = r]
    BY <1>6, SessionFacts DEF PumpEnds, Leave
  <2>4. /\ r.down = sess[s].down /\ r.closed = sess[s].closed
        /\ r.at = "leave" /\ r.reader = sess[s].reader /\ r.status = sess[s].status
    BY <2>1 DEF SessionObject
  <2> HIDE DEF r
  <2>5. QED  BY <1>6, <2>2, <2>3, <2>4, Update, SessionFacts DEF PumpEnds, Moves
<1>7. ASSUME UserLeaves(s) PROVE Moves(s)
  BY <1>7, SessionFacts DEF UserLeaves, Moves, SessionObject, ProxyAt
<1>8. ASSUME UpReaderStops(s) PROVE Moves(s)
  <2>1. sess[s] \in SessionObject
    BY SessionFacts
  <2> DEFINE r == [sess[s] EXCEPT !.reader = "done", !.ended = TRUE]
  <2>2. r \in SessionObject
    BY <2>1 DEF SessionObject, ProxyAt
  <2>3. sess' = [sess EXCEPT ![s] = r]
    BY <1>8, SessionFacts DEF UpReaderStops
  <2>4. /\ r.down = sess[s].down /\ r.closed = sess[s].closed
        /\ r.at = sess[s].at /\ r.reader = "done" /\ r.status = sess[s].status
    BY <2>1 DEF SessionObject
  <2> HIDE DEF r
  <2>5. QED  BY <2>2, <2>3, <2>4, Update, SessionFacts DEF Moves
<1>9. ASSUME UpReaderFails(s) PROVE Moves(s)
  <2>1. sess[s] \in SessionObject
    BY SessionFacts
  <2> DEFINE r == [sess[s] EXCEPT !.reader = "done", !.ended = TRUE,
                              !.status = SetStatus(@, "upstream closed")]
  <2>2. r \in SessionObject
    BY <2>1 DEF SessionObject, ProxyAt, SetStatus, Status, Ended
  <2>3. sess' = [sess EXCEPT ![s] = r]
    BY <1>9, SessionFacts DEF UpReaderFails
  <2>4. /\ r.down = sess[s].down /\ r.closed = sess[s].closed
        /\ r.at = sess[s].at /\ r.reader = "done" /\ r.status \in Ended
    BY <2>1 DEF SessionObject, SetStatus, Status, Ended
  <2> HIDE DEF r
  <2>5. QED  BY <2>2, <2>3, <2>4, Update, SessionFacts DEF Moves, Ended
<1>10. ASSUME UpReaderReads(s) PROVE Moves(s)
  BY <1>10, SessionFacts DEF UpReaderReads, Moves, SessionObject, ProxyAt
<1>11. Moves(s)
  BY <1>1, <1>2, <1>3, <1>4, <1>5, <1>6, <1>7, <1>8, <1>9, <1>10
<1>12. QED
  BY <1>11, MovesInv
  DEF Lookup, Login, Encode, RequestPanics, AwaitTimesOut, PumpEnds, UserLeaves,
      UpReaderStops, UpReaderFails, UpReaderReads

\* A reader's message arrives: an answer connects the session, a close ends it.
LEMMA SessionReceivesInv ==
  ASSUME SessionInv, NEW c \in Conn, NEW s \in Session, SessionReceives(c, s)
  PROVE  SessionInv'
<1>1. /\ sess[s] \in SessionObject
      /\ sess[s].at \in {"pump", "await"}
      /\ sess[s].down # None
  BY SessionFacts DEF SessionReceives, Receives
<1>2. ASSUME sess' = sess PROVE Moves(s)
  BY <1>1, <1>2, SessionFacts DEF Moves
<1>3. ASSUME Http(s), sess' = [sess EXCEPT ![s].at = "leave"] PROVE Moves(s)
  BY <1>1, <1>3, SessionFacts DEF Moves, SessionObject, ProxyAt
<1>4. ASSUME ~Http(s), toUser[c].type = "connect", sess[s].status = "connecting",
             sess' = [sess EXCEPT ![s].status = "connected", ![s].at = "reenrol"]
      PROVE  Moves(s)
  <2> DEFINE r == [sess[s] EXCEPT !.status = "connected", !.at = "reenrol"]
  <2>1. agent[s] \in {"open", "ended"}
    BY <1>4 DEF SessionInv, AnswerWasGiven, SessionReceives
  <2>2. r \in SessionObject
    BY <1>1 DEF SessionObject, ProxyAt, Status
  <2>3. sess' = [sess EXCEPT ![s] = r]
    BY <1>4, SessionFacts
  <2>4. /\ r.down = sess[s].down /\ r.closed = sess[s].closed /\ r.at = "reenrol"
        /\ r.reader = sess[s].reader /\ r.status = "connected"
    BY <1>1 DEF SessionObject
  <2> HIDE DEF r
  <2>5. QED  BY <1>1, <1>4, <2>1, <2>2, <2>3, <2>4, Update, SessionFacts DEF Moves, Ended
<1>5. ASSUME sess' = [Leave(s) EXCEPT ![s].status = SetStatus(@, "downstream closed")]
      PROVE  Moves(s)
  <2> DEFINE r == [sess[s] EXCEPT !.at = "leave", !.ended = TRUE,
                              !.status = SetStatus(@, "downstream closed")]
  <2>1. r \in SessionObject
    BY <1>1 DEF SessionObject, ProxyAt, SetStatus, Status, Ended
  <2>2. sess' = [sess EXCEPT ![s] = r]
    BY <1>5, SessionFacts DEF Leave
  <2>3. /\ r.down = sess[s].down /\ r.closed = sess[s].closed /\ r.at = "leave"
        /\ r.reader = sess[s].reader /\ r.status \in Ended
    BY <1>1 DEF SessionObject, SetStatus, Ended
  <2> HIDE DEF r
  <2>4. QED  BY <1>1, <2>1, <2>2, <2>3, Update, SessionFacts DEF Moves, Ended
<1>6. toUser[c].type \in MessageType
  BY DEF SessionInv, SessionTypeOK, SessionReceives
<1>7. Moves(s)
  BY <1>2, <1>3, <1>4, <1>5, <1>6 DEF SessionReceives, MessageType
<1>8. QED  BY <1>7, MovesInv DEF SessionReceives

\* A writer takes what a session's reader, or an http handler, sends.
LEMMA WriterReceivesInv ==
  ASSUME SessionInv, NEW c \in Conn, NEW s \in Session, WriterReceives(c, s)
  PROVE  SessionInv'
<1>1. CASE sess[s].reader = "send" /\ sess' = [sess EXCEPT ![s].reader = "read"]
  <2>1. Moves(s)
    BY <1>1, SessionFacts DEF Moves, SessionObject
  <2>2. Http(s) \/ agent[s] \in {"open", "ended"}
    BY <1>1, SessionFacts
  <2>3. QED  BY <2>1, <2>2, MovesInv DEF WriterReceives
<1>2. CASE Http(s) /\ sess[s].at = "request" /\ sess' = [sess EXCEPT ![s].at = "await"]
  <2>1. Moves(s)
    BY <1>2, SessionFacts DEF Moves, SessionObject, ProxyAt
  <2>2. QED  BY <1>2, <2>1, MovesInv DEF WriterReceives
<1>3. QED  BY <1>1, <1>2 DEF WriterReceives

\* The hub takes a session to store it.
LEMMA HubTakesEnrolInv ==
  ASSUME SessionInv, NEW s \in Session, HubTakesEnrol(s)
  PROVE  SessionInv'
<1>1. /\ sess[s] \in SessionObject
      /\ sess[s].at \in {"enrol", "reenrol"}
      /\ sess[s].down # None
  BY SessionFacts DEF HubTakesEnrol
<1>2. ASSUME \/ sess' = [sess EXCEPT ![s].at = "encode"]
             \/ sess' = [sess EXCEPT ![s].at = "pump"]
      PROVE  Moves(s)
  BY <1>1, <1>2, SessionFacts DEF Moves, SessionObject, ProxyAt
<1>3. ASSUME sess' = [sess EXCEPT ![s].at = "pump", ![s].reader = "read"] PROVE Moves(s)
  <2> DEFINE r == [sess[s] EXCEPT !.at = "pump", !.reader = "read"]
  <2>1. r \in SessionObject
    BY <1>1 DEF SessionObject, ProxyAt
  <2>2. sess' = [sess EXCEPT ![s] = r]
    BY <1>3, SessionFacts
  <2>3. /\ r.down = sess[s].down /\ r.closed = sess[s].closed /\ r.at = "pump"
        /\ r.reader = "read" /\ r.status = sess[s].status
    BY <1>1 DEF SessionObject
  <2> HIDE DEF r
  <2>4. QED  BY <1>1, <2>1, <2>2, <2>3, Update, SessionFacts DEF Moves
<1>4. Moves(s)
  BY <1>1, <1>2, <1>3 DEF HubTakesEnrol
<1>5. QED  BY <1>1, <1>4, MovesInv DEF HubTakesEnrol, HubFree

\* The connect request is written; until then the agent said nothing.
LEMMA DialInv ==
  ASSUME SessionInv, NEW s \in Session, Dial(s)
  PROVE  SessionInv'
<1>1. CASE agent' = agent
  <2>1. Moves(s)
    BY SessionFacts DEF Dial, Moves, SessionObject, ProxyAt
  <2>2. QED  BY <1>1, <2>1, MovesInv DEF Dial
<1>2. CASE /\ agent' = [agent EXCEPT ![s] = "asked"]
           /\ sess' = [sess EXCEPT ![s].at = "enrol"]
  <2>1. SessionTypeOK /\ sess[s].down # None
    BY SessionFacts DEF SessionInv, Dial
  <2>2. /\ sess' \in [Session -> SessionObject]
        /\ \A t \in Session : /\ sess'[t].down = sess[t].down
                              /\ sess'[t].status = sess[t].status
                              /\ sess'[t].reader = sess[t].reader
                              /\ sess'[t].closed = sess[t].closed
                              /\ sess'[t].at # sess[t].at => sess'[t].at = "enrol" /\ t = s
    BY <1>2, SessionFacts DEF SessionObject, ProxyAt
  <2>3. sess[s].at = "dial" /\ UNCHANGED <<sessions, shub, toUser, toAgent, crash>>
    BY DEF Dial
  <2>4. /\ agent' \in [Session -> Hearsay]
        /\ \A t \in Session \ {s} : agent'[t] = agent[t]
    BY <1>2, <2>1 DEF SessionTypeOK, Hearsay
  <2>5. Http(s) \/ agent[s] = "unaware"
    BY <2>3 DEF SessionInv, UndialledIsUnaware
  <2>6. SessionTypeOK'
    BY <2>1, <2>2, <2>3, <2>4 DEF SessionTypeOK
  <2>7. HubHasAgent'
    <3>1. sessions \cup ({shub.session} \ {None}) \subseteq Session
      BY <2>1 DEF SessionTypeOK
    <3>2. QED  BY <3>1, <2>2, <2>3 DEF SessionInv, HubHasAgent
  <2>8. UndialledIsUnaware'
    BY <1>2, <2>2, <2>4 DEF SessionInv, UndialledIsUnaware, Http
  <2>9. AnswerWasGiven'
    <3>1. \A c \in Conn : toUser[c] # None => toUser[c].session \in Session
      BY <2>1 DEF SessionTypeOK
    <3>2. QED  BY <3>1, <2>3, <2>4, <2>5 DEF SessionInv, AnswerWasGiven, Http
  <2>10. ForwardedIsAnswered'
    BY <2>2, <2>3, <2>4, <2>5 DEF SessionInv, ForwardedIsAnswered, Http
  <2>11. ClosedIsOver'
    BY <2>2, <2>3 DEF SessionInv, ClosedIsOver
  <2>12. CloseIsOver'
    <3>1. /\ shub.op = "close" => shub.session \in Session
          /\ \A c \in Conn : toAgent[c] # None => toAgent[c].session \in Session
      BY <2>1 DEF SessionTypeOK
    <3>2. QED  BY <3>1, <2>2, <2>3 DEF SessionInv, CloseIsOver
  <2>13. DoneIsClosed'
    BY <2>2, <2>3 DEF SessionInv, DoneIsClosed, Http, Shub
  <2>14. RemovedIsClosed'
    BY <2>2, <2>3 DEF SessionInv, RemovedIsClosed, Http, Shub
  <2>15. QED
    BY <2>6, <2>7, <2>8, <2>9, <2>10, <2>11, <2>12, <2>13, <2>14 DEF SessionInv
<1>3. QED  BY <1>1, <1>2 DEF Dial

\* The agent's answers only take it from asked to open, and on to ended.
LEMMA ReaderReadsInv ==
  ASSUME SessionInv, NEW c \in Conn, NEW s \in Session, NEW type \in MessageType,
         ReaderReads(c, s, type)
  PROVE  SessionInv'
<1>1. SessionTypeOK /\ UNCHANGED <<sess, sessions, shub, toAgent, crash>>
  BY DEF SessionInv, ReaderReads
<1>2. agent \in [Session -> Hearsay]
  BY <1>1 DEF SessionTypeOK
<1>3. /\ agent' \in [Session -> Hearsay]
      /\ \A t \in Session \ {s} : agent'[t] = agent[t]
      /\ ~Http(s) /\ agent[s] \in {"open", "ended"} => agent'[s] \in {"open", "ended"}
      /\ ~Http(s) /\ type = "connect" => agent'[s] = "open"
      /\ ~Http(s) => agent[s] # "unaware"
  BY <1>2 DEF ReaderReads, MaySay, Hears, Hearsay, MessageType
<1>4. /\ toUser' \in [Conn -> [session : Session, type : MessageType] \cup {None}]
      /\ \A d \in Conn : toUser'[d] = toUser[d] \/ toUser'[d] = [session |-> s, type |-> type]
  <2>1. toUser \in [Conn -> [session : Session, type : MessageType] \cup {None}]
    BY <1>1 DEF SessionTypeOK
  <2>2. [session |-> s, type |-> type] \in [session : Session, type : MessageType]
    OBVIOUS
  <2>3. \/ toUser' = toUser
        \/ toUser' = [toUser EXCEPT ![c] = [session |-> s, type |-> type]]
    BY DEF ReaderReads
  <2>4. QED  BY <2>1, <2>2, <2>3
<1>5. SessionTypeOK'
  BY <1>1, <1>3, <1>4 DEF SessionTypeOK
<1>6. UndialledIsUnaware'
  BY <1>1, <1>3 DEF SessionInv, UndialledIsUnaware, Http
<1>7. AnswerWasGiven'
  <2>1. \A d \in Conn : toUser[d] # None => toUser[d].session \in Session
    BY <1>1 DEF SessionTypeOK
  <2>2. QED  BY <2>1, <1>3, <1>4 DEF SessionInv, AnswerWasGiven, Http
<1>8. ForwardedIsAnswered'
  BY <1>1, <1>3 DEF SessionInv, ForwardedIsAnswered, Http
<1>9. (HubHasAgent /\ ClosedIsOver /\ CloseIsOver /\ DoneIsClosed /\ RemovedIsClosed)'
  BY <1>1
  DEF SessionInv, HubHasAgent, ClosedIsOver, CloseIsOver, DoneIsClosed, RemovedIsClosed, Http
<1>10. QED  BY <1>5, <1>6, <1>7, <1>8, <1>9 DEF SessionInv

\* The steps in which sessions end and the hub works change nothing of what
\* was asked and answered.
LEMMA EndingKeeps ==
  ASSUME SessionInv, toUser' = toUser,
         \A t \in Session : Http(t) \/ agent'[t] = agent[t],
         \A t \in Session : /\ sess'[t].down = sess[t].down
                            /\ sess'[t].reader = sess[t].reader
                            /\ sess'[t].status # sess[t].status => sess'[t].status \in Ended
                            /\ sess'[t].at # sess[t].at => sess'[t].at \in {"unenrol", "done"},
         sessions' \subseteq sessions \cup ({shub.session} \ {None}),
         shub'.session \in sessions \cup {shub.session, None},
         \A c \in Conn : toAgent'[c] # None => /\ toAgent[c] # None
                                               /\ toAgent'[c].session = toAgent[c].session
  PROVE  (HubHasAgent /\ UndialledIsUnaware /\ AnswerWasGiven /\ ForwardedIsAnswered)'
<1>1. sessions \cup ({shub.session} \ {None}) \subseteq Session
  BY DEF SessionInv, SessionTypeOK
<1>2. HubHasAgent'
  BY <1>1 DEF SessionInv, HubHasAgent
<1>3. UndialledIsUnaware'
  BY DEF SessionInv, UndialledIsUnaware, Http
<1>4. AnswerWasGiven'
  <2>1. \A c \in Conn : toUser[c] # None => toUser[c].session \in Session
    BY DEF SessionInv, SessionTypeOK
  <2>2. QED  BY <2>1 DEF SessionInv, AnswerWasGiven, Http
<1>5. ForwardedIsAnswered'
  <2>1. ASSUME NEW t \in Session, ~Http(t)
        PROVE  /\ sess'[t].status = "connected" => sess[t].status = "connected"
               /\ sess'[t].reader = sess[t].reader /\ agent'[t] = agent[t]
    BY <2>1 DEF Ended
  <2>2. QED  BY <2>1 DEF SessionInv, ForwardedIsAnswered, Http
<1>6. QED  BY <1>2, <1>3, <1>4, <1>5

\* The deferred function leaves the session to the hub or closes it.
LEMMA DepartInv ==
  ASSUME SessionInv, NEW s \in Session, Depart(s)
  PROVE  SessionInv'
<1>1. /\ SessionTypeOK
      /\ sess[s].at = "leave"
      /\ UNCHANGED <<sessions, shub, toUser, toAgent, agent, crash>>
  BY DEF SessionInv, Depart
<1>2. /\ sess' \in [Session -> SessionObject]
      /\ \A t \in Session \ {s} : sess'[t] = sess[t]
      /\ sess'[s].down = sess[s].down
      /\ sess'[s].reader = sess[s].reader
      /\ sess'[s].status = sess[s].status
      /\ s \in sessions => sess'[s].at = "unenrol" /\ sess'[s].closed = sess[s].closed
      /\ s \notin sessions => sess'[s].at = "done" /\ sess'[s].closed
  <2>1. CASE s \in sessions
    BY <2>1, SessionFacts DEF Depart, SessionObject, ProxyAt
  <2>2. CASE s \notin sessions
    <3> DEFINE r == [sess[s] EXCEPT !.at = "done", !.closed = TRUE]
    <3>1. sess[s] \in SessionObject
      BY SessionFacts
    <3>2. r \in SessionObject
      BY <3>1 DEF SessionObject, ProxyAt
    <3>3. sess' = [sess EXCEPT ![s] = r]
      BY <2>2, SessionFacts DEF Depart
    <3>4. /\ r.down = sess[s].down /\ r.reader = sess[s].reader /\ r.status = sess[s].status
          /\ r.at = "done" /\ r.closed = TRUE
      BY <3>1 DEF SessionObject
    <3> HIDE DEF r
    <3>5. QED  BY <2>2, <3>2, <3>3, <3>4, Update, SessionFacts
  <2>3. QED  BY <2>1, <2>2
<1>3. sess[s].down = None => s \notin sessions
  BY DEF SessionInv, HubHasAgent, SessionTypeOK
<1>4. SessionTypeOK'
  BY <1>1, <1>2, <1>3 DEF SessionTypeOK
<1>5. (HubHasAgent /\ UndialledIsUnaware /\ AnswerWasGiven /\ ForwardedIsAnswered)'
  BY <1>1, <1>2, EndingKeeps DEF SessionTypeOK
<1>6. ClosedIsOver'
  BY <1>1, <1>2 DEF SessionInv, ClosedIsOver
<1>7. CloseIsOver'
  <2>1. /\ shub.op = "close" => shub.session \in Session
        /\ \A c \in Conn : toAgent[c] # None => toAgent[c].session \in Session
    BY <1>1 DEF SessionTypeOK
  <2>2. QED  BY <2>1, <1>1, <1>2 DEF SessionInv, CloseIsOver
<1>8. DoneIsClosed'
  BY <1>1, <1>2 DEF SessionInv, DoneIsClosed, Http, Shub
<1>9. RemovedIsClosed'
  BY <1>1, <1>2 DEF SessionInv, RemovedIsClosed, Http, Shub
<1>10. QED  BY <1>4, <1>5, <1>6, <1>7, <1>8, <1>9 DEF SessionInv

\* The hub takes a session to remove it, from its handler ...
LEMMA HubTakesUnenrolInv ==
  ASSUME SessionInv, NEW s \in Session, HubTakesUnenrol(s)
  PROVE  SessionInv'
<1>1. /\ SessionTypeOK
      /\ shub = Idle /\ sess[s].at = "unenrol"
      /\ sessions' = sessions \ {s}
      /\ shub' = IF s \in sessions /\ ~Http(s) THEN Shub("close", s) ELSE Idle
      /\ UNCHANGED <<toUser, toAgent, agent, crash>>
  BY DEF SessionInv, HubTakesUnenrol, HubFree, Removes
<1>2. /\ sess' \in [Session -> SessionObject]
      /\ \A t \in Session \ {s} : sess'[t] = sess[t]
      /\ sess'[s].at = "done"
      /\ sess'[s].down = sess[s].down
      /\ sess'[s].reader = sess[s].reader
      /\ sess'[s].status = sess[s].status
      /\ sess'[s].closed = sess[s].closed
  BY SessionFacts DEF HubTakesUnenrol, SessionObject, ProxyAt
<1>3. /\ shub' \in [op : ShubOp, session : Session \cup {None}]
      /\ shub'.session = None <=> shub'.op = "select"
  BY <1>1, SessionAssumption DEF Shub, Idle, ShubOp
<1>4. SessionTypeOK'
  BY <1>1, <1>2, <1>3 DEF SessionTypeOK
<1>5. (HubHasAgent /\ UndialledIsUnaware /\ AnswerWasGiven /\ ForwardedIsAnswered)'
  <2>1. shub'.session \in sessions \cup {None}
    BY <1>1 DEF Shub, Idle
  <2>2. QED  BY <1>1, <1>2, <2>1, EndingKeeps DEF SessionTypeOK
<1>6. ClosedIsOver'
  BY <1>2 DEF SessionInv, ClosedIsOver
<1>7. CloseIsOver'
  <2>1. \A c \in Conn : toAgent[c] # None => toAgent[c].session \in Session
    BY <1>1 DEF SessionTypeOK
  <2>2. shub'.op = "close" => shub'.session = s
    BY <1>1 DEF Shub, Idle
  <2>3. QED  BY <2>1, <2>2, <1>1, <1>2 DEF SessionInv, CloseIsOver
<1>8. \A t \in Session : shub # Shub("close", t)
  BY <1>1 DEF Shub, Idle
<1>9. DoneIsClosed'
  BY <1>1, <1>2, <1>8 DEF SessionInv, DoneIsClosed, RemovedIsClosed, Http
<1>10. RemovedIsClosed'
  BY <1>1, <1>2, <1>8 DEF SessionInv, RemovedIsClosed, Http
<1>11. QED  BY <1>4, <1>5, <1>6, <1>7, <1>9, <1>10 DEF SessionInv

\* ... or from a writer that could not write for it.
LEMMA HubTakesFailedInv ==
  ASSUME SessionInv, NEW c \in Conn, HubTakesFailed(c)
  PROVE  SessionInv'
<1> DEFINE s == toAgent[c].session
<1>1. /\ SessionTypeOK
      /\ shub = Idle
      /\ toAgent[c] # None /\ toAgent[c].at = "unenrol"
      /\ sessions' = sessions \ {s}
      /\ shub' = IF s \in sessions /\ ~Http(s) THEN Shub("close", s) ELSE Idle
      /\ toAgent' = [toAgent EXCEPT ![c] = None]
      /\ UNCHANGED <<sess, toUser, agent, crash>>
  BY DEF SessionInv, HubTakesFailed, HubFree, Removes
<1>2. s \in Session /\ sess[s].status \in Ended
  BY <1>1 DEF SessionInv, SessionTypeOK, CloseIsOver
<1>3. /\ toAgent' \in [Conn -> [session : Session, at : {"write", "unenrol"}] \cup {None}]
      /\ \A d \in Conn : toAgent'[d] \in {toAgent[d], None}
  BY <1>1 DEF SessionTypeOK
<1> HIDE DEF s
<1>4. /\ shub' \in [op : ShubOp, session : Session \cup {None}]
      /\ shub'.session = None <=> shub'.op = "select"
  BY <1>1, <1>2, SessionAssumption DEF Shub, Idle, ShubOp
<1>5. SessionTypeOK'
  BY <1>1, <1>3, <1>4 DEF SessionTypeOK
<1>6. (HubHasAgent /\ UndialledIsUnaware /\ AnswerWasGiven /\ ForwardedIsAnswered)'
  <2>1. shub'.session \in sessions \cup {None}
    BY <1>1 DEF Shub, Idle
  <2>2. QED  BY <1>1, <1>3, <2>1, EndingKeeps DEF SessionTypeOK
<1>7. ClosedIsOver'
  BY <1>1 DEF SessionInv, ClosedIsOver
<1>8. CloseIsOver'
  <2>1. shub'.op = "close" => shub'.session = s
    BY <1>1 DEF Shub, Idle
  <2>2. QED  BY <2>1, <1>1, <1>2, <1>3 DEF SessionInv, CloseIsOver
<1>9. \A t \in Session : shub # Shub("close", t)
  BY <1>1 DEF Shub, Idle
<1>10. DoneIsClosed'
  BY <1>1, <1>9 DEF SessionInv, DoneIsClosed, Http
<1>11. RemovedIsClosed'
  BY <1>1, <1>2, <1>9 DEF SessionInv, RemovedIsClosed, Http
<1>12. QED  BY <1>5, <1>6, <1>7, <1>8, <1>10, <1>11 DEF SessionInv

\* The hub stores the session it took.
LEMMA HubStoresSessionInv ==
  ASSUME SessionInv, HubStoresSession
  PROVE  SessionInv'
<1>1. /\ SessionTypeOK
      /\ shub.op = "store"
      /\ sessions' = sessions \cup {shub.session}
      /\ shub' = Shub("announce", shub.session)
      /\ UNCHANGED <<sess, toUser, toAgent, agent, crash>>
  BY DEF SessionInv, HubStoresSession
<1>2. shub.session \in Session /\ shub.session # None
  BY <1>1, SessionAssumption DEF SessionTypeOK
<1>3. /\ shub' \in [op : ShubOp, session : Session \cup {None}]
      /\ shub'.session = None <=> shub'.op = "select"
  BY <1>1, <1>2 DEF Shub, ShubOp
<1>4. SessionTypeOK'
  BY <1>1, <1>2, <1>3 DEF SessionTypeOK
<1>5. (HubHasAgent /\ UndialledIsUnaware /\ AnswerWasGiven /\ ForwardedIsAnswered)'
  <2>1. shub'.session \in {shub.session}
    BY <1>1 DEF Shub
  <2>2. QED  BY <1>1, <1>2, <2>1, EndingKeeps
<1>6. \A t \in Session : shub # Shub("close", t) /\ shub' # Shub("close", t)
  BY <1>1 DEF Shub
<1>7. (ClosedIsOver /\ DoneIsClosed /\ RemovedIsClosed)'
  BY <1>1, <1>6 DEF SessionInv, ClosedIsOver, DoneIsClosed, RemovedIsClosed, Http
<1>8. CloseIsOver'
  BY <1>1 DEF SessionInv, CloseIsOver, Shub
<1>9. QED  BY <1>4, <1>5, <1>7, <1>8 DEF SessionInv

\* The hub has told of the session it stored.
LEMMA HubAnnouncesInv ==
  ASSUME SessionInv, HubAnnounces
  PROVE  SessionInv'
<1>1. /\ SessionTypeOK
      /\ shub.op = "announce"
      /\ shub' = Idle
      /\ UNCHANGED <<sess, sessions, toUser, toAgent, agent, crash>>
  BY DEF SessionInv, HubAnnounces
<1>2. shub'.session = None /\ shub'.op = "select" /\ shub' \in [op : ShubOp, session : Session \cup {None}]
  BY <1>1 DEF Shub, Idle, ShubOp
<1>3. SessionTypeOK'
  BY <1>1, <1>2 DEF SessionTypeOK
<1>4. (HubHasAgent /\ UndialledIsUnaware /\ AnswerWasGiven /\ ForwardedIsAnswered)'
  BY <1>1, <1>2, EndingKeeps
<1>5. \A t \in Session : shub # Shub("close", t)
  BY <1>1 DEF Shub
<1>6. (ClosedIsOver /\ DoneIsClosed /\ RemovedIsClosed)'
  BY <1>1, <1>5 DEF SessionInv, ClosedIsOver, DoneIsClosed, RemovedIsClosed, Http
<1>7. CloseIsOver'
  BY <1>1, <1>2 DEF SessionInv, CloseIsOver
<1>8. QED  BY <1>3, <1>4, <1>6, <1>7 DEF SessionInv

\* The hub closes the session it removed.
LEMMA HubClosesSessionInv ==
  ASSUME SessionInv, HubClosesSession
  PROVE  SessionInv'
<1> DEFINE s == shub.session
<1>1. /\ SessionTypeOK
      /\ shub.op = "close"
      /\ shub' = Idle
      /\ UNCHANGED <<sessions, toUser, toAgent, agent, crash>>
  BY DEF SessionInv, HubClosesSession
<1>2. s \in Session
  BY <1>1 DEF SessionTypeOK
<1>3. /\ sess' \in [Session -> SessionObject]
      /\ \A t \in Session : /\ sess'[t].at = sess[t].at
                            /\ sess'[t].down = sess[t].down
                            /\ sess'[t].reader = sess[t].reader
                            /\ sess'[t].status = sess[t].status
                            /\ t # s => sess'[t].closed = sess[t].closed
      /\ sess'[s].closed
  <2> DEFINE r == [sess[s] EXCEPT !.closed = TRUE]
  <2>1. sess[s] \in SessionObject /\ sess \in [Session -> SessionObject]
    BY <1>1, <1>2 DEF SessionTypeOK
  <2>2. r \in SessionObject
    BY <2>1 DEF SessionObject
  <2>3. sess' = [sess EXCEPT ![s] = r]
    BY <2>1, <1>2 DEF HubClosesSession
  <2>4. /\ r.at = sess[s].at /\ r.down = sess[s].down /\ r.reader = sess[s].reader
        /\ r.status = sess[s].status /\ r.closed = TRUE
    BY <2>1 DEF SessionObject
  <2> HIDE DEF r, s
  <2>5. QED  BY <1>2, <2>1, <2>2, <2>3, <2>4, Update
<1>4. /\ sess[s].at = "done" \/ sess[s].status \in Ended
      /\ \A t \in Session : shub = Shub("close", t) => t = s
  BY <1>1 DEF SessionInv, CloseIsOver, Shub
<1>5. shub'.session = None /\ shub'.op = "select"
  BY <1>1 DEF Shub, Idle
<1> HIDE DEF s
<1>6. SessionTypeOK'
  BY <1>1, <1>3 DEF SessionTypeOK, Idle, Shub, ShubOp
<1>7. (HubHasAgent /\ UndialledIsUnaware /\ AnswerWasGiven /\ ForwardedIsAnswered)'
  BY <1>1, <1>3, <1>5, EndingKeeps
<1>8. ClosedIsOver'
  BY <1>3, <1>4 DEF SessionInv, ClosedIsOver
<1>9. CloseIsOver'
  <2>1. \A c \in Conn : toAgent[c] # None => toAgent[c].session \in Session
    BY DEF SessionInv, SessionTypeOK
  <2>2. \A c \in Conn : toAgent[c] # None /\ toAgent[c].at = "unenrol"
                          => sess'[toAgent[c].session].status \in Ended
    BY <2>1, <1>3 DEF SessionInv, CloseIsOver
  <2>3. QED  BY <2>2, <1>1, <1>5 DEF CloseIsOver
<1>10. (DoneIsClosed /\ RemovedIsClosed)'
  BY <1>1, <1>3, <1>4 DEF SessionInv, DoneIsClosed, RemovedIsClosed, Http
<1>11. QED  BY <1>6, <1>7, <1>8, <1>9, <1>10 DEF SessionInv

\* A writer writes: only an http request asks the agent something by this.
LEMMA WriterWritesInv ==
  ASSUME SessionInv, NEW c \in Conn, WriterWrites(c)
  PROVE  SessionInv'
<1>1. /\ toAgent[c] # None
      /\ toAgent' = [toAgent EXCEPT ![c] = None]
      /\ UNCHANGED <<sess, sessions, shub, toUser, crash>>
      /\ \/ agent' = agent
         \/ /\ Http(toAgent[c].session)
            /\ agent' = [agent EXCEPT ![toAgent[c].session] = "asked"]
  BY DEF WriterWrites
<1>2. SessionTypeOK
  BY DEF SessionInv
<1>3. /\ toAgent' \in [Conn -> [session : Session, at : {"write", "unenrol"}] \cup {None}]
      /\ \A d \in Conn : toAgent'[d] \in {toAgent[d], None}
      /\ toAgent[c].session \in Session
  BY <1>1, <1>2 DEF SessionTypeOK
<1>4. agent \in [Session -> Hearsay]
  BY <1>2 DEF SessionTypeOK
<1>5. /\ agent' \in [Session -> Hearsay]
      /\ \A t \in Session : Http(t) \/ agent'[t] = agent[t]
  BY <1>1, <1>3, <1>4 DEF Hearsay
<1>6. SessionTypeOK'
  BY <1>1, <1>2, <1>3, <1>5 DEF SessionTypeOK
<1>7. (HubHasAgent /\ UndialledIsUnaware /\ AnswerWasGiven /\ ForwardedIsAnswered)'
  BY <1>1, <1>3, <1>5, EndingKeeps
<1>8. (ClosedIsOver /\ DoneIsClosed /\ RemovedIsClosed)'
  BY <1>1 DEF SessionInv, ClosedIsOver, DoneIsClosed, RemovedIsClosed, Http
<1>9. CloseIsOver'
  BY <1>1, <1>3 DEF SessionInv, CloseIsOver
<1>10. QED  BY <1>6, <1>7, <1>8, <1>9 DEF SessionInv

\* A writer that fails records an end of its session, if it is one the hub
\* knows, before it hands the session to the hub.
LEMMA WriterFailsOnly ==
  ASSUME SessionInv, NEW c \in Conn, WriterFails(c)
  PROVE  /\ sess' \in [Session -> SessionObject]
         /\ \A t \in Session : /\ sess'[t].down = sess[t].down
                               /\ sess'[t].reader = sess[t].reader
                               /\ sess'[t].at = sess[t].at
                               /\ sess'[t].closed = sess[t].closed
                               /\ sess'[t].status # sess[t].status => sess'[t].status \in Ended
         /\ toAgent' \in [Conn -> [session : Session, at : {"write", "unenrol"}] \cup {None}]
         /\ \A d \in Conn : toAgent'[d] # None =>
               /\ toAgent[d] # None
               /\ toAgent'[d].session = toAgent[d].session
               /\ toAgent'[d].at = "unenrol" =>
                     toAgent[d].at = "unenrol" \/ sess'[toAgent'[d].session].status \in Ended
<1>1. toAgent[c] # None
  BY DEF WriterFails
<1>2. SessionTypeOK
  BY DEF SessionInv
<1>3. toAgent[c].session \in Session
  BY <1>1, <1>2 DEF SessionTypeOK
<1>4. toAgent \in [Conn -> [session : Session, at : {"write", "unenrol"}] \cup {None}]
  BY <1>2 DEF SessionTypeOK
<1> DEFINE u == toAgent[c].session
<1>5. CASE u \in sessions
  <2> DEFINE r == [sess[u] EXCEPT !.status = SetStatus(@, "downstream closed")]
  <2>1. sess[u] \in SessionObject /\ sess \in [Session -> SessionObject]
    BY <1>2, <1>3 DEF SessionTypeOK
  <2>2. r \in SessionObject
    BY <2>1 DEF SessionObject, SetStatus, Status, Ended
  <2>3. /\ sess' = [sess EXCEPT ![u] = r]
        /\ toAgent' = [toAgent EXCEPT ![c].at = "unenrol"]
    BY <1>3, <1>5, <2>1 DEF WriterFails
  <2>4. /\ r.at = sess[u].at /\ r.down = sess[u].down /\ r.reader = sess[u].reader
        /\ r.closed = sess[u].closed /\ r.status \in Ended
    BY <2>1 DEF SessionObject, SetStatus, Ended
  <2>5. /\ toAgent' \in [Conn -> [session : Session, at : {"write", "unenrol"}] \cup {None}]
        /\ toAgent'[c].session = u
        /\ \A d \in Conn \ {c} : toAgent'[d] = toAgent[d]
    BY <1>1, <1>4, <2>3
  <2>6. u \in Session
    BY <1>3
  <2> HIDE DEF r, u
  <2>7. /\ sess' \in [Session -> SessionObject]
        /\ sess'[u] = r
        /\ \A t \in Session \ {u} : sess'[t] = sess[t]
    BY <2>1, <2>2, <2>3, <2>6, Update
  <2>8. QED  BY <1>1, <2>4, <2>5, <2>7 DEF u
<1>6. CASE u \notin sessions
  <2>1. sess' = sess /\ toAgent' = [toAgent EXCEPT ![c] = None]
    BY <1>6 DEF WriterFails
  <2>2. QED  BY <1>2, <1>4, <2>1 DEF SessionTypeOK
<1>7. QED  BY <1>5, <1>6

\* A failed write to the agent keeps SessionInv: it records the session's end.
LEMMA WriterFailsInv ==
  ASSUME SessionInv, NEW c \in Conn, WriterFails(c)
  PROVE  SessionInv'
<1>1. UNCHANGED <<sessions, shub, toUser, agent, crash>>
  BY DEF WriterFails
<1>2. SessionTypeOK
  BY DEF SessionInv
<1>3. /\ sess' \in [Session -> SessionObject]
      /\ \A t \in Session : /\ sess'[t].down = sess[t].down
                            /\ sess'[t].reader = sess[t].reader
                            /\ sess'[t].at = sess[t].at
                            /\ sess'[t].closed = sess[t].closed
                            /\ sess'[t].status # sess[t].status => sess'[t].status \in Ended
      /\ toAgent' \in [Conn -> [session : Session, at : {"write", "unenrol"}] \cup {None}]
      /\ \A d \in Conn : toAgent'[d] # None =>
            /\ toAgent[d] # None
            /\ toAgent'[d].session = toAgent[d].session
            /\ toAgent'[d].at = "unenrol" =>
                  toAgent[d].at = "unenrol" \/ sess'[toAgent'[d].session].status \in Ended
  BY WriterFailsOnly
<1>4. SessionTypeOK'
  BY <1>1, <1>2, <1>3 DEF SessionTypeOK
<1>5. (HubHasAgent /\ UndialledIsUnaware /\ AnswerWasGiven /\ ForwardedIsAnswered)'
  <2>1. /\ sessions' \subseteq sessions \cup ({shub.session} \ {None})
        /\ shub'.session \in sessions \cup {shub.session, None}
    BY <1>1
  <2>2. QED  BY <1>1, <1>3, <2>1, EndingKeeps
<1>6. ClosedIsOver'
  BY <1>3 DEF SessionInv, ClosedIsOver
<1>7. CloseIsOver'
  <2>1. shub.op = "close" => shub.session \in Session
    BY <1>2 DEF SessionTypeOK
  <2>2. \A d \in Conn : toAgent[d] # None => toAgent[d].session \in Session
    BY <1>2 DEF SessionTypeOK
  <2>3. QED  BY <1>1, <1>3, <2>1, <2>2 DEF SessionInv, CloseIsOver
<1>8. (DoneIsClosed /\ RemovedIsClosed)'
  BY <1>1, <1>3 DEF SessionInv, DoneIsClosed, RemovedIsClosed, Http, Shub
<1>9. QED  BY <1>4, <1>5, <1>6, <1>7, <1>8 DEF SessionInv

\* The steps of Registry, and a panic, leave the sessions alone.
LEMMA FrameSession ==
  ASSUME SessionInv, UNCHANGED <<sess, sessions, shub, toUser, toAgent, agent>>,
         crash' \in {"no", "send to user", "send to agent"}
  PROVE  SessionInv'
BY DEF SessionInv, SessionTypeOK, HubHasAgent, UndialledIsUnaware, AnswerWasGiven,
       ForwardedIsAnswered, ClosedIsOver, CloseIsOver, DoneIsClosed, RemovedIsClosed, Http

\* No session exists yet.
LEMMA InitSession == Init => SessionInv
<1> SUFFICES ASSUME Init PROVE SessionInv
  OBVIOUS
<1> USE SessionAssumption DEF Init, Idle, Shub
<1>1. SessionTypeOK
  BY DEF SessionTypeOK, SessionObject, ProxyAt, Status, Ended, ShubOp, Hearsay
<1>2. HubHasAgent /\ UndialledIsUnaware /\ AnswerWasGiven /\ ForwardedIsAnswered
  BY DEF HubHasAgent, UndialledIsUnaware, AnswerWasGiven, ForwardedIsAnswered
<1>3. ClosedIsOver /\ CloseIsOver /\ DoneIsClosed /\ RemovedIsClosed
  BY DEF ClosedIsOver, CloseIsOver, DoneIsClosed, RemovedIsClosed
<1>4. QED  BY <1>1, <1>2, <1>3 DEF SessionInv

\* Every step of the server keeps the sessions' invariant.
LEMMA StepSession ==
  ASSUME RegistryTypeOK, SessionInv, [Next]_vars
  PROVE  SessionInv'
<1>1. crash \in {"no", "send to user", "send to agent"}
  BY DEF SessionInv, SessionTypeOK
<1>2. ASSUME RegistryStep PROVE SessionInv'
  <2>1. UNCHANGED svars
    BY <1>2 DEF RegistryStep, ConnStep
  <2>2. QED  BY <1>1, <2>1, FrameSession DEF svars
<1>3. ASSUME ShubStep PROVE SessionInv'
  BY <1>3, HubStoresSessionInv, HubAnnouncesInv, HubClosesSessionInv DEF ShubStep
<1>4. ASSUME NEW s \in Session, SessionStep(s) PROVE SessionInv'
  <2>1. ASSUME UpReaderPanics(s) PROVE SessionInv'
    BY <2>1, FrameSession DEF UpReaderPanics
  <2>2. QED
    BY <1>4, <2>1, MovesInvSteps, DialInv, DepartInv, HubTakesEnrolInv, HubTakesUnenrolInv
    DEF SessionStep
<1>5. ASSUME NEW c \in Conn, PumpStep(c) PROVE SessionInv'
  <2>1. ASSUME ReaderPanics(c) PROVE SessionInv'
    BY <2>1, FrameSession DEF ReaderPanics
  <2>2. ASSUME NEW s \in Session,
               \/ SessionReceives(c, s) \/ WriterReceives(c, s)
               \/ \E type \in MessageType : ReaderReads(c, s, type)
        PROVE  SessionInv'
    BY <2>2, SessionReceivesInv, WriterReceivesInv, ReaderReadsInv
  <2>3. QED
    BY <1>5, <2>1, <2>2, WriterWritesInv, WriterFailsInv, HubTakesFailedInv DEF PumpStep
<1>6. ASSUME UNCHANGED vars PROVE SessionInv'
  BY <1>1, <1>6, FrameSession DEF vars, svars
<1>7. QED  BY <1>2, <1>3, <1>4, <1>5, <1>6 DEF Next

\* Every step of the server is one of its register or leaves the register
\* alone: what sessions do to a connection, its own goroutines could have done.
LEMMA StepsOfRegistry == [Next]_vars => [RegistryNext]_rvars
<1> SUFFICES ASSUME [Next]_vars PROVE [RegistryNext]_rvars
  OBVIOUS
<1>1. ASSUME RegistryStep PROVE RegistryNext
  BY <1>1 DEF RegistryStep, ConnStep, RegistryNext, Environment
<1>2. ASSUME ShubStep PROVE UNCHANGED rvars
  BY <1>2 DEF ShubStep, HubStoresSession, HubAnnounces, HubClosesSession
<1>3. ASSUME NEW s \in Session, SessionStep(s) PROVE UNCHANGED rvars
  BY <1>3
  DEF SessionStep, Lookup, Login, Dial, Encode, RequestPanics, AwaitTimesOut, Depart, PumpEnds,
      UserLeaves, UpReaderStops, UpReaderFails, UpReaderReads, UpReaderPanics, HubTakesEnrol,
      HubTakesUnenrol
<1>4. ASSUME NEW c \in Conn, PumpStep(c) PROVE [RegistryNext]_rvars
  <2>1. ASSUME WriterFails(c) \/ HubTakesFailed(c) PROVE WriterExits(c) \/ UNCHANGED rvars
    BY <2>1 DEF WriterFails, HubTakesFailed
  <2>2. ASSUME \/ ReaderPanics(c) \/ WriterWrites(c)
               \/ \E s \in Session :
                     \/ SessionReceives(c, s) \/ WriterReceives(c, s)
                     \/ \E type \in MessageType : ReaderReads(c, s, type)
        PROVE  UNCHANGED rvars
    BY <2>2 DEF ReaderPanics, WriterWrites, SessionReceives, WriterReceives, ReaderReads
  <2>3. QED  BY <1>4, <2>1, <2>2 DEF PumpStep, RegistryNext
<1>5. ASSUME UNCHANGED vars PROVE UNCHANGED rvars
  BY <1>5 DEF vars
<1>6. QED  BY <1>1, <1>2, <1>3, <1>4, <1>5 DEF Next

-----------------------------------------------------------------------------
\* The pumps that carry messages, the writer that ends a session and the
\* hub's session operations never take a connection through a step that the
\* register alone could not take.
THEOREM ServerImplementsRegistry == Spec => RegistryRefined
<1>1. Init => RegistryInit
  BY DEF Init
<1>2. QED  BY <1>1, StepsOfRegistry, PTL DEF Spec, RegistryRefined

\* What is proved of the register alone therefore holds in the server: a proxy
\* request never finds an agent whose register handler was unregistered.
THEOREM ServerEntriesAreServed == Spec => []EntryIsServed
<1>1. RegistryInit => RegistryInv
  BY InitInv
<1>2. RegistryInv /\ [RegistryNext]_rvars => RegistryInv'
  BY StepInv
<1>3. RegistryInv => EntryIsServed
  BY DEF RegistryInv
<1>4. QED  BY <1>1, <1>2, <1>3, ServerImplementsRegistry, PTL DEF RegistryRefined

\* SessionInv holds in every reachable state of the server, and every variable
\* keeps its range: in particular the pumps never work for a session without
\* an agent.
THEOREM SessionInvariant == Spec => [](TypeOK /\ SessionInv)
<1>1. Init => RegistryInv /\ SessionInv
  BY InitInv, InitSession DEF Init
<1>2. RegistryInv /\ SessionInv /\ [Next]_vars => RegistryInv' /\ SessionInv'
  <2>1. RegistryInv => RegistryTypeOK
    BY DEF RegistryInv
  <2>2. QED  BY <2>1, StepsOfRegistry, StepInv, StepSession
<1>3. RegistryInv /\ SessionInv => TypeOK
  BY DEF RegistryInv, SessionInv, TypeOK
<1>4. QED  BY <1>1, <1>2, <1>3, PTL DEF Spec

\* Every variable of the server keeps its range; in particular only a session
\* that was not looked up yet, or in vain, is without an agent.
THEOREM ServerTypeCorrect == Spec => []TypeOK
BY SessionInvariant, PTL

\* A user's data never reaches an agent that has not answered the session's
\* connect request, in whatever order answer, status and data are passed on.
THEOREM ForwardedAreAnswered == Spec => []ForwardedIsAnswered
<1>1. SessionInv => ForwardedIsAnswered
  BY DEF SessionInv
<1>2. QED  BY <1>1, SessionInvariant, PTL

\* A session's Send is closed under a running handler only after an end of the
\* session was recorded.
THEOREM ClosedAreOver == Spec => []ClosedIsOver
<1>1. SessionInv => ClosedIsOver
  BY DEF SessionInv
<1>2. QED  BY <1>1, SessionInvariant, PTL

\* No stream's handler returns and leaves the user's websocket open.
THEOREM DoneAreClosed == Spec => []DoneIsClosed
<1>1. SessionInv => DoneIsClosed
  BY DEF SessionInv
<1>2. QED  BY <1>1, SessionInvariant, PTL

-----------------------------------------------------------------------------
(* Liveness: connections go on.                                            *)

\* What any step does to a connection: it goes on from one stage of its
\* register handler to the next, its ends last, a link that broke included, and a
\* writer that returns cancels it.
ConnGoesOn(c) ==
    /\ handler'[c] \in Handler
    /\ \/ handler'[c] = handler[c]
       \/ handler[c] = "free" /\ handler'[c] = "upgraded"
       \/ handler[c] = "upgraded" /\ handler'[c] \in {"registering", "gone"}
       \/ handler[c] = "registering" /\ handler'[c] = "ping"
       \/ handler[c] = "ping" /\ handler'[c] = "leaving"
       \/ handler[c] = "leaving" /\ handler'[c] = "gone"
    /\ handler[c] # "free" => /\ cancelled[c] => cancelled'[c]
                              /\ closed[c] => closed'[c]
                              /\ link[c] = "down" => link'[c] = "down"
    /\ \/ writer'[c] = writer[c]
       \/ handler[c] = "free" /\ writer'[c] = "off"
       \/ handler[c] = "registering" /\ writer'[c] = "run"
       \/ writer[c] = "run" /\ writer'[c] = "done" /\ cancelled'[c]

\* The steps of the register that the composed server takes.
SlotNext ==
    \/ \E c \in Conn : \/ Upgrade(c) /\ handler[c] = "free"
                       \/ Refuse(c) \/ CheckOffline(c) \/ PingEnds(c) \/ LinkBreaks(c)
                       \/ ReaderExits(c) \/ WriterExits(c)
                       \/ HubTakesRegister(c) \/ HubTakesUnregister(c)
    \/ HubStep
    \/ \E i \in Id : ManualDisconnect(i)

\* Every step of the server is one of these or leaves the register alone.
LEMMA SlotStep == [Next]_vars => [SlotNext]_rvars
<1> SUFFICES ASSUME [Next]_vars PROVE [SlotNext]_rvars
  OBVIOUS
<1>1. ASSUME RegistryStep PROVE SlotNext
  BY <1>1 DEF RegistryStep, ConnStep, SlotNext
<1>2. ASSUME ShubStep PROVE UNCHANGED rvars
  BY <1>2 DEF ShubStep, HubStoresSession, HubAnnounces, HubClosesSession
<1>3. ASSUME NEW s \in Session, SessionStep(s) PROVE UNCHANGED rvars
  BY <1>3
  DEF SessionStep, Lookup, Login, Dial, Encode, RequestPanics, AwaitTimesOut, Depart, PumpEnds,
      UserLeaves, UpReaderStops, UpReaderFails, UpReaderReads, UpReaderPanics, HubTakesEnrol,
      HubTakesUnenrol
<1>4. ASSUME NEW c \in Conn, PumpStep(c) PROVE [SlotNext]_rvars
  <2>1. ASSUME WriterFails(c) \/ HubTakesFailed(c) PROVE WriterExits(c) \/ UNCHANGED rvars
    BY <2>1 DEF WriterFails, HubTakesFailed
  <2>2. ASSUME \/ ReaderPanics(c) \/ WriterWrites(c)
               \/ \E s \in Session :
                     \/ SessionReceives(c, s) \/ WriterReceives(c, s)
                     \/ \E type \in MessageType : ReaderReads(c, s, type)
        PROVE  UNCHANGED rvars
    BY <2>2 DEF ReaderPanics, WriterWrites, SessionReceives, WriterReceives, ReaderReads
  <2>3. QED  BY <1>4, <2>1, <2>2 DEF PumpStep, SlotNext
<1>5. ASSUME UNCHANGED vars PROVE UNCHANGED rvars
  BY <1>5 DEF vars
<1>6. QED  BY <1>1, <1>2, <1>3, <1>4, <1>5 DEF Next

\* With them a connection goes on as ConnGoesOn says, and only one that is served has pumps.
LEMMA ConnWalks ==
  ASSUME RegistryInv, [SlotNext]_rvars, \A d \in Conn : PumpStarted(d), NEW c \in Conn
  PROVE  ConnGoesOn(c) /\ PumpStarted(c)'
<1> USE RegistryAssumption DEF RegistryInv, RegistryTypeOK, ConnGoesOn, PumpStarted, Handler
<1>1. ASSUME NEW d \in Conn, Upgrade(d), handler[d] = "free" PROVE ConnGoesOn(c) /\ PumpStarted(c)'
  BY <1>1 DEF Upgrade, Released
<1>2. ASSUME NEW d \in Conn, Refuse(d) \/ CheckOffline(d) \/ PingEnds(d)
      PROVE  ConnGoesOn(c) /\ PumpStarted(c)'
  BY <1>2 DEF Refuse, CheckOffline, PingEnds
<1>3. ASSUME NEW d \in Conn, ReaderExits(d) \/ WriterExits(d) \/ LinkBreaks(d)
      PROVE  ConnGoesOn(c) /\ PumpStarted(c)'
  BY <1>3 DEF ReaderExits, WriterExits, LinkBreaks
<1>4. ASSUME NEW d \in Conn, HubTakesRegister(d) PROVE ConnGoesOn(c) /\ PumpStarted(c)'
  BY <1>4 DEF HubTakesRegister, Hub, Selecting
<1>5. ASSUME NEW d \in Conn, HubTakesUnregister(d) PROVE ConnGoesOn(c) /\ PumpStarted(c)'
  BY <1>5 DEF HubTakesUnregister, Hub, Selecting
<1>6. CASE HubStores \/ HubDeletes
  BY <1>6 DEF HubStores, HubDeletes, Selecting, Hub
<1>7. CASE HubCloses
  BY <1>7 DEF HubCloses, Hub, HubHoldsLive
<1>8. ASSUME NEW i \in Id, ManualDisconnect(i) PROVE ConnGoesOn(c) /\ PumpStarted(c)'
  BY <1>8 DEF ManualDisconnect
<1>9. CASE UNCHANGED rvars
  BY <1>9 DEF rvars
<1>10. QED
  BY <1>1, <1>2, <1>3, <1>4, <1>5, <1>6, <1>7, <1>8, <1>9 DEF SlotNext, HubStep

-----------------------------------------------------------------------------
(* ... and so do sessions.                                                 *)

\* What any step does to a session s: its handler goes on along its way, its
\* agent stays once known, a close stays, and its status changes when it is
\* connected and when it ends, which has a cause.
GoesOn(s) ==
    LET old == sess[s]
        new == sess'[s]
    IN  /\ \/ new.at = old.at
           \/ old.at = "new" /\ new.at = "leave"
           \/ old.at = "new" /\ new.at = "enrol" /\ Http(s)
           \/ old.at = "new" /\ new.at \in {"login", "dial"} /\ ~Http(s)
           \/ old.at = "login" /\ new.at = "dial" /\ old.link = "up"
           \/ old.at = "login" /\ new.at = "leave"
           \/ old.at = "dial" /\ new.at \in {"enrol", "leave"}
           \/ old.at = "enrol" /\ new.at = "encode" /\ Http(s)
           \/ old.at = "enrol" /\ new.at = "pump" /\ ~Http(s)
           \/ old.at = "reenrol" /\ new.at = "pump" /\ ~Http(s)
           \/ old.at = "encode" /\ new.at \in {"request", "leave"}
           \/ old.at = "request" /\ new.at = "leave"
           \/ old.at = "request" /\ new.at = "await" /\ Http(s)
           \/ old.at = "await" /\ new.at = "leave"
           \/ old.at = "pump" /\ new.at = "leave"
           \/ /\ old.at = "pump" /\ new.at = "reenrol" /\ ~Http(s)
              /\ old.status = "connecting" /\ new.status = "connected"
           \/ old.at = "leave" /\ new.at = "unenrol"
           \/ old.at = "leave" /\ new.at = "done" /\ new.closed
           \/ old.at = "unenrol" /\ new.at = "done"
        /\ old.at # "new" => new.down = old.down
        /\ new.down # None => old.down = new.down \/ (\E i \in Id : clients[i] = new.down)
        /\ old.closed => new.closed
        /\ new.closed => old.closed \/ new.at = "done" \/ shub = Shub("close", s)
        /\ \/ new.status = old.status
           \/ /\ new.status \in Ended
              /\ \/ old.link = "down" \/ old.closed \/ new.at = "leave"
                 \/ \E c \in Conn : toAgent[c] # None /\ toAgent[c].session = s /\ CanFail(c)
           \/ /\ old.at = "pump" /\ new.at = "reenrol"
              /\ old.status = "connecting" /\ new.status = "connected"
              /\ \E c \in Conn : Delivering(c, s) /\ toUser[c].type = "connect"
        /\ new.link = old.link \/ (old.at # "new" /\ ~Http(s) /\ new.link = "down")
        /\ new.reader = old.reader \/ old.reader # "off" \/ ~Http(s)

\* A session that does not change goes on in a trivial way.
LEMMA StaysOn ==
  ASSUME NEW s \in Session, sess'[s] = sess[s]
  PROVE  GoesOn(s)
BY DEF GoesOn

\* the other sessions stay as they are
OthersKeep(s) == \A t \in Session \ {s} : sess'[t] = sess[t]

\* A step of a session's handler.
LEMMA HandlerGoesOn ==
  ASSUME RegistryTypeOK, SessionInv, NEW s \in Session,
         \/ Lookup(s) \/ Login(s) \/ Dial(s) \/ Encode(s) \/ RequestPanics(s)
         \/ AwaitTimesOut(s) \/ PumpEnds(s) \/ UserLeaves(s)
  PROVE  GoesOn(s) /\ OthersKeep(s)
<1> USE SessionAssumption
<1> sess \in [Session -> SessionObject] /\ sess[s] \in SessionObject
  BY SessionFacts
<1>1. ASSUME Lookup(s) PROVE GoesOn(s) /\ OthersKeep(s)
  <2> DEFINE c == clients[ToLower[Asked[s]]]
  <2>1. ToLower[Asked[s]] \in Id
    OBVIOUS
  <2>2. PICK at \in {"leave", "enrol", "login", "dial"} :
          /\ sess' = [sess EXCEPT ![s].down = c, ![s].at = at]
          /\ at = "enrol" => Http(s)
          /\ at \in {"login", "dial"} => ~Http(s)
    BY <1>1 DEF Lookup, Http
  <2>3. /\ sess[s].at = "new" /\ sess[s].down = None
    BY <1>1, SessionFacts DEF Lookup
  <2>4. c \in Conn \cup {None}
    BY <2>1 DEF RegistryTypeOK
  <2> DEFINE r == [sess[s] EXCEPT !.down = c, !.at = at]
  <2>5. r \in SessionObject
    BY <2>4 DEF SessionObject, ProxyAt
  <2>6. /\ r.down = c /\ r.at = at /\ r.closed = sess[s].closed /\ r.status = sess[s].status
        /\ r.link = sess[s].link /\ r.reader = sess[s].reader
    BY DEF SessionObject
  <2>7. sess' = [sess EXCEPT ![s] = r]
    BY <2>2
  <2>8. sess'[s] = r /\ OthersKeep(s)
    BY <2>5, <2>7, Update DEF OthersKeep
  <2> HIDE DEF r
  <2>9. QED  BY <2>1, <2>2, <2>3, <2>6, <2>8 DEF GoesOn
<1>2. ASSUME NEW at \in ProxyAt, sess' = [sess EXCEPT ![s].at = at]
      PROVE  /\ sess'[s].at = at
             /\ sess'[s].down = sess[s].down
             /\ sess'[s].closed = sess[s].closed
             /\ sess'[s].status = sess[s].status
             /\ sess'[s].link = sess[s].link
             /\ sess'[s].reader = sess[s].reader
             /\ OthersKeep(s)
  BY <1>2 DEF SessionObject, OthersKeep
<1>3. ASSUME Login(s) PROVE GoesOn(s) /\ OthersKeep(s)
  <2>1. PICK at \in {"dial", "leave"} :
           sess' = [sess EXCEPT ![s].at = at] /\ (at = "dial" => sess[s].link = "up")
    BY <1>3 DEF Login
  <2>2. QED  BY <1>2, <1>3, <2>1 DEF GoesOn, Login, ProxyAt
<1>4. ASSUME Dial(s) PROVE GoesOn(s) /\ OthersKeep(s)
  <2>1. PICK at \in {"enrol", "leave"} : sess' = [sess EXCEPT ![s].at = at]
    BY <1>4 DEF Dial
  <2>2. QED  BY <1>2, <1>4, <2>1 DEF GoesOn, Dial, ProxyAt
<1>5. ASSUME Encode(s) PROVE GoesOn(s) /\ OthersKeep(s)
  <2>1. PICK at \in {"request", "leave"} : sess' = [sess EXCEPT ![s].at = at]
    BY <1>5 DEF Encode
  <2>2. QED  BY <1>2, <1>5, <2>1 DEF GoesOn, Encode, ProxyAt
<1>6. ASSUME RequestPanics(s) \/ AwaitTimesOut(s) PROVE GoesOn(s) /\ OthersKeep(s)
  <2>1. sess' = [sess EXCEPT ![s].at = "leave"] /\ sess[s].at \in {"request", "await"}
    BY <1>6 DEF RequestPanics, AwaitTimesOut
  <2>2. QED  BY <1>2, <2>1 DEF GoesOn, ProxyAt
<1>7. ASSUME PumpEnds(s) PROVE GoesOn(s) /\ OthersKeep(s)
  <2> DEFINE r == [sess[s] EXCEPT !.at = "leave", !.ended = TRUE]
  <2>1. r \in SessionObject
    BY DEF SessionObject, ProxyAt
  <2>2. /\ r.down = sess[s].down /\ r.at = "leave" /\ r.closed = sess[s].closed
        /\ r.status = sess[s].status /\ r.link = sess[s].link /\ r.reader = sess[s].reader
    BY DEF SessionObject
  <2>3. sess' = [sess EXCEPT ![s] = r]
    BY <1>7 DEF PumpEnds, Leave
  <2>4. sess'[s] = r /\ OthersKeep(s)
    BY <2>1, <2>3, Update DEF OthersKeep
  <2> HIDE DEF r
  <2>5. QED  BY <1>7, <2>2, <2>4 DEF GoesOn, PumpEnds
<1>8. ASSUME UserLeaves(s) PROVE GoesOn(s) /\ OthersKeep(s)
  <2>1. /\ sess'[s].at = sess[s].at /\ sess'[s].down = sess[s].down
        /\ sess'[s].closed = sess[s].closed /\ sess'[s].status = sess[s].status
        /\ sess'[s].link = "down" /\ sess'[s].reader = sess[s].reader
        /\ OthersKeep(s)
    BY <1>8 DEF UserLeaves, SessionObject, OthersKeep
  <2>2. QED  BY <1>8, <2>1 DEF GoesOn, UserLeaves
<1>9. QED  BY <1>1, <1>3, <1>4, <1>5, <1>6, <1>7, <1>8

\* A step of its pumps, or one in which it leaves or the hub takes it up.
LEMMA PumpGoesOn ==
  ASSUME SessionInv, HandlerIsInTurn, NEW s \in Session,
         \/ UpReaderStops(s) \/ UpReaderFails(s) \/ UpReaderReads(s) \/ Depart(s)
         \/ HubTakesEnrol(s) \/ HubTakesUnenrol(s)
         \/ \E c \in Conn : SessionReceives(c, s) \/ WriterReceives(c, s)
  PROVE  GoesOn(s) /\ OthersKeep(s)
<1> USE SessionAssumption
<1> sess \in [Session -> SessionObject] /\ sess[s] \in SessionObject
  BY SessionFacts
<1>1. ASSUME NEW at \in ProxyAt, sess' = [sess EXCEPT ![s].at = at]
      PROVE  /\ sess'[s].at = at
             /\ sess'[s].down = sess[s].down
             /\ sess'[s].closed = sess[s].closed
             /\ sess'[s].status = sess[s].status
             /\ sess'[s].link = sess[s].link
             /\ sess'[s].reader = sess[s].reader
             /\ OthersKeep(s)
  BY <1>1 DEF SessionObject, OthersKeep
<1>2. ASSUME NEW v \in {"off", "read", "send", "done"}, sess' = [sess EXCEPT ![s].reader = v]
      PROVE  /\ sess'[s].at = sess[s].at
             /\ sess'[s].down = sess[s].down
             /\ sess'[s].closed = sess[s].closed
             /\ sess'[s].status = sess[s].status
             /\ sess'[s].link = sess[s].link
             /\ OthersKeep(s)
  BY <1>2 DEF SessionObject, OthersKeep
<1>3. ASSUME UpReaderStops(s) PROVE GoesOn(s) /\ OthersKeep(s)
  <2> DEFINE r == [sess[s] EXCEPT !.reader = "done", !.ended = TRUE]
  <2>1. r \in SessionObject
    BY DEF SessionObject
  <2>2. /\ r.down = sess[s].down /\ r.at = sess[s].at /\ r.closed = sess[s].closed
        /\ r.status = sess[s].status /\ r.link = sess[s].link
    BY DEF SessionObject
  <2>3. sess' = [sess EXCEPT ![s] = r]
    BY <1>3 DEF UpReaderStops
  <2>4. sess'[s] = r /\ OthersKeep(s)
    BY <2>1, <2>3, Update DEF OthersKeep
  <2> HIDE DEF r
  <2>5. QED  BY <1>3, <2>2, <2>4 DEF GoesOn, UpReaderStops
<1>4. ASSUME UpReaderFails(s) PROVE GoesOn(s) /\ OthersKeep(s)
  <2> DEFINE r == [sess[s] EXCEPT !.reader = "done", !.ended = TRUE,
                              !.status = SetStatus(@, "upstream closed")]
  <2>1. r \in SessionObject
    BY DEF SessionObject, SetStatus, Status, Ended
  <2>2. /\ r.down = sess[s].down /\ r.at = sess[s].at /\ r.closed = sess[s].closed
        /\ (r.status = sess[s].status \/ r.status \in Ended) /\ r.link = sess[s].link
    BY DEF SessionObject, SetStatus, Ended
  <2>3. sess' = [sess EXCEPT ![s] = r]
    BY <1>4 DEF UpReaderFails
  <2>4. sess'[s] = r /\ OthersKeep(s)
    BY <2>1, <2>3, Update DEF OthersKeep
  <2> HIDE DEF r
  <2>5. QED  BY <1>4, <2>2, <2>4 DEF GoesOn, UpReaderFails
<1>5. ASSUME UpReaderReads(s) PROVE GoesOn(s) /\ OthersKeep(s)
  <2>1. sess' = [sess EXCEPT ![s].reader = "send"] /\ sess[s].reader # "off"
    BY <1>5 DEF UpReaderReads
  <2>2. QED  BY <1>2, <2>1 DEF GoesOn
<1>6. ASSUME Depart(s) PROVE GoesOn(s) /\ OthersKeep(s)
  <2>1. CASE s \in sessions
    <3>1. sess' = [sess EXCEPT ![s].at = "unenrol"] /\ sess[s].at = "leave"
      BY <1>6, <2>1 DEF Depart
    <3>2. QED  BY <1>1, <3>1 DEF GoesOn, ProxyAt
  <2>2. CASE s \notin sessions
    <3> DEFINE r == [sess[s] EXCEPT !.at = "done", !.closed = TRUE]
    <3>1. r \in SessionObject
      BY DEF SessionObject, ProxyAt
    <3>2. /\ r.down = sess[s].down /\ r.at = "done" /\ r.closed = TRUE
          /\ r.status = sess[s].status /\ r.link = sess[s].link /\ r.reader = sess[s].reader
      BY DEF SessionObject
    <3>3. sess' = [sess EXCEPT ![s] = r]
      BY <1>6, <2>2 DEF Depart
    <3>4. sess'[s] = r /\ OthersKeep(s)
      BY <3>1, <3>3, Update DEF OthersKeep
    <3> HIDE DEF r
    <3>5. QED  BY <1>6, <3>2, <3>4 DEF GoesOn, Depart
  <2>3. QED  BY <2>1, <2>2
<1>7. ASSUME HubTakesUnenrol(s) PROVE GoesOn(s) /\ OthersKeep(s)
  <2>1. sess' = [sess EXCEPT ![s].at = "done"] /\ sess[s].at = "unenrol"
    BY <1>7 DEF HubTakesUnenrol
  <2>2. QED  BY <1>1, <2>1 DEF GoesOn, ProxyAt
<1>8. ASSUME sess[s].at = "enrol", ~Http(s),
             sess' = [sess EXCEPT ![s].at = "pump", ![s].reader = "read"]
      PROVE  GoesOn(s) /\ OthersKeep(s)
  <2> DEFINE r == [sess[s] EXCEPT !.at = "pump", !.reader = "read"]
  <2>1. r \in SessionObject
    BY DEF SessionObject, ProxyAt
  <2>2. /\ r.down = sess[s].down /\ r.at = "pump" /\ r.closed = sess[s].closed
        /\ r.status = sess[s].status /\ r.link = sess[s].link
    BY DEF SessionObject
  <2>3. sess' = [sess EXCEPT ![s] = r]
    BY <1>8
  <2>4. sess'[s] = r /\ OthersKeep(s)
    BY <2>1, <2>3, Update DEF OthersKeep
  <2> HIDE DEF r
  <2>5. QED  BY <1>8, <2>2, <2>4 DEF GoesOn
<1>9. ASSUME HubTakesEnrol(s) PROVE GoesOn(s) /\ OthersKeep(s)
  <2>1. CASE Http(s)
    <3>1. sess' = [sess EXCEPT ![s].at = "encode"] /\ sess[s].at = "enrol"
      BY <1>9, <2>1 DEF HubTakesEnrol, HandlerIsInTurn
    <3>2. QED  BY <1>1, <2>1, <3>1 DEF GoesOn, ProxyAt
  <2>2. CASE ~Http(s) /\ sess[s].at = "reenrol"
    <3>1. sess' = [sess EXCEPT ![s].at = "pump"]
      BY <1>9, <2>2 DEF HubTakesEnrol
    <3>2. QED  BY <1>1, <2>2, <3>1 DEF GoesOn, ProxyAt
  <2>3. CASE ~Http(s) /\ sess[s].at = "enrol"
    <3>1. sess' = [sess EXCEPT ![s].at = "pump", ![s].reader = "read"]
      BY <1>9, <2>3 DEF HubTakesEnrol
    <3>2. QED  BY <1>8, <2>3, <3>1
  <2>4. QED  BY <1>9, <2>1, <2>2, <2>3 DEF HubTakesEnrol
<1>10. ASSUME NEW c \in Conn, SessionReceives(c, s) PROVE GoesOn(s) /\ OthersKeep(s)
  <2>1. sess[s].at \in {"pump", "await"}
    BY <1>10 DEF SessionReceives, Receives
  <2>2. CASE Http(s)
    <3>1. sess' = [sess EXCEPT ![s].at = "leave"]
      BY <1>10, <2>2 DEF SessionReceives
    <3>2. QED  BY <1>1, <2>1, <3>1 DEF GoesOn, ProxyAt
  <2>3. CASE ~Http(s) /\ toUser[c].type = "connect" /\ sess[s].status = "connecting"
    <3> DEFINE r == [sess[s] EXCEPT !.status = "connected", !.at = "reenrol"]
    <3>1. r \in SessionObject
      BY DEF SessionObject, ProxyAt, Status
    <3>2. /\ r.down = sess[s].down /\ r.at = "reenrol" /\ r.closed = sess[s].closed
          /\ r.status = "connected" /\ r.link = sess[s].link /\ r.reader = sess[s].reader
      BY DEF SessionObject
    <3>3. sess' = [sess EXCEPT ![s] = r]
      BY <1>10, <2>3 DEF SessionReceives
    <3>4. sess'[s] = r /\ OthersKeep(s)
      BY <3>1, <3>3, Update DEF OthersKeep
    <3>5. sess[s].at = "pump"
      BY <2>1, <2>3 DEF HandlerIsInTurn
    <3> HIDE DEF r
    <3>6. Delivering(c, s) /\ toUser[c].type = "connect"
      BY <1>10, <2>3 DEF SessionReceives, Delivering
    <3>7. QED  BY <2>3, <3>2, <3>4, <3>5, <3>6 DEF GoesOn
  <2>4. CASE ~Http(s) /\ toUser[c].type = "close"
    <3> DEFINE r == [sess[s] EXCEPT !.at = "leave", !.ended = TRUE,
                                !.status = SetStatus(@, "downstream closed")]
    <3>1. r \in SessionObject
      BY DEF SessionObject, ProxyAt, SetStatus, Status, Ended
    <3>2. /\ r.down = sess[s].down /\ r.at = "leave" /\ r.closed = sess[s].closed
          /\ r.status = sess[s].status \/ r.status \in Ended
          /\ r.link = sess[s].link /\ r.reader = sess[s].reader
      BY DEF SessionObject, SetStatus, Ended
    <3>3. sess' = [sess EXCEPT ![s] = r]
      <4>1. sess' = [Leave(s) EXCEPT ![s].status = SetStatus(@, "downstream closed")]
        BY <1>10, <2>4 DEF SessionReceives
      <4>2. QED  BY <4>1, ZenonT(40) DEF Leave
    <3>4. sess'[s] = r /\ OthersKeep(s)
      BY <3>1, <3>3, Update DEF OthersKeep
    <3> HIDE DEF r
    <3>5. QED  BY <2>1, <3>2, <3>4 DEF GoesOn
  <2>5. CASE sess' = sess
    BY <2>5, StaysOn DEF OthersKeep
  <2>6. toUser[c].type \in MessageType
    BY <1>10 DEF SessionInv, SessionTypeOK, SessionReceives
  <2>7. QED  BY <1>10, <2>2, <2>3, <2>4, <2>5, <2>6 DEF SessionReceives, MessageType
<1>11. ASSUME NEW c \in Conn, WriterReceives(c, s) PROVE GoesOn(s) /\ OthersKeep(s)
  <2>1. CASE sess[s].reader = "send" /\ sess' = [sess EXCEPT ![s].reader = "read"]
    BY <1>2, <2>1 DEF GoesOn
  <2>2. CASE Http(s) /\ sess[s].at = "request" /\ sess' = [sess EXCEPT ![s].at = "await"]
    BY <1>1, <2>2 DEF GoesOn, ProxyAt
  <2>3. QED  BY <1>11, <2>1, <2>2 DEF WriterReceives
<1>12. QED
  BY <1>3, <1>4, <1>5, <1>6, <1>7, <1>9, <1>10, <1>11

\* The steps that close a session or record its end for it.
LEMMA HubGoesOn ==
  ASSUME SessionInv, NEW s \in Session,
         ShubStep \/ (\E c \in Conn : WriterFails(c))
  PROVE  GoesOn(s)
<1> sess \in [Session -> SessionObject] /\ sess[s] \in SessionObject
  BY SessionFacts
<1>1. ASSUME HubClosesSession PROVE GoesOn(s)
  <2> DEFINE u == shub.session
  <2>1. u \in Session /\ shub = Shub("close", u)
    BY <1>1 DEF HubClosesSession, SessionInv, SessionTypeOK, Shub
  <2>2. sess' = [sess EXCEPT ![u].closed = TRUE]
    BY <1>1 DEF HubClosesSession
  <2> HIDE DEF u
  <2>3. CASE u = s
    <3>1. /\ sess'[s].at = sess[s].at /\ sess'[s].down = sess[s].down /\ sess'[s].closed
          /\ sess'[s].status = sess[s].status /\ sess'[s].link = sess[s].link
          /\ sess'[s].reader = sess[s].reader
      BY <2>2, <2>3 DEF SessionObject
    <3>2. QED  BY <2>1, <2>3, <3>1 DEF GoesOn
  <2>4. CASE u # s
    BY <2>2, <2>4, StaysOn
  <2>5. QED  BY <2>3, <2>4
<1>2. ASSUME HubStoresSession \/ HubAnnounces PROVE GoesOn(s)
  BY <1>2, StaysOn DEF HubStoresSession, HubAnnounces
<1>3. ASSUME NEW c \in Conn, WriterFails(c) PROVE GoesOn(s)
  <2> DEFINE u == toAgent[c].session
  <2>1. u \in Session
    BY <1>3 DEF WriterFails, SessionInv, SessionTypeOK
  <2>2. \/ sess' = sess
        \/ sess' = [sess EXCEPT ![u].status = SetStatus(@, "downstream closed")]
    BY <1>3 DEF WriterFails
  <2> HIDE DEF u
  <2>3. CASE u = s /\ sess' = [sess EXCEPT ![u].status = SetStatus(@, "downstream closed")]
    <3>1. /\ sess'[s].at = sess[s].at /\ sess'[s].down = sess[s].down
          /\ sess'[s].closed = sess[s].closed
          /\ sess'[s].status = sess[s].status \/ sess'[s].status \in Ended
          /\ sess'[s].link = sess[s].link /\ sess'[s].reader = sess[s].reader
      BY <2>3 DEF SessionObject, SetStatus, Ended
    <3>2. toAgent[c] # None /\ toAgent[c].session = s /\ CanFail(c)
      BY <1>3, <2>3 DEF WriterFails, u
    <3>3. QED  BY <3>1, <3>2 DEF GoesOn
  <2>4. QED  BY <2>2, <2>3, StaysOn
<1>4. QED  BY <1>1, <1>2, <1>3 DEF ShubStep

\* Each step of the server takes each session on.
LEMMA SessionGoesOn ==
  ASSUME RegistryTypeOK, SessionInv, HandlerIsInTurn, [Next]_vars, NEW s \in Session
  PROVE  GoesOn(s)
<1>1. ASSUME RegistryStep \/ UNCHANGED vars PROVE GoesOn(s)
  BY <1>1, StaysOn DEF RegistryStep, ConnStep, vars, svars
<1>2. ASSUME ShubStep PROVE GoesOn(s)
  BY <1>2, HubGoesOn
<1>3. ASSUME NEW t \in Session, SessionStep(t) PROVE GoesOn(s)
  <2>1. UpReaderPanics(t) \/ (GoesOn(t) /\ OthersKeep(t))
    BY <1>3, HandlerGoesOn, PumpGoesOn DEF SessionStep
  <2>2. CASE UpReaderPanics(t)
    BY <2>2, StaysOn DEF UpReaderPanics
  <2>3. CASE GoesOn(t) /\ OthersKeep(t)
    BY <2>3, StaysOn DEF OthersKeep
  <2>4. QED  BY <2>1, <2>2, <2>3
<1>4. ASSUME NEW c \in Conn, PumpStep(c) PROVE GoesOn(s)
  <2>1. ASSUME ReaderPanics(c) \/ WriterWrites(c) \/ HubTakesFailed(c)
               \/ (\E t \in Session, type \in MessageType : ReaderReads(c, t, type))
        PROVE  GoesOn(s)
    BY <2>1, StaysOn DEF ReaderPanics, WriterWrites, HubTakesFailed, ReaderReads
  <2>2. ASSUME NEW t \in Session, SessionReceives(c, t) \/ WriterReceives(c, t) PROVE GoesOn(s)
    <3>1. GoesOn(t) /\ OthersKeep(t)
      BY <2>2, PumpGoesOn
    <3>2. QED  BY <3>1, StaysOn DEF OthersKeep
  <2>3. ASSUME WriterFails(c) PROVE GoesOn(s)
    BY <2>3, HubGoesOn
  <2>4. QED  BY <1>4, <2>1, <2>2, <2>3 DEF PumpStep
<1>5. QED  BY <1>1, <1>2, <1>3, <1>4 DEF Next

-----------------------------------------------------------------------------
(* ServiceInv is inductive, given the other invariants.                    *)

\* What the hub, or a reader with a message, has to do with.
Known(s) == s \in sessions \/ shub.session = s \/ (\E c \in Conn : Delivering(c, s))

\* Before the handler of s reached the hub,
Unenrolled(s) == sess[s].at \in {"new", "login", "dial", "enrol"}
\* and before it asked its agent.
Unasked(s) == Http(s) /\ sess[s].at \in {"new", "enrol", "encode", "request"}

\* At first no session is under way.
LEMMA InitService == Init => ServiceInv
<1> SUFFICES ASSUME Init PROVE ServiceInv
  OBVIOUS
<1> USE RegistryAssumption, SessionAssumption DEF Init, RegistryInit, Idle, Shub, Selecting, Hub
<1>1. HubIsOne /\ HandlerIsInTurn
  BY DEF HubIsOne, HandlerIsInTurn
<1>2. KnownIsEnrolled
  BY DEF KnownIsEnrolled, Delivering
<1>3. ConnectedIsKnown
  BY DEF ConnectedIsKnown, Delivering
<1>4. PumpsAreStarted
  BY DEF PumpsAreStarted, PumpStarted
<1>5. QED  BY <1>1, <1>2, <1>3, <1>4 DEF ServiceInv

\* The hub begins an operation at its select only.
LEMMA StepHubIsOne == ASSUME HubIsOne, [Next]_vars PROVE HubIsOne'
<1>1. ASSUME NEW c \in Conn, ConnStep(c) PROVE HubIsOne'
  BY <1>1 DEF ConnStep, HubIsOne, svars, Upgrade, Refuse, CheckOffline, PingEnds, LinkBreaks,
     ReaderExits, WriterExits, HubTakesRegister, HubTakesUnregister
<1>2. ASSUME HubStep, UNCHANGED svars PROVE HubIsOne'
  BY <1>2 DEF HubIsOne, HubStep, HubStores, HubCloses, HubDeletes, Selecting, Hub, svars
<1>3. ASSUME NEW i \in Id, ManualDisconnect(i), UNCHANGED svars PROVE HubIsOne'
  BY <1>3 DEF HubIsOne, ManualDisconnect, svars
<1>4. ASSUME ShubStep PROVE HubIsOne'
  BY <1>4 DEF HubIsOne, ShubStep, HubStoresSession, HubAnnounces, HubClosesSession, Idle, Shub, rvars
<1>5. ASSUME NEW s \in Session, SessionStep(s) PROVE HubIsOne'
  BY <1>5
  DEF HubIsOne, SessionStep, Lookup, Login, Dial, Encode, RequestPanics, AwaitTimesOut, Depart,
      PumpEnds, UserLeaves, UpReaderStops, UpReaderFails, UpReaderReads, UpReaderPanics,
      HubTakesEnrol, HubTakesUnenrol, HubFree, rvars
<1>6. ASSUME NEW c \in Conn, PumpStep(c) PROVE HubIsOne'
  <2>1. ASSUME HubTakesFailed(c) PROVE HubIsOne'
    BY <2>1 DEF HubTakesFailed, WriterExits, HubFree, HubIsOne
  <2>2. ASSUME WriterFails(c) PROVE HubIsOne'
    BY <2>2 DEF WriterFails, WriterExits, HubIsOne, rvars
  <2>3. ASSUME NEW s \in Session,
               \/ SessionReceives(c, s) \/ WriterReceives(c, s)
               \/ \E type \in MessageType : ReaderReads(c, s, type)
        PROVE  HubIsOne'
    BY <2>3 DEF SessionReceives, WriterReceives, ReaderReads, HubIsOne, rvars
  <2>4. ASSUME ReaderPanics(c) \/ WriterWrites(c) PROVE HubIsOne'
    BY <2>4 DEF ReaderPanics, WriterWrites, HubIsOne, rvars
  <2>5. QED  BY <1>6, <2>1, <2>2, <2>3, <2>4 DEF PumpStep
<1>7. CASE UNCHANGED vars
  BY <1>7 DEF vars, rvars, svars, HubIsOne
<1>8. QED  BY <1>1, <1>2, <1>3, <1>4, <1>5, <1>6, <1>7 DEF Next, RegistryStep

\* A handler goes the way of its kind,
LEMMA StepInTurn ==
  ASSUME RegistryTypeOK, SessionInv, HandlerIsInTurn, [Next]_vars
  PROVE  HandlerIsInTurn'
<1>1. ASSUME NEW s \in Session
      PROVE  /\ Http(s)' = Http(s)
             /\ Http(s) => /\ sess'[s].at \notin {"login", "dial", "pump", "reenrol"}
                           /\ sess'[s].link = "up" /\ sess'[s].reader = "off"
             /\ ~Http(s) => sess'[s].at \notin {"encode", "request", "await"}
             /\ sess'[s].at = "new" => sess'[s].link = "up"
             /\ sess'[s].at = "reenrol" => sess'[s].status # "connecting"
  <2>1. GoesOn(s)
    BY SessionGoesOn
  <2>2. Http(s)' = Http(s)
    BY DEF Http
  <2> DEFINE old == sess[s]
             new == sess'[s]
  <2>3. Http(s) => new.at \notin {"login", "dial", "pump", "reenrol"}
    BY <2>1 DEF GoesOn, HandlerIsInTurn
  <2>4. Http(s) => new.link = "up" /\ new.reader = "off"
    BY <2>1 DEF GoesOn, HandlerIsInTurn
  <2>5. ~Http(s) => new.at \notin {"encode", "request", "await"}
    BY <2>1 DEF GoesOn, HandlerIsInTurn
  <2>6. new.at = "new" => new.link = "up"
    BY <2>1 DEF GoesOn, HandlerIsInTurn
  <2>7. new.at = "reenrol" => new.status # "connecting"
    BY <2>1 DEF GoesOn, HandlerIsInTurn, Ended
  <2>8. QED  BY <2>2, <2>3, <2>4, <2>5, <2>6, <2>7
<1>2. QED  BY <1>1 DEF HandlerIsInTurn

\* Each step: which sessions become known, and what an unasked session keeps.
LEMMA StepKnown ==
  ASSUME SessionInv, ServiceInv, [Next]_vars, NEW s \in Session
  PROVE  /\ Known(s)' => Known(s) \/ ~Unenrolled(s)'
         /\ Unasked(s) /\ Unasked(s)' =>
               /\ agent'[s] = "unaware"
               /\ \A c \in Conn : /\ ~Delivering(c, s)'
                                  /\ toAgent'[c] = None \/ toAgent'[c].session # s
<1> DEFINE Goal == /\ Known(s)' => Known(s) \/ ~Unenrolled(s)'
                   /\ Unasked(s) /\ Unasked(s)' =>
                         /\ agent'[s] = "unaware"
                         /\ \A c \in Conn : /\ ~Delivering(c, s)'
                                            /\ toAgent'[c] = None \/ toAgent'[c].session # s
<1> USE SessionAssumption
<1>0. SessionTypeOK /\ KnownIsEnrolled /\ HandlerIsInTurn
  BY DEF SessionInv, ServiceInv
<1>1. ASSUME UNCHANGED <<sessions, shub, toUser, toAgent, agent>> PROVE Goal
  BY <1>0, <1>1 DEF Known, Delivering, Unasked, KnownIsEnrolled
<1>2. ASSUME RegistryStep \/ UNCHANGED vars PROVE Goal
  BY <1>1, <1>2 DEF RegistryStep, ConnStep, vars, svars
<1>3. ASSUME HubStoresSession PROVE Goal
  <2>1. /\ sessions' = sessions \cup {shub.session} /\ shub'.session = shub.session
        /\ UNCHANGED <<toUser, toAgent, agent>>
    BY <1>3 DEF HubStoresSession, Shub
  <2>2. QED  BY <1>0, <2>1 DEF Known, Delivering, Unasked, KnownIsEnrolled
<1>4. ASSUME HubAnnounces \/ HubClosesSession PROVE Goal
  <2>1. shub'.session = None /\ UNCHANGED <<sessions, toUser, toAgent, agent>>
    BY <1>4 DEF HubAnnounces, HubClosesSession, Shub, Idle
  <2>2. QED  BY <1>0, <2>1 DEF Known, Delivering, Unasked, KnownIsEnrolled
<1>5. ASSUME NEW t \in Session, SessionStep(t) PROVE Goal
  <2>1. ASSUME Dial(t) PROVE Goal
    <3>1. sess[t].at = "dial" /\ UNCHANGED <<sessions, shub, toUser, toAgent>>
          /\ (agent' = agent \/ agent' = [agent EXCEPT ![t] = "asked"])
      BY <2>1 DEF Dial
    <3>2. Unasked(s) => s # t
      BY <3>1 DEF Unasked
    <3>3. Unasked(s) => agent'[s] = agent[s]
      BY <1>0, <3>1, <3>2 DEF SessionTypeOK
    <3>4. QED  BY <1>0, <3>1, <3>3 DEF Known, Delivering, Unasked, KnownIsEnrolled
  <2>2. ASSUME HubTakesEnrol(t) PROVE Goal
    <3>1. /\ shub' = Shub("store", t)
          /\ UNCHANGED <<sessions, toUser, toAgent, agent>>
          /\ sess'[t].at \in {"encode", "pump"}
      <4>1. sess \in [Session -> SessionObject] /\ sess[t] \in SessionObject
        BY <1>0 DEF SessionTypeOK
      <4>2. sess'[t].at \in {"encode", "pump"}
        BY <2>2, <4>1 DEF HubTakesEnrol, SessionObject
      <4>3. QED  BY <2>2, <4>2 DEF HubTakesEnrol
    <3>2. shub'.session = t
      BY <3>1 DEF Shub
    <3>3. t = s => ~Unenrolled(s)'
      BY <3>1 DEF Unenrolled
    <3>4. QED  BY <1>0, <3>1, <3>2, <3>3 DEF Known, Delivering, Unasked, KnownIsEnrolled
  <2>3. ASSUME HubTakesUnenrol(t) PROVE Goal
    <3>1. /\ sessions' \subseteq sessions /\ shub'.session \in sessions \cup {None}
          /\ UNCHANGED <<toUser, toAgent, agent>>
      BY <2>3 DEF HubTakesUnenrol, Removes, Shub, Idle
    <3>2. QED  BY <1>0, <3>1 DEF Known, Delivering, Unasked, KnownIsEnrolled
  <2>4. QED
    BY <1>1, <1>5, <2>1, <2>2, <2>3
    DEF SessionStep, Lookup, Login, Encode, RequestPanics, AwaitTimesOut, Depart, PumpEnds,
        UserLeaves, UpReaderStops, UpReaderFails, UpReaderReads, UpReaderPanics
<1>6. ASSUME NEW c \in Conn, PumpStep(c) PROVE Goal
  <2>1. ASSUME ReaderPanics(c) PROVE Goal
    BY <1>1, <2>1 DEF ReaderPanics
  <2>2. ASSUME WriterWrites(c) PROVE Goal
    <3>1. /\ toAgent[c] # None /\ toAgent' = [toAgent EXCEPT ![c] = None]
          /\ UNCHANGED <<sessions, shub, toUser>>
          /\ (agent' = agent \/ agent' = [agent EXCEPT ![toAgent[c].session] = "asked"])
      BY <2>2 DEF WriterWrites
    <3>2. Unasked(s) => toAgent[c].session # s
      BY <1>0, <3>1 DEF KnownIsEnrolled, Unasked
    <3>3. Unasked(s) => agent'[s] = agent[s]
      BY <1>0, <3>1, <3>2 DEF SessionTypeOK
    <3>4. \A d \in Conn : toAgent'[d] \in {toAgent[d], None}
      BY <1>0, <3>1 DEF SessionTypeOK
    <3>5. QED  BY <1>0, <3>1, <3>3, <3>4 DEF Known, Delivering, Unasked, KnownIsEnrolled
  <2>3. ASSUME WriterFails(c) PROVE Goal
    <3>1. UNCHANGED <<sessions, shub, toUser, agent>>
      BY <2>3 DEF WriterFails
    <3>2. \A d \in Conn : toAgent'[d] # None => toAgent[d] # None /\ toAgent'[d].session = toAgent[d].session
      BY <2>3, WriterFailsOnly
    <3>3. QED  BY <1>0, <3>1, <3>2 DEF Known, Delivering, Unasked, KnownIsEnrolled
  <2>4. ASSUME HubTakesFailed(c) PROVE Goal
    <3>1. /\ sessions' \subseteq sessions /\ shub'.session \in sessions \cup {None}
          /\ toAgent' = [toAgent EXCEPT ![c] = None]
          /\ UNCHANGED <<toUser, agent>>
      BY <2>4 DEF HubTakesFailed, Removes, Shub, Idle
    <3>2. \A d \in Conn : toAgent'[d] \in {toAgent[d], None}
      BY <1>0, <3>1 DEF SessionTypeOK
    <3>3. QED  BY <1>0, <3>1, <3>2 DEF Known, Delivering, Unasked, KnownIsEnrolled
  <2>5. ASSUME NEW t \in Session, SessionReceives(c, t) PROVE Goal
    <3>1. toUser' = [toUser EXCEPT ![c] = None] /\ UNCHANGED <<sessions, shub, toAgent, agent>>
      BY <2>5 DEF SessionReceives
    <3>2. \A d \in Conn : toUser'[d] \in {toUser[d], None}
      BY <1>0, <3>1 DEF SessionTypeOK
    <3>3. QED  BY <1>0, <3>1, <3>2 DEF Known, Delivering, Unasked, KnownIsEnrolled
  <2>6. ASSUME NEW t \in Session, WriterReceives(c, t) PROVE Goal
    <3>1. /\ toAgent' = [toAgent EXCEPT ![c] = [session |-> t, at |-> "write"]]
          /\ UNCHANGED <<sessions, shub, toUser, agent>>
      BY <2>6 DEF WriterReceives
    <3>2. sess \in [Session -> SessionObject] /\ sess[t] \in SessionObject
      BY <1>0 DEF SessionTypeOK
    <3>3. t = s => ~(Unasked(s) /\ Unasked(s)')
      BY <1>0, <2>6, <3>2 DEF WriterReceives, HandlerIsInTurn, Unasked, Http, SessionObject
    <3>4. \A d \in Conn : toAgent'[d] = toAgent[d] \/ toAgent'[d].session = t
      BY <1>0, <3>1 DEF SessionTypeOK
    <3>5. QED  BY <1>0, <3>1, <3>3, <3>4 DEF Known, Delivering, Unasked, KnownIsEnrolled
  <2>7. ASSUME NEW t \in Session, NEW type \in MessageType, ReaderReads(c, t, type) PROVE Goal
    <3>1. /\ UNCHANGED <<sessions, shub, toAgent>>
          /\ agent' = [agent EXCEPT ![t] = Hears(@, Http(t), type)]
          /\ \/ toUser' = toUser
             \/ t \in sessions /\ toUser' = [toUser EXCEPT ![c] = [session |-> t, type |-> type]]
      BY <2>7 DEF ReaderReads
    <3>2. Unasked(s) => t # s
      BY <1>0, <2>7 DEF ReaderReads, MaySay, KnownIsEnrolled, Unasked
    <3>3. Unasked(s) => agent'[s] = agent[s]
      BY <1>0, <3>1, <3>2 DEF SessionTypeOK
    <3>4. \A d \in Conn : \/ toUser'[d] = toUser[d]
                          \/ toUser'[d].session = t /\ t \in sessions
      <4>1. toUser \in [Conn -> [session : Session, type : MessageType] \cup {None}]
        BY <1>0 DEF SessionTypeOK
      <4>2. CASE toUser' = [toUser EXCEPT ![c] = [session |-> t, type |-> type]] /\ t \in sessions
        BY <4>1, <4>2
      <4>3. QED  BY <3>1, <4>2
    <3>5. QED  BY <1>0, <3>1, <3>2, <3>3, <3>4 DEF Known, Delivering, Unasked, KnownIsEnrolled
  <2>8. QED
    BY <1>6, <2>1, <2>2, <2>3, <2>4, <2>5, <2>6, <2>7 DEF PumpStep
<1> HIDE DEF Goal
<1>7. Goal
  BY <1>2, <1>3, <1>4, <1>5, <1>6 DEF Next, ShubStep
<1>8. QED  BY <1>7 DEF Goal

\* what hub and readers have to do with was enrolled,
LEMMA StepEnrolled ==
  ASSUME RegistryTypeOK, SessionInv, ServiceInv, [Next]_vars
  PROVE  KnownIsEnrolled'
<1>1. HandlerIsInTurn /\ KnownIsEnrolled
  BY DEF ServiceInv
<1>2. ASSUME NEW s \in Session
      PROVE  /\ (Known(s) => ~Unenrolled(s))'
             /\ (Unasked(s) => /\ agent[s] = "unaware"
                               /\ \A c \in Conn : /\ ~Delivering(c, s)
                                                  /\ toAgent[c] = None \/ toAgent[c].session # s)'
  <2>1. GoesOn(s)
    BY <1>1, SessionGoesOn
  <2>2. Unenrolled(s)' => Unenrolled(s)
    BY <2>1 DEF GoesOn, Unenrolled
  <2>3. Unasked(s)' => Unasked(s)
    BY <1>1, <2>1 DEF GoesOn, Unasked, Http, HandlerIsInTurn
  <2>4. Known(s) => ~Unenrolled(s)
    BY <1>1 DEF KnownIsEnrolled, Known, Unenrolled
  <2>5. QED  BY <2>2, <2>3, <2>4, StepKnown
<1>3. QED  BY <1>2 DEF KnownIsEnrolled, Known, Unenrolled, Unasked, Delivering, Http

\* What is kept of a stream that the hub knows, or closes, is kept until it is closed.
Kept(s) == s \in sessions \/ sess[s].closed \/ shub = Shub("close", s)

LEMMA StaysKept ==
  ASSUME RegistryTypeOK, SessionInv, HandlerIsInTurn, [Next]_vars, NEW s \in Session, ~Http(s), Kept(s)
  PROVE  Kept(s)'
<1>1. GoesOn(s)
  BY SessionGoesOn
<1>2. ASSUME sess[s].closed PROVE Kept(s)'
  BY <1>1, <1>2 DEF GoesOn, Kept
<1>3. ASSUME sessions \subseteq sessions', shub # Idle => shub' = shub PROVE Kept(s)'
  BY <1>2, <1>3 DEF Kept, Shub, Idle
<1>4. ASSUME RegistryStep \/ UNCHANGED vars PROVE Kept(s)'
  BY <1>3, <1>4 DEF RegistryStep, ConnStep, vars, svars
<1>5. ASSUME HubStoresSession \/ HubAnnounces PROVE Kept(s)'
  <2>1. sessions \subseteq sessions' /\ shub.op # "close"
    BY <1>5 DEF HubStoresSession, HubAnnounces
  <2>2. QED  BY <1>2, <2>1 DEF Kept, Shub
<1>6. ASSUME HubClosesSession PROVE Kept(s)'
  <2>1. sess' = [sess EXCEPT ![shub.session].closed = TRUE] /\ sessions' = sessions
    BY <1>6 DEF HubClosesSession
  <2>2. shub = Shub("close", s) => sess'[s].closed
    BY <2>1, SessionFacts DEF Shub, SessionObject
  <2>3. QED  BY <1>2, <2>1, <2>2 DEF Kept
<1>7. ASSUME NEW t \in Session, HubFree, Removes(t) PROVE Kept(s)'
  <2>1. (t # s \/ s \notin sessions) /\ s \in sessions => s \in sessions'
    BY <1>7 DEF Removes
  <2>2. t = s /\ s \in sessions => shub' = Shub("close", s)
    BY <1>7 DEF Removes
  <2>3. QED  BY <1>2, <1>7, <2>1, <2>2 DEF Kept, HubFree, Idle, Shub
<1>8. ASSUME NEW t \in Session, SessionStep(t) PROVE Kept(s)'
  <2>1. ASSUME HubTakesUnenrol(t) PROVE Kept(s)'
    BY <1>7, <2>1 DEF HubTakesUnenrol
  <2>2. ASSUME HubTakesEnrol(t) PROVE Kept(s)'
    BY <1>3, <2>2 DEF HubTakesEnrol, HubFree
  <2>3. QED
    BY <1>3, <1>8, <2>1, <2>2
    DEF SessionStep, Lookup, Login, Dial, Encode, RequestPanics, AwaitTimesOut, Depart, PumpEnds,
        UserLeaves, UpReaderStops, UpReaderFails, UpReaderReads, UpReaderPanics
<1>9. ASSUME NEW c \in Conn, PumpStep(c) PROVE Kept(s)'
  <2>1. ASSUME HubTakesFailed(c) PROVE Kept(s)'
    <3>1. toAgent[c].session \in Session
      BY <2>1 DEF HubTakesFailed, SessionInv, SessionTypeOK
    <3>2. QED  BY <1>7, <2>1, <3>1 DEF HubTakesFailed
  <2>2. QED
    BY <1>3, <1>9, <2>1
    DEF PumpStep, ReaderPanics, WriterWrites, WriterFails, SessionReceives, WriterReceives, ReaderReads
<1>10. QED  BY <1>4, <1>5, <1>6, <1>8, <1>9 DEF Next, ShubStep

\* A reader gets a message for a session only from the map.
LEMMA DeliveryIsKnown ==
  ASSUME SessionInv, [Next]_vars, NEW s \in Session, NEW c \in Conn, Delivering(c, s)'
  PROVE  Delivering(c, s) \/ s \in sessions
<1>1. toUser \in [Conn -> [session : Session, type : MessageType] \cup {None}]
  BY DEF SessionInv, SessionTypeOK
<1>2. ASSUME toUser'[c] \in {toUser[c], None} PROVE Delivering(c, s)
  BY <1>2 DEF Delivering
<1>3. ASSUME NEW d \in Conn, NEW t \in Session, SessionReceives(d, t) PROVE Delivering(c, s)
  BY <1>1, <1>2, <1>3 DEF SessionReceives
<1>4. ASSUME NEW d \in Conn, NEW t \in Session, NEW type \in MessageType, ReaderReads(d, t, type)
      PROVE  Delivering(c, s) \/ s \in sessions
  <2>1. CASE toUser' = [toUser EXCEPT ![d] = [session |-> t, type |-> type]] /\ t \in sessions /\ d = c
    BY <1>1, <2>1 DEF Delivering
  <2>2. CASE toUser' = [toUser EXCEPT ![d] = [session |-> t, type |-> type]] /\ d # c
    BY <1>1, <1>2, <2>2
  <2>3. CASE toUser' = toUser
    BY <1>2, <2>3
  <2>4. QED  BY <1>4, <2>1, <2>2, <2>3 DEF ReaderReads
<1>5. ASSUME toUser' = toUser PROVE Delivering(c, s)
  BY <1>2, <1>5
<1>6. ASSUME RegistryStep \/ ShubStep \/ UNCHANGED vars PROVE Delivering(c, s)
  BY <1>5, <1>6
  DEF RegistryStep, ConnStep, ShubStep, HubStoresSession, HubAnnounces, HubClosesSession, vars, svars
<1>7. ASSUME NEW t \in Session, SessionStep(t) PROVE Delivering(c, s)
  BY <1>5, <1>7
  DEF SessionStep, Lookup, Login, Dial, Encode, RequestPanics, AwaitTimesOut, Depart, PumpEnds,
      UserLeaves, UpReaderStops, UpReaderFails, UpReaderReads, UpReaderPanics, HubTakesEnrol,
      HubTakesUnenrol
<1>8. ASSUME NEW d \in Conn, PumpStep(d) PROVE Delivering(c, s) \/ s \in sessions
  <2>1. ASSUME \/ ReaderPanics(d) \/ WriterWrites(d) \/ WriterFails(d) \/ HubTakesFailed(d)
               \/ \E t \in Session : WriterReceives(d, t)
        PROVE  Delivering(c, s)
    BY <1>5, <2>1 DEF ReaderPanics, WriterWrites, WriterFails, HubTakesFailed, WriterReceives
  <2>2. QED  BY <1>3, <1>4, <1>8, <2>1 DEF PumpStep
<1>9. QED  BY <1>6, <1>7, <1>8 DEF Next

\* a stream that is connected or spoken to is known until it is closed,
LEMMA StepConnected ==
  ASSUME RegistryTypeOK, SessionInv, ServiceInv, [Next]_vars
  PROVE  ConnectedIsKnown'
<1>1. HandlerIsInTurn /\ KnownIsEnrolled /\ ConnectedIsKnown
  BY DEF ServiceInv
<1>2. ASSUME NEW s \in Session
      PROVE  /\ sess'[s].status = "connected" => ~Http(s) /\ ~Unenrolled(s)'
             /\ ~Http(s) /\ (sess'[s].status = "connected" \/ \E c \in Conn : Delivering(c, s)') => Kept(s)'
  <2>1. GoesOn(s)
    BY <1>1, SessionGoesOn
  <2>2. sess'[s].status = "connected" =>
           sess[s].status = "connected" \/ (sess'[s].at = "reenrol" /\ sess[s].at = "pump"
                                            /\ \E c \in Conn : Delivering(c, s))
    BY <2>1 DEF GoesOn, Ended
  <2>3. Unenrolled(s)' => Unenrolled(s)
    BY <2>1 DEF GoesOn, Unenrolled
  <2>4. sess[s].status = "connected" => ~Http(s) /\ ~Unenrolled(s)
    BY <1>1 DEF ConnectedIsKnown, Unenrolled
  <2>5. sess'[s].status = "connected" => ~Http(s) /\ ~Unenrolled(s)'
    BY <1>1, <2>2, <2>3, <2>4 DEF HandlerIsInTurn, Unenrolled
  <2>6. ~Http(s) /\ (sess'[s].status = "connected" \/ \E c \in Conn : Delivering(c, s)') => Kept(s)
    BY <1>1, <2>2, DeliveryIsKnown DEF ConnectedIsKnown, Kept
  <2>7. QED  BY <1>1, <2>5, <2>6, StaysKept
<1>3. QED  BY <1>2 DEF ConnectedIsKnown, Unenrolled, Kept, Http, Delivering

\* A writer that works for a session runs.
LEMMA StepWorks ==
  ASSUME RegistryTypeOK, SessionTypeOK, [Next]_vars, NEW c \in Conn,
         toAgent[c] # None => writer[c] = "run", toAgent'[c] # None
  PROVE  writer'[c] = "run"
<1> USE DEF RegistryTypeOK
<1>1. ASSUME toAgent' = toAgent, writer' = writer PROVE writer'[c] = "run"
  BY <1>1
<1>2. ASSUME NEW d \in Conn, ConnStep(d) PROVE writer'[c] = "run"
  <2>1. toAgent'[c] = toAgent[c]
    BY <1>2 DEF ConnStep, svars
  <2>2. CASE Upgrade(d)
    BY <2>1, <2>2 DEF Upgrade, Released
  <2>3. CASE WriterExits(d) /\ toAgent[d] = None
    BY <2>1, <2>3 DEF WriterExits
  <2>4. CASE HubTakesRegister(d)
    BY <2>1, <2>4 DEF HubTakesRegister
  <2>5. CASE \/ Refuse(d) \/ CheckOffline(d) \/ PingEnds(d) \/ LinkBreaks(d)
             \/ ReaderExits(d) \/ HubTakesUnregister(d)
    BY <2>1, <2>5 DEF Refuse, CheckOffline, PingEnds, LinkBreaks, ReaderExits, HubTakesUnregister
  <2>6. QED  BY <1>2, <2>2, <2>3, <2>4, <2>5 DEF ConnStep
<1>3. ASSUME HubStep \/ (\E i \in Id : ManualDisconnect(i)), UNCHANGED svars PROVE writer'[c] = "run"
  BY <1>1, <1>3 DEF HubStep, HubStores, HubCloses, HubDeletes, ManualDisconnect, svars
<1>4. ASSUME ShubStep \/ UNCHANGED vars PROVE writer'[c] = "run"
  BY <1>1, <1>4 DEF ShubStep, HubStoresSession, HubAnnounces, HubClosesSession, vars, svars, rvars
<1>5. ASSUME NEW s \in Session, SessionStep(s) PROVE writer'[c] = "run"
  BY <1>1, <1>5
  DEF SessionStep, Lookup, Login, Dial, Encode, RequestPanics, AwaitTimesOut, Depart, PumpEnds,
      UserLeaves, UpReaderStops, UpReaderFails, UpReaderReads, UpReaderPanics, HubTakesEnrol,
      HubTakesUnenrol, rvars
<1>6. ASSUME NEW d \in Conn, PumpStep(d) PROVE writer'[c] = "run"
  <2>1. toAgent \in [Conn -> [session : Session, at : {"write", "unenrol"}] \cup {None}]
    BY DEF SessionTypeOK
  <2>2. ASSUME ReaderPanics(d) PROVE writer'[c] = "run"
    BY <1>1, <2>2 DEF ReaderPanics, rvars
  <2>3. ASSUME WriterWrites(d) PROVE writer'[c] = "run"
    <3>1. toAgent' = [toAgent EXCEPT ![d] = None] /\ writer' = writer
      BY <2>3 DEF WriterWrites, rvars
    <3>2. QED  BY <2>1, <3>1
  <2>4. ASSUME WriterFails(d) PROVE writer'[c] = "run"
    <3>1. CASE toAgent[d].session \in sessions
      <4>1. toAgent' = [toAgent EXCEPT ![d].at = "unenrol"] /\ writer' = writer /\ toAgent[d] # None
        BY <2>4, <3>1 DEF WriterFails, rvars
      <4>2. QED  BY <2>1, <4>1
    <3>2. CASE toAgent[d].session \notin sessions
      <4>1. toAgent' = [toAgent EXCEPT ![d] = None] /\ WriterExits(d)
        BY <2>4, <3>2 DEF WriterFails
      <4>2. QED  BY <2>1, <4>1 DEF WriterExits
    <3>3. QED  BY <3>1, <3>2
  <2>5. ASSUME HubTakesFailed(d) PROVE writer'[c] = "run"
    <3>1. toAgent' = [toAgent EXCEPT ![d] = None] /\ WriterExits(d)
      BY <2>5 DEF HubTakesFailed
    <3>2. QED  BY <2>1, <3>1 DEF WriterExits
  <2>6. ASSUME NEW t \in Session, WriterReceives(d, t) PROVE writer'[c] = "run"
    <3>1. /\ toAgent' = [toAgent EXCEPT ![d] = [session |-> t, at |-> "write"]]
          /\ writer' = writer /\ writer[d] = "run"
      BY <2>6 DEF WriterReceives, rvars
    <3>2. QED  BY <2>1, <3>1
  <2>7. ASSUME NEW t \in Session,
               SessionReceives(d, t) \/ (\E type \in MessageType : ReaderReads(d, t, type))
        PROVE  writer'[c] = "run"
    BY <1>1, <2>7 DEF SessionReceives, ReaderReads, rvars
  <2>8. QED  BY <1>6, <2>2, <2>3, <2>4, <2>5, <2>6, <2>7 DEF PumpStep
<1>7. QED  BY <1>2, <1>3, <1>4, <1>5, <1>6 DEF Next, RegistryStep

\* and a pump runs only on a connection whose handler started it.
LEMMA StepStarted ==
  ASSUME RegistryInv, SessionInv, ServiceInv, [Next]_vars
  PROVE  PumpsAreStarted'
<1> USE RegistryAssumption, SessionAssumption
<1>1. RegistryTypeOK /\ SessionTypeOK /\ HandlerIsInTurn /\ PumpsAreStarted
  BY DEF ServiceInv, RegistryInv, SessionInv
<1>2. ASSUME NEW c \in Conn PROVE ConnGoesOn(c) /\ PumpStarted(c)'
  BY <1>1, SlotStep, ConnWalks DEF PumpsAreStarted
<1>3. ASSUME NEW c \in Conn, Enlisted(c) PROVE Enlisted(c)'
  BY <1>2, <1>3 DEF Enlisted, ConnGoesOn
<1>4. ASSUME NEW i \in Id, clients[i] # None PROVE Enlisted(clients[i])
  <2>1. clients[i] \in Conn
    BY <1>1, <1>4 DEF RegistryTypeOK
  <2>2. handler[clients[i]] \in {"ping", "leaving"} \/ Removing(clients[i])
    BY <1>4 DEF RegistryInv, EntryIsServed
  <2>3. handler[clients[i]] \in {"ping", "leaving", "gone"}
    BY <2>2 DEF RegistryInv, HubHoldsLive, Removing
  <2>4. QED  BY <1>1, <2>1, <2>2, <2>3 DEF PumpsAreStarted, PumpStarted, Removing, Enlisted
<1>5. ASSUME NEW s \in Session, sess'[s].down # None PROVE Enlisted(sess[s].down)'
  <2>1. GoesOn(s)
    BY <1>1, SessionGoesOn
  <2>2. sess'[s].down \in Conn
    <3>1. SessionInv'
      BY <1>1, StepSession
    <3>2. SessionTypeOK'
      BY <3>1 DEF SessionInv
    <3>3. sess'[s].down \in Conn \cup {None}
      BY <3>2 DEF SessionTypeOK, SessionObject
    <3>4. QED  BY <1>5, <3>3
  <2>3. sess[s].down = sess'[s].down \/ (\E i \in Id : clients[i] = sess'[s].down)
    BY <1>5, <2>1 DEF GoesOn
  <2>4. Enlisted(sess'[s].down)
    BY <1>1, <1>4, <1>5, <2>3 DEF PumpsAreStarted
  <2>5. ASSUME NEW c \in Conn, c = sess'[s].down PROVE Enlisted(c)'
    BY <1>3, <2>4, <2>5
  <2>6. QED  BY <2>2, <2>5
<1>6. ASSUME NEW c \in Conn, toAgent'[c] # None PROVE writer'[c] = "run"
  BY <1>1, <1>6, StepWorks DEF PumpsAreStarted
<1>7. (\A c \in Conn : PumpStarted(c) /\ (toAgent[c] # None => writer[c] = "run"))'
  BY <1>2, <1>6
<1>8. (\A s \in Session : sess[s].down # None => Enlisted(sess[s].down))'
  BY <1>5
<1>9. QED  BY <1>7, <1>8 DEF PumpsAreStarted

\* ServiceInv is inductive, given the two invariants before it,
LEMMA StepService ==
  ASSUME RegistryInv, SessionInv, ServiceInv, [Next]_vars
  PROVE  ServiceInv'
<1>1. RegistryTypeOK /\ HubIsOne /\ HandlerIsInTurn
  BY DEF RegistryInv, ServiceInv
<1>2. QED
  BY <1>1, StepHubIsOne, StepInTurn, StepEnrolled, StepConnected, StepStarted DEF ServiceInv

\* What is known of every reachable state.
Sound == RegistryInv /\ SessionInv /\ ServiceInv

\* and so all three hold of every reachable state.
LEMMA SoundInvariant == Init /\ [][Next]_vars => []Sound
<1>1. Init => Sound
  BY InitInv, InitSession, InitService DEF Init, Sound
<1>2. Sound /\ [Next]_vars => Sound'
  <2>1. RegistryInv => RegistryTypeOK
    BY DEF RegistryInv
  <2>2. QED  BY <2>1, StepsOfRegistry, StepInv, StepSession, StepService DEF Sound
<1>3. QED  BY <1>1, <1>2, PTL

-----------------------------------------------------------------------------
(* What must eventually happen.  Most of it needs the fairness of the hub, *)
(* of the handlers and of the readers only: that is ServiceSpec, and the   *)
(* composition of the server with an agent implements it.                  *)

ServiceSpec == Init /\ [][Next]_vars /\ ServiceFairness

LEMMA ServiceOfSpec == Spec => ServiceSpec
BY DEF Spec, ServiceSpec, Fairness

-----------------------------------------------------------------------------
(* The hub gets back to its select.                                        *)

\* The parts of Sound that most steps below use.
LEMMA TypesOfSound ==
  ASSUME Sound
  PROVE  RegistryTypeOK /\ SessionTypeOK /\ HubIsOne /\ HandlerIsInTurn /\ KnownIsEnrolled
         /\ ConnectedIsKnown /\ PumpsAreStarted /\ crash \in {"no", "send to user", "send to agent"}
BY DEF Sound, RegistryInv, SessionInv, ServiceInv, SessionTypeOK

\* In an operation the hub takes nothing new.
LEMMA HubWorks ==
  ASSUME Sound, [Next]_vars, ~HubFree
  PROVE  \/ hub' = hub /\ shub' = shub
         \/ HubStep /\ shub' = shub
         \/ ShubStep /\ hub' = hub
<1> DEFINE Goal == \/ hub' = hub /\ shub' = shub
                   \/ HubStep /\ shub' = shub
                   \/ ShubStep /\ hub' = hub
<1>1. ASSUME NEW c \in Conn, ConnStep(c) PROVE Goal
  BY <1>1
  DEF ConnStep, HubFree, svars, Upgrade, Refuse, CheckOffline, PingEnds, LinkBreaks, ReaderExits,
      WriterExits, HubTakesRegister, HubTakesUnregister
<1>2. ASSUME UNCHANGED svars, HubStep \/ \E i \in Id : ManualDisconnect(i) PROVE Goal
  BY <1>2 DEF ManualDisconnect, svars
<1>3. ASSUME ShubStep PROVE Goal
  BY <1>3 DEF ShubStep, HubStoresSession, HubAnnounces, HubClosesSession, rvars
<1>4. ASSUME NEW s \in Session, SessionStep(s) PROVE Goal
  BY <1>4
  DEF SessionStep, Lookup, Login, Dial, Encode, RequestPanics, AwaitTimesOut, Depart, PumpEnds,
      UserLeaves, UpReaderStops, UpReaderFails, UpReaderReads, UpReaderPanics, HubTakesEnrol,
      HubTakesUnenrol, rvars
<1>5. ASSUME NEW c \in Conn, PumpStep(c) PROVE Goal
  <2>1. ~HubTakesFailed(c)
    BY DEF HubTakesFailed
  <2>2. ASSUME WriterFails(c) PROVE Goal
    BY <2>2 DEF WriterFails, WriterExits, rvars
  <2>3. ASSUME NEW s \in Session,
               \/ SessionReceives(c, s) \/ WriterReceives(c, s)
               \/ \E type \in MessageType : ReaderReads(c, s, type)
        PROVE  Goal
    BY <2>3 DEF SessionReceives, WriterReceives, ReaderReads, rvars
  <2>4. ASSUME ReaderPanics(c) \/ WriterWrites(c) PROVE Goal
    BY <2>4 DEF ReaderPanics, WriterWrites, rvars
  <2>5. QED  BY <1>5, <2>1, <2>2, <2>3, <2>4 DEF PumpStep
<1>6. CASE UNCHANGED vars
  BY <1>6 DEF vars, rvars, svars
<1>7. QED  BY <1>1, <1>2, <1>3, <1>4, <1>5, <1>6 DEF Next, RegistryStep

\* The hub finishes whatever operation it is in and gets back to its select.
LEMMA HubSelects == ServiceSpec /\ []ServerUnblocked => []<>(HubFree \/ ~Running)
<1> DEFINE Closes    == hub.op = "close" /\ shub = Idle
           Updates   == hub.op \in {"store", "delete"} /\ shub = Idle
           Stores    == shub.op = "store" /\ hub = Selecting
           Finishes  == shub.op \in {"announce", "close"} /\ hub = Selecting
           Busy      == Running /\ ~HubFree
<1> USE DEF Selecting, Hub, Idle, Shub
<1>1. Sound => HubFree \/ Closes \/ Updates \/ Stores \/ Finishes
  <2> SUFFICES ASSUME Sound PROVE HubFree \/ Closes \/ Updates \/ Stores \/ Finishes
    OBVIOUS
  <2>1. RegistryTypeOK /\ SessionTypeOK /\ HubIsOne
    BY TypesOfSound
  <2>2. hub = Selecting \/ hub.op \in {"close", "store", "delete"}
    BY <2>1 DEF RegistryTypeOK, HubOp
  <2>3. shub = Idle \/ shub.op \in {"store", "announce", "close"}
    BY <2>1 DEF SessionTypeOK, ShubOp
  <2>4. QED  BY <2>1, <2>2, <2>3 DEF HubFree, HubIsOne
<1>2. ServerUnblocked /\ Busy => ENABLED <<HubRuns>>_vars
  BY DEF ServerUnblocked, HubUnblocked
<1>3. ASSUME Sound, [Next]_vars, Busy
      PROVE  /\ Closes   => Closes' \/ Updates'
             /\ Updates  => Updates' \/ HubFree'
             /\ Stores   => Stores' \/ Finishes'
             /\ Finishes => Finishes' \/ HubFree'
  <2>1. \/ hub' = hub /\ shub' = shub
        \/ HubStep /\ shub' = shub
        \/ ShubStep /\ hub' = hub
    BY <1>3, HubWorks
  <2>2. CASE hub' = hub /\ shub' = shub
    BY <2>2 DEF HubFree
  <2>3. CASE HubStep /\ shub' = shub
    BY <2>3 DEF HubStep, HubStores, HubCloses, HubDeletes, HubFree
  <2>4. CASE ShubStep /\ hub' = hub
    BY <2>4 DEF ShubStep, HubStoresSession, HubAnnounces, HubClosesSession, HubFree
  <2>5. QED  BY <2>1, <2>2, <2>3, <2>4
<1>4. ASSUME HubRuns
      PROVE  /\ Closes   => Updates'
             /\ Updates  => HubFree'
             /\ Stores   => Finishes'
             /\ Finishes => HubFree'
  <2>1. CASE HubStep /\ UNCHANGED svars
    BY <2>1 DEF HubStep, HubStores, HubCloses, HubDeletes, HubFree, svars
  <2>2. CASE ShubStep
    BY <2>2 DEF ShubStep, HubStoresSession, HubAnnounces, HubClosesSession, HubFree, rvars
  <2>3. QED  BY <1>4, <2>1, <2>2 DEF HubRuns
<1>5. ~HubFree /\ Running <=> Busy
  OBVIOUS
<1> HIDE DEF Closes, Updates, Stores, Finishes, Busy
<1>6. Sound /\ [Next]_vars /\ Busy =>
             /\ Closes   => Closes' \/ Updates'
             /\ Updates  => Updates' \/ HubFree'
             /\ Stores   => Stores' \/ Finishes'
             /\ Finishes => Finishes' \/ HubFree'
  BY <1>3
<1>7. <<HubRuns>>_vars =>
             /\ Closes   => Updates'
             /\ Updates  => HubFree'
             /\ Stores   => Finishes'
             /\ Finishes => HubFree'
  BY <1>4
<1>8. QED
  BY <1>1, <1>2, <1>5, <1>6, <1>7, SoundInvariant, PTL DEF ServiceSpec, ServiceFairness

-----------------------------------------------------------------------------
(* Handlers return.                                                        *)

\* From the fairness of the specification, that of each handler,
LEMMA HandlersAreFair == ServiceSpec => \A s \in Session : HandlerFairness(s)
BY PTL DEF ServiceSpec, ServiceFairness

\* of each connection's reader,
LEMMA ReadersAreFair == ServiceSpec => \A c \in Conn : ReaderFairness(c)
BY PTL DEF ServiceSpec, ServiceFairness

\* of each delivery,
LEMMA DeliveriesAreFair == ServiceSpec => \A c \in Conn, s \in Session : DeliveryFairness(c, s)
BY PTL DEF ServiceSpec, ServiceFairness

\* and of the rest.
LEMMA OthersAreFair ==
  Spec => /\ \A c \in Conn : ConnectionFairness(c)
          /\ \A s \in Session : UserFairness(s)
BY PTL DEF Spec, Fairness

\* What is said of all sessions, and of all connections, is said of each.
LEMMA EachCanMove ==
  /\ \A s \in Session : []ServerUnblocked => [](Running => SessionUnblocked(s))
  /\ \A c \in Conn : []ServerUnblocked => [](Running => ConnectionUnblocked(c))
<1>1. ASSUME NEW s \in Session PROVE []ServerUnblocked => [](Running => SessionUnblocked(s))
  <2>1. ServerUnblocked => (Running => SessionUnblocked(s))
    BY DEF ServerUnblocked
  <2>2. QED  BY <2>1, PTL
<1>2. ASSUME NEW c \in Conn PROVE []ServerUnblocked => [](Running => ConnectionUnblocked(c))
  <2>1. ServerUnblocked => (Running => ConnectionUnblocked(c))
    BY DEF ServerUnblocked
  <2>2. QED  BY <2>1, PTL
<1>3. QED  BY <1>1, <1>2

\* Each session goes on along its way, and a fair step of its handler, or of the
\* hub for it, takes it on indeed.
LEMMA SessionSteps ==
  ASSUME Sound, [Next]_vars, NEW s \in Session
  PROVE  /\ GoesOn(s)
         /\ HandlerRuns(s) => sess'[s].at # sess[s].at /\ sess'[s].at # "reenrol"
         /\ SessionIsServed(s) => sess'[s].at # sess[s].at
<1> sess \in [Session -> SessionObject] /\ sess[s] \in SessionObject /\ HandlerIsInTurn
  BY TypesOfSound DEF SessionTypeOK
<1>1. GoesOn(s)
  BY TypesOfSound, SessionGoesOn DEF Sound
<1>2. ASSUME HandlerRuns(s) PROVE sess'[s].at # sess[s].at /\ sess'[s].at # "reenrol"
  <2>1. CASE PumpEnds(s)
    BY <2>1 DEF PumpEnds, Leave, SessionObject
  <2>2. CASE Depart(s)
    BY <2>2 DEF Depart, SessionObject
  <2>3. CASE \/ Login(s) \/ Dial(s) \/ Encode(s) \/ RequestPanics(s) \/ AwaitTimesOut(s)
    BY <2>3 DEF Login, Dial, Encode, RequestPanics, AwaitTimesOut, SessionObject
  <2>4. QED  BY <1>2, <2>1, <2>2, <2>3 DEF HandlerRuns
<1>3. ASSUME SessionIsServed(s) PROVE sess'[s].at # sess[s].at
  <2>1. CASE HubTakesUnenrol(s)
    BY <2>1 DEF HubTakesUnenrol, SessionObject
  <2>2. CASE HubTakesEnrol(s)
    BY <2>2 DEF HubTakesEnrol, SessionObject
  <2>3. QED  BY <1>3, <2>1, <2>2 DEF SessionIsServed
<1>4. QED  BY <1>1, <1>2, <1>3

Over(s) == sess[s].at = "done" \/ ~Running
Leaving(s) == sess[s].at \in {"leave", "unenrol"}

\* A handler on its way out returns: it leaves the session to the hub, which
\* takes it, or is done at once.
LEMMA LeavingEnds ==
  ASSUME NEW s \in Session
  PROVE  ServiceSpec /\ []ServerUnblocked => (Leaving(s) ~> Over(s))
<1> DEFINE Leaves == sess[s].at = "leave"
           Waits  == sess[s].at = "unenrol"
<1>1. Leaving(s) => Leaves \/ Waits
  BY DEF Leaving
<1>2. SessionUnblocked(s) =>
         /\ Leaves => ENABLED <<HandlerRuns(s)>>_vars
         /\ Waits /\ HubFree => ENABLED <<SessionIsServed(s)>>_vars
  BY DEF SessionUnblocked, HandlerCanRun
<1>3. Sound /\ [Next]_vars => /\ Leaves => Leaves' \/ Waits' \/ Over(s)'
                              /\ Waits => Waits' \/ Over(s)'
  BY SessionSteps DEF GoesOn, Over
<1>4. Sound /\ [Next]_vars => /\ Leaves /\ <<HandlerRuns(s)>>_vars => Waits' \/ Over(s)'
                              /\ Waits /\ <<SessionIsServed(s)>>_vars => Over(s)'
  BY SessionSteps DEF GoesOn, Over
<1>5. ~Over(s) => Running
  BY DEF Over
<1>6. ServiceSpec => HandlerFairness(s)
  BY HandlersAreFair
<1>7. []ServerUnblocked => [](Running => SessionUnblocked(s))
  BY EachCanMove
<1> HIDE DEF Leaves, Waits
<1>8. ServiceSpec /\ []ServerUnblocked /\ HandlerFairness(s) => (Leaving(s) ~> Over(s))
  BY <1>1, <1>2, <1>3, <1>4, <1>5, <1>7, HubSelects, SoundInvariant, PTL
  DEF ServiceSpec, HandlerFairness
<1>9. QED  BY <1>6, <1>8, PTL

\* An end of the session that its pump watches for: the user's, or the agent's.
Doomed(s) == sess[s].link = "down" \/ (sess[s].down # None /\ cancelled[sess[s].down])

\* Once it has come, it stays.
LEMMA DoomStays ==
  ASSUME Sound, [Next]_vars, NEW s \in Session, Doomed(s), sess[s].at # "new"
  PROVE  Doomed(s)'
<1>1. GoesOn(s)
  BY SessionSteps
<1>2. CASE sess[s].link = "down"
  BY <1>1, <1>2 DEF GoesOn, Doomed
<1>3. CASE sess[s].down # None /\ cancelled[sess[s].down]
  <2>1. sess[s].down \in Conn
    BY <1>3, TypesOfSound DEF SessionTypeOK, SessionObject
  <2>2. handler[sess[s].down] # "free"
    BY <1>3, TypesOfSound DEF PumpsAreStarted, Enlisted
  <2>3. ConnGoesOn(sess[s].down)
    BY <2>1, TypesOfSound, SlotStep, ConnWalks DEF PumpsAreStarted, Sound
  <2>4. cancelled'[sess[s].down] /\ sess'[s].down = sess[s].down
    BY <1>1, <1>3, <2>2, <2>3 DEF ConnGoesOn, GoesOn
  <2>5. QED  BY <1>3, <2>4 DEF Doomed
<1>4. QED  BY <1>2, <1>3 DEF Doomed

\* A doomed stream that has begun to pump ends: an answer of its agent may take
\* it to the hub once more, but it is connected then and not sent there again.
LEMMA DoomedEnds ==
  ASSUME NEW s \in Session
  PROVE  ServiceSpec /\ []ServerUnblocked
           => ((sess[s].at \in {"pump", "reenrol"} /\ Doomed(s)) ~> Over(s))
<1> DEFINE Begins  == Doomed(s) /\ sess[s].at = "pump" /\ sess[s].status = "connecting"
           Reenrols == Doomed(s) /\ sess[s].at = "reenrol" /\ sess[s].status # "connecting"
           Pumps   == Doomed(s) /\ sess[s].at = "pump" /\ sess[s].status # "connecting"
<1>1. Sound /\ sess[s].at \in {"pump", "reenrol"} /\ Doomed(s) => Begins \/ Reenrols \/ Pumps
  BY TypesOfSound DEF HandlerIsInTurn
<1>2. SessionUnblocked(s) =>
         /\ Begins \/ Pumps => ENABLED <<HandlerRuns(s)>>_vars
         /\ Reenrols /\ HubFree => ENABLED <<SessionIsServed(s)>>_vars
  BY DEF SessionUnblocked, HandlerCanRun, Doomed
<1>3. Sound /\ [Next]_vars =>
         /\ Begins => Begins' \/ Reenrols' \/ Pumps' \/ Leaving(s)'
         /\ Reenrols => Reenrols' \/ Pumps'
         /\ Pumps => Pumps' \/ Leaving(s)'
  BY SessionSteps, DoomStays DEF GoesOn, Leaving, Ended
<1>4. Sound /\ [Next]_vars =>
         /\ (Begins \/ Pumps) /\ <<HandlerRuns(s)>>_vars => Leaving(s)'
         /\ Reenrols /\ <<SessionIsServed(s)>>_vars => Pumps'
  BY SessionSteps, DoomStays DEF GoesOn, Leaving, Ended
<1>5. ~Over(s) => Running
  BY DEF Over
<1>6. ServiceSpec => HandlerFairness(s)
  BY HandlersAreFair
<1>7. []ServerUnblocked => [](Running => SessionUnblocked(s))
  BY EachCanMove
<1>8. ServiceSpec /\ []ServerUnblocked => (Leaving(s) ~> Over(s))
  BY LeavingEnds
<1> DEFINE Starts == sess[s].at \in {"pump", "reenrol"} /\ Doomed(s)
<1> HIDE DEF Begins, Reenrols, Pumps
<1>9. Sound /\ Starts => Begins \/ Reenrols \/ Pumps
  BY <1>1
<1> HIDE DEF Starts
<1>10. ServiceSpec /\ []ServerUnblocked /\ HandlerFairness(s) => (Starts ~> Over(s))
  BY <1>2, <1>3, <1>4, <1>5, <1>7, <1>8, <1>9, HubSelects, SoundInvariant, PTL
  DEF ServiceSpec, HandlerFairness
<1>11. QED  BY <1>6, <1>10, PTL DEF Starts

\* The handler of a session whose user left returns, wherever it was: the pump
\* finds the broken websocket, or an earlier stage leads to it.
LEMMA UsersGoneEnd == ServiceSpec /\ []ServerUnblocked => UserGoneEnds
<1> SUFFICES ASSUME NEW s \in Session
             PROVE  ServiceSpec /\ []ServerUnblocked
                      => (sess[s].link = "down" ~> (sess[s].at = "done" \/ ~Running))
  BY DEF UserGoneEnds
<1> DEFINE Gone   == sess[s].link = "down"
           LogsIn == Gone /\ sess[s].at = "login"
           Dials  == Gone /\ sess[s].at = "dial"
           Enrols == Gone /\ sess[s].at = "enrol"
           Runs   == sess[s].at \in {"pump", "reenrol"} /\ Doomed(s)
<1>1. Sound /\ Gone => LogsIn \/ Dials \/ Enrols \/ Runs \/ Leaving(s) \/ Over(s)
  <2> SUFFICES ASSUME Sound, Gone PROVE LogsIn \/ Dials \/ Enrols \/ Runs \/ Leaving(s) \/ Over(s)
    OBVIOUS
  <2>1. sess[s].at \in ProxyAt
    BY TypesOfSound DEF SessionTypeOK, SessionObject
  <2>2. sess[s].at \notin {"new", "encode", "request", "await"}
    BY TypesOfSound DEF HandlerIsInTurn
  <2>3. QED  BY <2>1, <2>2 DEF ProxyAt, Leaving, Over, Doomed
<1>2. SessionUnblocked(s) =>
         /\ LogsIn \/ Dials => ENABLED <<HandlerRuns(s)>>_vars
         /\ Enrols /\ HubFree => ENABLED <<SessionIsServed(s)>>_vars
  BY DEF SessionUnblocked, HandlerCanRun
<1>3. Sound /\ [Next]_vars =>
         /\ LogsIn => LogsIn' \/ Leaving(s)'
         /\ Dials => Dials' \/ Enrols' \/ Leaving(s)'
         /\ Enrols => Enrols' \/ Runs'
  BY SessionSteps, TypesOfSound DEF GoesOn, Leaving, Doomed, HandlerIsInTurn
<1>4. Sound /\ [Next]_vars =>
         /\ LogsIn /\ <<HandlerRuns(s)>>_vars => Leaving(s)'
         /\ Dials /\ <<HandlerRuns(s)>>_vars => Enrols' \/ Leaving(s)'
         /\ Enrols /\ <<SessionIsServed(s)>>_vars => Runs'
  BY SessionSteps, TypesOfSound DEF GoesOn, Leaving, Doomed, HandlerIsInTurn
<1>5. ~Over(s) => Running
  BY DEF Over
<1>6. ServiceSpec => HandlerFairness(s)
  BY HandlersAreFair
<1>7. []ServerUnblocked => [](Running => SessionUnblocked(s))
  BY EachCanMove
<1>8. ServiceSpec /\ []ServerUnblocked => (Leaving(s) ~> Over(s))
  BY LeavingEnds
<1>9. ServiceSpec /\ []ServerUnblocked => (Runs ~> Over(s))
  BY DoomedEnds
<1> HIDE DEF Gone, LogsIn, Dials, Enrols, Runs
<1>10. ServiceSpec /\ []ServerUnblocked /\ HandlerFairness(s) => (Gone ~> Over(s))
  BY <1>1, <1>2, <1>3, <1>4, <1>5, <1>7, <1>8, <1>9, HubSelects, SoundInvariant, PTL
  DEF ServiceSpec, HandlerFairness
<1>11. QED  BY <1>6, <1>10, PTL DEF Gone, Over

\* A stream that pumps when the context of its agent's connection is done ends,
\* even if an answer of the agent still sends its handler to the hub.
LEMMA AgentsGoneEnd == ServiceSpec /\ []ServerUnblocked => AgentGoneEnds
<1> SUFFICES ASSUME NEW s \in Session
             PROVE  ServiceSpec /\ []ServerUnblocked
                      => ((sess[s].at = "pump" /\ cancelled[sess[s].down])
                             ~> (sess[s].at = "done" \/ ~Running))
  BY DEF AgentGoneEnds
<1> DEFINE Ends == sess[s].at = "pump" /\ cancelled[sess[s].down]
           Runs == sess[s].at \in {"pump", "reenrol"} /\ Doomed(s)
<1>1. Sound /\ Ends => Runs
  BY TypesOfSound DEF SessionTypeOK, Doomed
<1>2. ServiceSpec /\ []ServerUnblocked => (Runs ~> Over(s))
  BY DoomedEnds
<1> HIDE DEF Ends, Runs
<1>3. ServiceSpec /\ []ServerUnblocked => (Ends ~> Over(s))
  BY <1>1, <1>2, SoundInvariant, PTL DEF ServiceSpec
<1>4. QED  BY <1>3 DEF Ends, Over

-----------------------------------------------------------------------------
(* Messages are taken.                                                     *)

\* A message that a reader sends is received by a handler, or stays what it is:
LEMMA MessageStays ==
  ASSUME Sound, [Next]_vars, NEW c \in Conn, NEW s \in Session, Delivering(c, s)
  PROVE  toUser'[c] = toUser[c] \/ SessionReceives(c, s)
<1> DEFINE Goal == toUser'[c] = toUser[c] \/ SessionReceives(c, s)
<1>1. ASSUME toUser' = toUser PROVE Goal
  BY <1>1
<1>2. ASSUME RegistryStep \/ ShubStep \/ UNCHANGED vars PROVE Goal
  BY <1>1, <1>2
  DEF RegistryStep, ConnStep, ShubStep, HubStoresSession, HubAnnounces, HubClosesSession, vars, svars
<1>3. ASSUME NEW t \in Session, SessionStep(t) PROVE Goal
  BY <1>1, <1>3
  DEF SessionStep, Lookup, Login, Dial, Encode, RequestPanics, AwaitTimesOut, Depart, PumpEnds,
      UserLeaves, UpReaderStops, UpReaderFails, UpReaderReads, UpReaderPanics, HubTakesEnrol,
      HubTakesUnenrol
<1>4. ASSUME NEW d \in Conn, PumpStep(d) PROVE Goal
  <2>1. toUser \in [Conn -> [session : Session, type : MessageType] \cup {None}]
    BY TypesOfSound DEF SessionTypeOK
  <2>2. ASSUME NEW t \in Session, SessionReceives(d, t) PROVE Goal
    <3>1. toUser' = [toUser EXCEPT ![d] = None] /\ toUser[d].session = t
      BY <2>2 DEF SessionReceives
    <3>2. CASE d = c
      BY <2>2, <3>1, <3>2 DEF Delivering
    <3>3. CASE d # c
      BY <2>1, <3>1, <3>3
    <3>4. QED  BY <3>2, <3>3
  <2>3. ASSUME NEW t \in Session, NEW type \in MessageType, ReaderReads(d, t, type) PROVE Goal
    <3>1. /\ toUser[d] = None
          /\ toUser' = toUser \/ toUser' = [toUser EXCEPT ![d] = [session |-> t, type |-> type]]
      BY <2>3 DEF ReaderReads
    <3>2. d # c
      BY <3>1 DEF Delivering
    <3>3. QED  BY <2>1, <3>1, <3>2
  <2>4. QED
    BY <1>1, <1>4, <2>2, <2>3
    DEF PumpStep, ReaderPanics, WriterWrites, WriterFails, HubTakesFailed, WriterReceives
<1>5. QED  BY <1>2, <1>3, <1>4 DEF Next

\* the reader is free, or sends it still.
LEMMA DeliveryStep ==
  ASSUME Sound, [Next]_vars, NEW c \in Conn, NEW s \in Session, Delivering(c, s)
  PROVE  Delivering(c, s)' \/ toUser'[c] = None
<1>1. CASE toUser'[c] = toUser[c]
  BY <1>1 DEF Delivering
<1>2. CASE SessionReceives(c, s)
  BY <1>2, TypesOfSound DEF SessionReceives, SessionTypeOK
<1>3. QED  BY <1>1, <1>2, MessageStays

\* The reader of an agent's connection gets rid of a message for a session,
\* whatever the session's handler does meanwhile: only an http session that is
\* over holds it for good.
LEMMA ReadersLetGo == ServiceSpec /\ []ServerUnblocked => ReaderIsFreed
<1> SUFFICES ASSUME NEW c \in Conn, NEW s \in Session
             PROVE  ServiceSpec /\ []ServerUnblocked
                      => (Delivering(c, s)
                            ~> (toUser[c] = None \/ ~Running \/ (Http(s) /\ sess[s].at = "done")))
  BY DEF ReaderIsFreed
<1> DEFINE Sends   == Delivering(c, s)
           Freed   == toUser[c] = None \/ ~Running \/ (Http(s) /\ sess[s].at = "done")
           Awaits  == Http(s) /\ sess[s].at = "await"
           Departs == Http(s) /\ Leaving(s)
           Open    == Sends /\ ~Http(s) /\ ~sess[s].closed
           Pumps   == Open /\ sess[s].at = "pump"
           Reenrols == Open /\ sess[s].at = "reenrol"
           Leaves  == Open /\ Leaving(s)
           Returned == Open /\ sess[s].at = "done"
           Shut    == Sends /\ sess[s].closed
<1>1. Sound /\ Sends => \/ Awaits \/ Departs \/ Freed
                        \/ Pumps \/ Reenrols \/ Leaves \/ Returned \/ Shut
  <2> SUFFICES ASSUME Sound, Sends
               PROVE  \/ Awaits \/ Departs \/ Freed
                      \/ Pumps \/ Reenrols \/ Leaves \/ Returned \/ Shut
    OBVIOUS
  <2>1. sess[s].at \in ProxyAt /\ sess[s].closed \in BOOLEAN
    BY TypesOfSound DEF SessionTypeOK, SessionObject
  <2>2. sess[s].at \notin {"new", "login", "dial", "enrol"}
    BY TypesOfSound DEF KnownIsEnrolled
  <2>3. Http(s) => sess[s].at \notin {"encode", "request", "pump", "reenrol"}
    BY TypesOfSound DEF KnownIsEnrolled, HandlerIsInTurn
  <2>4. ~Http(s) => sess[s].at \notin {"encode", "request", "await"}
    BY TypesOfSound DEF HandlerIsInTurn
  <2>5. QED  BY <2>1, <2>2, <2>3, <2>4 DEF ProxyAt, Leaving
<1>2. (Running => SessionUnblocked(s)) /\ Running =>
         /\ Awaits => ENABLED <<HandlerRuns(s)>>_vars
         /\ Reenrols /\ HubFree => ENABLED <<SessionIsServed(s)>>_vars
         /\ Pumps => ENABLED <<MessageIsTaken(c, s)>>_vars
  <2>1. SessionUnblocked(s) =>
           /\ Awaits => ENABLED <<HandlerRuns(s)>>_vars
           /\ Reenrols /\ HubFree => ENABLED <<SessionIsServed(s)>>_vars
    BY DEF SessionUnblocked, HandlerCanRun
  <2>2. SessionUnblocked(s) => DeliveryUnblocked(c, s)
    BY DEF SessionUnblocked
  <2>3. DeliveryUnblocked(c, s) => (Pumps => ENABLED <<MessageIsTaken(c, s)>>_vars)
    BY DEF DeliveryUnblocked, Receives
  <2>4. QED  BY <2>1, <2>2, <2>3
<1>3. (Running => ConnectionUnblocked(c)) /\ Running /\ Shut => ENABLED <<ReaderRuns(c)>>_vars
  BY DEF ConnectionUnblocked, Delivering
<1>4. Sound /\ ServerUnblocked /\ Running /\ Returned => ENABLED <<HubRuns>>_vars
  <2>1. Sound /\ Returned => shub = Shub("close", s)
    BY DEF Sound, SessionInv, DoneIsClosed
  <2>2. shub = Shub("close", s) => ~HubFree
    BY DEF HubFree, Shub, Idle
  <2>3. QED  BY <2>1, <2>2 DEF ServerUnblocked, HubUnblocked
<1>5. Sound /\ [Next]_vars =>
         /\ Awaits => Awaits' \/ Departs'
         /\ Pumps => Pumps' \/ Reenrols' \/ Leaves' \/ Shut' \/ Freed'
         /\ Reenrols => Reenrols' \/ Pumps' \/ Shut' \/ Freed'
         /\ Leaves => Leaves' \/ Returned' \/ Shut' \/ Freed'
         /\ Returned => Returned' \/ Shut' \/ Freed'
         /\ Shut => Shut' \/ Freed'
  <2> SUFFICES ASSUME Sound, [Next]_vars
               PROVE  /\ Awaits => Awaits' \/ Departs'
                      /\ Pumps => Pumps' \/ Reenrols' \/ Leaves' \/ Shut' \/ Freed'
                      /\ Reenrols => Reenrols' \/ Pumps' \/ Shut' \/ Freed'
                      /\ Leaves => Leaves' \/ Returned' \/ Shut' \/ Freed'
                      /\ Returned => Returned' \/ Shut' \/ Freed'
                      /\ Shut => Shut' \/ Freed'
    OBVIOUS
  <2>1. GoesOn(s) /\ Http(s)' = Http(s)
    BY SessionSteps DEF Http
  <2>2. Sends => Sends' \/ Freed'
    BY DeliveryStep
  <2>3. Awaits => Awaits' \/ Departs'
    BY <2>1 DEF GoesOn, Leaving
  <2>4. Pumps => Pumps' \/ Reenrols' \/ Leaves' \/ Shut' \/ Freed'
    BY <2>1, <2>2 DEF GoesOn, Leaving
  <2>5. Reenrols => Reenrols' \/ Pumps' \/ Shut' \/ Freed'
    BY <2>1, <2>2 DEF GoesOn
  <2>6. Leaves => Leaves' \/ Returned' \/ Shut' \/ Freed'
    BY <2>1, <2>2 DEF GoesOn, Leaving
  <2>7. Returned => Returned' \/ Shut' \/ Freed'
    BY <2>1, <2>2 DEF GoesOn
  <2>8. Shut => Shut' \/ Freed'
    BY <2>1, <2>2 DEF GoesOn
  <2>9. QED  BY <2>3, <2>4, <2>5, <2>6, <2>7, <2>8
<1>6. Sound /\ [Next]_vars =>
         /\ Awaits /\ <<HandlerRuns(s)>>_vars => Departs'
         /\ Reenrols /\ <<SessionIsServed(s)>>_vars => Pumps' \/ Shut' \/ Freed'
  <2>1. Sound /\ [Next]_vars /\ Awaits /\ <<HandlerRuns(s)>>_vars => ~Awaits'
    BY SessionSteps
  <2>2. Sound /\ [Next]_vars /\ Reenrols /\ <<SessionIsServed(s)>>_vars => ~Reenrols'
    BY SessionSteps
  <2>3. QED  BY <1>5, <2>1, <2>2
<1>7. Sound /\ <<MessageIsTaken(c, s)>>_vars => Freed'
  BY TypesOfSound DEF MessageIsTaken, SessionReceives, SessionTypeOK
<1>8. Sound /\ Returned /\ <<HubRuns>>_vars => ~Returned'
  <2> SUFFICES ASSUME Sound, Returned, HubRuns PROVE sess'[s].closed
    OBVIOUS
  <2>1. shub = Shub("close", s) /\ hub = Selecting
    <3>1. shub = Shub("close", s)
      BY DEF Sound, SessionInv, DoneIsClosed
    <3>2. shub # Idle
      BY <3>1 DEF Shub, Idle
    <3>3. QED  BY <3>1, <3>2, TypesOfSound DEF HubIsOne
  <2>2. HubClosesSession
    BY <2>1 DEF HubRuns, ShubStep, HubStoresSession, HubAnnounces, HubStep, HubStores, HubCloses,
       HubDeletes, Shub, Selecting, Hub
  <2>3. sess' = [sess EXCEPT ![s].closed = TRUE] /\ sess[s] \in SessionObject
    BY <2>1, <2>2, TypesOfSound DEF HubClosesSession, Shub, SessionTypeOK
  <2>4. QED  BY <2>3, TypesOfSound DEF SessionTypeOK, SessionObject
<1>9. Shut /\ <<ReaderRuns(c)>>_vars => Freed'
  BY DEF ReaderRuns, ReaderPanics, Delivering, Running
<1>10. /\ ~Freed => Running
       /\ Sends /\ toUser[c] = None => FALSE
       /\ Leaves /\ Over(s) => Freed
       /\ Departs /\ Over(s) => Freed
       /\ Http(s) /\ Over(s) => Freed
       /\ Http(s) => Http(s)'
       /\ Departs => Leaving(s) /\ Http(s)
       /\ Leaves => Leaving(s)
  BY DEF Delivering, Over, Leaving, Http
<1>11. ServiceSpec => ReaderFairness(c)
  BY ReadersAreFair
<1>12. ServiceSpec => HandlerFairness(s)
  BY HandlersAreFair
<1>13. ServiceSpec => DeliveryFairness(c, s)
  BY DeliveriesAreFair
<1>14. /\ []ServerUnblocked => [](Running => SessionUnblocked(s))
       /\ []ServerUnblocked => [](Running => ConnectionUnblocked(c))
  BY EachCanMove
<1>15. ServiceSpec /\ []ServerUnblocked => (Leaving(s) ~> Over(s))
  BY LeavingEnds
<1> HIDE DEF Sends, Freed, Awaits, Departs, Open, Pumps, Reenrols, Leaves, Returned, Shut
<1>16. ServiceSpec /\ []ServerUnblocked /\ ReaderFairness(c) /\ HandlerFairness(s)
          /\ DeliveryFairness(c, s) => (Sends ~> Freed)
  BY <1>1, <1>2, <1>3, <1>4, <1>5, <1>6, <1>7, <1>8, <1>9, <1>10, <1>14, <1>15,
     HubSelects, SoundInvariant, PTL
  DEF ServiceSpec, ServiceFairness, HandlerFairness, ReaderFairness, DeliveryFairness
<1>17. QED  BY <1>11, <1>12, <1>13, <1>16, PTL DEF Sends, Freed

-----------------------------------------------------------------------------
(* Readers go on.                                                          *)

\* The reader of a connection is free again and again, whoever its messages are
\* for, unless an http session that is over holds it.
LEMMA ReaderGetsOn ==
  ASSUME NEW c \in Conn
  PROVE  ServiceSpec /\ []ServerUnblocked => []<>(toUser[c] = None \/ Held(c) \/ ~Running)
<1> DEFINE Free == toUser[c] = None \/ Held(c) \/ ~Running
           Busy == \E s \in Session : Delivering(c, s)
<1>1. ASSUME NEW s \in Session
      PROVE  ServiceSpec /\ []ServerUnblocked => (Delivering(c, s) ~> Free)
  <2> DEFINE Freed == toUser[c] = None \/ ~Running \/ (Http(s) /\ sess[s].at = "done")
  <2>1. Sound /\ [Next]_vars => (Delivering(c, s) => Delivering(c, s)' \/ Free')
    BY DeliveryStep
  <2>2. Delivering(c, s) /\ Freed => Free
    BY DEF Held
  <2>3. ServiceSpec /\ []ServerUnblocked =>
           (Delivering(c, s) ~> (toUser[c] = None \/ ~Running \/ (Http(s) /\ sess[s].at = "done")))
    BY ReadersLetGo DEF ReaderIsFreed
  <2> HIDE DEF Free, Freed
  <2>4. QED  BY <2>1, <2>2, <2>3, SoundInvariant, PTL DEF ServiceSpec, Freed
<1>2. Sound => Free \/ Busy
  BY TypesOfSound DEF SessionTypeOK, Delivering
<1> HIDE DEF Free
<1>3. ServiceSpec /\ []ServerUnblocked => \A s \in Session : [](Delivering(c, s) => <>Free)
  <2>1. ASSUME NEW s \in Session
        PROVE  ServiceSpec /\ []ServerUnblocked => [](Delivering(c, s) => <>Free)
    BY <1>1, PTL
  <2>2. QED  BY <2>1
<1>4. (\A s \in Session : [](Delivering(c, s) => <>Free))
         => [](\A s \in Session : (Delivering(c, s) => <>Free))
  OBVIOUS
<1>5. (\A s \in Session : (Delivering(c, s) => <>Free)) => (Busy => <>Free)
  OBVIOUS
<1> HIDE DEF Busy
<1>6. [](\A s \in Session : (Delivering(c, s) => <>Free)) => [](Busy => <>Free)
  BY <1>5, PTL
<1>7. ServiceSpec /\ []ServerUnblocked => []<>Free
  BY <1>2, <1>3, <1>4, <1>6, SoundInvariant, PTL DEF ServiceSpec
<1>8. QED  BY <1>7 DEF Free

\* A connection that is shut can only yield what it still holds, and its reader,
\* which comes back to it for as long as it runs, returns or crashes the server.
IsShut(c) == handler[c] # "free" /\ (CanFail(c) \/ handler[c] \in {"leaving", "gone"})

LEMMA ShutIsLeft ==
  ASSUME NEW c \in Conn
  PROVE  ServiceSpec /\ []ServerUnblocked
           => (IsShut(c) ~> (reader[c] # "run" \/ Held(c) \/ ~Running))
<1> DEFINE Off  == reader[c] # "run" \/ Held(c) \/ ~Running
           Free == toUser[c] = None \/ Held(c) \/ ~Running
<1>1. ASSUME Sound, [Next]_vars, IsShut(c) PROVE IsShut(c)'
  <2>1. ConnGoesOn(c)
    BY <1>1, TypesOfSound, SlotStep, ConnWalks DEF PumpsAreStarted, Sound
  <2>2. QED  BY <1>1, <2>1 DEF ConnGoesOn, IsShut, CanFail
<1>2. (Running => ConnectionUnblocked(c)) /\ IsShut(c) /\ ~Off /\ Free => ENABLED <<ReaderRuns(c)>>_vars
  BY DEF ConnectionUnblocked, IsShut, CanFail, ReadFails
<1>3. ASSUME Sound, ReaderRuns(c) PROVE Off'
  <2>1. CASE ReaderPanics(c)
    BY <2>1 DEF ReaderPanics, Running
  <2>2. CASE ReaderExits(c)
    BY <1>3, <2>2, TypesOfSound DEF ReaderExits, RegistryTypeOK
  <2>3. QED  BY <1>3, <2>1, <2>2 DEF ReaderRuns
<1>4. ServiceSpec => ReaderFairness(c)
  BY ReadersAreFair
<1>5. []ServerUnblocked => [](Running => ConnectionUnblocked(c))
  BY EachCanMove
<1>6. ServiceSpec /\ []ServerUnblocked => []<>Free
  BY ReaderGetsOn
<1>7. /\ Sound /\ [Next]_vars => (IsShut(c) => IsShut(c)')
      /\ Sound /\ <<ReaderRuns(c)>>_vars => Off'
  BY <1>1, <1>3
<1> HIDE DEF Off, Free, IsShut
<1>8. ServiceSpec /\ []ServerUnblocked /\ ReaderFairness(c) => (IsShut(c) ~> Off)
  BY <1>2, <1>5, <1>6, <1>7, SoundInvariant, PTL DEF ServiceSpec, ReaderFairness
<1>9. QED  BY <1>4, <1>8, PTL DEF Off

\* The reader of a connection that broke finds out, and cancels it.
LEMMA BrokenIsCancelled ==
  ASSUME NEW c \in Conn
  PROVE  ServiceSpec /\ []ServerUnblocked
           => ((Enlisted(c) /\ CanFail(c)) ~> (cancelled[c] \/ Held(c) \/ ~Running))
<1> DEFINE Broke == Enlisted(c) /\ CanFail(c)
           Off   == cancelled[c] \/ Held(c) \/ ~Running
           Left  == reader[c] # "run" \/ Held(c) \/ ~Running
<1>1. Sound /\ Broke /\ Left => Off
  BY TypesOfSound DEF PumpsAreStarted, PumpStarted, Enlisted, RegistryTypeOK, Pump
<1>2. ASSUME Sound, [Next]_vars, Broke PROVE Broke'
  <2>1. ConnGoesOn(c)
    BY <1>2, TypesOfSound, SlotStep, ConnWalks DEF PumpsAreStarted, Sound
  <2>2. QED  BY <1>2, <2>1 DEF ConnGoesOn, Enlisted, CanFail
<1>3. Broke => IsShut(c)
  BY DEF Enlisted, IsShut
<1>4. Sound /\ [Next]_vars => (Broke => Broke')
  BY <1>2
<1>5. ServiceSpec /\ []ServerUnblocked => (IsShut(c) ~> Left)
  BY ShutIsLeft
<1> HIDE DEF Broke, Off, Left, IsShut
<1>6. ServiceSpec /\ []ServerUnblocked => (Broke ~> Off)
  BY <1>1, <1>3, <1>4, <1>5, SoundInvariant, PTL DEF ServiceSpec
<1>7. QED  BY <1>6, PTL DEF Broke, Off

\* So it is with the fairness of all.
THEOREM GoneUsersEnd == Spec /\ []ServerUnblocked => UserGoneEnds
BY ServiceOfSpec, UsersGoneEnd

\* The same of streams whose agent is gone,
THEOREM GoneAgentsEnd == Spec /\ []ServerUnblocked => AgentGoneEnds
BY ServiceOfSpec, AgentsGoneEnd

\* and of the readers.
THEOREM ReadersAreFreed == Spec /\ []ServerUnblocked => ReaderIsFreed
BY ServiceOfSpec, ReadersLetGo

\* What starts the pumps of a connection comes before anything cancels it.
LEMMA ServerIsFresh == Init /\ [][Next]_vars => []FreshIsWhole
<1>1. Init => FreshIsWhole
  BY InitFresh DEF Init
<1>2. Sound /\ FreshIsWhole /\ [Next]_vars => FreshIsWhole'
  BY StepsOfRegistry, StepFresh DEF Sound
<1>3. QED  BY <1>1, <1>2, SoundInvariant, PTL

\* The reader of a connection whose context is done returns, unless an http
\* session that is over holds it or the process ended: the ping loop ends, no
\* pong comes any more, and reads fail once what came before is read.
THEOREM ReadersReturn == Spec /\ []ServerUnblocked => ReaderReturns
<1> SUFFICES ASSUME NEW c \in Conn
             PROVE  Spec /\ []ServerUnblocked
                      => (cancelled[c] ~> (reader[c] # "run" \/ Held(c) \/ ~Running))
  BY DEF ReaderReturns
<1> DEFINE Off   == reader[c] # "run" \/ Held(c) \/ ~Running
           Pings == cancelled[c] /\ handler[c] = "ping"
<1>1. Sound /\ FreshIsWhole /\ cancelled[c] => Pings \/ IsShut(c)
  BY TypesOfSound DEF FreshIsWhole, IsShut, RegistryTypeOK, Handler
<1>2. ASSUME Sound, [Next]_vars, Pings PROVE Pings' \/ IsShut(c)'
  <2>1. ConnGoesOn(c)
    BY <1>2, TypesOfSound, SlotStep, ConnWalks DEF PumpsAreStarted, Sound
  <2>2. QED  BY <1>2, <2>1 DEF ConnGoesOn, IsShut
<1>3. (Running => ConnectionUnblocked(c)) /\ Running /\ Pings => ENABLED <<PingRuns(c)>>_vars
  BY DEF ConnectionUnblocked
<1>4. Sound /\ Pings /\ <<PingRuns(c)>>_vars => ~Pings'
  BY TypesOfSound DEF PingRuns, PingEnds, RegistryTypeOK
<1>5. Spec => ConnectionFairness(c)
  BY OthersAreFair
<1>6. []ServerUnblocked => [](Running => ConnectionUnblocked(c))
  BY EachCanMove
<1>7. ~Running => Off
  OBVIOUS
<1>8. ServiceSpec /\ []ServerUnblocked => (IsShut(c) ~> Off)
  BY ShutIsLeft
<1>9. Sound /\ [Next]_vars => (Pings => Pings' \/ IsShut(c)')
  BY <1>2
<1> HIDE DEF Off, Pings, IsShut
<1>10. Spec /\ []ServerUnblocked /\ ConnectionFairness(c) => (cancelled[c] ~> Off)
  BY <1>1, <1>3, <1>4, <1>6, <1>7, <1>8, <1>9, SoundInvariant, ServerIsFresh, ServiceOfSpec, PTL
  DEF Spec, ConnectionFairness
<1>11. QED  BY <1>5, <1>10, PTL DEF Off

-----------------------------------------------------------------------------
(* Http handlers get their request out.                                    *)

\* What any step does to the writer of a connection that works for a session: a
\* writer that waits for the hub waits until the hub takes its session, and one
\* that writes is through with the message when it has run.
LEMMA WriterSteps ==
  ASSUME Sound, Sound', [Next]_vars, NEW c \in Conn, toAgent[c] # None
  PROVE  /\ toAgent[c].at = "unenrol" => toAgent'[c] \in {toAgent[c], None}
         /\ WriterRuns(c) => toAgent'[c] = None \/ toAgent'[c].at = "unenrol"
         /\ FailureIsServed(c) => toAgent'[c] = None
<1> DEFINE Keeps == toAgent[c].at = "unenrol" => toAgent'[c] \in {toAgent[c], None}
<1>1. toAgent \in [Conn -> [session : Session, at : {"write", "unenrol"}] \cup {None}]
  BY TypesOfSound DEF SessionTypeOK
<1>2. ASSUME toAgent' = toAgent PROVE Keeps
  BY <1>2
<1>3. ASSUME RegistryStep \/ ShubStep \/ UNCHANGED vars PROVE Keeps
  BY <1>2, <1>3
  DEF RegistryStep, ConnStep, ShubStep, HubStoresSession, HubAnnounces, HubClosesSession, vars, svars
<1>4. ASSUME NEW t \in Session, SessionStep(t) PROVE Keeps
  BY <1>2, <1>4
  DEF SessionStep, Lookup, Login, Dial, Encode, RequestPanics, AwaitTimesOut, Depart, PumpEnds,
      UserLeaves, UpReaderStops, UpReaderFails, UpReaderReads, UpReaderPanics, HubTakesEnrol,
      HubTakesUnenrol
<1>5. ASSUME NEW d \in Conn, PumpStep(d) PROVE Keeps
  <2>1. ASSUME WriterWrites(d) \/ HubTakesFailed(d) PROVE Keeps
    <3>1. toAgent' = [toAgent EXCEPT ![d] = None]
      BY <2>1 DEF WriterWrites, HubTakesFailed
    <3>2. QED  BY <1>1, <3>1
  <2>2. ASSUME WriterFails(d) PROVE Keeps
    <3>1. /\ toAgent[d].at = "write"
          /\ \/ toAgent' = [toAgent EXCEPT ![d].at = "unenrol"]
             \/ toAgent' = [toAgent EXCEPT ![d] = None]
      BY <2>2 DEF WriterFails
    <3>2. QED  BY <1>1, <3>1
  <2>3. ASSUME NEW t \in Session, WriterReceives(d, t) PROVE Keeps
    <3>1. /\ toAgent[d] = None
          /\ toAgent' = [toAgent EXCEPT ![d] = [session |-> t, at |-> "write"]]
      BY <2>3 DEF WriterReceives
    <3>2. d # c
      BY <3>1
    <3>3. QED  BY <1>1, <3>1, <3>2
  <2>4. ASSUME NEW t \in Session,
               SessionReceives(d, t) \/ (\E type \in MessageType : ReaderReads(d, t, type))
        PROVE  Keeps
    BY <1>2, <2>4 DEF SessionReceives, ReaderReads
  <2>5. QED  BY <1>2, <1>5, <2>1, <2>2, <2>3, <2>4 DEF PumpStep, ReaderPanics
<1>6. Keeps
  BY <1>3, <1>4, <1>5 DEF Next
<1>7. ASSUME WriterRuns(c) PROVE toAgent'[c] = None \/ toAgent'[c].at = "unenrol"
  <2>1. CASE WriterWrites(c)
    <3>1. toAgent' = [toAgent EXCEPT ![c] = None]
      BY <2>1 DEF WriterWrites
    <3>2. QED  BY <1>1, <3>1
  <2>2. CASE WriterFails(c)
    <3>1. \/ toAgent' = [toAgent EXCEPT ![c].at = "unenrol"]
          \/ toAgent' = [toAgent EXCEPT ![c] = None]
      BY <2>2 DEF WriterFails
    <3>2. QED  BY <1>1, <3>1
  <2>3. CASE ConnStep(c) /\ WriterExits(c)
    <3>1. toAgent' = toAgent /\ writer' = [writer EXCEPT ![c] = "done"]
      BY <2>3 DEF ConnStep, WriterExits, svars
    <3>2. writer'[c] = "done"
      BY <3>1, TypesOfSound DEF RegistryTypeOK
    <3>3. toAgent'[c] # None => writer'[c] = "run"
      BY DEF Sound, ServiceInv, PumpsAreStarted
    <3>4. QED  BY <3>1, <3>2, <3>3
  <2>4. QED  BY <1>7, <2>1, <2>2, <2>3 DEF WriterRuns
<1>8. ASSUME FailureIsServed(c) PROVE toAgent'[c] = None
  <2>1. toAgent' = [toAgent EXCEPT ![c] = None]
    BY <1>8 DEF FailureIsServed, HubTakesFailed
  <2>2. QED  BY <1>1, <2>1
<1>9. QED  BY <1>6, <1>7, <1>8

\* The handler of an http session, whose first send has no timeout, returns: the
\* writer takes its request, or ends and has the connection closed under it.
\* The exception is a connection that is unregistered and not closed.
THEOREM RequestsEnd == Spec /\ []ServerUnblocked => HttpEnds
<1> SUFFICES ASSUME NEW s \in Session, NEW c \in Conn
             PROVE  Spec /\ []ServerUnblocked
                      => ((sess[s].at = "request" /\ sess[s].down = c) ~>
                            (sess[s].at = "done" \/ ~Running \/ (handler[c] = "gone" /\ ~closed[c])))
  BY DEF HttpEnds
<1> DEFINE Asks   == sess[s].at = "request" /\ sess[s].down = c
           Ends   == sess[s].at = "done" \/ ~Running \/ (handler[c] = "gone" /\ ~closed[c])
           Open   == Asks /\ ~closed[c]
           Shut   == Asks /\ closed[c]
           Free   == Open /\ writer[c] = "run" /\ toAgent[c] = None
           Writes == Open /\ toAgent[c] # None /\ toAgent[c].at = "write"
           Fails  == Open /\ toAgent[c] # None /\ toAgent[c].at = "unenrol"
           Quit   == Open /\ writer[c] = "done" /\ toAgent[c] = None
           Pings  == Quit /\ handler[c] = "ping"
           Leaves == Quit /\ handler[c] = "leaving"
           Awaits == sess[s].at = "await"
           Works  == Free \/ Writes \/ Fails
           After  == Shut \/ Pings \/ Leaves \/ Awaits \/ Leaving(s) \/ Ends
<1>1. Sound /\ Asks => Works \/ After
  <2> SUFFICES ASSUME Sound, Asks, ~closed[c], ~Ends PROVE Works \/ Pings \/ Leaves
    OBVIOUS
  <2>1. Enlisted(c) /\ (toAgent[c] # None => writer[c] = "run")
    BY TypesOfSound, RegistryAssumption DEF PumpsAreStarted
  <2>2. writer[c] \in {"run", "done"} /\ handler[c] \in {"ping", "leaving"}
    BY <2>1, TypesOfSound DEF Enlisted, RegistryTypeOK, Pump
  <2>3. toAgent[c] # None => toAgent[c].at \in {"write", "unenrol"}
    BY TypesOfSound DEF SessionTypeOK
  <2>4. QED  BY <2>1, <2>2, <2>3
<1> HIDE DEF Asks, Ends, Open, Shut, Free, Writes, Fails, Quit, Pings, Leaves, Awaits
<1>1a. Sound' /\ Asks' => Works' \/ After'
  BY <1>1, PTL
<1> USE DEF Asks, Ends, Open, Shut, Free, Writes, Fails, Quit, Pings, Leaves, Awaits
<1>2. Sound /\ Sound' /\ [Next]_vars =>
         /\ Shut => Shut' \/ Awaits' \/ Leaving(s)'
         /\ Awaits => Awaits' \/ Leaving(s)'
         /\ Leaves => Leaves' \/ Shut' \/ Awaits' \/ Leaving(s)' \/ Ends'
         /\ Pings => Pings' \/ Leaves' \/ Shut' \/ Awaits' \/ Leaving(s)' \/ Ends'
         /\ Works => Works' \/ After'
         /\ Fails => Fails' \/ Free' \/ After'
  <2> SUFFICES ASSUME Sound, Sound', [Next]_vars
               PROVE  /\ Shut => Shut' \/ Awaits' \/ Leaving(s)'
                      /\ Awaits => Awaits' \/ Leaving(s)'
                      /\ Leaves => Leaves' \/ Shut' \/ Awaits' \/ Leaving(s)' \/ Ends'
                      /\ Pings => Pings' \/ Leaves' \/ Shut' \/ Awaits' \/ Leaving(s)' \/ Ends'
                      /\ Works => Works' \/ After'
                      /\ Fails => Fails' \/ Free' \/ After'
    OBVIOUS
  <2>1. Asks => Asks' \/ Awaits' \/ Leaving(s)'
    BY SessionSteps DEF GoesOn, Leaving
  <2>2. Awaits => Awaits' \/ Leaving(s)'
    BY SessionSteps DEF GoesOn, Leaving
  <2>3. Asks => handler[c] # "free"
    BY TypesOfSound, RegistryAssumption DEF PumpsAreStarted, Enlisted
  <2>4. ConnGoesOn(c)
    BY TypesOfSound, SlotStep, ConnWalks DEF PumpsAreStarted, Sound
  <2>5. Asks /\ closed[c] => closed'[c]
    BY <2>3, <2>4 DEF ConnGoesOn
  <2>6. /\ writer[c] = "done" => handler[c] = "free" \/ handler[c] = "registering" \/ writer'[c] = "done"
        /\ handler[c] = "leaving" => handler'[c] \in {"leaving", "gone"}
        /\ handler[c] = "ping" => handler'[c] \in {"ping", "leaving"}
    BY <2>4 DEF ConnGoesOn
  <2>7. Asks' => Works' \/ After'
    BY <1>1a
  <2>8. writer'[c] = "done" => toAgent'[c] = None
    BY DEF Sound, ServiceInv, PumpsAreStarted
  <2>9. Shut => Shut' \/ Awaits' \/ Leaving(s)'
    BY <2>1, <2>5
  <2>10. Leaves => Leaves' \/ Shut' \/ Awaits' \/ Leaving(s)' \/ Ends'
    BY <2>1, <2>6, <2>8
  <2>11. Pings => Pings' \/ Leaves' \/ Shut' \/ Awaits' \/ Leaving(s)' \/ Ends'
    BY <2>1, <2>6, <2>8
  <2>12. Works => Works' \/ After'
    BY <2>1, <2>7
  <2>13. Fails => Fails' \/ Free' \/ After'
    <3>1. Fails => toAgent'[c] \in {toAgent[c], None}
      BY WriterSteps
    <3>2. QED  BY <2>1, <2>7, <3>1
  <2>14. QED  BY <2>2, <2>9, <2>10, <2>11, <2>12, <2>13
<1>3. SessionUnblocked(s) =>
         /\ Shut \/ Awaits => ENABLED <<HandlerRuns(s)>>_vars
         /\ Free => ENABLED <<RequestIsTaken(s)>>_vars
  BY DEF SessionUnblocked, HandlerCanRun, WriterIsFree
<1>4. Sound /\ ConnectionUnblocked(c) =>
         /\ Pings => ENABLED <<PingRuns(c)>>_vars
         /\ Writes => ENABLED <<WriterRuns(c)>>_vars
         /\ Leaves /\ HubFree => ENABLED <<HandlerIsServed(c)>>_vars
         /\ Fails /\ HubFree => ENABLED <<FailureIsServed(c)>>_vars
  <2>1. Sound /\ Pings => cancelled[c]
    BY TypesOfSound DEF PumpsAreStarted, PumpStarted
  <2>2. QED  BY <2>1 DEF ConnectionUnblocked
<1>5. Sound /\ Sound' /\ [Next]_vars =>
         /\ (Shut \/ Awaits) /\ <<HandlerRuns(s)>>_vars => ~Shut' /\ (Awaits => ~Awaits')
         /\ Works /\ <<RequestIsTaken(s)>>_vars => Awaits'
         /\ Writes /\ <<WriterRuns(c)>>_vars => ~Writes'
         /\ Fails /\ <<FailureIsServed(c)>>_vars => ~Fails'
         /\ Pings /\ <<PingRuns(c)>>_vars => ~Pings'
         /\ Leaves /\ <<HandlerIsServed(c)>>_vars => ~Leaves'
  <2> SUFFICES ASSUME Sound, Sound', [Next]_vars
               PROVE  /\ (Shut \/ Awaits) /\ HandlerRuns(s) => ~Shut' /\ (Awaits => ~Awaits')
                      /\ Works /\ RequestIsTaken(s) => Awaits'
                      /\ Writes /\ WriterRuns(c) => ~Writes'
                      /\ Fails /\ FailureIsServed(c) => ~Fails'
                      /\ Pings /\ PingRuns(c) => ~Pings'
                      /\ Leaves /\ HandlerIsServed(c) => ~Leaves'
    OBVIOUS
  <2>1. (Shut \/ Awaits) /\ HandlerRuns(s) => ~Shut' /\ (Awaits => ~Awaits')
    BY SessionSteps DEF GoesOn
  <2>2. ASSUME Works, RequestIsTaken(s) PROVE Awaits'
    <3>1. sess \in [Session -> SessionObject] /\ sess[s] \in SessionObject
      BY TypesOfSound DEF SessionTypeOK
    <3>2. Http(s) /\ sess[s].reader = "off"
      BY <2>2, TypesOfSound DEF HandlerIsInTurn
    <3>3. sess' = [sess EXCEPT ![s].at = "await"]
      BY <2>2, <3>2 DEF RequestIsTaken, WriterReceives
    <3>4. QED  BY <3>1, <3>3 DEF SessionObject
  <2>3. (Writes /\ WriterRuns(c) => ~Writes') /\ (Fails /\ FailureIsServed(c) => ~Fails')
    BY WriterSteps
  <2>4. Pings /\ PingRuns(c) => ~Pings'
    BY TypesOfSound DEF PingRuns, PingEnds, RegistryTypeOK
  <2>5. Leaves /\ HandlerIsServed(c) => ~Leaves'
    BY TypesOfSound DEF HandlerIsServed, HubTakesRegister, HubTakesUnregister, RegistryTypeOK
  <2>6. QED  BY <2>1, <2>2, <2>3, <2>4, <2>5
<1>6. /\ ~Ends => Running
      /\ Over(s) => Ends
  BY DEF Over
<1>7. Spec => ConnectionFairness(c) /\ UserFairness(s)
  BY OthersAreFair
<1>8. Spec => ServiceSpec /\ HandlerFairness(s)
  BY ServiceOfSpec, HandlersAreFair
<1>9. /\ []ServerUnblocked => [](Running => SessionUnblocked(s))
      /\ []ServerUnblocked => [](Running => ConnectionUnblocked(c))
  BY EachCanMove
<1>10. ServiceSpec /\ []ServerUnblocked => (Leaving(s) ~> Over(s))
  BY LeavingEnds
<1> HIDE DEF Asks, Ends, Open, Shut, Free, Writes, Fails, Quit, Pings, Leaves, Awaits
<1>11. Spec /\ []ServerUnblocked /\ ConnectionFairness(c) /\ UserFairness(s) /\ HandlerFairness(s)
         => ((Shut \/ Awaits \/ Pings \/ Leaves) ~> Ends)
  BY <1>2, <1>3, <1>4, <1>5, <1>6, <1>8, <1>9, <1>10, HubSelects, SoundInvariant, PTL
  DEF Spec, ConnectionFairness, UserFairness, HandlerFairness
<1>12. Spec /\ []ServerUnblocked /\ ConnectionFairness(c) /\ UserFairness(s) /\ HandlerFairness(s)
         => (Works ~> (Shut \/ Awaits \/ Pings \/ Leaves \/ Leaving(s) \/ Ends))
  BY <1>2, <1>3, <1>4, <1>5, <1>6, <1>8, <1>9, HubSelects, SoundInvariant, PTL
  DEF Spec, ConnectionFairness, UserFairness, HandlerFairness
<1>13. Spec /\ []ServerUnblocked /\ ConnectionFairness(c) /\ UserFairness(s) /\ HandlerFairness(s) => (Asks ~> Ends)
  BY <1>1, <1>6, <1>8, <1>10, <1>11, <1>12, SoundInvariant, PTL DEF Spec
<1>14. QED  BY <1>7, <1>8, <1>13, PTL DEF Asks, Ends
=============================================================================
