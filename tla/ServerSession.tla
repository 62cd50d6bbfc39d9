--------------------------- MODULE ServerSession ---------------------------
(***************************************************************************)
(* The sessions of the server (pkg/server): the HTTP handler `proxy` that  *)
(* opens one and then is its writeUpStreamPump, the goroutine              *)
(* readUpStreamPump, the hub's session operations, and the messages that   *)
(* the two downstream pumps of an agent's connection move.  Connections    *)
(* themselves are those of Registry.                                       *)
(*                                                                         *)
(* A send on a closed channel panics.  net/http recovers the panic of an   *)
(* HTTP handler; that of a goroutine of its own ends the process: crash.   *)
(* Agents and users are the environment: an agent says what MaySay allows, *)
(* which is what Agent shows of the client.                                *)
(***************************************************************************)
EXTENDS Registry, TunnelTypes

CONSTANTS Session,   \* requests to /proxy: each makes one session
          Protocol,  \* the scheme of its ?address=: "http", "ssh", or "ws" for
                     \* the others, which only differ in the request they send
          Asked,     \* its ?clientid=
          ToLower    \* strings.ToLower on identifiers

ASSUME SessionAssumption ==
    /\ Protocol \in [Session -> {"http", "ssh", "ws"}]
    /\ Asked \in [Session -> Id]
    /\ ToLower \in [Id -> Id]
    /\ None \notin Session

VARIABLES
    sess,      \* each session's object and its two goroutines
    sessions,  \* hub.Sessions
    shub,      \* where hub.Run is in a session operation, and on which session
    toUser,    \* the message a readDownStreamPump is sending to a session
    toAgent,   \* the session a writeDownStreamPump is working for
    agent,     \* what has been heard from the agent about a session
    crash      \* the panic that ended the process

svars == <<sess, sessions, shub, toUser, toAgent, agent, crash>>
vars  == <<rvars, svars>>

ProxyAt == {"new", "login", "dial", "enrol", "encode", "request", "await",
            "pump", "reenrol", "leave", "unenrol", "done"}
SessionObject ==
    [at : ProxyAt, reader : {"off", "read", "send", "done"},
     down : Conn \cup {None}, status : Status, ended : BOOLEAN,
     closed : BOOLEAN, link : {"up", "down"}]

ShubOp == {"select", "store", "announce", "close"}
Shub(op, s) == [op |-> op, session |-> s]
Idle == Shub("select", None)

SessionTypeOK ==
    /\ sess \in [Session -> SessionObject]
    /\ sessions \subseteq Session
    /\ shub \in [op : ShubOp, session : Session \cup {None}]
    /\ shub.session = None <=> shub.op = "select"
    /\ toUser \in [Conn -> [session : Session, type : MessageType] \cup {None}]
    /\ toAgent \in [Conn -> [session : Session, at : {"write", "unenrol"}] \cup {None}]
    /\ agent \in [Session -> Hearsay]
    /\ crash \in {"no", "send to user", "send to agent"}
    /\ \A s \in Session :
          /\ sess[s].at = "new" => sess[s].down = None
          /\ sess[s].down = None => sess[s].at \in {"new", "leave", "done"}

TypeOK == RegistryTypeOK /\ SessionTypeOK

Init ==
    /\ RegistryInit
    /\ sess = [s \in Session |->
                  [at |-> "new", reader |-> "off", down |-> None, status |-> "connecting",
                   ended |-> FALSE, closed |-> FALSE, link |-> "up"]]
    /\ sessions = {}
    /\ shub = Idle
    /\ toUser = [c \in Conn |-> None]
    /\ toAgent = [c \in Conn |-> None]
    /\ agent = [s \in Session |-> "unaware"]
    /\ crash = "no"

Http(s) == Protocol[s] = "http"
HubFree == hub = Selecting /\ shub = Idle

\* A write to an agent's websocket may be buffered on a broken link, and may
\* fail on one; it fails on a closed one.
CanWrite(c)  == ~closed[c]
CanFail(c)   == closed[c] \/ link[c] = "down"

\* The goroutine serving s ends its pump: Cancel, then the deferred function.
Leave(s) == [sess EXCEPT ![s].at = "leave", ![s].ended = TRUE]

-----------------------------------------------------------------------------
(* proxy, up to the pumps.                                                 *)

\* The agent is looked up once; without it the handler says so and returns.
Lookup(s) ==
    /\ sess[s].at = "new"
    /\ LET c == clients[ToLower[Asked[s]]]
       IN  sess' = [sess EXCEPT
              ![s].down = c,
              ![s].at = CASE c = None -> "leave"
                          [] c # None /\ Protocol[s] = "http" -> "enrol"
                          [] c # None /\ Protocol[s] = "ssh" -> "login"
                          [] c # None /\ Protocol[s] = "ws" -> "dial"]
    /\ UNCHANGED <<rvars, sessions, shub, toUser, toAgent, agent, crash>>

\* userSshInteraction reads the user's answers, or fails.
Login(s) ==
    /\ sess[s].at = "login"
    /\ \/ sess[s].link = "up" /\ sess' = [sess EXCEPT ![s].at = "dial"]
       \/ sess' = [sess EXCEPT ![s].at = "leave"]
    /\ UNCHANGED <<rvars, sessions, shub, toUser, toAgent, agent, crash>>

\* The connect request goes straight to the agent's websocket, before the
\* session is registered.
Dial(s) ==
    /\ sess[s].at = "dial"
    /\ \/ /\ CanWrite(sess[s].down)
          /\ sess' = [sess EXCEPT ![s].at = "enrol"]
          /\ agent' = IF link[sess[s].down] = "up"
                      THEN [agent EXCEPT ![s] = "asked"] ELSE agent
       \/ /\ CanFail(sess[s].down)
          /\ sess' = [sess EXCEPT ![s].at = "leave"]
          /\ UNCHANGED agent
    /\ UNCHANGED <<rvars, sessions, shub, toUser, toAgent, crash>>

\* The registered http handler serialises the request, or answers 500.
Encode(s) ==
    /\ sess[s].at = "encode"
    /\ \E at \in {"request", "leave"} : sess' = [sess EXCEPT ![s].at = at]
    /\ UNCHANGED <<rvars, sessions, shub, toUser, toAgent, agent, crash>>

\* Its send on the agent's Send panics once the hub closed that channel;
\* net/http recovers the panic after the deferred function ran.
RequestPanics(s) ==
    /\ sess[s].at = "request"
    /\ closed[sess[s].down]
    /\ sess' = [sess EXCEPT ![s].at = "leave"]
    /\ UNCHANGED <<rvars, sessions, shub, toUser, toAgent, agent, crash>>

\* Mutant: the answer is awaited for as long as the user stays.
AwaitUntilUserLeaves(s) ==
    /\ sess[s].at = "await" /\ sess[s].link = "down"
    /\ sess' = [sess EXCEPT ![s].at = "leave"]
    /\ UNCHANGED <<rvars, sessions, shub, toUser, toAgent, agent, crash>>

\* HttpRequestTimeout passed.
AwaitTimesOut(s) ==
    /\ sess[s].at = "await"
    /\ sess' = [sess EXCEPT ![s].at = "leave"]
    /\ UNCHANGED <<rvars, sessions, shub, toUser, toAgent, agent, crash>>

\* Mutant: the handler closes its session in every case.
DepartCloses(s) ==
    /\ sess[s].at = "leave"
    /\ sess' = [sess EXCEPT ![s].at = IF s \in sessions THEN "unenrol" ELSE "done",
                            ![s].closed = TRUE]
    /\ UNCHANGED <<rvars, sessions, shub, toUser, toAgent, agent, crash>>

\* Mutant: a session the hub does not know is not closed.
DepartLeavesOpen(s) ==
    /\ sess[s].at = "leave"
    /\ sess' = [sess EXCEPT ![s].at = IF s \in sessions THEN "unenrol" ELSE "done"]
    /\ UNCHANGED <<rvars, sessions, shub, toUser, toAgent, agent, crash>>

\* The deferred function: a session the hub knows is left to the hub, any
\* other is closed here.
Depart(s) ==
    /\ sess[s].at = "leave"
    /\ sess' = IF s \in sessions THEN [sess EXCEPT ![s].at = "unenrol"]
               ELSE [sess EXCEPT ![s].at = "done", ![s].closed = TRUE]
    /\ UNCHANGED <<rvars, sessions, shub, toUser, toAgent, agent, crash>>

-----------------------------------------------------------------------------
(* The session's pumps.                                                    *)

\* readUpStreamPump stops at the head of its loop: a context is done.
UpReaderStops(s) ==
    /\ sess[s].reader = "read"
    /\ sess[s].ended \/ cancelled[sess[s].down]
    /\ sess' = [sess EXCEPT ![s].reader = "done", ![s].ended = TRUE]
    /\ UNCHANGED <<rvars, sessions, shub, toUser, toAgent, agent, crash>>

\* ReadMessage fails: the user left or the hub closed the socket.
UpReaderFails(s) ==
    /\ sess[s].reader = "read"
    /\ sess[s].link = "down" \/ sess[s].closed
    /\ sess' = [sess EXCEPT ![s].reader = "done", ![s].ended = TRUE,
                            ![s].status = SetStatus(@, "upstream closed")]
    /\ UNCHANGED <<rvars, sessions, shub, toUser, toAgent, agent, crash>>

\* Mutant: what the user sends is forwarded before the session is connected.
UpReaderReadsEarly(s) ==
    /\ sess[s].reader = "read"
    /\ sess[s].link = "up" /\ ~sess[s].closed
    /\ sess' = [sess EXCEPT ![s].reader = "send"]
    /\ UNCHANGED <<rvars, sessions, shub, toUser, toAgent, agent, crash>>

\* The user sent something; before the session is connected it is turned down
\* and the pump reads on.
UpReaderReads(s) ==
    /\ sess[s].reader = "read"
    /\ sess[s].link = "up" /\ ~sess[s].closed
    /\ sess[s].status = "connected"
    /\ sess' = [sess EXCEPT ![s].reader = "send"]
    /\ UNCHANGED <<rvars, sessions, shub, toUser, toAgent, agent, crash>>

\* Blocked sending to the agent's Send when the hub closes it: a panic in a
\* goroutine of its own.
UpReaderPanics(s) ==
    /\ sess[s].reader = "send"
    /\ closed[sess[s].down]
    /\ crash' = "send to agent"
    /\ UNCHANGED <<rvars, sess, sessions, shub, toUser, toAgent, agent>>

\* Mutant: the pump does not watch the context of the agent's connection.
PumpIgnoresAgent(s) ==
    /\ sess[s].at = "pump"
    /\ sess[s].ended \/ sess[s].closed \/ sess[s].link = "down"
    /\ sess' = Leave(s)
    /\ UNCHANGED <<rvars, sessions, shub, toUser, toAgent, agent, crash>>

\* Mutant: the pump watches neither the session's context nor its pings.
PumpIgnoresUser(s) ==
    /\ sess[s].at = "pump"
    /\ sess[s].closed \/ cancelled[sess[s].down]
    /\ sess' = Leave(s)
    /\ UNCHANGED <<rvars, sessions, shub, toUser, toAgent, agent, crash>>

\* writeUpStreamPump returns: a context is done, Send was closed, or a ping or
\* a message cannot be written to the user.
PumpEnds(s) ==
    /\ sess[s].at = "pump"
    /\ \/ sess[s].ended \/ cancelled[sess[s].down]
       \/ sess[s].closed \/ sess[s].link = "down"
    /\ sess' = Leave(s)
    /\ UNCHANGED <<rvars, sessions, shub, toUser, toAgent, agent, crash>>

\* Someone waits on session.UpAgent.Send.
Receives(s) == sess[s].at \in {"pump", "await"} /\ ~sess[s].closed

\* The session receives the message a connection's reader is sending.
SessionReceives(c, s) ==
    /\ toUser[c] # None /\ toUser[c].session = s
    /\ Receives(s)
    /\ LET type == toUser[c].type
       IN  sess' = CASE Http(s) -> [sess EXCEPT ![s].at = "leave"]
                     [] ~Http(s) /\ type = "connect" ->
                           IF sess[s].status = "connecting"
                           THEN [sess EXCEPT ![s].status = "connected", ![s].at = "reenrol"]
                           ELSE sess
                     [] ~Http(s) /\ type = "close" ->
                           [Leave(s) EXCEPT ![s].status = SetStatus(@, "downstream closed")]
                     [] ~Http(s) /\ type = "data" -> sess
    /\ toUser' = [toUser EXCEPT ![c] = None]
    /\ UNCHANGED <<rvars, sessions, shub, toAgent, agent, crash>>

-----------------------------------------------------------------------------
(* The pumps of an agent's connection, with messages.                      *)

\* readDownStreamPump reads a message, which the connection may still hold when
\* it is broken or closed: for a registered session it goes on to send it there,
\* otherwise the agent is told that the session is closed.
ReaderReads(c, s, type) ==
    /\ reader[c] = "run" /\ toUser[c] = None
    /\ sess[s].down # None /\ ClientID[sess[s].down] = ClientID[c]
    /\ MaySay(agent[s], Http(s), type)
    /\ agent' = [agent EXCEPT ![s] = Hears(@, Http(s), type)]
    /\ toUser' = IF s \in sessions
                 THEN [toUser EXCEPT ![c] = [session |-> s, type |-> type]]
                 ELSE toUser
    /\ UNCHANGED <<rvars, sess, sessions, shub, toAgent, crash>>

\* The session's Send is closed under the reader's send.
ReaderPanics(c) ==
    /\ toUser[c] # None
    /\ sess[toUser[c].session].closed
    /\ crash' = "send to user"
    /\ UNCHANGED <<rvars, sess, sessions, shub, toUser, toAgent, agent>>

\* writeDownStreamPump receives what a session or an http handler sends.
WriterReceives(c, s) ==
    /\ writer[c] = "run" /\ toAgent[c] = None /\ ~closed[c]
    /\ sess[s].down = c
    /\ \/ /\ sess[s].reader = "send"
          /\ sess' = [sess EXCEPT ![s].reader = "read"]
       \/ /\ Http(s) /\ sess[s].at = "request"
          /\ sess' = [sess EXCEPT ![s].at = "await"]
    /\ toAgent' = [toAgent EXCEPT ![c] = [session |-> s, at |-> "write"]]
    /\ UNCHANGED <<rvars, sessions, shub, toUser, agent, crash>>

WriterWrites(c) ==
    /\ toAgent[c] # None /\ toAgent[c].at = "write"
    /\ CanWrite(c)
    /\ agent' = IF Http(toAgent[c].session) /\ link[c] = "up"
                THEN [agent EXCEPT ![toAgent[c].session] = "asked"] ELSE agent
    /\ toAgent' = [toAgent EXCEPT ![c] = None]
    /\ UNCHANGED <<rvars, sess, sessions, shub, toUser, crash>>

\* Mutant: the writer closes the connection itself.
WriterFailsAndCloses(c) ==
    /\ toAgent[c] # None /\ toAgent[c].at = "write"
    /\ CanFail(c)
    /\ toAgent' = [toAgent EXCEPT ![c] = None]
    /\ writer' = [writer EXCEPT ![c] = "done"]
    /\ closed' = [closed EXCEPT ![c] = TRUE]
    /\ UNCHANGED <<clients, hub, handler, reader, cancelled, link>>
    /\ UNCHANGED <<sess, sessions, shub, toUser, agent, crash>>

\* Mutant: the writer does not record why it ends the session.
WriterFailsSilently(c) ==
    /\ toAgent[c] # None /\ toAgent[c].at = "write"
    /\ CanFail(c) /\ toAgent[c].session \in sessions
    /\ toAgent' = [toAgent EXCEPT ![c].at = "unenrol"]
    /\ UNCHANGED <<rvars, sess, sessions, shub, toUser, agent, crash>>

\* The message cannot be written: a registered session is ended through the
\* hub before the pump returns.
WriterFails(c) ==
    /\ toAgent[c] # None /\ toAgent[c].at = "write"
    /\ CanFail(c)
    /\ LET s == toAgent[c].session
       IN  IF s \in sessions
           THEN /\ sess' = [sess EXCEPT ![s].status = SetStatus(@, "downstream closed")]
                /\ toAgent' = [toAgent EXCEPT ![c].at = "unenrol"]
                /\ UNCHANGED rvars
           ELSE /\ toAgent' = [toAgent EXCEPT ![c] = None]
                /\ WriterExits(c)
                /\ UNCHANGED sess
    /\ UNCHANGED <<sessions, shub, toUser, agent, crash>>

-----------------------------------------------------------------------------
(* The hub's session operations.                                           *)

\* proxy registers its session, and again once the agent connected it.  The
\* sender runs on before the hub stores the session.
HubTakesEnrol(s) ==
    /\ HubFree
    /\ sess[s].at \in {"enrol", "reenrol"}
    /\ sess' = CASE Http(s) -> [sess EXCEPT ![s].at = "encode"]
                 [] ~Http(s) /\ sess[s].at = "enrol" ->
                       [sess EXCEPT ![s].at = "pump", ![s].reader = "read"]
                 [] ~Http(s) /\ sess[s].at = "reenrol" -> [sess EXCEPT ![s].at = "pump"]
    /\ shub' = Shub("store", s)
    /\ UNCHANGED <<rvars, sessions, toUser, toAgent, agent, crash>>

HubStoresSession ==
    /\ shub.op = "store"
    /\ sessions' = sessions \cup {shub.session}
    /\ shub' = Shub("announce", shub.session)
    /\ UNCHANGED <<rvars, sess, toUser, toAgent, agent, crash>>

\* Then registerSessionCallback, if the status read now is connected
\* (Callbacks), and a line to the user.
HubAnnounces ==
    /\ shub.op = "announce"
    /\ shub' = Idle
    /\ UNCHANGED <<rvars, sess, sessions, toUser, toAgent, agent, crash>>

\* What the hub does first with a session it receives to unregister.
Removes(s) ==
    /\ sessions' = sessions \ {s}
    /\ shub' = IF s \in sessions /\ ~Http(s) THEN Shub("close", s) ELSE Idle

\* The session arrives from its own handler, which is then done,
HubTakesUnenrol(s) ==
    /\ HubFree
    /\ sess[s].at = "unenrol"
    /\ sess' = [sess EXCEPT ![s].at = "done"]
    /\ Removes(s)
    /\ UNCHANGED <<rvars, toUser, toAgent, agent, crash>>

\* or from the writer that could not write for it, which then returns.
HubTakesFailed(c) ==
    /\ HubFree
    /\ toAgent[c] # None /\ toAgent[c].at = "unenrol"
    /\ Removes(toAgent[c].session)
    /\ toAgent' = [toAgent EXCEPT ![c] = None]
    /\ WriterExits(c)
    /\ UNCHANGED <<sess, toUser, agent, crash>>

\* Mutant: the hub does not close the session it removed.
HubForgetsClose ==
    /\ shub.op = "close"
    /\ shub' = Idle
    /\ UNCHANGED <<rvars, sess, sessions, toUser, toAgent, agent, crash>>

\* unregisterSessionCallback; then, by a status read without the lock, the
\* user or the agent is written to, and may not get it; then session.close(),
\* whose flag IsClosed keeps a second close(Send) from panicking.
HubClosesSession ==
    /\ shub.op = "close"
    /\ sess' = [sess EXCEPT ![shub.session].closed = TRUE]
    /\ shub' = Idle
    /\ UNCHANGED <<rvars, sessions, toUser, toAgent, agent, crash>>

-----------------------------------------------------------------------------
\* The user closes the websocket, or stops answering.
UserLeaves(s) ==
    /\ ~Http(s) /\ sess[s].at \notin {"new", "done"}
    /\ sess[s].link = "up"
    /\ sess' = [sess EXCEPT ![s].link = "down"]
    /\ UNCHANGED <<rvars, sessions, shub, toUser, toAgent, agent, crash>>

\* The steps of Registry.  A pump that holds a message is not at its exits;
\* the writer sees a broken link only when it writes.  Sessions keep pointing
\* at their connection, so a slot is one websocket here: it is not reused.
ConnStep(c) ==
    /\ \/ Upgrade(c) /\ handler[c] = "free"
       \/ Refuse(c) \/ CheckOffline(c) \/ PingEnds(c) \/ LinkBreaks(c)
       \/ ReaderExits(c) /\ toUser[c] = None
       \/ WriterExits(c) /\ toAgent[c] = None /\ (cancelled[c] \/ closed[c])
       \/ shub = Idle /\ (HubTakesRegister(c) \/ HubTakesUnregister(c))
    /\ UNCHANGED svars

RegistryStep ==
    \/ \E c \in Conn : ConnStep(c)
    \/ (HubStep \/ \E i \in Id : ManualDisconnect(i)) /\ UNCHANGED svars

ShubStep == HubStoresSession \/ HubAnnounces \/ HubClosesSession

SessionStep(s) ==
    \/ Lookup(s) \/ Login(s) \/ Dial(s) \/ Encode(s) \/ RequestPanics(s)
    \/ AwaitTimesOut(s) \/ Depart(s) \/ PumpEnds(s) \/ UserLeaves(s)
    \/ UpReaderStops(s) \/ UpReaderFails(s) \/ UpReaderReads(s) \/ UpReaderPanics(s)
    \/ HubTakesEnrol(s) \/ HubTakesUnenrol(s)

PumpStep(c) ==
    \/ ReaderPanics(c) \/ WriterWrites(c) \/ WriterFails(c) \/ HubTakesFailed(c)
    \/ \E s \in Session :
          \/ SessionReceives(c, s) \/ WriterReceives(c, s)
          \/ \E type \in MessageType : ReaderReads(c, s, type)

Running == crash = "no"

Next == /\ Running
        /\ \/ RegistryStep \/ ShubStep
           \/ \E s \in Session : SessionStep(s)
           \/ \E c \in Conn : PumpStep(c)

\* What each goroutine does by itself: the hub in an operation, the ping loop,
\* the reader and the writer of a connection, a session's handler and the
\* reader of its user.  A login waits for as long as its user does.
HubRuns      == Running /\ (ShubStep \/ (HubStep /\ UNCHANGED svars))
PingRuns(c)  == Running /\ PingEnds(c) /\ UNCHANGED svars
ReaderRuns(c) ==
    /\ Running
    /\ \/ ReaderPanics(c)
       \/ ReaderExits(c) /\ ReadFails(c) /\ toUser[c] = None /\ UNCHANGED svars
WriterRuns(c) ==
    Running /\ (WriterWrites(c) \/ WriterFails(c) \/ (ConnStep(c) /\ WriterExits(c)))
HandlerRuns(s) ==
    /\ Running
    /\ \/ Login(s) /\ sess[s].link = "down"
       \/ Dial(s) \/ Encode(s) \/ RequestPanics(s) \/ AwaitTimesOut(s)
       \/ PumpEnds(s) \/ Depart(s)
UpReaderRuns(s) == Running /\ (UpReaderFails(s) \/ UpReaderPanics(s))

\* What it waits for another one to receive.
HandlerIsServed(c)   == Running /\ ConnStep(c) /\ (HubTakesRegister(c) \/ HubTakesUnregister(c))
FailureIsServed(c)   == Running /\ HubTakesFailed(c)
SessionIsServed(s)   == Running /\ (HubTakesEnrol(s) \/ HubTakesUnenrol(s))
MessageIsTaken(c, s) == Running /\ SessionReceives(c, s)
RequestIsTaken(s)    == Running /\ \E c \in Conn : WriterReceives(c, s)

\* Goroutines that can run do.  The senders that wait on a channel are served
\* in order, and a select that finds a channel ready again and again chooses
\* it: strong fairness.  So does a reader that comes back to its socket again
\* and again after reads began to fail: what the socket still holds is finite.
\* Users and agents promise nothing.  Of the hub, the handlers of sessions and
\* the readers of connections,
HandlerFairness(s) ==
    /\ WF_vars(HandlerRuns(s))
    /\ SF_vars(SessionIsServed(s))

ReaderFairness(c)      == SF_vars(ReaderRuns(c))
DeliveryFairness(c, s) == SF_vars(MessageIsTaken(c, s))

ServiceFairness ==
    /\ WF_vars(HubRuns)
    /\ \A c \in Conn : ReaderFairness(c)
    /\ \A s \in Session : HandlerFairness(s)
    /\ \A c \in Conn, s \in Session : DeliveryFairness(c, s)

\* and of what else belongs to a connection or to a session's user.
ConnectionFairness(c) ==
    /\ WF_vars(PingRuns(c))
    /\ WF_vars(WriterRuns(c))
    /\ SF_vars(HandlerIsServed(c))
    /\ SF_vars(FailureIsServed(c))

UserFairness(s) ==
    /\ WF_vars(UpReaderRuns(s))
    /\ SF_vars(RequestIsTaken(s))

Fairness ==
    /\ ServiceFairness
    /\ \A c \in Conn : ConnectionFairness(c)
    /\ \A s \in Session : UserFairness(s)

Spec == Init /\ [][Next]_vars /\ Fairness

-----------------------------------------------------------------------------
(* Properties.                                                             *)

\* The Send of a session is closed under a handler that still runs, where a
\* message would end the process, only once an end of the session is recorded.
ClosedIsOver ==
    \A s \in Session : sess[s].closed => sess[s].at = "done" \/ sess[s].status \in Ended

\* A user's data goes to the agent only after the agent answered the connect
\* request, though answer, status and data pass through four goroutines.
ForwardedIsAnswered ==
    \A s \in Session :
        ~Http(s) /\ (sess[s].status = "connected" \/ sess[s].reader = "send"
                     \/ \E c \in Conn : toAgent[c] # None /\ toAgent[c].session = s)
            => agent[s] \in {"open", "ended"}

\* When the handler of a stream has returned, the user's websocket and Send
\* are closed or being closed, whoever unregistered the session first.
DoneIsClosed ==
    \A s \in Session : ~Http(s) /\ sess[s].at = "done"
                           => sess[s].closed \/ shub = Shub("close", s)

\* Why these hold.  What the hub has or takes has its agent; an agent that was
\* not asked has said nothing;
HubHasAgent == \A s \in sessions \cup ({shub.session} \ {None}) : sess[s].down # None

UndialledIsUnaware ==
    \A s \in Session : ~Http(s) /\ sess[s].at \in {"new", "login", "dial"}
                           => agent[s] = "unaware"

\* a connect answer on its way to the session was given;
AnswerWasGiven ==
    \A c \in Conn : toUser[c] # None /\ toUser[c].type = "connect"
                        /\ ~Http(toUser[c].session)
                        => agent[toUser[c].session] \in {"open", "ended"}

\* the hub closes a session because its handler is done or a writer failed;
CloseIsOver ==
    /\ shub.op = "close" => \/ sess[shub.session].at = "done"
                            \/ sess[shub.session].status \in Ended
    /\ \A c \in Conn : toAgent[c] # None /\ toAgent[c].at = "unenrol"
                          => sess[toAgent[c].session].status \in Ended

\* and a stream taken from the map before its handler got to the hub is closed.
RemovedIsClosed ==
    \A s \in Session : ~Http(s) /\ sess[s].at = "unenrol" /\ s \notin sessions
                           => sess[s].closed \/ shub = Shub("close", s)

SessionInv ==
    /\ SessionTypeOK
    /\ HubHasAgent
    /\ UndialledIsUnaware
    /\ AnswerWasGiven
    /\ ForwardedIsAnswered
    /\ ClosedIsOver
    /\ CloseIsOver
    /\ DoneIsClosed
    /\ RemovedIsClosed

\* A session whose user left is taken down.
UserGoneEnds ==
    \A s \in Session : sess[s].link = "down" ~> (sess[s].at = "done" \/ ~Running)

\* So is a stream whose agent's connection ended.
AgentGoneEnds ==
    \A s \in Session :
        (sess[s].at = "pump" /\ cancelled[sess[s].down]) ~> (sess[s].at = "done" \/ ~Running)

\* Only a connection that was unregistered without being closed can hold an
\* http handler for longer than its timeout.
HttpEnds ==
    \A s \in Session, c \in Conn :
        (sess[s].at = "request" /\ sess[s].down = c) ~>
            (sess[s].at = "done" \/ ~Running \/ (handler[c] = "gone" /\ ~closed[c]))

\* Only an http session that is over can hold up the reader of its agent's
\* connection for good.
Delivering(c, s) == toUser[c] # None /\ toUser[c].session = s
Held(c) == \E s \in Session : Delivering(c, s) /\ Http(s) /\ sess[s].at = "done"

ReaderIsFreed ==
    \A c \in Conn, s \in Session :
        Delivering(c, s) ~> (toUser[c] = None \/ ~Running \/ (Http(s) /\ sess[s].at = "done"))

\* The reader of a connection whose context is done returns, whatever it still
\* has to read and to deliver, unless such a session holds it.
ReaderReturns ==
    \A c \in Conn : cancelled[c] ~> (reader[c] # "run" \/ Held(c) \/ ~Running)

\* Why these hold.  The hub is in one operation at a time;
HubIsOne == hub = Selecting \/ shub = Idle

\* the handler of a session goes the way of its kind, and a stream registers
\* again only once it is connected;
HandlerIsInTurn ==
    \A s \in Session :
        /\ Http(s) => /\ sess[s].at \notin {"login", "dial", "pump", "reenrol"}
                      /\ sess[s].link = "up" /\ sess[s].reader = "off"
        /\ ~Http(s) => sess[s].at \notin {"encode", "request", "await"}
        /\ sess[s].at = "new" => sess[s].link = "up"
        /\ sess[s].at = "reenrol" => sess[s].status # "connecting"

\* what the hub or a reader has to do with a session comes after its handler
\* reached the hub, and after its agent was asked;
KnownIsEnrolled ==
    \A s \in Session :
        /\ s \in sessions \/ shub.session = s \/ (\E c \in Conn : Delivering(c, s))
              => sess[s].at \notin {"new", "login", "dial", "enrol"}
        /\ Http(s) /\ sess[s].at \in {"new", "enrol", "encode", "request"} =>
              /\ agent[s] = "unaware"
              /\ \A c \in Conn : /\ ~Delivering(c, s)
                                 /\ toAgent[c] = None \/ toAgent[c].session # s

\* a stream that is connected, or is about to be, is known to the hub until the
\* hub closes it;
ConnectedIsKnown ==
    \A s \in Session :
        /\ sess[s].status = "connected" => ~Http(s) /\ sess[s].at \notin {"new", "login", "dial", "enrol"}
        /\ ~Http(s) /\ (sess[s].status = "connected" \/ \E c \in Conn : Delivering(c, s))
              => s \in sessions \/ sess[s].closed \/ shub = Shub("close", s)

\* a session's connection was registered, so its pumps were started; one that
\* returned cancelled it, and a writer that works for a session has not.
PumpStarted(c) ==
    /\ handler[c] = "free" => ~closed[c] /\ link[c] = "up"
    /\ handler[c] \in {"ping", "leaving"} \/ hub.conn = c => writer[c] # "off"
    /\ reader[c] = "off" <=> writer[c] = "off"
    /\ "done" \in {reader[c], writer[c]} => cancelled[c]

Enlisted(c) == handler[c] \in {"ping", "leaving", "gone"} /\ writer[c] # "off"

PumpsAreStarted ==
    /\ \A c \in Conn : PumpStarted(c) /\ (toAgent[c] # None => writer[c] = "run")
    /\ \A s \in Session : sess[s].down # None => Enlisted(sess[s].down)

ServiceInv ==
    HubIsOne /\ HandlerIsInTurn /\ KnownIsEnrolled /\ ConnectedIsKnown /\ PumpsAreStarted

\* No goroutine that is to go on waits for another one, but for the hub, a
\* writer that is at its select, or a session's pump that is at its.
HubUnblocked == ~HubFree => ENABLED <<HubRuns>>_vars

ConnectionUnblocked(c) ==
    /\ handler[c] = "ping" /\ cancelled[c] => ENABLED <<PingRuns(c)>>_vars
    /\ toUser[c] # None /\ sess[toUser[c].session].closed => ENABLED <<ReaderRuns(c)>>_vars
    /\ reader[c] = "run" /\ toUser[c] = None /\ ReadFails(c) => ENABLED <<ReaderRuns(c)>>_vars
    /\ toAgent[c] # None /\ toAgent[c].at = "write" => ENABLED <<WriterRuns(c)>>_vars
    /\ HubFree /\ handler[c] = "leaving" => ENABLED <<HandlerIsServed(c)>>_vars
    /\ HubFree /\ toAgent[c] # None /\ toAgent[c].at = "unenrol" => ENABLED <<FailureIsServed(c)>>_vars

WriterIsFree(c) == writer[c] = "run" /\ toAgent[c] = None /\ ~closed[c]

HandlerCanRun(s) ==
    \/ sess[s].at \in {"login", "pump"} /\ sess[s].link = "down"
    \/ sess[s].at = "pump" /\ cancelled[sess[s].down]
    \/ sess[s].at = "request" /\ closed[sess[s].down]
    \/ sess[s].at \in {"dial", "encode", "await", "leave"}

DeliveryUnblocked(c, s) ==
    Delivering(c, s) /\ Receives(s) => ENABLED <<MessageIsTaken(c, s)>>_vars

SessionUnblocked(s) ==
    /\ HandlerCanRun(s) => ENABLED <<HandlerRuns(s)>>_vars
    /\ HubFree /\ sess[s].at \in {"enrol", "reenrol", "unenrol"} => ENABLED <<SessionIsServed(s)>>_vars
    /\ \A c \in Conn : DeliveryUnblocked(c, s)
    /\ sess[s].at = "request" /\ WriterIsFree(sess[s].down) => ENABLED <<RequestIsTaken(s)>>_vars

ServerUnblocked ==
    Running => /\ HubUnblocked
               /\ \A c \in Conn : ConnectionUnblocked(c)
               /\ \A s \in Session : SessionUnblocked(s)

\* The connections of the composed server are those of Registry.
RegistryRefined == RegistryInit /\ [][RegistryNext]_rvars

\* "The up stream session is closed,notifies down stream to close the session":
\* a message for a session that is closed is refused, it does not end the process.
LateMessageIsRefused == crash # "send to user"
=============================================================================
