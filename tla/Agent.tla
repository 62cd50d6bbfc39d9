------------------------------- MODULE Agent -------------------------------
(***************************************************************************)
(* The agent (pkg/client): the Run loop that dials the server again and    *)
(* again, the hub and the writer of the current connection, and for each   *)
(* session the Processor goroutine, its pumps and pipes, and the           *)
(* goroutines that serve the later messages of the session.                *)
(*                                                                         *)
(* Every message from the server is served by a goroutine of its own, and  *)
(* every message to it is sent on the unbuffered Send of the connection    *)
(* that was the current one when the sender got there.  Run waits ten      *)
(* seconds before it dials; by then the hub and the writer of the old      *)
(* connection have returned or, the hub, block on its Send for good, and   *)
(* so does everyone else who sent there.  One set of connection variables  *)
(* therefore serves all connections.                                       *)
(*                                                                         *)
(* The server and the downstream services are the environment.             *)
(***************************************************************************)
EXTENDS TunnelTypes

CONSTANTS Session,   \* sessions the server opens through this agent
          Protocol,  \* "http", or "stream" for all that Processor serves
          None

ASSUME AgentAssumption ==
    /\ Protocol \in [Session -> {"http", "stream"}]
    /\ None \notin [session : Session, type : MessageType]

VARIABLES
    link,      \* the current connection; "closed" once Run cancelled it
    writer,    \* its writeServerMessage, and the message it took
    hub,       \* its hub.Run, and the message it is sending
    sessions,  \* hub.Sessions
    stream,    \* each session's object, goroutines and downstream
    said       \* what the server has heard about a session

avars == <<link, writer, hub, sessions, stream, said>>

Message == [session : Session, type : MessageType]
Msg(s, type) == [session |-> s, type |-> type]

Worker(states) == [at : states, msg : Message \cup {None}]
At(state, msg) == [at |-> state, msg |-> msg]
Selecting == At("select", None)
Gone      == At("done", None)

Stream ==
    [proc : {"none", "dial", "enrol", "wait", "unenrol", "refuse", "reply", "lost", "done"},
     down : {"none", "open", "ended", "closed"}, \* the downstream connection
     status : Status,
     closed : BOOLEAN,     \* session.close(): pipes closed, Context done
     lost : BOOLEAN,       \* the Context of its first connection is done
     input : {"off", "head", "read", "receive", "failed"},
     output : {"off", "head", "read", "write", "failed"},
     relay : {"off", "read", "send", "lost"},
     feeder : {"none", "load", "write", "notice", "lost"},
     closer : {"none", "load", "close"}]

AgentTypeOK ==
    /\ link \in {"none", "up", "down", "closed"}
    /\ writer \in Worker({"select", "write", "done"})
    /\ writer.msg = None <=> writer.at # "write"
    /\ hub \in Worker({"select", "send", "done"})
    /\ hub.msg = None <=> hub.at # "send"
    /\ sessions \subseteq Session
    /\ stream \in [Session -> Stream]
    /\ said \in [Session -> Hearsay]

AgentInit ==
    /\ link = "none"
    /\ writer = Gone
    /\ hub = Gone
    /\ sessions = {}
    /\ stream = [s \in Session |->
                    [proc |-> "none", down |-> "none", status |-> "", closed |-> FALSE,
                     lost |-> FALSE, input |-> "off", output |-> "off", relay |-> "off",
                     feeder |-> "none", closer |-> "none"]]
    /\ said = [s \in Session |-> "unaware"]

Http(s) == Protocol[s] = "http"

\* A sender gives its message to the writer.
WriterTakes(msg) == writer = Selecting /\ writer' = At("write", msg)

-----------------------------------------------------------------------------
(* Run: the connection.                                                    *)

\* Who still sends on the Send of the connection before does so for ever.
Abandoned(st) ==
    [st EXCEPT !.relay  = IF @ = "send" THEN "lost" ELSE @,
               !.feeder = IF @ = "notice" THEN "lost" ELSE @,
               !.proc   = IF @ = "reply" THEN "lost" ELSE @]

\* newWebSocketClient succeeds, ten seconds after the last connection ended;
\* a new hub and a new writer start over the same map of sessions.
Redial ==
    /\ link \in {"none", "closed"}
    /\ hub.at # "select" /\ writer = Gone
    /\ link' = "up"
    /\ hub' = Selecting
    /\ writer' = Selecting
    /\ stream' = [s \in Session |-> Abandoned(stream[s])]
    /\ UNCHANGED <<sessions, said>>

\* The network or the server ends the connection; nobody knows yet.
LinkBreaks ==
    /\ link = "up"
    /\ link' = "down"
    /\ UNCHANGED <<writer, hub, sessions, stream, said>>

\* The ping, the reader or the writer fails; Run receives the first error,
\* cancels the connection's Context and closes the socket.  What sessions
\* remain is not looked at.
RunCancels ==
    /\ link = "down"
    /\ link' = "closed"
    /\ stream' = [s \in Session |->
                     [stream[s] EXCEPT !.lost = @ \/ stream[s].proc # "none"]]
    /\ UNCHANGED <<writer, hub, sessions, said>>

\* A write on a broken connection may still be buffered.
WriterWrites ==
    /\ writer.at = "write"
    /\ link \in {"up", "down"}
    /\ writer' = Selecting
    /\ said' = IF link = "down" THEN said
               ELSE [said EXCEPT ![writer.msg.session] =
                        Hears(@, Http(writer.msg.session), writer.msg.type)]
    /\ UNCHANGED <<link, hub, sessions, stream>>

\* It fails, or the Context is done: the writer returns.
WriterStops ==
    /\ \/ writer.at = "write" /\ link # "up"
       \/ writer = Selecting /\ link = "closed"
    /\ writer' = Gone
    /\ UNCHANGED <<link, hub, sessions, stream, said>>

-----------------------------------------------------------------------------
(* The hub.  Its receive and what it does to the map are one step: nobody  *)
(* but the session's own Processor, which waits for neither, and the       *)
(* lookups of other goroutines, which may as well come before, see them    *)
(* apart.                                                                  *)

\* Mutant: the session is answered for without being stored.
HubForgetsStore(s) ==
    /\ hub = Selecting
    /\ stream[s].proc = "enrol"
    /\ stream' = [stream EXCEPT ![s].proc = "wait"]
    /\ hub' = At("send", Msg(s, "connect"))
    /\ UNCHANGED <<link, writer, sessions, said>>

HubTakesEnrol(s) ==
    /\ hub = Selecting
    /\ stream[s].proc = "enrol"
    /\ sessions' = sessions \cup {s}
    /\ stream' = [stream EXCEPT ![s].proc = "wait"]
    /\ hub' = At("send", Msg(s, "connect"))
    /\ UNCHANGED <<link, writer, said>>

\* Mutant: the server is not told of a session whose processing failed.
HubReportsNoFailure(s) ==
    /\ hub = Selecting
    /\ stream[s].proc \in {"unenrol", "refuse"}
    /\ stream' = [stream EXCEPT ![s].proc = "done", ![s].closed = @ \/ s \in sessions]
    /\ sessions' = sessions \ {s}
    /\ hub' = IF stream[s].status # "" THEN Selecting ELSE At("send", Msg(s, "close"))
    /\ UNCHANGED <<link, writer, said>>

\* The status is read without the lock.
HubTakesUnenrol(s) ==
    /\ hub = Selecting
    /\ stream[s].proc \in {"unenrol", "refuse"}
    /\ stream' = [stream EXCEPT ![s].proc = "done", ![s].closed = @ \/ s \in sessions]
    /\ sessions' = sessions \ {s}
    /\ hub' = IF stream[s].status = "upstream closed" THEN Selecting
              ELSE At("send", Msg(s, "close"))
    /\ UNCHANGED <<link, writer, said>>

HubSends ==
    /\ hub.at = "send"
    /\ WriterTakes(hub.msg)
    /\ hub' = Selecting
    /\ UNCHANGED <<link, sessions, stream, said>>

\* select takes a done Context and a waiting session in no fixed order.
HubExits ==
    /\ hub = Selecting /\ link = "closed"
    /\ hub' = Gone
    /\ UNCHANGED <<link, writer, sessions, stream, said>>

-----------------------------------------------------------------------------
(* Processor and httpProcessor, on a connect request.                      *)

\* readServerMessage starts the processor of the session.
ReadConnect(s) ==
    /\ link = "up"
    /\ stream[s].proc = "none"
    /\ stream' = [stream EXCEPT ![s].proc = "dial"]
    /\ said' = [said EXCEPT ![s] = "asked"]
    /\ UNCHANGED <<link, writer, hub, sessions>>

\* httpProcessor made the request; its answer, whatever it is, goes out.
HttpAnswers(s) ==
    /\ Http(s) /\ stream[s].proc = "dial"
    /\ stream' = [stream EXCEPT ![s].proc = "reply"]
    /\ UNCHANGED <<link, writer, hub, sessions, said>>

\* Mutant: the answer goes out once more.
HttpSendsAgain(s) ==
    /\ stream[s].proc = "reply"
    /\ WriterTakes(Msg(s, "connect"))
    /\ UNCHANGED <<link, hub, sessions, stream, said>>

HttpSends(s) ==
    /\ stream[s].proc = "reply"
    /\ WriterTakes(Msg(s, "connect"))
    /\ stream' = [stream EXCEPT ![s].proc = "done"]
    /\ UNCHANGED <<link, hub, sessions, said>>

\* NewDownStream fails,
DialFails(s) ==
    /\ ~Http(s) /\ stream[s].proc = "dial"
    /\ stream' = [stream EXCEPT ![s].proc = "refuse"]
    /\ UNCHANGED <<link, writer, hub, sessions, said>>

\* or the session's pumps start before the hub hears of it.
DialSucceeds(s) ==
    /\ ~Http(s) /\ stream[s].proc = "dial"
    /\ stream' = [stream EXCEPT ![s].proc = "enrol", ![s].down = "open",
                                ![s].input = "head", ![s].output = "head",
                                ![s].relay = "read"]
    /\ UNCHANGED <<link, writer, hub, sessions, said>>

\* Mutant: Processor waits for the output pump only.
EndsByOutputOnly(s) ==
    /\ stream[s].proc = "wait"
    /\ stream[s].output = "failed"
    /\ stream' = [stream EXCEPT ![s].proc = "unenrol", ![s].down = "closed",
                                ![s].status = SetStatus(@, "process failed")]
    /\ UNCHANGED <<link, writer, hub, sessions, said>>

\* Mutant: Processor unregisters the session without closing its downstream.
EndsWithoutHangup(s) ==
    /\ stream[s].proc = "wait"
    /\ stream[s].closed \/ "failed" \in {stream[s].input, stream[s].output}
    /\ stream' = [stream EXCEPT ![s].proc = "unenrol",
                                ![s].status = SetStatus(@, "process failed")]
    /\ UNCHANGED <<link, writer, hub, sessions, said>>

\* The first of the session's goroutines returned: a pump, or
\* sessionSendToServer because the session's Context is done.
Ends(s) ==
    /\ stream[s].proc = "wait"
    /\ stream[s].closed \/ "failed" \in {stream[s].input, stream[s].output}
    /\ stream' = [stream EXCEPT ![s].proc = "unenrol", ![s].down = "closed",
                                ![s].status = SetStatus(@, "process failed")]
    /\ UNCHANGED <<link, writer, hub, sessions, said>>

-----------------------------------------------------------------------------
(* The pumps.  One that returns blocks sending its error to Processor,     *)
(* which receives one only.                                                *)

\* Both look at the two Contexts at the head of their loop only.
Over(s) == stream[s].lost \/ stream[s].closed

InputLoops(s) ==
    /\ stream[s].input = "head"
    /\ stream' = [stream EXCEPT ![s].input = IF Over(s) THEN "failed" ELSE "read"]
    /\ UNCHANGED <<link, writer, hub, sessions, said>>

\* The session's pipes are closed.
InputFails(s) ==
    /\ stream[s].input = "read" /\ stream[s].closed
    /\ stream' = [stream EXCEPT ![s].input = "failed"]
    /\ UNCHANGED <<link, writer, hub, sessions, said>>

\* downstream.Receive fails only if the downstream ended, and not always.
InputReceives(s) ==
    /\ stream[s].input = "receive"
    /\ \E next \in {"head", "failed"} :
          /\ next = "failed" => stream[s].down # "open"
          /\ stream' = [stream EXCEPT ![s].input = next]
    /\ UNCHANGED <<link, writer, hub, sessions, said>>

\* Mutant: the output pump does not look at the connection's Context.
OutputLoopsRegardless(s) ==
    /\ stream[s].output = "head"
    /\ stream' = [stream EXCEPT ![s].output = IF stream[s].closed THEN "failed" ELSE "read"]
    /\ UNCHANGED <<link, writer, hub, sessions, said>>

OutputLoops(s) ==
    /\ stream[s].output = "head"
    /\ stream' = [stream EXCEPT ![s].output = IF Over(s) THEN "failed" ELSE "read"]
    /\ UNCHANGED <<link, writer, hub, sessions, said>>

\* downstream.Send returns something the downstream said,
OutputReads(s) ==
    /\ stream[s].output = "read" /\ stream[s].down = "open"
    /\ stream' = [stream EXCEPT ![s].output = "write"]
    /\ UNCHANGED <<link, writer, hub, sessions, said>>

\* or an error: it ended or was closed.  The pipe to the server may be closed.
OutputFails(s) ==
    /\ \/ stream[s].output = "read" /\ stream[s].down # "open"
       \/ stream[s].output = "write" /\ stream[s].closed
    /\ stream' = [stream EXCEPT ![s].output = "failed"]
    /\ UNCHANGED <<link, writer, hub, sessions, said>>

\* Through the pipe to the inner goroutine of sessionSendToServer.
OutputRelays(s) ==
    /\ stream[s].output = "write" /\ stream[s].relay = "read" /\ ~stream[s].closed
    /\ stream' = [stream EXCEPT ![s].output = "head", ![s].relay = "send"]
    /\ UNCHANGED <<link, writer, hub, sessions, said>>

RelaySends(s) ==
    /\ stream[s].relay = "send"
    /\ WriterTakes(Msg(s, "data"))
    /\ stream' = [stream EXCEPT ![s].relay = "read"]
    /\ UNCHANGED <<link, hub, sessions, said>>

-----------------------------------------------------------------------------
(* Later messages of a session.  One message of each kind is under way at  *)
(* a time: more of them wait for the same things.                          *)

\* The server forwards its user's data over the connection of the connect
\* request, once it has the answer.
ReadData(s) ==
    /\ link = "up" /\ ~stream[s].lost
    /\ ~Http(s) /\ said[s] \in {"open", "ended"}
    /\ stream[s].feeder = "none"
    /\ stream' = [stream EXCEPT ![s].feeder = "load"]
    /\ UNCHANGED <<link, writer, hub, sessions, said>>

\* A session the hub does not know is answered with a close.
FeederLoads(s) ==
    /\ stream[s].feeder = "load"
    /\ stream' = [stream EXCEPT ![s].feeder = IF s \in sessions THEN "write" ELSE "notice"]
    /\ UNCHANGED <<link, writer, hub, sessions, said>>

FeederWrites(s) ==
    /\ stream[s].feeder = "write"
    /\ \/ /\ stream[s].closed
          /\ stream' = [stream EXCEPT ![s].feeder = "none"]
       \/ /\ ~stream[s].closed /\ stream[s].input = "read"
          /\ stream' = [stream EXCEPT ![s].feeder = "none", ![s].input = "receive"]
    /\ UNCHANGED <<link, writer, hub, sessions, said>>

FeederNotices(s) ==
    /\ stream[s].feeder = "notice"
    /\ WriterTakes(Msg(s, "close"))
    /\ stream' = [stream EXCEPT ![s].feeder = "none"]
    /\ UNCHANGED <<link, hub, sessions, said>>

\* A close comes from the server's hub, or refuses what was said, over any
\* connection.  The one httpProcessor gets changes nothing.
ReadClose(s) ==
    /\ link = "up"
    /\ ~Http(s) /\ said[s] # "unaware"
    /\ stream[s].closer = "none"
    /\ stream' = [stream EXCEPT ![s].closer = "load"]
    /\ UNCHANGED <<link, writer, hub, sessions, said>>

\* "Do not find session" drops it.
CloserLoads(s) ==
    /\ stream[s].closer = "load"
    /\ stream' = IF s \in sessions
                 THEN [stream EXCEPT ![s].closer = "close",
                                     ![s].status = SetStatus(@, "upstream closed")]
                 ELSE [stream EXCEPT ![s].closer = "none"]
    /\ UNCHANGED <<link, writer, hub, sessions, said>>

CloserCloses(s) ==
    /\ stream[s].closer = "close"
    /\ stream' = [stream EXCEPT ![s].closer = "none", ![s].closed = TRUE]
    /\ UNCHANGED <<link, writer, hub, sessions, said>>

\* The downstream ends the connection and its adapter reports it.  A command
\* that ExecClient ran to its end is not reported: it stays "open" here.
DownEnds(s) ==
    /\ stream[s].down = "open"
    /\ stream' = [stream EXCEPT ![s].down = "ended"]
    /\ UNCHANGED <<link, writer, hub, sessions, said>>

-----------------------------------------------------------------------------
ConnectionStep == \/ Redial \/ LinkBreaks \/ RunCancels \/ WriterWrites \/ WriterStops
                  \/ HubSends \/ HubExits

Process(s) == \/ HttpAnswers(s) \/ HttpSends(s) \/ DialFails(s) \/ DialSucceeds(s) \/ Ends(s)
              \/ HubTakesEnrol(s) \/ HubTakesUnenrol(s)

Pump(s) == \/ InputLoops(s) \/ InputFails(s) \/ InputReceives(s)
           \/ OutputLoops(s) \/ OutputReads(s) \/ OutputFails(s) \/ OutputRelays(s) \/ RelaySends(s)

Serve(s) == FeederLoads(s) \/ FeederWrites(s) \/ FeederNotices(s) \/ CloserLoads(s) \/ CloserCloses(s)

Peer(s) == ReadConnect(s) \/ ReadData(s) \/ ReadClose(s) \/ DownEnds(s)

AgentNext == \/ ConnectionStep
             \/ \E s \in Session : Process(s) \/ Pump(s) \/ Serve(s) \/ Peer(s)

\* What goes on by itself: Run and the writer of its connection,
RunRuns    == Redial \/ RunCancels
WriterRuns == WriterWrites \/ WriterStops

\* the goroutines of a session between two waits for a channel,
ProcessorRuns(s) == DialFails(s) \/ DialSucceeds(s) \/ HttpAnswers(s) \/ Ends(s)
OutputRuns(s)    == OutputLoops(s) \/ OutputFails(s) \/ OutputRelays(s)
CloserRuns(s)    == CloserLoads(s) \/ CloserCloses(s)

\* and the end of a processor's wait.
ProcessorIsServed(s) == HttpSends(s) \/ HubTakesEnrol(s) \/ HubTakesUnenrol(s)

\* Goroutines that can run do, dials return, channels serve their senders in
\* order and the server can be reached again; nothing else is promised.
HubFairness == SF_avars(HubSends)

StreamFairness(s) ==
    /\ WF_avars(ProcessorRuns(s))
    /\ SF_avars(ProcessorIsServed(s))
    /\ WF_avars(OutputRuns(s))
    /\ SF_avars(RelaySends(s))
    /\ WF_avars(CloserRuns(s))

AgentFairness ==
    /\ WF_avars(RunRuns)
    /\ WF_avars(WriterRuns)
    /\ WF_avars(HubExits)
    /\ HubFairness
    /\ \A s \in Session : StreamFairness(s)

AgentSpec == AgentInit /\ [][AgentNext]_avars /\ AgentFairness

-----------------------------------------------------------------------------
(* Properties.                                                             *)

\* The agent speaks as MaySay lets it, whatever its goroutines and its
\* connections do: it answers a connect request once, and not after a close.
SpokenInTurn ==
    writer.at = "write" =>
        MaySay(said[writer.msg.session], Http(writer.msg.session), writer.msg.type)

\* A close that the server sends after it had the connect answer is dropped
\* only if the session is over; one it sends before may be.
OpenIsListed ==
    \A s \in Session : ~Http(s) /\ said[s] = "open"
                           => s \in sessions \/ stream[s].proc = "done"

\* Once the server has heard that a stream is closed, its downstream is.
EndedIsHungUp ==
    \A s \in Session : ~Http(s) /\ said[s] = "ended" => stream[s].down \in {"none", "closed"}

\* Why these hold.  What the server has heard follows where the processor is;
ProcessorLeads ==
    \A s \in Session :
        /\ said[s] = "unaware" <=> stream[s].proc = "none"
        /\ stream[s].proc \in {"dial", "enrol", "refuse", "reply", "lost"} => said[s] = "asked"
        /\ ~Http(s) /\ said[s] = "ended" => stream[s].proc = "done"
        /\ Http(s) => /\ stream[s].proc \in {"none", "dial", "reply", "lost", "done"}
                      /\ stream[s].relay = "off" /\ stream[s].feeder = "none"
        /\ stream[s].relay # "off" => stream[s].proc # "none"

\* the hub knows a session for as long as its processor waits, and its
\* downstream is hung up before the processor stops waiting;
ListedIsServed ==
    \A s \in Session :
        /\ s \in sessions <=> stream[s].proc \in {"wait", "unenrol"}
        /\ stream[s].proc \notin {"enrol", "wait"} => stream[s].down \in {"none", "closed"}

\* data for a session the hub does not know comes after the session;
NoticeIsLate ==
    \A s \in Session :
        /\ stream[s].feeder # "none" => said[s] \in {"open", "ended"}
        /\ stream[s].feeder = "notice" => stream[s].proc = "done"

\* and a message on its way to the server is in its turn, a connect answer
\* being only in one place.
SentInTurn ==
    /\ hub.at = "send" =>
          /\ ~Http(hub.msg.session)
          /\ \/ /\ hub.msg.type = "connect" /\ said[hub.msg.session] = "asked"
                /\ stream[hub.msg.session].proc \in {"wait", "unenrol"}
                /\ hub.msg # writer.msg
             \/ hub.msg.type = "close" /\ stream[hub.msg.session].proc = "done"
    /\ writer.at = "write" =>
          \/ /\ writer.msg.type = "connect" /\ said[writer.msg.session] = "asked"
             /\ stream[writer.msg.session].proc \in {"wait", "unenrol", "done"}
          \/ /\ ~Http(writer.msg.session)
             /\ \/ writer.msg.type = "close" /\ stream[writer.msg.session].proc = "done"
                \/ writer.msg.type = "data" /\ said[writer.msg.session] # "unaware"

AgentInv ==
    /\ AgentTypeOK
    /\ ProcessorLeads
    /\ ListedIsServed
    /\ NoticeIsLate
    /\ SentInTurn

\* What the liveness rests on.  A session that is served has its downstream
\* and its pumps, and only one that is or was served is closed or hung up;
ServedIsWhole ==
    \A s \in Session :
        /\ stream[s].proc \in {"enrol", "wait", "unenrol"} =>
              stream[s].down # "none" /\ stream[s].output # "off" /\ stream[s].relay # "off"
        /\ stream[s].output # "off" => stream[s].down # "none"
        /\ stream[s].down = "closed" => stream[s].proc \in {"unenrol", "done"}
        /\ stream[s].closed \/ stream[s].closer = "close" =>
              stream[s].proc \in {"wait", "unenrol", "done"} /\ stream[s].down # "none"
        /\ stream[s].proc \in {"reply", "lost"} => Http(s)

\* hub and writer run for as long as their connection, which a session that
\* is not told otherwise has.
ConnectionIsServed ==
    /\ link = "none" => hub = Gone /\ writer = Gone
    /\ link \in {"up", "down"} => hub # Gone
    /\ link = "up" => writer # Gone
    /\ \A s \in Session : stream[s].proc # "none" =>
          /\ link # "none"
          /\ ~stream[s].lost => link \in {"up", "down"} /\ stream[s].relay # "lost"

\* What the liveness proofs need of ENABLED, which the provers do not expand:
\* each conjunct only says that a step is enabled when its guard holds.
StreamUnblocked(s) ==
    /\ stream[s].proc = "wait" /\ (stream[s].closed \/ stream[s].output = "failed")
          => ENABLED <<ProcessorRuns(s)>>_avars
    /\ stream[s].proc \in {"enrol", "unenrol", "refuse"} /\ hub = Selecting
          => ENABLED <<ProcessorIsServed(s)>>_avars
    /\ (\/ stream[s].output = "head"
        \/ stream[s].output = "read" /\ stream[s].down # "open"
        \/ stream[s].output = "write" /\ (stream[s].closed \/ stream[s].relay = "read"))
          => ENABLED <<OutputRuns(s)>>_avars
    /\ stream[s].relay = "send" /\ writer = Selecting => ENABLED <<RelaySends(s)>>_avars

AgentUnblocked ==
    /\ link = "down" \/ (link = "closed" /\ hub.at # "select" /\ writer = Gone)
          => ENABLED <<RunRuns>>_avars
    /\ writer.at = "write" \/ (writer = Selecting /\ link = "closed") => ENABLED <<WriterRuns>>_avars
    /\ hub = Selecting /\ link = "closed" => ENABLED <<HubExits>>_avars
    /\ hub.at = "send" /\ writer = Selecting => ENABLED <<HubSends>>_avars
    /\ \A s \in Session : StreamUnblocked(s)

\* A session that was closed hangs up its downstream, with or without a
\* connection to the server.
ClosedIsHungUp ==
    \A s \in Session : stream[s].closed ~> stream[s].down = "closed"

\* The server hears of a downstream that ended, or of one that cannot be
\* reached, unless it closed the session or the connection was lost.
FailureIsReported ==
    \A s \in Session :
        stream[s].down = "ended" \/ stream[s].proc = "refuse" ~>
            \/ said[s] = "ended"
            \/ stream[s].lost
            \/ stream[s].status = "upstream closed"

\* A stream that outlives its connection hangs up when its downstream speaks
\* or ends, unless it had something to say that the old connection held.
LostIsHungUp ==
    \A s \in Session :
        stream[s].lost /\ (stream[s].output = "write" \/ stream[s].down = "ended") ~>
            stream[s].down = "closed" \/ stream[s].relay = "lost"
=============================================================================
