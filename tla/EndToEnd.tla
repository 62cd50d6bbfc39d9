------------------------------ MODULE EndToEnd ------------------------------
(***************************************************************************)
(* Server and agent over one websocket, from its dial to its end: the      *)
(* steps of ServerSession and of Agent, joined by the messages that really *)
(* travel.  Where either part lets its peer say anything that is in turn,  *)
(* here it hears what the other one wrote.                                 *)
(*                                                                         *)
(* To the server messages travel in order: one goroutine writes and one    *)
(* reads.  The agent starts a goroutine for each message, and these run in *)
(* any order; its messages are therefore a set, but the connect request    *)
(* of a session comes first.  Equal messages of a session are one.  What   *)
(* is on its way when a connection breaks may arrive until the agent dials *)
(* again, ten seconds later, and is lost then.                             *)
(***************************************************************************)
EXTENDS ServerSession, Sequences, Naturals

CONSTANTS Capacity,  \* bound: messages on their way to the server
          Events,    \* bound: what users and downstreams do
          Frail,     \* bound: connections that the network breaks
          Operated   \* bound: connections that the server refuses or its
                     \* operator ends

ASSUME EndToEndAssumption ==
    /\ None \notin [session : Session, type : MessageType]
    /\ Capacity \in Nat \ {0}
    /\ Events \subseteq {"user",        \* a user sends data
                        "end",         \* a downstream ends the connection
                        "downstream",  \* a downstream sends data,
                        "early",       \* or only before the server has its session
                        "late"}        \* or once all is quiet after its session
    /\ Frail \subseteq Conn /\ Operated \subseteq Conn

VARIABLES
    alink, awriter, ahub, asessions, stream, said,  \* the agent
    conn,      \* the connection the agent dialled last,
    downlink,  \* the messages on their way to the agent
    uplink     \* and to the server over it

agentSide == <<alink, awriter, ahub, asessions, stream, said>>
wires     == <<conn, downlink, uplink>>
jvars     == <<vars, agentSide, wires>>

Client == INSTANCE Agent WITH
    Protocol <- [s \in Session |-> IF Protocol[s] = "http" THEN "http" ELSE "stream"],
    link <- alink, writer <- awriter, hub <- ahub, sessions <- asessions

Msg(s, type) == [session |-> s, type |-> type]

WiresTypeOK ==
    /\ conn \in Conn \cup {None}
    /\ downlink \subseteq [session : Session, type : MessageType]
    /\ uplink \in Seq([session : Session, type : MessageType])
    /\ Len(uplink) <= Capacity

JointInit ==
    /\ Init
    /\ Client!AgentInit
    /\ conn = None
    /\ downlink = {}
    /\ uplink = <<>>

\* The server writes m on c.
Sends(c, m) == downlink' = IF c = conn /\ link[c] = "up" THEN downlink \cup {m} ELSE downlink

-----------------------------------------------------------------------------
(* The connection.                                                         *)

\* The agent's dial succeeds when register upgrades the request.
Connect(c) ==
    /\ Running
    /\ ConnStep(c) /\ Upgrade(c)
    /\ Client!Redial
    /\ conn' = c /\ downlink' = {} /\ uplink' = <<>>

\* Each end may notice that the connection is gone; once one has, so will
\* the other.
ServerLoses(c) ==
    /\ Running
    /\ c \in Frail \/ c # conn \/ alink # "up"
    /\ ConnStep(c) /\ LinkBreaks(c)
    /\ UNCHANGED <<agentSide, wires>>

AgentLoses ==
    /\ Client!LinkBreaks
    /\ conn \in Frail \/ closed[conn] \/ link[conn] = "down"
    /\ UNCHANGED <<vars, wires>>

-----------------------------------------------------------------------------
(* What the server writes.                                                 *)

\* The connect request of a stream,
Dials(s) ==
    /\ Running
    /\ Dial(s)
    /\ IF sess'[s].at = "leave" THEN UNCHANGED downlink ELSE Sends(sess[s].down, Msg(s, "connect"))
    /\ UNCHANGED <<agentSide, conn, uplink>>

\* that of an http session or a user's data,
Forwards(c) ==
    /\ Running
    /\ WriterWrites(c)
    /\ LET s == toAgent[c].session
       IN  Sends(c, Msg(s, IF Http(s) THEN "connect" ELSE "data"))
    /\ UNCHANGED <<agentSide, conn, uplink>>

\* a close, if the user's end is what the session's status says was first,
Closes ==
    /\ Running
    /\ HubClosesSession
    /\ LET s == shub.session
       IN  IF sess[s].status = "upstream closed" /\ ~closed[sess[s].down]
           THEN Sends(sess[s].down, Msg(s, "close")) ELSE UNCHANGED downlink
    /\ UNCHANGED <<agentSide, conn, uplink>>

\* Mutant: a message whose session it does not know is dropped.
ReadsSilently(c) ==
    /\ Running
    /\ c = conn /\ uplink # <<>>
    /\ ReaderReads(c, Head(uplink).session, Head(uplink).type)
    /\ uplink' = Tail(uplink)
    /\ UNCHANGED <<agentSide, conn, downlink>>

\* and the refusal of a message whose session it does not know; one that
\* reaches httpProcessor changes nothing there.
Reads(c) ==
    /\ Running
    /\ c = conn /\ uplink # <<>>
    /\ LET m == Head(uplink)
       IN  /\ ReaderReads(c, m.session, m.type)
           /\ IF m.session \in sessions \/ Http(m.session) THEN UNCHANGED downlink
              ELSE Sends(c, Msg(m.session, "close"))
    /\ uplink' = Tail(uplink)
    /\ UNCHANGED <<agentSide, conn>>

-----------------------------------------------------------------------------
(* What the agent reads and writes.                                        *)

\* The message of a session that is served next.
First(s, type) ==
    /\ Msg(s, type) \in downlink
    /\ type = "connect" \/ Msg(s, "connect") \notin downlink
    /\ downlink' = downlink \ {Msg(s, type)}

ServesClose(s) ==
    /\ First(s, "close") /\ Client!ReadClose(s)
    /\ UNCHANGED <<vars, conn, uplink>>

Serves(s) ==
    \/ ServesClose(s)
    \/ /\ \/ First(s, "connect") /\ Client!ReadConnect(s)
          \/ First(s, "data") /\ Client!ReadData(s)
       /\ UNCHANGED <<vars, conn, uplink>>

\* Mutant: a message is written twice.
RepliesTwice ==
    /\ Client!WriterWrites
    /\ IF alink = "down" THEN UNCHANGED uplink
       ELSE /\ Len(uplink) < Capacity
            /\ uplink' = uplink \o <<awriter.msg, awriter.msg>>
    /\ UNCHANGED <<vars, conn, downlink>>

Replies ==
    /\ Client!WriterWrites
    /\ IF alink = "down" THEN UNCHANGED uplink
       ELSE /\ Len(uplink) < Capacity
            /\ uplink' = Append(uplink, awriter.msg)
    /\ UNCHANGED <<vars, conn, downlink>>

-----------------------------------------------------------------------------
(* What either does on its own.                                            *)

Refused(c)  == handler[c] = "upgraded" /\ handler'[c] = "gone"
UserSays(s) == sess[s].reader = "read" /\ sess'[s].reader = "send"
Dialled(s)  == sess[s].at = "dial" /\ sess'[s].at # "dial"

ServerAlone ==
    /\ Running
    /\ \/ \E c \in Conn : /\ ConnStep(c) /\ handler[c] # "free" /\ link' = link
                          /\ Refused(c) => c \in Operated
       \/ /\ \/ HubStep
             \/ \E i \in Id : clients[i] \in Operated /\ ManualDisconnect(i)
          /\ UNCHANGED svars
       \/ HubStoresSession \/ HubAnnounces
       \/ \E s \in Session :
             \/ SessionStep(s) /\ ~Dialled(s) /\ (UserSays(s) => "user" \in Events)
             \/ \E c \in Conn : SessionReceives(c, s) \/ WriterReceives(c, s)
       \/ \E c \in Conn : ReaderPanics(c) \/ WriterFails(c) \/ HubTakesFailed(c)
    /\ UNCHANGED <<agentSide, wires>>

\* Nothing is on its way for s.
Quiet(s) == /\ downlink = {} /\ uplink = <<>> /\ awriter = Client!Selecting
            /\ stream[s].relay = "read" /\ stream[s].closer = "none"

\* The downstream of s has something to say: at any time, while the session
\* waits to be registered at the server, or after it has ended there.
Speaks(s) == stream[s].output # "write" /\ stream'[s].output = "write"
MaySpeak(s) == \/ "downstream" \in Events
               \/ "early" \in Events /\ sess[s].at = "enrol" /\ Quiet(s)
               \/ "late" \in Events /\ sess[s].at = "done" /\ Quiet(s)

AgentAlone ==
    /\ \/ Client!RunCancels \/ Client!WriterStops \/ Client!HubSends \/ Client!HubExits
       \/ \E s \in Session :
             \/ Client!Process(s) \/ Client!Serve(s)
             \/ "end" \in Events /\ Client!DownEnds(s)
             \/ Client!Pump(s) /\ (Speaks(s) => MaySpeak(s))
    /\ UNCHANGED <<vars, wires>>

JointNext ==
    \/ ServerAlone \/ AgentAlone
    \/ \E c \in Conn : Connect(c) \/ ServerLoses(c) \/ Forwards(c) \/ Reads(c)
    \/ \E s \in Session : Dials(s) \/ Serves(s)
    \/ Closes \/ AgentLoses \/ Replies

\* Server and agent go on as each does alone, where that concerns a session,
\* their steps that write, read or serve a message included; what is on the
\* wire is read, a close however much data comes with it.  That users or
\* downstreams do anything, that a broken connection is noticed or that the
\* agent dials again is not assumed.
WireFairness(s) ==
    /\ WF_jvars(Serves(s))
    /\ WF_jvars(ServesClose(s))

JointFairness ==
    /\ ServiceFairness
    /\ Client!HubFairness
    /\ WF_jvars(Replies)
    /\ \A c \in Conn : WF_jvars(Reads(c))
    /\ \A s \in Session : Client!StreamFairness(s) /\ WireFairness(s)

JointSpec == JointInit /\ [][JointNext]_jvars /\ JointFairness

-----------------------------------------------------------------------------
(* Properties.                                                             *)

\* What ServerSession assumes of agents: every message that arrives, whatever
\* its session has become at the server meanwhile, is in its turn.
SpokenIsExpected ==
    uplink # <<>> => LET m == Head(uplink) IN MaySay(agent[m.session], Http(m.session), m.type)

\* What Agent assumes of the server: one connect request, data after the
\* answer and over the connection of the request.
AskedIsExpected ==
    \A m \in downlink :
        CASE m.type = "connect" -> stream[m.session].proc = "none"
          [] m.type = "data"    -> said[m.session] \in {"open", "ended"} /\
                                   (alink = "up" => ~stream[m.session].lost)
          [] m.type = "close"   -> Msg(m.session, "connect") \in downlink
                                       \/ said[m.session] # "unaware" \/ alink # "up"

\* Why the first holds.  A session's handler and the writers of the agents'
\* connections ask the agent once;
RequestIsOne ==
    \A s \in Session : Http(s) =>
        /\ sess[s].reader = "off" /\ sess[s].at \notin {"login", "dial", "pump", "reenrol"}
        /\ sess[s].at \in {"new", "enrol", "encode", "request"} =>
              agent[s] = "unaware" /\ \A c \in Conn : toAgent[c] = None \/ toAgent[c].session # s
        /\ \A c \in Conn : toAgent[c] # None /\ toAgent[c].session = s =>
              /\ agent[s] = "unaware"
              /\ \A d \in Conn \ {c} : toAgent[d] = None \/ toAgent[d].session # s

\* a request on the wire or being served is not answered yet;
RequestIsOpen ==
    \A s \in Session :
        /\ Msg(s, "connect") \in downlink => agent[s] = "asked" /\ said[s] = "unaware"
        /\ said[s] # "unaware" => agent[s] # "unaware"
        /\ said[s] = "asked" =>
              /\ agent[s] = "asked"
              /\ \A i \in 1..Len(uplink) : uplink[i].session = s => uplink[i].type = "data"

\* and its answer on the wire is the only one, with no close before it.
AnswerIsFirst ==
    \A i \in 1..Len(uplink) : LET m == uplink[i] IN
        /\ said[m.session] # "unaware"
        /\ m.type # "connect" => ~Http(m.session)
        /\ m.type = "connect" =>
              /\ agent[m.session] = "asked"
              /\ \A j \in 1..(i - 1) : uplink[j].session = m.session => uplink[j].type = "data"

\* Why the second holds.  A session stays with one connection, which is not
\* dialled again, and so does what is written for it;
ConnectionIsOne ==
    /\ \A s \in Session : sess[s].down # None => handler[sess[s].down] # "free"
    /\ \A c \in Conn : toAgent[c] # None => sess[toAgent[c].session].down = c
    /\ shub.op = "close" => ~Http(shub.session)

\* the request of a stream the server knows has been read or is on the wire
\* (no stream is at "await", but the induction need not know);
Dialling(s) == s \in sessions \/ shub.session = s \/ sess[s].at \in {"enrol", "await", "pump", "reenrol"}

DialledIsAsked ==
    \A s \in Session :
        ~Http(s) /\ Dialling(s) /\ sess[s].down = conn /\ link[conn] = "up" /\ alink = "up"
            => Msg(s, "connect") \in downlink \/ said[s] # "unaware"

\* and an answer is not forgotten, nor a session lost over the connection that
\* its messages travel.
AskedOverOne ==
    \A s \in Session :
        /\ agent[s] \in {"open", "ended"} => said[s] # "unaware"
        /\ stream[s].lost => said[s] # "unaware" /\ (sess[s].down # conn \/ alink # "up")
        /\ Msg(s, "connect") \in downlink => sess[s].down = conn
        /\ Msg(s, "data") \in downlink => sess[s].down = conn /\ agent[s] \in {"open", "ended"}

EndToEndInv ==
    /\ RegistryInv /\ SessionInv /\ Client!AgentInv
    /\ WiresTypeOK
    /\ RequestIsOne
    /\ RequestIsOpen
    /\ AnswerIsFirst
    /\ ConnectionIsOne
    /\ DialledIsAsked
    /\ AskedOverOne
    /\ AskedIsExpected

\* The session as its user and its downstream see it, a Tunnel.
Broken == \E c \in Conn : link[c] = "down" \/ closed[c]

View(s) ==
    IF sess[s].status = "downstream closed" THEN "hung up"
    ELSE IF sess[s].status = "upstream closed" \/ sess[s].at \in {"leave", "unenrol", "done"} THEN "left"
    ELSE IF sess[s].status = "connected" THEN "open" ELSE "waiting"

Far(s) == IF stream[s].down = "ended" THEN "open" ELSE stream[s].down

Streams == {s \in Session : ~Http(s)}
Promise == INSTANCE Tunnel WITH Session <- Streams, user <- [s \in Streams |-> View(s)],
                                far <- [s \in Streams |-> Far(s)], lost <- Broken
TunnelRefined == Promise!TunnelSpec

\* What the two have to say to each other about s travels for as long as the
\* agent keeps the connection of s and no http session that is over holds the
\* server's reader of it for good.
Severed(s) == sess[s].down # conn \/ alink # "up"

\* When the downstream of a connected user ends, so does the user's session,
\* unless the server had told the agent to close it: then the agent does not
\* report the end, and the user of a session that the server took for unknown
\* when it was not registered yet is left waiting.
EndReachesUser ==
    \A s \in Session :
        (sess[s].status = "connected" /\ stream[s].down \in {"ended", "closed"}) ~>
            (\/ sess[s].at = "done" \/ stream[s].status = "upstream closed"
             \/ Severed(s) \/ Held(conn) \/ ~Running)

\* A downstream that speaks for a session the server is done with is hung up,
\* if the server reads what it says.
LateWordIsHungUp ==
    \A s \in Session :
        (sess[s].at = "done" /\ s \notin sessions /\ stream[s].output = "write") ~>
            (\/ stream[s].down = "closed"
             \/ Severed(s) \/ cancelled[conn] \/ Held(conn) \/ ~Running)

\* A close on the wire of a stream that is served hangs it up, whatever has
\* become of the server, as long as the agent's end of the wire is there.
ToldIsHungUp ==
    \A s \in Session :
        (Msg(s, "close") \in downlink /\ s \in asessions) ~>
            (stream[s].down = "closed" \/ alink # "up")

\* Why these hold.  Who reads the close, looks the session up, closes it and
\* waits for that goes on;
CloseUnblocked(s) ==
    /\ (/\ Msg(s, "close") \in downlink /\ s \in asessions
        /\ alink = "up" /\ stream[s].closer = "none") => ENABLED <<ServesClose(s)>>_jvars
    /\ stream[s].closer # "none" => ENABLED <<Client!CloserRuns(s)>>_(Client!avars)
    /\ stream[s].proc = "wait" /\ stream[s].closed => ENABLED <<Client!ProcessorRuns(s)>>_(Client!avars)

\* the agent writes what there is room for, and the server reads what there is.
WireUnblocked ==
    /\ awriter.at = "write" /\ alink = "up" /\ Len(uplink) < Capacity => ENABLED <<Replies>>_jvars
    /\ \A c \in Conn :
          Running /\ c = conn /\ uplink # <<>> /\ reader[c] = "run" /\ toUser[c] = None
              => ENABLED <<Reads(c)>>_jvars

TravelUnblocked == WireUnblocked /\ \A s \in Session : CloseUnblocked(s)

\* "Notifying the server of session creation failure": the user of a stream
\* whose downstream cannot be reached hears of it.
FailureIsNotified ==
    \A s \in Session :
        stream[s].proc = "refuse" ~> (sess[s].at = "done" \/ Broken \/ ~Running)
=============================================================================
