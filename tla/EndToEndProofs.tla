--------------------------- MODULE EndToEndProofs ---------------------------
(***************************************************************************)
(* Server and agent keep what each assumes of the other, for every number  *)
(* of sessions, connections and identifiers and whatever the environment   *)
(* does.  Each joint step is a step of either part or leaves it alone, so  *)
(* the invariants of the parts carry over; what is said of the wires       *)
(* between them is shown step by step.  Then that the composition          *)
(* implements its parts, and that a close on the wire hangs up its stream. *)
(***************************************************************************)
EXTENDS EndToEnd, ServerSessionProofs

\* The proofs about the agent, for the agent of this composition.
AP == INSTANCE AgentLivenessProofs WITH
    Protocol <- [s \in Session |-> IF Protocol[s] = "http" THEN "http" ELSE "stream"],
    link <- alink, writer <- awriter, hub <- ahub, sessions <- asessions

\* AgentProofs, instantiated, speaks of the agent of this composition.
LEMMA SameInit == Client!AgentInit <=> AP!AgentInit
BY DEF Client!AgentInit, AP!AgentInit, Client!Gone, AP!Gone, Client!At, AP!At

\* Its invariant is that of this agent,
LEMMA SameInv == Client!AgentInv <=> AP!AgentInv
BY DEF Client!AgentInv, AP!AgentInv, Client!AgentTypeOK, AP!AgentTypeOK,
    Client!ProcessorLeads, AP!ProcessorLeads, Client!ListedIsServed, AP!ListedIsServed,
    Client!NoticeIsLate, AP!NoticeIsLate, Client!SentInTurn, AP!SentInTurn,
    Client!Worker, AP!Worker, Client!Stream, AP!Stream, Client!Message, AP!Message,
    Client!Http, AP!Http, Client!MessageType, AP!MessageType, Client!Hearsay,
    AP!Hearsay, Client!Status, AP!Status, Client!Ended, AP!Ended

\* after a step as well,
LEMMA SameInvAfter == Client!AgentInv' <=> AP!AgentInv'
BY DEF Client!AgentInv, AP!AgentInv, Client!AgentTypeOK, AP!AgentTypeOK,
    Client!ProcessorLeads, AP!ProcessorLeads, Client!ListedIsServed, AP!ListedIsServed,
    Client!NoticeIsLate, AP!NoticeIsLate, Client!SentInTurn, AP!SentInTurn,
    Client!Worker, AP!Worker, Client!Stream, AP!Stream, Client!Message, AP!Message,
    Client!Http, AP!Http, Client!MessageType, AP!MessageType, Client!Hearsay,
    AP!Hearsay, Client!Status, AP!Status, Client!Ended, AP!Ended

\* and its steps are those of this agent.
LEMMA SameNext == Client!AgentNext <=> AP!AgentNext
BY DEF Client!Redial, AP!Redial, Client!LinkBreaks, AP!LinkBreaks, Client!RunCancels,
    AP!RunCancels, Client!WriterWrites, AP!WriterWrites, Client!WriterStops,
    AP!WriterStops, Client!HubSends, AP!HubSends, Client!HubExits, AP!HubExits,
    Client!HttpAnswers, AP!HttpAnswers, Client!HttpSends, AP!HttpSends,
    Client!DialFails, AP!DialFails, Client!DialSucceeds, AP!DialSucceeds, Client!Ends,
    AP!Ends, Client!HubTakesEnrol, AP!HubTakesEnrol, Client!HubTakesUnenrol,
    AP!HubTakesUnenrol, Client!InputLoops, AP!InputLoops, Client!InputFails,
    AP!InputFails, Client!InputReceives, AP!InputReceives, Client!OutputLoops,
    AP!OutputLoops, Client!OutputReads, AP!OutputReads, Client!OutputFails,
    AP!OutputFails, Client!OutputRelays, AP!OutputRelays, Client!RelaySends,
    AP!RelaySends, Client!FeederLoads, AP!FeederLoads, Client!FeederWrites,
    AP!FeederWrites, Client!FeederNotices, AP!FeederNotices, Client!CloserLoads,
    AP!CloserLoads, Client!CloserCloses, AP!CloserCloses, Client!ReadConnect,
    AP!ReadConnect, Client!ReadData, AP!ReadData, Client!ReadClose, AP!ReadClose,
    Client!DownEnds, AP!DownEnds, Client!AgentNext, AP!AgentNext, Client!ConnectionStep,
    AP!ConnectionStep, Client!Process, AP!Process, Client!Pump, AP!Pump, Client!Serve,
    AP!Serve, Client!Peer, AP!Peer, Client!Http, AP!Http, Client!Msg, AP!Msg, Client!At,
    AP!At, Client!Selecting, AP!Selecting, Client!Gone, AP!Gone, Client!WriterTakes,
    AP!WriterTakes, Client!Abandoned, AP!Abandoned, Client!Over, AP!Over,
    Client!SetStatus, AP!SetStatus, Client!Ended, AP!Ended, Client!Hears, AP!Hears

\* What Agent assumes of its constants holds of this one.
LEMMA AgentAssumed ==
  /\ None \notin [session : Session, type : AP!MessageType]
  /\ [s \in Session |-> IF Protocol[s] = "http" THEN "http" ELSE "stream"]
        \in [Session -> {"http", "stream"}]
BY EndToEndAssumption DEF AP!MessageType, MessageType

\* The agent starts in its invariant
LEMMA AgentStarts == Client!AgentInit => Client!AgentInv
BY SameInit, SameInv, AgentAssumed, AP!InitAgent

\* and keeps it in every step of its own.
LEMMA AgentKeeps ==
  ASSUME Client!AgentInv, Client!AgentNext \/ UNCHANGED agentSide
  PROVE  Client!AgentInv'
<1>1. AP!AgentInv /\ [AP!AgentNext]_(AP!avars)
  BY SameInv, SameNext DEF AP!avars, agentSide
<1>2. AP!AgentInv'
  BY <1>1, AgentAssumed, AP!StepAgent
<1>3. QED  BY <1>2, SameInvAfter

-----------------------------------------------------------------------------
(* The joint steps, as steps of the parts.                                 *)

\* The message the server reads next, and those behind it.
LEMMA HeadOfWire ==
  ASSUME WiresTypeOK, uplink # <<>>
  PROVE  /\ Head(uplink) = uplink[1] /\ 1 \in 1..Len(uplink)
         /\ Head(uplink).session \in Session /\ Head(uplink).type \in MessageType
         /\ Tail(uplink) \in Seq([session : Session, type : MessageType])
         /\ Len(Tail(uplink)) = Len(uplink) - 1
         /\ \A i \in 1..Len(Tail(uplink)) : Tail(uplink)[i] = uplink[i + 1]
<1>1. uplink \in Seq([session : Session, type : MessageType])
  BY DEF WiresTypeOK
<1>2. Head(uplink) = uplink[1] /\ 1 \in 1..Len(uplink)
  BY <1>1
<1>3. uplink[1] \in [session : Session, type : MessageType]
  <2> DEFINE M == [session : Session, type : MessageType]
  <2> HIDE DEF M
  <2>1. uplink \in Seq(M)
    BY <1>1 DEF M
  <2>2. uplink[1] \in M
    BY <1>2, <2>1
  <2>3. QED  BY <2>2 DEF M
<1>4. QED  BY <1>1, <1>2, <1>3

\* The server's side of every step is a step of ServerSession.
LEMMA ServerMoves == WiresTypeOK /\ [JointNext]_jvars => [Next]_vars
<1> SUFFICES ASSUME WiresTypeOK, [JointNext]_jvars PROVE [Next]_vars
  OBVIOUS
<1>1. CASE UNCHANGED jvars
  BY <1>1 DEF jvars
<1>2. ASSUME ServerAlone PROVE Next
  BY <1>2 DEF ServerAlone, Next, RegistryStep, ShubStep, PumpStep, svars
<1>3. ASSUME NEW c \in Conn, Connect(c) \/ ServerLoses(c) PROVE Next
  BY <1>3 DEF Connect, ServerLoses, Next, RegistryStep
<1>4. ASSUME NEW c \in Conn, Forwards(c) PROVE Next
  BY <1>4 DEF Forwards, Next, PumpStep
<1>5. ASSUME NEW c \in Conn, Reads(c) PROVE Next
  BY <1>5, HeadOfWire DEF Reads, Next, PumpStep
<1>6. ASSUME NEW s \in Session, Dials(s) PROVE Next
  BY <1>6 DEF Dials, Next, SessionStep
<1>7. ASSUME Closes PROVE Next
  BY <1>7 DEF Closes, Next, ShubStep
<1>8. ASSUME AgentAlone \/ AgentLoses \/ Replies \/ \E s \in Session : Serves(s)
      PROVE  UNCHANGED vars
  BY <1>8 DEF AgentAlone, AgentLoses, Replies, Serves, ServesClose
<1>9. QED  BY <1>1, <1>2, <1>3, <1>4, <1>5, <1>6, <1>7, <1>8 DEF JointNext

\* And the agent's side a step of Agent.
LEMMA AgentMoves == [JointNext]_jvars => Client!AgentNext \/ UNCHANGED agentSide
<1> SUFFICES ASSUME [JointNext]_jvars PROVE Client!AgentNext \/ UNCHANGED agentSide
  OBVIOUS
<1>1. CASE UNCHANGED jvars
  BY <1>1 DEF jvars
<1>2. ASSUME AgentAlone PROVE Client!AgentNext
  BY <1>2 DEF AgentAlone, Client!AgentNext, Client!ConnectionStep, Client!Peer
<1>3. ASSUME Replies \/ AgentLoses \/ \E c \in Conn : Connect(c) PROVE Client!AgentNext
  BY <1>3 DEF Replies, AgentLoses, Connect, Client!AgentNext, Client!ConnectionStep
<1>4. ASSUME NEW s \in Session, Serves(s) PROVE Client!AgentNext
  BY <1>4 DEF Serves, ServesClose, Client!AgentNext, Client!Peer
<1>5. ASSUME \/ ServerAlone \/ Closes \/ \E s \in Session : Dials(s)
             \/ \E c \in Conn : ServerLoses(c) \/ Forwards(c) \/ Reads(c)
      PROVE  UNCHANGED agentSide
  BY <1>5 DEF ServerAlone, Closes, Dials, ServerLoses, Forwards, Reads
<1>6. QED  BY <1>1, <1>2, <1>3, <1>4, <1>5 DEF JointNext

-----------------------------------------------------------------------------
(* The server asks for a session once.                                     *)

\* What there is to know of the server in the steps below.
LEMMA ServerFacts ==
  ASSUME SessionInv
  PROVE  /\ sess \in [Session -> SessionObject]
         /\ agent \in [Session -> Hearsay]
         /\ toAgent \in [Conn -> [session : Session, at : {"write", "unenrol"}] \cup {None}]
         /\ toUser \in [Conn -> [session : Session, type : MessageType] \cup {None}]
         /\ \A s \in Session : /\ sess[s].at = "new" => sess[s].down = None
                               /\ sess[s].down = None => sess[s].at \in {"new", "leave", "done"}
BY DEF SessionInv, SessionTypeOK

\* No step of the server asks for an http session a second time.
LEMMA RequestStaysOne ==
  ASSUME RegistryTypeOK, SessionInv, RequestIsOne, [Next]_vars
  PROVE  RequestIsOne'
<1> USE DEF SessionObject
<1> DEFINE Early == {"new", "enrol", "encode", "request"}
           Foreign == {"login", "dial", "pump", "reenrol"}
<1>0. sess \in [Session -> SessionObject] /\ agent \in [Session -> Hearsay]
  BY ServerFacts
<1>1. ASSUME UNCHANGED <<agent, toAgent>>,
             \A s \in Session : Http(s) => /\ sess'[s].reader = sess[s].reader
                                           /\ sess'[s].at \notin Foreign
                                           /\ sess'[s].at \in Early => sess[s].at \in Early
      PROVE  RequestIsOne'
  BY <1>1 DEF RequestIsOne, Http
<1>2. ASSUME RegistryStep \/ ShubStep \/ UNCHANGED vars PROVE RequestIsOne'
  <2>1. /\ UNCHANGED <<agent, toAgent>>
        /\ \A s \in Session : sess'[s].reader = sess[s].reader /\ sess'[s].at = sess[s].at
    BY <1>0, <1>2 DEF RegistryStep, ConnStep, svars, vars, ShubStep, HubStoresSession,
                HubAnnounces, HubClosesSession
  <2>2. QED  BY <1>1, <2>1 DEF RequestIsOne
<1>3. ASSUME NEW t \in Session, SessionStep(t) PROVE RequestIsOne'
  <2>1. CASE Dial(t)
    <3>1. ~Http(t)
      BY <2>1 DEF RequestIsOne, Dial
    <3>2. /\ toAgent' = toAgent
          /\ \A s \in Session \ {t} : sess'[s] = sess[s] /\ agent'[s] = agent[s]
      BY <1>0, <2>1 DEF Dial
    <3>3. QED  BY <3>1, <3>2 DEF RequestIsOne, Http
  <2>2. CASE ~Dial(t)
    <3>1. UNCHANGED <<agent, toAgent>>
      BY <1>3, <2>2 DEF SessionStep, Lookup, Login, Encode, RequestPanics, AwaitTimesOut, Depart,
           PumpEnds, UserLeaves, UpReaderStops, UpReaderFails, UpReaderReads, UpReaderPanics,
           HubTakesEnrol, HubTakesUnenrol
    <3>2. \A s \in Session \ {t} : sess'[s] = sess[s]
      BY <1>0, <1>3, <2>2 DEF SessionStep, Lookup, Login, Encode, RequestPanics, AwaitTimesOut,
           Depart, PumpEnds, Leave, UserLeaves, UpReaderStops, UpReaderFails, UpReaderReads,
           UpReaderPanics, HubTakesEnrol, HubTakesUnenrol
    <3>3. Http(t) => /\ sess'[t].reader = sess[t].reader
                     /\ sess'[t].at \notin Foreign
                     /\ sess'[t].at \in Early => sess[t].at \in Early
      <4>1. CASE Lookup(t) \/ Login(t) \/ Encode(t) \/ RequestPanics(t) \/ AwaitTimesOut(t)
        BY <1>0, <4>1 DEF RequestIsOne, Http, Lookup, Login, Encode, RequestPanics, AwaitTimesOut
      <4>2. CASE Depart(t) \/ PumpEnds(t) \/ UserLeaves(t)
        BY <1>0, <4>2 DEF RequestIsOne, Depart, PumpEnds, Leave, UserLeaves
      <4>3. CASE UpReaderStops(t) \/ UpReaderFails(t) \/ UpReaderReads(t) \/ UpReaderPanics(t)
        BY <1>0, <4>3 DEF RequestIsOne, UpReaderStops, UpReaderFails, UpReaderReads, UpReaderPanics
      <4>4. CASE HubTakesEnrol(t) \/ HubTakesUnenrol(t)
        BY <1>0, <4>4 DEF RequestIsOne, HubTakesEnrol, HubTakesUnenrol
      <4>5. QED  BY <1>3, <2>2, <4>1, <4>2, <4>3, <4>4 DEF SessionStep
    <3>4. QED  BY <1>1, <3>1, <3>2, <3>3 DEF RequestIsOne
  <2>3. QED  BY <2>1, <2>2
<1>4. ASSUME NEW c \in Conn, NEW t \in Session, SessionReceives(c, t) PROVE RequestIsOne'
  <2>1. /\ UNCHANGED <<agent, toAgent>>
        /\ \A s \in Session \ {t} : sess'[s] = sess[s]
    BY <1>0, <1>4, ServerFacts DEF SessionReceives, Leave, MessageType
  <2>2. Http(t) => sess'[t].reader = sess[t].reader /\ sess'[t].at = "leave"
    BY <1>0, <1>4 DEF SessionReceives
  <2>3. QED  BY <1>1, <2>1, <2>2 DEF RequestIsOne
<1>5. ASSUME NEW c \in Conn, NEW t \in Session, NEW type \in MessageType, ReaderReads(c, t, type)
      PROVE  RequestIsOne'
  <2>1. /\ UNCHANGED <<sess, toAgent>>
        /\ agent[t] # "unaware"
        /\ \A s \in Session \ {t} : agent'[s] = agent[s]
    BY <1>0, <1>5 DEF ReaderReads, MaySay
  <2>2. QED  BY <2>1 DEF RequestIsOne, Http
<1>6. ASSUME NEW c \in Conn, NEW t \in Session, WriterReceives(c, t) PROVE RequestIsOne'
  <2>1. /\ agent' = agent
        /\ toAgent[c] = None
        /\ \A d \in Conn \ {c} : toAgent'[d] = toAgent[d]
        /\ toAgent'[c] = [session |-> t, at |-> "write"]
        /\ \A s \in Session \ {t} : sess'[s] = sess[s]
    BY <1>0, <1>6, ServerFacts DEF WriterReceives
  <2>2. Http(t) => /\ sess[t].at = "request" /\ sess'[t].at = "await"
                   /\ sess'[t].reader = sess[t].reader
    BY <1>0, <1>6 DEF WriterReceives, RequestIsOne
  <2>3. QED  BY <2>1, <2>2 DEF RequestIsOne, Http
<1>7. ASSUME NEW c \in Conn, WriterWrites(c) PROVE RequestIsOne'
  <2>1. /\ UNCHANGED sess
        /\ toAgent[c] # None /\ toAgent'[c] = None
        /\ \A d \in Conn \ {c} : toAgent'[d] = toAgent[d]
        /\ \A s \in Session : s # toAgent[c].session => agent'[s] = agent[s]
    BY <1>0, <1>7, ServerFacts DEF WriterWrites
  <2>2. QED  BY <2>1 DEF RequestIsOne, Http
<1>8. ASSUME NEW c \in Conn, ReaderPanics(c) \/ WriterFails(c) \/ HubTakesFailed(c)
      PROVE  RequestIsOne'
  <2>1. /\ agent' = agent
        /\ \A s \in Session : sess'[s].reader = sess[s].reader /\ sess'[s].at = sess[s].at
        /\ \A d \in Conn : toAgent'[d] # None => toAgent[d] # None /\ toAgent'[d].session = toAgent[d].session
    <3>1. CASE ReaderPanics(c)
      BY <3>1 DEF ReaderPanics
    <3>2. CASE WriterFails(c)
      BY <3>2, WriterFailsOnly DEF WriterFails
    <3>3. CASE HubTakesFailed(c)
      BY <3>3, ServerFacts DEF HubTakesFailed
    <3>4. QED  BY <1>8, <3>1, <3>2, <3>3
  <2>2. QED  BY <2>1 DEF RequestIsOne, Http
<1>9. QED
  BY <1>2, <1>3, <1>4, <1>5, <1>6, <1>7, <1>8 DEF Next, PumpStep

\* A session is asked for over the connection it was looked up with, one that
\* was dialled already; what the hub comes to know of a stream was asked for.
Steadies ==
    /\ \A s \in Session :
          /\ sess'[s].down # sess[s].down => sess[s].at = "new"
          /\ ~Http(s) /\ Dialling(s)' =>
                Dialling(s) \/ (sess[s].at = "dial" /\ sess'[s].at # "dial")
    /\ \A c \in Conn : link'[c] = "up" => link[c] = "up" \/ handler[c] = "free"

\* The two steps that set several fields of a session, one by a condition.
LEMMA FieldsKept ==
  ASSUME sess \in [Session -> SessionObject], NEW s \in Session,
         \/ UpReaderFails(s)
         \/ sess' = [Leave(s) EXCEPT ![s].status = SetStatus(@, "downstream closed")]
  PROVE  /\ sess'[s].down = sess[s].down /\ sess'[s].at \in {sess[s].at, "leave"}
         /\ \A t \in Session \ {s} : sess'[t] = sess[t]
<1>1. sess[s] \in SessionObject
  OBVIOUS
<1>2. CASE UpReaderFails(s)
  <2> DEFINE r == [sess[s] EXCEPT !.reader = "done", !.ended = TRUE,
                              !.status = SetStatus(@, "upstream closed")]
  <2>1. sess' = [sess EXCEPT ![s] = r]
    BY <1>2 DEF UpReaderFails
  <2>2. r \in SessionObject /\ r.down = sess[s].down /\ r.at = sess[s].at
    BY <1>1 DEF SessionObject, SetStatus, Status, Ended
  <2> HIDE DEF r
  <2>3. QED  BY <2>1, <2>2, Update
<1>3. CASE sess' = [Leave(s) EXCEPT ![s].status = SetStatus(@, "downstream closed")]
  <2> DEFINE r == [sess[s] EXCEPT !.at = "leave", !.ended = TRUE,
                              !.status = SetStatus(@, "downstream closed")]
  <2>1. sess' = [sess EXCEPT ![s] = r]
    BY <1>3 DEF Leave
  <2>2. r \in SessionObject /\ r.down = sess[s].down /\ r.at = "leave"
    BY <1>1 DEF SessionObject, SetStatus, Status, Ended, ProxyAt
  <2> HIDE DEF r
  <2>3. QED  BY <2>1, <2>2, Update
<1>4. QED  BY <1>2, <1>3

\* Every step of the server leaves a session its connection.
LEMMA ConnectionStaysOne ==
  ASSUME RegistryInv, SessionInv, RequestIsOne, ConnectionIsOne, [Next]_vars
  PROVE  ConnectionIsOne' /\ Steadies
<1>0. /\ sess \in [Session -> SessionObject] /\ agent \in [Session -> Hearsay]
      /\ toAgent \in [Conn -> [session : Session, at : {"write", "unenrol"}] \cup {None}]
      /\ \A s \in Session : sess[s].at = "new" => sess[s].down = None
      /\ handler \in [Conn -> Handler] /\ link \in [Conn -> {"up", "down"}]
  <2>1. handler \in [Conn -> Handler] /\ link \in [Conn -> {"up", "down"}]
    BY DEF RegistryInv, RegistryTypeOK
  <2>2. /\ sess \in [Session -> SessionObject] /\ agent \in [Session -> Hearsay]
        /\ toAgent \in [Conn -> [session : Session, at : {"write", "unenrol"}] \cup {None}]
    BY ServerFacts
  <2>3. \A s \in Session : sess[s].at = "new" => sess[s].down = None
    BY DEF SessionInv, SessionTypeOK
  <2>4. QED  BY <2>1, <2>2, <2>3
<1> USE DEF SessionObject
<1>1. ASSUME \A s \in Session : /\ sess'[s].down # sess[s].down =>
                                     sess[s].at = "new" /\ handler[sess'[s].down] # "free"
                                /\ ~Http(s) /\ Dialling(s)' =>
                                      Dialling(s) \/ (sess[s].at = "dial" /\ sess'[s].at # "dial"),
             \A c \in Conn : /\ handler'[c] = "free" => handler[c] = "free"
                             /\ toAgent'[c] # None =>
                                   /\ toAgent'[c].session \in Session
                                   /\ \/ toAgent[c] # None /\ toAgent'[c].session = toAgent[c].session
                                      \/ sess[toAgent'[c].session].down = c,
             \A c \in Conn : link'[c] = "up" => link[c] = "up" \/ handler[c] = "free",
             \A s \in Session : sess'[s].down \in Conn \cup {None},
             shub'.op = "close" => shub' = shub \/ ~Http(shub'.session)
      PROVE  ConnectionIsOne' /\ Steadies
  <2>1. Steadies
    BY <1>1 DEF Steadies
  <2>2. \A s \in Session : sess'[s].down # None => handler'[sess'[s].down] # "free"
    BY <1>1, <1>0 DEF ConnectionIsOne
  <2>3. \A c \in Conn : toAgent'[c] # None => sess'[toAgent'[c].session].down = c
    BY <1>1, <1>0, RegistryAssumption DEF ConnectionIsOne
  <2>4. shub'.op = "close" => ~Http(shub'.session)
    BY <1>1 DEF ConnectionIsOne
  <2>5. QED  BY <2>1, <2>2, <2>3, <2>4 DEF ConnectionIsOne, Http
<1>2. ASSUME UNCHANGED <<sess, sessions, shub, toAgent>>,
             \A c \in Conn : /\ handler'[c] = "free" => handler[c] = "free"
                             /\ link'[c] = "up" => link[c] = "up" \/ handler[c] = "free"
      PROVE  ConnectionIsOne' /\ Steadies
  BY <1>0, <1>1, <1>2 DEF Dialling
<1>3. CASE RegistryStep \/ UNCHANGED vars
  <2>1. UNCHANGED <<sess, sessions, shub, toAgent>>
    BY <1>3 DEF RegistryStep, ConnStep, svars, vars
  <2>2. \A c \in Conn : /\ handler'[c] = "free" => handler[c] = "free"
                        /\ link'[c] = "up" => link[c] = "up" \/ handler[c] = "free"
    <3>1. ASSUME NEW c \in Conn, ConnStep(c) PROVE <2>2
      BY <3>1, <1>0 DEF ConnStep, Upgrade, Refuse, CheckOffline, PingEnds, LinkBreaks, ReaderExits,
         WriterExits, HubTakesRegister, HubTakesUnregister
    <3>2. CASE HubStep \/ \E i \in Id : ManualDisconnect(i)
      BY <3>2 DEF HubStep, HubStores, HubCloses, HubDeletes, ManualDisconnect
    <3>3. CASE UNCHANGED vars
      BY <3>3 DEF vars, rvars
    <3>4. QED  BY <1>3, <3>1, <3>2, <3>3 DEF RegistryStep
  <2>3. QED  BY <1>2, <2>1, <2>2
<1>4. CASE ShubStep
  <2>1. UNCHANGED <<rvars, toAgent>>
    BY <1>4 DEF ShubStep, HubStoresSession, HubAnnounces, HubClosesSession
  <2>2. \A s \in Session : sess'[s].down = sess[s].down /\ sess'[s].at = sess[s].at
    <3>1. CASE HubClosesSession
      BY <1>0, <3>1 DEF HubClosesSession
    <3>2. CASE HubStoresSession \/ HubAnnounces
      BY <3>2 DEF HubStoresSession, HubAnnounces
    <3>3. QED  BY <1>4, <3>1, <3>2 DEF ShubStep
  <2>3. shub'.op # "close"
    BY <1>4 DEF ShubStep, HubStoresSession, HubAnnounces, HubClosesSession, Shub, Idle
  <2>4. \A s \in Session : Dialling(s)' => Dialling(s)
    BY <1>4, <2>2, SessionAssumption DEF ShubStep, HubStoresSession, HubAnnounces,
       HubClosesSession, Shub, Idle, Dialling
  <2>5. QED  BY <1>0, <1>1, <2>1, <2>2, <2>3, <2>4 DEF rvars
<1>5. ASSUME NEW t \in Session, SessionStep(t) PROVE ConnectionIsOne' /\ Steadies
  <2>1. UNCHANGED <<rvars, toAgent>>
    BY <1>5 DEF SessionStep, Lookup, Login, Dial, Encode, RequestPanics, AwaitTimesOut,
       Depart, PumpEnds, UserLeaves, UpReaderStops, UpReaderFails, UpReaderReads,
       UpReaderPanics, HubTakesEnrol, HubTakesUnenrol
  <2>2. CASE Lookup(t)
    <3>1. /\ UNCHANGED <<sessions, shub>> /\ sess[t].at = "new"
          /\ \A s \in Session \ {t} : sess'[s] = sess[s]
          /\ sess'[t].down = clients[ToLower[Asked[t]]]
          /\ ~Http(t) => sess'[t].at \in {"leave", "login", "dial"}
      BY <1>0, <2>2, SessionAssumption, ZenonT(40) DEF Lookup, Http
    <3>2. clients[ToLower[Asked[t]]] # None => handler[clients[ToLower[Asked[t]]]] # "free"
      BY SessionAssumption DEF RegistryInv, RegistryTypeOK, EntryIsServed, HubHoldsLive, Removing
    <3>3. \A s \in Session : ~Http(s) /\ Dialling(s)' => Dialling(s)
      BY <3>1 DEF Dialling
    <3>4. clients[ToLower[Asked[t]]] \in Conn \cup {None}
      BY SessionAssumption DEF RegistryInv, RegistryTypeOK
    <3>5. \A c \in Conn : toAgent[c] # None => toAgent[c].session # t
      BY <1>0, <3>1, RegistryAssumption DEF ConnectionIsOne
    <3>6. \A s \in Session : sess'[s].down # None => handler'[sess'[s].down] # "free"
      BY <1>0, <2>1, <3>1, <3>2 DEF ConnectionIsOne, rvars
    <3>7. \A c \in Conn : toAgent'[c] # None => sess'[toAgent'[c].session].down = c
      BY <1>0, <2>1, <3>1, <3>5 DEF ConnectionIsOne
    <3>8. Steadies
      BY <2>1, <3>1, <3>3 DEF Steadies, rvars
    <3>9. QED  BY <3>1, <3>6, <3>7, <3>8 DEF ConnectionIsOne, Http
  <2>3. CASE ~Lookup(t)
    <3>1. \A s \in Session : s # t => sess'[s] = sess[s]
      BY <1>0, <1>5, <2>3 DEF SessionStep, Login, Dial, Encode, RequestPanics, AwaitTimesOut,
           Depart, PumpEnds, Leave, UserLeaves, UpReaderStops, UpReaderFails, UpReaderReads,
           UpReaderPanics, HubTakesEnrol, HubTakesUnenrol
    <3>2. sess'[t].down = sess[t].down
      <4>1. CASE Login(t) \/ Dial(t) \/ Encode(t) \/ RequestPanics(t) \/ AwaitTimesOut(t)
        BY <1>0, <4>1 DEF Login, Dial, Encode, RequestPanics, AwaitTimesOut
      <4>2. CASE Depart(t) \/ PumpEnds(t) \/ UserLeaves(t)
        BY <1>0, <4>2 DEF Depart, PumpEnds, Leave, UserLeaves
      <4>3. CASE UpReaderStops(t) \/ UpReaderFails(t) \/ UpReaderReads(t) \/ UpReaderPanics(t)
        <5>1. CASE UpReaderStops(t)
          BY <1>0, <5>1 DEF UpReaderStops
        <5>2. CASE UpReaderReads(t)
          BY <1>0, <5>2 DEF UpReaderReads
        <5>3. CASE UpReaderPanics(t)
          BY <5>3 DEF UpReaderPanics
        <5>4. CASE UpReaderFails(t)
          BY <1>0, <5>4, FieldsKept
        <5>5. QED  BY <4>3, <5>1, <5>2, <5>3, <5>4
      <4>4. CASE HubTakesEnrol(t) \/ HubTakesUnenrol(t)
        BY <1>0, <4>4 DEF HubTakesEnrol, HubTakesUnenrol
      <4>5. QED  BY <1>5, <2>3, <4>1, <4>2, <4>3, <4>4 DEF SessionStep
    <3>3. sess'[t].at \in {"enrol", "await", "pump", "reenrol"} /\ ~Http(t) =>
             \/ sess[t].at \in {"enrol", "await", "pump", "reenrol"}
             \/ sess[t].at = "dial" /\ sess'[t].at # "dial"
      <4>1. CASE Login(t) \/ Dial(t) \/ Encode(t) \/ RequestPanics(t) \/ AwaitTimesOut(t)
        BY <1>0, <4>1 DEF Login, Dial, Encode, RequestPanics, AwaitTimesOut
      <4>2. CASE Depart(t) \/ PumpEnds(t) \/ UserLeaves(t)
        BY <1>0, <4>2 DEF Depart, PumpEnds, Leave, UserLeaves
      <4>3. CASE UpReaderStops(t) \/ UpReaderFails(t) \/ UpReaderReads(t) \/ UpReaderPanics(t)
        <5>1. sess'[t].at \in {sess[t].at, "leave"}
          <6>1. CASE UpReaderStops(t)
            BY <1>0, <6>1 DEF UpReaderStops
          <6>2. CASE UpReaderReads(t)
            BY <1>0, <6>2 DEF UpReaderReads
          <6>3. CASE UpReaderPanics(t)
            BY <6>3 DEF UpReaderPanics
          <6>4. CASE UpReaderFails(t)
            BY <1>0, <6>4, FieldsKept
          <6>5. QED  BY <4>3, <6>1, <6>2, <6>3, <6>4
        <5>2. QED  BY <5>1
      <4>4. CASE HubTakesEnrol(t) \/ HubTakesUnenrol(t)
        BY <1>0, <4>4 DEF HubTakesEnrol, HubTakesUnenrol
      <4>5. QED  BY <1>5, <2>3, <4>1, <4>2, <4>3, <4>4 DEF SessionStep
    <3>4. \/ UNCHANGED <<sessions, shub>>
          \/ HubTakesEnrol(t)
          \/ HubTakesUnenrol(t)
      BY <1>5 DEF SessionStep, Lookup, Login, Dial, Encode, RequestPanics, AwaitTimesOut,
           Depart, PumpEnds, UserLeaves, UpReaderStops, UpReaderFails, UpReaderReads, UpReaderPanics
    <3>5. /\ sessions' \subseteq sessions
          /\ shub' = shub \/ shub' = Idle \/ (shub'.session = t /\ shub'.op = "store" /\ sess[t].at \in {"enrol", "reenrol"})
               \/ (shub' = Shub("close", t) /\ t \in sessions /\ ~Http(t))
      BY <3>4 DEF HubTakesEnrol, HubTakesUnenrol, Removes, Shub
    <3>6. \A s \in Session : ~Http(s) /\ Dialling(s)' => Dialling(s) \/ (sess[s].at = "dial" /\ sess'[s].at # "dial")
      BY <3>1, <3>3, <3>5, SessionAssumption DEF Dialling, Idle, Shub
    <3>7. shub'.op = "close" => shub' = shub \/ ~Http(shub'.session)
      BY <3>5 DEF Idle, Shub
    <3>8. QED  BY <1>0, <1>1, <2>1, <3>1, <3>2, <3>6, <3>7 DEF rvars
  <2>4. QED  BY <2>2, <2>3
<1>6. ASSUME NEW c \in Conn, NEW t \in Session, SessionReceives(c, t) PROVE ConnectionIsOne' /\ Steadies
  <2>1. UNCHANGED <<rvars, sessions, shub, toAgent>> /\ sess[t].at \in {"pump", "await"}
    BY <1>6 DEF SessionReceives, Receives
  <2>2. \A s \in Session : /\ s # t => sess'[s] = sess[s]
                           /\ sess'[s].down = sess[s].down
    BY <1>0, <1>6, ServerFacts DEF SessionReceives, Leave, MessageType
  <2>4. \A s \in Session : ~Http(s) /\ Dialling(s)' => Dialling(s)
    BY <2>1, <2>2 DEF Dialling
  <2>5. QED  BY <1>0, <1>1, <2>1, <2>2, <2>4 DEF rvars
<1>7. ASSUME NEW c \in Conn, NEW t \in Session, NEW type \in MessageType, ReaderReads(c, t, type)
      PROVE  ConnectionIsOne' /\ Steadies
  BY <1>2, <1>7 DEF ReaderReads, rvars
<1>8. ASSUME NEW c \in Conn, NEW t \in Session, WriterReceives(c, t) PROVE ConnectionIsOne' /\ Steadies
  <2>1. /\ UNCHANGED <<rvars, sessions, shub>>
        /\ sess[t].down = c
        /\ \A d \in Conn \ {c} : toAgent'[d] = toAgent[d]
        /\ toAgent'[c] = [session |-> t, at |-> "write"]
        /\ \A s \in Session \ {t} : sess'[s] = sess[s]
        /\ sess'[t].down = sess[t].down
        /\ sess'[t].at = sess[t].at \/ (Http(t) /\ sess'[t].at = "await")
    BY <1>0, <1>8 DEF WriterReceives
  <2>2. \A s \in Session : ~Http(s) /\ Dialling(s)' => Dialling(s)
    BY <2>1 DEF Dialling
  <2>3. QED  BY <1>0, <1>1, <2>1, <2>2 DEF rvars
<1>9. ASSUME NEW c \in Conn, WriterWrites(c) \/ ReaderPanics(c) PROVE ConnectionIsOne' /\ Steadies
  <2>1. /\ UNCHANGED <<rvars, sess, sessions, shub>>
        /\ \A d \in Conn : toAgent'[d] # None => toAgent'[d] = toAgent[d]
    BY <1>0, <1>9 DEF WriterWrites, ReaderPanics
  <2>2. \A s \in Session : Dialling(s)' => Dialling(s)
    BY <2>1 DEF Dialling
  <2>3. QED  BY <1>0, <1>1, <2>1, <2>2 DEF rvars
<1>10. ASSUME NEW c \in Conn, WriterFails(c) PROVE ConnectionIsOne' /\ Steadies
  <2>1. UNCHANGED <<sessions, shub, handler, link>>
    BY <1>10 DEF WriterFails, WriterExits, rvars
  <2>2. /\ \A s \in Session : sess'[s].down = sess[s].down /\ sess'[s].at = sess[s].at
        /\ \A d \in Conn : toAgent'[d] # None => toAgent[d] # None /\ toAgent'[d].session = toAgent[d].session
    BY <1>10, WriterFailsOnly
  <2>3. \A s \in Session : Dialling(s)' => Dialling(s)
    BY <2>1, <2>2 DEF Dialling
  <2>4. QED  BY <1>0, <1>1, <2>1, <2>2, <2>3
<1>11. ASSUME NEW c \in Conn, HubTakesFailed(c) PROVE ConnectionIsOne' /\ Steadies
  <2>1. UNCHANGED <<sess, handler, link>>
    BY <1>11 DEF HubTakesFailed, WriterExits
  <2>2. /\ toAgent[c] # None /\ toAgent[c].session \in Session
        /\ \A d \in Conn : toAgent'[d] # None => toAgent'[d] = toAgent[d]
    BY <1>0, <1>11 DEF HubTakesFailed
  <2>3. /\ sessions' \subseteq sessions
        /\ shub' = Idle \/ (shub' = Shub("close", toAgent[c].session) /\ toAgent[c].session \in sessions
                             /\ ~Http(toAgent[c].session))
    BY <1>11 DEF HubTakesFailed, Removes
  <2>4. \A s \in Session : Dialling(s)' => Dialling(s)
    BY <2>1, <2>2, <2>3, SessionAssumption DEF Dialling, Idle, Shub
  <2>5. shub'.op = "close" => shub' = shub \/ ~Http(shub'.session)
    BY <2>3 DEF Idle, Shub
  <2>6. QED  BY <1>0, <1>1, <2>1, <2>2, <2>4, <2>5
<1>12. QED
  BY <1>3, <1>4, <1>5, <1>6, <1>7, <1>8, <1>9, <1>10, <1>11 DEF Next, PumpStep

-----------------------------------------------------------------------------
(* What is on the wires, step by step.                                     *)

\* The part of AskedIsExpected that does not follow from the rest.
CloseIsExpected ==
    \A s \in Session :
        Msg(s, "close") \in downlink =>
            Msg(s, "connect") \in downlink \/ said[s] # "unaware" \/ alink # "up"

WiresInv == RequestIsOpen /\ AnswerIsFirst /\ DialledIsAsked /\ AskedOverOne /\ CloseIsExpected

\* A message sent to the agent.
LEMMA SentIsTyped ==
  ASSUME WiresTypeOK, NEW s \in Session, NEW type \in MessageType,
         UNCHANGED <<conn, uplink>>,
         downlink' \in {downlink, downlink \cup {Msg(s, type)}}
  PROVE  WiresTypeOK'
BY DEF WiresTypeOK, Msg

\* What is on its way to the server is about sessions.
LEMMA WireOfSessions ==
  ASSUME WiresTypeOK
  PROVE  \A i \in 1..Len(uplink) : uplink[i].session \in Session
<1> DEFINE M == [session : Session, type : MessageType]
<1>1. uplink \in Seq(M)
  BY DEF WiresTypeOK
<1> HIDE DEF M
<1>2. \A i \in 1..Len(uplink) : uplink[i] \in M
  BY <1>1
<1>3. QED  BY <1>2 DEF M

\* A session that is looked up has not been asked for.
LEMMA NewIsUnaware ==
  ASSUME SessionInv, RequestIsOne, RequestIsOpen, AskedOverOne
  PROVE  \A s \in Session : sess[s].at = "new" =>
            /\ agent[s] = "unaware" /\ said[s] = "unaware" /\ ~stream[s].lost
            /\ Msg(s, "connect") \notin downlink /\ Msg(s, "data") \notin downlink
<1> SUFFICES ASSUME NEW s \in Session, sess[s].at = "new"
             PROVE  /\ agent[s] = "unaware" /\ said[s] = "unaware" /\ ~stream[s].lost
                    /\ Msg(s, "connect") \notin downlink /\ Msg(s, "data") \notin downlink
  OBVIOUS
<1>1. agent[s] = "unaware"
  BY DEF SessionInv, UndialledIsUnaware, RequestIsOne
<1>2. said[s] = "unaware"
  BY <1>1 DEF RequestIsOpen
<1>3. QED  BY <1>1, <1>2 DEF RequestIsOpen, AskedOverOne

\* A stream the hub knows has its agent.
LEMMA DiallingHasAgent ==
  ASSUME SessionInv
  PROVE  \A s \in Session : Dialling(s) => sess[s].down # None
BY SessionAssumption DEF SessionInv, SessionTypeOK, HubHasAgent, Dialling

\* A step after which both ends have heard the same, with perhaps one more
\* message of an answered session, or a close, on its way to the agent.
LEMMA SteadyWires ==
  ASSUME SessionInv, RequestIsOne, WiresTypeOK, WiresInv, Steadies,
         UNCHANGED <<conn, uplink, agent, said>>,
         \A s \in Session : ~Http(s) /\ Dialling(s)' => 
            Dialling(s) \/ (sess[s].down \in Conn /\ link[sess[s].down] # "up"),
         \A c \in Conn : link'[c] = "up" => link[c] = "up",
         alink' = "up" => alink = "up",
         \A s \in Session : stream'[s].lost =>
            stream[s].lost \/ (alink' # "up" /\ said[s] # "unaware"),
         \/ downlink' = downlink
         \/ \E t \in Session :
              /\ downlink' = downlink \cup {Msg(t, "data")}
              /\ agent[t] \in {"open", "ended"} /\ sess[t].down = conn
         \/ \E t \in Session :
              /\ downlink' = downlink \cup {Msg(t, "close")}
              /\ Msg(t, "connect") \in downlink \/ said[t] # "unaware" \/ alink # "up"
  PROVE  WiresTypeOK' /\ WiresInv'
<1>1. WiresTypeOK'
  BY SentIsTyped DEF MessageType, WiresTypeOK
<1>2. \A s \in Session : /\ Msg(s, "connect") \in downlink' <=> Msg(s, "connect") \in downlink
                         /\ Msg(s, "data") \in downlink' =>
                               Msg(s, "data") \in downlink \/
                                  (agent[s] \in {"open", "ended"} /\ sess[s].down = conn)
                         /\ Msg(s, "close") \in downlink' =>
                               Msg(s, "close") \in downlink \/
                                  Msg(s, "connect") \in downlink \/ said[s] # "unaware" \/ alink # "up"
  <2>1. CASE downlink' = downlink
    BY <2>1
  <2>2. ASSUME NEW t \in Session, downlink' = downlink \cup {Msg(t, "data")},
               agent[t] \in {"open", "ended"} /\ sess[t].down = conn
        PROVE  <1>2
    BY <2>2 DEF Msg
  <2>3. ASSUME NEW t \in Session, downlink' = downlink \cup {Msg(t, "close")},
               Msg(t, "connect") \in downlink \/ said[t] # "unaware" \/ alink # "up"
        PROVE  <1>2
    BY <2>3 DEF Msg
  <2>4. QED  BY <2>1, <2>2, <2>3
<1>3. RequestIsOpen'
  BY <1>2 DEF WiresInv, RequestIsOpen
<1>4. AnswerIsFirst'
  BY DEF WiresInv, AnswerIsFirst, Http
<1>5. DialledIsAsked'
  <2> SUFFICES ASSUME NEW s \in Session, ~Http(s), Dialling(s)', sess'[s].down = conn',
                      link'[conn'] = "up", alink' = "up"
               PROVE  Msg(s, "connect") \in downlink' \/ said'[s] # "unaware"
    BY DEF DialledIsAsked, Http
  <2>1. sess[s].down \in Conn /\ sess'[s].down = sess[s].down
    BY RegistryAssumption, DiallingHasAgent DEF Steadies, SessionInv, SessionTypeOK, SessionObject
  <2>2. conn \in Conn /\ link[conn] = "up"
    BY <2>1 DEF WiresTypeOK
  <2>3. Dialling(s)
    BY <2>1, <2>2
  <2>4. QED  BY <1>2, <2>1, <2>2, <2>3 DEF WiresInv, DialledIsAsked
<1>6. AskedOverOne'
  <2> SUFFICES ASSUME NEW s \in Session
               PROVE  /\ agent'[s] \in {"open", "ended"} => said'[s] # "unaware"
                      /\ stream'[s].lost => said'[s] # "unaware" /\ (sess'[s].down # conn' \/ alink' # "up")
                      /\ Msg(s, "connect") \in downlink' => sess'[s].down = conn'
                      /\ Msg(s, "data") \in downlink' =>
                            sess'[s].down = conn' /\ agent'[s] \in {"open", "ended"}
    BY DEF AskedOverOne
  <2>1. CASE sess[s].at = "new"
    BY <1>2, <2>1, NewIsUnaware DEF WiresInv, AskedOverOne
  <2>2. CASE sess[s].at # "new"
    BY <1>2, <2>2 DEF WiresInv, AskedOverOne, Steadies
  <2>3. QED  BY <2>1, <2>2
<1>7. CloseIsExpected'
  BY <1>2 DEF WiresInv, CloseIsExpected
<1>8. QED  BY <1>1, <1>3, <1>4, <1>5, <1>6, <1>7 DEF WiresInv

\* The server asks for t.
LEMMA AskedWires ==
  ASSUME SessionInv, RequestIsOne, WiresTypeOK, WiresInv, Steadies,
         UNCHANGED <<conn, uplink, agentSide, link>>,
         NEW t \in Session, agent[t] = "unaware", agent' = [agent EXCEPT ![t] = "asked"],
         sess[t].at # "new", sess[t].down \in Conn,
         \A s \in Session \ {t} : sess[s].at = "dial" => sess'[s].at = "dial",
         IF sess[t].down = conn THEN downlink' = downlink \cup {Msg(t, "connect")}
                                ELSE downlink' = downlink
  PROVE  WiresTypeOK' /\ WiresInv'
<1>0. agent \in [Session -> Hearsay] /\ UNCHANGED <<alink, said, stream>>
  BY ServerFacts DEF agentSide
<1>1. WiresTypeOK'
  BY SentIsTyped DEF MessageType
<1>2. said[t] = "unaware" /\ agent'[t] = "asked" /\ sess'[t].down = sess[t].down
  BY <1>0 DEF WiresInv, RequestIsOpen, Steadies
<1>3. \A s \in Session : /\ s # t => (Msg(s, "connect") \in downlink' <=> Msg(s, "connect") \in downlink)
                         /\ Msg(s, "connect") \in downlink => Msg(s, "connect") \in downlink'
                         /\ Msg(s, "data") \in downlink' => Msg(s, "data") \in downlink
                         /\ Msg(s, "close") \in downlink' => Msg(s, "close") \in downlink
                         /\ s # t => agent'[s] = agent[s]
  BY <1>0 DEF Msg
<1>4. RequestIsOpen'
  <2> SUFFICES ASSUME NEW s \in Session
               PROVE  /\ Msg(s, "connect") \in downlink' => agent'[s] = "asked" /\ said'[s] = "unaware"
                      /\ said'[s] # "unaware" => agent'[s] # "unaware"
                      /\ said'[s] = "asked" =>
                            /\ agent'[s] = "asked"
                            /\ \A i \in 1..Len(uplink') : uplink'[i].session = s => uplink'[i].type = "data"
    BY DEF RequestIsOpen
  <2>1. CASE s = t
    BY <1>0, <1>2, <2>1
  <2>2. CASE s # t
    BY <1>0, <1>3, <2>2 DEF WiresInv, RequestIsOpen
  <2>3. QED  BY <2>1, <2>2
<1>5. AnswerIsFirst'
  BY <1>0, <1>2, <1>3, WireOfSessions DEF WiresInv, AnswerIsFirst, Http
<1>6. DialledIsAsked'
  <2> SUFFICES ASSUME NEW s \in Session, ~Http(s), Dialling(s)', sess'[s].down = conn',
                      link'[conn'] = "up", alink' = "up"
               PROVE  Msg(s, "connect") \in downlink' \/ said'[s] # "unaware"
    BY DEF DialledIsAsked, Http
  <2>1. CASE s = t
    BY <1>2, <2>1
  <2>2. CASE s # t
    <3>1. Dialling(s)
      BY <2>2 DEF Steadies
    <3>2. sess[s].down # None /\ sess'[s].down = sess[s].down
      BY <3>1, DiallingHasAgent DEF Steadies, SessionInv, SessionTypeOK
    <3>3. QED  BY <1>0, <1>3, <3>1, <3>2 DEF WiresInv, DialledIsAsked
  <2>3. QED  BY <2>1, <2>2
<1>7. AskedOverOne'
  <2> SUFFICES ASSUME NEW s \in Session
               PROVE  /\ agent'[s] \in {"open", "ended"} => said'[s] # "unaware"
                      /\ stream'[s].lost => said'[s] # "unaware" /\ (sess'[s].down # conn' \/ alink' # "up")
                      /\ Msg(s, "connect") \in downlink' => sess'[s].down = conn'
                      /\ Msg(s, "data") \in downlink' =>
                            sess'[s].down = conn' /\ agent'[s] \in {"open", "ended"}
    BY DEF AskedOverOne
  <2>1. CASE sess[s].at = "new"
    BY <1>0, <1>3, <2>1, NewIsUnaware DEF WiresInv, AskedOverOne
  <2>2. CASE s = t
    BY <1>0, <1>2, <1>3, <2>2 DEF WiresInv, AskedOverOne, Msg
  <2>3. CASE s # t /\ sess[s].at # "new"
    BY <1>0, <1>3, <2>3 DEF WiresInv, AskedOverOne, Steadies
  <2>4. QED  BY <2>1, <2>2, <2>3
<1>8. CloseIsExpected'
  BY <1>0, <1>3 DEF WiresInv, CloseIsExpected
<1>9. QED  BY <1>1, <1>4, <1>5, <1>6, <1>7, <1>8 DEF WiresInv

\* What the agent has been asked and has said has its type.
LEMMA AgentFacts ==
  ASSUME Client!AgentInv
  PROVE  /\ said \in [Session -> Hearsay]
         /\ \A s \in Session : said[s] = "unaware" <=> stream[s].proc = "none"
BY DEF Client!AgentInv, Client!AgentTypeOK, Client!ProcessorLeads, Client!Hearsay, Hearsay

\* The server reads the message it was sent first.
LEMMA ReadWires ==
  ASSUME SessionInv, WiresTypeOK, WiresInv, NEW c \in Conn, Reads(c)
  PROVE  WiresTypeOK' /\ WiresInv'
<1> DEFINE m == Head(uplink)
<1>1. /\ uplink # <<>> /\ uplink' = Tail(uplink)
      /\ UNCHANGED <<conn, alink, said, stream, link, sess, sessions, shub>>
      /\ MaySay(agent[m.session], Http(m.session), m.type)
      /\ agent' = [agent EXCEPT ![m.session] = Hears(@, Http(m.session), m.type)]
      /\ \/ downlink' = downlink
         \/ downlink' = downlink \cup {Msg(m.session, "close")}
  BY DEF Reads, ReaderReads, Sends, agentSide, rvars
<1>2. /\ m = uplink[1] /\ 1 \in 1..Len(uplink)
      /\ m.session \in Session /\ m.type \in MessageType
      /\ uplink' \in Seq([session : Session, type : MessageType])
      /\ Len(uplink') = Len(uplink) - 1
      /\ \A i \in 1..Len(uplink') : uplink'[i] = uplink[i + 1]
  BY <1>1, HeadOfWire
<1>3. Len(uplink) \in Nat /\ Len(uplink') \in Nat
  BY <1>2 DEF WiresTypeOK
<1>4. agent \in [Session -> Hearsay]
  BY ServerFacts
<1>5. WiresTypeOK'
  BY <1>1, <1>2, <1>3, EndToEndAssumption DEF WiresTypeOK, Msg, MessageType
<1>6. /\ said[m.session] # "unaware"
      /\ m.type = "connect" => agent[m.session] = "asked"
      /\ m.type # "connect" => ~Http(m.session)
  BY <1>2 DEF WiresInv, AnswerIsFirst
<1> HIDE DEF m
<1>7. /\ \A s \in Session \ {m.session} : agent'[s] = agent[s]
      /\ agent[m.session] # "unaware"
      /\ agent'[m.session] # "unaware"
      /\ m.type = "data" => agent'[m.session] = agent[m.session]
      /\ agent[m.session] \in {"open", "ended"} => agent'[m.session] \in {"open", "ended"}
  BY <1>1, <1>2, <1>4, <1>6 DEF MaySay, Hears, MessageType, Hearsay
<1>8. \A s \in Session : /\ Msg(s, "connect") \in downlink' <=> Msg(s, "connect") \in downlink
                         /\ Msg(s, "data") \in downlink' <=> Msg(s, "data") \in downlink
                         /\ Msg(s, "close") \in downlink' =>
                               Msg(s, "close") \in downlink \/ s = m.session
  BY <1>1 DEF Msg
<1>9. RequestIsOpen'
  <2> SUFFICES ASSUME NEW s \in Session
               PROVE  /\ Msg(s, "connect") \in downlink' => agent'[s] = "asked" /\ said'[s] = "unaware"
                      /\ said'[s] # "unaware" => agent'[s] # "unaware"
                      /\ said'[s] = "asked" =>
                            /\ agent'[s] = "asked"
                            /\ \A i \in 1..Len(uplink') : uplink'[i].session = s => uplink'[i].type = "data"
    BY DEF RequestIsOpen
  <2>1. said[s] = "asked" => \A i \in 1..Len(uplink') : uplink'[i].session = s => uplink'[i].type = "data"
    BY <1>2, <1>3 DEF WiresInv, RequestIsOpen
  <2>2. said[s] = "asked" /\ s = m.session => m.type = "data"
    BY <1>2 DEF WiresInv, RequestIsOpen
  <2>3. QED  BY <1>1, <1>6, <1>7, <1>8, <2>1, <2>2 DEF WiresInv, RequestIsOpen
<1>10. AnswerIsFirst'
  <2> SUFFICES ASSUME NEW i \in 1..Len(uplink')
               PROVE  LET n == uplink'[i] IN
                        /\ said'[n.session] # "unaware"
                        /\ n.type # "connect" => ~Http(n.session)
                        /\ n.type = "connect" =>
                              /\ agent'[n.session] = "asked"
                              /\ \A j \in 1..(i - 1) : uplink'[j].session = n.session => uplink'[j].type = "data"
    BY DEF AnswerIsFirst, Http
  <2> DEFINE n == uplink'[i]
  <2>1. i + 1 \in 1..Len(uplink) /\ n = uplink[i + 1]
    BY <1>2, <1>3
  <2>2. /\ said[n.session] # "unaware"
        /\ n.type # "connect" => ~Http(n.session)
        /\ n.type = "connect" =>
              /\ agent[n.session] = "asked"
              /\ \A j \in 1..i : uplink[j].session = n.session => uplink[j].type = "data"
    BY <2>1, <1>3 DEF WiresInv, AnswerIsFirst
  <2>3. n.session \in Session
    BY <2>1, WireOfSessions
  <2>4. n.type = "connect" => \A j \in 1..(i - 1) : uplink'[j].session = n.session => uplink'[j].type = "data"
    <3> SUFFICES ASSUME n.type = "connect", NEW j \in 1..(i - 1), uplink'[j].session = n.session
                 PROVE  uplink'[j].type = "data"
      OBVIOUS
    <3>1. j + 1 \in 1..i /\ j \in 1..Len(uplink')
      BY <1>3
    <3>2. QED  BY <1>2, <2>2, <3>1
  <2>5. n.type = "connect" => agent'[n.session] = "asked"
    <3>1. n.type = "connect" /\ n.session = m.session => m.type = "data"
      BY <1>2, <1>3, <2>1, <2>2
    <3> HIDE DEF n
    <3>2. QED  BY <1>7, <2>2, <2>3, <3>1
  <2>6. QED  BY <1>1, <2>2, <2>4, <2>5
<1>11. DialledIsAsked'
  BY <1>1, <1>8 DEF WiresInv, DialledIsAsked, Dialling, Http
<1>12. AskedOverOne'
  <2> SUFFICES ASSUME NEW s \in Session
               PROVE  /\ agent'[s] \in {"open", "ended"} => said'[s] # "unaware"
                      /\ stream'[s].lost => said'[s] # "unaware" /\ (sess'[s].down # conn' \/ alink' # "up")
                      /\ Msg(s, "connect") \in downlink' => sess'[s].down = conn'
                      /\ Msg(s, "data") \in downlink' =>
                            sess'[s].down = conn' /\ agent'[s] \in {"open", "ended"}
    BY DEF AskedOverOne
  <2>1. QED  BY <1>1, <1>6, <1>7, <1>8 DEF WiresInv, AskedOverOne
<1>13. CloseIsExpected'
  BY <1>1, <1>6, <1>8 DEF WiresInv, CloseIsExpected
<1>14. QED  BY <1>5, <1>9, <1>10, <1>11, <1>12, <1>13 DEF WiresInv

\* The agent serves a message.
LEMMA ServedWires ==
  ASSUME Client!AgentInv, SessionInv, WiresTypeOK, WiresInv, NEW t \in Session, Serves(t)
  PROVE  WiresTypeOK' /\ WiresInv'
<1>1. /\ UNCHANGED <<vars, conn, uplink, alink>>
      /\ downlink' \subseteq downlink
      /\ \A m \in downlink : m.session # t => m \in downlink'
      /\ \A s \in Session : stream'[s].lost = stream[s].lost
      /\ \/ /\ First(t, "connect") /\ said' = [said EXCEPT ![t] = "asked"]
         \/ /\ \A s \in Session : Msg(s, "connect") \in downlink => Msg(s, "connect") \in downlink'
            /\ said' = said
  BY DEF Serves, ServesClose, First, Msg, Client!ReadConnect, Client!ReadData, Client!ReadClose, Client!AgentInv,
     Client!AgentTypeOK, Client!Stream
<1>2. UNCHANGED <<agent, sess, sessions, shub, link>>
  BY <1>1 DEF vars, svars, rvars
<1>3. WiresTypeOK'
  BY <1>1 DEF WiresTypeOK
<1>4. said \in [Session -> Hearsay]
  BY AgentFacts
<1>5. CASE First(t, "connect") /\ said' = [said EXCEPT ![t] = "asked"]
  <2>1. /\ agent[t] = "asked" /\ said[t] = "unaware" /\ said'[t] = "asked"
        /\ \A s \in Session \ {t} : said'[s] = said[s]
        /\ Msg(t, "connect") \notin downlink'
    BY <1>4, <1>5 DEF First, WiresInv, RequestIsOpen
  <2>2. \A s \in Session : said[s] # "unaware" => said'[s] # "unaware"
    BY <2>1
  <2>3. RequestIsOpen'
    <3> SUFFICES ASSUME NEW s \in Session
                 PROVE  /\ Msg(s, "connect") \in downlink' => agent'[s] = "asked" /\ said'[s] = "unaware"
                        /\ said'[s] # "unaware" => agent'[s] # "unaware"
                        /\ said'[s] = "asked" =>
                              /\ agent'[s] = "asked"
                              /\ \A i \in 1..Len(uplink') : uplink'[i].session = s => uplink'[i].type = "data"
      BY DEF RequestIsOpen
    <3>1. CASE s = t
      <4>1. \A i \in 1..Len(uplink) : uplink[i].session # t
        BY <2>1 DEF WiresInv, AnswerIsFirst
      <4>2. QED  BY <1>1, <1>2, <2>1, <3>1, <4>1
    <3>2. CASE s # t
      BY <1>1, <1>2, <2>1, <3>2 DEF WiresInv, RequestIsOpen
    <3>3. QED  BY <3>1, <3>2
  <2>4. AnswerIsFirst'
    <3>1. \A i \in 1..Len(uplink) : uplink[i].session # t
      BY <2>1 DEF WiresInv, AnswerIsFirst
    <3>2. QED  BY <1>1, <1>2, <2>1, <3>1, WireOfSessions DEF WiresInv, AnswerIsFirst, Http
  <2>5. DialledIsAsked'
    <3> SUFFICES ASSUME NEW s \in Session, ~Http(s), Dialling(s)', sess'[s].down = conn',
                        link'[conn'] = "up", alink' = "up"
                 PROVE  Msg(s, "connect") \in downlink' \/ said'[s] # "unaware"
      BY DEF DialledIsAsked, Http
    <3>1. Msg(s, "connect") \in downlink \/ said[s] # "unaware"
      BY <1>1, <1>2 DEF Dialling, WiresInv, DialledIsAsked
    <3>2. s # t => (Msg(s, "connect") \in downlink => Msg(s, "connect") \in downlink')
      BY <1>1 DEF Msg
    <3>3. QED  BY <2>1, <2>2, <3>1, <3>2
  <2>6. AskedOverOne'
    BY <1>1, <1>2, <2>2 DEF WiresInv, AskedOverOne
  <2>7. CloseIsExpected'
    <3> SUFFICES ASSUME NEW s \in Session, Msg(s, "close") \in downlink'
                 PROVE  Msg(s, "connect") \in downlink' \/ said'[s] # "unaware" \/ alink' # "up"
      BY DEF CloseIsExpected
    <3>1. Msg(s, "connect") \in downlink \/ said[s] # "unaware" \/ alink # "up"
      BY <1>1 DEF WiresInv, CloseIsExpected
    <3>2. s # t => (Msg(s, "connect") \in downlink => Msg(s, "connect") \in downlink')
      BY <1>1 DEF Msg
    <3>3. QED  BY <1>1, <2>1, <2>2, <3>1, <3>2
  <2>8. QED  BY <1>3, <2>3, <2>4, <2>5, <2>6, <2>7 DEF WiresInv
<1>6. CASE /\ \A s \in Session : Msg(s, "connect") \in downlink => Msg(s, "connect") \in downlink'
           /\ said' = said
  <2>1. RequestIsOpen'
    BY <1>1, <1>2, <1>6 DEF WiresInv, RequestIsOpen
  <2>2. AnswerIsFirst'
    BY <1>1, <1>2, <1>6 DEF WiresInv, AnswerIsFirst, Http
  <2>3. DialledIsAsked'
    BY <1>1, <1>2, <1>6 DEF WiresInv, DialledIsAsked, Dialling, Http
  <2>4. AskedOverOne'
    BY <1>1, <1>2, <1>6 DEF WiresInv, AskedOverOne
  <2>5. CloseIsExpected'
    BY <1>1, <1>2, <1>6 DEF WiresInv, CloseIsExpected
  <2>6. QED  BY <1>3, <2>1, <2>2, <2>3, <2>4, <2>5 DEF WiresInv
<1>7. QED  BY <1>1, <1>5, <1>6

\* The agent writes a message.
LEMMA RepliedWires ==
  ASSUME Client!AgentInv, SessionInv, WiresTypeOK, WiresInv, Replies
  PROVE  WiresTypeOK' /\ WiresInv'
<1> DEFINE m == awriter.msg
<1>1. /\ UNCHANGED <<vars, conn, downlink, alink, stream>>
      /\ awriter.at = "write"
      /\ IF alink = "down" THEN said' = said /\ uplink' = uplink
         ELSE /\ Len(uplink) < Capacity
              /\ uplink' = Append(uplink, m)
              /\ said' = [said EXCEPT ![m.session] = Client!Hears(@, Client!Http(m.session), m.type)]
  BY DEF Replies, Client!WriterWrites
<1>2. UNCHANGED <<agent, sess, sessions, shub, link>>
  BY <1>1 DEF vars, svars, rvars
<1>3. said \in [Session -> Hearsay]
  BY AgentFacts
<1>4. m \in [session : Session, type : MessageType]
  BY <1>1 DEF Client!AgentInv, Client!AgentTypeOK, Client!Worker, Client!Message, Client!MessageType,
     MessageType
<1>5. /\ said[m.session] # "unaware"
      /\ m.type = "connect" => said[m.session] = "asked"
      /\ m.type # "connect" => ~Http(m.session)
  BY <1>1, <1>4 DEF Client!AgentInv, Client!SentInTurn, Client!ProcessorLeads, Client!Http, Http
<1>6. CASE alink = "down"
  <2>1. WiresTypeOK' /\ RequestIsOpen' /\ AnswerIsFirst'
    BY <1>1, <1>2, <1>6 DEF WiresTypeOK, WiresInv, RequestIsOpen, AnswerIsFirst, Http
  <2>2. DialledIsAsked' /\ AskedOverOne' /\ CloseIsExpected'
    BY <1>1, <1>2, <1>6 DEF WiresInv, DialledIsAsked, Dialling, Http, AskedOverOne, CloseIsExpected
  <2>3. QED  BY <2>1, <2>2 DEF WiresInv
<1>7. CASE alink # "down"
  <2> HIDE DEF m
  <2>1. Len(uplink) \in Nat /\ Capacity \in Nat
    BY EndToEndAssumption DEF WiresTypeOK
  <2>2. /\ uplink' \in Seq([session : Session, type : MessageType])
        /\ Len(uplink') = Len(uplink) + 1
        /\ uplink'[Len(uplink) + 1] = m
        /\ \A i \in 1..Len(uplink) : uplink'[i] = uplink[i]
    <3> DEFINE M == [session : Session, type : MessageType]
    <3>1. uplink \in Seq(M) /\ m \in M /\ uplink' = Append(uplink, m)
      BY <1>1, <1>4, <1>7 DEF WiresTypeOK
    <3> HIDE DEF M
    <3>2. /\ uplink' \in Seq(M)
          /\ Len(uplink') = Len(uplink) + 1
          /\ uplink'[Len(uplink) + 1] = m
          /\ \A i \in 1..Len(uplink) : uplink'[i] = uplink[i]
      BY <3>1
    <3>3. QED  BY <3>2 DEF M
  <2>3. WiresTypeOK'
    BY <1>1, <1>7, <2>1, <2>2 DEF WiresTypeOK
  <2>4. /\ \A s \in Session \ {m.session} : said'[s] = said[s]
        /\ said'[m.session] # "unaware"
        /\ said'[m.session] = "asked" => said[m.session] = "asked" /\ m.type = "data"
    BY <1>1, <1>3, <1>4, <1>5, <1>7 DEF Client!Hears, MessageType, Hearsay
  <2>5. RequestIsOpen'
    <3> SUFFICES ASSUME NEW s \in Session
                 PROVE  /\ Msg(s, "connect") \in downlink' => agent'[s] = "asked" /\ said'[s] = "unaware"
                        /\ said'[s] # "unaware" => agent'[s] # "unaware"
                        /\ said'[s] = "asked" =>
                              /\ agent'[s] = "asked"
                              /\ \A i \in 1..Len(uplink') : uplink'[i].session = s => uplink'[i].type = "data"
      BY DEF RequestIsOpen
    <3>1. /\ Msg(s, "connect") \in downlink => agent[s] = "asked" /\ said[s] = "unaware"
          /\ said[s] # "unaware" => agent[s] # "unaware"
          /\ said[s] = "asked" =>
                /\ agent[s] = "asked"
                /\ \A i \in 1..Len(uplink) : uplink[i].session = s => uplink[i].type = "data"
      BY DEF WiresInv, RequestIsOpen
    <3>2. ASSUME said'[s] = "asked", NEW i \in 1..Len(uplink'), uplink'[i].session = s
          PROVE  uplink'[i].type = "data"
      <4>1. said[s] = "asked" /\ (s = m.session => m.type = "data")
        BY <2>4, <3>2
      <4>2. i \in 1..Len(uplink) \/ i = Len(uplink) + 1
        BY <2>1, <2>2
      <4>3. QED  BY <2>2, <3>1, <3>2, <4>1, <4>2
    <3>3. QED  BY <1>1, <1>2, <1>5, <2>4, <3>1, <3>2
  <2>6. AnswerIsFirst'
    <3> SUFFICES ASSUME NEW i \in 1..Len(uplink')
                 PROVE  LET n == uplink'[i] IN
                          /\ said'[n.session] # "unaware"
                          /\ n.type # "connect" => ~Http(n.session)
                          /\ n.type = "connect" =>
                                /\ agent'[n.session] = "asked"
                                /\ \A j \in 1..(i - 1) : uplink'[j].session = n.session => uplink'[j].type = "data"
      BY DEF AnswerIsFirst, Http
    <3>1. CASE i = Len(uplink) + 1
      <4>1. \A j \in 1..(i - 1) : uplink'[j] = uplink[j] /\ j \in 1..Len(uplink)
        BY <2>1, <2>2, <3>1
      <4>2. said[m.session] = "asked" =>
               /\ agent[m.session] = "asked"
               /\ \A j \in 1..Len(uplink) : uplink[j].session = m.session => uplink[j].type = "data"
        BY <1>4 DEF WiresInv, RequestIsOpen
      <4>3. QED  BY <1>2, <1>5, <2>2, <2>4, <3>1, <4>1, <4>2
    <3>2. CASE i \in 1..Len(uplink)
      <4>1. LET n == uplink[i] IN
              /\ said[n.session] # "unaware"
              /\ n.type # "connect" => ~Http(n.session)
              /\ n.type = "connect" =>
                    /\ agent[n.session] = "asked"
                    /\ \A j \in 1..(i - 1) : uplink[j].session = n.session => uplink[j].type = "data"
        BY <3>2 DEF WiresInv, AnswerIsFirst
      <4>2. \A j \in 1..(i - 1) : uplink'[j] = uplink[j]
        BY <2>1, <2>2, <3>2
      <4>3. uplink[i].session \in Session
        BY <3>2, WireOfSessions
      <4>4. said[uplink[i].session] # "unaware" => said'[uplink[i].session] # "unaware"
        BY <2>4, <4>3
      <4>5. QED  BY <1>2, <2>2, <3>2, <4>1, <4>2, <4>4
    <3>3. QED  BY <2>1, <2>2, <3>1, <3>2
  <2>7. \A s \in Session : said[s] # "unaware" => said'[s] # "unaware"
    BY <2>4
  <2>8. DialledIsAsked' /\ AskedOverOne' /\ CloseIsExpected'
    BY <1>1, <1>2, <2>7 DEF WiresInv, DialledIsAsked, Dialling, Http, AskedOverOne, CloseIsExpected
  <2>9. QED  BY <2>3, <2>5, <2>6, <2>8 DEF WiresInv
<1>8. QED  BY <1>6, <1>7

\* The agent is connected again: what was on its way is lost, and no session
\* has to do with the new connection.
LEMMA ConnectedWires ==
  ASSUME RegistryInv, Client!AgentInv, ConnectionIsOne, WiresInv, NEW c \in Conn, Connect(c)
  PROVE  WiresTypeOK' /\ WiresInv'
<1>1. /\ Upgrade(c) /\ ConnStep(c) /\ UNCHANGED svars
      /\ conn' = c /\ downlink' = {} /\ uplink' = <<>>
      /\ UNCHANGED said
      /\ stream' = [s \in Session |-> Client!Abandoned(stream[s])]
  BY DEF Connect, ConnStep, Client!Redial
<1>2. UNCHANGED <<sess, sessions, shub, agent>>
  BY <1>1 DEF svars
<1>3. handler[c] = "free"
  <2>1. handler \in [Conn -> Handler] /\ reader \in [Conn -> Pump] /\ writer \in [Conn -> Pump]
    BY DEF RegistryInv, RegistryTypeOK
  <2>2. /\ handler'[c] = "upgraded" /\ reader'[c] = "off" /\ writer'[c] = "off"
        /\ handler[c] \in {"free", "gone"}
    BY <1>1, <2>1 DEF Upgrade, Released
  <2>3. QED
    BY <1>1, <2>1, <2>2 DEF ConnStep, Refuse, CheckOffline, PingEnds, LinkBreaks, ReaderExits, WriterExits,
       HubTakesRegister, HubTakesUnregister
<1>4. \A s \in Session : sess[s].down # c /\ (stream'[s].lost => stream[s].lost)
  <2>1. \A s \in Session : sess[s].down # c
    BY <1>3, RegistryAssumption DEF ConnectionIsOne
  <2>2. \A s \in Session : stream'[s].lost => stream[s].lost
    BY <1>1 DEF Client!Abandoned, Client!AgentInv, Client!AgentTypeOK, Client!Stream
  <2>3. QED  BY <2>1, <2>2
<1>5. WiresTypeOK'
  <2>1. uplink' \in Seq([session : Session, type : MessageType]) /\ Len(uplink') = 0
    BY <1>1
  <2>2. QED  BY <1>1, <2>1, EndToEndAssumption DEF WiresTypeOK
<1>6. RequestIsOpen' /\ AnswerIsFirst'
  <2>1. 1..Len(uplink') = {}
    BY <1>1
  <2>2. QED  BY <1>1, <1>2, <2>1 DEF WiresInv, RequestIsOpen, AnswerIsFirst
<1>7. DialledIsAsked' /\ AskedOverOne' /\ CloseIsExpected'
  BY <1>1, <1>2, <1>4 DEF WiresInv, DialledIsAsked, AskedOverOne, CloseIsExpected
<1>8. QED  BY <1>5, <1>6, <1>7 DEF WiresInv

\* A step of one session's goroutines leaves the other sessions alone.
LEMMA OthersStay ==
  ASSUME SessionInv, NEW t \in Session, SessionStep(t)
  PROVE  \A s \in Session \ {t} : sess'[s] = sess[s]
<1>1. sess \in [Session -> SessionObject]
  BY ServerFacts
<1>2. CASE Lookup(t) \/ Login(t) \/ Dial(t) \/ Encode(t) \/ RequestPanics(t) \/ AwaitTimesOut(t)
  BY <1>1, <1>2 DEF Lookup, Login, Dial, Encode, RequestPanics, AwaitTimesOut
<1>3. CASE Depart(t) \/ PumpEnds(t) \/ UserLeaves(t)
  BY <1>1, <1>3 DEF Depart, PumpEnds, Leave, UserLeaves
<1>4. CASE UpReaderStops(t) \/ UpReaderReads(t) \/ UpReaderPanics(t)
  BY <1>1, <1>4 DEF UpReaderStops, UpReaderReads, UpReaderPanics
<1>5. CASE UpReaderFails(t)
  BY <1>1, <1>5, FieldsKept
<1>6. CASE HubTakesEnrol(t) \/ HubTakesUnenrol(t)
  BY <1>1, <1>6 DEF HubTakesEnrol, HubTakesUnenrol
<1>7. QED  BY <1>2, <1>3, <1>4, <1>5, <1>6 DEF SessionStep

\* What the server does without a message to or from the agent.
LEMMA AloneSteady ==
  ASSUME RegistryInv, SessionInv, Steadies, ServerAlone
  PROVE  /\ UNCHANGED <<agent, link>>
         /\ \A s \in Session : ~Http(s) /\ Dialling(s)' => Dialling(s)
<1>0. sess \in [Session -> SessionObject] /\ agent \in [Session -> Hearsay]
  BY ServerFacts
<1>1. SUFFICES /\ UNCHANGED <<agent, link>>
               /\ \A s \in Session : sess[s].at = "dial" => sess'[s].at = "dial"
  BY DEF Steadies
<1>2. ASSUME NEW c \in Conn, ConnStep(c), link' = link
      PROVE  UNCHANGED <<agent, link, sess>>
  BY <1>2 DEF ConnStep, svars
<1>3. ASSUME HubStep \/ \E i \in Id : ManualDisconnect(i), UNCHANGED svars
      PROVE  UNCHANGED <<agent, link, sess>>
  BY <1>3 DEF HubStep, HubStores, HubCloses, HubDeletes, ManualDisconnect, svars
<1>4. ASSUME HubStoresSession \/ HubAnnounces
      PROVE  UNCHANGED <<agent, link, sess>>
  BY <1>4 DEF HubStoresSession, HubAnnounces, rvars
<1>5. ASSUME NEW t \in Session, SessionStep(t), ~Dialled(t)
      PROVE  /\ UNCHANGED <<agent, link>>
             /\ \A s \in Session : sess[s].at = "dial" => sess'[s].at = "dial"
  <2>1. ~Dial(t)
    BY <1>0, <1>5 DEF Dialled, Dial, SessionObject
  <2>2. UNCHANGED <<agent, link>>
    BY <1>5, <2>1 DEF SessionStep, Lookup, Login, Encode, RequestPanics, AwaitTimesOut, Depart,
       PumpEnds, UserLeaves, UpReaderStops, UpReaderFails, UpReaderReads, UpReaderPanics,
       HubTakesEnrol, HubTakesUnenrol, rvars
  <2>3. QED  BY <1>5, <2>2, OthersStay DEF Dialled
<1>6. ASSUME NEW t \in Session, NEW c \in Conn, SessionReceives(c, t)
      PROVE  /\ UNCHANGED <<agent, link>>
             /\ \A s \in Session : sess[s].at = "dial" => sess'[s].at = "dial"
  <2>1. UNCHANGED <<agent, link>> /\ sess[t].at # "dial"
    BY <1>6 DEF SessionReceives, Receives, rvars
  <2>2. \A s \in Session \ {t} : sess'[s] = sess[s]
    BY <1>0, <1>6, ServerFacts DEF SessionReceives, Leave, MessageType
  <2>3. QED  BY <2>1, <2>2
<1>7. ASSUME NEW t \in Session, NEW c \in Conn, WriterReceives(c, t)
      PROVE  /\ UNCHANGED <<agent, link>>
             /\ \A s \in Session : sess[s].at = "dial" => sess'[s].at = "dial"
  BY <1>0, <1>7 DEF WriterReceives, rvars, SessionObject
<1>8. ASSUME NEW c \in Conn, ReaderPanics(c) \/ HubTakesFailed(c)
      PROVE  UNCHANGED <<agent, link, sess>>
  BY <1>8 DEF ReaderPanics, HubTakesFailed, WriterExits, rvars
<1>9. ASSUME NEW c \in Conn, WriterFails(c)
      PROVE  /\ UNCHANGED <<agent, link>>
             /\ \A s \in Session : sess'[s].at = sess[s].at
  <2>1. UNCHANGED <<agent, link>>
    BY <1>9 DEF WriterFails, WriterExits, rvars
  <2>2. QED  BY <1>9, <2>1, WriterFailsOnly
<1>10. QED
  BY <1>2, <1>3, <1>4, <1>5, <1>6, <1>7, <1>8, <1>9 DEF ServerAlone

\* What the agent does on its own.
LEMMA AgentSteady ==
  ASSUME Client!AgentInv, AgentAlone \/ AgentLoses
  PROVE  /\ UNCHANGED <<vars, wires, said>>
         /\ alink' = "up" => alink = "up"
         /\ \A s \in Session : stream'[s].lost =>
               stream[s].lost \/ (alink' # "up" /\ said[s] # "unaware")
<1>0. stream \in [Session -> Client!Stream]
  BY DEF Client!AgentInv, Client!AgentTypeOK
<1>1. CASE AgentLoses
  BY <1>1 DEF AgentLoses, Client!LinkBreaks
<1>2. CASE AgentAlone
  <2>1. UNCHANGED <<vars, wires>>
    BY <1>2 DEF AgentAlone
  <2>2. CASE Client!RunCancels
    BY <1>0, <2>1, <2>2, AgentFacts DEF Client!RunCancels, Client!Stream
  <2>3. CASE Client!WriterStops \/ Client!HubSends \/ Client!HubExits
    BY <2>1, <2>3 DEF Client!WriterStops, Client!HubSends, Client!HubExits
  <2>4. ASSUME NEW t \in Session, Client!Process(t) \/ Client!Serve(t) \/ Client!DownEnds(t) \/ Client!Pump(t)
        PROVE  UNCHANGED <<alink, said>> /\ \A s \in Session : stream'[s].lost = stream[s].lost
    <3>1. CASE Client!Process(t)
      <4>1. CASE Client!HttpAnswers(t) \/ Client!HttpSends(t) \/ Client!DialFails(t)
        BY <1>0, <4>1 DEF Client!HttpAnswers, Client!HttpSends, Client!DialFails, Client!Stream
      <4>2. CASE Client!DialSucceeds(t)
        BY <1>0, <4>2 DEF Client!DialSucceeds, Client!Stream
      <4>3. CASE Client!Ends(t)
        BY <1>0, <4>3 DEF Client!Ends, Client!Stream
      <4>4. CASE Client!HubTakesEnrol(t)
        BY <1>0, <4>4 DEF Client!HubTakesEnrol, Client!Stream
      <4>5. CASE Client!HubTakesUnenrol(t)
        BY <1>0, <4>5 DEF Client!HubTakesUnenrol, Client!Stream
      <4>6. QED  BY <3>1, <4>1, <4>2, <4>3, <4>4, <4>5 DEF Client!Process
    <3>2. CASE Client!FeederLoads(t) \/ Client!FeederNotices(t) \/ Client!CloserCloses(t)
               \/ Client!DownEnds(t)
      <4>1. CASE Client!FeederLoads(t)
        BY <1>0, <4>1 DEF Client!FeederLoads, Client!Stream
      <4>2. CASE Client!FeederNotices(t)
        BY <1>0, <4>2 DEF Client!FeederNotices, Client!Stream
      <4>3. CASE Client!CloserCloses(t)
        BY <1>0, <4>3 DEF Client!CloserCloses, Client!Stream
      <4>4. CASE Client!DownEnds(t)
        BY <1>0, <4>4 DEF Client!DownEnds, Client!Stream
      <4>5. QED  BY <3>2, <4>1, <4>2, <4>3, <4>4
    <3>3. CASE Client!FeederWrites(t) \/ Client!CloserLoads(t)
      <4>1. CASE Client!FeederWrites(t)
        BY <1>0, <4>1 DEF Client!FeederWrites, Client!Stream
      <4>2. CASE Client!CloserLoads(t) /\ t \in asessions
        BY <1>0, <4>2 DEF Client!CloserLoads, Client!Stream
      <4>3. CASE Client!CloserLoads(t) /\ t \notin asessions
        BY <1>0, <4>3 DEF Client!CloserLoads, Client!Stream
      <4>4. QED  BY <3>3, <4>1, <4>2, <4>3
    <3>4. CASE Client!InputLoops(t) \/ Client!InputFails(t) \/ Client!InputReceives(t)
      BY <1>0, <3>4 DEF Client!InputLoops, Client!InputFails, Client!InputReceives, Client!Stream
    <3>5. CASE Client!OutputLoops(t) \/ Client!OutputReads(t) \/ Client!OutputFails(t)
      <4>1. CASE Client!OutputLoops(t)
        BY <1>0, <4>1 DEF Client!OutputLoops, Client!Stream
      <4>2. CASE Client!OutputReads(t)
        BY <1>0, <4>2 DEF Client!OutputReads, Client!Stream
      <4>3. CASE Client!OutputFails(t)
        BY <1>0, <4>3 DEF Client!OutputFails, Client!Stream
      <4>4. QED  BY <3>5, <4>1, <4>2, <4>3
    <3>6. CASE Client!OutputRelays(t) \/ Client!RelaySends(t)
      BY <1>0, <3>6 DEF Client!OutputRelays, Client!RelaySends, Client!Stream
    <3>7. QED
      BY <2>4, <3>1, <3>2, <3>3, <3>4, <3>5, <3>6 DEF Client!Serve, Client!Pump
  <2>5. QED  BY <1>2, <2>1, <2>2, <2>3, <2>4 DEF AgentAlone
<1>3. QED  BY <1>1, <1>2

\* A step of which the agent hears: the server dials,
LEMMA DialledWires ==
  ASSUME RegistryInv, SessionInv, RequestIsOne, WiresTypeOK, WiresInv, Steadies,
         NEW t \in Session, Dials(t)
  PROVE  WiresTypeOK' /\ WiresInv'
<1>0. sess \in [Session -> SessionObject] /\ link \in [Conn -> {"up", "down"}]
  BY ServerFacts DEF RegistryInv, RegistryTypeOK
<1>1. /\ Dial(t) /\ sess[t].at = "dial"
      /\ UNCHANGED <<agentSide, conn, uplink, link, sessions, shub>>
  BY DEF Dials, Dial, rvars
<1>2. ~Http(t) /\ agent[t] = "unaware"
  BY <1>1 DEF RequestIsOne, SessionInv, UndialledIsUnaware
<1>3. sess[t].down \in Conn
  BY <1>0, <1>1 DEF SessionInv, SessionTypeOK, SessionObject
<1>4. \A s \in Session \ {t} : sess'[s] = sess[s]
  BY <1>1, OthersStay DEF SessionStep
<1>5. UNCHANGED <<alink, said, stream>>
  BY <1>1 DEF agentSide
<1>6. CASE sess' = [sess EXCEPT ![t].at = "leave"] /\ agent' = agent
  <2>1. sess'[t].at = "leave"
    BY <1>0, <1>6 DEF SessionObject
  <2>2. downlink' = downlink
    BY <2>1 DEF Dials
  <2>3. \A s \in Session : ~Http(s) /\ Dialling(s)' => Dialling(s)
    BY <1>1, <1>4, <2>1 DEF Dialling
  <2>4. QED  BY <1>1, <1>5, <1>6, <2>2, <2>3, SteadyWires
<1>7. CASE sess' = [sess EXCEPT ![t].at = "enrol"] /\ link[sess[t].down] = "up"
           /\ agent' = [agent EXCEPT ![t] = "asked"]
  <2>1. sess'[t].at = "enrol"
    BY <1>0, <1>7 DEF SessionObject
  <2>2. IF sess[t].down = conn THEN downlink' = downlink \cup {Msg(t, "connect")}
                               ELSE downlink' = downlink
    BY <1>7, <2>1 DEF Dials, Sends
  <2>3. QED  BY <1>1, <1>2, <1>3, <1>4, <1>7, <2>2, AskedWires
<1>8. CASE sess' = [sess EXCEPT ![t].at = "enrol"] /\ link[sess[t].down] # "up" /\ agent' = agent
  <2>1. sess'[t].at = "enrol"
    BY <1>0, <1>8 DEF SessionObject
  <2>2. downlink' = downlink
    BY <1>8, <2>1 DEF Dials, Sends
  <2>3. \A s \in Session : ~Http(s) /\ Dialling(s)' =>
            Dialling(s) \/ (sess[s].down \in Conn /\ link[sess[s].down] # "up")
    BY <1>1, <1>3, <1>4, <1>8 DEF Dialling
  <2>4. QED  BY <1>1, <1>5, <1>8, <2>2, <2>3, SteadyWires
<1>9. QED  BY <1>1, <1>6, <1>7, <1>8 DEF Dial

\* forwards a request or data,
LEMMA ForwardedWires ==
  ASSUME RegistryInv, SessionInv, RequestIsOne, ConnectionIsOne, WiresTypeOK, WiresInv, Steadies,
         NEW c \in Conn, Forwards(c)
  PROVE  WiresTypeOK' /\ WiresInv'
<1> DEFINE t == toAgent[c].session
<1>1. /\ toAgent[c] # None
      /\ UNCHANGED <<agentSide, conn, uplink, link, sess, sessions, shub>>
      /\ agent' = IF Http(t) /\ link[c] = "up" THEN [agent EXCEPT ![t] = "asked"] ELSE agent
      /\ downlink' = IF c = conn /\ link[c] = "up"
                     THEN downlink \cup {Msg(t, IF Http(t) THEN "connect" ELSE "data")} ELSE downlink
  BY DEF Forwards, WriterWrites, Sends, rvars
<1>2. t \in Session /\ sess[t].down = c
  BY <1>1, ServerFacts DEF ConnectionIsOne
<1>3. UNCHANGED <<alink, said, stream>>
  BY <1>1 DEF agentSide
<1>4. \A s \in Session : ~Http(s) /\ Dialling(s)' => Dialling(s)
  BY <1>1 DEF Dialling
<1> HIDE DEF t
<1>5. CASE Http(t) /\ link[c] = "up"
  <2>1. agent[t] = "unaware"
    BY <1>1, <1>2, <1>5 DEF RequestIsOne, t
  <2>2. sess[t].at # "new"
    BY <1>2, RegistryAssumption DEF SessionInv, SessionTypeOK
  <2>3. QED  BY <1>1, <1>2, <1>5, <2>1, <2>2, AskedWires
<1>6. CASE ~Http(t)
  <2>1. agent[t] \in {"open", "ended"}
    BY <1>1, <1>2, <1>6 DEF SessionInv, ForwardedIsAnswered, t
  <2>2. QED  BY <1>1, <1>2, <1>3, <1>4, <1>6, <2>1, SteadyWires
<1>7. CASE link[c] # "up"
  BY <1>1, <1>3, <1>4, <1>7, SteadyWires
<1>8. QED  BY <1>5, <1>6, <1>7

\* or tells it that a user left.
LEMMA ClosedWires ==
  ASSUME RegistryInv, SessionInv, RequestIsOne, ConnectionIsOne, WiresTypeOK, WiresInv, Steadies, Closes
  PROVE  WiresTypeOK' /\ WiresInv'
<1> DEFINE t == shub.session
<1>1. /\ shub.op = "close"
      /\ UNCHANGED <<agentSide, conn, uplink, link, agent, sessions>>
      /\ shub' = Idle
      /\ sess' = [sess EXCEPT ![t].closed = TRUE]
      /\ \/ downlink' = downlink
         \/ /\ downlink' = downlink \cup {Msg(t, "close")}
            /\ sess[t].down = conn /\ link[conn] = "up"
  BY DEF Closes, HubClosesSession, Sends, rvars
<1>2. t \in Session /\ ~Http(t)
  BY <1>1 DEF SessionInv, SessionTypeOK, ConnectionIsOne
<1>3. UNCHANGED <<alink, said, stream>>
  BY <1>1 DEF agentSide
<1>4. \A s \in Session : sess'[s].at = sess[s].at
  BY <1>1, <1>2, ServerFacts DEF SessionObject
<1>5. \A s \in Session : ~Http(s) /\ Dialling(s)' => Dialling(s)
  BY <1>1, <1>4, SessionAssumption DEF Dialling, Idle, Shub
<1>6. sess[t].down = conn /\ link[conn] = "up" =>
         Msg(t, "connect") \in downlink \/ said[t] # "unaware" \/ alink # "up"
  BY <1>2 DEF WiresInv, DialledIsAsked, Dialling
<1>7. QED
  <2> HIDE DEF t
  <2>1. QED  BY <1>1, <1>2, <1>3, <1>5, <1>6, SteadyWires

\* Every step keeps the wires.
LEMMA StepWires ==
  ASSUME RegistryInv, SessionInv, Client!AgentInv, RequestIsOne, ConnectionIsOne,
         WiresTypeOK, WiresInv, Steadies, [JointNext]_jvars
  PROVE  WiresTypeOK' /\ WiresInv'
<1>1. CASE UNCHANGED jvars
  <2>1. /\ UNCHANGED <<conn, downlink, uplink, agent, said, alink, stream, link, sess, sessions, shub>>
        /\ \A s \in Session : Dialling(s)' => Dialling(s)
    BY <1>1 DEF jvars, vars, svars, rvars, wires, agentSide, Dialling
  <2>2. QED  BY <2>1, SteadyWires
<1>2. CASE ServerAlone
  <2>1. UNCHANGED <<conn, downlink, uplink, alink, said, stream>>
    BY <1>2 DEF ServerAlone, wires, agentSide
  <2>2. QED  BY <1>2, <2>1, AloneSteady, SteadyWires
<1>3. CASE AgentAlone \/ AgentLoses
  <2>1. /\ UNCHANGED <<conn, downlink, uplink, agent, said, link, sess, sessions, shub>>
        /\ alink' = "up" => alink = "up"
        /\ \A s \in Session : stream'[s].lost =>
               stream[s].lost \/ (alink' # "up" /\ said[s] # "unaware")
    BY <1>3, AgentSteady DEF vars, svars, rvars, wires
  <2>2. \A s \in Session : Dialling(s)' => Dialling(s)
    BY <2>1 DEF Dialling
  <2>3. QED  BY <2>1, <2>2, SteadyWires
<1>4. ASSUME NEW c \in Conn, ServerLoses(c) PROVE WiresTypeOK' /\ WiresInv'
  <2>1. /\ UNCHANGED <<conn, downlink, uplink, alink, said, stream>>
        /\ UNCHANGED <<agent, sess, sessions, shub>>
        /\ link' = [link EXCEPT ![c] = "down"]
    BY <1>4 DEF ServerLoses, ConnStep, LinkBreaks, wires, agentSide, svars
  <2>2. \A d \in Conn : link'[d] = "up" => link[d] = "up"
    BY <2>1 DEF RegistryInv, RegistryTypeOK
  <2>3. \A s \in Session : Dialling(s)' => Dialling(s)
    BY <2>1 DEF Dialling
  <2>4. QED  BY <2>1, <2>2, <2>3, SteadyWires
<1>5. ASSUME NEW c \in Conn, Connect(c) PROVE WiresTypeOK' /\ WiresInv'
  BY <1>5, ConnectedWires
<1>6. ASSUME NEW c \in Conn, Forwards(c) PROVE WiresTypeOK' /\ WiresInv'
  BY <1>6, ForwardedWires
<1>7. ASSUME NEW c \in Conn, Reads(c) PROVE WiresTypeOK' /\ WiresInv'
  BY <1>7, ReadWires
<1>8. ASSUME NEW s \in Session, Dials(s) PROVE WiresTypeOK' /\ WiresInv'
  BY <1>8, DialledWires
<1>9. ASSUME NEW s \in Session, Serves(s) PROVE WiresTypeOK' /\ WiresInv'
  BY <1>9, ServedWires
<1>10. CASE Closes
  BY <1>10, ClosedWires
<1>11. CASE Replies
  BY <1>11, RepliedWires
<1>12. QED
  BY <1>1, <1>2, <1>3, <1>4, <1>5, <1>6, <1>7, <1>8, <1>9, <1>10, <1>11 DEF JointNext

-----------------------------------------------------------------------------
(* The theorems.                                                           *)

\* What the agent assumes follows from what is on the wires,
LEMMA AskedFollows ==
  Client!AgentInv /\ WiresTypeOK /\ WiresInv => AskedIsExpected
<1> SUFFICES ASSUME Client!AgentInv, WiresTypeOK, WiresInv, NEW m \in downlink
             PROVE  CASE m.type = "connect" -> stream[m.session].proc = "none"
                      [] m.type = "data"    -> said[m.session] \in {"open", "ended"} /\
                                               (alink = "up" => ~stream[m.session].lost)
                      [] m.type = "close"   -> Msg(m.session, "connect") \in downlink
                                                   \/ said[m.session] # "unaware" \/ alink # "up"
  BY DEF AskedIsExpected
<1>1. m.session \in Session /\ m.type \in {"connect", "data", "close"} /\ m = Msg(m.session, m.type)
  BY DEF WiresTypeOK, MessageType, Msg
<1>2. CASE m.type = "connect"
  BY <1>1, <1>2, AgentFacts DEF WiresInv, RequestIsOpen
<1>3. CASE m.type = "data"
  <2>1. agent[m.session] \in {"open", "ended"} /\ sess[m.session].down = conn
    BY <1>1, <1>3 DEF WiresInv, AskedOverOne
  <2>2. said[m.session] \notin {"unaware", "asked"}
    BY <1>1, <2>1 DEF WiresInv, AskedOverOne, RequestIsOpen
  <2>3. alink = "up" => ~stream[m.session].lost
    BY <1>1, <2>1 DEF WiresInv, AskedOverOne
  <2>4. QED  BY <1>1, <1>3, <2>2, <2>3, AgentFacts DEF Hearsay
<1>4. CASE m.type = "close"
  BY <1>1, <1>4 DEF WiresInv, CloseIsExpected
<1>5. QED  BY <1>1, <1>2, <1>3, <1>4

\* and so does what the server assumes.
LEMMA SpokenFollows ==
  WiresTypeOK /\ WiresInv => SpokenIsExpected
<1> SUFFICES ASSUME WiresTypeOK, WiresInv, uplink # <<>>
             PROVE  LET m == Head(uplink) IN MaySay(agent[m.session], Http(m.session), m.type)
  BY DEF SpokenIsExpected
<1> DEFINE m == Head(uplink)
<1>1. m = uplink[1] /\ 1 \in 1..Len(uplink) /\ m.session \in Session /\ m.type \in MessageType
  BY HeadOfWire
<1>2. /\ said[m.session] # "unaware"
      /\ m.type # "connect" => ~Http(m.session)
      /\ m.type = "connect" => agent[m.session] = "asked"
  BY <1>1 DEF WiresInv, AnswerIsFirst
<1> HIDE DEF m
<1>3. agent[m.session] # "unaware"
  BY <1>1, <1>2 DEF WiresInv, RequestIsOpen
<1>4. QED  BY <1>1, <1>2, <1>3 DEF MaySay, MessageType, m

\* What holds of the composition, as the steps above use it.
JointInv ==
    /\ RegistryInv /\ SessionInv /\ Client!AgentInv
    /\ RequestIsOne /\ ConnectionIsOne /\ WiresTypeOK /\ WiresInv

\* Nothing was asked or dialled.
LEMMA JointStarts == JointInit => JointInv
<1> SUFFICES ASSUME JointInit PROVE JointInv
  OBVIOUS
<1>1. RegistryInv /\ SessionInv /\ Client!AgentInv
  BY InitInv, InitSession, AgentStarts DEF JointInit, Init
<1>2. RequestIsOne /\ ConnectionIsOne
  BY RegistryAssumption, <1>1 DEF JointInit, Init, RequestIsOne, ConnectionIsOne, Idle, Shub
<1>3. WiresTypeOK
  <2>1. uplink \in Seq([session : Session, type : MessageType]) /\ Len(uplink) = 0
    BY DEF JointInit
  <2>2. QED  BY <2>1, EndToEndAssumption DEF JointInit, WiresTypeOK
<1>4. RequestIsOpen /\ AnswerIsFirst
  <2>1. 1..Len(uplink) = {}
    BY DEF JointInit
  <2>2. QED  BY <2>1 DEF JointInit, Client!AgentInit, RequestIsOpen, AnswerIsFirst
<1>5. DialledIsAsked /\ AskedOverOne /\ CloseIsExpected
  BY SessionAssumption DEF JointInit, Init, Client!AgentInit, DialledIsAsked, Dialling, AskedOverOne,
     CloseIsExpected, Idle, Shub
<1>6. QED  BY <1>1, <1>2, <1>3, <1>4, <1>5 DEF JointInv, WiresInv

\* Each part keeps its invariant, and the joint steps keep the rest.
LEMMA JointKeeps == JointInv /\ [JointNext]_jvars => JointInv'
<1> SUFFICES ASSUME JointInv, [JointNext]_jvars PROVE JointInv'
  OBVIOUS
<1> USE DEF JointInv
<1>1. [Next]_vars
  BY ServerMoves
<1>2. RegistryInv'
  BY <1>1, StepsOfRegistry, StepInv
<1>3. RegistryTypeOK
  BY DEF RegistryInv
<1>4. SessionInv' /\ RequestIsOne'
  BY <1>1, <1>3, StepSession, RequestStaysOne
<1>5. Client!AgentInv'
  BY AgentMoves, AgentKeeps
<1>6. ConnectionIsOne' /\ Steadies
  BY <1>1, ConnectionStaysOne
<1>7. WiresTypeOK' /\ WiresInv'
  BY <1>6, StepWires
<1>8. QED  BY <1>2, <1>4, <1>5, <1>6, <1>7

\* Server and agent, joined, keep what makes each rely on the other.
THEOREM EndToEndInvariant == JointSpec => []EndToEndInv
<1>1. JointInv => EndToEndInv
  BY AskedFollows DEF JointInv, EndToEndInv, WiresInv
<1>2. QED  BY <1>1, JointStarts, JointKeeps, PTL DEF JointSpec

\* What ServerSession assumes of agents, Agent does.
THEOREM SpokenAreExpected == JointSpec => []SpokenIsExpected
<1>1. JointInv => SpokenIsExpected
  BY SpokenFollows DEF JointInv
<1>2. QED  BY <1>1, JointStarts, JointKeeps, PTL DEF JointSpec

\* What Agent assumes of the server, ServerSession does.
THEOREM AskedAreExpected == JointSpec => []AskedIsExpected
<1>1. EndToEndInv => AskedIsExpected
  BY DEF EndToEndInv
<1>2. QED  BY <1>1, EndToEndInvariant, PTL

-----------------------------------------------------------------------------
(* The composition implements its parts.                                   *)

\* What the server does in the composition is what ServerSession says, the
\* agent's messages included, and what the agent does is what Agent says: all
\* that is proved of the parts from their steps holds of the whole.
THEOREM PartsAreImplemented ==
    JointSpec => /\ Init /\ [][Next]_vars
                 /\ Client!AgentInit /\ [][Client!AgentNext]_agentSide
<1>1. JointInit => Init /\ Client!AgentInit
  BY DEF JointInit
<1>2. JointInv /\ [JointNext]_jvars => [Next]_vars
  BY ServerMoves DEF JointInv
<1>3. [JointNext]_jvars => [Client!AgentNext]_agentSide
  BY AgentMoves
<1>4. QED  BY <1>1, <1>2, <1>3, JointStarts, JointKeeps, PTL DEF JointSpec

\* In particular the register under the joined programs is one of Registry,
THEOREM JointRegistry == JointSpec => RegistryRefined
<1>1. Init => RegistryInit
  BY DEF Init
<1>2. QED  BY <1>1, PartsAreImplemented, StepsOfRegistry, PTL DEF RegistryRefined

\* no user's data is forwarded and no Send closed under a handler too early and
\* no stream's handler leaves its user's websocket open, with the messages that
\* an agent really sends; and that agent answers for a stream once, lists
\* what it answered for and hangs up what it reports closed, with those a server really sends.
THEOREM PartsKeepPromises ==
    JointSpec => /\ [](ForwardedIsAnswered /\ ClosedIsOver /\ DoneIsClosed)
                 /\ [](EntryIsServed /\ ListedIsOpen)
                 /\ [](Client!SpokenInTurn /\ Client!OpenIsListed /\ Client!EndedIsHungUp)
<1>1. JointInv => /\ ForwardedIsAnswered /\ ClosedIsOver /\ DoneIsClosed
                  /\ EntryIsServed /\ ListedIsOpen
  BY DEF JointInv, SessionInv, RegistryInv
<1>2. JointInv => Client!SpokenInTurn /\ Client!OpenIsListed /\ Client!EndedIsHungUp
  <2>1. AP!AgentInv => AP!SpokenInTurn /\ AP!OpenIsListed /\ AP!EndedIsHungUp
    BY AgentAssumed, AP!AgentPromises
  <2>2. /\ Client!SpokenInTurn <=> AP!SpokenInTurn
        /\ Client!OpenIsListed <=> AP!OpenIsListed
        /\ Client!EndedIsHungUp <=> AP!EndedIsHungUp
    BY DEF Client!SpokenInTurn, AP!SpokenInTurn, Client!OpenIsListed, AP!OpenIsListed,
       Client!EndedIsHungUp, AP!EndedIsHungUp, Client!Http, AP!Http, Client!MaySay, AP!MaySay,
       Client!MessageType, AP!MessageType
  <2>3. QED  BY <2>1, <2>2, SameInv DEF JointInv
<1>3. QED  BY <1>1, <1>2, JointStarts, JointKeeps, PTL DEF JointSpec
\* So does the fairness of the service: what was proved of the server's sessions
\* in the presence of any agent is true with this one.
LEMMA ServiceIsImplemented == JointSpec => ServiceSpec
BY PartsAreImplemented, PTL DEF JointSpec, JointFairness, ServiceSpec

\* Who left is let go in the whole system too: the handler of a session whose user
\* or whose agent's connection is gone returns,
THEOREM JointGoneEnd == JointSpec /\ []ServerUnblocked => UserGoneEnds /\ AgentGoneEnds
BY ServiceIsImplemented, UsersGoneEnd, AgentsGoneEnd

\* and the reader of what the agent says gets rid of each message, whatever order
\* the agent's goroutines and the network give them.
THEOREM JointReadersAreFreed == JointSpec /\ []ServerUnblocked => ReaderIsFreed
BY ServiceIsImplemented, ReadersLetGo

\* All that is known of every reachable state of the agent alone is known of it
\* here: its hub and writer run while its connection lasts, and a stream that is
\* served has its downstream and its pumps.
LEMMA AgentIsWhole == JointSpec => []AP!Whole
<1>1. JointInit => AP!ServedIsWhole /\ AP!ConnectionIsServed
  BY SameInit, AgentAssumed, AP!InitWhole DEF JointInit
<1>2. JointInv => AP!AgentInv
  BY SameInv DEF JointInv
<1>3. ASSUME JointInv, AP!ServedIsWhole, AP!ConnectionIsServed, [JointNext]_jvars
      PROVE  AP!ServedIsWhole' /\ AP!ConnectionIsServed'
  <2>1. [AP!AgentNext]_(AP!avars)
    BY <1>3, AgentMoves, SameNext DEF AP!avars, agentSide
  <2>2. QED  BY <1>2, <1>3, <2>1, AgentAssumed, AP!StepWhole, AP!StepServed
<1>4. JointInv /\ AP!ServedIsWhole /\ AP!ConnectionIsServed /\ [JointNext]_jvars
         => AP!ServedIsWhole' /\ AP!ConnectionIsServed'
  BY <1>3
<1>5. QED  BY <1>1, <1>2, <1>4, JointStarts, JointKeeps, PTL DEF JointSpec, AP!Whole

LEMMA ServedAreWhole == JointSpec => []Client!ServedIsWhole
<1>1. AP!Whole => Client!ServedIsWhole
  BY DEF AP!Whole, Client!ServedIsWhole, AP!ServedIsWhole, Client!Http, AP!Http
<1>2. QED  BY <1>1, AgentIsWhole, PTL

\* What is known of every reachable state of the whole system.
JointSound == JointInv /\ Sound /\ AP!Whole

LEMMA JointlySound == JointSpec => []JointSound
<1>1. JointSpec => []JointInv
  BY JointStarts, JointKeeps, PTL DEF JointSpec
<1>2. JointSpec => []Sound
  BY PartsAreImplemented, SoundInvariant
<1>3. QED  BY <1>1, <1>2, AgentIsWhole, PTL DEF JointSound

-----------------------------------------------------------------------------
(* A close that arrives hangs up.                                          *)

\* What a step does to a stream that is served: it stays served until its
\* Processor hangs up; a close for it goes from the wire to the goroutine that
\* reads it, which finds it in the map and closes it for good.
ServedGoesOn(s) ==
    LET old == stream[s]
        new == stream'[s]
    IN  /\ (new.proc = "wait" /\ s \in asessions') \/ new.down = "closed"
        /\ old.closed => new.closed
        /\ \/ new.closer = old.closer
           \/ old.closer = "none" /\ new.closer = "load"
           \/ old.closer = "load" /\ new.closer = "close"
           \/ old.closer = "close" /\ new.closed

\* Only Ends takes the stream's Processor on, and it hangs up.
LEMMA ServedSteps ==
  ASSUME Client!AgentInv, [Client!AgentNext]_agentSide,
         NEW s \in Session, stream[s].proc = "wait", s \in asessions
  PROVE  ServedGoesOn(s)
<1> stream \in [Session -> Client!Stream]
  BY DEF Client!AgentInv, Client!AgentTypeOK
<1> USE DEF ServedGoesOn
<1>1. CASE Client!ConnectionStep
  <2>1. CASE Client!Redial
    <3>1. stream'[s] = Client!Abandoned(stream[s]) /\ asessions' = asessions
      BY <2>1 DEF Client!Redial
    <3>2. QED  BY <3>1 DEF Client!Abandoned, Client!Stream
  <2>2. CASE Client!RunCancels
    <3>1. stream'[s] = [stream[s] EXCEPT !.lost = @ \/ stream[s].proc # "none"]
          /\ asessions' = asessions
      BY <2>2 DEF Client!RunCancels
    <3>2. QED  BY <3>1 DEF Client!Stream
  <2>3. CASE \/ Client!LinkBreaks \/ Client!WriterWrites \/ Client!WriterStops
             \/ Client!HubSends \/ Client!HubExits
    <3>1. stream' = stream /\ asessions' = asessions
      BY <2>3 DEF Client!LinkBreaks, Client!WriterWrites, Client!WriterStops, Client!HubSends,
         Client!HubExits
    <3>2. QED  BY <3>1
  <2>4. QED  BY <1>1, <2>1, <2>2, <2>3 DEF Client!ConnectionStep
<1>2. ASSUME NEW t \in Session \ {s},
             Client!Process(t) \/ Client!Pump(t) \/ Client!Serve(t) \/ Client!Peer(t)
      PROVE  ServedGoesOn(s)
  <2>1. stream'[s] = stream[s]
    BY <1>2 DEF Client!Process, Client!Pump, Client!Serve, Client!Peer, Client!HttpAnswers,
       Client!HttpSends, Client!DialFails, Client!DialSucceeds, Client!Ends, Client!HubTakesEnrol,
       Client!HubTakesUnenrol, Client!InputLoops, Client!InputFails, Client!InputReceives,
       Client!OutputLoops, Client!OutputReads, Client!OutputFails, Client!OutputRelays,
       Client!RelaySends, Client!FeederLoads, Client!FeederWrites, Client!FeederNotices,
       Client!CloserLoads, Client!CloserCloses, Client!ReadConnect, Client!ReadData,
       Client!ReadClose, Client!DownEnds
  <2>2. s \in asessions'
    <3>1. asessions' = asessions \/ asessions' = asessions \cup {t} \/ asessions' = asessions \ {t}
      BY <1>2 DEF Client!Process, Client!Pump, Client!Serve, Client!Peer, Client!HttpAnswers,
         Client!HttpSends, Client!DialFails, Client!DialSucceeds, Client!Ends,
         Client!HubTakesEnrol, Client!HubTakesUnenrol, Client!InputLoops, Client!InputFails,
         Client!InputReceives, Client!OutputLoops, Client!OutputReads, Client!OutputFails,
         Client!OutputRelays, Client!RelaySends, Client!FeederLoads, Client!FeederWrites,
         Client!FeederNotices, Client!CloserLoads, Client!CloserCloses, Client!ReadConnect,
         Client!ReadData, Client!ReadClose, Client!DownEnds
    <3>2. QED  BY <3>1
  <2>3. QED  BY <2>1, <2>2
<1>3. CASE Client!Process(s)
  <2>1. Client!Ends(s)
    BY <1>3 DEF Client!Process, Client!HttpAnswers, Client!HttpSends, Client!DialFails,
       Client!DialSucceeds, Client!HubTakesEnrol, Client!HubTakesUnenrol
  <2>2. stream'[s] = [stream[s] EXCEPT !.proc = "unenrol", !.down = "closed",
                                       !.status = Client!SetStatus(@, "process failed")]
    BY <2>1 DEF Client!Ends
  <2>3. QED  BY <2>2 DEF Client!Stream
<1>4. CASE Client!Pump(s) \/ Client!DownEnds(s)
  <2>1. /\ stream'[s].proc = stream[s].proc /\ stream'[s].closed = stream[s].closed
        /\ stream'[s].closer = stream[s].closer
    BY <1>4 DEF Client!Pump, Client!InputLoops, Client!InputFails, Client!InputReceives,
       Client!OutputLoops, Client!OutputReads, Client!OutputFails, Client!OutputRelays,
       Client!RelaySends, Client!DownEnds, Client!Stream
  <2>2. asessions' = asessions
    BY <1>4 DEF Client!Pump, Client!InputLoops, Client!InputFails, Client!InputReceives,
       Client!OutputLoops, Client!OutputReads, Client!OutputFails, Client!OutputRelays,
       Client!RelaySends, Client!DownEnds
  <2>3. QED  BY <2>1, <2>2
<1>5. CASE \/ Client!FeederLoads(s) \/ Client!FeederWrites(s) \/ Client!FeederNotices(s)
           \/ Client!ReadConnect(s) \/ Client!ReadData(s)
  <2>1. /\ stream'[s].proc = stream[s].proc /\ stream'[s].closed = stream[s].closed
        /\ stream'[s].closer = stream[s].closer
    BY <1>5 DEF Client!FeederLoads, Client!FeederWrites, Client!FeederNotices, Client!ReadConnect,
       Client!ReadData, Client!Stream
  <2>2. asessions' = asessions
    BY <1>5 DEF Client!FeederLoads, Client!FeederWrites, Client!FeederNotices, Client!ReadConnect,
       Client!ReadData
  <2>3. QED  BY <2>1, <2>2
<1>6. CASE Client!ReadClose(s) \/ Client!CloserCloses(s)
  BY <1>6 DEF Client!ReadClose, Client!CloserCloses, Client!Stream
<1>7. CASE Client!CloserLoads(s)
  <2>1. stream'[s] = [stream[s] EXCEPT !.closer = "close",
                                       !.status = Client!SetStatus(@, "upstream closed")]
        /\ stream[s].closer = "load" /\ asessions' = asessions
    BY <1>7 DEF Client!CloserLoads
  <2>2. QED  BY <2>1 DEF Client!Stream
<1>8. CASE UNCHANGED agentSide
  BY <1>8 DEF agentSide
<1>9. QED  BY <1>1, <1>2, <1>3, <1>4, <1>5, <1>6, <1>7, <1>8
           DEF Client!AgentNext, Client!Serve, Client!Peer

\* The steps that fairness asks for.
LEMMA CloseRan ==
  ASSUME Client!AgentInv, NEW s \in Session
  PROVE  /\ ServesClose(s) => stream'[s].closer = "load"
         /\ Client!CloserRuns(s) => stream'[s].closer # stream[s].closer
         /\ Client!ProcessorRuns(s) => stream'[s].proc # stream[s].proc
<1> stream \in [Session -> Client!Stream]
  BY DEF Client!AgentInv, Client!AgentTypeOK
<1>1. ServesClose(s) => stream'[s].closer = "load"
  BY DEF ServesClose, Client!ReadClose, Client!Stream
<1>2. Client!CloserRuns(s) => stream'[s].closer # stream[s].closer
  <2>1. Client!CloserCloses(s) => stream'[s].closer # stream[s].closer
    BY DEF Client!CloserCloses, Client!Stream
  <2>2. Client!CloserLoads(s) => stream'[s].closer # stream[s].closer
    BY DEF Client!CloserLoads, Client!Stream
  <2>3. QED  BY <2>1, <2>2 DEF Client!CloserRuns
<1>3. Client!ProcessorRuns(s) => stream'[s].proc # stream[s].proc
  <2>1. Client!DialFails(s) \/ Client!HttpAnswers(s) => stream'[s].proc # stream[s].proc
    BY DEF Client!DialFails, Client!HttpAnswers, Client!Stream
  <2>2. Client!DialSucceeds(s) => stream'[s].proc # stream[s].proc
    BY DEF Client!DialSucceeds, Client!Stream
  <2>3. ASSUME Client!Ends(s) PROVE stream'[s].proc # stream[s].proc
    <3>1. stream'[s] = [stream[s] EXCEPT !.proc = "unenrol", !.down = "closed",
                                         !.status = Client!SetStatus(@, "process failed")]
      BY <2>3 DEF Client!Ends
    <3>2. stream'[s].proc = "unenrol"
      BY <3>1 DEF Client!Stream
    <3>3. QED  BY <2>3, <3>2 DEF Client!Ends
  <2>4. QED  BY <2>1, <2>2, <2>3 DEF Client!ProcessorRuns
<1>4. QED  BY <1>1, <1>2, <1>3

\* A close stays on the wire until it is read, unless the agent's end goes.
LEMMA CloseTravels ==
  ASSUME JointInv, [JointNext]_jvars, NEW s \in Session, Msg(s, "close") \in downlink, alink = "up"
  PROVE  Msg(s, "close") \in downlink' \/ stream'[s].closer = "load" \/ alink' # "up"
<1>1. ASSUME NEW c \in Conn, Connect(c) PROVE FALSE
  BY <1>1 DEF Connect, Client!Redial
<1>2. ASSUME NEW t \in Session, Serves(t)
      PROVE  Msg(s, "close") \in downlink' \/ stream'[s].closer = "load"
  <2>1. CASE ServesClose(t)
    <3>1. CASE t = s
      BY <2>1, <3>1, CloseRan DEF JointInv
    <3>2. CASE t # s
      BY <2>1, <3>2 DEF ServesClose, First, Msg
    <3>3. QED  BY <3>1, <3>2
  <2>2. CASE ~ServesClose(t)
    BY <1>2, <2>2 DEF Serves, First, Msg
  <2>3. QED  BY <2>1, <2>2
<1>3. ASSUME NEW c \in Conn, ServerLoses(c) \/ Forwards(c) \/ Reads(c)
      PROVE  Msg(s, "close") \in downlink'
  BY <1>3 DEF ServerLoses, Forwards, Reads, Sends, wires
<1>4. ASSUME NEW t \in Session, Dials(t) PROVE Msg(s, "close") \in downlink'
  BY <1>4 DEF Dials, Sends
<1>5. CASE Closes
  BY <1>5 DEF Closes, Sends
<1>6. CASE ServerAlone \/ AgentAlone \/ AgentLoses \/ Replies \/ UNCHANGED jvars
  BY <1>6 DEF ServerAlone, AgentAlone, AgentLoses, Replies, wires, jvars
<1>7. QED  BY <1>1, <1>2, <1>3, <1>4, <1>5, <1>6 DEF JointNext

\* It is in the agent's map while its Processor waits for its end, and then
\* until the hub has taken the end, when it is hung up.
LEMMA ListedWaits ==
  ASSUME Client!AgentInv, Client!ServedIsWhole, NEW s \in Session, s \in asessions
  PROVE  stream[s].proc = "wait" \/ stream[s].down = "closed"
BY DEF Client!AgentInv, Client!ListedIsServed, Client!ServedIsWhole

\* The fairness of one session.
LEMMA CloseIsFair == JointSpec => \A s \in Session : Client!StreamFairness(s) /\ WireFairness(s)
BY PTL DEF JointSpec, JointFairness

\* A close on the wire of a served stream reaches its downstream: it is read,
\* finds the session, closes it, and Processor then hangs up; the stream stays
\* in the map in between, or is hung up already.
THEOREM ToldAreHungUp == JointSpec /\ []TravelUnblocked => ToldIsHungUp
<1> SUFFICES ASSUME NEW s \in Session
             PROVE  JointSpec /\ []TravelUnblocked =>
                      ((Msg(s, "close") \in downlink /\ s \in asessions) ~>
                          (stream[s].down = "closed" \/ alink # "up"))
  BY DEF ToldIsHungUp
<1> DEFINE Told    == Msg(s, "close") \in downlink /\ s \in asessions
           Served  == s \in asessions /\ stream[s].proc = "wait"
           OnWire  == /\ Served /\ Msg(s, "close") \in downlink /\ alink = "up"
                      /\ stream[s].closer = "none"
           Loads   == Served /\ stream[s].closer = "load"
           Shuts   == Served /\ stream[s].closer = "close"
           Waits   == Served /\ stream[s].closed
           HungUp  == stream[s].down = "closed" \/ alink # "up"
<1>1. JointInv /\ Client!ServedIsWhole /\ Told => OnWire \/ Loads \/ Shuts \/ HungUp
  <2>1. JointInv => stream[s].closer \in {"none", "load", "close"}
    BY DEF JointInv, Client!AgentInv, Client!AgentTypeOK, Client!Stream
  <2>2. QED  BY <2>1, ListedWaits DEF JointInv
<1>2. JointInv /\ [JointNext]_jvars =>
        /\ OnWire => OnWire' \/ Loads' \/ HungUp'
        /\ Loads => Loads' \/ Shuts' \/ HungUp'
        /\ Shuts => Shuts' \/ Waits' \/ HungUp'
        /\ Waits => Waits' \/ HungUp'
  <2> SUFFICES ASSUME JointInv, [JointNext]_jvars, Served
               PROVE  /\ OnWire => OnWire' \/ Loads' \/ HungUp'
                      /\ Loads => Loads' \/ Shuts' \/ HungUp'
                      /\ Shuts => Shuts' \/ Waits' \/ HungUp'
                      /\ Waits => Waits' \/ HungUp'
    OBVIOUS
  <2>1. ServedGoesOn(s)
    BY AgentMoves, ServedSteps DEF JointInv
  <2>2. OnWire => Msg(s, "close")' \in downlink' \/ stream'[s].closer = "load" \/ alink' # "up"
    BY CloseTravels DEF Msg
  <2>3. QED  BY <2>1, <2>2 DEF ServedGoesOn
<1>3. JointInv /\ [JointNext]_jvars =>
        /\ <<ServesClose(s)>>_jvars => ~OnWire'
        /\ Loads /\ <<Client!CloserRuns(s)>>_(Client!avars) => ~Loads'
        /\ Shuts /\ <<Client!CloserRuns(s)>>_(Client!avars) => ~Shuts'
        /\ Waits /\ <<Client!ProcessorRuns(s)>>_(Client!avars) => ~Waits'
  BY CloseRan DEF JointInv
<1>4. TravelUnblocked =>
        /\ OnWire => ENABLED <<ServesClose(s)>>_jvars
        /\ Loads \/ Shuts => ENABLED <<Client!CloserRuns(s)>>_(Client!avars)
        /\ Waits => ENABLED <<Client!ProcessorRuns(s)>>_(Client!avars)
  BY DEF TravelUnblocked, CloseUnblocked
<1>5. JointSpec => Client!StreamFairness(s) /\ WireFairness(s)
  BY CloseIsFair
<1>6. JointSpec => []JointInv
  BY JointStarts, JointKeeps, PTL DEF JointSpec
<1> HIDE DEF Told, OnWire, Loads, Shuts, Waits, HungUp
<1>7. JointSpec /\ []TravelUnblocked /\ Client!StreamFairness(s) /\ WireFairness(s) => (Told ~> HungUp)
  BY <1>1, <1>2, <1>3, <1>4, <1>6, ServedAreWhole, PTL
  DEF JointSpec, WireFairness, Client!StreamFairness
<1>8. QED  BY <1>5, <1>7, PTL DEF Told, HungUp
-----------------------------------------------------------------------------
(* The agent's report of an end reaches the user's handler, or it is known *)
(* there already.                                                          *)

\* The agent's end of a session is at its hub or its writer, or on the wire;
OnItsWay(s) ==
    \/ ahub = AP!At("send", Msg(s, "close"))
    \/ awriter = AP!At("write", Msg(s, "close"))
    \/ \E i \in 1..Len(uplink) : uplink[i] = Msg(s, "close")

\* or it was read, and is about to be given to the handler of the session, which
\* has returned otherwise or will not be connected any more.
Heard(s) ==
    /\ agent[s] = "ended"
    /\ \/ toUser[conn] = Msg(s, "close")
       \/ sess[s].at \in {"leave", "unenrol", "done"}
       \/ sess[s].status # "connected" /\ toUser[conn] # Msg(s, "connect")

\* A stream the agent is done with, and that the server did not tell it to
\* close, is reported, as long as the agent keeps the connection.
ReportTravels ==
    \A s \in Session :
        (/\ ~Http(s) /\ sess[s].down = conn /\ alink = "up"
         /\ stream[s].proc = "done" /\ stream[s].status # "upstream closed")
            => OnItsWay(s) \/ Heard(s)

\* Why this holds.  What is said of a session comes over its connection.
SpokenOverOne ==
    \A c \in Conn, s \in Session : Delivering(c, s) /\ sess[s].down = conn => c = conn

\* A connection that is dialled was not, and so no session has it.
LEMMA RedialIsFresh ==
  ASSUME RegistryInv, ConnectionIsOne, NEW c \in Conn, Connect(c)
  PROVE  /\ UNCHANGED svars /\ conn' = c
         /\ \A s \in Session : sess'[s].down # conn'
<1>1. Upgrade(c) /\ ConnStep(c) /\ UNCHANGED svars /\ conn' = c
  BY DEF Connect, ConnStep
<1>2. handler[c] = "free"
  <2>1. handler \in [Conn -> Handler] /\ reader \in [Conn -> Pump] /\ writer \in [Conn -> Pump]
    BY DEF RegistryInv, RegistryTypeOK
  <2>2. /\ handler'[c] = "upgraded" /\ reader'[c] = "off" /\ writer'[c] = "off"
        /\ handler[c] \in {"free", "gone"}
    BY <1>1, <2>1 DEF Upgrade, Released
  <2>3. QED
    BY <1>1, <2>1, <2>2 DEF ConnStep, Refuse, CheckOffline, PingEnds, LinkBreaks, ReaderExits, WriterExits,
       HubTakesRegister, HubTakesUnregister
<1>3. \A s \in Session : sess[s].down # c
  BY <1>2, RegistryAssumption DEF ConnectionIsOne
<1>4. QED  BY <1>1, <1>3 DEF svars

\* What a step does to the wire to the server, and to what is on its way to it.
LEMMA JointMoves ==
  ASSUME [JointNext]_jvars
  PROVE  \/ \E c \in Conn : Connect(c) \/ Reads(c)
         \/ Replies
         \/ /\ UNCHANGED <<conn, uplink>>
            /\ alink' = "up" => alink = "up"
            /\ awriter.at = "write" /\ alink = "up" => awriter' = awriter
            /\ toUser' = toUser \/ \E c \in Conn, s \in Session : SessionReceives(c, s)
<1> DEFINE Steady == /\ UNCHANGED <<conn, uplink>>
                     /\ alink' = "up" => alink = "up"
                     /\ awriter.at = "write" /\ alink = "up" => awriter' = awriter
                     /\ toUser' = toUser \/ \E c \in Conn, s \in Session : SessionReceives(c, s)
<1>1. CASE UNCHANGED jvars
  BY <1>1 DEF jvars, vars, svars, wires, agentSide
<1>2. CASE ServerAlone
  <2>1. UNCHANGED <<conn, uplink, alink, awriter>>
    BY <1>2 DEF ServerAlone, agentSide, wires
  <2>2. toUser' = toUser \/ \E c \in Conn, s \in Session : SessionReceives(c, s)
    BY <1>2, ZenonT(40) DEF ServerAlone, ConnStep, svars, HubStoresSession, HubAnnounces, SessionStep, Lookup, Login,
       Dial, Encode, RequestPanics, AwaitTimesOut, Depart, PumpEnds, UserLeaves, UpReaderStops,
       UpReaderFails, UpReaderReads, UpReaderPanics, HubTakesEnrol, HubTakesUnenrol, WriterReceives,
       ReaderPanics, WriterFails, HubTakesFailed
  <2>3. QED  BY <2>1, <2>2
<1>3. CASE AgentAlone
  <2>1. UNCHANGED <<conn, uplink, toUser>>
    BY <1>3 DEF AgentAlone, vars, svars, wires
  <2>2. alink' = "up" => alink = "up"
    BY <1>3 DEF AgentAlone, Client!RunCancels, Client!WriterStops, Client!HubSends, Client!HubExits,
       Client!Process, Client!HttpAnswers, Client!HttpSends, Client!DialFails, Client!DialSucceeds,
       Client!Ends, Client!HubTakesEnrol, Client!HubTakesUnenrol, Client!Serve, Client!FeederLoads,
       Client!FeederWrites, Client!FeederNotices, Client!CloserLoads, Client!CloserCloses,
       Client!DownEnds, Client!Pump, Client!InputLoops, Client!InputFails, Client!InputReceives,
       Client!OutputLoops, Client!OutputReads, Client!OutputFails, Client!OutputRelays, Client!RelaySends
  <2>3. awriter.at = "write" /\ alink = "up" => awriter' = awriter
    <3>1. Client!Selecting.at = "select"
      BY DEF Client!Selecting, Client!At
    <3>2. QED
      BY <1>3, <3>1 DEF AgentAlone, Client!RunCancels, Client!WriterStops, Client!HubSends,
         Client!HubExits, Client!WriterTakes,
         Client!Process, Client!HttpAnswers, Client!HttpSends, Client!DialFails, Client!DialSucceeds,
         Client!Ends, Client!HubTakesEnrol, Client!HubTakesUnenrol, Client!Serve, Client!FeederLoads,
         Client!FeederWrites, Client!FeederNotices, Client!CloserLoads, Client!CloserCloses,
         Client!DownEnds, Client!Pump, Client!InputLoops, Client!InputFails, Client!InputReceives,
         Client!OutputLoops, Client!OutputReads, Client!OutputFails, Client!OutputRelays,
         Client!RelaySends
  <2>4. QED  BY <2>1, <2>2, <2>3
<1>4. CASE AgentLoses
  BY <1>4 DEF AgentLoses, Client!LinkBreaks, vars, svars, wires
<1>5. ASSUME NEW c \in Conn, ServerLoses(c) \/ Forwards(c) PROVE Steady
  BY <1>5 DEF ServerLoses, Forwards, ConnStep, WriterWrites, agentSide, wires, svars
<1>6. ASSUME NEW s \in Session, Dials(s) PROVE Steady
  BY <1>6 DEF Dials, Dial, agentSide
<1>7. CASE Closes
  BY <1>7 DEF Closes, HubClosesSession, agentSide
<1>8. ASSUME NEW s \in Session, Serves(s) PROVE Steady
  BY <1>8 DEF Serves, ServesClose, Client!ReadConnect, Client!ReadData, Client!ReadClose, vars, svars
<1>9. QED  BY <1>1, <1>2, <1>3, <1>4, <1>5, <1>6, <1>7, <1>8 DEF JointNext

\* The agent's side of a step, as AgentLivenessProofs has it.
LEMMA AgentGoesOn ==
  ASSUME JointSound, [JointNext]_jvars
  PROVE  AP!ConnectionMovesOn /\ \A s \in Session : AP!Moves(s)
<1>1. AP!AgentInv /\ [AP!AgentNext]_(AP!avars)
  BY AgentMoves, SameNext DEF AP!avars, agentSide, JointSound, AP!Whole
<1>2. QED  BY <1>1, AgentAssumed, AP!StepMoves, AP!StepConnection

\* And the server's side, as ServerSessionProofs has it.
LEMMA ServerGoesOn ==
  ASSUME JointSound, [JointNext]_jvars
  PROVE  [Next]_vars /\ \A s \in Session : GoesOn(s)
<1>1. [Next]_vars
  BY ServerMoves DEF JointSound, JointInv
<1>2. QED  BY <1>1, SessionSteps DEF JointSound

\* The server reads m: it is what is said of its session now, and goes on to the
\* session's handler if the hub knows the session.
LEMMA ServerReads ==
  ASSUME JointSound, NEW c \in Conn, Reads(c)
  PROVE  LET m == Head(uplink) IN
         /\ c = conn /\ uplink # <<>> /\ uplink' = Tail(uplink) /\ m = uplink[1] /\ 1 \in 1..Len(uplink)
         /\ m.session \in Session /\ m.type \in MessageType
         /\ UNCHANGED <<conn, agentSide, sess, sessions, shub>>
         /\ toUser[c] = None
         /\ agent' = [agent EXCEPT ![m.session] = Hears(@, Http(m.session), m.type)]
         /\ toUser' = IF m.session \in sessions THEN [toUser EXCEPT ![c] = Msg(m.session, m.type)]
                      ELSE toUser
<1>1. uplink # <<>>
  BY DEF Reads
<1>2. WiresTypeOK
  BY DEF JointSound, JointInv
<1>3. QED  BY <1>1, <1>2, HeadOfWire DEF Reads, ReaderReads, Msg

\* What is sent to a session over the agent's connection came over it.
LEMMA StepSpoken ==
  ASSUME JointSound, SpokenOverOne, [JointNext]_jvars
  PROVE  SpokenOverOne'
<1> SUFFICES ASSUME NEW c \in Conn, NEW s \in Session, Delivering(c, s)', sess'[s].down = conn'
             PROVE  c = conn'
  BY DEF SpokenOverOne
<1> USE DEF JointSound, JointInv
<1>0. toUser \in [Conn -> [session : Session, type : MessageType] \cup {None}]
  BY ServerFacts
<1>1. ASSUME NEW d \in Conn, Connect(d) PROVE FALSE
  BY <1>1, RedialIsFresh
<1>2. ASSUME Delivering(c, s), conn' = conn PROVE c = conn'
  <2>1. sess[s].at # "new"
    BY <1>2, TypesOfSound DEF KnownIsEnrolled
  <2>2. sess[s].down = conn
    BY <1>2, <2>1, ServerGoesOn DEF GoesOn
  <2>3. QED  BY <1>2, <2>2 DEF SpokenOverOne
<1>3. ASSUME NEW d \in Conn, Reads(d) PROVE c = conn'
  <2>1. /\ d = conn /\ conn' = conn
        /\ toUser' = toUser \/ toUser' = [toUser EXCEPT ![d] = Msg(Head(uplink).session, Head(uplink).type)]
    BY <1>3, ServerReads
  <2>2. CASE c = d
    BY <2>1, <2>2
  <2>3. CASE c # d
    BY <1>0, <1>2, <2>1, <2>3 DEF Delivering
  <2>4. QED  BY <2>2, <2>3
<1>4. ASSUME NEW d \in Conn, NEW t \in Session, SessionReceives(d, t), conn' = conn PROVE c = conn'
  <2>1. toUser' = [toUser EXCEPT ![d] = None]
    BY <1>4 DEF SessionReceives
  <2>2. Delivering(c, s)
    BY <1>0, <2>1 DEF Delivering
  <2>3. QED  BY <1>2, <1>4, <2>2
<1>5. ASSUME toUser' = toUser, conn' = conn PROVE c = conn'
  BY <1>2, <1>5 DEF Delivering
<1>6. CASE Replies
  BY <1>5, <1>6 DEF Replies, vars, svars
<1>7. QED  BY <1>1, <1>3, <1>4, <1>5, <1>6, JointMoves

\* What the agent said last of a stream is its last word.
LEMMA EndIsLast ==
  ASSUME JointSound, [JointNext]_jvars, NEW s \in Session, ~Http(s), agent[s] = "ended"
  PROVE  agent'[s] = "ended"
<1> USE DEF JointSound, JointInv
<1>0. agent \in [Session -> Hearsay]
  BY ServerFacts
<1>1. ASSUME NEW c \in Conn, Reads(c) PROVE agent'[s] = "ended"
  <2> DEFINE m == Head(uplink)
  <2>1. /\ m = uplink[1] /\ 1 \in 1..Len(uplink)
        /\ m.session \in Session /\ m.type \in MessageType
        /\ agent' = [agent EXCEPT ![m.session] = Hears(@, Http(m.session), m.type)]
    BY <1>1, ServerReads
  <2>2. m.type = "connect" => agent[m.session] = "asked"
    BY <2>1 DEF WiresInv, AnswerIsFirst
  <2> HIDE DEF m
  <2>3. QED  BY <1>0, <2>1, <2>2 DEF Hears, MessageType
<1>2. ASSUME NEW t \in Session, Dials(t) PROVE agent'[s] = "ended"
  <2>1. t # s
    BY <1>2 DEF Dials, Dial, SessionInv, UndialledIsUnaware
  <2>2. QED  BY <1>0, <1>2, <2>1 DEF Dials, Dial
<1>3. ASSUME NEW c \in Conn, Forwards(c) PROVE agent'[s] = "ended"
  BY <1>0, <1>3 DEF Forwards, WriterWrites
<1>4. CASE ServerAlone
  BY <1>4, AloneSteady, ServerMoves, ConnectionStaysOne
<1>5. ASSUME NEW c \in Conn, Connect(c) \/ ServerLoses(c) PROVE agent'[s] = "ended"
  BY <1>5 DEF Connect, ServerLoses, ConnStep, svars
<1>6. CASE \/ Closes \/ AgentAlone \/ AgentLoses \/ Replies
           \/ (\E t \in Session : Serves(t)) \/ UNCHANGED jvars
  BY <1>6 DEF Closes, HubClosesSession, AgentAlone, AgentLoses, Replies, Serves, ServesClose, jvars,
     vars, svars
<1>7. QED  BY <1>1, <1>2, <1>3, <1>4, <1>5, <1>6 DEF JointNext

\* Once the server has read it, the handler of its session has it or gets it,
\* and is not connected meanwhile.
LEMMA HeardStays ==
  ASSUME JointSound, SpokenOverOne, [JointNext]_jvars, NEW s \in Session,
         ~Http(s), sess[s].down = conn, conn' = conn, Heard(s)
  PROVE  Heard(s)'
<1> USE DEF JointSound, JointInv
<1>0. /\ sess \in [Session -> SessionObject]
      /\ toUser \in [Conn -> [session : Session, type : MessageType] \cup {None}]
      /\ sess[s].at = "new" => sess[s].down = None
      /\ sess[s].down = None => sess[s].at \in {"new", "leave", "done"}
  BY ServerFacts
<1>1. agent'[s] = "ended"
  BY EndIsLast DEF Heard
<1>2. GoesOn(s)
  BY ServerGoesOn
<1>3. sess[s].at # "new"
  BY NewIsUnaware DEF Heard, WiresInv
<1>4. CASE sess[s].at \in {"leave", "unenrol", "done"}
  <2>1. sess'[s].at \in {"leave", "unenrol", "done"}
    BY <1>2, <1>4 DEF GoesOn
  <2>2. QED  BY <1>1, <2>1 DEF Heard
<1>5. CASE sess[s].at \notin {"leave", "unenrol", "done"}
  <2>1. conn \in Conn
    BY <1>0, <1>3, <1>5 DEF SessionObject
  <2>2. CASE toUser[conn] = Msg(s, "close")
    <3>1. Delivering(conn, s) /\ toUser[conn].type = "close"
      BY <2>2, EndToEndAssumption DEF Delivering, Msg, MessageType
    <3>2. CASE SessionReceives(conn, s)
      <4>1. sess' = [Leave(s) EXCEPT ![s].status = SetStatus(@, "downstream closed")]
        BY <3>1, <3>2 DEF SessionReceives
      <4>2. sess'[s].at = "leave"
        BY <1>0, <4>1 DEF Leave, SessionObject
      <4>3. QED  BY <1>1, <4>2 DEF Heard
    <3>3. CASE toUser'[conn] = toUser[conn]
      BY <1>1, <2>2, <3>3 DEF Heard, Msg
    <3>4. QED  BY <2>1, <3>1, <3>2, <3>3, MessageStays, ServerGoesOn
  <2>3. CASE sess[s].status # "connected" /\ toUser[conn] # Msg(s, "connect")
    <3>1. sess'[s].status # "connected"
      <4>1. SUFFICES ASSUME sess'[s].status = "connected" PROVE FALSE
        OBVIOUS
      <4>2. PICK c \in Conn : Delivering(c, s) /\ toUser[c].type = "connect"
        BY <1>2, <2>3, <4>1 DEF GoesOn, Ended
      <4>3. c = conn
        BY <4>2 DEF SpokenOverOne
      <4>4. toUser[conn] = Msg(s, "connect")
        BY <1>0, <2>1, <4>2, <4>3 DEF Delivering, Msg
      <4>5. QED  BY <2>3, <4>4
    <3>2. ASSUME NEW c \in Conn, Reads(c) PROVE toUser'[conn] # Msg(s, "connect")
      <4> DEFINE m == Head(uplink)
      <4>1. /\ m = uplink[1] /\ 1 \in 1..Len(uplink)
            /\ c = conn /\ m.session \in Session /\ m.type \in MessageType
            /\ toUser' = toUser \/ toUser' = [toUser EXCEPT ![c] = Msg(m.session, m.type)]
        BY <3>2, ServerReads
      <4>2. m.type = "connect" => agent[m.session] = "asked"
        BY <4>1 DEF WiresInv, AnswerIsFirst
      <4> HIDE DEF m
      <4>3. Msg(m.session, m.type) # Msg(s, "connect")
        BY <4>2 DEF Msg, Heard
      <4>4. QED  BY <1>0, <2>1, <2>3, <4>1, <4>3
    <3>3. ASSUME NEW c \in Conn, NEW t \in Session, SessionReceives(c, t)
          PROVE  toUser'[conn] # Msg(s, "connect")
      <4>1. toUser' = [toUser EXCEPT ![c] = None]
        BY <3>3 DEF SessionReceives
      <4>2. None # Msg(s, "connect")
        BY EndToEndAssumption DEF Msg, MessageType
      <4>3. QED  BY <1>0, <2>1, <2>3, <4>1, <4>2
    <3>4. ASSUME NEW c \in Conn, Connect(c) PROVE toUser'[conn] # Msg(s, "connect")
      BY <2>3, <3>4, RedialIsFresh DEF svars
    <3>5. ASSUME toUser' = toUser PROVE toUser'[conn] # Msg(s, "connect")
      BY <2>3, <3>5
    <3>6. toUser'[conn] # Msg(s, "connect")
      <4>1. Replies => toUser' = toUser
        BY DEF Replies, vars, svars
      <4>2. QED  BY <3>2, <3>3, <3>4, <3>5, <4>1, JointMoves
    <3>7. QED  BY <1>1, <3>1, <3>6 DEF Heard, Msg
  <2>4. QED  BY <1>5, <2>2, <2>3 DEF Heard
<1>6. QED  BY <1>4, <1>5

\* The server reads the end of a session.
LEMMA EndIsHeard ==
  ASSUME JointSound, NEW s \in Session, ~Http(s), NEW c \in Conn, Reads(c),
         Head(uplink) = Msg(s, "close")
  PROVE  Heard(s)'
<1> USE DEF JointSound, JointInv
<1>0. /\ agent \in [Session -> Hearsay]
      /\ toUser \in [Conn -> [session : Session, type : MessageType] \cup {None}]
  BY ServerFacts
<1>1. /\ c = conn /\ UNCHANGED <<conn, sess>> /\ toUser[c] = None
      /\ agent' = [agent EXCEPT ![s] = Hears(@, Http(s), "close")]
      /\ toUser' = IF s \in sessions THEN [toUser EXCEPT ![c] = Msg(s, "close")] ELSE toUser
  BY ServerReads DEF Msg
<1>2. agent'[s] = "ended"
  BY <1>0, <1>1 DEF Hears
<1>3. CASE s \in sessions
  BY <1>0, <1>1, <1>2, <1>3 DEF Heard, Msg
<1>4. CASE s \notin sessions
  <2>1. toUser'[conn] # Msg(s, "connect")
    BY <1>1, <1>4, EndToEndAssumption DEF Msg, MessageType
  <2>2. CASE sess[s].status # "connected"
    BY <1>1, <1>2, <2>1, <2>2 DEF Heard, Msg
  <2>3. CASE sess[s].status = "connected"
    <3>1. sess[s].closed \/ shub = Shub("close", s)
      BY <1>4, <2>3, TypesOfSound DEF ConnectedIsKnown
    <3>2. sess[s].status \notin Ended
      BY <2>3 DEF Ended
    <3>3. ASSUME shub = Shub("close", s) PROVE sess[s].at = "done"
      <4>1. shub.op = "close" /\ shub.session = s
        BY <3>3 DEF Shub
      <4>2. QED  BY <3>2, <4>1 DEF SessionInv, CloseIsOver
    <3>4. sess[s].at = "done"
      BY <3>1, <3>2, <3>3 DEF SessionInv, ClosedIsOver
    <3>5. QED  BY <1>1, <1>2, <3>4 DEF Heard
  <2>4. QED  BY <2>2, <2>3
<1>5. QED  BY <1>3, <1>4

\* The agent's end of a session goes from its hub to its writer, from there to the
\* wire, and forward on it until the server reads it.
LEMMA ReportGoesOn ==
  ASSUME JointSound, [JointNext]_jvars, NEW s \in Session, ~Http(s), OnItsWay(s),
         alink = "up", alink' = "up"
  PROVE  OnItsWay(s)' \/ Heard(s)'
<1> USE DEF JointSound, JointInv
<1>0. uplink \in Seq([session : Session, type : MessageType]) /\ Len(uplink) \in Nat
  BY DEF WiresTypeOK
<1>1. CASE ahub = AP!At("send", Msg(s, "close"))
  <2>0. Msg(s, "close") = AP!Msg(s, "close")
    BY DEF Msg, AP!Msg
  <2>1. ahub' = ahub \/ awriter' = AP!At("write", Msg(s, "close"))
    <3>1. AP!ConnectionMovesOn
      BY AgentGoesOn
    <3>2. QED  BY ONLY <1>1, <2>0, <3>1, AgentAssumed, AP!CloseMoves, alink = "up"
  <2>2. QED  BY <1>1, <2>1 DEF OnItsWay, Msg
<1>2. ASSUME NEW c \in Conn, Connect(c) PROVE FALSE
  BY <1>2 DEF Connect, Client!Redial
<1>3. CASE awriter = AP!At("write", Msg(s, "close"))
  <2>1. awriter.at = "write" /\ awriter.msg = Msg(s, "close")
    BY <1>3 DEF AP!At
  <2>2. CASE Replies
    <3>1. uplink' = Append(uplink, Msg(s, "close"))
      BY <2>1, <2>2 DEF Replies
    <3>2. Len(uplink) + 1 \in 1..Len(uplink') /\ uplink'[Len(uplink) + 1] = Msg(s, "close")
      BY <1>0, <3>1
    <3>3. QED  BY <3>2 DEF OnItsWay, Msg
  <2>3. CASE awriter' = awriter
    BY <1>3, <2>3 DEF OnItsWay, Msg
  <2>4. ASSUME NEW c \in Conn, Reads(c) PROVE awriter' = awriter
    BY <2>4 DEF Reads, agentSide
  <2>5. QED  BY <1>2, <2>1, <2>2, <2>3, <2>4, JointMoves
<1>4. ASSUME NEW i \in 1..Len(uplink), uplink[i] = Msg(s, "close") PROVE OnItsWay(s)' \/ Heard(s)'
  <2>1. CASE uplink' = uplink
    BY <1>4, <2>1 DEF OnItsWay, Msg
  <2>2. CASE Replies
    <3>1. CASE uplink' = Append(uplink, awriter.msg)
      <4>1. i \in 1..Len(uplink') /\ uplink'[i] = uplink[i]
        BY <1>0, <3>1
      <4>2. QED  BY <1>4, <4>1 DEF OnItsWay, Msg
    <3>2. QED  BY <2>1, <2>2, <3>1 DEF Replies
  <2>3. ASSUME NEW c \in Conn, Reads(c) PROVE OnItsWay(s)' \/ Heard(s)'
    <3>1. uplink # <<>> /\ uplink' = Tail(uplink) /\ Head(uplink) = uplink[1]
      BY <2>3, ServerReads
    <3>2. CASE i = 1
      BY <1>4, <2>3, <3>1, <3>2, EndIsHeard
    <3>3. CASE i # 1
      <4>1. i - 1 \in 1..Len(uplink') /\ uplink'[i - 1] = uplink[i]
        BY <1>0, <3>1, <3>3, HeadOfWire
      <4>2. QED  BY <1>4, <4>1 DEF OnItsWay, Msg
    <3>4. QED  BY <3>2, <3>3
  <2>4. QED  BY <1>2, <2>1, <2>2, <2>3, JointMoves
<1>5. QED  BY <1>1, <1>3, <1>4 DEF OnItsWay

\* The stream of a session that has its connection was asked for over it.
LEMMA StepReport ==
  ASSUME JointSound, SpokenOverOne, ReportTravels, [JointNext]_jvars
  PROVE  ReportTravels'
<1> SUFFICES ASSUME NEW s \in Session,
                    (/\ ~Http(s) /\ sess[s].down = conn /\ alink = "up"
                     /\ stream[s].proc = "done" /\ stream[s].status # "upstream closed")'
             PROVE  OnItsWay(s)' \/ Heard(s)'
  BY DEF ReportTravels
<1> /\ ~Http(s) /\ sess'[s].down = conn' /\ alink' = "up"
    /\ stream'[s].proc = "done" /\ stream'[s].status # "upstream closed"
  BY DEF Http
<1> USE DEF JointSound, JointInv
<1>1. GoesOn(s) /\ AP!ConnectionMovesOn /\ AP!Moves(s)
  BY ServerGoesOn, AgentGoesOn
<1>2. sess[s].at # "new"
  <2>1. SUFFICES ASSUME sess[s].at = "new" PROVE FALSE
    OBVIOUS
  <2>2. stream[s].proc = "none"
    BY <2>1, NewIsUnaware, AgentFacts DEF WiresInv
  <2>3. QED  BY <1>1, <2>2 DEF AP!Moves
<1>3. conn' = conn /\ alink = "up" /\ sess[s].down = conn
  <2>1. \A c \in Conn : ~Connect(c)
    BY RedialIsFresh
  <2>2. ASSUME NEW c \in Conn, Reads(c) PROVE conn' = conn /\ alink = "up"
    BY <2>2 DEF Reads, agentSide
  <2>3. Replies => conn' = conn /\ alink = "up"
    BY DEF Replies, Client!WriterWrites
  <2>4. conn' = conn /\ alink = "up"
    BY <2>1, <2>2, <2>3, JointMoves
  <2>5. QED  BY <1>1, <1>2, <2>4 DEF GoesOn
<1>4. stream[s].status # "upstream closed"
  BY <1>1 DEF AP!Moves
<1>5. CASE stream[s].proc = "done"
  <2>1. OnItsWay(s) \/ Heard(s)
    BY <1>3, <1>4, <1>5 DEF ReportTravels
  <2>2. QED  BY <1>3, <2>1, ReportGoesOn, HeardStays
<1>6. CASE stream[s].proc # "done"
  <2>1. stream[s].proc # "reply"
    BY DEF AP!Whole, AP!ServedIsWhole, AP!Http, Http
  <2>2. ahub' = AP!At("send", Msg(s, "close"))
    BY <1>1, <1>4, <1>6, <2>1 DEF AP!Moves, AP!Msg, Msg
  <2>3. QED  BY <2>2 DEF OnItsWay, Msg
<1>7. QED  BY <1>5, <1>6

\* Nobody has spoken, and no stream is served.
LEMMA ReportStarts == JointInit => SpokenOverOne /\ ReportTravels
<1> SUFFICES ASSUME JointInit PROVE SpokenOverOne /\ ReportTravels
  OBVIOUS
<1>1. \A s \in Session : stream[s].proc # "done"
  BY DEF JointInit, Client!AgentInit
<1>2. \A c \in Conn : toUser[c] = None
  BY DEF JointInit, Init
<1>3. SpokenOverOne
  BY <1>2 DEF SpokenOverOne, Delivering
<1>4. ReportTravels
  BY <1>1 DEF ReportTravels
<1>5. QED  BY <1>3, <1>4

\* No report of an end is lost: from the moment the agent's hub takes the session
\* out until the handler of the session has returned, the report is somewhere
\* between the two, or the handler was never told that the session is connected.
THEOREM ReportsTravel == JointSpec => []ReportTravels
<1>1. JointSound /\ SpokenOverOne /\ ReportTravels /\ [JointNext]_jvars
         => SpokenOverOne' /\ ReportTravels'
  BY StepSpoken, StepReport
<1>2. QED  BY <1>1, ReportStarts, JointlySound, PTL DEF JointSpec
=============================================================================
