---------------------------- MODULE TunnelProofs ----------------------------
(***************************************************************************)
(* Server and agent, joined, are a Tunnel.  A step of either one moves at  *)
(* most one of what Tunnel is about, its user, its downstream or the       *)
(* connection.  That the user is told only what is so rests on what was    *)
(* true when the agent wrote it and stays true: that a downstream was      *)
(* reached (connect), that the processor is done (close).                  *)
(***************************************************************************)
EXTENDS EndToEndProofs

(* What the agent says and what of it is on its way.                       *)

\* A message of s that the agent's hub or writer holds,
Carried(s, type) == ahub.msg = Msg(s, type) \/ awriter.msg = Msg(s, type)

\* one on its way to the server, or from its reader to the session.
Sent(s, type) == \/ \E i \in 1..Len(uplink) : uplink[i] = Msg(s, type)
                 \/ \E c \in Conn : toUser[c] = Msg(s, type)

\* The agent answers for a downstream it reached, and closes a session when
\* its downstream is hung up.
ReachedIsSaid ==
    \A s \in Streams :
        /\ stream[s].proc \notin {"reply", "lost"}
        /\ stream[s].proc \in {"none", "dial"} => stream[s].down = "none"
        /\ stream[s].proc \in {"enrol", "wait"} => stream[s].down \in {"open", "ended"}
        /\ stream[s].proc = "unenrol" => stream[s].down = "closed"
        /\ Carried(s, "connect") => stream[s].down # "none"
        /\ Carried(s, "close") => stream[s].proc = "done"

SaidIsSent ==
    \A s \in Streams :
        /\ Sent(s, "connect") => stream[s].down # "none"
        /\ Sent(s, "close") => stream[s].proc = "done"

\* A slot that was not used yet is as good as new.
FreeIsFresh == \A c \in Conn : handler[c] = "free" => ~closed[c] /\ link[c] = "up"

\* A downstream is reached or hung up.
FarMoves(s) == \/ Far(s) = "none" /\ Far(s)' = "open"
               \/ Far(s) = "open" /\ Far(s)' = "closed"

AgentTells ==
    /\ \A s \in Streams : /\ stream[s].down # "none" => stream'[s].down # "none"
                          /\ stream[s].proc = "done" => stream'[s].proc = "done"
    /\ \/ \A s \in Streams : Far(s)' = Far(s)
       \/ \E t \in Streams : FarMoves(t) /\ \A s \in Streams \ {t} : Far(s)' = Far(s)

\* A step of the agent that leaves processors, downstreams and messages alone.
LEMMA AgentRests ==
  ASSUME ReachedIsSaid,
         \A s \in Streams : stream'[s].proc = stream[s].proc /\ stream'[s].down = stream[s].down,
         \A s \in Streams : /\ Carried(s, "connect")' => Carried(s, "connect")
                            /\ Carried(s, "close")' => Carried(s, "close") \/ stream[s].proc = "done"
  PROVE  ReachedIsSaid' /\ AgentTells
<1>1. ReachedIsSaid'
  BY DEF ReachedIsSaid, Streams, Http
<1>2. AgentTells
  BY DEF AgentTells, Far
<1>3. QED  BY <1>1, <1>2

\* One in which the processor of t goes on.
LEMMA AgentProcesses ==
  ASSUME ReachedIsSaid, NEW t \in Streams, NEW r, stream' = [stream EXCEPT ![t] = r],
         stream \in [Session -> Client!Stream],
         awriter' = awriter, ahub'.msg \in {ahub.msg, None, Msg(t, "connect"), Msg(t, "close")},
         \/ ahub' = ahub
         \/ /\ ahub'.msg = Msg(t, "connect") => r.down # "none"
            /\ ahub'.msg = Msg(t, "close") => r.proc = "done",
         r.proc \notin {"reply", "lost"},
         r.proc \in {"none", "dial"} => r.down = "none",
         r.proc \in {"enrol", "wait"} => r.down \in {"open", "ended"},
         r.proc = "unenrol" => r.down = "closed",
         stream[t].proc # "done",
         \/ r.down = stream[t].down
         \/ stream[t].down = "open" /\ r.down = "ended"
         \/ stream[t].down = "none" /\ r.down = "open"
         \/ stream[t].down \in {"open", "ended"} /\ r.down = "closed"
  PROVE  ReachedIsSaid' /\ AgentTells
<1>1. None \notin [session : Session, type : MessageType]
  BY EndToEndAssumption
<1>2. stream'[t] = r /\ \A s \in Streams \ {t} : stream'[s] = stream[s]
  BY DEF Streams
<1>3. \A s \in Streams \ {t} : /\ Carried(s, "connect")' => Carried(s, "connect")
                               /\ Carried(s, "close")' => Carried(s, "close")
  BY <1>1 DEF Carried, Msg, Streams, MessageType
<1>4. /\ Carried(t, "connect")' => r.down # "none"
      /\ Carried(t, "close")' => r.proc = "done"
  BY <1>1 DEF Carried, ReachedIsSaid, Msg
<1>5. ReachedIsSaid'
  <2> SUFFICES ASSUME NEW s \in Streams
               PROVE  /\ stream'[s].proc \notin {"reply", "lost"}
                      /\ stream'[s].proc \in {"none", "dial"} => stream'[s].down = "none"
                      /\ stream'[s].proc \in {"enrol", "wait"} => stream'[s].down \in {"open", "ended"}
                      /\ stream'[s].proc = "unenrol" => stream'[s].down = "closed"
                      /\ Carried(s, "connect")' => stream'[s].down # "none"
                      /\ Carried(s, "close")' => stream'[s].proc = "done"
    BY DEF ReachedIsSaid, Streams, Http
  <2>1. CASE s = t
    BY <1>2, <1>4, <2>1
  <2>2. CASE s # t
    BY <1>2, <1>3, <2>2 DEF ReachedIsSaid
  <2>3. QED  BY <2>1, <2>2
<1>6. AgentTells
  BY <1>2 DEF AgentTells, Far, FarMoves
<1>7. QED  BY <1>5, <1>6

\* The pumps, and the goroutines that serve a later message.
LEMMA AgentPumps ==
  ASSUME Client!AgentInv, NEW t \in Session,
         Client!Pump(t) \/ Client!Serve(t) \/ Client!ReadData(t) \/ Client!ReadClose(t)
  PROVE  \A s \in Session : stream'[s].proc = stream[s].proc /\ stream'[s].down = stream[s].down
<1>0. stream \in [Session -> Client!Stream]
  BY DEF Client!AgentInv, Client!AgentTypeOK
<1>1. CASE Client!FeederLoads(t)
  BY <1>0, <1>1 DEF Client!FeederLoads, Client!Stream
<1>2. CASE Client!FeederWrites(t)
  BY <1>0, <1>2 DEF Client!FeederWrites, Client!Stream
<1>3. CASE Client!FeederNotices(t) \/ Client!CloserCloses(t)
  BY <1>0, <1>3 DEF Client!FeederNotices, Client!CloserCloses, Client!Stream
<1>4. CASE Client!CloserLoads(t) /\ t \in asessions
  BY <1>0, <1>4 DEF Client!CloserLoads, Client!Stream
<1>5. CASE Client!CloserLoads(t) /\ t \notin asessions
  BY <1>0, <1>5 DEF Client!CloserLoads, Client!Stream
<1>6. CASE Client!InputLoops(t)
  BY <1>0, <1>6 DEF Client!InputLoops, Client!Stream
<1>7. CASE Client!InputFails(t) \/ Client!InputReceives(t)
  BY <1>0, <1>7 DEF Client!InputFails, Client!InputReceives, Client!Stream
<1>8. CASE Client!OutputLoops(t)
  BY <1>0, <1>8 DEF Client!OutputLoops, Client!Stream
<1>9. CASE Client!OutputReads(t) \/ Client!OutputFails(t)
  BY <1>0, <1>9 DEF Client!OutputReads, Client!OutputFails, Client!Stream
<1>10. CASE Client!OutputRelays(t) \/ Client!RelaySends(t)
  BY <1>0, <1>10 DEF Client!OutputRelays, Client!RelaySends, Client!Stream
<1>11. CASE Client!ReadData(t) \/ Client!ReadClose(t)
  BY <1>0, <1>11 DEF Client!ReadData, Client!ReadClose, Client!Stream
<1>12. QED
  BY <1>1, <1>2, <1>3, <1>4, <1>5, <1>6, <1>7, <1>8, <1>9, <1>10, <1>11 DEF Client!Serve, Client!Pump

\* Every step of the agent.
LEMMA AgentTold ==
  ASSUME Client!AgentInv, ReachedIsSaid, Client!AgentNext \/ UNCHANGED agentSide
  PROVE  ReachedIsSaid' /\ AgentTells
<1>0. stream \in [Session -> Client!Stream]
  BY DEF Client!AgentInv, Client!AgentTypeOK
<1>1. CASE UNCHANGED agentSide
  BY <1>1, AgentRests DEF agentSide, Carried
<1>2. CASE Client!ConnectionStep
  <2>1. \A s \in Streams : stream'[s].proc = stream[s].proc /\ stream'[s].down = stream[s].down
    <3>1. CASE Client!Redial
      BY <1>0, <3>1 DEF Client!Redial, Client!Abandoned, Client!Stream, Streams, ReachedIsSaid
    <3>2. CASE Client!RunCancels
      BY <1>0, <3>2 DEF Client!RunCancels, Client!Stream, Streams
    <3>3. CASE ~Client!Redial /\ ~Client!RunCancels
      BY <1>2, <3>3 DEF Client!ConnectionStep, Client!LinkBreaks, Client!WriterWrites,
         Client!WriterStops, Client!HubSends, Client!HubExits
    <3>4. QED  BY <3>1, <3>2, <3>3
  <2>2. ahub'.msg \in {ahub.msg, None} /\ awriter'.msg \in {awriter.msg, ahub.msg, None}
    BY <1>2 DEF Client!ConnectionStep, Client!Redial, Client!LinkBreaks, Client!RunCancels,
       Client!WriterWrites, Client!WriterStops, Client!HubSends, Client!HubExits,
       Client!WriterTakes, Client!At, Client!Selecting, Client!Gone
  <2>3. \A s \in Streams, type \in MessageType : Carried(s, type)' => Carried(s, type)
    <3>1. \A s \in Streams, type \in MessageType : Msg(s, type) # None
      BY EndToEndAssumption DEF Msg, Streams
    <3>2. QED  BY <2>2, <3>1 DEF Carried, Msg
  <2>4. QED  BY <2>1, <2>3, AgentRests DEF MessageType
<1>3. ASSUME NEW t \in Session,
             Client!Pump(t) \/ Client!Serve(t) \/ Client!ReadData(t) \/ Client!ReadClose(t)
      PROVE  ReachedIsSaid' /\ AgentTells
  <2>1. \A s \in Streams : stream'[s].proc = stream[s].proc /\ stream'[s].down = stream[s].down
    BY <1>3, AgentPumps DEF Streams
  <2>2. /\ ahub' = ahub
        /\ \/ awriter' = awriter
           \/ awriter'.msg = Msg(t, "data")
           \/ awriter'.msg = Msg(t, "close") /\ stream[t].feeder = "notice"
    <3>1. CASE Client!RelaySends(t)
      BY <3>1 DEF Client!RelaySends, Client!WriterTakes, Client!At, Client!Msg, Msg
    <3>2. CASE Client!FeederNotices(t)
      BY <3>2 DEF Client!FeederNotices, Client!WriterTakes, Client!At, Client!Msg, Msg
    <3>3. CASE ~Client!RelaySends(t) /\ ~Client!FeederNotices(t)
      BY <1>3, <3>3 DEF Client!Pump, Client!Serve, Client!InputLoops, Client!InputFails,
         Client!InputReceives, Client!OutputLoops, Client!OutputReads, Client!OutputFails,
         Client!OutputRelays, Client!FeederLoads, Client!FeederWrites, Client!CloserLoads,
         Client!CloserCloses, Client!ReadData, Client!ReadClose
    <3>4. QED  BY <3>1, <3>2, <3>3
  <2>3. stream[t].feeder = "notice" => stream[t].proc = "done"
    BY DEF Client!AgentInv, Client!NoticeIsLate
  <2>4. \A s \in Streams : /\ Carried(s, "connect")' => Carried(s, "connect")
                           /\ Carried(s, "close")' => Carried(s, "close") \/ stream[s].proc = "done"
    BY <2>2, <2>3 DEF Carried, Msg
  <2>5. QED  BY <2>1, <2>4, AgentRests
<1>4. ASSUME NEW t \in Session, t \notin Streams,
             Client!Process(t) \/ Client!ReadConnect(t) \/ Client!DownEnds(t)
      PROVE  ReachedIsSaid' /\ AgentTells
  <2>1. Http(t) /\ Client!Http(t)
    BY <1>4 DEF Streams, Http, Client!Http
  <2>2. \/ Client!HttpAnswers(t) \/ Client!HttpSends(t) \/ Client!ReadConnect(t) \/ Client!DownEnds(t)
    BY <1>4, <2>1 DEF Client!Process, Client!DialFails, Client!DialSucceeds, Client!Ends,
       Client!HubTakesEnrol, Client!HubTakesUnenrol, Client!AgentInv, Client!ProcessorLeads
  <2>3. /\ \A s \in Session \ {t} : stream'[s] = stream[s]
        /\ ahub' = ahub
        /\ awriter' = awriter \/ awriter'.msg = Msg(t, "connect")
    BY <1>0, <2>2 DEF Client!HttpAnswers, Client!HttpSends, Client!ReadConnect, Client!DownEnds,
       Client!WriterTakes, Client!At, Client!Msg, Msg
  <2>4. \A s \in Streams : s \in Session \ {t}
    BY <1>4 DEF Streams
  <2>5. \A s \in Streams : /\ Carried(s, "connect")' => Carried(s, "connect")
                           /\ Carried(s, "close")' => Carried(s, "close") \/ stream[s].proc = "done"
    BY <1>4, <2>3 DEF Carried, Msg
  <2>6. QED  BY <2>3, <2>4, <2>5, AgentRests
<1>5. ASSUME NEW t \in Streams, Client!Process(t) \/ Client!ReadConnect(t) \/ Client!DownEnds(t)
      PROVE  ReachedIsSaid' /\ AgentTells
  <2>0. /\ t \in Session /\ stream[t] \in Client!Stream
        /\ stream[t].proc \notin {"enrol", "wait"} => stream[t].down \in {"none", "closed"}
    BY <1>0 DEF Streams, Client!AgentInv, Client!ListedIsServed
  <2>1. CASE Client!ReadConnect(t) \/ Client!DialFails(t) \/ Client!HttpAnswers(t)
    <3> DEFINE r == [stream[t] EXCEPT !.proc = IF @ = "none" THEN "dial" ELSE "refuse"]
    <3>1. /\ stream' = [stream EXCEPT ![t] = r] /\ UNCHANGED <<ahub, awriter>>
          /\ stream[t].proc \in {"none", "dial"}
      BY <1>0, <2>0, <2>1 DEF Client!ReadConnect, Client!DialFails, Client!HttpAnswers, Client!Stream,
         Client!Http, Streams, Http
    <3>2. r.proc \in {"dial", "refuse"} /\ r.down = "none" /\ stream[t].down = "none"
      BY <2>0, <3>1 DEF Client!Stream, ReachedIsSaid
    <3> HIDE DEF r
    <3>3. QED  BY <1>0, <3>1, <3>2, AgentProcesses, EndToEndAssumption DEF Msg, Streams, MessageType
  <2>2. CASE Client!DialSucceeds(t)
    <3> DEFINE r == [stream[t] EXCEPT !.proc = "enrol", !.down = "open", !.input = "head",
                                      !.output = "head", !.relay = "read"]
    <3>1. /\ stream' = [stream EXCEPT ![t] = r] /\ UNCHANGED <<ahub, awriter>>
          /\ stream[t].proc = "dial" /\ stream[t].down = "none"
      BY <1>0, <2>0, <2>2 DEF Client!DialSucceeds, ReachedIsSaid
    <3>2. r.proc = "enrol" /\ r.down = "open"
      BY <2>0 DEF Client!Stream
    <3> HIDE DEF r
    <3>3. QED  BY <1>0, <3>1, <3>2, AgentProcesses
  <2>3. CASE Client!Ends(t)
    <3> DEFINE r == [stream[t] EXCEPT !.proc = "unenrol", !.down = "closed",
                                      !.status = Client!SetStatus(@, "process failed")]
    <3>1. /\ stream' = [stream EXCEPT ![t] = r] /\ UNCHANGED <<ahub, awriter>>
          /\ stream[t].proc = "wait" /\ stream[t].down \in {"open", "ended"}
      BY <1>0, <2>0, <2>3 DEF Client!Ends, ReachedIsSaid
    <3>2. r.proc = "unenrol" /\ r.down = "closed"
      BY <2>0 DEF Client!Stream
    <3> HIDE DEF r
    <3>3. QED  BY <1>0, <3>1, <3>2, AgentProcesses
  <2>4. CASE Client!HubTakesEnrol(t)
    <3> DEFINE r == [stream[t] EXCEPT !.proc = "wait"]
    <3>1. /\ stream' = [stream EXCEPT ![t] = r] /\ awriter' = awriter
          /\ ahub'.msg = Msg(t, "connect")
          /\ stream[t].proc = "enrol" /\ stream[t].down \in {"open", "ended"}
      BY <1>0, <2>0, <2>4 DEF Client!HubTakesEnrol, Client!At, Client!Msg, Msg, ReachedIsSaid
    <3>2. r.proc = "wait" /\ r.down = stream[t].down
      BY <2>0 DEF Client!Stream
    <3>3. Msg(t, "connect") # Msg(t, "close")
      BY DEF Msg
    <3>4. /\ r.down \in {"open", "ended"} /\ stream[t].proc # "done"
          /\ r.proc \notin {"none", "dial", "unenrol", "reply", "lost", "done"}
          /\ ahub'.msg \in {ahub.msg, None, Msg(t, "connect"), Msg(t, "close")}
          /\ ahub'.msg # Msg(t, "close")
      BY <3>1, <3>2, <3>3
    <3> HIDE DEF r
    <3>5. QED  BY <1>0, <3>1, <3>2, <3>4, AgentProcesses
  <2>5. CASE Client!HubTakesUnenrol(t)
    <3> DEFINE r == [stream[t] EXCEPT !.proc = "done", !.closed = @ \/ t \in asessions]
    <3>1. /\ stream' = [stream EXCEPT ![t] = r] /\ awriter' = awriter
          /\ ahub'.msg \in {None, Msg(t, "close")}
          /\ stream[t].proc \in {"unenrol", "refuse"}
      BY <1>0, <2>0, <2>5 DEF Client!HubTakesUnenrol, Client!At, Client!Msg, Msg, Client!Selecting
    <3>2. r.proc = "done" /\ r.down = stream[t].down
      BY <2>0 DEF Client!Stream
    <3>3. Msg(t, "connect") # None /\ Msg(t, "connect") # Msg(t, "close")
      BY <2>0, EndToEndAssumption DEF Msg, MessageType
    <3>4. /\ stream[t].proc # "done"
          /\ r.proc \notin {"none", "dial", "enrol", "wait", "unenrol", "reply", "lost"}
          /\ ahub'.msg \in {ahub.msg, None, Msg(t, "connect"), Msg(t, "close")}
          /\ ahub'.msg # Msg(t, "connect")
      BY <3>1, <3>2, <3>3
    <3> HIDE DEF r
    <3>5. QED  BY <1>0, <3>1, <3>2, <3>4, AgentProcesses
  <2>6. CASE Client!DownEnds(t)
    <3> DEFINE r == [stream[t] EXCEPT !.down = "ended"]
    <3>1. /\ stream' = [stream EXCEPT ![t] = r] /\ UNCHANGED <<ahub, awriter>>
          /\ stream[t].down = "open" /\ stream[t].proc \in {"enrol", "wait"}
      BY <1>0, <2>0, <2>6 DEF Client!DownEnds
    <3>2. r.proc = stream[t].proc /\ r.down = "ended"
      BY <2>0 DEF Client!Stream
    <3> HIDE DEF r
    <3>3. QED  BY <1>0, <3>1, <3>2, AgentProcesses DEF ReachedIsSaid
  <2>7. CASE Client!HttpSends(t)
    BY <2>7 DEF Client!HttpSends, ReachedIsSaid
  <2>8. QED  BY <1>5, <2>1, <2>2, <2>3, <2>4, <2>5, <2>6, <2>7 DEF Client!Process
<1>6. QED  BY <1>1, <1>2, <1>3, <1>4, <1>5 DEF Client!AgentNext, Client!Peer, Streams

-----------------------------------------------------------------------------
(* The connection.                                                         *)

\* A connection that was lost is not used again.
LEMMA LossStays ==
  ASSUME RegistryInv, FreeIsFresh, [Next]_vars
  PROVE  FreeIsFresh' /\ (Broken => Broken')
<1>0. /\ handler \in [Conn -> Handler] /\ closed \in [Conn -> BOOLEAN] /\ link \in [Conn -> {"up", "down"}]
  BY DEF RegistryInv, RegistryTypeOK
<1>1. ASSUME UNCHANGED <<closed, link>>, \A c \in Conn : handler'[c] = "free" => handler[c] = "free"
      PROVE  FreeIsFresh' /\ (Broken => Broken')
  BY <1>1 DEF FreeIsFresh, Broken
<1>2. ASSUME NEW c \in Conn, ConnStep(c)
      PROVE  FreeIsFresh' /\ (Broken => Broken')
  <2>1. CASE Upgrade(c) /\ handler[c] = "free"
    BY <1>0, <2>1 DEF Upgrade, FreeIsFresh, Broken
  <2>2. CASE Refuse(c)
    BY <1>0, <2>2 DEF Refuse, FreeIsFresh, Broken
  <2>3. CASE LinkBreaks(c)
    BY <1>0, <2>3 DEF LinkBreaks, FreeIsFresh, Broken
  <2>4. CASE CheckOffline(c) \/ PingEnds(c) \/ ReaderExits(c) \/ WriterExits(c)
    BY <1>0, <1>1, <2>4 DEF CheckOffline, PingEnds, ReaderExits, WriterExits
  <2>5. CASE HubTakesRegister(c) \/ HubTakesUnregister(c)
    BY <1>0, <1>1, <2>5 DEF HubTakesRegister, HubTakesUnregister
  <2>6. QED  BY <1>2, <2>1, <2>2, <2>3, <2>4, <2>5 DEF ConnStep
<1>3. CASE HubCloses
  <2>1. hub.conn \in Conn => handler[hub.conn] # "free"
    BY <1>3 DEF HubCloses, RegistryInv, HubHoldsLive
  <2>2. UNCHANGED <<handler, link>> /\ closed' = [closed EXCEPT ![hub.conn] = TRUE]
    BY <1>3 DEF HubCloses
  <2>3. QED  BY <1>0, <2>1, <2>2 DEF FreeIsFresh, Broken
<1>4. CASE HubStores \/ HubDeletes \/ \E i \in Id : ManualDisconnect(i)
  BY <1>1, <1>4 DEF HubStores, HubDeletes, ManualDisconnect
<1>5. ASSUME NEW c \in Conn, WriterFails(c) \/ HubTakesFailed(c)
      PROVE  UNCHANGED <<handler, closed, link>>
  BY <1>5 DEF WriterFails, HubTakesFailed, WriterExits, rvars
<1>6. ASSUME NEW c \in Conn, PumpStep(c), ~WriterFails(c), ~HubTakesFailed(c)
      PROVE  UNCHANGED rvars
  BY <1>6 DEF PumpStep, ReaderPanics, WriterWrites, SessionReceives, WriterReceives, ReaderReads
<1>7. CASE ShubStep
  BY <1>1, <1>7 DEF ShubStep, HubStoresSession, HubAnnounces, HubClosesSession, rvars
<1>8. ASSUME NEW s \in Session, SessionStep(s)
      PROVE  UNCHANGED rvars
  BY <1>8 DEF SessionStep, Lookup, Login, Dial, Encode, RequestPanics, AwaitTimesOut, Depart,
       PumpEnds, UserLeaves, UpReaderStops, UpReaderFails, UpReaderReads, UpReaderPanics,
       HubTakesEnrol, HubTakesUnenrol
<1>9. CASE UNCHANGED rvars
  BY <1>1, <1>9 DEF rvars
<1>10. CASE UNCHANGED vars
  BY <1>9, <1>10 DEF vars
<1>11. CASE RegistryStep
  BY <1>2, <1>3, <1>4, <1>11 DEF RegistryStep, HubStep
<1>12. ASSUME NEW c \in Conn, PumpStep(c) PROVE FreeIsFresh' /\ (Broken => Broken')
  BY <1>1, <1>5, <1>6, <1>9, <1>12
<1>13. QED  BY <1>7, <1>8, <1>9, <1>10, <1>11, <1>12 DEF Next

-----------------------------------------------------------------------------
(* What the user is told.                                                  *)

\* A handler on its way out.
Parted == {"leave", "unenrol", "done"}

\* The moves of Tunnel that a user sees, and a step that makes at most one.
ViewMoves(t) ==
  \/ View(t) \in {"waiting", "open"} /\ View(t)' = "left"
  \/ View(t) = "waiting" /\ View(t)' = "open" /\ Far(t) # "none"
  \/ View(t) # "hung up" /\ View(t)' = "hung up" /\ (Far(t) # "open" \/ Broken)

UserTold ==
  \/ \A s \in Streams : View(s)' = View(s)
  \/ /\ Broken' = Broken
     /\ \E t \in Streams : ViewMoves(t) /\ \A s \in Streams \ {t} : View(s)' = View(s)

\* A step that does not end a session.
LEMMA ViewStays ==
  ASSUME \A s \in Streams : /\ sess'[s].status = sess[s].status
                            /\ sess'[s].at \in Parted <=> sess[s].at \in Parted
  PROVE  UserTold
BY DEF UserTold, View, Parted

\* One that changes the session t.
LEMMA ViewOfOne ==
  ASSUME NEW t \in Session, UNCHANGED rvars,
         \A s \in Session \ {t} : sess'[s] = sess[s],
         Http(t) \/
         \/ /\ sess'[t].status = sess[t].status
            /\ sess[t].at \in Parted => sess'[t].at \in Parted
         \/ /\ sess'[t].status = SetStatus(sess[t].status, "upstream closed")
            /\ sess[t].at \in Parted => sess'[t].at \in Parted
         \/ /\ sess[t].status = "connecting" /\ sess'[t].status = "connected"
            /\ sess[t].at \notin Parted /\ sess'[t].at \notin Parted
            /\ Far(t) # "none"
         \/ /\ sess'[t].status = SetStatus(sess[t].status, "downstream closed")
            /\ sess[t].at \in Parted => sess'[t].at \in Parted
            /\ Far(t) # "open" \/ Broken
  PROVE  UserTold
<1>1. Broken' = Broken
  BY DEF Broken, rvars
<1>2. \A s \in Streams \ {t} : View(s)' = View(s)
  BY DEF View, Streams
<1>3. t \notin Streams => UserTold
  BY <1>2 DEF UserTold
<1>4. ASSUME t \in Streams PROVE View(t)' = View(t) \/ ViewMoves(t)
  <2>0. ~Http(t)
    BY <1>4 DEF Streams
  <2> USE DEF View, Parted
  <2>1. CASE /\ sess'[t].status = sess[t].status
             /\ sess[t].at \in Parted => sess'[t].at \in Parted
    BY <2>1 DEF ViewMoves
  <2>2. CASE /\ sess'[t].status = SetStatus(sess[t].status, "upstream closed")
             /\ sess[t].at \in Parted => sess'[t].at \in Parted
    BY <2>2 DEF ViewMoves, SetStatus, Ended
  <2>3. CASE /\ sess[t].status = "connecting" /\ sess'[t].status = "connected"
             /\ sess[t].at \notin Parted /\ sess'[t].at \notin Parted
             /\ Far(t) # "none"
    BY <2>3 DEF ViewMoves
  <2>4. CASE /\ sess'[t].status = SetStatus(sess[t].status, "downstream closed")
             /\ sess[t].at \in Parted => sess'[t].at \in Parted
             /\ Far(t) # "open" \/ Broken
    BY <2>4 DEF ViewMoves, SetStatus, Ended
  <2>5. QED  BY <2>0, <2>1, <2>2, <2>3, <2>4
<1>5. QED  BY <1>1, <1>2, <1>3, <1>4 DEF UserTold

\* Steps of a session's own goroutines.
LEMMA SessionTells ==
  ASSUME SessionInv, NEW t \in Session, SessionStep(t)
  PROVE  UserTold
<1>0. sess \in [Session -> SessionObject]
  BY ServerFacts
<1>1. \A s \in Session \ {t} : sess'[s] = sess[s]
  BY OthersStay
<1>2. UNCHANGED rvars
  BY DEF SessionStep, Lookup, Login, Dial, Encode, RequestPanics, AwaitTimesOut, Depart,
       PumpEnds, UserLeaves, UpReaderStops, UpReaderFails, UpReaderReads, UpReaderPanics,
       HubTakesEnrol, HubTakesUnenrol
<1>3. CASE UpReaderFails(t)
  <2>1. /\ sess'[t].status = SetStatus(sess[t].status, "upstream closed")
        /\ sess'[t].at = sess[t].at
    BY <1>0, <1>3 DEF UpReaderFails, SessionObject
  <2>2. QED  BY <1>1, <1>2, <2>1, ViewOfOne
<1>4. CASE ~UpReaderFails(t)
  <2>1. /\ sess'[t].status = sess[t].status
        /\ sess[t].at \in Parted => sess'[t].at \in Parted
    <3> USE <1>0 DEF Parted, SessionObject
    <3>1. CASE Lookup(t)
      BY <3>1 DEF Lookup
    <3>2. CASE Login(t)
      BY <3>2 DEF Login
    <3>3. CASE Dial(t)
      BY <3>3 DEF Dial
    <3>4. CASE Encode(t) \/ RequestPanics(t) \/ AwaitTimesOut(t)
      BY <3>4 DEF Encode, RequestPanics, AwaitTimesOut
    <3>5. CASE Depart(t)
      BY <3>5 DEF Depart
    <3>6. CASE PumpEnds(t)
      BY <3>6 DEF PumpEnds, Leave
    <3>7. CASE UserLeaves(t)
      BY <3>7 DEF UserLeaves
    <3>8. CASE UpReaderStops(t)
      BY <3>8 DEF UpReaderStops
    <3>9. CASE UpReaderReads(t) \/ UpReaderPanics(t)
      BY <3>9 DEF UpReaderReads, UpReaderPanics
    <3>10. CASE HubTakesEnrol(t)
      BY <3>10 DEF HubTakesEnrol
    <3>11. CASE HubTakesUnenrol(t)
      BY <3>11 DEF HubTakesUnenrol
    <3>12. QED  BY <1>4, <3>1, <3>2, <3>3, <3>4, <3>5, <3>6, <3>7, <3>8, <3>9, <3>10, <3>11 DEF SessionStep
  <2>2. QED  BY <1>1, <1>2, <2>1, ViewOfOne
<1>5. QED  BY <1>3, <1>4

\* The message a session receives was said by the agent.
LEMMA ReceiverTells ==
  ASSUME SessionInv, Client!AgentInv, SaidIsSent, NEW c \in Conn, NEW t \in Session, SessionReceives(c, t)
  PROVE  UserTold
<1>0. sess \in [Session -> SessionObject]
  BY ServerFacts
<1>1. \A s \in Session \ {t} : sess'[s] = sess[s]
  BY <1>0, ServerFacts DEF SessionReceives, Leave, MessageType
<1>2. UNCHANGED rvars
  BY DEF SessionReceives
<1>3. toUser[c] = Msg(t, toUser[c].type) /\ toUser[c].type \in {"connect", "data", "close"}
  BY ServerFacts DEF SessionReceives, Msg, MessageType
<1>4. sess[t].at \in {"pump", "await"}
  BY DEF SessionReceives, Receives
<1>5. CASE Http(t)
  BY <1>1, <1>2, <1>5, ViewOfOne
<1>6. CASE ~Http(t) /\ toUser[c].type = "connect" /\ sess[t].status = "connecting"
  <2>1. sess'[t].status = "connected" /\ sess'[t].at = "reenrol"
    BY <1>0, <1>6 DEF SessionReceives, SessionObject
  <2>2. Sent(t, "connect") /\ t \in Streams
    BY <1>3, <1>6 DEF Sent, Streams
  <2>3. Far(t) # "none"
    BY <2>2 DEF SaidIsSent, Far
  <2>4. QED  BY <1>1, <1>2, <1>4, <1>6, <2>1, <2>3, ViewOfOne DEF Parted
<1>7. CASE ~Http(t) /\ toUser[c].type = "close"
  <2>1. sess'[t].status = SetStatus(sess[t].status, "downstream closed") /\ sess'[t].at = "leave"
    <3> DEFINE L == Leave(t)
    <3>1. sess' = [L EXCEPT ![t].status = SetStatus(@, "downstream closed")]
      BY <1>7 DEF SessionReceives
    <3>2. L \in [Session -> SessionObject] /\ L[t].status = sess[t].status /\ L[t].at = "leave"
      <4> DEFINE r == [sess[t] EXCEPT !.at = "leave", !.ended = TRUE]
      <4>1. L = [sess EXCEPT ![t] = r]
        BY <1>0 DEF Leave
      <4>2. sess[t] \in SessionObject
        BY <1>0
      <4>3. r \in SessionObject /\ r.status = sess[t].status /\ r.at = "leave"
        BY <4>2 DEF SessionObject, ProxyAt
      <4> HIDE DEF r, L
      <4>4. QED  BY <1>0, <4>1, <4>3
    <3> HIDE DEF L
    <3>3. QED  BY <3>1, <3>2 DEF SessionObject
  <2>2. Sent(t, "close") /\ t \in Streams
    BY <1>3, <1>7 DEF Sent, Streams
  <2>3. stream[t].proc = "done"
    BY <2>2 DEF SaidIsSent
  <2>4. stream[t].down \in {"none", "closed"}
    BY <2>3 DEF Client!AgentInv, Client!ListedIsServed
  <2>5. Far(t) # "open"
    BY <2>4 DEF Far
  <2>6. QED  BY <1>1, <1>2, <1>4, <2>1, <2>5, ViewOfOne DEF Parted
<1>8. CASE ~Http(t) /\ (toUser[c].type = "data" \/ (toUser[c].type = "connect" /\ sess[t].status # "connecting"))
  <2>1. sess' = sess
    BY <1>8 DEF SessionReceives
  <2>2. QED  BY <2>1, ViewStays
<1>9. QED
  <2>1. toUser[c].type = "connect" \/ toUser[c].type = "data" \/ toUser[c].type = "close"
    BY <1>3
  <2>2. CASE Http(t)
    BY <1>5, <2>2
  <2>3. CASE ~Http(t) /\ toUser[c].type = "close"
    BY <1>7, <2>3
  <2>4. CASE ~Http(t) /\ toUser[c].type = "data"
    BY <1>8, <2>4
  <2>5. CASE ~Http(t) /\ toUser[c].type = "connect" /\ sess[t].status = "connecting"
    BY <1>6, <2>5
  <2>6. CASE ~Http(t) /\ toUser[c].type = "connect" /\ sess[t].status # "connecting"
    BY <1>8, <2>6
  <2>7. QED  BY <2>1, <2>2, <2>3, <2>4, <2>5, <2>6

\* Every step of the server.
LEMMA ServerTells ==
  ASSUME SessionInv, Client!AgentInv, SaidIsSent, [Next]_vars
  PROVE  UserTold
<1>0. sess \in [Session -> SessionObject]
  BY ServerFacts
<1>1. CASE sess' = sess
  BY <1>1, ViewStays
<1>2. CASE RegistryStep \/ UNCHANGED vars
  <2>1. UNCHANGED svars
    BY <1>2 DEF RegistryStep, ConnStep, vars
  <2>2. QED  BY <1>1, <2>1 DEF svars
<1>3. CASE ShubStep
  <2>1. CASE HubClosesSession
    <3>1. \A s \in Session : sess'[s].status = sess[s].status /\ sess'[s].at = sess[s].at
      BY <1>0, <2>1 DEF HubClosesSession, SessionObject
    <3>2. QED  BY <3>1, ViewStays DEF Streams
  <2>2. CASE ~HubClosesSession
    BY <1>1, <1>3, <2>2 DEF ShubStep, HubStoresSession, HubAnnounces
  <2>3. QED  BY <2>1, <2>2
<1>4. ASSUME NEW s \in Session, SessionStep(s) PROVE UserTold
  BY <1>4, SessionTells
<1>5. ASSUME NEW c \in Conn, ReaderPanics(c) \/ WriterWrites(c) \/ HubTakesFailed(c) PROVE sess' = sess
  BY <1>5 DEF ReaderPanics, WriterWrites, HubTakesFailed
<1>6. ASSUME NEW c \in Conn, WriterFails(c) PROVE UserTold
  <2>1. PICK t : t = toAgent[c].session
    OBVIOUS
  <2>2. t \in Session
    BY <1>6, <2>1, ServerFacts DEF WriterFails
  <2>3. CASE t \in sessions
    <3>1. /\ UNCHANGED rvars
          /\ sess' = [sess EXCEPT ![t].status = SetStatus(@, "downstream closed")]
      BY <1>6, <2>1, <2>3 DEF WriterFails
    <3>2. Broken
      BY <1>6 DEF WriterFails, CanFail, Broken
    <3>3. /\ sess'[t].status = SetStatus(sess[t].status, "downstream closed")
          /\ sess'[t].at = sess[t].at
          /\ \A s \in Session \ {t} : sess'[s] = sess[s]
      BY <1>0, <2>2, <3>1 DEF SessionObject
    <3>4. QED  BY <2>2, <3>1, <3>2, <3>3, ViewOfOne
  <2>4. CASE t \notin sessions
    BY <1>1, <1>6, <2>1, <2>4 DEF WriterFails
  <2>5. QED  BY <2>3, <2>4
<1>7. ASSUME NEW c \in Conn, NEW s \in Session, SessionReceives(c, s) PROVE UserTold
  BY <1>7, ReceiverTells
<1>8. ASSUME NEW c \in Conn, NEW s \in Session, WriterReceives(c, s) PROVE UserTold
  <2>1. \A t \in Session : sess'[t].status = sess[t].status /\ (sess'[t].at \in Parted <=> sess[t].at \in Parted)
    BY <1>0, <1>8 DEF WriterReceives, SessionObject, Parted
  <2>2. QED  BY <2>1, ViewStays DEF Streams
<1>9. ASSUME NEW c \in Conn, NEW s \in Session, NEW type \in MessageType, ReaderReads(c, s, type) PROVE sess' = sess
  BY <1>9 DEF ReaderReads
<1>10. QED  BY <1>1, <1>2, <1>3, <1>4, <1>5, <1>6, <1>7, <1>8, <1>9 DEF Next, PumpStep

-----------------------------------------------------------------------------
(* The joint steps.                                                        *)

\* What the server is about to pass on comes from the wire, and what is on the
\* wire from the agent's writer.
LEMMA SentMoves ==
  ASSUME SessionInv, WiresTypeOK, [JointNext]_jvars
  PROVE  \A s \in Streams, type \in MessageType : Sent(s, type)' => Sent(s, type) \/ Carried(s, type)
<1>0. \A s \in Streams, type \in MessageType : Msg(s, type) # None
  BY EndToEndAssumption DEF Msg, Streams
<1>1. ASSUME uplink' = uplink, \A c \in Conn : toUser'[c] \in {toUser[c], None}
      PROVE  \A s \in Streams, type \in MessageType : Sent(s, type)' => Sent(s, type)
  BY <1>0, <1>1 DEF Sent, Msg
<1>2. CASE UNCHANGED <<uplink, toUser>>
  BY <1>1, <1>2
<1>3. CASE ServerAlone
  <2>1. uplink' = uplink
    BY <1>3 DEF ServerAlone, wires
  <2>2. ASSUME NEW c \in Conn, NEW s \in Session, SessionReceives(c, s)
        PROVE  \A d \in Conn : toUser'[d] \in {toUser[d], None}
    BY <2>2, ServerFacts DEF SessionReceives
  <2>3. ASSUME NEW c \in Conn, \/ ConnStep(c) \/ ReaderPanics(c) \/ WriterFails(c) \/ HubTakesFailed(c)
                               \/ \E s \in Session : WriterReceives(c, s)
        PROVE  toUser' = toUser
    BY <2>3 DEF ConnStep, svars, ReaderPanics, WriterFails, HubTakesFailed, WriterReceives
  <2>4. ASSUME NEW s \in Session, SessionStep(s)
        PROVE  toUser' = toUser
    BY <2>4 DEF SessionStep, Lookup, Login, Dial, Encode, RequestPanics, AwaitTimesOut, Depart,
       PumpEnds, UserLeaves, UpReaderStops, UpReaderFails, UpReaderReads, UpReaderPanics,
       HubTakesEnrol, HubTakesUnenrol
  <2>5. ASSUME HubStoresSession \/ HubAnnounces \/ UNCHANGED svars
        PROVE  toUser' = toUser
    BY <2>5 DEF HubStoresSession, HubAnnounces, svars
  <2>6. QED  BY <1>1, <1>3, <2>1, <2>2, <2>3, <2>4, <2>5 DEF ServerAlone
<1>4. ASSUME NEW c \in Conn, Connect(c)
      PROVE  \A s \in Streams, type \in MessageType : Sent(s, type)' => Sent(s, type)
  <2>1. toUser' = toUser /\ uplink' = <<>>
    BY <1>4 DEF Connect, ConnStep, svars
  <2>2. QED  BY <2>1 DEF Sent, Msg
<1>5. ASSUME NEW c \in Conn, ServerLoses(c) \/ Forwards(c)
      PROVE  UNCHANGED <<uplink, toUser>>
  BY <1>5 DEF ServerLoses, ConnStep, Forwards, WriterWrites, wires, svars
<1>6. ASSUME NEW c \in Conn, Reads(c)
      PROVE  \A s \in Streams, type \in MessageType : Sent(s, type)' => Sent(s, type)
  <2>1. uplink # <<>> /\ uplink' = Tail(uplink)
    BY <1>6 DEF Reads
  <2>2. \A i \in 1..Len(uplink') : i + 1 \in 1..Len(uplink) /\ uplink'[i] = uplink[i + 1]
    BY <2>1, HeadOfWire DEF WiresTypeOK
  <2>3. /\ uplink[1] = Msg(uplink[1].session, uplink[1].type)
        /\ 1 \in 1..Len(uplink)
    <3> DEFINE M == [session : Session, type : MessageType]
    <3>1. uplink \in Seq(M) /\ 1 \in 1..Len(uplink)
      BY <2>1, HeadOfWire DEF WiresTypeOK
    <3> HIDE DEF M
    <3>2. uplink[1] \in M
      BY <3>1
    <3>3. QED  BY <3>1, <3>2 DEF M, Msg
  <2>4. \A d \in Conn : toUser'[d] \in {toUser[d], Msg(uplink[1].session, uplink[1].type)}
    <3>1. Head(uplink) = uplink[1]
      BY <2>1, HeadOfWire
    <3>2. ReaderReads(c, uplink[1].session, uplink[1].type)
      BY <1>6, <3>1 DEF Reads
    <3>3. QED  BY <3>2, ServerFacts DEF ReaderReads, Msg
  <2>5. QED
    <3> SUFFICES ASSUME NEW s \in Streams, NEW type \in MessageType, Sent(s, type)' PROVE Sent(s, type)
      OBVIOUS
    <3>1. CASE \E i \in 1..Len(uplink') : uplink'[i] = Msg(s, type)
      BY <2>2, <3>1 DEF Sent
    <3>2. CASE \E d \in Conn : toUser'[d] = Msg(s, type)
      BY <2>3, <2>4, <3>2 DEF Sent
    <3>3. QED  BY <3>1, <3>2 DEF Sent, Msg
<1>7. ASSUME NEW s \in Session, Dials(s) \/ Serves(s)
      PROVE  UNCHANGED <<uplink, toUser>>
  BY <1>7 DEF Dials, Dial, Serves, ServesClose, vars, svars
<1>8. CASE Closes \/ AgentLoses \/ AgentAlone \/ UNCHANGED jvars
  BY <1>2, <1>8 DEF Closes, HubClosesSession, AgentLoses, AgentAlone, jvars, vars, svars, wires
<1>9. CASE Replies
  <2>1. toUser' = toUser /\ uplink' \in {uplink, Append(uplink, awriter.msg)}
    BY <1>9 DEF Replies, vars, svars
  <2>2. uplink \in Seq([session : Session, type : MessageType])
    BY DEF WiresTypeOK
  <2>3. \A i \in 1..Len(uplink') : \/ i \in 1..Len(uplink) /\ uplink'[i] = uplink[i]
                                   \/ uplink'[i] = awriter.msg
    BY <2>1, <2>2
  <2>4. QED  BY <2>1, <2>3 DEF Sent, Carried, Msg
<1>10. QED
  BY <1>2, <1>3, <1>4, <1>5, <1>6, <1>7, <1>8, <1>9 DEF JointNext

\* What both ends have to do with a tunnel,
TunnelInv == ReachedIsSaid /\ SaidIsSent /\ FreeIsFresh

\* and that at most one of them moves it.
LEMMA OneMoves ==
  ASSUME RegistryInv, Client!AgentInv, FreeIsFresh, [JointNext]_jvars
  PROVE  \/ \A s \in Streams : Far(s)' = Far(s)
         \/ Broken' = Broken /\ \A s \in Streams : View(s)' = View(s)
<1>1. CASE UNCHANGED agentSide
  BY <1>1 DEF agentSide, Far
<1>2. CASE UNCHANGED vars
  BY <1>2 DEF vars, rvars, svars, Broken, View
<1>3. ASSUME NEW c \in Conn, Connect(c)
      PROVE  Broken' = Broken /\ \A s \in Streams : View(s)' = View(s)
  <2>1. /\ sess' = sess /\ handler[c] = "free"
        /\ closed' = [closed EXCEPT ![c] = FALSE] /\ link' = [link EXCEPT ![c] = "up"]
    BY <1>3 DEF Connect, ConnStep, Upgrade, svars, Refuse, CheckOffline, PingEnds, LinkBreaks,
       ReaderExits, WriterExits, HubTakesRegister, HubTakesUnregister, RegistryInv, RegistryTypeOK
  <2>2. closed \in [Conn -> BOOLEAN] /\ link \in [Conn -> {"up", "down"}]
    BY DEF RegistryInv, RegistryTypeOK
  <2>3. closed' = closed /\ link' = link
    BY <2>1, <2>2 DEF FreeIsFresh
  <2>4. QED  BY <2>1, <2>3 DEF Broken, View
<1>4. CASE UNCHANGED jvars
  BY <1>2, <1>4 DEF jvars
<1>5. CASE ServerAlone \/ Closes \/ \E s \in Session : Dials(s)
  BY <1>1, <1>5 DEF ServerAlone, Closes, Dials
<1>6. ASSUME NEW c \in Conn, ServerLoses(c) \/ Forwards(c) \/ Reads(c) PROVE UNCHANGED agentSide
  BY <1>6 DEF ServerLoses, Forwards, Reads
<1>7. CASE AgentAlone \/ AgentLoses \/ Replies \/ \E s \in Session : Serves(s)
  BY <1>2, <1>7 DEF AgentAlone, AgentLoses, Replies, Serves, ServesClose
<1>8. QED  BY <1>1, <1>3, <1>4, <1>5, <1>6, <1>7 DEF JointNext

\* Every step keeps what there is to know of the tunnel.
LEMMA TunnelKeeps ==
  ASSUME JointInv, TunnelInv, [JointNext]_jvars
  PROVE  TunnelInv' /\ AgentTells /\ UserTold /\ (Broken => Broken')
<1> USE DEF JointInv, TunnelInv
<1>1. [Next]_vars
  BY ServerMoves
<1>2. ReachedIsSaid' /\ AgentTells
  BY AgentMoves, AgentTold
<1>3. FreeIsFresh' /\ (Broken => Broken')
  BY <1>1, LossStays
<1>4. UserTold
  BY <1>1, ServerTells
<1>5. SaidIsSent'
  <2> SUFFICES ASSUME NEW s \in Streams
               PROVE  /\ Sent(s, "connect")' => stream'[s].down # "none"
                      /\ Sent(s, "close")' => stream'[s].proc = "done"
    BY DEF SaidIsSent, Streams, Http
  <2>1. /\ Sent(s, "connect")' => Sent(s, "connect") \/ Carried(s, "connect")
        /\ Sent(s, "close")' => Sent(s, "close") \/ Carried(s, "close")
    BY SentMoves DEF MessageType
  <2>2. QED  BY <1>2, <2>1 DEF SaidIsSent, ReachedIsSaid, AgentTells
<1>6. QED  BY <1>2, <1>3, <1>4, <1>5

\* The user's side and the downstream's of this composition.
Users == [s \in Streams |-> View(s)]
Fars  == [s \in Streams |-> Far(s)]

\* Every step is one of Tunnel or leaves it alone.
LEMMA StepsAsTunnel ==
  ASSUME JointInv, TunnelInv, [JointNext]_jvars
  PROVE  [Promise!TunnelNext]_(Promise!tvars)
<1>0. SUFFICES Promise!TunnelNext \/ UNCHANGED <<Users, Fars, Broken>>
  BY DEF Promise!tvars, Users, Fars
<1>1. AgentTells /\ UserTold /\ (Broken => Broken')
  BY TunnelKeeps
<1>2. Broken \in BOOLEAN /\ Broken' \in BOOLEAN
  BY DEF Broken
<1>3. /\ Users = [s \in Streams |-> View(s)] /\ Users' = [s \in Streams |-> View(s)']
      /\ Fars = [s \in Streams |-> Far(s)] /\ Fars' = [s \in Streams |-> Far(s)']
  BY DEF Users, Fars, Streams, Http
<1>4. CASE \A s \in Streams : Far(s)' = Far(s)
  <2>1. Fars' = Fars
    BY <1>3, <1>4
  <2>2. CASE \A s \in Streams : View(s)' = View(s)
    <3>1. Users' = Users
      BY <1>3, <2>2
    <3>2. CASE Broken' = Broken
      BY <2>1, <3>1, <3>2
    <3>3. CASE Broken' # Broken
      <4>1. ~Broken /\ Broken'
        BY <1>1, <1>2, <3>3
      <4>2. Promise!Lose
        BY <2>1, <3>1, <4>1 DEF Promise!Lose, Users, Fars
      <4>3. QED  BY <4>2 DEF Promise!TunnelNext
    <3>4. QED  BY <3>2, <3>3
  <2>3. ASSUME NEW t \in Streams, ViewMoves(t), \A s \in Streams \ {t} : View(s)' = View(s),
               Broken' = Broken
        PROVE  Promise!TunnelNext
    <3>1. Users' = [Users EXCEPT ![t] = View(t)'] /\ Users[t] = View(t) /\ Fars[t] = Far(t)
      BY <1>3, <2>3
    <3>2. Promise!Leave(t) \/ Promise!Open(t) \/ Promise!HearOfIt(t)
      BY <2>1, <2>3, <3>1 DEF ViewMoves, Promise!Leave, Promise!Open, Promise!HearOfIt, Users, Fars
    <3>3. QED  BY <3>2 DEF Promise!TunnelNext
  <2>4. QED  BY <1>1, <2>2, <2>3 DEF UserTold
<1>5. CASE Broken' = Broken /\ \A s \in Streams : View(s)' = View(s)
  <2>1. Users' = Users
    BY <1>3, <1>5
  <2>2. ASSUME NEW t \in Streams, FarMoves(t), \A s \in Streams \ {t} : Far(s)' = Far(s)
        PROVE  Promise!TunnelNext
    <3>1. Fars' = [Fars EXCEPT ![t] = Far(t)'] /\ Fars[t] = Far(t)
      BY <1>3, <2>2
    <3>2. Promise!Reach(t) \/ Promise!HangUp(t)
      BY <1>5, <2>1, <2>2, <3>1 DEF FarMoves, Promise!Reach, Promise!HangUp, Users, Fars
    <3>3. QED  BY <3>2 DEF Promise!TunnelNext
  <2>3. QED  BY <1>1, <1>4, <2>2 DEF AgentTells
<1>6. QED  BY <1>4, <1>5, OneMoves DEF JointInv, TunnelInv

\* At first no user was told and no downstream reached.
LEMMA StartsAsTunnel == JointInit => TunnelInv /\ Promise!TunnelInit
<1> SUFFICES ASSUME JointInit PROVE TunnelInv /\ Promise!TunnelInit
  OBVIOUS
<1>1. /\ \A s \in Streams : stream[s].proc = "none" /\ stream[s].down = "none"
      /\ ahub.msg = None /\ awriter.msg = None
  BY DEF JointInit, Client!AgentInit, Client!Gone, Client!At, Streams
<1>2. \A s \in Streams, type \in MessageType : Msg(s, type) # None
  BY EndToEndAssumption DEF Msg, Streams
<1>3. ReachedIsSaid
  BY <1>1, <1>2 DEF ReachedIsSaid, Carried, MessageType
<1>4. SaidIsSent
  BY <1>2 DEF JointInit, Init, SaidIsSent, Sent, MessageType
<1>5. FreeIsFresh /\ ~Broken
  BY DEF JointInit, Init, RegistryInit, FreeIsFresh, Broken
<1>6. \A s \in Streams : View(s) = "waiting" /\ Far(s) = "none"
  BY <1>1 DEF JointInit, Init, View, Far, Streams
<1>7. QED  BY <1>3, <1>4, <1>5, <1>6 DEF TunnelInv, Promise!TunnelInit

\* Whatever goroutines, network and environment do, a stream is a Tunnel.
THEOREM ImplementsTunnel == JointSpec => TunnelRefined
<1>1. JointInv /\ TunnelInv /\ [JointNext]_jvars => JointInv' /\ TunnelInv' /\ [Promise!TunnelNext]_(Promise!tvars)
  BY JointKeeps, TunnelKeeps, StepsAsTunnel
<1>2. QED  BY <1>1, JointStarts, StartsAsTunnel, PTL DEF JointSpec, TunnelRefined, Promise!TunnelSpec
=============================================================================
