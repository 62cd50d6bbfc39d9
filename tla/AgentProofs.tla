---------------------------- MODULE AgentProofs ----------------------------
(***************************************************************************)
(* Proofs about the agent.  AgentInv is inductive.  Most steps of a        *)
(* session leave its processor and what was said alone and keep it at a    *)
(* glance (QuietInv); the others are shown by what they do to the one      *)
(* session they change (SessionMoves) and to the message they send.        *)
(***************************************************************************)
EXTENDS Agent, TLAPS

\* A step that gives s a new record and leaves the other sessions alone.
LEMMA Update ==
  ASSUME stream \in [Session -> Stream], NEW s \in Session,
         NEW r \in Stream, stream' = [stream EXCEPT ![s] = r]
  PROVE  /\ stream' \in [Session -> Stream]
         /\ stream'[s] = r
         /\ \A t \in Session \ {s} : stream'[t] = stream[t]
OBVIOUS

\* What most steps of a session do to it: its processor stays where it is.
Quiet(s) ==
    /\ stream' \in [Session -> Stream]
    /\ \A t \in Session \ {s} : stream'[t] = stream[t]
    /\ stream'[s].proc = stream[s].proc
    /\ stream'[s].down = stream[s].down \/ stream[s].down = "open"
    /\ stream'[s].relay # "off" <=> stream[s].relay # "off"
    /\ stream'[s].feeder \in {stream[s].feeder, "none"}

\* The invariant does not see such a step.
LEMMA QuietInv ==
  ASSUME AgentInv, NEW s \in Session, Quiet(s),
         UNCHANGED <<link, writer, hub, sessions, said>>
  PROVE  AgentInv'
<1>1. AgentTypeOK'
  BY DEF AgentInv, AgentTypeOK, Quiet
<1>2. ProcessorLeads'
  BY DEF AgentInv, ProcessorLeads, Quiet, Http
<1>3. ListedIsServed'
  BY DEF AgentInv, ListedIsServed, Quiet
<1>4. NoticeIsLate'
  BY DEF AgentInv, NoticeIsLate, Quiet
<1>5. SentInTurn'
  <2>1. /\ hub.at = "send" => hub.msg.session \in Session
        /\ writer.at = "write" => writer.msg.session \in Session
    BY DEF AgentInv, AgentTypeOK, Worker, Message
  <2>2. QED  BY <2>1 DEF AgentInv, SentInTurn, Quiet, Http
<1>6. QED  BY <1>1, <1>2, <1>3, <1>4, <1>5 DEF AgentInv

\* The pumps, but for what they send, and the service of later messages are such steps.
LEMMA QuietSteps ==
  ASSUME AgentInv, NEW s \in Session,
         \/ InputLoops(s) \/ InputFails(s) \/ InputReceives(s)
         \/ OutputLoops(s) \/ OutputReads(s) \/ OutputFails(s) \/ OutputRelays(s)
         \/ FeederWrites(s) \/ ReadClose(s) \/ CloserLoads(s) \/ CloserCloses(s)
         \/ DownEnds(s)
  PROVE  AgentInv'
<1>0. stream \in [Session -> Stream] /\ stream[s] \in Stream
  BY DEF AgentInv, AgentTypeOK
<1>1. ASSUME InputLoops(s) \/ InputFails(s) \/ InputReceives(s) PROVE Quiet(s)
  BY <1>0, <1>1 DEF InputLoops, InputFails, InputReceives, Quiet, Stream
<1>2. ASSUME OutputLoops(s) \/ OutputReads(s) \/ OutputFails(s) PROVE Quiet(s)
  BY <1>0, <1>2 DEF OutputLoops, OutputReads, OutputFails, Quiet, Stream
<1>3. ASSUME OutputRelays(s) PROVE Quiet(s)
  BY <1>0, <1>3 DEF OutputRelays, Quiet, Stream
<1>4. ASSUME FeederWrites(s) PROVE Quiet(s)
  BY <1>0, <1>4 DEF FeederWrites, Quiet, Stream
<1>5. ASSUME ReadClose(s) PROVE Quiet(s)
  BY <1>0, <1>5 DEF ReadClose, Quiet, Stream
<1>6. ASSUME CloserLoads(s) PROVE Quiet(s)
  BY <1>0, <1>6 DEF CloserLoads, Quiet, Stream, SetStatus, Status, Ended
<1>7. ASSUME CloserCloses(s) PROVE Quiet(s)
  BY <1>0, <1>7 DEF CloserCloses, Quiet, Stream
<1>8. ASSUME DownEnds(s) PROVE Quiet(s)
  BY <1>0, <1>8 DEF DownEnds, Quiet, Stream
<1>9. UNCHANGED <<link, writer, hub, sessions, said>>
  BY DEF InputLoops, InputFails, InputReceives, OutputLoops, OutputReads, OutputFails,
         OutputRelays, FeederWrites, ReadClose, CloserLoads, CloserCloses, DownEnds
<1>10. QED
  BY <1>1, <1>2, <1>3, <1>4, <1>5, <1>6, <1>7, <1>8, <1>9, QuietInv

\* What AgentInv says of the types, as the steps below need it.
LEMMA Typed ==
  ASSUME AgentInv
  PROVE  /\ stream \in [Session -> Stream]
         /\ said \in [Session -> Hearsay]
         /\ sessions \subseteq Session
         /\ hub.at = "send" => hub.msg \in Message
         /\ writer.at = "write" => writer.msg \in Message
         /\ \A s \in Session, type \in MessageType : Msg(s, type) \in Message
BY AgentAssumption DEF AgentInv, AgentTypeOK, Worker, Message, Msg

\* A message on its way keeps its session and its type.
LEMMA MsgFields ==
  \A s \in Session, type \in MessageType :
      Msg(s, type).session = s /\ Msg(s, type).type = type
BY DEF Msg

\* The connection's own steps; Redial and RunCancels touch every session.
LEMMA ConnectionInv ==
  ASSUME AgentInv, ConnectionStep
  PROVE  AgentInv'
<1> USE AgentAssumption
<1>1. ASSUME Redial PROVE AgentInv'
  <2>1. /\ stream' \in [Session -> Stream]
        /\ \A s \in Session :
              /\ \/ stream'[s].proc = stream[s].proc
                 \/ stream[s].proc = "reply" /\ stream'[s].proc = "lost"
              /\ stream'[s].down = stream[s].down
              /\ stream'[s].relay # "off" <=> stream[s].relay # "off"
              /\ \/ stream'[s].feeder = stream[s].feeder
                 \/ stream[s].feeder = "notice" /\ stream'[s].feeder = "lost"
    <3>1. stream' = [s \in Session |-> Abandoned(stream[s])]
      BY <1>1 DEF Redial
    <3>2. ASSUME NEW st \in Stream
          PROVE  /\ Abandoned(st) \in Stream
                 /\ \/ Abandoned(st).proc = st.proc
                    \/ st.proc = "reply" /\ Abandoned(st).proc = "lost"
                 /\ Abandoned(st).down = st.down
                 /\ Abandoned(st).relay # "off" <=> st.relay # "off"
                 /\ \/ Abandoned(st).feeder = st.feeder
                    \/ st.feeder = "notice" /\ Abandoned(st).feeder = "lost"
      <4>1. Abandoned(st) \in Stream
        <5> DEFINE r == IF st.relay = "send" THEN "lost" ELSE st.relay
                   f == IF st.feeder = "notice" THEN "lost" ELSE st.feeder
                   p == IF st.proc = "reply" THEN "lost" ELSE st.proc
        <5>1. /\ r \in {"off", "read", "send", "lost"}
              /\ f \in {"none", "load", "write", "notice", "lost"}
              /\ p \in {"none", "dial", "enrol", "wait", "unenrol", "refuse", "reply",
                        "lost", "done"}
          BY DEF Stream
        <5>2. Abandoned(st) = [st EXCEPT !.relay = r, !.feeder = f, !.proc = p]
          BY DEF Abandoned
        <5> HIDE DEF r, f, p
        <5>3. ASSUME NEW u \in Stream
              PROVE  /\ [u EXCEPT !.relay = r] \in Stream
                     /\ [u EXCEPT !.feeder = f] \in Stream
                     /\ [u EXCEPT !.proc = p] \in Stream
          BY <5>1 DEF Stream
        <5>4. [[[st EXCEPT !.relay = r] EXCEPT !.feeder = f] EXCEPT !.proc = p] \in Stream
          BY <5>3
        <5>5. QED  BY <5>2, <5>4
      <4>2. /\ Abandoned(st).proc = IF st.proc = "reply" THEN "lost" ELSE st.proc
            /\ Abandoned(st).down = st.down
            /\ Abandoned(st).relay = IF st.relay = "send" THEN "lost" ELSE st.relay
            /\ Abandoned(st).feeder = IF st.feeder = "notice" THEN "lost" ELSE st.feeder
        BY DEF Abandoned, Stream
      <4>3. QED  BY <4>1, <4>2
    <3>3. ASSUME NEW s \in Session
          PROVE  stream[s] \in Stream /\ stream'[s] = Abandoned(stream[s])
      BY <3>1, Typed
    <3>4. stream' \in [Session -> Stream]
      BY <3>1, <3>2, <3>3
    <3>5. QED  BY <3>2, <3>3, <3>4
  <2>2. /\ link' = "up" /\ hub' = Selecting /\ writer' = Selecting
        /\ UNCHANGED <<sessions, said>>
    BY <1>1 DEF Redial
  <2>3. AgentTypeOK'
    BY <2>1, <2>2 DEF AgentInv, AgentTypeOK, Selecting, At, Worker
  <2>4. ProcessorLeads'
    BY <2>1, <2>2 DEF AgentInv, ProcessorLeads, Http
  <2>5. ListedIsServed'
    BY <2>1, <2>2 DEF AgentInv, ListedIsServed
  <2>6. NoticeIsLate'
    BY <2>1, <2>2 DEF AgentInv, NoticeIsLate
  <2>7. SentInTurn'
    BY <2>2 DEF SentInTurn, Selecting, At
  <2>8. QED  BY <2>3, <2>4, <2>5, <2>6, <2>7 DEF AgentInv
<1>2. ASSUME RunCancels PROVE AgentInv'
  <2>1. /\ stream' \in [Session -> Stream]
        /\ \A s \in Session : /\ stream'[s].proc = stream[s].proc
                              /\ stream'[s].down = stream[s].down
                              /\ stream'[s].relay = stream[s].relay
                              /\ stream'[s].feeder = stream[s].feeder
    <3> DEFINE Cancelled(s) == [stream[s] EXCEPT !.lost = @ \/ stream[s].proc # "none"]
    <3>1. stream' = [s \in Session |-> Cancelled(s)]
      BY <1>2 DEF RunCancels
    <3>2. ASSUME NEW s \in Session
          PROVE  /\ Cancelled(s) \in Stream
                 /\ Cancelled(s).proc = stream[s].proc
                 /\ Cancelled(s).down = stream[s].down
                 /\ Cancelled(s).relay = stream[s].relay
                 /\ Cancelled(s).feeder = stream[s].feeder
      <4>1. stream[s] \in Stream
        BY Typed
      <4>2. (stream[s].lost \/ stream[s].proc # "none") \in BOOLEAN
        OBVIOUS
      <4>3. Cancelled(s) \in Stream
        BY <4>1, <4>2 DEF Stream
      <4>4. QED  BY <4>1, <4>3 DEF Stream
    <3> HIDE DEF Cancelled
    <3>3. QED  BY <3>1, <3>2
  <2>2. link' = "closed" /\ UNCHANGED <<writer, hub, sessions, said>>
    BY <1>2 DEF RunCancels
  <2>3. AgentTypeOK'
    BY <2>1, <2>2 DEF AgentInv, AgentTypeOK
  <2>4. (ProcessorLeads /\ ListedIsServed /\ NoticeIsLate)'
    BY <2>1, <2>2 DEF AgentInv, ProcessorLeads, ListedIsServed, NoticeIsLate, Http
  <2>5. SentInTurn'
    BY <2>1, <2>2, Typed DEF AgentInv, SentInTurn, Message, Http
  <2>6. QED  BY <2>3, <2>4, <2>5 DEF AgentInv
<1>3. ASSUME LinkBreaks PROVE AgentInv'
  BY <1>3
  DEF LinkBreaks, AgentInv, AgentTypeOK, ProcessorLeads, ListedIsServed, NoticeIsLate,
      SentInTurn, Http
<1>4. ASSUME WriterWrites PROVE AgentInv'
  <2> DEFINE s == writer.msg.session
  <2>1. /\ writer.at = "write" /\ writer' = Selecting
        /\ UNCHANGED <<link, hub, sessions, stream>>
    BY <1>4 DEF WriterWrites
  <2>2. s \in Session /\ writer.msg \in Message
    BY <2>1, Typed DEF Message
  <2>3. /\ said' \in [Session -> Hearsay]
        /\ \A t \in Session \ {s} : said'[t] = said[t]
        /\ said'[s] = said[s] \/ said'[s] = Hears(said[s], Http(s), writer.msg.type)
    BY <1>4, <2>2, Typed DEF WriterWrites, Hears, Hearsay
  <2>4. \/ writer.msg.type = "connect" /\ said[s] = "asked"
           /\ stream[s].proc \in {"wait", "unenrol", "done"}
           /\ said'[s] \in {said[s], IF Http(s) THEN "ended" ELSE "open"}
        \/ writer.msg.type = "close" /\ ~Http(s) /\ stream[s].proc = "done"
           /\ said'[s] \in {said[s], "ended"}
        \/ said'[s] = said[s]
    BY <2>1, <2>3 DEF AgentInv, SentInTurn, Hears
  <2>5. AgentTypeOK'
    BY <2>1, <2>3 DEF AgentInv, AgentTypeOK, Selecting, At, Worker
  <2>6. ProcessorLeads'
    BY <2>1, <2>2, <2>3, <2>4 DEF AgentInv, ProcessorLeads, Http
  <2>7. ListedIsServed'
    BY <2>1 DEF AgentInv, ListedIsServed
  <2>8. NoticeIsLate'
    BY <2>1, <2>2, <2>3, <2>4 DEF AgentInv, NoticeIsLate
  <2>9. SentInTurn'
    <3>1. hub.at = "send" /\ hub.msg.type = "connect" /\ hub.msg.session = s
             => said'[s] = said[s]
      <4> SUFFICES ASSUME hub.at = "send", hub.msg.type = "connect", hub.msg.session = s
                   PROVE  said'[s] = said[s]
        OBVIOUS
      <4>1. hub.msg # writer.msg /\ stream[s].proc \in {"wait", "unenrol"}
        BY DEF AgentInv, SentInTurn
      <4>2. hub.msg \in Message
        BY Typed
      <4>3. writer.msg.type # "connect"
        BY <2>2, <4>1, <4>2 DEF Message
      <4>4. QED  BY <2>4, <4>1, <4>3
    <3>2. hub.at = "send" => hub.msg.session \in Session
      BY Typed DEF Message
    <3>3. hub.at = "send" /\ hub.msg.type = "connect" => hub.msg # writer'.msg
      BY <2>1, Typed DEF Selecting, At, Message
    <3> HIDE DEF s
    <3>4. QED  BY <2>1, <2>3, <3>1, <3>2, <3>3 DEF AgentInv, SentInTurn, Selecting, At, Http
  <2>10. QED  BY <2>5, <2>6, <2>7, <2>8, <2>9 DEF AgentInv
<1>5. ASSUME WriterStops PROVE AgentInv'
  <2>1. writer' = Gone /\ UNCHANGED <<link, hub, sessions, stream, said>>
    BY <1>5 DEF WriterStops
  <2>2. AgentTypeOK'
    BY <2>1 DEF AgentInv, AgentTypeOK, Gone, At, Worker
  <2>3. SentInTurn'
    <3>1. hub.at = "send" => hub.msg # writer'.msg
      BY <2>1, Typed DEF Gone, At, Message
    <3>2. QED  BY <2>1, <3>1 DEF AgentInv, SentInTurn, Gone, At, Http
  <2>4. QED
    BY <2>1, <2>2, <2>3 DEF AgentInv, ProcessorLeads, ListedIsServed, NoticeIsLate, Http
<1>6. ASSUME HubSends PROVE AgentInv'
  <2>1. /\ hub.at = "send" /\ writer' = At("write", hub.msg) /\ hub' = Selecting
        /\ UNCHANGED <<link, sessions, stream, said>>
    BY <1>6 DEF HubSends, WriterTakes
  <2>2. AgentTypeOK'
    BY <2>1, Typed DEF AgentInv, AgentTypeOK, Selecting, At, Worker
  <2>3. SentInTurn'
    BY <2>1 DEF AgentInv, SentInTurn, Selecting, At, Http
  <2>4. QED
    BY <2>1, <2>2, <2>3 DEF AgentInv, ProcessorLeads, ListedIsServed, NoticeIsLate, Http
<1>7. ASSUME HubExits PROVE AgentInv'
  <2>1. hub' = Gone /\ UNCHANGED <<link, writer, sessions, stream, said>>
    BY <1>7 DEF HubExits
  <2>2. AgentTypeOK'
    BY <2>1 DEF AgentInv, AgentTypeOK, Gone, At, Worker
  <2>3. SentInTurn'
    BY <2>1 DEF AgentInv, SentInTurn, Gone, At, Http
  <2>4. QED
    BY <2>1, <2>2, <2>3 DEF AgentInv, ProcessorLeads, ListedIsServed, NoticeIsLate, Http
<1>8. QED  BY <1>1, <1>2, <1>3, <1>4, <1>5, <1>6, <1>7 DEF ConnectionStep

\* A step that changes one session, and of the messages on their way at most
\* the one it sends: what has to be shown of that session and of the message.
LEMMA SessionMoves ==
  ASSUME AgentInv, NEW s \in Session,
         stream' \in [Session -> Stream], said' \in [Session -> Hearsay],
         \A t \in Session \ {s} : stream'[t] = stream[t] /\ said'[t] = said[t],
         sessions' \subseteq Session,
         \A t \in Session \ {s} : t \in sessions' <=> t \in sessions,
         AgentTypeOK', SentInTurn',
         /\ said'[s] = "unaware" <=> stream'[s].proc = "none"
         /\ stream'[s].proc \in {"dial", "enrol", "refuse", "reply", "lost"} => said'[s] = "asked"
         /\ ~Http(s) /\ said'[s] = "ended" => stream'[s].proc = "done"
         /\ Http(s) => /\ stream'[s].proc \in {"none", "dial", "reply", "lost", "done"}
                       /\ stream'[s].relay = "off" /\ stream'[s].feeder = "none"
         /\ stream'[s].relay # "off" => stream'[s].proc # "none",
         s \in sessions' <=> stream'[s].proc \in {"wait", "unenrol"},
         stream'[s].proc \notin {"enrol", "wait"} => stream'[s].down \in {"none", "closed"},
         stream'[s].feeder # "none" => said'[s] \in {"open", "ended"},
         stream'[s].feeder = "notice" => stream'[s].proc = "done"
  PROVE  AgentInv'
<1>1. ProcessorLeads'
  BY DEF AgentInv, ProcessorLeads, Http
<1>2. ListedIsServed'
  BY DEF AgentInv, ListedIsServed
<1>3. NoticeIsLate'
  BY DEF AgentInv, NoticeIsLate
<1>4. QED  BY <1>1, <1>2, <1>3 DEF AgentInv

\* What AgentInv says of one session.
LEMMA StreamFacts ==
  ASSUME AgentInv, NEW s \in Session
  PROVE  /\ stream[s] \in Stream /\ said[s] \in Hearsay
         /\ said[s] = "unaware" <=> stream[s].proc = "none"
         /\ stream[s].proc \in {"dial", "enrol", "refuse", "reply", "lost"} => said[s] = "asked"
         /\ ~Http(s) /\ said[s] = "ended" => stream[s].proc = "done"
         /\ Http(s) => /\ stream[s].proc \in {"none", "dial", "reply", "lost", "done"}
                       /\ stream[s].relay = "off" /\ stream[s].feeder = "none"
         /\ stream[s].relay # "off" => stream[s].proc # "none"
         /\ s \in sessions <=> stream[s].proc \in {"wait", "unenrol"}
         /\ stream[s].proc \notin {"enrol", "wait"} => stream[s].down \in {"none", "closed"}
         /\ stream[s].feeder # "none" => said[s] \in {"open", "ended"}
         /\ stream[s].feeder = "notice" => stream[s].proc = "done"
BY DEF AgentInv, AgentTypeOK, ProcessorLeads, ListedIsServed, NoticeIsLate

\* Processor and httpProcessor up to the hub.
LEMMA ProcessorInv ==
  ASSUME AgentInv, NEW s \in Session,
         \/ ReadConnect(s) \/ HttpAnswers(s) \/ DialFails(s) \/ DialSucceeds(s) \/ Ends(s)
         \/ ReadData(s) \/ FeederLoads(s)
  PROVE  AgentInv'
<1> DEFINE fromTo(p, q) == stream[s].proc = p /\ stream'[s].proc = q
<1>1. /\ stream' \in [Session -> Stream]
      /\ \A t \in Session \ {s} : stream'[t] = stream[t]
      /\ \/ /\ fromTo("none", "dial") /\ said' = [said EXCEPT ![s] = "asked"]
            /\ stream'[s].down = stream[s].down /\ stream'[s].relay = stream[s].relay
            /\ stream'[s].feeder = stream[s].feeder
         \/ /\ \/ fromTo("dial", "reply") /\ Http(s)
               \/ fromTo("dial", "refuse") /\ ~Http(s)
            /\ said' = said
            /\ stream'[s].down = stream[s].down /\ stream'[s].relay = stream[s].relay
            /\ stream'[s].feeder = stream[s].feeder
         \/ /\ fromTo("dial", "enrol") /\ ~Http(s) /\ said' = said
            /\ stream'[s].feeder = stream[s].feeder
         \/ /\ fromTo("wait", "unenrol") /\ said' = said
            /\ stream'[s].down = "closed" /\ stream'[s].relay = stream[s].relay
            /\ stream'[s].feeder = stream[s].feeder
         \/ /\ stream'[s].proc = stream[s].proc /\ said' = said
            /\ stream'[s].down = stream[s].down /\ stream'[s].relay = stream[s].relay
            /\ ~Http(s) /\ said[s] \in {"open", "ended"}
            /\ stream'[s].feeder = "notice" => s \notin sessions
  <2> USE Typed, StreamFacts
  <2>1. CASE ReadConnect(s)
    BY <2>1 DEF ReadConnect, Stream
  <2>2. CASE HttpAnswers(s)
    BY <2>2 DEF HttpAnswers, Stream
  <2>3. CASE DialFails(s)
    BY <2>3 DEF DialFails, Stream
  <2>4. CASE DialSucceeds(s)
    <3> DEFINE r == [stream[s] EXCEPT !.proc = "enrol", !.down = "open", !.input = "head",
                                      !.output = "head", !.relay = "read"]
    <3>1. r \in Stream
      <4>1. ASSUME NEW u \in Stream
            PROVE  /\ [u EXCEPT !.proc = "enrol"] \in Stream
                   /\ [u EXCEPT !.down = "open"] \in Stream
                   /\ [u EXCEPT !.input = "head"] \in Stream
                   /\ [u EXCEPT !.output = "head"] \in Stream
                   /\ [u EXCEPT !.relay = "read"] \in Stream
        BY DEF Stream
      <4>2. r = [[[[[stream[s] EXCEPT !.proc = "enrol"] EXCEPT !.down = "open"]
                    EXCEPT !.input = "head"] EXCEPT !.output = "head"] EXCEPT !.relay = "read"]
        OBVIOUS
      <4>3. QED  BY <4>1, <4>2
    <3>5. r.proc = "enrol" /\ r.feeder = stream[s].feeder
      BY DEF Stream
    <3>2. stream' = [stream EXCEPT ![s] = r]
      BY <2>4 DEF DialSucceeds
    <3>3. stream[s].proc = "dial" /\ ~Http(s) /\ said' = said
      BY <2>4 DEF DialSucceeds
    <3> HIDE DEF r
    <3>4. QED  BY <3>1, <3>2, <3>3, <3>5, Update
  <2>5. CASE Ends(s)
    <3> DEFINE st == SetStatus(stream[s].status, "process failed")
               r == [stream[s] EXCEPT !.proc = "unenrol", !.down = "closed", !.status = st]
    <3>1. st \in Status
      BY DEF SetStatus, Status, Ended, Stream
    <3>2. stream' = [stream EXCEPT ![s] = r]
      BY <2>5 DEF Ends
    <3> HIDE DEF st
    <3>3. r \in Stream
      <4>1. ASSUME NEW u \in Stream
            PROVE  /\ [u EXCEPT !.proc = "unenrol"] \in Stream
                   /\ [u EXCEPT !.down = "closed"] \in Stream
                   /\ [u EXCEPT !.status = st] \in Stream
        BY <3>1 DEF Stream
      <4>2. r = [[[stream[s] EXCEPT !.proc = "unenrol"] EXCEPT !.down = "closed"]
                    EXCEPT !.status = st]
        OBVIOUS
      <4>3. QED  BY <4>1, <4>2
    <3>6. /\ r.proc = "unenrol" /\ r.down = "closed"
          /\ r.relay = stream[s].relay /\ r.feeder = stream[s].feeder
      BY DEF Stream
    <3>4. stream[s].proc = "wait" /\ said' = said
      BY <2>5 DEF Ends
    <3> HIDE DEF r
    <3>5. QED  BY <3>2, <3>3, <3>4, <3>6, Update
  <2>6. CASE ReadData(s)
    BY <2>6 DEF ReadData, Stream
  <2>7. CASE FeederLoads(s)
    BY <2>7 DEF FeederLoads, Stream
  <2>8. QED  BY <2>1, <2>2, <2>3, <2>4, <2>5, <2>6, <2>7
<1>2. UNCHANGED <<link, writer, hub, sessions>>
  BY DEF ReadConnect, HttpAnswers, DialFails, DialSucceeds, Ends, ReadData, FeederLoads
<1>3. said' \in [Session -> Hearsay] /\ \A t \in Session \ {s} : said'[t] = said[t]
  BY <1>1, Typed DEF Hearsay
<1>4. AgentTypeOK'
  BY <1>1, <1>2, <1>3 DEF AgentInv, AgentTypeOK
<1>5. SentInTurn'
  <2>1. /\ hub.at = "send" => hub.msg.session \in Session
        /\ writer.at = "write" => writer.msg.session \in Session
    BY Typed DEF Message
  <2>2. \A t \in Session :
           /\ said[t] = "asked" => said'[t] = "asked"
           /\ said[t] # "unaware" => said'[t] # "unaware"
           /\ stream[t].proc = "done" => stream'[t].proc = "done"
           /\ stream[t].proc \in {"wait", "unenrol"} => stream'[t].proc \in {"wait", "unenrol"}
    BY <1>1, <1>3, StreamFacts, Typed
  <2>3. QED  BY <1>2, <2>1, <2>2 DEF AgentInv, SentInTurn, Http
<1>6. /\ said'[s] = "unaware" <=> stream'[s].proc = "none"
      /\ stream'[s].proc \in {"dial", "enrol", "refuse", "reply", "lost"} => said'[s] = "asked"
      /\ ~Http(s) /\ said'[s] = "ended" => stream'[s].proc = "done"
      /\ Http(s) => /\ stream'[s].proc \in {"none", "dial", "reply", "lost", "done"}
                    /\ stream'[s].relay = "off" /\ stream'[s].feeder = "none"
      /\ stream'[s].relay # "off" => stream'[s].proc # "none"
      /\ s \in sessions' <=> stream'[s].proc \in {"wait", "unenrol"}
      /\ stream'[s].proc \notin {"enrol", "wait"} => stream'[s].down \in {"none", "closed"}
      /\ stream'[s].feeder # "none" => said'[s] \in {"open", "ended"}
      /\ stream'[s].feeder = "notice" => stream'[s].proc = "done"
  <2>1. said[s] \in Hearsay /\ stream[s] \in Stream
    BY StreamFacts
  <2>2. /\ said'[s] = "unaware" <=> stream'[s].proc = "none"
        /\ stream'[s].proc \in {"dial", "enrol", "refuse", "reply", "lost"} => said'[s] = "asked"
        /\ ~Http(s) /\ said'[s] = "ended" => stream'[s].proc = "done"
    BY <1>1, StreamFacts, Typed
  <2>3. /\ Http(s) => /\ stream'[s].proc \in {"none", "dial", "reply", "lost", "done"}
                      /\ stream'[s].relay = "off" /\ stream'[s].feeder = "none"
        /\ stream'[s].relay # "off" => stream'[s].proc # "none"
    BY <1>1, StreamFacts, Typed
  <2>4. /\ s \in sessions' <=> stream'[s].proc \in {"wait", "unenrol"}
        /\ stream'[s].proc \notin {"enrol", "wait"} => stream'[s].down \in {"none", "closed"}
    BY <1>1, <1>2, StreamFacts, Typed
  <2>5. stream'[s].feeder # "none" => said'[s] \in {"open", "ended"}
    BY <1>1, StreamFacts, Typed
  <2>6. stream'[s].feeder = "notice" => stream'[s].proc = "done"
    BY <1>1, <2>1, StreamFacts, Typed DEF Stream
  <2>7. QED  BY <2>2, <2>3, <2>4, <2>5, <2>6
<1>7. sessions' \subseteq Session /\ \A t \in Session \ {s} : t \in sessions' <=> t \in sessions
  BY <1>2, Typed
<1> HIDE DEF fromTo
<1>8. QED  BY <1>1, <1>3, <1>4, <1>5, <1>6, <1>7, SessionMoves

\* Those who give the writer a message: it is the session's next one.
LEMMA SendersInv ==
  ASSUME AgentInv, NEW s \in Session,
         HttpSends(s) \/ RelaySends(s) \/ FeederNotices(s)
  PROVE  AgentInv'
<1> USE AgentAssumption
<1> DEFINE m == writer'.msg
<1>1. /\ writer = Selecting /\ writer'.at = "write" /\ writer' = At("write", m)
      /\ m \in Message /\ m.session = s
      /\ UNCHANGED <<link, hub, sessions, said>>
      /\ \A t \in Session \ {s} : stream'[t] = stream[t]
      /\ stream' \in [Session -> Stream]
      /\ stream'[s].down = stream[s].down
      /\ \/ /\ m.type = "connect" /\ stream[s].proc = "reply" /\ stream'[s].proc = "done"
            /\ stream'[s].relay = stream[s].relay /\ stream'[s].feeder = stream[s].feeder
         \/ /\ m.type = "data" /\ stream'[s].proc = stream[s].proc
            /\ stream[s].relay = "send" /\ stream'[s].relay = "read"
            /\ stream'[s].feeder = stream[s].feeder
         \/ /\ m.type = "close" /\ stream'[s].proc = stream[s].proc
            /\ stream'[s].relay = stream[s].relay
            /\ stream[s].feeder = "notice" /\ stream'[s].feeder = "none"
  <2>1. stream \in [Session -> Stream] /\ stream[s] \in Stream
    BY Typed
  <2>2. ASSUME NEW type \in MessageType, WriterTakes(Msg(s, type))
        PROVE  /\ writer = Selecting /\ writer'.at = "write" /\ writer' = At("write", m)
               /\ m \in Message /\ m.session = s /\ m.type = type
    <3>1. writer = Selecting /\ writer' = At("write", Msg(s, type))
      BY <2>2 DEF WriterTakes
    <3>2. m = Msg(s, type) /\ writer'.at = "write"
      BY <3>1 DEF At
    <3>3. QED  BY <3>1, <3>2, MsgFields, Typed
  <2> HIDE DEF m
  <2>3. CASE HttpSends(s)
    <3>1. /\ m.type = "connect" /\ writer = Selecting /\ writer'.at = "write"
          /\ writer' = At("write", m) /\ m \in Message /\ m.session = s
      BY <2>2, <2>3 DEF HttpSends, MessageType
    <3>2. /\ UNCHANGED <<link, hub, sessions, said>>
          /\ stream[s].proc = "reply"
          /\ stream' = [stream EXCEPT ![s].proc = "done"]
      BY <2>3 DEF HttpSends
    <3>3. /\ stream' \in [Session -> Stream]
          /\ \A t \in Session \ {s} : stream'[t] = stream[t]
          /\ stream'[s].proc = "done" /\ stream'[s].down = stream[s].down
          /\ stream'[s].relay = stream[s].relay /\ stream'[s].feeder = stream[s].feeder
      BY <2>1, <3>2 DEF Stream
    <3>4. QED  BY <3>1, <3>2, <3>3
  <2>4. CASE RelaySends(s)
    <3>1. /\ m.type = "data" /\ writer = Selecting /\ writer'.at = "write"
          /\ writer' = At("write", m) /\ m \in Message /\ m.session = s
      BY <2>2, <2>4 DEF RelaySends, MessageType
    <3>2. /\ UNCHANGED <<link, hub, sessions, said>>
          /\ stream[s].relay = "send"
          /\ stream' = [stream EXCEPT ![s].relay = "read"]
      BY <2>4 DEF RelaySends
    <3>3. /\ stream' \in [Session -> Stream]
          /\ \A t \in Session \ {s} : stream'[t] = stream[t]
          /\ stream'[s].relay = "read" /\ stream'[s].down = stream[s].down
          /\ stream'[s].proc = stream[s].proc /\ stream'[s].feeder = stream[s].feeder
      BY <2>1, <3>2 DEF Stream
    <3>4. QED  BY <3>1, <3>2, <3>3
  <2>5. CASE FeederNotices(s)
    <3>1. /\ m.type = "close" /\ writer = Selecting /\ writer'.at = "write"
          /\ writer' = At("write", m) /\ m \in Message /\ m.session = s
      BY <2>2, <2>5 DEF FeederNotices, MessageType
    <3>2. /\ UNCHANGED <<link, hub, sessions, said>>
          /\ stream[s].feeder = "notice"
          /\ stream' = [stream EXCEPT ![s].feeder = "none"]
      BY <2>5 DEF FeederNotices
    <3>3. /\ stream' \in [Session -> Stream]
          /\ \A t \in Session \ {s} : stream'[t] = stream[t]
          /\ stream'[s].feeder = "none" /\ stream'[s].down = stream[s].down
          /\ stream'[s].proc = stream[s].proc /\ stream'[s].relay = stream[s].relay
      BY <2>1, <3>2 DEF Stream
    <3>4. QED  BY <3>1, <3>2, <3>3
  <2>6. QED  BY <2>3, <2>4, <2>5
<1> HIDE DEF m
<1>2. AgentTypeOK'
  <2>1. m # None
    BY <1>1 DEF Message
  <2>2. QED  BY <1>1, <2>1 DEF AgentInv, AgentTypeOK, At, Worker
<1>3. SentInTurn'
  <2>1. hub.at = "send" => hub.msg.session \in Session /\ hub.msg \in Message
    BY Typed DEF Message
  <2>2. \A t \in Session :
           /\ stream[t].proc = "done" => stream'[t].proc = "done"
           /\ stream[t].proc \in {"wait", "unenrol"} => stream'[t].proc \in {"wait", "unenrol"}
    BY <1>1
  <2>3. writer'.msg = m
    BY DEF m
  <2>4. hub.at = "send" /\ hub.msg.type = "connect" => hub.msg # m
    BY <1>1, <2>1, StreamFacts DEF AgentInv, SentInTurn
  <2>5. hub.at = "send" =>
          /\ ~Http(hub.msg.session)
          /\ \/ /\ hub.msg.type = "connect" /\ said[hub.msg.session] = "asked"
                /\ stream'[hub.msg.session].proc \in {"wait", "unenrol"}
                /\ hub.msg # m
             \/ hub.msg.type = "close" /\ stream'[hub.msg.session].proc = "done"
    BY <2>1, <2>2, <2>4 DEF AgentInv, SentInTurn
  <2>6. \/ /\ m.type = "connect" /\ said[m.session] = "asked"
           /\ stream'[m.session].proc \in {"wait", "unenrol", "done"}
        \/ /\ ~Http(m.session)
           /\ \/ m.type = "close" /\ stream'[m.session].proc = "done"
              \/ m.type = "data" /\ said[m.session] # "unaware"
    BY <1>1, StreamFacts
  <2>7. QED  BY <1>1, <2>3, <2>5, <2>6 DEF SentInTurn, Http
<1>4. said' \in [Session -> Hearsay] /\ sessions' \subseteq Session
  BY <1>1, Typed
<1>5. \A t \in Session \ {s} : stream'[t] = stream[t] /\ said'[t] = said[t]
  BY <1>1
<1>6. QED  BY <1>1, <1>2, <1>3, <1>4, <1>5, StreamFacts, SessionMoves

\* The hub answers for a session it stored, and reports one it removed.
LEMMA HubInv ==
  ASSUME AgentInv, NEW s \in Session, HubTakesEnrol(s) \/ HubTakesUnenrol(s)
  PROVE  AgentInv'
<1> USE AgentAssumption
<1>1. /\ hub = Selecting
      /\ UNCHANGED <<link, writer, said>>
      /\ \A t \in Session \ {s} : stream'[t] = stream[t] /\ (t \in sessions' <=> t \in sessions)
      /\ stream' \in [Session -> Stream]
      /\ sessions' \subseteq Session
      /\ stream'[s].down = stream[s].down /\ stream'[s].relay = stream[s].relay
      /\ stream'[s].feeder = stream[s].feeder
      /\ \/ /\ stream[s].proc = "enrol" /\ stream'[s].proc = "wait" /\ s \in sessions'
            /\ hub' = At("send", Msg(s, "connect"))
         \/ /\ stream[s].proc \in {"unenrol", "refuse"} /\ stream'[s].proc = "done"
            /\ s \notin sessions'
            /\ hub' \in {Selecting, At("send", Msg(s, "close"))}
  <2> USE Typed, StreamFacts
  <2>1. CASE HubTakesEnrol(s)
    BY <2>1 DEF HubTakesEnrol, Stream
  <2>2. CASE HubTakesUnenrol(s)
    <3> DEFINE b == stream[s].closed \/ s \in sessions
               r == [stream[s] EXCEPT !.proc = "done", !.closed = b]
    <3>1. b \in BOOLEAN
      BY DEF Stream
    <3>2. stream' = [stream EXCEPT ![s] = r]
      BY <2>2 DEF HubTakesUnenrol
    <3> HIDE DEF b
    <3>3. /\ r \in Stream /\ r.proc = "done" /\ r.down = stream[s].down
          /\ r.relay = stream[s].relay /\ r.feeder = stream[s].feeder
      <4>1. ASSUME NEW u \in Stream
            PROVE  [u EXCEPT !.proc = "done"] \in Stream /\ [u EXCEPT !.closed = b] \in Stream
        BY <3>1 DEF Stream
      <4>2. r = [[stream[s] EXCEPT !.proc = "done"] EXCEPT !.closed = b]
        BY DEF r
      <4>3. r \in Stream
        BY <4>1, <4>2
      <4>4. /\ r.proc = "done" /\ r.down = stream[s].down
            /\ r.relay = stream[s].relay /\ r.feeder = stream[s].feeder
        BY DEF r, Stream
      <4>5. QED  BY <4>3, <4>4
    <3>4. /\ stream[s].proc \in {"unenrol", "refuse"} /\ sessions' = sessions \ {s}
          /\ hub' \in {Selecting, At("send", Msg(s, "close"))}
          /\ hub = Selecting /\ UNCHANGED <<link, writer, said>>
      BY <2>2 DEF HubTakesUnenrol
    <3> HIDE DEF r
    <3>5. QED  BY <3>2, <3>3, <3>4, Update
  <2>3. QED  BY <2>1, <2>2
<1>2. ~Http(s)
  BY <1>1, StreamFacts
<1>3. \/ hub' = Selecting
      \/ hub' = At("send", Msg(s, "connect")) /\ stream[s].proc = "enrol"
      \/ hub' = At("send", Msg(s, "close")) /\ stream'[s].proc = "done"
  BY <1>1
<1>4. AgentTypeOK'
  <2>1. Msg(s, "connect") \in Message /\ Msg(s, "close") \in Message
    BY Typed DEF MessageType
  <2>2. None \notin Message
    BY DEF Message
  <2>3. /\ hub' \in Worker({"select", "send", "done"})
        /\ hub'.msg = None <=> hub'.at # "send"
    BY <1>3, <2>1, <2>2 DEF Selecting, At, Worker
  <2>4. QED  BY <1>1, <2>3 DEF AgentInv, AgentTypeOK
<1>5. SentInTurn'
  <2>1. writer.at = "write" => writer.msg.session \in Session /\ writer.msg \in Message
    BY Typed DEF Message
  <2>2. \A t \in Session : /\ stream[t].proc = "done" => stream'[t].proc = "done"
                           /\ stream[t].proc \in {"wait", "unenrol", "done"}
                                 => stream'[t].proc \in {"wait", "unenrol", "done"}
    BY <1>1
  <2>3. writer.at = "write" =>
          \/ /\ writer.msg.type = "connect" /\ said[writer.msg.session] = "asked"
             /\ stream'[writer.msg.session].proc \in {"wait", "unenrol", "done"}
          \/ /\ ~Http(writer.msg.session)
             /\ \/ writer.msg.type = "close" /\ stream'[writer.msg.session].proc = "done"
                \/ writer.msg.type = "data" /\ said[writer.msg.session] # "unaware"
    BY <2>1, <2>2 DEF AgentInv, SentInTurn
  <2>4. stream[s].proc = "enrol" => Msg(s, "connect") # writer.msg
    <3> SUFFICES ASSUME stream[s].proc = "enrol", Msg(s, "connect") = writer.msg
                 PROVE  FALSE
      OBVIOUS
    <3>1. writer.msg.session = s /\ writer.msg.type = "connect"
      BY MsgFields DEF MessageType
    <3>2. writer.at = "write"
      BY DEF AgentInv, AgentTypeOK, Msg, Message, MessageType
    <3>3. QED  BY <3>1, <3>2 DEF AgentInv, SentInTurn
  <2>5. stream[s].proc = "enrol" => said[s] = "asked"
    BY StreamFacts
  <2>6. hub'.at = "send" =>
          \/ /\ hub'.msg = Msg(s, "connect") /\ stream[s].proc = "enrol"
             /\ stream'[s].proc = "wait"
          \/ hub'.msg = Msg(s, "close") /\ stream'[s].proc = "done"
    BY <1>1 DEF Selecting, At
  <2>7. hub'.at = "send" =>
          /\ ~Http(hub'.msg.session)
          /\ \/ /\ hub'.msg.type = "connect" /\ said[hub'.msg.session] = "asked"
                /\ stream'[hub'.msg.session].proc \in {"wait", "unenrol"}
                /\ hub'.msg # writer.msg
             \/ hub'.msg.type = "close" /\ stream'[hub'.msg.session].proc = "done"
    BY <1>2, <2>4, <2>5, <2>6, MsgFields DEF MessageType
  <2>8. QED  BY <1>1, <2>3, <2>7 DEF SentInTurn, Http
<1>6. said' \in [Session -> Hearsay]
  BY <1>1, Typed
<1>7. \A t \in Session \ {s} : stream'[t] = stream[t] /\ said'[t] = said[t]
  BY <1>1
<1>8. QED  BY <1>1, <1>2, <1>4, <1>5, <1>6, <1>7, StreamFacts, SessionMoves

\* The agent starts with no connection and no session.
LEMMA InitAgent == AgentInit => AgentInv
<1> SUFFICES ASSUME AgentInit PROVE AgentInv
  OBVIOUS
<1>1. /\ link = "none" /\ writer = Gone /\ hub = Gone /\ sessions = {}
      /\ said = [s \in Session |-> "unaware"]
      /\ stream \in [Session -> Stream]
      /\ \A s \in Session : /\ stream[s].proc = "none" /\ stream[s].down = "none"
                            /\ stream[s].relay = "off" /\ stream[s].feeder = "none"
  BY DEF AgentInit, Stream, Status
<1>2. AgentTypeOK
  BY <1>1 DEF AgentTypeOK, Gone, At, Worker, Hearsay
<1>3. ProcessorLeads /\ ListedIsServed /\ NoticeIsLate
  BY <1>1 DEF ProcessorLeads, ListedIsServed, NoticeIsLate
<1>4. SentInTurn
  BY <1>1 DEF SentInTurn, Gone, At
<1>5. QED  BY <1>2, <1>3, <1>4 DEF AgentInv

\* Every step keeps the invariant.
LEMMA StepAgent == AgentInv /\ [AgentNext]_avars => AgentInv'
<1> SUFFICES ASSUME AgentInv, [AgentNext]_avars PROVE AgentInv'
  OBVIOUS
<1>1. ASSUME NEW s \in Session, Process(s) PROVE AgentInv'
  BY <1>1, ProcessorInv, SendersInv, HubInv DEF Process
<1>2. ASSUME NEW s \in Session, Pump(s) \/ Serve(s) \/ Peer(s) PROVE AgentInv'
  BY <1>2, QuietSteps, ProcessorInv, SendersInv DEF Pump, Serve, Peer
<1>3. ASSUME UNCHANGED avars PROVE AgentInv'
  BY <1>3
  DEF avars, AgentInv, AgentTypeOK, ProcessorLeads, ListedIsServed, NoticeIsLate, SentInTurn, Http
<1>4. QED  BY <1>1, <1>2, <1>3, ConnectionInv DEF AgentNext

-----------------------------------------------------------------------------
\* AgentInv holds in every reachable state of the agent.
THEOREM AgentInvariant == AgentSpec => []AgentInv
BY InitAgent, StepAgent, PTL DEF AgentSpec

\* The connection, its hub and writer and every session keep their ranges, and
\* the hub and the writer hold a message exactly while they send one.
THEOREM AgentTypeCorrect == AgentSpec => []AgentTypeOK
<1>1. AgentInv => AgentTypeOK
  BY DEF AgentInv
<1>2. QED  BY <1>1, AgentInvariant, PTL

\* What the invariant says of the properties.
LEMMA AgentPromises == AgentInv => SpokenInTurn /\ OpenIsListed /\ EndedIsHungUp
<1>1. AgentInv => SpokenInTurn
  BY Typed, StreamFacts DEF AgentInv, SentInTurn, SpokenInTurn, MaySay, Message
<1>2. AgentInv => OpenIsListed
  <2> SUFFICES ASSUME AgentInv, NEW s \in Session, ~Http(s), said[s] = "open",
                      stream[s].proc # "done"
               PROVE  s \in sessions
    BY DEF OpenIsListed
  <2>1. stream[s].proc \notin {"none", "dial", "enrol", "refuse", "reply", "lost"}
    BY StreamFacts
  <2>2. QED  BY <2>1, StreamFacts DEF Stream
<1>3. AgentInv => EndedIsHungUp
  BY StreamFacts DEF EndedIsHungUp
<1>4. QED  BY <1>1, <1>2, <1>3

\* Over any number of lost and renewed connections, each session is answered
\* for once, before its close: what the server's model assumes of an agent.
THEOREM AgentSpeaksInTurn == AgentSpec => []SpokenInTurn
BY AgentPromises, AgentInvariant, PTL

\* The agent knows every stream it answered for until the stream is over.
THEOREM OpenAreListed == AgentSpec => []OpenIsListed
BY AgentPromises, AgentInvariant, PTL

\* No stream is reported closed while its downstream is still connected.
THEOREM EndedAreHungUp == AgentSpec => []EndedIsHungUp
BY AgentPromises, AgentInvariant, PTL
=============================================================================
