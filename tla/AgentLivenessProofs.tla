------------------------ MODULE AgentLivenessProofs ------------------------
(***************************************************************************)
(* Proofs of what the agent must eventually do.  The provers reason about  *)
(* a step that fairness asks for only if they are told when it is enabled: *)
(* that is AgentUnblocked, a hypothesis, which says of each such step that *)
(* it is enabled when its guard holds.  Moves says what any step may do to *)
(* one session; a proof names the phases the session goes through, in each *)
(* of which every step stays or goes on to a later phase and the fair step *)
(* goes on.                                                                *)
(***************************************************************************)
EXTENDS AgentProofs

\* new has the fields of old but for the one named field.
Agree(old, new, field) ==
    /\ new \in Stream
    /\ field # "proc" => new.proc = old.proc
    /\ field # "down" => new.down = old.down
    /\ field # "status" => new.status = old.status
    /\ field # "closed" => new.closed = old.closed
    /\ field # "lost" => new.lost = old.lost
    /\ field # "input" => new.input = old.input
    /\ field # "output" => new.output = old.output
    /\ field # "relay" => new.relay = old.relay
    /\ field # "feeder" => new.feeder = old.feeder
    /\ field # "closer" => new.closer = old.closer

\* A record put together from the fields of r.
Fields(r) == [proc |-> r.proc, down |-> r.down, status |-> r.status, closed |-> r.closed,
              lost |-> r.lost, input |-> r.input, output |-> r.output, relay |-> r.relay,
              feeder |-> r.feeder, closer |-> r.closer]

\* Setting a status gives a status.
LEMMA StatusIsSet ==
  \A old \in Status, new \in {"process failed", "upstream closed"} : SetStatus(old, new) \in Status
BY DEF SetStatus, Status, Ended

\* To set a field of a session's record leaves the other fields as they are.
LEMMA SetDown ==
  ASSUME NEW st \in Stream, NEW v \in {"none", "open", "ended", "closed"}
  PROVE  [st EXCEPT !.down = v].down = v /\ Agree(st, [st EXCEPT !.down = v], "down")
BY DEF Agree, Stream

LEMMA SetLost ==
  ASSUME NEW st \in Stream, NEW v \in BOOLEAN
  PROVE  [st EXCEPT !.lost = v].lost = v /\ Agree(st, [st EXCEPT !.lost = v], "lost")
BY DEF Agree, Stream

LEMMA SetInput ==
  ASSUME NEW st \in Stream, NEW v \in {"off", "head", "read", "receive", "failed"}
  PROVE  [st EXCEPT !.input = v].input = v /\ Agree(st, [st EXCEPT !.input = v], "input")
BY DEF Agree, Stream

LEMMA SetOutput ==
  ASSUME NEW st \in Stream, NEW v \in {"off", "head", "read", "write", "failed"}
  PROVE  [st EXCEPT !.output = v].output = v /\ Agree(st, [st EXCEPT !.output = v], "output")
BY DEF Agree, Stream

LEMMA SetRelay ==
  ASSUME NEW st \in Stream, NEW v \in {"off", "read", "send", "lost"}
  PROVE  [st EXCEPT !.relay = v].relay = v /\ Agree(st, [st EXCEPT !.relay = v], "relay")
BY DEF Agree, Stream

LEMMA SetFeeder ==
  ASSUME NEW st \in Stream, NEW v \in {"none", "load", "write", "notice", "lost"}
  PROVE  [st EXCEPT !.feeder = v].feeder = v /\ Agree(st, [st EXCEPT !.feeder = v], "feeder")
BY DEF Agree, Stream

LEMMA SetCloser ==
  ASSUME NEW st \in Stream, NEW v \in {"none", "load", "close"}
  PROVE  [st EXCEPT !.closer = v].closer = v /\ Agree(st, [st EXCEPT !.closer = v], "closer")
BY DEF Agree, Stream

\* What any step may do to the session s.
Moves(s) ==
    LET old == stream[s]
        new == stream'[s]
    IN  /\ new \in Stream
        /\ old.closed => new.closed
        /\ old.lost => new.lost
        /\ old.status = "upstream closed" => new.status = "upstream closed"
        /\ \/ new.proc = old.proc
           \/ old.proc = "none" /\ new.proc = "dial" /\ link = "up"
           \/ old.proc = "dial" /\ new.proc = "reply" /\ Http(s)
           \/ old.proc = "dial" /\ new.proc = "refuse"
           \/ /\ old.proc = "dial" /\ new.proc = "enrol"
              /\ new.down = "open" /\ new.output = "head" /\ new.relay = "read"
           \/ old.proc = "reply" /\ new.proc \in {"lost", "done"}
           \/ old.proc = "enrol" /\ new.proc = "wait"
           \/ old.proc = "wait" /\ new.proc = "unenrol" /\ new.down = "closed"
           \/ /\ old.proc \in {"unenrol", "refuse"} /\ new.proc = "done"
              /\ old.status = "upstream closed" \/ hub' = At("send", Msg(s, "close"))
        /\ \/ new.down = old.down
           \/ old.proc = "dial" /\ new.proc = "enrol"
           \/ old.proc = "wait" /\ new.proc = "unenrol"
           \/ old.down = "open" /\ new.down = "ended"
        /\ \/ new.output = old.output
           \/ old.proc = "dial" /\ new.proc = "enrol"
           \/ old.output = "head" /\ new.output = IF Over(s) THEN "failed" ELSE "read"
           \/ old.output = "read" /\ old.down = "open" /\ new.output = "write"
           \/ old.output = "read" /\ old.down # "open" /\ new.output = "failed"
           \/ old.output = "write" /\ old.closed /\ new.output = "failed"
           \/ /\ old.output = "write" /\ old.relay = "read"
              /\ new.output = "head" /\ new.relay = "send"
        /\ \/ new.relay = old.relay
           \/ old.proc = "dial" /\ new.proc = "enrol"
           \/ old.output = "write" /\ new.output = "head" /\ new.relay = "send"
           \/ old.relay = "send" /\ new.relay = "read"
           \/ old.relay = "send" /\ new.relay = "lost" /\ link \in {"none", "closed"}
        /\ new.closed => \/ old.closed \/ old.closer = "close"
                         \/ old.proc = "unenrol" /\ new.proc = "done"
        /\ new.closer = "close" => old.closer = "close" \/ old.proc \in {"wait", "unenrol"}

\* The other sessions do not change.
Others(s) == \A t \in Session \ {s} : stream'[t] = stream[t]

\* A session that does not change moves in a trivial way.
LEMMA StaysMoves ==
  ASSUME AgentInv, NEW s \in Session, stream'[s] = stream[s]
  PROVE  Moves(s)
BY StreamFacts DEF Moves

\* The pumps and the goroutines that serve later messages, each of which
\* sets one field of its session,
LEMMA PumpMoves ==
  ASSUME AgentInv, NEW s \in Session,
         \/ InputLoops(s) \/ InputFails(s) \/ InputReceives(s)
         \/ OutputLoops(s) \/ OutputReads(s) \/ OutputFails(s) \/ RelaySends(s)
         \/ FeederLoads(s) \/ FeederNotices(s) \/ ReadData(s) \/ ReadClose(s) \/ DownEnds(s)
  PROVE  Moves(s) /\ Others(s)
<1> stream \in [Session -> Stream] /\ stream[s] \in Stream
  BY Typed
<1>1. ASSUME InputLoops(s) PROVE Moves(s) /\ Others(s)
  <2>1. stream'[s] = [stream[s] EXCEPT !.input = IF Over(s) THEN "failed" ELSE "read"] /\ Others(s)
    BY <1>1 DEF InputLoops, Others
  <2>2. /\ stream'[s].input = IF Over(s) THEN "failed" ELSE "read"
        /\ Agree(stream[s], stream'[s], "input")
    BY <2>1, SetInput
  <2>3. QED  BY <1>1, <2>1, <2>2 DEF Agree, Moves, InputLoops
<1>2. ASSUME InputFails(s) PROVE Moves(s) /\ Others(s)
  <2>1. stream'[s] = [stream[s] EXCEPT !.input = "failed"] /\ Others(s)
    BY <1>2 DEF InputFails, Others
  <2>2. stream'[s].input = "failed" /\ Agree(stream[s], stream'[s], "input")
    BY <2>1, SetInput
  <2>3. QED  BY <1>2, <2>1, <2>2 DEF Agree, Moves, InputFails
<1>3. ASSUME OutputLoops(s) PROVE Moves(s) /\ Others(s)
  <2>1. stream'[s] = [stream[s] EXCEPT !.output = IF Over(s) THEN "failed" ELSE "read"] /\ Others(s)
    BY <1>3 DEF OutputLoops, Others
  <2>2. /\ stream'[s].output = IF Over(s) THEN "failed" ELSE "read"
        /\ Agree(stream[s], stream'[s], "output")
    BY <2>1, SetOutput
  <2>3. QED  BY <1>3, <2>1, <2>2 DEF Agree, Moves, OutputLoops
<1>4. ASSUME OutputReads(s) PROVE Moves(s) /\ Others(s)
  <2>1. stream'[s] = [stream[s] EXCEPT !.output = "write"] /\ Others(s)
    BY <1>4 DEF OutputReads, Others
  <2>2. stream'[s].output = "write" /\ Agree(stream[s], stream'[s], "output")
    BY <2>1, SetOutput
  <2>3. QED  BY <1>4, <2>1, <2>2 DEF Agree, Moves, OutputReads
<1>5. ASSUME OutputFails(s) PROVE Moves(s) /\ Others(s)
  <2>1. stream'[s] = [stream[s] EXCEPT !.output = "failed"] /\ Others(s)
    BY <1>5 DEF OutputFails, Others
  <2>2. stream'[s].output = "failed" /\ Agree(stream[s], stream'[s], "output")
    BY <2>1, SetOutput
  <2>3. QED  BY <1>5, <2>1, <2>2 DEF Agree, Moves, OutputFails
<1>6. ASSUME RelaySends(s) PROVE Moves(s) /\ Others(s)
  <2>1. stream'[s] = [stream[s] EXCEPT !.relay = "read"] /\ Others(s)
    BY <1>6 DEF RelaySends, Others
  <2>2. stream'[s].relay = "read" /\ Agree(stream[s], stream'[s], "relay")
    BY <2>1, SetRelay
  <2>3. QED  BY <1>6, <2>1, <2>2 DEF Agree, Moves, RelaySends
<1>7. ASSUME FeederLoads(s) PROVE Moves(s) /\ Others(s)
  <2>1. /\ stream'[s] = [stream[s] EXCEPT !.feeder = IF s \in sessions THEN "write" ELSE "notice"]
        /\ Others(s)
    BY <1>7 DEF FeederLoads, Others
  <2>2. /\ stream'[s].feeder = IF s \in sessions THEN "write" ELSE "notice"
        /\ Agree(stream[s], stream'[s], "feeder")
    BY <2>1, SetFeeder
  <2>3. QED  BY <1>7, <2>1, <2>2 DEF Agree, Moves, FeederLoads
<1>8. ASSUME FeederNotices(s) PROVE Moves(s) /\ Others(s)
  <2>1. stream'[s] = [stream[s] EXCEPT !.feeder = "none"] /\ Others(s)
    BY <1>8 DEF FeederNotices, Others
  <2>2. stream'[s].feeder = "none" /\ Agree(stream[s], stream'[s], "feeder")
    BY <2>1, SetFeeder
  <2>3. QED  BY <1>8, <2>1, <2>2 DEF Agree, Moves, FeederNotices
<1>9. ASSUME ReadData(s) PROVE Moves(s) /\ Others(s)
  <2>1. stream'[s] = [stream[s] EXCEPT !.feeder = "load"] /\ Others(s)
    BY <1>9 DEF ReadData, Others
  <2>2. stream'[s].feeder = "load" /\ Agree(stream[s], stream'[s], "feeder")
    BY <2>1, SetFeeder
  <2>3. QED  BY <1>9, <2>1, <2>2 DEF Agree, Moves, ReadData
<1>10. ASSUME ReadClose(s) PROVE Moves(s) /\ Others(s)
  <2>1. stream'[s] = [stream[s] EXCEPT !.closer = "load"] /\ Others(s)
    BY <1>10 DEF ReadClose, Others
  <2>2. stream'[s].closer = "load" /\ Agree(stream[s], stream'[s], "closer")
    BY <2>1, SetCloser
  <2>3. QED  BY <1>10, <2>1, <2>2 DEF Agree, Moves, ReadClose
<1>11. ASSUME DownEnds(s) PROVE Moves(s) /\ Others(s)
  <2>1. stream'[s] = [stream[s] EXCEPT !.down = "ended"] /\ Others(s)
    BY <1>11 DEF DownEnds, Others
  <2>2. stream'[s].down = "ended" /\ Agree(stream[s], stream'[s], "down")
    BY <2>1, SetDown
  <2>3. QED  BY <1>11, <2>1, <2>2 DEF Agree, Moves, DownEnds
<1>12. ASSUME InputReceives(s) PROVE Moves(s) /\ Others(s)
  <2>1. PICK next \in {"head", "failed"} :
           stream'[s] = [stream[s] EXCEPT !.input = next] /\ Others(s)
    BY <1>12 DEF InputReceives, Others
  <2>2. Agree(stream[s], stream'[s], "input")
    <3>1. next \in {"off", "head", "read", "receive", "failed"}
      OBVIOUS
    <3>2. Agree(stream[s], [stream[s] EXCEPT !.input = next], "input")
      BY <3>1, SetInput
    <3>3. QED  BY <2>1, <3>2
  <2>3. QED  BY <2>1, <2>2 DEF Agree, Moves
<1>13. QED
  BY <1>1, <1>2, <1>3, <1>4, <1>5, <1>6, <1>7, <1>8, <1>9, <1>10, <1>11, <1>12

\* the others that change one session only,
LEMMA ProcessMoves ==
  ASSUME AgentInv, NEW s \in Session,
         \/ ReadConnect(s) \/ HttpAnswers(s) \/ HttpSends(s) \/ DialFails(s) \/ DialSucceeds(s)
         \/ Ends(s) \/ HubTakesEnrol(s) \/ HubTakesUnenrol(s)
         \/ OutputRelays(s) \/ FeederWrites(s) \/ CloserLoads(s) \/ CloserCloses(s)
  PROVE  Moves(s) /\ Others(s)
<1> stream \in [Session -> Stream] /\ stream[s] \in Stream
  BY Typed
<1>1. ASSUME ReadConnect(s) PROVE Moves(s) /\ Others(s)
  <2>1. stream'[s] = [stream[s] EXCEPT !.proc = "dial"] /\ Others(s)
    BY <1>1 DEF ReadConnect, Others
  <2>2. stream'[s].proc = "dial" /\ Agree(stream[s], stream'[s], "proc")
    BY <2>1 DEF Agree, Stream
  <2>3. QED  BY <1>1, <2>1, <2>2 DEF Agree, Moves, ReadConnect
<1>2. ASSUME HttpAnswers(s) PROVE Moves(s) /\ Others(s)
  <2>1. stream'[s] = [stream[s] EXCEPT !.proc = "reply"] /\ Others(s)
    BY <1>2 DEF HttpAnswers, Others
  <2>2. stream'[s].proc = "reply" /\ Agree(stream[s], stream'[s], "proc")
    BY <2>1 DEF Agree, Stream
  <2>3. QED  BY <1>2, <2>1, <2>2 DEF Agree, Moves, HttpAnswers
<1>3. ASSUME HttpSends(s) PROVE Moves(s) /\ Others(s)
  <2>1. stream'[s] = [stream[s] EXCEPT !.proc = "done"] /\ Others(s)
    BY <1>3 DEF HttpSends, Others
  <2>2. stream'[s].proc = "done" /\ Agree(stream[s], stream'[s], "proc")
    BY <2>1 DEF Agree, Stream
  <2>3. QED  BY <1>3, <2>1, <2>2 DEF Agree, Moves, HttpSends
<1>4. ASSUME DialFails(s) PROVE Moves(s) /\ Others(s)
  <2>1. stream'[s] = [stream[s] EXCEPT !.proc = "refuse"] /\ Others(s)
    BY <1>4 DEF DialFails, Others
  <2>2. stream'[s].proc = "refuse" /\ Agree(stream[s], stream'[s], "proc")
    BY <2>1 DEF Agree, Stream
  <2>3. QED  BY <1>4, <2>1, <2>2 DEF Agree, Moves, DialFails
<1>5. ASSUME HubTakesEnrol(s) PROVE Moves(s) /\ Others(s)
  <2>1. stream'[s] = [stream[s] EXCEPT !.proc = "wait"] /\ Others(s)
    BY <1>5 DEF HubTakesEnrol, Others
  <2>2. stream'[s].proc = "wait" /\ Agree(stream[s], stream'[s], "proc")
    BY <2>1 DEF Agree, Stream
  <2>3. QED  BY <1>5, <2>1, <2>2 DEF Agree, Moves, HubTakesEnrol
<1>6. ASSUME DialSucceeds(s) PROVE Moves(s) /\ Others(s)
  <2>1. stream'[s] = [stream[s] EXCEPT !.proc = "enrol", !.down = "open", !.input = "head",
                                           !.output = "head", !.relay = "read"] /\ Others(s)
    BY <1>6 DEF DialSucceeds, Others
  <2>2. /\ stream'[s].input = "head"
        /\ stream'[s].proc = "enrol" /\ stream'[s].down = "open"
        /\ stream'[s].output = "head" /\ stream'[s].relay = "read"
        /\ stream'[s].status = stream[s].status
        /\ stream'[s].closed = stream[s].closed
        /\ stream'[s].lost = stream[s].lost
        /\ stream'[s].feeder = stream[s].feeder
        /\ stream'[s].closer = stream[s].closer
    BY <2>1 DEF Stream
  <2>3. stream'[s] = Fields(stream'[s])
    BY <2>1 DEF Stream, Fields
  <2>4. stream'[s] \in Stream
    BY <2>2, <2>3, StatusIsSet DEF Stream, Fields
  <2>5. stream[s].proc = "dial"
    BY <1>6 DEF DialSucceeds
  <2>6. Moves(s)
    BY ONLY <2>2, <2>4, <2>5 DEF Moves
  <2>7. QED  BY <2>1, <2>6
<1>7. ASSUME Ends(s) PROVE Moves(s) /\ Others(s)
  <2>1. stream'[s] = [stream[s] EXCEPT !.proc = "unenrol", !.down = "closed",
                                           !.status = SetStatus(@, "process failed")] /\ Others(s)
    BY <1>7 DEF Ends, Others
  <2>2. /\ stream'[s].proc = "unenrol" /\ stream'[s].down = "closed"
        /\ stream'[s].status = SetStatus(stream[s].status, "process failed")
        /\ stream'[s].closed = stream[s].closed
        /\ stream'[s].lost = stream[s].lost
        /\ stream'[s].input = stream[s].input
        /\ stream'[s].output = stream[s].output
        /\ stream'[s].relay = stream[s].relay
        /\ stream'[s].feeder = stream[s].feeder
        /\ stream'[s].closer = stream[s].closer
    BY <2>1 DEF Stream
  <2>3. stream'[s] = Fields(stream'[s])
    BY <2>1 DEF Stream, Fields
  <2>4. stream'[s] \in Stream
    BY <2>2, <2>3, StatusIsSet DEF Stream, Fields
  <2>5. QED  BY <1>7, <2>1, <2>2, <2>4 DEF Moves, Ends, SetStatus, Ended
<1>8. ASSUME HubTakesUnenrol(s) PROVE Moves(s) /\ Others(s)
  <2>1. stream'[s] = [stream[s] EXCEPT !.proc = "done", !.closed = @ \/ s \in sessions] /\ Others(s)
    BY <1>8, StreamFacts DEF HubTakesUnenrol, Others
  <2>2. /\ stream'[s].proc = "done"
        /\ stream'[s].closed = (stream[s].closed \/ s \in sessions)
        /\ stream'[s].down = stream[s].down
        /\ stream'[s].status = stream[s].status
        /\ stream'[s].lost = stream[s].lost
        /\ stream'[s].input = stream[s].input
        /\ stream'[s].output = stream[s].output
        /\ stream'[s].relay = stream[s].relay
        /\ stream'[s].feeder = stream[s].feeder
        /\ stream'[s].closer = stream[s].closer
    BY <2>1 DEF Stream
  <2>3. stream'[s] = Fields(stream'[s])
    BY <2>1 DEF Stream, Fields
  <2>4. stream'[s] \in Stream
    BY <2>2, <2>3, StatusIsSet DEF Stream, Fields
  <2>5. QED  BY <1>8, <2>1, <2>2, <2>4, StreamFacts DEF Moves, HubTakesUnenrol
<1>9. ASSUME OutputRelays(s) PROVE Moves(s) /\ Others(s)
  <2>1. stream'[s] = [stream[s] EXCEPT !.output = "head", !.relay = "send"] /\ Others(s)
    BY <1>9 DEF OutputRelays, Others
  <2>2. /\ stream'[s].output = "head" /\ stream'[s].relay = "send"
        /\ stream'[s].proc = stream[s].proc
        /\ stream'[s].down = stream[s].down
        /\ stream'[s].status = stream[s].status
        /\ stream'[s].closed = stream[s].closed
        /\ stream'[s].lost = stream[s].lost
        /\ stream'[s].input = stream[s].input
        /\ stream'[s].feeder = stream[s].feeder
        /\ stream'[s].closer = stream[s].closer
    BY <2>1 DEF Stream
  <2>3. stream'[s] = Fields(stream'[s])
    BY <2>1 DEF Stream, Fields
  <2>4. stream'[s] \in Stream
    BY <2>2, <2>3, StatusIsSet DEF Stream, Fields
  <2>5. QED  BY <1>9, <2>1, <2>2, <2>4 DEF Moves, OutputRelays
<1>10. ASSUME CloserCloses(s) PROVE Moves(s) /\ Others(s)
  <2>1. stream'[s] = [stream[s] EXCEPT !.closer = "none", !.closed = TRUE] /\ Others(s)
    BY <1>10 DEF CloserCloses, Others
  <2>2. /\ stream'[s].closer = "none" /\ stream'[s].closed = TRUE
        /\ stream'[s].proc = stream[s].proc
        /\ stream'[s].down = stream[s].down
        /\ stream'[s].status = stream[s].status
        /\ stream'[s].lost = stream[s].lost
        /\ stream'[s].input = stream[s].input
        /\ stream'[s].output = stream[s].output
        /\ stream'[s].relay = stream[s].relay
        /\ stream'[s].feeder = stream[s].feeder
    BY <2>1 DEF Stream
  <2>3. stream'[s] = Fields(stream'[s])
    BY <2>1 DEF Stream, Fields
  <2>4. stream'[s] \in Stream
    BY <2>2, <2>3, StatusIsSet DEF Stream, Fields
  <2>5. QED  BY <1>10, <2>1, <2>2, <2>4 DEF Moves, CloserCloses
<1>11. ASSUME FeederWrites(s) PROVE Moves(s) /\ Others(s)
  <2>1. CASE stream' = [stream EXCEPT ![s].feeder = "none"]
    <3>1. stream'[s] = [stream[s] EXCEPT !.feeder = "none"] /\ Others(s)
      BY <2>1 DEF Others
    <3>2. stream'[s].feeder = "none" /\ Agree(stream[s], stream'[s], "feeder")
      BY <3>1, SetFeeder
    <3>3. QED  BY <3>1, <3>2 DEF Agree, Moves
  <2>2. CASE stream' = [stream EXCEPT ![s].feeder = "none", ![s].input = "receive"]
    <3>1. stream'[s] = [stream[s] EXCEPT !.feeder = "none", !.input = "receive"] /\ Others(s)
      BY <2>2 DEF Others
    <3>2. /\ stream'[s].feeder = "none"
          /\ stream'[s].input = "receive"
          /\ stream'[s].proc = stream[s].proc
          /\ stream'[s].down = stream[s].down
          /\ stream'[s].status = stream[s].status
          /\ stream'[s].closed = stream[s].closed
          /\ stream'[s].lost = stream[s].lost
          /\ stream'[s].output = stream[s].output
          /\ stream'[s].relay = stream[s].relay
          /\ stream'[s].closer = stream[s].closer
      BY <3>1 DEF Stream
    <3>3. stream'[s] = Fields(stream'[s])
      BY <3>1 DEF Stream, Fields
    <3>4. stream'[s] \in Stream
      BY <3>2, <3>3 DEF Stream, Fields
    <3>5. QED  BY <3>1, <3>2, <3>4 DEF Moves
  <2>3. QED  BY <1>11, <2>1, <2>2 DEF FeederWrites
<1>12. ASSUME CloserLoads(s) PROVE Moves(s) /\ Others(s)
  <2>1. CASE s \in sessions
    <3>1. /\ stream'[s] = [stream[s] EXCEPT !.closer = "close",
                                            !.status = SetStatus(@, "upstream closed")]
          /\ Others(s)
      BY <1>12, <2>1 DEF CloserLoads, Others
    <3>2. /\ stream'[s].closer = "close"
          /\ stream'[s].status = SetStatus(stream[s].status, "upstream closed")
          /\ stream'[s].proc = stream[s].proc
          /\ stream'[s].down = stream[s].down
          /\ stream'[s].closed = stream[s].closed
          /\ stream'[s].lost = stream[s].lost
          /\ stream'[s].input = stream[s].input
          /\ stream'[s].output = stream[s].output
          /\ stream'[s].relay = stream[s].relay
          /\ stream'[s].feeder = stream[s].feeder
      BY <3>1 DEF Stream
    <3>3. stream'[s] = Fields(stream'[s])
      BY <3>1 DEF Stream, Fields
    <3>4. stream'[s] \in Stream
      BY <3>2, <3>3, StatusIsSet DEF Stream, Fields
    <3>5. QED  BY <2>1, <3>1, <3>2, <3>4, StreamFacts DEF Moves, SetStatus, Ended
  <2>2. CASE s \notin sessions
    <3>1. stream'[s] = [stream[s] EXCEPT !.closer = "none"] /\ Others(s)
      BY <1>12, <2>2 DEF CloserLoads, Others
    <3>2. stream'[s].closer = "none" /\ Agree(stream[s], stream'[s], "closer")
      BY <3>1, SetCloser
    <3>3. QED  BY <3>1, <3>2 DEF Agree, Moves
  <2>3. QED  BY <2>1, <2>2
<1>13. QED
  BY <1>1, <1>2, <1>3, <1>4, <1>5, <1>6, <1>7, <1>8, <1>9, <1>10, <1>11, <1>12

\* and the connection's own steps, two of which touch every session.
LEMMA ConnectionMoves ==
  ASSUME AgentInv, ConnectionStep, NEW s \in Session
  PROVE  Moves(s)
<1> stream \in [Session -> Stream] /\ stream[s] \in Stream
  BY Typed
<1>1. ASSUME Redial PROVE Moves(s)
  <2>1. stream'[s] = Abandoned(stream[s])
    BY <1>1 DEF Redial
  <2>2. /\ stream'[s].relay = IF stream[s].relay = "send" THEN "lost" ELSE stream[s].relay
        /\ stream'[s].feeder = IF stream[s].feeder = "notice" THEN "lost" ELSE stream[s].feeder
        /\ stream'[s].proc = IF stream[s].proc = "reply" THEN "lost" ELSE stream[s].proc
        /\ stream'[s].down = stream[s].down
        /\ stream'[s].status = stream[s].status
        /\ stream'[s].closed = stream[s].closed
        /\ stream'[s].lost = stream[s].lost
        /\ stream'[s].input = stream[s].input
        /\ stream'[s].output = stream[s].output
        /\ stream'[s].closer = stream[s].closer
    BY <2>1 DEF Stream, Abandoned
  <2>3. stream'[s] = Fields(stream'[s])
    BY <2>1 DEF Stream, Abandoned, Fields
  <2>4. stream'[s] \in Stream
    BY <2>2, <2>3 DEF Stream, Fields
  <2>5. QED  BY <1>1, <2>2, <2>4 DEF Moves, Redial
<1>2. ASSUME RunCancels PROVE Moves(s)
  <2>1. stream'[s] = [stream[s] EXCEPT !.lost = @ \/ stream[s].proc # "none"]
    BY <1>2 DEF RunCancels
  <2>2. /\ stream'[s].lost = (stream[s].lost \/ stream[s].proc # "none")
        /\ Agree(stream[s], stream'[s], "lost")
    <3>1. (stream[s].lost \/ stream[s].proc # "none") \in BOOLEAN
      OBVIOUS
    <3>2. QED  BY <2>1, <3>1, SetLost
  <2>3. QED  BY <2>2 DEF Agree, Moves
<1>3. ASSUME ~Redial, ~RunCancels PROVE Moves(s)
  BY <1>3, StaysMoves DEF ConnectionStep, LinkBreaks, WriterWrites, WriterStops, HubSends, HubExits
<1>4. QED  BY <1>1, <1>2, <1>3

\* Whatever the agent does, each of its sessions moves in one of these ways.
LEMMA StepMoves ==
  ASSUME AgentInv, [AgentNext]_avars, NEW s \in Session
  PROVE  Moves(s)
<1>1. CASE ConnectionStep
  BY <1>1, ConnectionMoves
<1>2. ASSUME NEW t \in Session, Process(t) \/ Pump(t) \/ Serve(t) \/ Peer(t) PROVE Moves(s)
  <2>1. Moves(t) /\ Others(t)
    BY <1>2, PumpMoves, ProcessMoves DEF Process, Pump, Serve, Peer
  <2>2. QED  BY <2>1, StaysMoves DEF Others
<1>3. CASE UNCHANGED avars
  BY <1>3, StaysMoves DEF avars
<1>4. QED  BY <1>1, <1>2, <1>3 DEF AgentNext

\* What a step may do to the connection, its hub and its writer.
ConnectionMovesOn ==
    /\ \/ link' = link
       \/ link = "up" /\ link' = "down"
       \/ /\ link = "down" /\ link' = "closed"
          /\ \A s \in Session : stream[s].proc # "none" => stream'[s].lost
          /\ \A s \in Session : stream'[s].proc = stream[s].proc
       \/ /\ link \in {"none", "closed"} /\ hub.at # "select" /\ writer = Gone
          /\ link' = "up" /\ hub' = Selecting /\ writer' = Selecting
    /\ \/ hub' = hub
       \/ hub = Selecting /\ hub'.at = "send"
       \/ hub = Selecting /\ hub' = Gone /\ link = "closed"
       \/ /\ hub.at = "send" /\ hub' = Selecting
          /\ writer = Selecting /\ writer' = At("write", hub.msg)
       \/ /\ link \in {"none", "closed"} /\ link' = "up" /\ hub' = Selecting
    /\ \/ writer' = writer
       \/ writer = Selecting /\ writer'.at = "write"
       \/ /\ writer.at = "write" /\ writer' = Selecting /\ link \in {"up", "down"}
          /\ link = "up" => said'[writer.msg.session] = Hears(said[writer.msg.session],
                                Http(writer.msg.session), writer.msg.type)
       \/ writer' = Gone /\ link # "up"
       \/ /\ link \in {"none", "closed"} /\ link' = "up" /\ writer' = Selecting

\* Every step moves link, hub and writer on in this way.
LEMMA StepConnection ==
  ASSUME AgentInv, [AgentNext]_avars
  PROVE  ConnectionMovesOn
<1> USE DEF ConnectionMovesOn, Selecting, Gone, At
<1>1. CASE Redial
  BY <1>1 DEF Redial
<1>2. CASE LinkBreaks
  BY <1>2 DEF LinkBreaks
<1>3. CASE RunCancels
  <2>1. ASSUME NEW s \in Session
        PROVE  /\ stream[s].proc # "none" => stream'[s].lost
               /\ stream'[s].proc = stream[s].proc
    <3>1. stream'[s] = [stream[s] EXCEPT !.lost = stream[s].lost \/ stream[s].proc # "none"]
      BY <1>3 DEF RunCancels
    <3>2. stream[s] \in Stream
      BY Typed
    <3>3. QED  BY ONLY <3>1, <3>2 DEF Stream
  <2>2. link = "down" /\ link' = "closed" /\ UNCHANGED <<hub, writer>>
    BY <1>3 DEF RunCancels
  <2>3. QED  BY ONLY <2>1, <2>2 DEF ConnectionMovesOn
<1>4. CASE WriterWrites
  BY <1>4, Typed DEF WriterWrites, Message
<1>5. CASE WriterStops
  BY <1>5 DEF WriterStops
<1>6. CASE HubSends
  BY <1>6 DEF HubSends, WriterTakes
<1>7. CASE HubExits
  BY <1>7 DEF HubExits
<1>8. ASSUME NEW s \in Session, HubTakesEnrol(s) \/ HubTakesUnenrol(s) PROVE ConnectionMovesOn
  <2>1. /\ hub = Selecting /\ link' = link /\ writer' = writer
        /\ hub' \in {Selecting, At("send", Msg(s, "connect")), At("send", Msg(s, "close"))}
    BY <1>8 DEF HubTakesEnrol, HubTakesUnenrol
  <2>2. QED  BY <2>1
<1>9. ASSUME NEW s \in Session, HttpSends(s) \/ RelaySends(s) \/ FeederNotices(s)
      PROVE  ConnectionMovesOn
  BY <1>9 DEF HttpSends, RelaySends, FeederNotices, WriterTakes
<1>10. ASSUME NEW s \in Session,
              \/ HttpAnswers(s) \/ DialFails(s) \/ DialSucceeds(s) \/ Ends(s)
              \/ InputLoops(s) \/ InputFails(s) \/ InputReceives(s)
              \/ OutputLoops(s) \/ OutputReads(s) \/ OutputFails(s) \/ OutputRelays(s)
              \/ FeederLoads(s) \/ FeederWrites(s) \/ CloserLoads(s) \/ CloserCloses(s)
              \/ Peer(s)
       PROVE  link' = link /\ hub' = hub /\ writer' = writer
  BY <1>10 DEF HttpAnswers, DialFails, DialSucceeds, Ends, InputLoops, InputFails, InputReceives,
               OutputLoops, OutputReads, OutputFails, OutputRelays, FeederLoads, FeederWrites,
               CloserLoads, CloserCloses, Peer, ReadConnect, ReadData, ReadClose, DownEnds
<1>11. CASE UNCHANGED avars
  BY <1>11 DEF avars
<1>12. QED
  BY <1>1, <1>2, <1>3, <1>4, <1>5, <1>6, <1>7, <1>8, <1>9, <1>10, <1>11
  DEF AgentNext, ConnectionStep, Process, Pump, Serve

\* ServedIsWhole and ConnectionIsServed are inductive with AgentInv.
LEMMA InitWhole == AgentInit => ServedIsWhole /\ ConnectionIsServed
<1> SUFFICES ASSUME AgentInit PROVE ServedIsWhole /\ ConnectionIsServed
  OBVIOUS
<1>1. ASSUME NEW s \in Session
      PROVE  /\ stream[s].proc = "none" /\ stream[s].output = "off"
             /\ stream[s].closed = FALSE /\ stream[s].closer = "none" /\ stream[s].down = "none"
  BY DEF AgentInit
<1>2. link = "none" /\ hub = Gone /\ writer = Gone
  BY DEF AgentInit
<1>3. QED  BY <1>1, <1>2 DEF ServedIsWhole, ConnectionIsServed

\* A session gets its downstream and pumps together; only a served one is closed or hung up.
LEMMA StepWhole == AgentInv /\ ServedIsWhole /\ [AgentNext]_avars => ServedIsWhole'
<1> SUFFICES ASSUME AgentInv, ServedIsWhole, [AgentNext]_avars, NEW s \in Session
             PROVE  /\ stream'[s].proc \in {"enrol", "wait", "unenrol"} =>
                          /\ stream'[s].down # "none" /\ stream'[s].output # "off"
                          /\ stream'[s].relay # "off"
                    /\ stream'[s].output # "off" => stream'[s].down # "none"
                    /\ stream'[s].down = "closed" => stream'[s].proc \in {"unenrol", "done"}
                    /\ stream'[s].closed \/ stream'[s].closer = "close" =>
                          stream'[s].proc \in {"wait", "unenrol", "done"} /\ stream'[s].down # "none"
                    /\ stream'[s].proc \in {"reply", "lost"} => Http(s)
  BY DEF ServedIsWhole, Http
<1>1. Moves(s)
  BY StepMoves
<1>2. stream[s] \in Stream
  BY StreamFacts
<1> DEFINE old == stream[s]
           new == stream'[s]
<1>3. /\ old.proc \in {"enrol", "wait", "unenrol"} =>
            old.down # "none" /\ old.output # "off" /\ old.relay # "off"
      /\ old.output # "off" => old.down # "none"
      /\ old.down = "closed" => old.proc \in {"unenrol", "done"}
      /\ old.closed \/ old.closer = "close" =>
            old.proc \in {"wait", "unenrol", "done"} /\ old.down # "none"
      /\ old.proc \in {"reply", "lost"} => Http(s)
  BY DEF ServedIsWhole
<1>4. new.proc \in {"enrol", "wait", "unenrol"} =>
         new.down # "none" /\ new.output # "off" /\ new.relay # "off"
  BY <1>1, <1>3 DEF Moves
<1>5. new.output # "off" => new.down # "none"
  BY <1>1, <1>3 DEF Moves
<1>6. new.closed \/ new.closer = "close" => new.proc \in {"wait", "unenrol", "done"}
  BY <1>1, <1>3 DEF Moves
<1>7. new.closed \/ new.closer = "close" => new.down # "none"
  BY <1>1, <1>3 DEF Moves
<1>8. new.down = "closed" => new.proc \in {"unenrol", "done"}
  BY <1>1, <1>3 DEF Moves
<1>9. new.proc \in {"reply", "lost"} => Http(s)
  BY <1>1, <1>3 DEF Moves
<1>10. QED  BY <1>4, <1>5, <1>6, <1>7, <1>8, <1>9

\* Hub and writer go with their connection, and sessions do not outlive it untold.
LEMMA StepServed == AgentInv /\ ConnectionIsServed /\ [AgentNext]_avars => ConnectionIsServed'
<1> SUFFICES ASSUME AgentInv, ConnectionIsServed, [AgentNext]_avars PROVE ConnectionIsServed'
  OBVIOUS
<1>1. ConnectionMovesOn
  BY StepConnection
<1>2. link' = "none" => hub' = Gone /\ writer' = Gone
  BY <1>1 DEF ConnectionMovesOn, ConnectionIsServed, Gone, Selecting, At
<1>3. link' \in {"up", "down"} => hub' # Gone
  BY <1>1 DEF ConnectionMovesOn, ConnectionIsServed, Gone, Selecting, At
<1>4. link' = "up" => writer' # Gone
  BY <1>1 DEF ConnectionMovesOn, ConnectionIsServed, Gone, Selecting, At
<1>5. ASSUME NEW s \in Session, stream'[s].proc # "none"
      PROVE  /\ link' # "none"
             /\ ~stream'[s].lost => link' \in {"up", "down"} /\ stream'[s].relay # "lost"
  <2>1. Moves(s)
    BY StepMoves
  <2>2. stream[s].lost => stream'[s].lost
    BY <2>1 DEF Moves
  <2>3. link = "up" => link' \in {"up", "down"}
    BY <1>1 DEF ConnectionMovesOn
  <2>4. CASE stream[s].proc = "none"
    <3>1. link = "up" /\ stream[s].relay = "off"
      BY <1>5, <2>1, <2>4, StreamFacts DEF Moves
    <3>2. QED  BY <2>1, <2>3, <2>4, <3>1 DEF Moves
  <2>5. CASE stream[s].proc # "none"
    <3>1. link # "none" /\ (~stream[s].lost => link \in {"up", "down"} /\ stream[s].relay # "lost")
      BY <2>5 DEF ConnectionIsServed
    <3>2. link' # "none" /\ (~stream'[s].lost => link' \in {"up", "down"})
      BY <1>1, <2>2, <2>5, <3>1 DEF ConnectionMovesOn
    <3>3. QED  BY <2>1, <2>2, <3>1, <3>2 DEF Moves
  <2>6. QED  BY <2>4, <2>5
<1>6. QED  BY <1>2, <1>3, <1>4, <1>5 DEF ConnectionIsServed

\* Both hold of every reachable state.
LEMMA WholeInvariant == AgentSpec => [](ServedIsWhole /\ ConnectionIsServed)
BY InitWhole, StepWhole, StepServed, AgentInvariant, PTL DEF AgentSpec

\* All that is known of every reachable state.
Whole == AgentInv /\ ServedIsWhole /\ ConnectionIsServed

\* They and AgentInv.
LEMMA WholeAlways == AgentSpec => []Whole
BY AgentInvariant, WholeInvariant, PTL DEF Whole

\* The fairness of each session, from that of the specification.
LEMMA StreamFair == AgentSpec => \A s \in Session : StreamFairness(s)
BY PTL DEF AgentSpec, AgentFairness, HubFairness

\* What is said of all sessions is said of each.
LEMMA StreamCanMove == ASSUME NEW s \in Session PROVE []AgentUnblocked => []StreamUnblocked(s)
<1>1. AgentUnblocked => StreamUnblocked(s)
  BY DEF AgentUnblocked
<1>2. QED  BY <1>1, PTL

\* Hub and writer are at one of three places each.
LEMMA Places ==
  ASSUME Whole
  PROVE  /\ hub = Selecting \/ hub.at = "send" \/ hub = Gone
         /\ writer = Selecting \/ writer.at = "write" \/ writer = Gone
         /\ link \in {"none", "up", "down", "closed"}
         /\ link \in {"up", "down"} => hub # Gone
         /\ link = "up" => writer # Gone
<1>1. /\ hub = At(hub.at, hub.msg) /\ hub.at \in {"select", "send", "done"}
      /\ hub.msg = None <=> hub.at # "send"
      /\ writer = At(writer.at, writer.msg) /\ writer.at \in {"select", "write", "done"}
      /\ writer.msg = None <=> writer.at # "write"
  BY DEF Whole, AgentInv, AgentTypeOK, Worker, At
<1>2. QED  BY <1>1 DEF Whole, ConnectionIsServed, AgentInv, AgentTypeOK, Selecting, Gone

\* No place is another.
LEMMA PlacesDiffer ==
  /\ Selecting # Gone /\ Selecting.at = "select" /\ Gone.at = "done"
  /\ \A msg : At("write", msg).at = "write"
BY DEF Selecting, Gone, At

\* The steps that the connection waits for.
LEMMA WriterRan ==
  ASSUME Whole, WriterRuns
  PROVE  /\ link' = link /\ hub' = hub
         /\ link = "up" => writer' = Selecting
         /\ link = "closed" => writer' = Gone
BY PlacesDiffer DEF WriterRuns, WriterWrites, WriterStops

\* Run dials, or cancels the connection and tells its sessions;
LEMMA RunRan ==
  ASSUME Whole, RunRuns
  PROVE  \/ link \in {"none", "closed"} /\ link' = "up" /\ hub' = Selecting /\ writer' = Selecting
         \/ /\ link = "down" /\ link' = "closed" /\ hub' = hub /\ writer' = writer
            /\ \A s \in Session : stream[s].proc # "none" => stream'[s].lost
<1>1. CASE Redial
  BY <1>1 DEF Redial
<1>2. CASE RunCancels
  <2>1. \A s \in Session : stream[s].proc # "none" => stream'[s].lost
    BY <1>2, Typed DEF RunCancels, Stream, Whole
  <2>2. QED  BY <1>2, <2>1 DEF RunCancels
<1>3. QED  BY <1>1, <1>2 DEF RunRuns

\* the hub hands its message to the writer.
LEMMA HubSent ==
  ASSUME HubSends
  PROVE  /\ hub.at = "send" /\ writer = Selecting
         /\ hub' = Selecting /\ writer' = At("write", hub.msg) /\ link' = link
BY DEF HubSends, WriterTakes

\* Once there is a connection the hub selects again and again: what it sends
\* the writer takes, or the connection ends and the next one has a new hub.
LEMMA HubReturns == AgentSpec /\ []AgentUnblocked => (link # "none" ~> hub = Selecting)
<1> DEFINE Dialled  == link # "none"
           Back     == hub = Selecting
           Busy     == link = "up" /\ hub.at = "send" /\ writer.at = "write"
           Served   == link = "up" /\ hub.at = "send" /\ writer = Selecting
           Broken   == link = "down" /\ hub.at = "send"
           Closing  == link = "closed" /\ hub.at # "select" /\ writer # Gone
           Closed   == link = "closed" /\ hub.at # "select" /\ writer = Gone
<1>1. Whole /\ Dialled => Back \/ Busy \/ Served \/ Broken \/ Closing \/ Closed
  BY Places, PlacesDiffer
<1>2. Whole /\ AgentUnblocked =>
         /\ Busy \/ Closing => ENABLED <<WriterRuns>>_avars
         /\ Served => ENABLED <<HubSends>>_avars
         /\ Broken \/ Closed => ENABLED <<RunRuns>>_avars
  <2>1. Whole /\ Closing => writer.at = "write" \/ (writer = Selecting /\ link = "closed")
    BY Places, PlacesDiffer
  <2>2. Broken \/ Closed => link = "down" \/ (link = "closed" /\ hub.at # "select" /\ writer = Gone)
    OBVIOUS
  <2> HIDE DEF Closing, Closed, Broken
  <2>3. QED  BY <2>1, <2>2 DEF AgentUnblocked
<1>3. ASSUME Whole, [AgentNext]_avars
      PROVE  /\ Busy \/ Served => Busy' \/ Served' \/ Broken' \/ Back'
             /\ Broken => Broken' \/ Closing' \/ Closed' \/ Back'
             /\ Closing => Closing' \/ Closed' \/ Back'
             /\ Closed => Closed' \/ Back'
  <2>1. ConnectionMovesOn
    BY <1>3, StepConnection DEF Whole
  <2>2. QED  BY <1>3, <2>1, Places, PlacesDiffer DEF ConnectionMovesOn
<1>4. Whole => /\ Busy /\ <<WriterRuns>>_avars => Served'
               /\ (Busy \/ Served) /\ <<HubSends>>_avars => Back'
               /\ Broken /\ <<RunRuns>>_avars => Closing' \/ Closed'
               /\ Closing /\ <<WriterRuns>>_avars => Closed'
               /\ Closed /\ <<RunRuns>>_avars => Back'
  BY WriterRan, RunRan, HubSent, PlacesDiffer
<1> HIDE DEF Dialled, Back, Busy, Served, Broken, Closing, Closed
<1>5. Whole /\ [AgentNext]_avars =>
             /\ Busy => Busy' \/ Served' \/ Broken' \/ Back'
             /\ Served => Busy' \/ Served' \/ Broken' \/ Back'
             /\ Broken => Broken' \/ Closing' \/ Closed' \/ Back'
             /\ Closing => Closing' \/ Closed' \/ Back'
             /\ Closed => Closed' \/ Back'
  BY <1>3
<1>6. AgentSpec /\ []AgentUnblocked => (Dialled ~> Back)
  BY <1>1, <1>2, <1>4, <1>5, WholeAlways, PTL DEF AgentSpec, AgentFairness, HubFairness
<1>7. QED  BY <1>6 DEF Dialled, Back

\* And so does the writer: over a connection that ended its hub returns, or
\* blocks where it sends, and Run dials again.
LEMMA WriterReturns == AgentSpec /\ []AgentUnblocked => (link # "none" ~> writer = Selecting)
<1> DEFINE Dialled  == link # "none"
           Back     == writer = Selecting
           Busy     == link = "up" /\ writer.at = "write"
           Broken   == link = "down" /\ writer # Selecting
           Closing  == link = "closed" /\ writer.at = "write"
           HubLeft  == link = "closed" /\ writer = Gone /\ hub = Selecting
           Closed   == link = "closed" /\ writer = Gone /\ hub.at # "select"
<1>1. Whole /\ Dialled => Back \/ Busy \/ Broken \/ Closing \/ HubLeft \/ Closed
  BY Places, PlacesDiffer
<1>2. Whole /\ AgentUnblocked =>
         /\ Busy \/ Closing => ENABLED <<WriterRuns>>_avars
         /\ HubLeft => ENABLED <<HubExits>>_avars
         /\ Broken \/ Closed => ENABLED <<RunRuns>>_avars
  BY DEF AgentUnblocked
<1>3. ASSUME Whole, [AgentNext]_avars
      PROVE  /\ Busy => Busy' \/ Broken' \/ Back'
             /\ Broken => Broken' \/ Closing' \/ HubLeft' \/ Closed' \/ Back'
             /\ Closing => Closing' \/ HubLeft' \/ Closed' \/ Back'
             /\ HubLeft => HubLeft' \/ Closed' \/ Back'
             /\ Closed => Closed' \/ Back'
  <2>1. ConnectionMovesOn
    BY <1>3, StepConnection DEF Whole
  <2>2. Whole'
    BY <1>3, StepAgent, StepWhole, StepServed DEF Whole
  <2>3. hub' = Selecting \/ hub'.at # "select"
    BY <2>1, Places, PlacesDiffer, <1>3 DEF ConnectionMovesOn
  <2>4. QED  BY <1>3, <2>1, <2>3, Places, PlacesDiffer DEF ConnectionMovesOn
<1>4. Whole => /\ Busy /\ <<WriterRuns>>_avars => Back'
               /\ Broken /\ <<RunRuns>>_avars => Closing' \/ HubLeft' \/ Closed'
               /\ Closing /\ <<WriterRuns>>_avars => HubLeft' \/ Closed'
               /\ HubLeft /\ <<HubExits>>_avars => Closed'
               /\ Closed /\ <<RunRuns>>_avars => Back'
  BY WriterRan, RunRan, Places, PlacesDiffer DEF HubExits
<1> HIDE DEF Dialled, Back, Busy, Broken, Closing, HubLeft, Closed
<1>5. Whole /\ [AgentNext]_avars =>
             /\ Busy => Busy' \/ Broken' \/ Back'
             /\ Broken => Broken' \/ Closing' \/ HubLeft' \/ Closed' \/ Back'
             /\ Closing => Closing' \/ HubLeft' \/ Closed' \/ Back'
             /\ HubLeft => HubLeft' \/ Closed' \/ Back'
             /\ Closed => Closed' \/ Back'
  BY <1>3
<1>6. AgentSpec /\ []AgentUnblocked => (Dialled ~> Back)
  BY <1>1, <1>2, <1>4, <1>5, WholeAlways, PTL DEF AgentSpec, AgentFairness, HubFairness
<1>7. QED  BY <1>6 DEF Dialled, Back

\* Where a session that goes on has been.
LEMMA SessionRan ==
  ASSUME Whole, NEW s \in Session
  PROVE  /\ ProcessorRuns(s) => stream'[s].proc # stream[s].proc
         /\ ProcessorIsServed(s) => stream'[s].proc # stream[s].proc
         /\ OutputRuns(s) => stream'[s].output # stream[s].output
         /\ RelaySends(s) => stream'[s].relay # stream[s].relay
<1> stream \in [Session -> Stream]
  BY Typed DEF Whole
<1>1. ProcessorRuns(s) => stream'[s].proc # stream[s].proc
  <2>1. DialFails(s) \/ HttpAnswers(s) => stream'[s].proc # stream[s].proc
    BY DEF DialFails, HttpAnswers, Stream
  <2>2. ASSUME DialSucceeds(s) PROVE stream'[s].proc # stream[s].proc
    <3>1. stream'[s] = [stream[s] EXCEPT !.proc = "enrol", !.down = "open", !.input = "head",
                                         !.output = "head", !.relay = "read"]
      BY <2>2 DEF DialSucceeds
    <3>2. stream'[s].proc = "enrol"
      BY <3>1 DEF Stream
    <3>3. QED  BY <2>2, <3>2 DEF DialSucceeds
  <2>3. ASSUME Ends(s) PROVE stream'[s].proc # stream[s].proc
    <3>1. stream'[s] = [stream[s] EXCEPT !.proc = "unenrol", !.down = "closed",
                                         !.status = SetStatus(@, "process failed")]
      BY <2>3 DEF Ends
    <3>2. stream'[s].proc = "unenrol"
      BY <3>1 DEF Stream
    <3>3. QED  BY <2>3, <3>2 DEF Ends
  <2>4. QED  BY <2>1, <2>2, <2>3 DEF ProcessorRuns
<1>2. ProcessorIsServed(s) => stream'[s].proc # stream[s].proc
  <2>1. HttpSends(s) => stream'[s].proc # stream[s].proc
    BY DEF HttpSends, Stream
  <2>2. HubTakesEnrol(s) => stream'[s].proc # stream[s].proc
    BY DEF HubTakesEnrol, Stream
  <2>3. ASSUME HubTakesUnenrol(s) PROVE stream'[s].proc # stream[s].proc
    <3>1. stream'[s] = [stream[s] EXCEPT !.proc = "done", !.closed = @ \/ s \in sessions]
      BY <2>3 DEF HubTakesUnenrol
    <3>2. stream'[s].proc = "done"
      BY <3>1 DEF Stream
    <3>3. QED  BY <2>3, <3>2 DEF HubTakesUnenrol
  <2>4. QED  BY <2>1, <2>2, <2>3 DEF ProcessorIsServed
<1>3. OutputRuns(s) => stream'[s].output # stream[s].output
  <2>1. OutputLoops(s) => stream'[s].output # stream[s].output
    BY DEF OutputLoops, Stream
  <2>2. OutputFails(s) => stream'[s].output # stream[s].output
    BY DEF OutputFails, Stream
  <2>3. OutputRelays(s) => stream'[s].output # stream[s].output
    BY DEF OutputRelays, Stream
  <2>4. QED  BY <2>1, <2>2, <2>3 DEF OutputRuns
<1>4. RelaySends(s) => stream'[s].relay # stream[s].relay
  BY DEF RelaySends, Stream
<1>5. QED  BY <1>1, <1>2, <1>3, <1>4

\* What is known of one session.
LEMMA WholeFacts ==
  ASSUME Whole, NEW s \in Session
  PROVE  /\ stream[s] \in Stream
         /\ stream[s].proc \notin {"enrol", "wait"} => stream[s].down \in {"none", "closed"}
         /\ stream[s].proc \in {"enrol", "wait", "unenrol"} =>
               stream[s].down # "none" /\ stream[s].output # "off" /\ stream[s].relay # "off"
         /\ stream[s].output # "off" => stream[s].down # "none"
         /\ stream[s].down = "closed" => stream[s].proc \in {"unenrol", "done"}
         /\ stream[s].closed =>
               stream[s].proc \in {"wait", "unenrol", "done"} /\ stream[s].down # "none"
         /\ stream[s].proc # "none" =>
               /\ link # "none"
               /\ ~stream[s].lost => link \in {"up", "down"} /\ stream[s].relay # "lost"
BY StreamFacts DEF Whole, ServedIsWhole, ConnectionIsServed

\* The end of a session that was closed reaches its Processor, which hangs up.
THEOREM ClosedAreHungUp == AgentSpec /\ []AgentUnblocked => ClosedIsHungUp
<1> SUFFICES ASSUME NEW s \in Session
             PROVE  AgentSpec /\ []AgentUnblocked => (stream[s].closed ~> stream[s].down = "closed")
  BY DEF ClosedIsHungUp
<1> DEFINE Shut   == stream[s].closed
           Waits  == stream[s].closed /\ stream[s].proc = "wait"
           HungUp == stream[s].down = "closed"
<1>1. Whole /\ Shut => Waits \/ HungUp
  BY WholeFacts DEF Stream
<1>2. StreamUnblocked(s) /\ Waits => ENABLED <<ProcessorRuns(s)>>_avars
  BY DEF StreamUnblocked
<1>3. Whole /\ [AgentNext]_avars /\ Waits => Waits' \/ HungUp'
  BY StepMoves DEF Moves, Whole
<1>4. Whole /\ [AgentNext]_avars /\ Waits /\ <<ProcessorRuns(s)>>_avars => HungUp'
  BY StepMoves, SessionRan DEF Moves, Whole
<1>5. AgentSpec => StreamFairness(s)
  BY StreamFair
<1> HIDE DEF Shut, Waits, HungUp
<1>6. AgentSpec /\ []AgentUnblocked /\ StreamFairness(s) => (Shut ~> HungUp)
  BY <1>1, <1>2, <1>3, <1>4, WholeAlways, StreamCanMove, PTL DEF AgentSpec, StreamFairness
<1>7. QED  BY <1>5, <1>6, PTL DEF Shut, HungUp

\* A stream without its connection: the output pump writes what it holds, if
\* there is someone to take it, returns when it looks at the Context, and
\* Processor hangs up.
THEOREM LostAreHungUp == AgentSpec /\ []AgentUnblocked => LostIsHungUp
<1> SUFFICES ASSUME NEW s \in Session
             PROVE  AgentSpec /\ []AgentUnblocked =>
                      (stream[s].lost /\ (stream[s].output = "write" \/ stream[s].down = "ended") ~>
                          stream[s].down = "closed" \/ stream[s].relay = "lost")
  BY DEF LostIsHungUp
<1> DEFINE Lost    == stream[s].lost /\ (stream[s].output = "write" \/ stream[s].down = "ended")
           HungUp  == stream[s].down = "closed" \/ stream[s].relay = "lost"
           Enrols  == /\ stream[s].lost /\ stream[s].proc = "enrol"
                      /\ stream[s].down = "ended" \/ stream[s].output \in {"write", "head", "failed"}
           Waits   == stream[s].lost /\ stream[s].proc = "wait"
           Relays  == Waits /\ stream[s].output = "write" /\ stream[s].relay = "send"
           Writes  == Waits /\ stream[s].output = "write" /\ stream[s].relay = "read"
           Loops   == Waits /\ stream[s].output = "head"
           Reads   == Waits /\ stream[s].output = "read" /\ stream[s].down = "ended"
           Fails   == Waits /\ stream[s].output = "failed"
           HubBack == hub = Selecting
           WriterBack == writer = Selecting
           Dialled == link # "none"
<1>1. Whole /\ Lost => HungUp \/ Enrols \/ Relays \/ Writes \/ Loops \/ Reads \/ Fails
  BY WholeFacts DEF Stream
<1>2. Whole /\ (Enrols \/ Relays) => Dialled
  BY WholeFacts
<1>3. /\ StreamUnblocked(s) /\ Enrols /\ HubBack => ENABLED <<ProcessorIsServed(s)>>_avars
      /\ StreamUnblocked(s) /\ Relays /\ WriterBack => ENABLED <<RelaySends(s)>>_avars
      /\ StreamUnblocked(s) /\ (Writes \/ Loops \/ Reads) => ENABLED <<OutputRuns(s)>>_avars
      /\ StreamUnblocked(s) /\ Fails => ENABLED <<ProcessorRuns(s)>>_avars
  <2>1. ASSUME StreamUnblocked(s), Enrols, HubBack PROVE ENABLED <<ProcessorIsServed(s)>>_avars
    BY <2>1 DEF StreamUnblocked
  <2>2. ASSUME StreamUnblocked(s), Relays, WriterBack PROVE ENABLED <<RelaySends(s)>>_avars
    BY <2>2 DEF StreamUnblocked
  <2>3. ASSUME StreamUnblocked(s), Writes \/ Loops \/ Reads PROVE ENABLED <<OutputRuns(s)>>_avars
    <3>1. \/ stream[s].output = "head"
          \/ stream[s].output = "read" /\ stream[s].down # "open"
          \/ stream[s].output = "write" /\ (stream[s].closed \/ stream[s].relay = "read")
      BY <2>3
    <3>2. QED  BY <2>3, <3>1 DEF StreamUnblocked
  <2>4. ASSUME StreamUnblocked(s), Fails PROVE ENABLED <<ProcessorRuns(s)>>_avars
    BY <2>4 DEF StreamUnblocked
  <2>5. QED  BY <2>1, <2>2, <2>3, <2>4
<1>4. ASSUME Whole, [AgentNext]_avars
      PROVE  /\ Enrols => Enrols' \/ Relays' \/ Writes' \/ Loops' \/ Reads' \/ Fails' \/ HungUp'
             /\ Relays => Relays' \/ Writes' \/ Fails' \/ HungUp'
             /\ Writes => Writes' \/ Loops' \/ Fails' \/ HungUp'
             /\ Loops => Loops' \/ Fails' \/ HungUp'
             /\ Reads => Reads' \/ Fails' \/ HungUp'
             /\ Fails => Fails' \/ HungUp'
  <2>1. Moves(s)
    BY <1>4, StepMoves DEF Whole
  <2>2. stream[s] \in Stream /\ stream'[s] \in Stream
    BY <1>4, <2>1, WholeFacts DEF Moves
  <2>3. stream'[s].lost \/ ~stream[s].lost
    BY <2>1 DEF Moves
  <2>4. /\ stream[s].proc \in {"enrol", "wait"} =>
              stream[s].down # "none" /\ stream[s].output # "off" /\ stream[s].relay # "off"
        /\ stream'[s].output \in {"off", "head", "read", "write", "failed"}
        /\ stream'[s].relay \in {"off", "read", "send", "lost"}
        /\ stream'[s].relay = "off" => stream[s].relay = "off"
    <3>1. stream[s].proc \in {"enrol", "wait"} =>
             stream[s].down # "none" /\ stream[s].output # "off" /\ stream[s].relay # "off"
      BY <1>4, WholeFacts
    <3>2. /\ stream'[s].output \in {"off", "head", "read", "write", "failed"}
          /\ stream'[s].relay \in {"off", "read", "send", "lost"}
      BY <2>2 DEF Stream
    <3>3. stream'[s].relay = "off" => stream[s].relay = "off"
      BY <2>1 DEF Moves
    <3>4. QED  BY <3>1, <3>2, <3>3
  <2>5. Enrols => Enrols' \/ Relays' \/ Writes' \/ Loops' \/ Reads' \/ Fails' \/ HungUp'
    BY <2>1, <2>3, <2>4 DEF Moves, Over
  <2>6. Relays => Relays' \/ Writes' \/ Fails' \/ HungUp'
    BY <2>1, <2>3 DEF Moves
  <2>7. Writes => Writes' \/ Loops' \/ Fails' \/ HungUp'
    BY <2>1, <2>3 DEF Moves
  <2>8. Loops => Loops' \/ Fails' \/ HungUp'
    BY <2>1, <2>3 DEF Moves, Over
  <2>9. Reads => Reads' \/ Fails' \/ HungUp'
    BY <2>1, <2>3 DEF Moves
  <2>10. Fails => Fails' \/ HungUp'
    BY <2>1, <2>3 DEF Moves
  <2>11. QED  BY <2>5, <2>6, <2>7, <2>8, <2>9, <2>10
<1>5. ASSUME Whole, [AgentNext]_avars
      PROVE  /\ Enrols /\ <<ProcessorIsServed(s)>>_avars =>
                   Relays' \/ Writes' \/ Loops' \/ Reads' \/ Fails' \/ HungUp'
             /\ Relays /\ <<RelaySends(s)>>_avars => Writes' \/ Fails' \/ HungUp'
             /\ Writes /\ <<OutputRuns(s)>>_avars => Loops' \/ Fails' \/ HungUp'
             /\ Loops /\ <<OutputRuns(s)>>_avars => Fails' \/ HungUp'
             /\ Reads /\ <<OutputRuns(s)>>_avars => Fails' \/ HungUp'
             /\ Fails /\ <<ProcessorRuns(s)>>_avars => HungUp'
  <2>1. Moves(s)
    BY <1>5, StepMoves DEF Whole
  <2>2. /\ ProcessorRuns(s) => stream'[s].proc # stream[s].proc
        /\ ProcessorIsServed(s) => stream'[s].proc # stream[s].proc
        /\ OutputRuns(s) => stream'[s].output # stream[s].output
        /\ RelaySends(s) => stream'[s].relay # stream[s].relay
    BY <1>5, SessionRan
  <2>3. Enrols /\ <<ProcessorIsServed(s)>>_avars =>
            Relays' \/ Writes' \/ Loops' \/ Reads' \/ Fails' \/ HungUp'
    BY <1>4, <1>5, <2>1, <2>2 DEF Moves
  <2>4. Relays /\ <<RelaySends(s)>>_avars => Writes' \/ Fails' \/ HungUp'
    BY <1>4, <1>5, <2>1, <2>2 DEF Moves
  <2>5. Writes /\ <<OutputRuns(s)>>_avars => Loops' \/ Fails' \/ HungUp'
    BY <1>4, <1>5, <2>1, <2>2 DEF Moves
  <2>6. Loops /\ <<OutputRuns(s)>>_avars => Fails' \/ HungUp'
    BY <1>4, <1>5, <2>1, <2>2 DEF Moves
  <2>7. Reads /\ <<OutputRuns(s)>>_avars => Fails' \/ HungUp'
    BY <1>4, <1>5, <2>1, <2>2 DEF Moves
  <2>8. Fails /\ <<ProcessorRuns(s)>>_avars => HungUp'
    BY <1>4, <1>5, <2>1, <2>2 DEF Moves
  <2>9. QED  BY <2>3, <2>4, <2>5, <2>6, <2>7, <2>8
<1>6. AgentSpec => StreamFairness(s)
  BY StreamFair
<1> HIDE DEF Lost, HungUp, Enrols, Waits, Relays, Writes, Loops, Reads, Fails,
             HubBack, WriterBack, Dialled
<1>7. AgentSpec /\ []AgentUnblocked => (Dialled ~> HubBack) /\ (Dialled ~> WriterBack)
  BY HubReturns, WriterReturns, PTL DEF Dialled, HubBack, WriterBack
<1>8. /\ Whole /\ [AgentNext]_avars =>
             /\ Enrols => Enrols' \/ Relays' \/ Writes' \/ Loops' \/ Reads' \/ Fails' \/ HungUp'
             /\ Relays => Relays' \/ Writes' \/ Fails' \/ HungUp'
             /\ Writes => Writes' \/ Loops' \/ Fails' \/ HungUp'
             /\ Loops => Loops' \/ Fails' \/ HungUp'
             /\ Reads => Reads' \/ Fails' \/ HungUp'
             /\ Fails => Fails' \/ HungUp'
      /\ Whole /\ [AgentNext]_avars =>
             /\ Enrols /\ <<ProcessorIsServed(s)>>_avars =>
                   Relays' \/ Writes' \/ Loops' \/ Reads' \/ Fails' \/ HungUp'
             /\ Relays /\ <<RelaySends(s)>>_avars => Writes' \/ Fails' \/ HungUp'
             /\ Writes /\ <<OutputRuns(s)>>_avars => Loops' \/ Fails' \/ HungUp'
             /\ Loops /\ <<OutputRuns(s)>>_avars => Fails' \/ HungUp'
             /\ Reads /\ <<OutputRuns(s)>>_avars => Fails' \/ HungUp'
             /\ Fails /\ <<ProcessorRuns(s)>>_avars => HungUp'
  BY <1>4, <1>5
<1>9. AgentSpec /\ []AgentUnblocked /\ StreamFairness(s) => (Lost ~> HungUp)
  BY <1>1, <1>2, <1>3, <1>7, <1>8, WholeAlways, StreamCanMove, PTL DEF AgentSpec, StreamFairness
<1>10. QED  BY <1>6, <1>9, PTL DEF Lost, HungUp

-----------------------------------------------------------------------------
(* A failed stream and its report.                                         *)

\* Where a stream whose downstream ended may be while its connection is up:
\* not yet at the hub, or waiting, with the output pump about to notice;
Enrolling(s) == link = "up" /\ stream[s].proc = "enrol" /\ stream[s].down = "ended"
Serving(s)   == link = "up" /\ stream[s].proc = "wait"
Relaying(s)  == /\ Serving(s) /\ stream[s].down = "ended"
                /\ stream[s].output = "write" /\ stream[s].relay = "send"
Writing(s)   == /\ Serving(s) /\ stream[s].down = "ended"
                /\ stream[s].output = "write" /\ stream[s].relay = "read"
Looping(s)   == Serving(s) /\ stream[s].down = "ended" /\ stream[s].output = "head"
Reading(s)   == Serving(s) /\ stream[s].down = "ended" /\ stream[s].output = "read"
Failing(s)   == Serving(s) /\ stream[s].output = "failed"

\* on its way out, as one that cannot be reached is, with its report at the
\* hub or at the writer;
Parting(s)   == link = "up" /\ stream[s].proc \in {"unenrol", "refuse"}
Closing(s)   == link = "up" /\ stream[s].proc = "done" /\ hub = At("send", Msg(s, "close"))
Informing(s) == link = "up" /\ stream[s].proc = "done" /\ writer = At("write", Msg(s, "close"))

\* and cut off, or no longer to be reported.
CutOff(s)    == link = "down" /\ stream[s].proc # "none"
Informed(s)  == said[s] = "ended" \/ stream[s].lost \/ stream[s].status = "upstream closed"

LEMMA Labels ==
  /\ \A state, msg : At(state, msg).at = state /\ At(state, msg).msg = msg
  /\ \A s, type : Msg(s, type).session = s /\ Msg(s, type).type = type
BY DEF At, Msg

\* It is in one of these places.
LEMMA FailurePlaces ==
  ASSUME Whole, NEW s \in Session, stream[s].down = "ended" \/ stream[s].proc = "refuse",
         ~Informed(s)
  PROVE  \/ CutOff(s) \/ Enrolling(s) \/ Relaying(s) \/ Writing(s) \/ Looping(s) \/ Reading(s)
         \/ Failing(s) \/ Parting(s)
<1> USE DEF Informed, CutOff, Enrolling, Serving, Relaying, Writing, Looping, Reading, Failing, Parting
<1>1. stream[s].proc \in {"enrol", "wait", "refuse"}
  BY WholeFacts
<1>2. link \in {"up", "down"} /\ stream[s].relay # "lost"
  BY <1>1, WholeFacts
<1>3. CASE stream[s].proc = "wait"
  <2>1. /\ stream[s].down = "ended"
        /\ stream[s].output \in {"head", "read", "write", "failed"}
        /\ stream[s].relay \in {"read", "send"}
    BY <1>2, <1>3, WholeFacts DEF Stream
  <2>2. QED  BY <1>2, <1>3, <2>1
<1>4. QED  BY <1>1, <1>2, <1>3

\* A report goes from the hub to the writer and from there to the server.
LEMMA CloseMoves ==
  ASSUME ConnectionMovesOn, NEW s \in Session, link = "up"
  PROVE  /\ hub = At("send", Msg(s, "close")) => hub' = hub \/ writer' = At("write", Msg(s, "close"))
         /\ writer = At("write", Msg(s, "close")) => writer' = writer \/ said'[s] = "ended"
<1>1. hub = At("send", Msg(s, "close")) => hub' = hub \/ writer' = At("write", Msg(s, "close"))
  BY Labels, PlacesDiffer DEF ConnectionMovesOn
<1>2. writer = At("write", Msg(s, "close")) => writer' = writer \/ said'[s] = "ended"
  BY Labels, PlacesDiffer DEF ConnectionMovesOn, Hears
<1>3. QED  BY <1>1, <1>2

\* Every step leaves it there or takes it on,
LEMMA FailureMoves ==
  ASSUME Whole, [AgentNext]_avars, NEW s \in Session, ~Informed(s)
  PROVE  /\ Enrolling(s) =>
               \/ Enrolling(s)' \/ Relaying(s)' \/ Writing(s)' \/ Looping(s)'
               \/ Reading(s)' \/ Failing(s)' \/ CutOff(s)' \/ Informed(s)'
         /\ Relaying(s) =>
               \/ Relaying(s)' \/ Writing(s)' \/ Failing(s)' \/ Parting(s)'
               \/ CutOff(s)' \/ Informed(s)'
         /\ Writing(s) =>
               \/ Writing(s)' \/ Looping(s)' \/ Failing(s)' \/ Parting(s)'
               \/ CutOff(s)' \/ Informed(s)'
         /\ Looping(s) =>
               \/ Looping(s)' \/ Reading(s)' \/ Failing(s)' \/ Parting(s)'
               \/ CutOff(s)' \/ Informed(s)'
         /\ Reading(s) => Reading(s)' \/ Failing(s)' \/ Parting(s)' \/ CutOff(s)' \/ Informed(s)'
         /\ Failing(s) => Failing(s)' \/ Parting(s)' \/ CutOff(s)' \/ Informed(s)'
         /\ Parting(s) => Parting(s)' \/ Closing(s)' \/ CutOff(s)' \/ Informed(s)'
         /\ Closing(s) => Closing(s)' \/ Informing(s)' \/ CutOff(s)' \/ Informed(s)'
         /\ Informing(s) => Informing(s)' \/ CutOff(s)' \/ Informed(s)'
         /\ CutOff(s) => CutOff(s)' \/ Informed(s)'
<1> USE DEF Informed, CutOff, Enrolling, Serving, Relaying, Writing, Looping, Reading, Failing,
           Parting, Closing, Informing
<1>1. Moves(s) /\ ConnectionMovesOn
  BY StepMoves, StepConnection DEF Whole
<1>2. link = "up" => link' \in {"up", "down"}
  BY <1>1 DEF ConnectionMovesOn
<1>3. /\ stream[s].proc \in {"enrol", "wait"} =>
            stream[s].down # "none" /\ stream[s].output # "off" /\ stream[s].relay # "off"
      /\ stream'[s].output \in {"off", "head", "read", "write", "failed"}
      /\ stream'[s].relay \in {"off", "read", "send", "lost"}
      /\ stream'[s].relay = "off" => stream[s].relay = "off"
      /\ stream[s].proc # "none" => stream'[s].proc # "none"
      /\ stream[s].proc # "none" => stream[s].relay # "lost"
  <2>1. /\ stream[s].proc \in {"enrol", "wait"} =>
              stream[s].down # "none" /\ stream[s].output # "off" /\ stream[s].relay # "off"
        /\ stream[s].proc # "none" => stream[s].relay # "lost"
    BY WholeFacts
  <2>2. /\ stream'[s].output \in {"off", "head", "read", "write", "failed"}
        /\ stream'[s].relay \in {"off", "read", "send", "lost"}
    BY <1>1 DEF Moves, Stream
  <2>3. /\ stream'[s].relay = "off" => stream[s].relay = "off"
        /\ stream[s].proc # "none" => stream'[s].proc # "none"
    BY <1>1 DEF Moves
  <2>4. QED  BY <2>1, <2>2, <2>3
<1>4. Enrolling(s) => \/ Enrolling(s)' \/ Relaying(s)' \/ Writing(s)' \/ Looping(s)'
                      \/ Reading(s)' \/ Failing(s)' \/ CutOff(s)'
  <2>1. ASSUME Enrolling(s), link' = "up", ~Enrolling(s)'
        PROVE  Relaying(s)' \/ Writing(s)' \/ Looping(s)' \/ Reading(s)' \/ Failing(s)'
    <3>1. stream'[s].proc = "wait" /\ stream'[s].down = "ended"
      BY <1>1, <2>1 DEF Moves
    <3>2. stream'[s].output # "off" /\ stream'[s].relay \in {"read", "send"}
      BY <1>1, <1>3, <2>1 DEF Moves
    <3>3. QED  BY <1>3, <2>1, <3>1, <3>2
  <2>2. QED  BY <1>2, <1>3, <2>1
<1>5. Relaying(s) => Relaying(s)' \/ Writing(s)' \/ Failing(s)' \/ Parting(s)' \/ CutOff(s)'
  BY <1>1, <1>2, <1>3 DEF Moves
<1>6. Writing(s) => Writing(s)' \/ Looping(s)' \/ Failing(s)' \/ Parting(s)' \/ CutOff(s)'
  BY <1>1, <1>2, <1>3 DEF Moves
<1>7. Looping(s) => Looping(s)' \/ Reading(s)' \/ Failing(s)' \/ Parting(s)' \/ CutOff(s)'
  BY <1>1, <1>2, <1>3 DEF Moves, Over
<1>8. Reading(s) => Reading(s)' \/ Failing(s)' \/ Parting(s)' \/ CutOff(s)'
  BY <1>1, <1>2, <1>3 DEF Moves
<1>9. Failing(s) => Failing(s)' \/ Parting(s)' \/ CutOff(s)'
  BY <1>1, <1>2, <1>3 DEF Moves
<1>10. Parting(s) => Parting(s)' \/ Closing(s)' \/ CutOff(s)'
  BY <1>1, <1>2, <1>3 DEF Moves
<1>11. Closing(s) => Closing(s)' \/ Informing(s)' \/ CutOff(s)'
  <2>1. Closing(s) => stream'[s].proc = "done"
    BY <1>1 DEF Moves
  <2>2. link = "up" /\ hub = At("send", Msg(s, "close")) => hub' = hub \/ writer' = At("write", Msg(s, "close"))
    BY <1>1, CloseMoves
  <2>3. QED  BY <1>2, <1>3, <2>1, <2>2
<1>12. Informing(s) => Informing(s)' \/ CutOff(s)' \/ Informed(s)'
  <2>1. Informing(s) => stream'[s].proc = "done"
    BY <1>1 DEF Moves
  <2>2. link = "up" /\ writer = At("write", Msg(s, "close")) => writer' = writer \/ said'[s] = "ended"
    BY <1>1, CloseMoves
  <2>3. QED  BY <1>2, <1>3, <2>1, <2>2
<1>13. CutOff(s) => CutOff(s)' \/ Informed(s)'
  BY <1>1, <1>3 DEF ConnectionMovesOn
<1> HIDE DEF Informed, CutOff, Enrolling, Serving, Relaying, Writing, Looping, Reading, Failing,
           Parting, Closing, Informing
<1>14. QED
  BY <1>4, <1>5, <1>6, <1>7, <1>8, <1>9, <1>10, <1>11, <1>12, <1>13

\* and the step that fairness asks for takes it on.
LEMMA FailureServed ==
  ASSUME Whole, [AgentNext]_avars, NEW s \in Session, ~Informed(s)
  PROVE  /\ Enrolling(s) /\ <<ProcessorIsServed(s)>>_avars =>
               \/ Relaying(s)' \/ Writing(s)' \/ Looping(s)' \/ Reading(s)'
               \/ Failing(s)' \/ CutOff(s)' \/ Informed(s)'
         /\ Relaying(s) /\ <<RelaySends(s)>>_avars =>
               \/ Writing(s)' \/ Failing(s)' \/ Parting(s)' \/ CutOff(s)'
               \/ Informed(s)'
         /\ Writing(s) /\ <<OutputRuns(s)>>_avars =>
               \/ Looping(s)' \/ Failing(s)' \/ Parting(s)' \/ CutOff(s)'
               \/ Informed(s)'
         /\ Looping(s) /\ <<OutputRuns(s)>>_avars =>
               \/ Reading(s)' \/ Failing(s)' \/ Parting(s)' \/ CutOff(s)'
               \/ Informed(s)'
         /\ Reading(s) /\ <<OutputRuns(s)>>_avars =>
               \/ Failing(s)' \/ Parting(s)' \/ CutOff(s)' \/ Informed(s)'
         /\ Failing(s) /\ <<ProcessorRuns(s)>>_avars => Parting(s)' \/ CutOff(s)' \/ Informed(s)'
         /\ Parting(s) /\ <<ProcessorIsServed(s)>>_avars => Closing(s)' \/ CutOff(s)' \/ Informed(s)'
         /\ Closing(s) /\ <<HubSends>>_avars => Informing(s)' \/ CutOff(s)' \/ Informed(s)'
         /\ Informing(s) /\ <<WriterRuns>>_avars => Informed(s)'
         /\ CutOff(s) /\ <<RunRuns>>_avars => Informed(s)'
<1>1. /\ ProcessorRuns(s) => stream'[s].proc # stream[s].proc
      /\ ProcessorIsServed(s) => stream'[s].proc # stream[s].proc
      /\ OutputRuns(s) => stream'[s].output # stream[s].output
      /\ RelaySends(s) => stream'[s].relay # stream[s].relay
  BY SessionRan
<1>2. Closing(s) /\ HubSends => ~Closing(s)'
  BY Labels, HubSent, PlacesDiffer DEF Closing
<1> USE DEF Informed, CutOff, Enrolling, Serving, Relaying, Writing, Looping, Reading, Failing,
           Parting, Closing, Informing
<1>3. Informing(s) /\ WriterRuns => ~Informing(s)' /\ ~CutOff(s)'
  BY Labels, WriterRan, PlacesDiffer
<1>4. CutOff(s) /\ RunRuns => ~CutOff(s)'
  BY RunRan
<1>5. Parting(s) /\ ProcessorIsServed(s) => ~Parting(s)'
  BY <1>1, StepMoves DEF Moves, Whole
<1>6. /\ Enrolling(s) /\ ProcessorIsServed(s) => ~Enrolling(s)'
      /\ Relaying(s) /\ RelaySends(s) => ~Relaying(s)'
      /\ Writing(s) /\ OutputRuns(s) => ~Writing(s)'
      /\ Looping(s) /\ OutputRuns(s) => ~Looping(s)'
      /\ Reading(s) /\ OutputRuns(s) => ~Reading(s)'
  BY <1>1
<1>7. Failing(s) /\ ProcessorRuns(s) => ~Failing(s)'
  BY <1>1
<1> HIDE DEF Informed, CutOff, Enrolling, Serving, Relaying, Writing, Looping, Reading, Failing,
            Parting, Closing, Informing
<1>8. QED  BY FailureMoves, <1>2, <1>3, <1>4, <1>5, <1>6, <1>7

\* A downstream that ends makes the output pump fail, or cannot be reached at
\* all; the hub takes the session out and tells the server, if the connection
\* lasts and the server did not close the session itself.
THEOREM FailuresAreReported == AgentSpec /\ []AgentUnblocked => FailureIsReported
<1> SUFFICES ASSUME NEW s \in Session
             PROVE  AgentSpec /\ []AgentUnblocked =>
                      (stream[s].down = "ended" \/ stream[s].proc = "refuse" ~>
                          \/ said[s] = "ended"
                          \/ stream[s].lost
                          \/ stream[s].status = "upstream closed")
  BY DEF FailureIsReported
<1> DEFINE Failed  == stream[s].down = "ended" \/ stream[s].proc = "refuse"
           HubBack == hub = Selecting
           WriterBack == writer = Selecting
           Dialled == link # "none"
<1>1. Whole /\ Failed =>
         \/ Informed(s) \/ CutOff(s) \/ Enrolling(s) \/ Relaying(s) \/ Writing(s) \/ Looping(s)
         \/ Reading(s) \/ Failing(s) \/ Parting(s)
  BY FailurePlaces
<1>2. Enrolling(s) \/ Relaying(s) \/ Parting(s) \/ Closing(s) \/ Informing(s) => Dialled
  BY DEF Enrolling, Serving, Relaying, Writing, Looping, Reading, Failing, Parting, Closing, Informing
<1>3. /\ StreamUnblocked(s) /\ (Enrolling(s) \/ Parting(s)) /\ HubBack
            => ENABLED <<ProcessorIsServed(s)>>_avars
      /\ StreamUnblocked(s) /\ Relaying(s) /\ WriterBack => ENABLED <<RelaySends(s)>>_avars
      /\ StreamUnblocked(s) /\ (Writing(s) \/ Looping(s) \/ Reading(s)) => ENABLED <<OutputRuns(s)>>_avars
      /\ StreamUnblocked(s) /\ Failing(s) => ENABLED <<ProcessorRuns(s)>>_avars
      /\ AgentUnblocked /\ Closing(s) /\ WriterBack => ENABLED <<HubSends>>_avars
      /\ AgentUnblocked /\ Informing(s) => ENABLED <<WriterRuns>>_avars
      /\ AgentUnblocked /\ CutOff(s) => ENABLED <<RunRuns>>_avars
  <2> USE DEF CutOff, Enrolling, Serving, Relaying, Writing, Looping, Reading, Failing, Parting, Closing,
             Informing
  <2>1. ASSUME StreamUnblocked(s), Enrolling(s) \/ Parting(s), HubBack PROVE ENABLED <<ProcessorIsServed(s)>>_avars
    BY <2>1 DEF StreamUnblocked
  <2>2. ASSUME StreamUnblocked(s), Relaying(s), WriterBack PROVE ENABLED <<RelaySends(s)>>_avars
    BY <2>2 DEF StreamUnblocked
  <2>3. ASSUME StreamUnblocked(s), Writing(s) \/ Looping(s) \/ Reading(s) PROVE ENABLED <<OutputRuns(s)>>_avars
    <3>1. \/ stream[s].output = "head"
          \/ stream[s].output = "read" /\ stream[s].down # "open"
          \/ stream[s].output = "write" /\ (stream[s].closed \/ stream[s].relay = "read")
      BY <2>3
    <3>2. QED  BY <2>3, <3>1 DEF StreamUnblocked
  <2>4. ASSUME StreamUnblocked(s), Failing(s) PROVE ENABLED <<ProcessorRuns(s)>>_avars
    BY <2>4 DEF StreamUnblocked
  <2>5. ASSUME AgentUnblocked, Closing(s), WriterBack PROVE ENABLED <<HubSends>>_avars
    <3>1. hub.at = "send"
      BY Labels, <2>5
    <3>2. QED  BY <2>5, <3>1 DEF AgentUnblocked
  <2>6. ASSUME AgentUnblocked, Informing(s) PROVE ENABLED <<WriterRuns>>_avars
    <3>1. writer.at = "write"
      BY Labels, <2>6
    <3>2. QED  BY <3>1, <2>6 DEF AgentUnblocked
  <2>7. ASSUME AgentUnblocked, CutOff(s) PROVE ENABLED <<RunRuns>>_avars
    BY <2>7 DEF AgentUnblocked
  <2>8. QED  BY <2>1, <2>2, <2>3, <2>4, <2>5, <2>6, <2>7
<1>4. AgentSpec => StreamFairness(s)
  BY StreamFair
<1>5. Whole /\ [AgentNext]_avars /\ ~Informed(s) =>
         /\ Enrolling(s) =>
               \/ Enrolling(s)' \/ Relaying(s)' \/ Writing(s)' \/ Looping(s)'
               \/ Reading(s)' \/ Failing(s)' \/ CutOff(s)' \/ Informed(s)'
         /\ Relaying(s) =>
               \/ Relaying(s)' \/ Writing(s)' \/ Failing(s)' \/ Parting(s)'
               \/ CutOff(s)' \/ Informed(s)'
         /\ Writing(s) =>
               \/ Writing(s)' \/ Looping(s)' \/ Failing(s)' \/ Parting(s)'
               \/ CutOff(s)' \/ Informed(s)'
         /\ Looping(s) =>
               \/ Looping(s)' \/ Reading(s)' \/ Failing(s)' \/ Parting(s)'
               \/ CutOff(s)' \/ Informed(s)'
         /\ Reading(s) => Reading(s)' \/ Failing(s)' \/ Parting(s)' \/ CutOff(s)' \/ Informed(s)'
         /\ Failing(s) => Failing(s)' \/ Parting(s)' \/ CutOff(s)' \/ Informed(s)'
         /\ Parting(s) => Parting(s)' \/ Closing(s)' \/ CutOff(s)' \/ Informed(s)'
         /\ Closing(s) => Closing(s)' \/ Informing(s)' \/ CutOff(s)' \/ Informed(s)'
         /\ Informing(s) => Informing(s)' \/ CutOff(s)' \/ Informed(s)'
         /\ CutOff(s) => CutOff(s)' \/ Informed(s)'
  BY FailureMoves
<1>6. Whole /\ [AgentNext]_avars /\ ~Informed(s) =>
         /\ Enrolling(s) /\ <<ProcessorIsServed(s)>>_avars =>
               \/ Relaying(s)' \/ Writing(s)' \/ Looping(s)' \/ Reading(s)'
               \/ Failing(s)' \/ CutOff(s)' \/ Informed(s)'
         /\ Relaying(s) /\ <<RelaySends(s)>>_avars =>
               \/ Writing(s)' \/ Failing(s)' \/ Parting(s)' \/ CutOff(s)'
               \/ Informed(s)'
         /\ Writing(s) /\ <<OutputRuns(s)>>_avars =>
               \/ Looping(s)' \/ Failing(s)' \/ Parting(s)' \/ CutOff(s)'
               \/ Informed(s)'
         /\ Looping(s) /\ <<OutputRuns(s)>>_avars =>
               \/ Reading(s)' \/ Failing(s)' \/ Parting(s)' \/ CutOff(s)'
               \/ Informed(s)'
         /\ Reading(s) /\ <<OutputRuns(s)>>_avars =>
               \/ Failing(s)' \/ Parting(s)' \/ CutOff(s)' \/ Informed(s)'
         /\ Failing(s) /\ <<ProcessorRuns(s)>>_avars => Parting(s)' \/ CutOff(s)' \/ Informed(s)'
         /\ Parting(s) /\ <<ProcessorIsServed(s)>>_avars => Closing(s)' \/ CutOff(s)' \/ Informed(s)'
         /\ Closing(s) /\ <<HubSends>>_avars => Informing(s)' \/ CutOff(s)' \/ Informed(s)'
         /\ Informing(s) /\ <<WriterRuns>>_avars => Informed(s)'
         /\ CutOff(s) /\ <<RunRuns>>_avars => Informed(s)'
  BY FailureServed
<1> HIDE DEF Failed, HubBack, WriterBack, Dialled
<1>7. AgentSpec /\ []AgentUnblocked => (Dialled ~> HubBack) /\ (Dialled ~> WriterBack)
  BY HubReturns, WriterReturns, PTL DEF Dialled, HubBack, WriterBack
<1>8. AgentSpec /\ []AgentUnblocked /\ StreamFairness(s)
        => (Parting(s) \/ Closing(s) \/ Informing(s) \/ CutOff(s) ~> Informed(s))
  <2>1. AgentSpec /\ []AgentUnblocked => (CutOff(s) ~> Informed(s))
    BY <1>3, <1>5, <1>6, WholeAlways, PTL DEF AgentSpec, AgentFairness, HubFairness
  <2>2. AgentSpec /\ []AgentUnblocked => (Informing(s) ~> Informed(s))
    BY <1>3, <1>5, <1>6, <2>1, WholeAlways, PTL DEF AgentSpec, AgentFairness, HubFairness
  <2>3. AgentSpec /\ []AgentUnblocked => (Closing(s) ~> Informed(s))
    BY <1>2, <1>3, <1>5, <1>6, <1>7, <2>1, <2>2, WholeAlways, PTL
    DEF AgentSpec, AgentFairness, HubFairness
  <2>4. AgentSpec /\ []AgentUnblocked /\ StreamFairness(s) => (Parting(s) ~> Informed(s))
    BY <1>2, <1>3, <1>5, <1>6, <1>7, <2>1, <2>3, WholeAlways, StreamCanMove, PTL
    DEF AgentSpec, StreamFairness
  <2>5. QED  BY <2>1, <2>2, <2>3, <2>4, PTL
<1>9. AgentSpec /\ []AgentUnblocked /\ StreamFairness(s) => (Failed ~> Informed(s))
  BY <1>1, <1>2, <1>3, <1>5, <1>6, <1>7, <1>8, WholeAlways, StreamCanMove, PTL
  DEF AgentSpec, StreamFairness
<1>10. QED  BY <1>4, <1>9, PTL DEF Failed, Informed
=============================================================================
