-------------------------- MODULE CallbacksProofs --------------------------
(***************************************************************************)
(* Proofs about Callbacks: what is reported registered is reported         *)
(* unregistered by the end of its handler, and not registered again.       *)
(* ToldMoves says what a step of the server can do to what the callbacks   *)
(* of one session depend on; the invariant ToldInv follows from that and   *)
(* from SessionInv alone.                                                  *)
(***************************************************************************)
EXTENDS Callbacks, ServerSessionProofs

\* Someone may still connect s.
Pending(s) == \E c \in Conn : toUser[c] # None /\ toUser[c].session = s

Storing(s) == {Shub("store", s), Shub("announce", s)}

\* A stream that was connected, or for which a message is under way, is in the
\* map, being removed from it or reported removed;
KnownOrEnded ==
    \A s \in Session : ~Http(s) /\ (opened[s] > 0 \/ sess[s].status = "connected" \/ Pending(s))
        => s \in sessions \/ s \in ended \/ shub = Shub("close", s)

\* one that was connected is reported removed once its handler is done, or about
\* to be;
DoneIsEnded ==
    \A s \in Session : /\ ~Http(s) /\ sess[s].at = "done"
                       /\ opened[s] > 0 \/ sess[s].status = "connected"
        => s \in ended \/ shub = Shub("close", s)

\* an http session is not connected in this sense;
HttpIsSilent ==
    \A s \in Session : Http(s) => opened[s] = 0 /\ sess[s].status # "connected"

\* and an end that was reported is recorded, or nobody stores the session any
\* more.
EndedIsOver ==
    \A s \in ended : sess[s].status \in Ended \/ (sess[s].at = "done" /\ shub \notin Storing(s))

ToldInv == ended \subseteq Session /\ KnownOrEnded /\ DoneIsEnded /\ HttpIsSilent /\ EndedIsOver

-----------------------------------------------------------------------------
(* What a step of the server does to a session s.                          *)

\* Its handler, once done, remains so, and an end that is recorded stays;
ObjectMoves(s) ==
    /\ sess[s].at = "done" => sess'[s].at = "done"
    /\ sess[s].status \in Ended => sess'[s].status \in Ended
    /\ sess'[s].status = "connected" =>
          \/ sess[s].status = "connected"
          \/ ~Http(s) /\ Pending(s) /\ sess[s].at # "done"

\* a reader has a message only for a session of the map;
MessageMoves(s) == Pending(s)' => Pending(s) \/ s \in sessions

\* the hub closes what it takes from the map, and stores only what a handler
\* that is not done asked it to;
HubMoves(s) ==
    /\ ~Http(s) /\ s \in sessions => s \in sessions' \/ shub' = Shub("close", s)
    /\ shub = Shub("close", s) => shub' = shub \/ shub' = Idle
    /\ shub' \in Storing(s) => shub \in Storing(s) \/ sess'[s].at # "done"

\* and a handler is done when it does not find the session, or gave it to the
\* hub.
HandlerMoves(s) ==
    sess'[s].at = "done" /\ sess[s].at # "done" =>
        \/ s \notin sessions /\ shub' = shub
        \/ shub = Idle /\ (~Http(s) /\ s \in sessions => shub' = Shub("close", s))

ToldMoves(s) == ObjectMoves(s) /\ MessageMoves(s) /\ HubMoves(s) /\ HandlerMoves(s)

\* The ranges of what ToldMoves speaks of.
LEMMA ServerRanges ==
  ASSUME SessionInv
  PROVE  /\ sess \in [Session -> SessionObject]
         /\ toUser \in [Conn -> [session : Session, type : MessageType] \cup {None}]
         /\ \A c \in Conn : toAgent[c] # None => toAgent[c].session \in Session
BY DEF SessionInv, SessionTypeOK

\* A step that changes no object, message or hub moves nothing.
LEMMA RestTold ==
  ASSUME UNCHANGED <<sess, sessions, shub, toUser>>, NEW s \in Session
  PROVE  ToldMoves(s)
BY DEF ToldMoves, ObjectMoves, MessageMoves, HubMoves, HandlerMoves, Pending

\* Steps of a handler and a reader of t that leave hub and messages alone,
\* other than the deferred function.
LEMMA OwnTold ==
  ASSUME RegistryTypeOK, SessionInv, NEW s \in Session, NEW t \in Session,
         \/ Lookup(t) \/ Login(t) \/ Dial(t) \/ Encode(t) \/ RequestPanics(t) \/ AwaitTimesOut(t)
         \/ PumpEnds(t) \/ UserLeaves(t) \/ UpReaderStops(t) \/ UpReaderFails(t) \/ UpReaderReads(t)
         \/ UpReaderPanics(t)
  PROVE  ToldMoves(s)
<1>1. UNCHANGED <<sessions, shub, toUser>>
  BY DEF Lookup, Login, Dial, Encode, RequestPanics, AwaitTimesOut, PumpEnds, UserLeaves,
       UpReaderStops, UpReaderFails, UpReaderReads, UpReaderPanics
<1>2. /\ sess'[s].at = "done" <=> sess[s].at = "done"
      /\ sess'[s].status = sess[s].status \/ sess'[s].status \in Ended
  <2> USE ServerRanges DEF SessionObject
  <2>1. CASE Lookup(t)
    <3>1. \E d \in Conn \cup {None}, at \in {"leave", "enrol", "login", "dial"} :
             sess' = [sess EXCEPT ![t].down = d, ![t].at = at]
      <4>1. clients[ToLower[Asked[t]]] \in Conn \cup {None}
        BY SessionAssumption DEF RegistryTypeOK
      <4>2. Protocol[t] \in {"http", "ssh", "ws"}
        BY SessionAssumption
      <4>3. QED  BY <2>1, <4>1, <4>2 DEF Lookup
    <3>2. sess[t].at = "new"
      BY <2>1 DEF Lookup
    <3>3. QED  BY <3>1, <3>2
  <2>2. CASE Login(t) \/ Encode(t) \/ RequestPanics(t) \/ AwaitTimesOut(t)
    BY <2>2 DEF Login, Encode, RequestPanics, AwaitTimesOut
  <2>3. CASE Dial(t)
    BY <2>3 DEF Dial
  <2>4. CASE PumpEnds(t)
    BY <2>4 DEF PumpEnds, Leave
  <2>5. CASE UserLeaves(t)
    BY <2>5 DEF UserLeaves
  <2>6. CASE UpReaderStops(t)
    BY <2>6 DEF UpReaderStops
  <2>7. CASE UpReaderFails(t)
    <3> DEFINE r == [sess[t] EXCEPT !.reader = "done", !.ended = TRUE,
                                !.status = SetStatus(@, "upstream closed")]
    <3>1. sess[t] \in SessionObject
      BY ServerRanges
    <3>2. r \in SessionObject /\ r.at = sess[t].at /\ r.status \in Ended
      BY <3>1 DEF SetStatus, Status, Ended
    <3>3. sess' = [sess EXCEPT ![t] = r]
      BY <2>7 DEF UpReaderFails
    <3> HIDE DEF r
    <3>4. QED  BY <3>2, <3>3, Update
  <2>8. CASE UpReaderReads(t)
    BY <2>8 DEF UpReaderReads
  <2>9. CASE UpReaderPanics(t)
    BY <2>9 DEF UpReaderPanics
  <2>10. QED  BY <2>1, <2>2, <2>3, <2>4, <2>5, <2>6, <2>7, <2>8, <2>9
<1>3. QED
  BY <1>1, <1>2 DEF ToldMoves, ObjectMoves, MessageMoves, HubMoves, HandlerMoves, Pending, Ended

\* The deferred function of t.
LEMMA DepartTold ==
  ASSUME SessionInv, NEW s \in Session, NEW t \in Session, Depart(t)
  PROVE  ToldMoves(s)
<1>1. UNCHANGED <<sessions, shub, toUser>>
  BY DEF Depart
<1>2. /\ sess'[s].status = sess[s].status
      /\ s # t => sess'[s].at = sess[s].at
      /\ sess[t].at # "done"
      /\ sess'[t].at = "done" => t \notin sessions
  BY ServerRanges DEF Depart, SessionObject
<1>3. QED
  BY <1>1, <1>2 DEF ToldMoves, ObjectMoves, MessageMoves, HubMoves, HandlerMoves, Pending

\* The hub takes t to store it,
LEMMA EnrolTold ==
  ASSUME SessionInv, NEW s \in Session, NEW t \in Session, HubTakesEnrol(t)
  PROVE  ToldMoves(s)
<1>1. UNCHANGED <<sessions, toUser>> /\ shub = Idle /\ shub' = Shub("store", t)
  BY DEF HubTakesEnrol, HubFree
<1>2. /\ sess'[s].status = sess[s].status
      /\ s # t => sess'[s].at = sess[s].at
      /\ sess[t].at # "done" /\ sess'[t].at # "done"
  BY ServerRanges DEF HubTakesEnrol, SessionObject
<1>3. QED
  BY <1>1, <1>2 DEF ToldMoves, ObjectMoves, MessageMoves, HubMoves, HandlerMoves, Pending,
                    Storing, Shub, Idle

\* or to remove it, from its handler,
LEMMA UnenrolTold ==
  ASSUME SessionInv, NEW s \in Session, NEW t \in Session, HubTakesUnenrol(t)
  PROVE  ToldMoves(s)
<1>1. toUser' = toUser /\ shub = Idle /\ Removes(t)
  BY DEF HubTakesUnenrol, HubFree
<1>2. /\ sess'[s].status = sess[s].status
      /\ s # t => sess'[s].at = sess[s].at
      /\ sess[t].at # "done" /\ sess'[t].at = "done"
  BY ServerRanges DEF HubTakesUnenrol, SessionObject
<1>3. QED
  BY <1>1, <1>2 DEF ToldMoves, ObjectMoves, MessageMoves, HubMoves, HandlerMoves, Pending,
                    Removes, Storing, Shub, Idle

\* or from a writer that failed for it.
LEMMA FailedTold ==
  ASSUME SessionInv, NEW s \in Session, NEW c \in Conn, HubTakesFailed(c)
  PROVE  ToldMoves(s)
<1>1. /\ UNCHANGED <<sess, toUser>> /\ shub = Idle
      /\ \E t \in Session : Removes(t)
  BY ServerRanges DEF HubTakesFailed, HubFree
<1>2. QED
  BY <1>1 DEF ToldMoves, ObjectMoves, MessageMoves, HubMoves, HandlerMoves, Pending,
              Removes, Storing, Shub, Idle

\* What the hub does with a session it took.
LEMMA ShubTold ==
  ASSUME SessionInv, NEW s \in Session, ShubStep
  PROVE  ToldMoves(s)
<1>1. toUser' = toUser /\ sessions \subseteq sessions'
  BY DEF ShubStep, HubStoresSession, HubAnnounces, HubClosesSession
<1>2. sess'[s].at = sess[s].at /\ sess'[s].status = sess[s].status
  BY ServerRanges DEF ShubStep, HubStoresSession, HubAnnounces, HubClosesSession, SessionObject
<1>3. \/ shub.op = "store" /\ shub' = Shub("announce", shub.session)
      \/ shub' = Idle
  BY DEF ShubStep, HubStoresSession, HubAnnounces, HubClosesSession
<1>4. shub \in [op : ShubOp, session : Session \cup {None}]
  BY DEF SessionInv, SessionTypeOK
<1>5. HubMoves(s)
  BY <1>1, <1>2, <1>3, <1>4 DEF HubMoves, Storing, Shub, Idle
<1>6. QED  BY <1>1, <1>2, <1>5 DEF ToldMoves, ObjectMoves, MessageMoves, HandlerMoves, Pending

\* A session receives a message: only an answer on its way connects it.
LEMMA ReceivesTold ==
  ASSUME SessionInv, NEW s \in Session, NEW c \in Conn, NEW t \in Session, SessionReceives(c, t)
  PROVE  ToldMoves(s)
<1>1. /\ UNCHANGED <<sessions, shub>>
      /\ toUser' = [toUser EXCEPT ![c] = None]
      /\ Pending(t) /\ sess[t].at \in {"pump", "await"}
  BY DEF SessionReceives, Receives, Pending
<1>2. Pending(s)' => Pending(s)
  BY <1>1, ServerRanges DEF Pending
<1>3. toUser[c].type \in {"connect", "data", "close"}
  BY ServerRanges DEF SessionReceives, MessageType
<1>4. sess[t] \in SessionObject
  BY ServerRanges
<1>5. /\ s # t => sess'[s] = sess[s]
      /\ sess'[t].at # "done"
      /\ \/ sess'[t].status = sess[t].status \/ sess'[t].status \in Ended
         \/ ~Http(t) /\ sess'[t].status = "connected" /\ sess[t].status = "connecting"
  <2>1. CASE sess' = sess
    BY <1>1, <2>1
  <2>2. CASE Http(t) /\ sess' = [sess EXCEPT ![t].at = "leave"]
    BY <2>2, ServerRanges DEF SessionObject
  <2>3. CASE /\ ~Http(t) /\ sess[t].status = "connecting"
             /\ sess' = [sess EXCEPT ![t].status = "connected", ![t].at = "reenrol"]
    BY <2>3, ServerRanges DEF SessionObject
  <2>4. CASE sess' = [Leave(t) EXCEPT ![t].status = SetStatus(@, "downstream closed")]
    <3> DEFINE r == [sess[t] EXCEPT !.at = "leave", !.ended = TRUE,
                                !.status = SetStatus(@, "downstream closed")]
    <3>1. r \in SessionObject /\ r.at = "leave" /\ r.status \in Ended
      BY <1>4 DEF SessionObject, ProxyAt, SetStatus, Status, Ended
    <3>2. sess' = [sess EXCEPT ![t] = r]
      BY <2>4, ServerRanges DEF Leave
    <3> HIDE DEF r
    <3>3. QED  BY <3>1, <3>2, ServerRanges, Update
  <2>5. QED  BY <1>3, <2>1, <2>2, <2>3, <2>4 DEF SessionReceives
<1>6. ObjectMoves(s)
  BY <1>1, <1>5 DEF ObjectMoves, Ended
<1>7. HandlerMoves(s)
  BY <1>1, <1>5 DEF HandlerMoves
<1>8. HubMoves(s)
  BY <1>1 DEF HubMoves
<1>9. QED  BY <1>2, <1>6, <1>7, <1>8 DEF ToldMoves, MessageMoves

\* The pumps of an agent's connection.
LEMMA PumpTold ==
  ASSUME SessionInv, NEW s \in Session, NEW c \in Conn, PumpStep(c)
  PROVE  ToldMoves(s)
<1>1. CASE ReaderPanics(c) \/ WriterWrites(c)
  BY <1>1, RestTold DEF ReaderPanics, WriterWrites
<1>2. CASE WriterFails(c)
  <2>1. UNCHANGED <<sessions, shub, toUser>>
    BY <1>2 DEF WriterFails
  <2>2. sess'[s].at = sess[s].at /\ (sess'[s].status # sess[s].status => sess'[s].status \in Ended)
    BY <1>2, WriterFailsOnly
  <2>3. QED
    BY <2>1, <2>2 DEF ToldMoves, ObjectMoves, MessageMoves, HubMoves, HandlerMoves, Pending, Ended
<1>3. CASE HubTakesFailed(c)
  BY <1>3, FailedTold
<1>4. ASSUME NEW t \in Session, SessionReceives(c, t) PROVE ToldMoves(s)
  BY <1>4, ReceivesTold
<1>5. ASSUME NEW t \in Session, WriterReceives(c, t) PROVE ToldMoves(s)
  <2>1. UNCHANGED <<sessions, shub, toUser>>
    BY <1>5 DEF WriterReceives
  <2>2. /\ sess'[s].status = sess[s].status
        /\ sess'[s].at = "done" <=> sess[s].at = "done"
    BY <1>5, ServerRanges DEF WriterReceives, SessionObject
  <2>3. QED
    BY <2>1, <2>2 DEF ToldMoves, ObjectMoves, MessageMoves, HubMoves, HandlerMoves, Pending
<1>6. ASSUME NEW t \in Session, NEW type \in MessageType, ReaderReads(c, t, type)
      PROVE  ToldMoves(s)
  <2>1. UNCHANGED <<sess, sessions, shub>>
    BY <1>6 DEF ReaderReads
  <2>2. MessageMoves(s)
    BY <1>6, ServerRanges DEF ReaderReads, MessageMoves, Pending
  <2>3. QED  BY <2>1, <2>2 DEF ToldMoves, ObjectMoves, HubMoves, HandlerMoves
<1>7. QED  BY <1>1, <1>2, <1>3, <1>4, <1>5, <1>6 DEF PumpStep

\* Every step of the server.
LEMMA StepTold ==
  ASSUME RegistryTypeOK, SessionInv, [Next]_vars, NEW s \in Session
  PROVE  ToldMoves(s)
<1>1. CASE RegistryStep \/ UNCHANGED vars
  <2>1. UNCHANGED svars
    BY <1>1 DEF RegistryStep, ConnStep, vars
  <2>2. QED  BY <2>1, RestTold DEF svars
<1>2. ASSUME NEW t \in Session, SessionStep(t) PROVE ToldMoves(s)
  BY <1>2, OwnTold, DepartTold, EnrolTold, UnenrolTold DEF SessionStep
<1>3. QED  BY <1>1, <1>2, ShubTold, PumpTold DEF Next

-----------------------------------------------------------------------------
(* The callbacks.                                                          *)

\* Nothing was reported yet.
LEMMA InitTold == CallbacksInit => ToldInv
<1> SUFFICES ASSUME CallbacksInit PROVE ToldInv
  OBVIOUS
<1>1. /\ opened = [s \in Session |-> 0] /\ ended = {}
      /\ \A s \in Session : sess[s].status = "connecting"
      /\ \A c \in Conn : toUser[c] = None
  BY DEF CallbacksInit, Init
<1>2. QED
  BY <1>1 DEF ToldInv, KnownOrEnded, DoneIsEnded, HttpIsSilent, EndedIsOver, Pending

\* What is reported in a step, of a session that is connected or was removed.
LEMMA StepReports ==
  ASSUME CallbacksNext \/ UNCHANGED <<vars, told>>, NEW s \in Session
  PROVE  /\ opened'[s] # opened[s] => Opens(s)
         /\ s \in ended' <=> s \in ended \/ (Ends(s) /\ CallbacksNext)
         /\ [Next]_vars
BY DEF CallbacksNext, told

\* Every step of server and callbacks keeps ToldInv.
LEMMA KeepsTold ==
  ASSUME RegistryTypeOK, SessionInv, ToldInv, CallbacksNext \/ UNCHANGED <<vars, told>>
  PROVE  ToldInv'
<1> SUFFICES ASSUME NEW s \in Session
             PROVE  /\ ~Http(s) /\ (opened'[s] > 0 \/ sess'[s].status = "connected" \/ Pending(s)')
                          => s \in sessions' \/ s \in ended' \/ shub' = Shub("close", s)
                    /\ ~Http(s) /\ sess'[s].at = "done" /\ (opened'[s] > 0 \/ sess'[s].status = "connected")
                          => s \in ended' \/ shub' = Shub("close", s)
                    /\ Http(s) => opened'[s] = 0 /\ sess'[s].status # "connected"
                    /\ s \in ended' =>
                          sess'[s].status \in Ended \/ (sess'[s].at = "done" /\ shub' \notin Storing(s))
  <2>1. ended' \subseteq Session
    BY DEF ToldInv, CallbacksNext, told
  <2>2. QED  BY <2>1 DEF ToldInv, KnownOrEnded, DoneIsEnded, HttpIsSilent, EndedIsOver, Http, Shub, Storing
<1>1. ToldMoves(s)
  BY StepReports, StepTold DEF ToldInv
<1>2. /\ opened'[s] # opened[s] => Opens(s)
      /\ s \in ended => s \in ended'
      /\ CallbacksNext /\ Ends(s) => s \in ended'
      /\ s \in ended' => s \in ended \/ Ends(s)
  BY StepReports DEF ToldInv
<1>3. shub = Shub("close", s) => s \in ended' \/ shub' = Shub("close", s)
  <2>1. CASE CallbacksNext
    BY <1>1, <1>2, <2>1 DEF ToldMoves, HubMoves, Ends
  <2>2. CASE UNCHANGED <<vars, told>>
    BY <2>2 DEF vars, svars
  <2>3. QED  BY <2>1, <2>2
<1>4. opened'[s] > 0 => opened[s] > 0 \/ sess[s].status = "connected"
  BY <1>2 DEF Opens
<1>5. ASSUME ~Http(s), opened'[s] > 0 \/ sess'[s].status = "connected" \/ Pending(s)'
      PROVE  s \in sessions \/ s \in ended \/ shub = Shub("close", s)
  BY <1>1, <1>4, <1>5 DEF ToldInv, KnownOrEnded, ToldMoves, ObjectMoves, MessageMoves
<1>6. ASSUME ~Http(s), opened'[s] > 0 \/ sess'[s].status = "connected" \/ Pending(s)'
      PROVE  s \in sessions' \/ s \in ended' \/ shub' = Shub("close", s)
  BY <1>1, <1>2, <1>3, <1>5, <1>6 DEF ToldMoves, HubMoves
<1>7. ASSUME ~Http(s), sess'[s].at = "done", opened'[s] > 0 \/ sess'[s].status = "connected"
      PROVE  s \in ended' \/ shub' = Shub("close", s)
  <2>1. CASE sess[s].at = "done"
    <3>1. s \in ended \/ shub = Shub("close", s)
      BY <1>1, <1>4, <1>7, <2>1 DEF ToldInv, DoneIsEnded, ToldMoves, ObjectMoves
    <3>2. QED  BY <1>2, <1>3, <3>1
  <2>2. CASE sess[s].at # "done" /\ s \notin sessions /\ shub' = shub
    BY <1>2, <1>3, <1>5, <1>7, <2>2
  <2>3. CASE sess[s].at # "done" /\ shub = Idle /\ (s \in sessions => shub' = Shub("close", s))
    BY <1>2, <1>5, <1>7, <2>3 DEF Idle, Shub
  <2>4. QED  BY <1>1, <1>7, <2>1, <2>2, <2>3 DEF ToldMoves, HandlerMoves
<1>8. ASSUME Http(s) PROVE opened'[s] = 0 /\ sess'[s].status # "connected"
  BY <1>1, <1>2, <1>8 DEF ToldInv, HttpIsSilent, Opens, ToldMoves, ObjectMoves
<1>9. ASSUME s \in ended'
      PROVE  sess'[s].status \in Ended \/ (sess'[s].at = "done" /\ shub' \notin Storing(s))
  <2>1. CASE s \in ended
    BY <1>1, <2>1 DEF ToldInv, EndedIsOver, ToldMoves, ObjectMoves, HubMoves
  <2>2. CASE Ends(s)
    <3>1. shub.op = "close" /\ shub.session = s /\ shub' \notin Storing(s)
      BY <2>2 DEF Ends, Shub, Idle, Storing
    <3>2. sess[s].at = "done" \/ sess[s].status \in Ended
      BY <3>1 DEF SessionInv, CloseIsOver
    <3>3. QED  BY <1>1, <3>1, <3>2 DEF ToldMoves, ObjectMoves
  <2>3. QED  BY <1>2, <1>9, <2>1, <2>2
<1>10. QED  BY <1>6, <1>7, <1>8, <1>9

\* In every reachable state of server and callbacks.
LEMMA ToldInvariant == CallbacksSpec => [](SessionInv /\ ToldInv)
<1>1. CallbacksInit => RegistryInv /\ SessionInv /\ ToldInv
  BY InitInv, InitSession, InitTold DEF CallbacksInit, Init
<1>2. RegistryInv /\ SessionInv /\ ToldInv /\ [CallbacksNext]_<<vars, told>>
         => RegistryInv' /\ SessionInv' /\ ToldInv'
  <2> SUFFICES ASSUME RegistryInv, SessionInv, ToldInv, CallbacksNext \/ UNCHANGED <<vars, told>>
               PROVE  RegistryInv' /\ SessionInv' /\ ToldInv'
    OBVIOUS
  <2>1. [Next]_vars
    BY DEF CallbacksNext
  <2>2. RegistryTypeOK
    BY DEF RegistryInv
  <2>3. QED  BY <2>1, <2>2, StepsOfRegistry, StepInv, StepSession, KeepsTold
<1>3. QED  BY <1>1, <1>2, PTL DEF CallbacksSpec

\* Whoever brings a session to the hub, and however often: what was reported
\* registered is reported unregistered when its handler is done.
THEOREM DoneAreReported == CallbacksSpec => []DoneIsReported
<1>1. ToldInv => DoneIsReported
  BY DEF ToldInv, DoneIsEnded, HttpIsSilent, DoneIsReported, Shub
<1>2. QED  BY <1>1, ToldInvariant, PTL

\* A session stored again after it was removed is not reported again: its
\* status tells the hub.
THEOREM EndedStayClosed == CallbacksSpec => NotReopened
<1>1. ToldInv /\ [CallbacksNext]_<<vars, told>>
         => [\A s \in ended : opened'[s] = opened[s]]_<<vars, told>>
  <2> SUFFICES ASSUME ToldInv, CallbacksNext, NEW s \in ended PROVE opened'[s] = opened[s]
    OBVIOUS
  <2>1. s \in Session /\ (opened'[s] # opened[s] => Opens(s))
    BY StepReports DEF ToldInv
  <2>2. ~Opens(s)
    BY DEF ToldInv, EndedIsOver, Opens, Storing, Ended
  <2>3. QED  BY <2>1, <2>2
<1>2. QED  BY <1>1, ToldInvariant, PTL DEF CallbacksSpec, NotReopened
=============================================================================
