------------------------------ MODULE Registry ------------------------------
(***************************************************************************)
(* The server's register of agents (pkg/server): the HTTP handler          *)
(* `register` that accepts an agent's websocket, the three goroutines it   *)
(* runs for the connection (pingDownStream, readDownStreamPump,            *)
(* writeDownStreamPump), and the hub goroutine that alone writes the map   *)
(* hub.DownStreamClients.                                                  *)
(*                                                                         *)
(* A connection is a slot: Upgrade starts a fresh websocket in a slot      *)
(* whose goroutines have all returned.  A send on an unbuffered channel    *)
(* and its receive are one step (the rendezvous); what the receiver does   *)
(* with the value comes in later steps, while the sender already runs on.  *)
(***************************************************************************)
CONSTANTS Conn,      \* slots for the websockets agents open to /register
          Id,        \* client identifiers
          ClientID,  \* the identifier in a connection's ?clientid= query
          None

ASSUME RegistryAssumption ==
    /\ ClientID \in [Conn -> Id]
    /\ None \notin Conn

VARIABLES
    clients,    \* hub.DownStreamClients
    hub,        \* where hub.Run is in a client operation, and on which connection
    handler,    \* where the register handler of a connection is
    reader,     \* its readDownStreamPump
    writer,     \* its writeDownStreamPump
    cancelled,  \* client.Context is done
    closed,     \* client.close() ran: Send and Socket are closed
    link        \* the network and the agent at its other end

rvars == <<clients, hub, handler, reader, writer, cancelled, closed, link>>

HubOp   == {"select", "store", "close", "delete"}
Handler == {"free", "upgraded", "registering", "ping", "leaving", "gone"}
Pump    == {"off", "run", "done"}

Hub(op, c) == [op |-> op, conn |-> c]
Selecting  == Hub("select", None)

RegistryTypeOK ==
    /\ clients \in [Id -> Conn \cup {None}]
    /\ hub \in [op : HubOp, conn : Conn \cup {None}]
    /\ hub.conn = None <=> hub.op = "select"
    /\ handler \in [Conn -> Handler]
    /\ reader \in [Conn -> Pump]
    /\ writer \in [Conn -> Pump]
    /\ cancelled \in [Conn -> BOOLEAN]
    /\ closed \in [Conn -> BOOLEAN]
    /\ link \in [Conn -> {"up", "down"}]

RegistryInit ==
    /\ clients = [i \in Id |-> None]
    /\ hub = Selecting
    /\ handler = [c \in Conn |-> "free"]
    /\ reader = [c \in Conn |-> "off"]
    /\ writer = [c \in Conn |-> "off"]
    /\ cancelled = [c \in Conn |-> FALSE]
    /\ closed = [c \in Conn |-> FALSE]
    /\ link = [c \in Conn |-> "up"]

-----------------------------------------------------------------------------
(* The register handler.                                                   *)

\* Nothing of the connection runs any more.
Released(c) ==
    /\ handler[c] \in {"free", "gone"}
    /\ reader[c] # "run"
    /\ writer[c] # "run"

\* upgrader.Upgrade succeeded; client.Context and client.Send are new.
Upgrade(c) ==
    /\ Released(c)
    /\ hub.conn # c
    /\ handler' = [handler EXCEPT ![c] = "upgraded"]
    /\ reader' = [reader EXCEPT ![c] = "off"]
    /\ writer' = [writer EXCEPT ![c] = "off"]
    /\ cancelled' = [cancelled EXCEPT ![c] = FALSE]
    /\ closed' = [closed EXCEPT ![c] = FALSE]
    /\ link' = [link EXCEPT ![c] = "up"]
    /\ UNCHANGED <<clients, hub>>

\* The handler refuses the agent: registerClientHandle returned an error, or
\* the identifier is listed ("The side agent is online").
Refuse(c) ==
    /\ handler[c] = "upgraded"
    /\ handler' = [handler EXCEPT ![c] = "gone"]
    /\ closed' = [closed EXCEPT ![c] = TRUE]
    /\ UNCHANGED <<clients, hub, reader, writer, cancelled, link>>

\* No one is listed under the identifier: the handler blocks sending the
\* client to hub.DownStreamRegister.
CheckOffline(c) ==
    /\ handler[c] = "upgraded"
    /\ clients[ClientID[c]] = None
    /\ handler' = [handler EXCEPT ![c] = "registering"]
    /\ UNCHANGED <<clients, hub, reader, writer, cancelled, closed, link>>

\* Mutant: the ping loop does not watch the context.
PingEndsOnlyOnWrite(c) ==
    /\ handler[c] = "ping"
    /\ closed[c] \/ link[c] = "down"
    /\ handler' = [handler EXCEPT ![c] = "leaving"]
    /\ UNCHANGED <<clients, hub, reader, writer, cancelled, closed, link>>

\* A ping cannot be written any more, or the context is done; the deferred
\* function then blocks sending to hub.DownStreamUnregister.
PingEnds(c) ==
    /\ handler[c] = "ping"
    /\ cancelled[c] \/ closed[c] \/ link[c] = "down"
    /\ handler' = [handler EXCEPT ![c] = "leaving"]
    /\ UNCHANGED <<clients, hub, reader, writer, cancelled, closed, link>>

-----------------------------------------------------------------------------
(* The pumps: both cancel the client's context when they return.           *)

\* ReadMessage fails: the socket is closed or broken, or PongWait passed
\* without a pong because nobody pings any more.
ReadFails(c) == closed[c] \/ link[c] = "down" \/ handler[c] # "ping"

ReaderExits(c) ==
    /\ reader[c] = "run"
    /\ cancelled[c] \/ ReadFails(c)
    /\ reader' = [reader EXCEPT ![c] = "done"]
    /\ cancelled' = [cancelled EXCEPT ![c] = TRUE]
    /\ UNCHANGED <<clients, hub, handler, writer, closed, link>>

\* The context is done, Send is closed, or a message cannot be written: on a
\* broken link alone the writer exits only if it is given a message.
WriterExits(c) ==
    /\ writer[c] = "run"
    /\ cancelled[c] \/ closed[c] \/ link[c] = "down"
    /\ writer' = [writer EXCEPT ![c] = "done"]
    /\ cancelled' = [cancelled EXCEPT ![c] = TRUE]
    /\ UNCHANGED <<clients, hub, handler, reader, closed, link>>

-----------------------------------------------------------------------------
(* The hub's client operations.                                            *)

\* The hub receives the client; register goes on to start the pumps and ping.
HubTakesRegister(c) ==
    /\ hub = Selecting
    /\ handler[c] = "registering"
    /\ hub' = Hub("store", c)
    /\ handler' = [handler EXCEPT ![c] = "ping"]
    /\ reader' = [reader EXCEPT ![c] = "run"]
    /\ writer' = [writer EXCEPT ![c] = "run"]
    /\ UNCHANGED <<clients, cancelled, closed, link>>

HubStores ==
    /\ hub.op = "store"
    /\ clients' = [clients EXCEPT ![ClientID[hub.conn]] = hub.conn]
    /\ hub' = Selecting
    /\ UNCHANGED <<handler, reader, writer, cancelled, closed, link>>

\* Mutant: the test whether the identifier is listed is the wrong way round.
HubTakesUnregisterSwapped(c) ==
    /\ hub = Selecting
    /\ handler[c] = "leaving"
    /\ handler' = [handler EXCEPT ![c] = "gone"]
    /\ hub' = IF clients[ClientID[c]] = None THEN Hub("close", c) ELSE Selecting
    /\ UNCHANGED <<clients, reader, writer, cancelled, closed, link>>

\* Mutant: the handler does not leave, and will unregister once more.
HubTakesUnregisterTwice(c) ==
    /\ hub = Selecting
    /\ handler[c] = "leaving"
    /\ hub' = IF clients[ClientID[c]] = None THEN Selecting ELSE Hub("close", c)
    /\ UNCHANGED <<clients, handler, reader, writer, cancelled, closed, link>>

\* The hub goes on only when the identifier, not the connection, is listed.
HubTakesUnregister(c) ==
    /\ hub = Selecting
    /\ handler[c] = "leaving"
    /\ handler' = [handler EXCEPT ![c] = "gone"]
    /\ hub' = IF clients[ClientID[c]] = None THEN Selecting ELSE Hub("close", c)
    /\ UNCHANGED <<clients, reader, writer, cancelled, closed, link>>

HubCloses ==
    /\ hub.op = "close"
    /\ closed' = [closed EXCEPT ![hub.conn] = TRUE]
    /\ hub' = Hub("delete", hub.conn)
    /\ UNCHANGED <<clients, handler, reader, writer, cancelled, link>>

\* Mutant: the entry is not deleted.
HubForgetsDelete ==
    /\ hub.op = "delete"
    /\ hub' = Selecting
    /\ UNCHANGED <<clients, handler, reader, writer, cancelled, closed, link>>

HubDeletes ==
    /\ hub.op = "delete"
    /\ clients' = [clients EXCEPT ![ClientID[hub.conn]] = None]
    /\ hub' = Selecting
    /\ UNCHANGED <<handler, reader, writer, cancelled, closed, link>>

-----------------------------------------------------------------------------
(* The embedding program and the network.                                  *)

\* Mutant: the caller closes the client instead of cancelling it.
ManualDisconnectCloses(i) ==
    /\ clients[i] # None
    /\ closed' = [closed EXCEPT ![clients[i]] = TRUE]
    /\ UNCHANGED <<clients, hub, handler, reader, writer, cancelled, link>>

\* ManualDisconnenctClient: Cancel on whichever connection is listed.  The
\* load and the Cancel are one step: cancelling an entry just removed adds
\* only a connection that ends, which LinkBreaks also brings about.
ManualDisconnect(i) ==
    /\ clients[i] # None
    /\ cancelled' = [cancelled EXCEPT ![clients[i]] = TRUE]
    /\ UNCHANGED <<clients, hub, handler, reader, writer, closed, link>>

\* The agent goes away, or stops answering for PongWait.
LinkBreaks(c) ==
    /\ handler[c] # "free"
    /\ link[c] = "up" /\ ~closed[c]
    /\ link' = [link EXCEPT ![c] = "down"]
    /\ UNCHANGED <<clients, hub, handler, reader, writer, cancelled, closed>>

HubStep == HubStores \/ HubCloses \/ HubDeletes

Environment == \/ \E c \in Conn : Upgrade(c) \/ LinkBreaks(c)
               \/ \E i \in Id : ManualDisconnect(i)

RegistryNext ==
    \/ Environment
    \/ HubStep
    \/ \E c \in Conn :
          \/ Refuse(c) \/ CheckOffline(c) \/ PingEnds(c)
          \/ ReaderExits(c) \/ WriterExits(c)
          \/ HubTakesRegister(c) \/ HubTakesUnregister(c)

\* Every goroutine that can run does.  Select picks among ready channels at
\* random and a channel serves its senders in order, so a handler that keeps
\* waiting for the hub is served: strong fairness.  Nothing is promised of the
\* reader's exit: a stream can hold it in a send for good (ServerSession says
\* when it returns).  A writer on a broken link may never be given a message.
ConnFairness(c) ==
    /\ WF_rvars(PingEnds(c))
    /\ WF_rvars(WriterExits(c) /\ (cancelled[c] \/ closed[c]))
    /\ SF_rvars(HubTakesRegister(c))
    /\ SF_rvars(HubTakesUnregister(c))

RegistryFairness == WF_rvars(HubStep) /\ \A c \in Conn : ConnFairness(c)

RegistrySpec == RegistryInit /\ [][RegistryNext]_rvars /\ RegistryFairness

-----------------------------------------------------------------------------
(* Properties.                                                             *)

\* The hub took the connection's unregister and is carrying it out.
Removing(c) == hub.op \in {"close", "delete"} /\ hub.conn = c

\* What a proxy request finds under an identifier is a connection of that
\* identifier whose register handler has not yet been served its unregister:
\* no entry survives its connection, whatever rival connections of the same
\* identifier did.  The only exception is the entry the hub is removing.
EntryIsServed ==
    \A i \in Id : clients[i] # None =>
        /\ ClientID[clients[i]] = i
        /\ handler[clients[i]] \in {"ping", "leaving"} \/ Removing(clients[i])

\* A listed connection has an open Send channel, except while the hub is
\* between client.close() and the Delete that follows it.
ListedIsOpen ==
    \A i \in Id : clients[i] # None /\ closed[clients[i]]
                      => hub = Hub("delete", clients[i])

\* Why these hold: a connection stays open until the hub or a refusal closes
\* it, and the hub stores only what is still served and removes only what is
\* not, although between its receive and its Store or Delete the connection's
\* goroutines run on.
ServedIsOpen ==
    \A c \in Conn : handler[c] \in {"upgraded", "registering", "ping", "leaving"} => ~closed[c]

HubHoldsLive ==
    /\ hub.op = "store" => handler[hub.conn] \in {"ping", "leaving"}
    /\ hub.op \in {"close", "delete"} => handler[hub.conn] = "gone"

RegistryInv ==
    /\ RegistryTypeOK
    /\ EntryIsServed
    /\ ListedIsOpen
    /\ ServedIsOpen
    /\ HubHoldsLive

\* Nothing that served an earlier connection of a slot runs in the next one.
FreshIsWhole ==
    \A c \in Conn : handler[c] \in {"free", "upgraded", "registering"} =>
                       ~cancelled[c] /\ reader[c] # "run" /\ writer[c] # "run"

\* What the liveness proofs need of ENABLED, which the provers do not expand:
\* each conjunct only says that a step is enabled when its guard holds.
ConnUnblocked(c) ==
    /\ handler[c] = "ping" /\ (cancelled[c] \/ link[c] = "down") => ENABLED <<PingEnds(c)>>_rvars
    /\ writer[c] = "run" /\ cancelled[c]
          => ENABLED <<WriterExits(c) /\ (cancelled[c] \/ closed[c])>>_rvars
    /\ handler[c] = "leaving" /\ hub = Selecting => ENABLED <<HubTakesUnregister(c)>>_rvars

RegistryUnblocked ==
    /\ hub # Selecting => ENABLED <<HubStep>>_rvars
    /\ \A c \in Conn : ConnUnblocked(c)

\* The register is a Directory of the connections whose unregister the hub
\* has not carried out.
Live == {c \in Conn : handler[c] \in {"ping", "leaving"} \/ Removing(c)}

Book == INSTANCE Directory WITH Member <- Conn, IdOf <- ClientID, Nobody <- None,
                                entry <- clients, live <- Live

DirectoryRefined == Book!DirectorySpec

\* A connection whose context is done, by an error of either pump or by
\* ManualDisconnenctClient, is unregistered and its register handler and its
\* writer return, even when its agent stays connected and silent.  The reader
\* is left out: see ReaderReturns of ServerSession.
CancelledIsReleased ==
    \A c \in Conn : cancelled[c] ~>
        (handler[c] \in {"gone", "upgraded"} /\ writer[c] # "run")

\* A broken connection is not left in the map: later proxy requests do not
\* find it and a new connection of the agent is not refused for it.
BrokenIsDelisted ==
    \A c \in Conn : link[c] = "down" /\ clients[ClientID[c]] = c
                        ~> clients[ClientID[c]] # c
=============================================================================
