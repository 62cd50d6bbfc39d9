# Verification of swarm-tunnel

swarm-tunnel lets users reach services that only an *agent* inside some network
can reach. The agent (`pkg/client`) dials the server (`pkg/server`) over one
websocket; a user opens a websocket, or makes an HTTP request, to the server's
`/proxy`, and the server carries the session through the agent's websocket to
the agent, which connects to the downstream service. This directory holds TLA+
modules of both programs, TLC runs over small instances and proofs, checked by
the TLA+ proof system, for every instance.

## The system

| Part | State | Operations |
| --- | --- | --- |
| Register of agents (`server.go` `register`, `readDownStreamPump`, `writeDownStreamPump`, `pingDownStream`; `hub.go` client cases) | `hub.DownStreamClients`; of each connection its socket, `Send`, `Context` | an agent connects and is refused or listed; pumps and pings end; the hub stores, closes, deletes; `ManualDisconnenctClient` |
| Sessions of the server (`server.go` `proxy`, `readUpStreamPump`, `writeUpStreamPump`; `hub.go` session cases) | `hub.Sessions`; of each session its status, socket, `Send`, `Context` | lookup, ssh login, connect request, http exchange with timeout, both pumps, deferred unregistration, the hub's store and close, a failed write to the agent |
| Agent (`client.go`, `client/hub.go`) | `hub.Sessions`, the current connection `hub.c`; of each session its pipes, status, `Context`, downstream | dial and redial, one goroutine per message from the server, `Processor` with two pumps and a relay, `httpProcessor`, the hub's answers, the writer |
| Downstream adapters (`downstream/*.go`) | a connection each, pipes for exec | `NewDownStream`, `Send`, `Receive`, `Close` |
| Conversion, listings, web server, TLS, commands, examples | none of their own | start-up and read-only code |

Server and agent exchange `TunnelMessage`s: connect, data and close, each for one
session. Within a program goroutines meet over unbuffered channels (a send and
its receive are one step, what the receiver does with the value comes later),
over two `sync.Map`s that only the hub writes and everybody reads, over contexts,
and over closed channels and sockets.

What is hard in it:

* the check and the registration of an agent are not one step, and the map is
  keyed by the agent's name while connections come and go under that name;
* a session is looked up and then sent to; whoever closes it in between makes the
  send panic, which ends the process except in an HTTP handler;
* the hub stores a session after its handler ran on, and two goroutines may
  unregister it;
* answer, status and the first data of a session pass through four goroutines;
* the agent keeps its sessions over a reconnection while their goroutines still
  send on the old connection, where nobody receives;
* every message to the agent is served by its own goroutine, so they overtake
  each other.

`PROJECT.json` lists these as hazards, each at its line, with the properties about
it.

## Modules

| Module | What it is |
| --- | --- |
| `TunnelTypes` | message types, session status, `SetStatus`; `MaySay` and `Hears`: in which order an agent speaks of a session |
| `Directory` | abstract: what those who look agents up may rely on |
| `Registry` | the register of agents, one action per step of a goroutine |
| `ServerSession` | extends `Registry` with the sessions and the messages through the pumps |
| `Callbacks` | extends `ServerSession` with what the embedding program is told of sessions |
| `Agent` | the agent |
| `EndToEnd` | extends `ServerSession` with an instance of `Agent` and the wires between them |
| `Tunnel` | abstract: what a tunnel promises the two ends of a stream |
| `Downstream` | abstract: what `Processor` relies on in an adapter |
| `Exec` | the exec adapter |
| `RegistryProofs`, `ServerSessionProofs`, `CallbacksProofs`, `AgentProofs`, `AgentLivenessProofs`, `EndToEndProofs`, `TunnelProofs`, `ExecProofs` | the theorems about them |
| `MCRegistry`, `MCServerSession`, `MCCallbacks`, `MCAgent`, `MCEndToEnd`, `MCExec` | their instances for TLC |

Each definition named in the map of `PROJECT.json` stands for the lines given there.
Definitions headed `Mutant:` are faulty variants of the definition below them. The
run that checks a property finds it violated when the variant takes the
definition's place; nothing else uses them.

### Registry

`handler[c]`, `reader[c]` and `writer[c]` are where the three goroutines of
connection `c` are; `cancelled[c]` is its `Context`, `closed[c]` that
`client.close()` ran, `link[c]` whether its peer is still there. `hub` is the place of
`Hub.Run` inside a client operation: the receive, the `Store`, the `close()` and
the `Delete` are steps of their own, because `register` and `proxy` read the map in
between. `handler` goes from `upgraded` over `registering` (blocked on
`DownStreamRegister`) to `ping`, then `leaving` (blocked on
`DownStreamUnregister`) and `gone`. A connection is a slot that `Upgrade` may use
again once its goroutines returned.

`Directory` has members that join, are listed, perhaps in a rival's place, and leave. Who leaves
takes its own entry with it; what becomes of a rival's entry is left open (the code deletes it,
`hub.go:48`). In `Registry`, a member is a connection whose unregister the hub has not carried
out (`Live`).

The reader of a connection may be blocked in a send to a session (`server.go:380`), which `Registry`
does not have. Nothing is assumed here of its exit, therefore, and nothing shown: `ServerSession` has the
session, and `ReaderReturns` there is about the reader.

### ServerSession

`sess[s]` is the session object together with the place of its two goroutines:
`at` for `proxy`, which becomes `writeUpStreamPump` and ends in the deferred
function (`leave`, `unenrol`, `done`), `reader` for `readUpStreamPump`. `ended` is the
session's `Context`, `closed` that `session.close()` ran. `toUser[c]` is the message
the reader of connection `c` is sending to a session, `toAgent[c]` what its writer
took. `agent[s]` is what the server has heard of the session; the agent may
say whatever `MaySay` allows. `crash` is a panic that net/http does not recover; no
step follows it.

The connections are those of `Registry`, whose actions appear here with the guards
that messages add (a pump that holds a message is not at its exits).
`RegistryRefined` says that the composition still only does what `Registry` does.
The reader goes on reading what the socket still holds after the connection broke or was closed
at this end.
Because `ServerSession` keeps `down` as a reference to a connection, a slot stands for
one websocket there and is not used again.

The protocols `http`, `ssh` and `ws` cover `proxy`: logs, exec and unknown schemes take the
path of `ws` with other fields in the request. `ToLower`, applied by `proxy`
and not by `register`, is a parameter; an agent whose identifier is not its own
lower case is listed and never found.

### Callbacks

The hub runs `registerSessionCallback` after it stored a session whose status is
connected when it looks, and `unregisterSessionCallback` when it removes one. The
status is set by the session's handler, the removal asked for by the handler or by the
agent's writer, and both go on while the hub is between its steps. `opened[s]` counts the
first callback, `ended` has the sessions of the second. Both are derived from the
step `ServerSession` takes, which they do not influence.

### Agent

`link` is the connection, `writer` and `hub` the two goroutines that belong to it, with
the message each holds. `stream[s]` has a field for each goroutine of session `s`:
`proc` (`Processor` or `httpProcessor`), `input` and `output` (the pumps), `relay` (the
inner goroutine of `sessionSendToServer`), `feeder` and `closer` (the goroutines that
serve a data and a close message); `down` is the downstream connection. `said[s]`
is what the server has heard; the server may send data once it heard an answer, and
a close once it asked.

`Run` sleeps ten seconds before it dials again. The module takes it that by then the
old hub and writer returned or, for the hub, wait on the old `Send`: the guard of
`Redial`. What waits there does so for good (`Abandoned`, state `lost`).

The hub's receive and what it does to its map are one step. No other
goroutine can tell: the receive only lets the session's own `Processor` run on, which
then waits for its pumps or returns, and a lookup by others may as well come before the
receive.

### EndToEnd and Tunnel

The server's steps and the agent's, joined by the messages that really travel. `conn` is
the connection the agent dialled last. `uplink` is a queue: the agent's writer
appends, the server's reader takes its head. `downlink` is a set, because the agent
serves each message in a goroutine of its own and these run in any order; only the
connect request of a session comes before the rest, since it is read first; the goroutine started
for it may still fall behind that of a later message, which is part of `Agent`. Every action of either part that writes,
reads, dials or notices a broken connection is joined with what it does to the wires; all others
appear unchanged in `ServerAlone` and `AgentAlone`. Where `ServerSession` lets its agent say
whatever is in turn, and `Agent` lets its server ask whatever is in turn, the peer
now decides, and what each part assumed becomes a property of the composition:
`SpokenIsExpected` and `AskedIsExpected`.

Each end notices a broken connection on its own. What is on the wires then may still
arrive until the agent dials again, ten seconds later, and is lost with that.

`Tunnel` has, for each stream, its user (`waiting`, `open`, `left`, `hung up`), its
downstream (`none`, `open`, `closed`) and whether the connection was lost. The user is told
of a connected session only after the downstream was reached, and of a downstream that hung
up only if it did or was never reached, or the connection was lost. `TunnelRefined` reads the user from the
session's status (`View`), the downstream from the adapter (`Far`).

### Downstream and Exec

`Downstream` is the contract of the interface in `downstream/type.go` as `Processor` uses
it: two goroutines that call `Send` and `Receive` in loops, one that calls `Close`, after which
both directions return errors. `Exec` is the only adapter with goroutines of its own: two
`io.Pipe`s and a goroutine that runs the command and, if that fails, writes the error
(and perhaps the shells of the pod, which it asks for with another command) to the
output pipe and closes the adapter. ws, ssh and logs hand each call to one call of
a library.

In `Agent` a downstream that ends is one whose adapter reports it by an error of
`Send`. The exec adapter does not report a command that finished without an error
(`exec.go:109`): `command` is `quiet` then, `Send` waits on, and in `Agent` such a downstream
just stays open.

## Runs

| Run | Instance | Shows |
| --- | --- | --- |
| `registry` | 2 slots, 1 identifier | `EntryIsServed`, `ListedIsOpen`, the inductive invariant (types included), refinement of `Directory`, that handler and writer of a cancelled connection return (`CancelledIsReleased`), and that a broken one is delisted (`BrokenIsDelisted`) |
| `server` | `Callbacks`, 1 connection, a ws and an http session | `ForwardedIsAnswered`, `ClosedIsOver`, `DoneIsClosed`, `DoneIsReported`, `NotReopened`, the inductive invariant |
| `server_stream` | 1 connection, an ssh session | `UserGoneEnds`, `AgentGoneEnds`, `ReaderIsFreed`, `RegistryRefined`; also `ServerUnblocked` |
| `server_exchange` | 1 connection, an http session | `HttpEnds`, `ReaderReturns` |
| `agent` | a stream and an http session | `SpokenInTurn`, `OpenIsListed`, `EndedIsHungUp`, the inductive invariant (types included) |
| `agent_live` | a stream | `ClosedIsHungUp`, `FailureIsReported`, `LostIsHungUp` |
| `end_to_end` | 1 connection, a ws session; user data, ends and late words of the downstream | `SpokenIsExpected`, `AskedIsExpected`, `TunnelRefined` |
| `end_to_end_live` | the same without user data, and with words of the downstream that come early | `EndReachesUser`, `ToldIsHungUp`, `LateWordIsHungUp`; also `TravelUnblocked` |
| `end_to_end_http` | 2 connections, an http session; `c1` breaks, `c2` is refused or ended by the operator | the inductive invariant `EndToEndInv` |
| `exec` | the adapter | `ErrorIsHeard`, `DownstreamRefined`, `FailureEndsSend` |

`ServerUnblocked` and `TravelUnblocked` say when the steps that fairness speaks of can be taken, and are
hypotheses of the liveness theorems. Where those steps can be taken depends there on what else is true (a
held message has a running pump, the message at the head of the wire is in turn), so they are
checked.

Two more runs show that the code does not do what its own comments and
messages say; each ends in a counterexample.

| Run | Comment or message | What happens |
| --- | --- | --- |
| `late` | `server.go:385`: "The up stream session is closed,notifies down stream to close the session" | a message that meets the close of its session ends the process |
| `unheard` | `client/hub.go:56`: "Notifying the server of session creation failure" | the notice arrives before the server registered the session and is dropped; the user hears nothing |

The models have more behaviours that a reader of the comments would not expect. They are
reachable in the instances above; no run is spent on them:

* two connections of one agent are both served, if both asked before the hub stored
  either ("The side agent is online!", `server.go:149`);
* an agent that answers before the session is registered is told to close a session
  that is being opened (`server.go:333`, `339`, `381`): the cause of `unheard`;
* so is an agent whose downstream speaks that early. The connect answer still reaches the user, who
  is then connected to a session that the agent hangs up without a report, because it was the server
  that closed it (`client/hub.go:57`): the user waits until one of the two ends of the websocket goes away.
  `EndReachesUser` therefore speaks of sessions the agent was not told to close;
* a session can be stored after its handler looked, closed it and returned
  (`server.go:219`, `hub.go:53`), and stays in the map;
* an http session is unregistered without the callback that is "executed if the session
  is unregistered" (`server/type.go:84`, `hub.go:69`);
* a stream may be reported registered twice, because it is registered twice and the status
  can be connected already the first time (`hub.go:57`);
* a connection whose entry another one took is unregistered without its callback
  (`hub.go:41`);
* a stream whose pump ends on a ping or write error has no status of an end, so its agent is not
  told (`server.go:527-537`, `hub.go:75`); what `LateWordIsHungUp` shows is that the agent hears
  of it when the downstream next speaks;
* an http session that timed out while the agent's answer was being handed to it holds the reader of
  the agent's connection for good (`server.go:283`, `380`; `hub.go:69-71`): `Held`, the exception of `ReaderIsFreed` and
  `ReaderReturns`. Nobody reads what that agent says from then on, and the goroutine stays when the
  connection is gone.

Bounds. In the parts nothing is counted, so every state space is finite without further
constraints. The hazards of the register are between two connections of one
identifier, or a connection and its successor; two reusable slots have
both. Sessions interact only through the hub, the map and the pumps of the
connection they share: the mixed instance has the two kinds of session, which the
code treats differently, compete for all of these. There, `OnlyBreaks` leaves out states in which the operator ended a connection that
is not broken: with one session (`server_stream`, `server_exchange`) he may, and the proofs know no such bound. Liveness is checked with
one session; another one can delay it only by what fairness bounds. A message
is an element of `MessageType`; no property looks into a payload. In `Agent` one
data and one close message of a session are under way at a time: any further
one waits for the same lookup, pipe or channel. Where that hides something, the
order of two data messages, nothing is claimed.

In `EndToEnd` `Capacity` bounds the messages on their way to the server; with one, the
agent's writer waits as it does behind a full socket buffer. `Events` says what users and
downstreams do (an `early` word comes while the handler is on its way to the hub), `Frail` which connections the network breaks, `Operated` which ones the
server refuses or its operator ends. They choose the part of the state space a run can
afford: the stream instance has a steady connection and no chatting downstream (event
`downstream`) but one that speaks `late`, after its session and when nothing is under way, which
is when only an answer to it can close it. The http instance has the broken connection and the
redial; because a slot is not used again, that needs a second one. A broken connection under a
stream is out of TLC's reach in one run; the theorems about `EndToEnd` hold for all values of the
five constants, these cases included.

Deadlock is checked for `Registry` and `Agent`, which never stop. The instances of
`ServerSession`, `Callbacks`, `EndToEnd` and `Exec` stop: all sessions may be done and all connections gone,
the process ended, or the adapter closed.

## Fairness

Goroutines that can run do: weak fairness of every step that waits for nobody.
A goroutine blocked on a channel is served in the end, because Go's channels
serve their senders in order and `select` chooses at random among the
ready cases: strong fairness of each rendezvous, which is one sender with one receiver
(`MessageIsTaken(c, s)`: the reader of connection `c` with session `s`). The reader of a connection needs strong fairness in `ServerSession`: with its connection broken or closed it may
still read what the socket holds, and its exit is possible only in between; what the
socket holds is finite, so the exit comes. In `Registry`, `ConnFairness` leaves the reader out, and asks the writer to
exit only when it is cancelled or its channel is closed: it notices a broken link when it has something to write, which need
not happen. Timers fire, dials return
with a connection or an error. Nothing is assumed of users, of agents (in the
server) and of the server and the downstream (in the agent): they may
stop at any time, and links need neither break nor stay up. A login waits for as long
as its user is there. In `Agent`, `Redial` is fair: liveness there is about an agent
that can reach a server again.

The conditions are grouped by who they are about. `ServiceFairness` has the hub, the handlers and the
readers of the agents' connections, `ConnectionFairness` and `UserFairness` the rest of the server;
`HubFairness` and `StreamFairness(s)` do the same in `Agent`. `JointFairness` takes from the parts what
the end-to-end properties need (`ServiceFairness`, `HubFairness`, `StreamFairness(s)`) and adds
`Replies`, `Reads`, `Serves` and `ServesClose`: what the agent's writer holds is written, what is on the wire is read, and each message
starts a goroutine of its own, so data that keep coming do not hold back a close. What
a broken connection leads to is a matter of the parts; the end-to-end properties let
go of a session whose connection is lost or whose server ended (`ToldIsHungUp` only
of one whose agent's end of the connection is gone), and of one whose reader is held by an http session
that is over (`Held`, the exception of `ReaderIsFreed`). `ExecFairness`
asks nothing of the pod: a command may run, and the question for its shells wait, for ever. Nor
does it ask the pumps to call `Send` or `Receive` again: they return when a context is done, and may
wait for good in the write to their session's pipe (`client.go:181-192`, `56`). A call that is made returns if it
can, and the goroutine and `Close` go on.

## Proofs

All safety properties that the passing runs check are also proved (`ServerUnblocked` and `TravelUnblocked` apart), and all liveness properties of
the parts and several of the composition under a hypothesis named below, for any sets of
connections, identifiers and sessions, from the assumptions named in the
modules (`RegistryAssumption`, `SessionAssumption`, `AgentAssumption`, `EndToEndAssumption`: the
parameters are functions and sets of the right type, `Capacity` is positive, and `None` is not one of
the things it is distinguished from).

* `RegistryProofs`. `EntryIsServed` alone is not inductive: the hub may be about to store
  a connection whose handler has left. `RegistryInv` adds that a served connection is
  open and that what the hub holds is still served, if it is to be stored, or gone, if
  it is being removed. `ImplementsDirectory` maps each step to a step of `Directory`
  or to a stutter.
* `ServerSessionProofs`. `SessionInv` adds to the three properties that the
  hub only has sessions with an agent, that an agent not yet asked has said
  nothing, that a connect answer on its way was given, that the hub closes a session
  because its handler is done or an end was recorded, and that a session removed
  before its handler got to the hub is closed. Steps that move one session along share
  `MovesInv`, steps that end one share `EndingKeeps`. `ServerImplementsRegistry` carries the
  register's results over to the composed server: `ServerEntriesAreServed`.
* `CallbacksProofs`. `DoneIsReported` needs to know of a stream before it is connected: as soon as a message for
  it is under way, it is in the map, being removed or reported removed (`KnownOrEnded`).
  `NotReopened` holds although the map may have the session again, because an end that was
  reported is recorded in the status, or came from a handler that is done and whose store the hub is not
  carrying out (`EndedIsOver`). `ToldMoves` says what one step of the server does to that; the rest
  follows from it and from `SessionInv`.
* `AgentProofs`. `AgentInv` ties what the server has heard to the place of the
  processor, the hub's map to the processor's wait, and each message on its way to its
  turn; that hub and writer do not hold the same connect answer makes it inductive.
* `EndToEndProofs`. Server and agent were proved under assumptions about each other
  (`MaySay`, the guards of `ReadConnect`, `ReadData` and `ReadClose`). Every joint step is a step of either
  part or leaves it alone, so `SessionInv` and `AgentInv` carry over: `AgentProofs` is
  instantiated for the agent of the composition. What remains is that the wires are
  in turn. A request is made once and over one connection (`RequestIsOne`, `ConnectionIsOne`); while it is on the
  wire or being served its session is asked and not answered (`RequestIsOpen`); its answer is the
  only one in the queue and no close is before it (`AnswerIsFirst`); a session the server would close was
  asked for over the same connection (`DialledIsAsked`, `AskedOverOne`). `EndToEndInv` is the
  conjunction, and `SpokenIsExpected` and `AskedIsExpected` follow: neither model assumes
  anything of its peer that the peer does not do.
  The consequences: `PartsAreImplemented`: each joint behaviour is one of
  `ServerSession` and of `Agent`, fairness apart. So the register is still that of
  `Registry` (`JointRegistry`), and what was proved of either part from its steps holds with the messages
  the other one really sends (`PartsKeepPromises`).
  `ReportsTravel` is the safety half of `EndReachesUser`: when the agent is done with a stream, its report
  is at its hub or writer, on the wire, at the reader of the user's handler, or it arrived, or the
  handler is over or will not be connected any more (`OnItsWay`, `Heard`). A report that arrived before the
  server registered the session counts as arrived, although the server drops it: that is the finding of
  run `unheard`. It needs that the server
  hears of a session over one connection (`SpokenOverOne`), that an end is the last word of a session
  (`EndIsLast`), and what any step does to either part (`GoesOn`, `Moves`, carried over by
  `ServerGoesOn` and `AgentGoesOn`).
* `TunnelProofs`. The refinement needs three more facts. What the agent says of a stream it reached or gave up
  (`ReachedIsSaid`); what the server holds for a user was said by the agent (`SaidIsSent`); a connection not yet
  dialled is not lost (`FreeIsFresh`). With them, what a step does to the user's view and to
  the downstream is one step of `Tunnel`, and no step moves both (`OneMoves`).
* `ExecProofs`. `ErrorIsHeard` follows with `ClosedByClose`: pipes are closed by `Close` alone. The
  safety part of `DownstreamRefined` is `ExecIsDownstream`, step by step.

### Liveness

The provers do not know `ENABLED`. A liveness theorem therefore has the form
`Spec /\ []Unblocked => Property`, where `Unblocked` lists the state predicates under which the steps that
fairness asks for can be taken. None of them mentions the property. In `RegistryUnblocked`, `AgentUnblocked` and
`ExecUnblocked` each conjunct is the meaning of `ENABLED` for one step, its guard written out;
`ServerUnblocked` and `TravelUnblocked` say more and are invariants of `server_stream` and
`end_to_end_live`. That a goroutine *will* go on, and where it gets to, is proved for all. Each proof names the phases a session or a connection goes through, shows
that every step stays in the phase or goes on to a later one, that the fair step goes on, and combines these
with the phases' fairness in temporal logic.

| Theorems | The argument |
| --- | --- |
| `CancelledAreReleased`, `BrokenAreDelisted` (`RegistryProofs`) | the ping loop and the writer of a cancelled connection end; the hub, never blocked, comes back to its select and takes the unregister. `FreshIsWhole`: a slot that is not served yet has no pump that could miss its cancellation. |
| `GoneUsersEnd`, `GoneAgentsEnd`, `ReadersAreFreed`, `RequestsEnd` (`ServerSessionProofs`) | `ConnGoesOn` and `GoesOn` say what any step does to one connection and to one session; `HubSelects` that the hub is at its select again and again, so who waits for it is served. `ServiceInv` adds that the hub is in one operation at a time, that a handler goes the way of its kind, that what the map has was enrolled, that a connected stream is known to the hub until the hub closes it, and that pumps run only after they were started. `ReaderGetsOn`: a reader that is not held comes back to its socket again and again. |
| `ReadersReturn` (`ServerSessionProofs`) | the ping loop of a cancelled connection ends; a connection whose handler leaves yields only what it still holds (`IsShut`), and its reader, free again and again, takes its exit (`ShutIsLeft`). |
| `ClosedAreHungUp`, `LostAreHungUp`, `FailuresAreReported` (`AgentLivenessProofs`) | `Moves` does the same for a session of the agent; `HubReturns` and `WriterReturns` bring its hub and writer back to their selects in whatever way connections come and go. `ServedIsWhole`: a session that is served has its downstream and pumps; `ConnectionIsServed`: hub and writer run for as long as their connection. |
| `ToldAreHungUp` (`EndToEndProofs`) | the close is read, finds its stream in the map, closes it, and `Processor` hangs up; the stream stays in the map until it is hung up (`ServedIsWhole` again, carried over to the composition). |
| `JointGoneEnd`, `JointReadersAreFreed` (`EndToEndProofs`) | the proofs of `ServerSessionProofs` use of the server's fairness only `ServiceFairness` (`ServiceSpec`), and the composition implements that much of it (`ServiceIsImplemented`), so the promises hold with a real agent too. |
| `FailuresEndSend` (`ExecProofs`) | the goroutine gets rid of its text if somebody calls `Send` or somebody closes the pipe, and then closes both pipes; a `Send` on a closed pipe fails. What is left is a pump that stays away for good while nobody closes, which the property excepts. |

Model-checked only:

* `ServerUnblocked` and `TravelUnblocked`, which are about `ENABLED`;
* `EndReachesUser` and `LateWordIsHungUp`. What the agent says has to pass the queue `uplink`; that a message
  gets to its head, for every `Capacity`, is an induction over temporal formulas. That the
  report is under way until it arrives is proved (`ReportsTravel`);
* the fairness part of `DownstreamRefined`: it needs to know when the abstract actions, with the mapping
  put in, are enabled;
* the counterexamples.

## Not modelled

* Payloads, annotations and the serialisation of HTTP messages: one message at a time,
  without state. They fail or succeed, in `Encode` and `HttpAnswers`.
* The ws, ssh and logs adapters beyond `Downstream`: they pass each call on to one call of a
  library. A step of `NewSSHClient` that fails after the connection leaves it open (`ssh.go:95`); no
  model sees that connection.
* What a callback of the embedding program does. It runs inside the hub and is
  expected to return; the verdict of `registerClientHandle` is a free choice. The callbacks
  of clients run where `Registry` stores and deletes one; they have no properties of their own.
* Listing endpoints, TLS, command line, examples, deployment: no state that
  others read.
* Goroutines that stay blocked in a send to an `errChan` nobody receives from any more
  (`client.go:136`): they hold no lock and nothing waits for them.
* The order of two data messages of one session (`client.go:299`): equal messages of a session are one.
* Several agents of one `EndToEnd`: each speaks over connections and of sessions of its own.

## Plan

1. Done: `Registry` and `Directory`, `ServerSession` over it, `Agent`, with their runs and
   the proofs of their safety.
2. Done: `EndToEnd`, `Tunnel`, `Exec` and `Downstream`, `Callbacks`, with theirs.
3. Done: the liveness of the parts, of a close across both programs, and that the composition implements
   its parts.
4. Done: the server's promises in the composition, and that the agent's report of an end is under way until it arrives.
5. Left: the liveness of the queue (`EndReachesUser`, `LateWordIsHungUp`); data messages with an identity, so that their order in the agent
   can be spoken of; client callbacks over `Registry`.
