--------------------------- MODULE RegistryProofs ---------------------------
(***************************************************************************)
(* The safety and the liveness of Registry for every number of connections *)
(* and identifiers, and that it implements Directory.  RegistryInv is      *)
(* inductive: a listed connection is served or being removed, a served one *)
(* is open, and what the hub holds is still served (to be stored) or gone  *)
(* (to be removed).                                                        *)
(***************************************************************************)
EXTENDS Registry, TLAPS

\* The invariant, but for the types, only speaks of the map, the hub, the
\* handlers and the closed sockets.
LEMMA FrameInv ==
  ASSUME RegistryInv, RegistryTypeOK', UNCHANGED <<clients, hub, handler, closed>>
  PROVE  RegistryInv'
BY DEF RegistryInv, EntryIsServed, ListedIsOpen, ServedIsOpen, HubHoldsLive, Removing, Hub

\* No connection exists yet and the map is empty.
LEMMA InitInv == RegistryInit => RegistryInv
BY RegistryAssumption
DEF RegistryInit, RegistryInv, RegistryTypeOK, EntryIsServed, ListedIsOpen, ServedIsOpen,
    HubHoldsLive, Selecting, Hub, HubOp, Handler, Pump

\* Every step of the register keeps the invariant.
LEMMA StepInv == RegistryInv /\ [RegistryNext]_rvars => RegistryInv'
<1> SUFFICES ASSUME RegistryInv, [RegistryNext]_rvars PROVE RegistryInv'
  OBVIOUS
<1> USE RegistryAssumption DEF RegistryInv, RegistryTypeOK
<1>1. ASSUME NEW c \in Conn, Upgrade(c) PROVE RegistryInv'
  <2>1. RegistryTypeOK'
    BY <1>1 DEF Upgrade, Released, HubOp, Handler, Pump
  <2>2. EntryIsServed'
    BY <1>1 DEF Upgrade, Released, EntryIsServed, HubHoldsLive, Removing
  <2>3. ListedIsOpen'
    BY <1>1 DEF Upgrade, Released, EntryIsServed, ListedIsOpen, ServedIsOpen, HubHoldsLive, Removing, Hub
  <2>4. ServedIsOpen'
    BY <1>1 DEF Upgrade, Released, ServedIsOpen, HubHoldsLive
  <2>5. HubHoldsLive'
    BY <1>1 DEF Upgrade, Released, HubHoldsLive
  <2>6. QED  BY <2>1, <2>2, <2>3, <2>4, <2>5
<1>2. ASSUME NEW c \in Conn, Refuse(c) PROVE RegistryInv'
  <2>1. RegistryTypeOK'
    BY <1>2 DEF Refuse, HubOp, Handler, Pump
  <2>2. EntryIsServed'
    BY <1>2 DEF Refuse, EntryIsServed, HubHoldsLive, Removing
  <2>3. ListedIsOpen'
    BY <1>2 DEF Refuse, EntryIsServed, ListedIsOpen, ServedIsOpen, HubHoldsLive, Removing, Hub
  <2>4. ServedIsOpen'
    BY <1>2 DEF Refuse, ServedIsOpen, HubHoldsLive
  <2>5. HubHoldsLive'
    BY <1>2 DEF Refuse, HubHoldsLive
  <2>6. QED  BY <2>1, <2>2, <2>3, <2>4, <2>5
<1>3. ASSUME NEW c \in Conn, CheckOffline(c) PROVE RegistryInv'
  <2>1. RegistryTypeOK'
    BY <1>3 DEF CheckOffline, HubOp, Handler, Pump
  <2>2. EntryIsServed'
    BY <1>3 DEF CheckOffline, EntryIsServed, HubHoldsLive, Removing
  <2>3. ServedIsOpen'
    BY <1>3 DEF CheckOffline, ServedIsOpen, HubHoldsLive
  <2>4. HubHoldsLive'
    BY <1>3 DEF CheckOffline, HubHoldsLive
  <2>5. QED  BY <1>3, <2>1, <2>2, <2>3, <2>4 DEF CheckOffline, ListedIsOpen
<1>4. ASSUME NEW c \in Conn, PingEnds(c) PROVE RegistryInv'
  <2>1. RegistryTypeOK'
    BY <1>4 DEF PingEnds, HubOp, Handler, Pump
  <2>2. EntryIsServed'
    BY <1>4 DEF PingEnds, EntryIsServed, HubHoldsLive, Removing
  <2>3. ServedIsOpen'
    BY <1>4 DEF PingEnds, ServedIsOpen, HubHoldsLive
  <2>4. HubHoldsLive'
    BY <1>4 DEF PingEnds, HubHoldsLive
  <2>5. QED  BY <1>4, <2>1, <2>2, <2>3, <2>4 DEF PingEnds, ListedIsOpen
<1>5. ASSUME NEW c \in Conn, HubTakesRegister(c) PROVE RegistryInv'
  <2>1. RegistryTypeOK'
    BY <1>5 DEF HubTakesRegister, Selecting, Hub, HubOp, Handler, Pump
  <2>2. EntryIsServed'
    BY <1>5 DEF HubTakesRegister, Selecting, Hub, EntryIsServed, HubHoldsLive, Removing
  <2>3. ListedIsOpen'
    BY <1>5 DEF HubTakesRegister, Selecting, Hub, EntryIsServed, ListedIsOpen, ServedIsOpen, HubHoldsLive, Removing
  <2>4. ServedIsOpen'
    BY <1>5 DEF HubTakesRegister, Selecting, Hub, ServedIsOpen, HubHoldsLive
  <2>5. HubHoldsLive'
    BY <1>5 DEF HubTakesRegister, Selecting, Hub, HubHoldsLive
  <2>6. QED  BY <2>1, <2>2, <2>3, <2>4, <2>5
<1>6. ASSUME NEW c \in Conn, HubTakesUnregister(c) PROVE RegistryInv'
  <2>1. RegistryTypeOK'
    BY <1>6 DEF HubTakesUnregister, Selecting, Hub, HubOp, Handler, Pump
  <2>2. EntryIsServed'
    BY <1>6 DEF HubTakesUnregister, Selecting, Hub, EntryIsServed, HubHoldsLive, Removing
  <2>3. ListedIsOpen'
    BY <1>6 DEF HubTakesUnregister, Selecting, Hub, EntryIsServed, ListedIsOpen, ServedIsOpen, HubHoldsLive, Removing
  <2>4. ServedIsOpen'
    BY <1>6 DEF HubTakesUnregister, Selecting, Hub, ServedIsOpen, HubHoldsLive
  <2>5. HubHoldsLive'
    BY <1>6 DEF HubTakesUnregister, Selecting, Hub, HubHoldsLive
  <2>6. QED  BY <2>1, <2>2, <2>3, <2>4, <2>5
<1>7. ASSUME HubStores PROVE RegistryInv'
  <2>1. RegistryTypeOK'
    BY <1>7 DEF HubStores, Selecting, Hub, HubOp, Handler, Pump
  <2>2. EntryIsServed'
    BY <1>7 DEF HubStores, Selecting, Hub, EntryIsServed, HubHoldsLive, Removing
  <2>3. ListedIsOpen'
    BY <1>7 DEF HubStores, Selecting, Hub, EntryIsServed, ListedIsOpen, ServedIsOpen, HubHoldsLive, Removing
  <2>4. HubHoldsLive'
    BY <1>7 DEF HubStores, Selecting, Hub, HubHoldsLive
  <2>5. QED  BY <1>7, <2>1, <2>2, <2>3, <2>4 DEF HubStores, ServedIsOpen
<1>8. ASSUME HubCloses PROVE RegistryInv'
  <2>1. RegistryTypeOK'
    BY <1>8 DEF HubCloses, Hub, HubOp, Handler, Pump
  <2>2. EntryIsServed'
    BY <1>8 DEF HubCloses, Hub, EntryIsServed, HubHoldsLive, Removing
  <2>3. ListedIsOpen'
    BY <1>8 DEF HubCloses, Hub, EntryIsServed, ListedIsOpen, ServedIsOpen, HubHoldsLive, Removing
  <2>4. ServedIsOpen'
    BY <1>8 DEF HubCloses, Hub, ServedIsOpen, HubHoldsLive
  <2>5. HubHoldsLive'
    BY <1>8 DEF HubCloses, Hub, HubHoldsLive
  <2>6. QED  BY <2>1, <2>2, <2>3, <2>4, <2>5
<1>9. ASSUME HubDeletes PROVE RegistryInv'
  <2>1. RegistryTypeOK'
    BY <1>9 DEF HubDeletes, Selecting, Hub, HubOp, Handler, Pump
  <2>2. EntryIsServed'
    BY <1>9 DEF HubDeletes, Selecting, Hub, EntryIsServed, HubHoldsLive, Removing
  <2>3. ListedIsOpen'
    BY <1>9 DEF HubDeletes, Selecting, Hub, EntryIsServed, ListedIsOpen, ServedIsOpen, HubHoldsLive, Removing
  <2>4. HubHoldsLive'
    BY <1>9 DEF HubDeletes, Selecting, Hub, HubHoldsLive
  <2>5. QED  BY <1>9, <2>1, <2>2, <2>3, <2>4 DEF HubDeletes, ServedIsOpen
<1>10. ASSUME NEW c \in Conn, ReaderExits(c) PROVE RegistryInv'
  <2>1. RegistryTypeOK'
    BY <1>10 DEF ReaderExits, Pump
  <2>2. QED  BY <1>10, <2>1, FrameInv DEF ReaderExits
<1>11. ASSUME NEW c \in Conn, WriterExits(c) PROVE RegistryInv'
  <2>1. RegistryTypeOK'
    BY <1>11 DEF WriterExits, Pump
  <2>2. QED  BY <1>11, <2>1, FrameInv DEF WriterExits
<1>12. ASSUME NEW c \in Conn, LinkBreaks(c) PROVE RegistryInv'
  <2>1. RegistryTypeOK'
    BY <1>12 DEF LinkBreaks, Pump
  <2>2. QED  BY <1>12, <2>1, FrameInv DEF LinkBreaks
<1>13. ASSUME NEW i \in Id, ManualDisconnect(i) PROVE RegistryInv'
  <2>1. RegistryTypeOK'
    BY <1>13 DEF ManualDisconnect, Pump
  <2>2. QED  BY <1>13, <2>1, FrameInv DEF ManualDisconnect
<1>14. CASE UNCHANGED rvars
  <2>1. RegistryTypeOK'
    BY <1>14 DEF rvars
  <2>2. QED  BY <1>14, <2>1, FrameInv DEF rvars
<1>15. QED
  BY <1>1, <1>2, <1>3, <1>4, <1>5, <1>6, <1>7, <1>8, <1>9, <1>10, <1>11, <1>12, <1>13, <1>14
  DEF RegistryNext, Environment, HubStep

\* RegistryInv holds in every reachable state of the register.
THEOREM RegistryInvariant == RegistrySpec => []RegistryInv
BY InitInv, StepInv, PTL DEF RegistrySpec

\* The fields of the register, the hub and the goroutines keep their ranges;
\* the hub works on a connection exactly while it is in an operation.
THEOREM RegistryTypeCorrect == RegistrySpec => []RegistryTypeOK
BY RegistryInvariant, PTL DEF RegistryInv

\* No entry of hub.DownStreamClients survives the connection it names.
THEOREM EntriesAreServed == RegistrySpec => []EntryIsServed
BY RegistryInvariant, PTL DEF RegistryInv

\* The Send of a listed connection is open but for the moment in which the
\* hub removes the entry.
THEOREM ListedAreOpen == RegistrySpec => []ListedIsOpen
BY RegistryInvariant, PTL DEF RegistryInv

-----------------------------------------------------------------------------
(* Registry implements Directory: the hub's receive of a connection is its   *)
(* Join, Store is List, and Delete, or the receive of an unregister that     *)
(* finds no entry, is Leave; every other step stutters.                      *)

\* A step of the register is a step of the Directory, or leaves it as it is.
LEMMA DirectoryStep ==
  ASSUME RegistryInv, [RegistryNext]_rvars
  PROVE  [Book!DirectoryNext]_(Book!dvars)
<1> USE RegistryAssumption DEF RegistryInv, RegistryTypeOK
<1> USE DEF Book!DirectoryNext, Book!dvars, Book!Join, Book!List, Book!Leave
<1>1. ASSUME UNCHANGED <<clients, hub, handler>> PROVE UNCHANGED <<clients, Live>>
  BY <1>1 DEF Live, Removing
<1>2. ASSUME NEW c \in Conn, Upgrade(c) PROVE UNCHANGED <<clients, Live>>
  BY <1>2 DEF Upgrade, Released, Live, Removing
<1>3. ASSUME NEW c \in Conn, Refuse(c) PROVE UNCHANGED <<clients, Live>>
  BY <1>3 DEF Refuse, Live, Removing
<1>4. ASSUME NEW c \in Conn, CheckOffline(c) PROVE UNCHANGED <<clients, Live>>
  BY <1>4 DEF CheckOffline, Live, Removing
<1>5. ASSUME NEW c \in Conn, PingEnds(c) PROVE UNCHANGED <<clients, Live>>
  BY <1>5 DEF PingEnds, Live, Removing
<1>6. ASSUME NEW c \in Conn, HubTakesRegister(c) PROVE Book!Join(c)
  BY <1>6 DEF HubTakesRegister, Selecting, Hub, Live, Removing
<1>7. ASSUME HubStores PROVE Book!List(hub.conn)
  BY <1>7 DEF HubStores, Selecting, Hub, HubHoldsLive, Live, Removing
<1>8. ASSUME NEW c \in Conn, HubTakesUnregister(c)
      PROVE  Book!Leave(c) \/ UNCHANGED <<clients, Live>>
  <2>1. CASE clients[ClientID[c]] = None
    BY <1>8, <2>1 DEF HubTakesUnregister, Selecting, Hub, Live, Removing
  <2>2. CASE clients[ClientID[c]] # None
    BY <1>8, <2>2 DEF HubTakesUnregister, Selecting, Hub, Live, Removing
  <2>3. QED  BY <2>1, <2>2
<1>9. ASSUME HubCloses PROVE UNCHANGED <<clients, Live>>
  BY <1>9 DEF HubCloses, Hub, Live, Removing
<1>10. ASSUME HubDeletes PROVE Book!Leave(hub.conn)
  BY <1>10 DEF HubDeletes, Selecting, Hub, HubHoldsLive, Live, Removing
<1>11. HubStores \/ HubDeletes => hub.conn \in Conn
  BY DEF HubStores, HubDeletes, HubOp
<1>12. ASSUME NEW c \in Conn, ReaderExits(c) \/ WriterExits(c) \/ LinkBreaks(c)
       PROVE  UNCHANGED <<clients, hub, handler>>
  BY <1>12 DEF ReaderExits, WriterExits, LinkBreaks
<1>13. ASSUME NEW i \in Id, ManualDisconnect(i) PROVE UNCHANGED <<clients, hub, handler>>
  BY <1>13 DEF ManualDisconnect
<1>14. CASE UNCHANGED rvars
  BY <1>1, <1>14 DEF rvars
<1>15. CASE RegistryNext
  BY <1>1, <1>2, <1>3, <1>4, <1>5, <1>6, <1>7, <1>8, <1>9, <1>10, <1>11, <1>12, <1>13, <1>15
  DEF RegistryNext, Environment, HubStep
<1>16. QED  BY <1>14, <1>15

\* Whoever looks an agent up sees a Directory, however register, the pumps and
\* the hub interleave.
THEOREM ImplementsDirectory == RegistrySpec => DirectoryRefined
<1>1. RegistryInit => Book!DirectoryInit
  BY DEF RegistryInit, Book!DirectoryInit, Live, Removing, Selecting, Hub
<1>2. RegistryInv /\ [RegistryNext]_rvars => [Book!DirectoryNext]_(Book!dvars)
  BY DirectoryStep
<1>3. QED  BY <1>1, <1>2, RegistryInvariant, PTL DEF RegistrySpec, DirectoryRefined, Book!DirectorySpec

-----------------------------------------------------------------------------
(* Liveness.  The provers reason about a step that fairness asks for only if *)
(* they are told when it is enabled: that is RegistryUnblocked, a state      *)
(* predicate that stays a hypothesis; each of its conjuncts says that a step *)
(* is enabled when its guard holds, the meaning of ENABLED.  A proof names the *)
(* phases a connection goes through; in each, every step stays in the phase  *)
(* or goes on to a later one, and the fair step goes on.                     *)

\* No goroutine runs yet.
LEMMA InitFresh == RegistryInit => FreshIsWhole
BY DEF RegistryInit, FreshIsWhole

\* Upgrade makes everything new, and what cancels a connection or starts its
\* pumps comes after its register handler is served.
LEMMA StepFresh == RegistryInv /\ FreshIsWhole /\ [RegistryNext]_rvars => FreshIsWhole'
<1> SUFFICES ASSUME RegistryInv, FreshIsWhole, [RegistryNext]_rvars PROVE FreshIsWhole'
  OBVIOUS
<1> USE RegistryAssumption DEF RegistryInv, RegistryTypeOK, FreshIsWhole
<1>1. ASSUME NEW c \in Conn, Upgrade(c) \/ Refuse(c) \/ CheckOffline(c) \/ PingEnds(c)
      PROVE  FreshIsWhole'
  BY <1>1 DEF Upgrade, Released, Refuse, CheckOffline, PingEnds
<1>2. ASSUME NEW c \in Conn, ReaderExits(c) \/ WriterExits(c) \/ LinkBreaks(c) PROVE FreshIsWhole'
  BY <1>2 DEF ReaderExits, WriterExits, LinkBreaks
<1>3. ASSUME NEW c \in Conn, HubTakesRegister(c) \/ HubTakesUnregister(c) PROVE FreshIsWhole'
  BY <1>3 DEF HubTakesRegister, HubTakesUnregister
<1>4. CASE HubStep
  BY <1>4 DEF HubStep, HubStores, HubCloses, HubDeletes
<1>5. ASSUME NEW i \in Id, ManualDisconnect(i) PROVE FreshIsWhole'
  BY <1>5 DEF ManualDisconnect, EntryIsServed, HubHoldsLive, Removing
<1>6. CASE UNCHANGED rvars
  BY <1>6 DEF rvars
<1>7. QED  BY <1>1, <1>2, <1>3, <1>4, <1>5, <1>6 DEF RegistryNext, Environment

\* FreshIsWhole holds in every reachable state of the register.
LEMMA FreshInvariant == RegistrySpec => []FreshIsWhole
BY InitFresh, StepFresh, RegistryInvariant, PTL DEF RegistrySpec

\* The hub finishes whatever client operation it is in: it does not wait for
\* a connection while it is in one.
LEMMA HubReturns ==
  [][RegistryNext]_rvars /\ []RegistryInv /\ []RegistryUnblocked /\ WF_rvars(HubStep)
     => []<>(hub = Selecting)
<1> DEFINE Late  == hub.op \in {"store", "delete"}
           Early == hub.op = "close"
<1> USE DEF Selecting, Hub
<1>1. RegistryInv => (hub = Selecting) \/ Late \/ Early
  BY DEF RegistryInv, RegistryTypeOK, HubOp
<1>2. RegistryUnblocked /\ (Late \/ Early) => ENABLED <<HubStep>>_rvars
  BY DEF RegistryUnblocked
<1>3. RegistryInv /\ [RegistryNext]_rvars /\ (Late \/ Early) => hub' = hub \/ HubStep
  BY DEF RegistryInv, RegistryTypeOK, HubOp, RegistryNext, Environment, rvars, Upgrade, Refuse,
         CheckOffline, PingEnds, ReaderExits, WriterExits, HubTakesRegister, HubTakesUnregister,
         ManualDisconnect, LinkBreaks
<1>4. HubStep => (Late => (hub = Selecting)') /\ (Early => Late')
  BY DEF HubStep, HubStores, HubCloses, HubDeletes
<1>5. RegistryInv /\ Late /\ [RegistryNext]_rvars => Late' \/ (hub = Selecting)'
  BY <1>3, <1>4
<1>6. RegistryInv /\ Early /\ [RegistryNext]_rvars => Early' \/ Late'
  BY <1>3, <1>4
<1>7. Late /\ <<HubStep>>_rvars => (hub = Selecting)'
  BY <1>4
<1>8. Early /\ <<HubStep>>_rvars => Late'
  BY <1>4
<1> HIDE DEF Late, Early
<1>9. QED  BY <1>1, <1>2, <1>5, <1>6, <1>7, <1>8, PTL

\* The fairness of each connection, from that of the specification.
LEMMA ConnFair == RegistrySpec => \A c \in Conn : ConnFairness(c)
BY PTL DEF RegistrySpec, RegistryFairness

\* What is said of all connections is said of each.
LEMMA ConnCanMove == ASSUME NEW c \in Conn PROVE []RegistryUnblocked => []ConnUnblocked(c)
<1>1. RegistryUnblocked => ConnUnblocked(c)
  BY DEF RegistryUnblocked
<1>2. QED  BY <1>1, PTL

\* The register handler of a connection whose context is done returns, its ping
\* loop first, whose deferred function the hub serves; so does its writer.
THEOREM CancelledAreReleased == RegistrySpec /\ []RegistryUnblocked => CancelledIsReleased
<1> SUFFICES ASSUME NEW c \in Conn
             PROVE  RegistrySpec /\ []RegistryUnblocked
                      => (cancelled[c] ~> (handler[c] \in {"gone", "upgraded"} /\ writer[c] # "run"))
  BY DEF CancelledIsReleased
<1> DEFINE Over    == handler[c] \in {"gone", "upgraded"} /\ writer[c] # "run"
           Pings   == cancelled[c] /\ handler[c] = "ping"
           Leaves  == cancelled[c] /\ handler[c] = "leaving"
           Writes  == cancelled[c] /\ handler[c] = "gone" /\ writer[c] = "run"
<1> USE DEF ConnUnblocked
<1>1. RegistryInv /\ FreshIsWhole /\ cancelled[c] => Over \/ Pings \/ Leaves \/ Writes
  BY DEF RegistryInv, RegistryTypeOK, FreshIsWhole, Handler
<1>2. /\ ConnUnblocked(c) /\ Pings => ENABLED <<PingEnds(c)>>_rvars
      /\ ConnUnblocked(c) /\ Leaves /\ hub = Selecting => ENABLED <<HubTakesUnregister(c)>>_rvars
      /\ ConnUnblocked(c) /\ Writes
           => ENABLED <<WriterExits(c) /\ (cancelled[c] \/ closed[c])>>_rvars
  OBVIOUS
<1> DEFINE Kept == /\ cancelled'[c]
                   /\ handler'[c] = handler[c] \/ (Pings /\ handler'[c] = "leaving")
                                              \/ (Leaves /\ handler'[c] = "gone")
                   /\ writer'[c] \in {writer[c], "done"}
<1>3. ASSUME RegistryInv, FreshIsWhole, [RegistryNext]_rvars, cancelled[c], ~Over PROVE Kept
  <2> USE <1>3 DEF RegistryInv, RegistryTypeOK
  <2>1. ASSUME NEW d \in Conn, Upgrade(d) \/ Refuse(d) \/ CheckOffline(d) \/ PingEnds(d) PROVE Kept
    BY <2>1 DEF Upgrade, Released, Refuse, CheckOffline, PingEnds, FreshIsWhole
  <2>2. ASSUME NEW d \in Conn, ReaderExits(d) \/ WriterExits(d) \/ LinkBreaks(d) PROVE Kept
    BY <2>2 DEF ReaderExits, WriterExits, LinkBreaks
  <2>3. ASSUME NEW d \in Conn, HubTakesRegister(d) \/ HubTakesUnregister(d) PROVE Kept
    BY <2>3 DEF HubTakesRegister, HubTakesUnregister, FreshIsWhole
  <2>4. ASSUME NEW i \in Id, ManualDisconnect(i) PROVE Kept
    BY <2>4 DEF ManualDisconnect
  <2>5. CASE HubStep
    BY <2>5 DEF HubStep, HubStores, HubCloses, HubDeletes
  <2>6. CASE UNCHANGED rvars
    BY <2>6 DEF rvars
  <2>7. QED  BY <2>1, <2>2, <2>3, <2>4, <2>5, <2>6 DEF RegistryNext, Environment
<1>4. RegistryInv /\ FreshIsWhole /\ [RegistryNext]_rvars =>
         /\ Pings /\ ~Over  => Pings' \/ Leaves'
         /\ Leaves /\ ~Over => Leaves' \/ Writes' \/ Over'
         /\ Writes /\ ~Over => Writes' \/ Over'
  BY <1>3
<1>5. RegistryInv /\ FreshIsWhole /\ [RegistryNext]_rvars =>
         /\ Pings /\ ~Over /\ <<PingEnds(c)>>_rvars => Leaves'
         /\ Leaves /\ ~Over /\ <<HubTakesUnregister(c)>>_rvars => Writes' \/ Over'
         /\ Writes /\ ~Over /\ <<WriterExits(c) /\ (cancelled[c] \/ closed[c])>>_rvars => Over'
  BY <1>3 DEF RegistryInv, RegistryTypeOK, PingEnds, HubTakesUnregister, WriterExits
<1> HIDE DEF Kept, Over, Pings, Leaves, Writes, ConnUnblocked
<1>6. RegistrySpec => ConnFairness(c)
  BY ConnFair
<1>7. RegistrySpec /\ []RegistryUnblocked /\ ConnFairness(c) => (cancelled[c] ~> Over)
  BY <1>1, <1>2, <1>4, <1>5, <1>6, HubReturns, ConnCanMove, RegistryInvariant, FreshInvariant, PTL
  DEF RegistrySpec, RegistryFairness, ConnFairness
<1>8. QED  BY <1>6, <1>7, PTL DEF Over

\* A listed connection that breaks is taken from the map: the ping loop notices,
\* the hub serves its unregister, closes the client and deletes the entry; a
\* rival that stores itself meanwhile delists it all the same.
THEOREM BrokenAreDelisted == RegistrySpec /\ []RegistryUnblocked => BrokenIsDelisted
<1> SUFFICES ASSUME NEW c \in Conn
             PROVE  RegistrySpec /\ []RegistryUnblocked
                      => (link[c] = "down" /\ clients[ClientID[c]] = c ~> clients[ClientID[c]] # c)
  BY DEF BrokenIsDelisted
<1> DEFINE Listed  == link[c] = "down" /\ clients[ClientID[c]] = c
           Pings   == Listed /\ handler[c] = "ping"
           Leaves  == Listed /\ handler[c] = "leaving"
           Closes  == Listed /\ hub = Hub("close", c)
           Deletes == Listed /\ hub = Hub("delete", c)
           Delisted == clients[ClientID[c]] # c
<1> USE RegistryAssumption DEF ConnUnblocked
<1>1. RegistryInv /\ Listed => Pings \/ Leaves \/ Closes \/ Deletes
  BY DEF RegistryInv, RegistryTypeOK, EntryIsServed, Removing, Hub
<1>2. /\ ConnUnblocked(c) /\ Pings => ENABLED <<PingEnds(c)>>_rvars
      /\ ConnUnblocked(c) /\ Leaves /\ hub = Selecting => ENABLED <<HubTakesUnregister(c)>>_rvars
      /\ RegistryUnblocked /\ (Closes \/ Deletes) => ENABLED <<HubStep>>_rvars
  BY DEF RegistryUnblocked, Selecting, Hub
<1> DEFINE Kept == \/ Delisted'
                   \/ /\ Listed'
                      /\ \/ handler'[c] = handler[c]
                         \/ Pings /\ handler'[c] = "leaving"
                         \/ Leaves /\ hub' = Hub("close", c)
                      /\ hub.conn = c /\ hub.op \in {"close", "delete"} => 
                            hub' = hub \/ (Closes /\ hub' = Hub("delete", c))
<1>3. ASSUME RegistryInv, [RegistryNext]_rvars, Listed PROVE Kept
  <2> USE <1>3 DEF RegistryInv, RegistryTypeOK, EntryIsServed, Removing, Selecting, Hub
  <2>0. ASSUME NEW d \in Conn, Upgrade(d) PROVE Kept
    <3>1. d # c
      BY <2>0 DEF Upgrade, Released
    <3>2. QED  BY <2>0, <3>1 DEF Upgrade
  <2>1. ASSUME NEW d \in Conn, Refuse(d) \/ CheckOffline(d) \/ PingEnds(d) PROVE Kept
    BY <2>1 DEF Refuse, CheckOffline, PingEnds, HubHoldsLive
  <2>2. ASSUME NEW d \in Conn, ReaderExits(d) \/ WriterExits(d) \/ LinkBreaks(d) PROVE Kept
    BY <2>2 DEF ReaderExits, WriterExits, LinkBreaks
  <2>3. ASSUME NEW d \in Conn, HubTakesRegister(d) \/ HubTakesUnregister(d) PROVE Kept
    BY <2>3 DEF HubTakesRegister, HubTakesUnregister
  <2>4. ASSUME NEW i \in Id, ManualDisconnect(i) PROVE Kept
    BY <2>4 DEF ManualDisconnect
  <2>5. CASE HubStep
    BY <2>5 DEF HubStep, HubStores, HubCloses, HubDeletes
  <2>6. CASE UNCHANGED rvars
    BY <2>6 DEF rvars
  <2>7. QED  BY <2>0, <2>1, <2>2, <2>3, <2>4, <2>5, <2>6 DEF RegistryNext, Environment
<1>4. RegistryInv /\ [RegistryNext]_rvars =>
         /\ Pings   => Pings' \/ Leaves' \/ Delisted'
         /\ Leaves  => Leaves' \/ Closes' \/ Delisted'
         /\ Closes  => Closes' \/ Deletes' \/ Delisted'
         /\ Deletes => Deletes' \/ Delisted'
  BY <1>3 DEF Hub
<1>5. RegistryInv /\ [RegistryNext]_rvars =>
         /\ Pings /\ <<PingEnds(c)>>_rvars => Leaves' \/ Delisted'
         /\ Leaves /\ <<HubTakesUnregister(c)>>_rvars => Closes' \/ Delisted'
         /\ Closes /\ <<HubStep>>_rvars => Deletes' \/ Delisted'
         /\ Deletes /\ <<HubStep>>_rvars => Delisted'
  BY <1>3 DEF RegistryInv, RegistryTypeOK, PingEnds, HubTakesUnregister, HubStep, HubStores, HubCloses, HubDeletes, Hub
<1>6. RegistrySpec => ConnFairness(c)
  BY ConnFair
<1> HIDE DEF Kept, Pings, Leaves, Closes, Deletes, ConnUnblocked
<1>7. RegistrySpec /\ []RegistryUnblocked /\ ConnFairness(c) => (Listed ~> Delisted)
  BY <1>1, <1>2, <1>4, <1>5, HubReturns, ConnCanMove, RegistryInvariant, PTL
  DEF RegistrySpec, RegistryFairness, ConnFairness
<1>8. QED  BY <1>6, <1>7, PTL
=============================================================================
