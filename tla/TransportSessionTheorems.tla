------------------------ MODULE TransportSessionTheorems ------------------------
(***************************************************************************)
(* Both sides of the transport agree on sessions, the server's slots keep  *)
(* step with ENet's peers, and the server application is told of each peer *)
(* in the order SessionEvents promises: for any number of clients, honest  *)
(* and foreign, every peer limit and every timeout.                        *)
(***************************************************************************)
EXTENDS TransportSession, FiniteSetTheorems, TLAPS

-----------------------------------------------------------------------------
(* Types. *)

Slots == [id : PeerIds, ready : BOOLEAN, age : 0..HandshakeTimeout]

Events == [kind : EventKinds, peer : PeerIds]

ClientEvents == [kind : EventKinds, code : DisconnectCodes]

Requests == {"ClientHello", "Payload", "Oversized"}

Replies == [kind : {"ServerAccept", "ServerReject", "Payload"}, code : DisconnectCodes]

\* TypeOK without its bounds, which rest on the rest of the invariant.
Typed ==
    /\ Connected \subseteq Clients
    /\ \A c \in Connected : slots[c] \in Slots
    /\ nextPeerId \in Nat \ {0}
    /\ serverEvents \in Seq(Events)
    /\ clientPeer \in [Clients -> {"none", "connecting", "connected", "closed"}]
    /\ clientReady \in [Clients -> BOOLEAN]
    /\ clientAge \in [Clients -> 0..HandshakeTimeout]
    /\ clientEvents \in [Clients -> Seq(ClientEvents)]
    /\ serverPeer \in [Clients -> {"none", "pending", "connected", "leaving"}]
    /\ leaveCode \in [Clients -> DisconnectCodes]
    /\ up \in [Clients -> Seq(Requests)]
    /\ down \in [Clients -> Seq(Replies)]
    /\ downOther \in [Clients -> 0..1]
    /\ seen \in [PeerIds -> Phases]
    /\ joined \subseteq PeerIds
    /\ connection \in [Clients -> {"Connecting", "SessionReady", "Disconnected"}]

-----------------------------------------------------------------------------
(* The inductive invariant.  An identifier names one slot for good, and      *)
(* there are enough of them, because a client is announced at most once.     *)

\* Clients that the server may still announce.
Unannounced == {c \in Clients : clientPeer[c] \in {"none", "connecting"}
                                \/ serverPeer[c] = "pending"}

\* Clients that take one of ENet's peers at the server.
Occupying == {c \in Clients : serverPeer[c] # "none"}

Numbered ==
    /\ nextPeerId + Cardinality(Unannounced) <= Cardinality(Clients) + 1
    /\ Cardinality(Occupying) <= MaxPeers
    /\ \A c \in Connected : slots[c].id < nextPeerId
    /\ \A c, d \in Connected : slots[c].id = slots[d].id => c = d
    /\ \A i \in 1..Len(serverEvents) : serverEvents[i].peer < nextPeerId
    /\ \A p \in joined : p < nextPeerId

\* A payload of the peer was handled, or will be.
Heard(p) ==
    \/ p \in joined
    \/ \E i \in 1..Len(serverEvents) :
          serverEvents[i].kind = "ReceivedPacket" /\ serverEvents[i].peer = p

\* The slot follows ENet's peer, and nothing is said on a connection before the client
\* has it, or told to a client before the server has it.
Follows(c) ==
    /\ c \in Connected <=> serverPeer[c] \in {"connected", "leaving"}
    /\ clientPeer[c] \in {"none", "connecting"} =>
          /\ c \notin Connected /\ ~clientReady[c]
          /\ up[c] = << >> /\ down[c] = << >> /\ downOther[c] = 0
    /\ clientPeer[c] = "none" => serverPeer[c] # "pending"
    /\ serverPeer[c] = "pending" =>
          ~clientReady[c] /\ down[c] = << >> /\ downOther[c] = 0
    /\ clientReady[c] => clientPeer[c] = "connected"

\* A client that is or will be told that its session is ready has a ready slot, or none.
Accepted(c) ==
    clientReady[c] \/ (\E i \in 1..Len(down[c]) : down[c][i].kind = "ServerAccept") =>
       /\ Identity[c] = ExpectedIdentity
       /\ c \in Connected => slots[c].ready

\* The client knows of its session, or is gone.
Knows(c) == clientReady[c] \/ clientPeer[c] = "closed"

\* A client of SimNet's own says hello first and the rest once its session is ready, so
\* the server hears no payload of it, and sends it none, before it knows of its session.
OwnClient(c) ==
    /\ \A i \in 1..Len(up[c]) :
          \/ up[c][i] = "Payload" /\ Knows(c)
          \/ up[c][i] = "ClientHello" /\ i = 1 /\ (c \in Connected => ~slots[c].ready)
    /\ c \in Connected /\ Heard(slots[c].id) => Knows(c)
    /\ ~clientReady[c] /\ clientPeer[c] = "connected" =>
          /\ downOther[c] = 0
          /\ \A i \in 1..Len(down[c]) : down[c][i].kind # "Payload"
                \/ \E j \in 1..i - 1 : down[c][j].kind = "ServerAccept"

ClientKept(c) == Follows(c) /\ Accepted(c) /\ (c \notin Foreign => OwnClient(c))

Inv ==
    /\ Typed
    /\ Numbered
    /\ \A c \in Clients : ClientKept(c)
    /\ EventsCatchUp

\* There is an identifier for each client.
LEMMA ClientsCounted ==
  /\ Cardinality(Clients) \in Nat
  /\ PeerIds = 1..Cardinality(Clients)
  /\ \A S \in SUBSET Clients : IsFiniteSet(S) /\ Cardinality(S) \in Nat
<1>1. IsFiniteSet(Clients)
  BY TransportAssumption
<1> QED
  BY <1>1, FS_CardinalityType, FS_Subset DEF PeerIds

\* Removing slots.
LEMMA WithoutSlotsFacts ==
  ASSUME NEW gone
  PROVE  /\ DOMAIN WithoutSlots(gone) = Connected \ gone
         /\ \A c \in Connected \ gone : WithoutSlots(gone)[c] = slots[c]
BY DEF WithoutSlots, Restrict

\* The next client that is announced gets an identifier of its own.
LEMMA NextIdentifier ==
  ASSUME Typed, Numbered, NEW c \in Clients, c \in Unannounced
  PROVE  /\ nextPeerId \in PeerIds
         /\ (nextPeerId + 1) % PeerIdModulus = nextPeerId + 1
         /\ \A S \in SUBSET (Unannounced \ {c}) :
               nextPeerId + 1 + Cardinality(S) <= Cardinality(Clients) + 1
<1> DEFINE n == Cardinality(Clients)
           u == Cardinality(Unannounced)
<1>1. Unannounced \in SUBSET Clients
  BY DEF Unannounced
<1>2. IsFiniteSet(Unannounced) /\ u \in Nat /\ n \in Nat
  BY <1>1, ClientsCounted
<1>3. u # 0
  BY <1>2, FS_EmptySet
<1>4. nextPeerId \in Nat \ {0} /\ nextPeerId + u <= n + 1
  BY DEF Typed, Numbered
<1>5. Cardinality(Unannounced \ {c}) = u - 1 /\ IsFiniteSet(Unannounced \ {c})
  BY <1>2, FS_RemoveElement
<1>6. \A S \in SUBSET (Unannounced \ {c}) : Cardinality(S) <= u - 1 /\ Cardinality(S) \in Nat
  BY <1>5, FS_Subset, FS_CardinalityType
<1>7. PeerIdModulus \in Nat /\ n + 1 < PeerIdModulus
  BY TransportAssumption
<1> HIDE DEF n, u
<1>8. nextPeerId <= n
  BY <1>2, <1>3, <1>4
<1>9. (nextPeerId + 1) % PeerIdModulus = nextPeerId + 1
  BY <1>2, <1>4, <1>7, <1>8
<1>10. nextPeerId \in PeerIds
  BY <1>2, <1>4, <1>8, ClientsCounted DEF n
<1>11. \A S \in SUBSET (Unannounced \ {c}) : nextPeerId + 1 + Cardinality(S) <= n + 1
  BY <1>2, <1>4, <1>6
<1> QED
  BY <1>9, <1>10, <1>11 DEF n

-----------------------------------------------------------------------------
(* Types are kept. *)

\* The types of what belongs to one client.
LEMMA ClientTypes ==
  ASSUME Typed, NEW c \in Clients
  PROVE  /\ clientPeer[c] \in {"none", "connecting", "connected", "closed"}
         /\ clientReady[c] \in BOOLEAN
         /\ clientAge[c] \in 0..HandshakeTimeout
         /\ clientEvents[c] \in Seq(ClientEvents)
         /\ serverPeer[c] \in {"none", "pending", "connected", "leaving"}
         /\ up[c] \in Seq(Requests) /\ down[c] \in Seq(Replies) /\ downOther[c] \in 0..1
         /\ c \in Connected => slots[c].id \in PeerIds /\ slots[c].ready \in BOOLEAN
                               /\ slots[c].age \in 0..HandshakeTimeout
BY DEF Typed, Slots

\* The identifiers in use are of peers.
LEMMA SlotIdsTyped ==
  ASSUME Typed
  PROVE  \A c \in Connected : slots[c].id \in PeerIds /\ slots[c].id \in Nat
<1>1. \A c \in Connected : c \in Clients
  BY DEF Typed
<1>2. \A c \in Connected : slots[c].id \in PeerIds
  BY <1>1, ClientTypes
<1>3. \A p \in PeerIds : p \in Nat
  BY ClientsCounted
<1> QED
  BY ONLY <1>2, <1>3

\* A disconnection that the server asks for.
LEMMA DisconnectTyped ==
  ASSUME Typed, NEW c \in Clients, NEW code \in DisconnectCodes, Disconnect(c, code)
  PROVE  /\ serverPeer' \in [Clients -> {"none", "pending", "connected", "leaving"}]
         /\ leaveCode' \in [Clients -> DisconnectCodes]
BY DEF Typed, Disconnect

\* Appending an event of a known peer.
LEMMA EventsTyped ==
  ASSUME Typed, NEW kind \in EventKinds, NEW peer \in PeerIds,
         serverEvents' = Append(serverEvents, Event(kind, peer))
  PROVE  serverEvents' \in Seq(Events)
<1>1. Event(kind, peer) \in Events
  BY DEF Event, Events
<1> HIDE DEF Events
<1> QED
  BY <1>1 DEF Typed

\* Telling a client's application.
LEMMA TellTyped ==
  ASSUME Typed, NEW c \in Clients, NEW events \in Seq(ClientEvents), Tell(c, events)
  PROVE  clientEvents' \in [Clients -> Seq(ClientEvents)]
<1>1. clientEvents[c] \o events \in Seq(ClientEvents)
  BY ClientTypes
<1> HIDE DEF ClientEvents
<1> QED
  BY <1>1 DEF Typed, Tell

\* Closing the client's connection.
LEMMA CloseTyped ==
  ASSUME Typed, NEW c \in Clients, CloseClient(c)
  PROVE  /\ clientPeer' \in [Clients -> {"none", "connecting", "connected", "closed"}]
         /\ clientReady' \in [Clients -> BOOLEAN]
         /\ down' \in [Clients -> Seq(Replies)]
         /\ downOther' \in [Clients -> 0..1]
<1>1. << >> \in Seq(Replies)
  OBVIOUS
<1> QED
  BY <1>1 DEF Typed, CloseClient

\* Queueing a message on lane 0.
LEMMA LanesTyped ==
  ASSUME Typed, NEW c \in Clients
  PROVE  /\ \A m \in Requests : [up EXCEPT ![c] = Append(@, m)] \in [Clients -> Seq(Requests)]
         /\ \A m \in Replies : [down EXCEPT ![c] = Append(@, m)] \in [Clients -> Seq(Replies)]
         /\ up[c] # << >> =>
               /\ [up EXCEPT ![c] = Tail(@)] \in [Clients -> Seq(Requests)]
               /\ Head(up[c]) \in Requests
         /\ down[c] # << >> =>
               /\ [down EXCEPT ![c] = Tail(@)] \in [Clients -> Seq(Replies)]
               /\ Head(down[c]) \in Replies
         /\ [up EXCEPT ![c] = << >>] \in [Clients -> Seq(Requests)]
<1>1. up[c] \in Seq(Requests) /\ down[c] \in Seq(Replies)
  BY ClientTypes
<1>2. up \in [Clients -> Seq(Requests)] /\ down \in [Clients -> Seq(Replies)]
  BY DEF Typed
<1> HIDE DEF Requests, Replies
<1>3. /\ \A m \in Requests : Append(up[c], m) \in Seq(Requests)
      /\ \A m \in Replies : Append(down[c], m) \in Seq(Replies)
      /\ up[c] # << >> => Tail(up[c]) \in Seq(Requests) /\ Head(up[c]) \in Requests
      /\ down[c] # << >> => Tail(down[c]) \in Seq(Replies) /\ Head(down[c]) \in Replies
      /\ << >> \in Seq(Requests)
  BY <1>1
<1> QED
  BY <1>2, <1>3

\* A connection the server is told of.
LEMMA PollConnectTyped ==
  ASSUME Typed, Numbered, NEW c \in Clients, PollConnect(c)
  PROVE  Typed'
<1>1. /\ serverPeer' = [serverPeer EXCEPT ![c] = "connected"]
      /\ slots' = [d \in Connected \cup {c} |->
                     IF d = c THEN [id |-> nextPeerId, ready |-> FALSE, age |-> 0] ELSE slots[d]]
      /\ nextPeerId' = (nextPeerId + 1) % PeerIdModulus
      /\ serverEvents' = Append(serverEvents, Event("PeerConnected", nextPeerId))
      /\ UNCHANGED <<clientVars, leaveCode, up, down, downOther, appVars>>
      /\ c \in Unannounced
  BY DEF PollConnect, Unannounced
<1>2. nextPeerId \in PeerIds /\ nextPeerId' = nextPeerId + 1
  BY <1>1, NextIdentifier
<1>3. serverEvents' \in Seq(Events)
  BY <1>1, <1>2, EventsTyped DEF EventKinds
<1>4. [id |-> nextPeerId, ready |-> FALSE, age |-> 0] \in Slots
  BY <1>2, TransportAssumption DEF Slots
<1>5. DOMAIN slots' \subseteq Clients /\ \A d \in DOMAIN slots' : slots'[d] \in Slots
  BY <1>1, <1>4 DEF Typed, Connected
<1>6. serverPeer' \in [Clients -> {"none", "pending", "connected", "leaving"}]
      /\ nextPeerId' \in Nat \ {0}
  BY <1>1, <1>2 DEF Typed
<1> HIDE DEF Slots, Events
<1> QED
  BY <1>1, <1>3, <1>5, <1>6 DEF Typed, Connected, clientVars, appVars

\* A message the server reads.
LEMMA PollReceiveTyped ==
  ASSUME Typed, NEW c \in Clients, PollReceive(c)
  PROVE  Typed'
<1> DEFINE message == Head(up[c])
           mismatch == IdentityMismatch(Identity[c], ExpectedIdentity)
<1>1. /\ c \in Connected /\ up[c] # << >> /\ HandleReceive(c, message)
      /\ up' = [up EXCEPT ![c] = Tail(@)]
      /\ UNCHANGED <<nextPeerId, clientVars, downOther, appVars>>
  BY DEF PollReceive
<1>2. up' \in [Clients -> Seq(Requests)] /\ slots[c].id \in PeerIds
  BY <1>1, LanesTyped, ClientTypes
<1>3. mismatch \in DisconnectCodes
  BY DEF IdentityMismatch, DisconnectCodes
<1>4. /\ "ProtocolMismatch" \in DisconnectCodes /\ "TransportError" \in DisconnectCodes
      /\ "None" \in DisconnectCodes
  BY DEF DisconnectCodes
<1>5. /\ [kind |-> "ServerReject", code |-> mismatch] \in Replies
      /\ [kind |-> "ServerAccept", code |-> "None"] \in Replies
  BY <1>3, <1>4 DEF Replies
<1> HIDE DEF message, mismatch
<1>6. down' \in [Clients -> Seq(Replies)]
  <2>1. \/ down' = down
        \/ down' = [down EXCEPT ![c] = Append(@, [kind |-> "ServerReject", code |-> mismatch])]
        \/ down' = [down EXCEPT ![c] = Append(@, [kind |-> "ServerAccept", code |-> "None"])]
    BY <1>1 DEF HandleReceive, HandleClientHello, mismatch
  <2>2. \A m \in Replies : [down EXCEPT ![c] = Append(@, m)] \in [Clients -> Seq(Replies)]
    BY LanesTyped
  <2>3. down \in [Clients -> Seq(Replies)]
    BY DEF Typed
  <2> QED
    BY <1>5, <2>1, <2>2, <2>3
<1>7. /\ serverEvents' \in Seq(Events)
      /\ serverPeer' \in [Clients -> {"none", "pending", "connected", "leaving"}]
      /\ leaveCode' \in [Clients -> DisconnectCodes]
      /\ DOMAIN slots' = Connected
      /\ slots' = slots \/ slots' = [slots EXCEPT ![c].ready = TRUE]
  <2>1. ASSUME NEW code \in DisconnectCodes, RefuseMessage(c, code)
        PROVE  <1>7
    <3>1. Disconnect(c, code) /\ slots' = slots
          /\ serverEvents' = Append(serverEvents, Event("TransportErrorEvent", slots[c].id))
      BY <2>1 DEF RefuseMessage
    <3>2. serverEvents' \in Seq(Events)
      BY <1>2, <3>1, EventsTyped DEF EventKinds
    <3> QED
      BY <3>1, <3>2, DisconnectTyped DEF Connected
  <2>2. ASSUME slots' = [slots EXCEPT ![c].ready = TRUE] \/ slots' = slots,
               \/ serverEvents' = Append(serverEvents, Event("PeerSessionReady", slots[c].id))
               \/ serverEvents' = Append(serverEvents, Event("ReceivedPacket", slots[c].id)),
               UNCHANGED <<serverPeer, leaveCode>>
        PROVE  <1>7
    <3>1. serverEvents' \in Seq(Events)
      BY <1>2, <2>2, EventsTyped DEF EventKinds
    <3> QED
      BY <2>2, <3>1 DEF Typed, Connected
  <2> QED
    BY <1>1, <1>3, <1>4, <2>1, <2>2 DEF HandleReceive, HandleClientHello, mismatch
<1>8. \A d \in Connected : slots'[d] \in Slots
  <2>1. CASE slots' = slots
    BY <2>1 DEF Typed
  <2>2. CASE slots' = [slots EXCEPT ![c].ready = TRUE]
    <3>1. slots'[c] = [slots[c] EXCEPT !.ready = TRUE] /\ slots[c] \in Slots
      BY <1>1, <2>2 DEF Typed, Connected
    <3>2. slots'[c] \in Slots
      BY <3>1 DEF Slots
    <3>3. \A d \in Connected \ {c} : slots'[d] = slots[d]
      BY <2>2 DEF Connected
    <3> QED
      BY <3>2, <3>3 DEF Typed
  <2> QED
    BY <1>7, <2>1, <2>2
<1> HIDE DEF Slots, Events, Requests, Replies
<1> QED
  BY <1>1, <1>2, <1>6, <1>7, <1>8 DEF Typed, Connected, clientVars, appVars

\* The events of expired slots, oldest first.
LEMMA ExpiryEvents ==
  ASSUME Typed, NEW order \in SlotOrders(ExpiredSessions)
  PROVE  LET told == [i \in DOMAIN order |-> Event("PeerDisconnected", slots[order[i]].id)]
         IN  /\ told \in Seq(Events)
             /\ DOMAIN order = 1..Len(told)
             /\ \A i \in 1..Len(told) : order[i] \in ExpiredSessions
             /\ \A c \in ExpiredSessions : \E i \in 1..Len(told) : order[i] = c
             /\ \A i, j \in 1..Len(told) :
                   i < j => slots[order[i]].id < slots[order[j]].id
             /\ \A i \in 1..Len(told) :
                   told[i].kind = "PeerDisconnected" /\ told[i].peer = slots[order[i]].id
<1> DEFINE n    == Cardinality(ExpiredSessions)
           told == [i \in DOMAIN order |-> Event("PeerDisconnected", slots[order[i]].id)]
<1>1. ExpiredSessions \in SUBSET Connected /\ ExpiredSessions \in SUBSET Clients
  BY DEF ExpiredSessions, Typed
<1>2. n \in Nat
  BY <1>1, ClientsCounted
<1>3. /\ order \in [1..n -> ExpiredSessions]
      /\ \A c \in ExpiredSessions : \E i \in DOMAIN order : order[i] = c
      /\ \A i, j \in DOMAIN order : i < j => slots[order[i]].id < slots[order[j]].id
  BY DEF SlotOrders
<1> HIDE DEF n
<1>4. \A i \in 1..n : slots[order[i]].id \in PeerIds /\ order[i] \in ExpiredSessions
  BY <1>1, <1>3, ClientTypes
<1>5. \A i \in 1..n : Event("PeerDisconnected", slots[order[i]].id) \in Events
  BY <1>4 DEF Event, Events, EventKinds
<1>6. told = [i \in 1..n |-> Event("PeerDisconnected", slots[order[i]].id)]
  BY <1>3
<1> HIDE DEF Events
<1>7. told \in Seq(Events) /\ Len(told) = n
  BY <1>2, <1>5, <1>6
<1>8. \A i \in 1..n :
         told[i].kind = "PeerDisconnected" /\ told[i].peer = slots[order[i]].id
  BY <1>6 DEF Event
<1> HIDE DEF told
<1>9. DOMAIN order = 1..Len(told)
  BY <1>3, <1>7
<1> QED
  BY <1>3, <1>4, <1>7, <1>8, <1>9 DEF told

\* Peers that are gone, one by one or by expiry.
LEMMA RemovalTyped ==
  ASSUME Typed,
         \/ \E c \in Clients : PollDisconnect(c)
         \/ ExpirePendingSessions
  PROVE  Typed'
<1>1. ASSUME NEW gone \in SUBSET Clients, slots' = WithoutSlots(gone),
             serverEvents' \in Seq(Events),
             serverPeer' \in [Clients -> {"none", "pending", "connected", "leaving"}],
             up' \in [Clients -> Seq(Requests)],
             UNCHANGED <<nextPeerId, clientVars, leaveCode, down, downOther, appVars>>
      PROVE  Typed'
  <2>1. DOMAIN slots' \subseteq Clients /\ \A d \in DOMAIN slots' : slots'[d] \in Slots
    <3>1. DOMAIN slots' = Connected \ gone
          /\ \A d \in Connected \ gone : slots'[d] = slots[d]
      BY <1>1, WithoutSlotsFacts
    <3> QED
      BY <3>1 DEF Typed
  <2> HIDE DEF Slots, Events, Requests, Replies
  <2> QED
    BY <1>1, <2>1 DEF Typed, Connected, clientVars, appVars
<1>2. ASSUME NEW c \in Clients, PollDisconnect(c)
      PROVE  Typed'
  <2>1. /\ c \in Connected
        /\ serverEvents' = Append(serverEvents, Event("PeerDisconnected", slots[c].id))
        /\ slots' = WithoutSlots({c})
        /\ serverPeer' = [serverPeer EXCEPT ![c] = "none"]
        /\ up' = [up EXCEPT ![c] = << >>]
        /\ UNCHANGED <<nextPeerId, clientVars, leaveCode, down, downOther, appVars>>
    BY <1>2 DEF PollDisconnect
  <2>2. slots[c].id \in PeerIds
    BY <2>1, ClientTypes
  <2>3. serverEvents' \in Seq(Events)
    BY <2>1, <2>2, EventsTyped DEF EventKinds
  <2>4. up' \in [Clients -> Seq(Requests)]
    BY <2>1, LanesTyped
  <2>5. serverPeer' \in [Clients -> {"none", "pending", "connected", "leaving"}]
    BY <2>1 DEF Typed
  <2> QED
    BY <1>1, <2>1, <2>3, <2>4, <2>5
<1>3. ASSUME ExpirePendingSessions
      PROVE  Typed'
  <2> DEFINE expired == ExpiredSessions
  <2>1. /\ slots' = WithoutSlots(expired)
        /\ serverPeer' = [c \in Clients |-> IF c \in expired THEN "none" ELSE serverPeer[c]]
        /\ up' = [c \in Clients |-> IF c \in expired THEN << >> ELSE up[c]]
        /\ \E order \in SlotOrders(expired) :
              serverEvents' = serverEvents \o
                 [i \in DOMAIN order |-> Event("PeerDisconnected", slots[order[i]].id)]
        /\ UNCHANGED <<nextPeerId, clientVars, leaveCode, down, downOther, appVars>>
    BY <1>3 DEF ExpirePendingSessions
  <2>2. PICK order \in SlotOrders(ExpiredSessions) :
           serverEvents' = serverEvents \o
              [i \in DOMAIN order |-> Event("PeerDisconnected", slots[order[i]].id)]
    BY <2>1
  <2>3. [i \in DOMAIN order |-> Event("PeerDisconnected", slots[order[i]].id)] \in Seq(Events)
    BY ExpiryEvents
  <2>4. serverEvents' \in Seq(Events)
    <3> HIDE DEF Events
    <3> QED
      BY <2>2, <2>3 DEF Typed
  <2>5. expired \in SUBSET Clients
    BY DEF ExpiredSessions, Typed
  <2>6. up' \in [Clients -> Seq(Requests)]
        /\ serverPeer' \in [Clients -> {"none", "pending", "connected", "leaving"}]
    <3>1. \A c \in Clients : up[c] \in Seq(Requests) /\ << >> \in Seq(Requests)
      BY ClientTypes
    <3> HIDE DEF Requests, expired
    <3> QED
      BY <2>1, <3>1 DEF Typed
  <2> QED
    BY <1>1, <2>1, <2>4, <2>5, <2>6
<1> QED
  BY <1>2, <1>3

\* What a client's own steps change of the types.
LEMMA ClientStepTyped ==
  ASSUME Typed, NEW c \in Clients,
         \/ Connect(c) \/ PollClientConnect(c) \/ PollClientReceive(c)
         \/ PollClientReceiveOther(c) \/ ExpirePendingSession(c)
         \/ \E code \in DisconnectCodes : PollClientDisconnect(c, code)
  PROVE  Typed'
<1>1. ASSUME UNCHANGED <<serverVars, serverPeer, leaveCode, appVars>>,
             clientPeer' \in [Clients -> {"none", "connecting", "connected", "closed"}],
             clientReady' \in [Clients -> BOOLEAN], clientAge' = clientAge,
             clientEvents' \in [Clients -> Seq(ClientEvents)],
             up' \in [Clients -> Seq(Requests)],
             down' \in [Clients -> Seq(Replies)],
             downOther' \in [Clients -> 0..1]
      PROVE  Typed'
  <2> HIDE DEF Slots, Events, ClientEvents, Requests, Replies
  <2> QED
    BY <1>1 DEF Typed, Connected, serverVars, appVars
<1>2. /\ \A kind \in EventKinds, code \in DisconnectCodes :
            <<ClientEvent(kind, code)>> \in Seq(ClientEvents)
      /\ \A code \in DisconnectCodes :
            <<ClientEvent("TransportErrorEvent", "None"),
              ClientEvent("PeerDisconnected", code)>> \in Seq(ClientEvents)
      /\ "None" \in DisconnectCodes /\ "Timeout" \in DisconnectCodes
  BY DEF ClientEvent, ClientEvents, EventKinds, DisconnectCodes
<1>3. /\ clientPeer \in [Clients -> {"none", "connecting", "connected", "closed"}]
      /\ clientReady \in [Clients -> BOOLEAN]
      /\ clientEvents \in [Clients -> Seq(ClientEvents)]
      /\ up \in [Clients -> Seq(Requests)]
      /\ down \in [Clients -> Seq(Replies)]
      /\ downOther \in [Clients -> 0..1]
  BY DEF Typed
<1>4. {"PeerConnected", "PeerSessionReady", "PeerDisconnected", "ReceivedPacket",
       "TransportErrorEvent"} = EventKinds
  BY DEF EventKinds
<1>5. CASE Connect(c)
  <2>1. /\ clientPeer' = [clientPeer EXCEPT ![c] = "connecting"]
        /\ UNCHANGED <<serverVars, clientReady, clientAge, clientEvents, enetVars, appVars>>
    BY <1>5 DEF Connect
  <2>2. clientPeer' \in [Clients -> {"none", "connecting", "connected", "closed"}]
    BY <1>3, <2>1
  <2> QED
    BY <1>1, <1>3, <2>1, <2>2 DEF enetVars
<1>6. CASE PollClientConnect(c)
  <2>1. /\ clientPeer' = [clientPeer EXCEPT ![c] = "connected"]
        /\ up' = [up EXCEPT ![c] = Append(@, "ClientHello")] \/ up' = up
        /\ Tell(c, <<ClientEvent("PeerConnected", "None")>>)
        /\ UNCHANGED <<serverVars, clientReady, clientAge, serverPeer, leaveCode, down,
                       downOther, appVars>>
    BY <1>6 DEF PollClientConnect
  <2>2. clientPeer' \in [Clients -> {"none", "connecting", "connected", "closed"}]
    BY <1>3, <2>1
  <2>3. up' \in [Clients -> Seq(Requests)]
    <3>1. "ClientHello" \in Requests
      BY DEF Requests
    <3>2. \A m \in Requests : [up EXCEPT ![c] = Append(@, m)] \in [Clients -> Seq(Requests)]
      BY LanesTyped
    <3> QED
      BY <1>3, <2>1, <3>1, <3>2
  <2>4. clientEvents' \in [Clients -> Seq(ClientEvents)]
    BY <1>2, <1>4, <2>1, TellTyped
  <2> QED
    BY <1>1, <1>3, <2>1, <2>2, <2>3, <2>4
<1>7. ASSUME NEW events \in Seq(ClientEvents), Tell(c, events), CloseClient(c),
             UNCHANGED <<serverVars, clientAge, serverPeer, leaveCode, up, appVars>>
      PROVE  Typed'
  <2>1. clientEvents' \in [Clients -> Seq(ClientEvents)]
    BY <1>7, TellTyped
  <2> QED
    BY <1>1, <1>3, <1>7, <2>1, CloseTyped
<1>8. CASE PollClientReceive(c)
  <2> DEFINE message == Head(down[c])
  <2>1. /\ down[c] # << >> /\ HandleSessionReceive(c, message)
        /\ UNCHANGED <<serverVars, clientAge, serverPeer, leaveCode, up, appVars>>
    BY <1>8 DEF PollClientReceive
  <2>2. message \in Replies /\ [down EXCEPT ![c] = Tail(@)] \in [Clients -> Seq(Replies)]
    BY <2>1, LanesTyped
  <2>3. message.code \in DisconnectCodes
    BY <2>2 DEF Replies
  <2> HIDE DEF message
  <2>4. CASE /\ Tell(c, <<ClientEvent("TransportErrorEvent", "None"),
                          ClientEvent("PeerDisconnected", message.code)>>)
             /\ CloseClient(c)
    BY <1>2, <1>7, <2>1, <2>3, <2>4
  <2>5. ASSUME NEW kind \in EventKinds, Tell(c, <<ClientEvent(kind, "None")>>),
               down' = [down EXCEPT ![c] = Tail(@)],
               UNCHANGED <<clientPeer, downOther>>,
               clientReady' = clientReady \/ clientReady' = [clientReady EXCEPT ![c] = TRUE]
        PROVE  Typed'
    <3>1. clientEvents' \in [Clients -> Seq(ClientEvents)]
      BY <1>2, <2>5, TellTyped
    <3>2. clientReady' \in [Clients -> BOOLEAN]
      BY <1>3, <2>5
    <3> QED
      BY <1>1, <1>3, <2>1, <2>2, <2>5, <3>1, <3>2
  <2> QED
    BY <1>4, <2>1, <2>4, <2>5 DEF HandleSessionReceive
<1>9. CASE PollClientReceiveOther(c)
  <2>1. /\ downOther[c] > 0
        /\ downOther' = [downOther EXCEPT ![c] = @ - 1]
        /\ Tell(c, <<ClientEvent(IF clientReady[c] THEN "ReceivedPacket"
                                 ELSE "TransportErrorEvent", "None")>>)
        /\ UNCHANGED <<serverVars, clientPeer, clientReady, clientAge, serverPeer, leaveCode,
                       up, down, appVars>>
    BY <1>9 DEF PollClientReceiveOther
  <2>2. clientEvents' \in [Clients -> Seq(ClientEvents)]
    BY <1>2, <1>4, <2>1, TellTyped
  <2>3. downOther' \in [Clients -> 0..1]
    BY <1>3, <2>1
  <2> QED
    BY <1>1, <1>3, <2>1, <2>2, <2>3
<1>10. CASE ExpirePendingSession(c)
  BY <1>2, <1>4, <1>7, <1>10 DEF ExpirePendingSession
<1>11. ASSUME NEW code \in DisconnectCodes, PollClientDisconnect(c, code)
       PROVE  Typed'
  BY <1>2, <1>4, <1>7, <1>11 DEF PollClientDisconnect
<1> QED
  BY <1>5, <1>6, <1>8, <1>9, <1>10, <1>11

\* What a client's application does.
LEMMA ApplicationStepTyped ==
  ASSUME Typed, NEW c \in Clients, HandleClientEvent(c) \/ ClientStops(c)
  PROVE  Typed'
<1>1. /\ clientPeer \in [Clients -> {"none", "connecting", "connected", "closed"}]
      /\ clientReady \in [Clients -> BOOLEAN]
      /\ clientEvents \in [Clients -> Seq(ClientEvents)]
      /\ up \in [Clients -> Seq(Requests)]
      /\ down \in [Clients -> Seq(Replies)]
      /\ downOther \in [Clients -> 0..1]
      /\ connection \in [Clients -> {"Connecting", "SessionReady", "Disconnected"}]
  BY DEF Typed
<1>2. ASSUME UNCHANGED <<serverVars, clientAge, serverPeer, leaveCode, seen, joined>>,
             clientPeer' \in [Clients -> {"none", "connecting", "connected", "closed"}],
             clientReady' \in [Clients -> BOOLEAN],
             clientEvents' \in [Clients -> Seq(ClientEvents)],
             up' \in [Clients -> Seq(Requests)],
             down' \in [Clients -> Seq(Replies)],
             downOther' \in [Clients -> 0..1],
             connection' \in [Clients -> {"Connecting", "SessionReady", "Disconnected"}]
      PROVE  Typed'
  <2> HIDE DEF Slots, Events, ClientEvents, Requests, Replies
  <2> QED
    BY <1>2 DEF Typed, Connected, serverVars
<1>3. ASSUME NEW cause, EndRun(c, cause),
             UNCHANGED <<serverVars, clientAge, serverPeer, leaveCode, seen, joined>>,
             connection' \in [Clients -> {"Connecting", "SessionReady", "Disconnected"}]
      PROVE  Typed'
  <2>1. CloseClient(c) /\ up' = up /\ clientEvents' = [clientEvents EXCEPT ![c] = << >>]
    BY <1>3 DEF EndRun
  <2>2. clientEvents' \in [Clients -> Seq(ClientEvents)]
    <3>1. << >> \in Seq(ClientEvents)
      OBVIOUS
    <3> HIDE DEF ClientEvents
    <3> QED
      BY <1>1, <2>1, <3>1
  <2> QED
    BY <1>1, <1>2, <1>3, <2>1, <2>2, CloseTyped
<1>4. CASE ClientStops(c)
  BY <1>1, <1>3, <1>4 DEF ClientStops
<1>5. CASE HandleClientEvent(c)
  <2>1. /\ clientEvents[c] # << >>
        /\ UNCHANGED <<serverVars, clientAge, serverPeer, leaveCode, seen, joined>>
    BY <1>5 DEF HandleClientEvent
  <2>2. /\ \/ connection' = connection
           \/ connection' = [connection EXCEPT ![c] = "SessionReady"]
           \/ connection' = [connection EXCEPT ![c] = "Disconnected"]
        /\ \/ \E cause : EndRun(c, cause)
           \/ /\ clientEvents' = [clientEvents EXCEPT ![c] = Tail(@)]
              /\ up' = up \/ up' = [up EXCEPT ![c] = Append(@, "Payload")]
              /\ UNCHANGED <<clientPeer, clientReady, down, downOther>>
    BY <1>5 DEF HandleClientEvent
  <2>3. connection' \in [Clients -> {"Connecting", "SessionReady", "Disconnected"}]
    BY <1>1, <2>2
  <2>4. CASE \E cause : EndRun(c, cause)
    BY <1>3, <2>1, <2>3, <2>4
  <2>5. CASE /\ clientEvents' = [clientEvents EXCEPT ![c] = Tail(@)]
             /\ up' = up \/ up' = [up EXCEPT ![c] = Append(@, "Payload")]
             /\ UNCHANGED <<clientPeer, clientReady, down, downOther>>
    <3>1. "Payload" \in Requests
      BY DEF Requests
    <3>2. \A m \in Requests : [up EXCEPT ![c] = Append(@, m)] \in [Clients -> Seq(Requests)]
      BY LanesTyped
    <3>3. up' \in [Clients -> Seq(Requests)]
      BY <1>1, <2>5, <3>1, <3>2
    <3>4. clientEvents' \in [Clients -> Seq(ClientEvents)]
      <4>1. Tail(clientEvents[c]) \in Seq(ClientEvents)
        <5>1. clientEvents[c] \in Seq(ClientEvents)
          BY <1>1
        <5> HIDE DEF ClientEvents
        <5> QED
          BY <2>1, <5>1
      <4> HIDE DEF ClientEvents
      <4> QED
        BY <1>1, <2>5, <4>1
    <3> QED
      BY <1>1, <1>2, <2>1, <2>3, <2>5, <3>3, <3>4
  <2> QED
    BY <2>2, <2>4, <2>5
<1> QED
  BY <1>4, <1>5

\* What ENet, the server's application and foreign clients do.
LEMMA OtherStepTyped ==
  ASSUME Typed, NEW c \in Clients,
         \/ EnetAnswer(c) \/ EnetForget(c) \/ ServerSend(c)
         \/ \E code \in {"ServerFull", "ProtocolMismatch"} : ServerDisconnect(c, code)
         \/ \E message \in {"ClientHello", "Payload", "Oversized"} : ForeignSend(c, message)
  PROVE  Typed'
<1>1. ASSUME UNCHANGED <<serverVars, clientVars, appVars>>,
             serverPeer' \in [Clients -> {"none", "pending", "connected", "leaving"}],
             leaveCode' \in [Clients -> DisconnectCodes],
             up' \in [Clients -> Seq(Requests)],
             down' \in [Clients -> Seq(Replies)],
             downOther' \in [Clients -> 0..1]
      PROVE  Typed'
  <2> HIDE DEF Slots, Events, ClientEvents, Requests, Replies
  <2> QED
    BY <1>1 DEF Typed, Connected, serverVars, clientVars, appVars
<1>2. /\ serverPeer \in [Clients -> {"none", "pending", "connected", "leaving"}]
      /\ leaveCode \in [Clients -> DisconnectCodes]
      /\ up \in [Clients -> Seq(Requests)]
      /\ down \in [Clients -> Seq(Replies)]
      /\ downOther \in [Clients -> 0..1]
  BY DEF Typed
<1>3. /\ \A m \in Requests : [up EXCEPT ![c] = Append(@, m)] \in [Clients -> Seq(Requests)]
      /\ \A m \in Replies : [down EXCEPT ![c] = Append(@, m)] \in [Clients -> Seq(Replies)]
      /\ [up EXCEPT ![c] = << >>] \in [Clients -> Seq(Requests)]
  BY LanesTyped
<1>4. CASE EnetAnswer(c) \/ EnetForget(c)
  <2>1. /\ UNCHANGED <<serverVars, clientVars, leaveCode, down, downOther, appVars>>
        /\ \/ serverPeer' = [serverPeer EXCEPT ![c] = "pending"]
           \/ serverPeer' = [serverPeer EXCEPT ![c] = "none"]
        /\ up' = up \/ up' = [up EXCEPT ![c] = << >>]
    BY <1>4 DEF EnetAnswer, EnetForget
  <2>2. serverPeer' \in [Clients -> {"none", "pending", "connected", "leaving"}]
    BY <1>2, <2>1
  <2> QED
    BY <1>1, <1>2, <1>3, <2>1, <2>2
<1>5. CASE ServerSend(c)
  <2>1. [kind |-> "Payload", code |-> "None"] \in Replies
    BY DEF Replies, DisconnectCodes
  <2>2. /\ \/ down' = [down EXCEPT ![c] = Append(@, [kind |-> "Payload", code |-> "None"])]
           \/ down' = down
        /\ downOther' = downOther \/ downOther' = [downOther EXCEPT ![c] = 1]
        /\ UNCHANGED <<serverVars, clientVars, serverPeer, leaveCode, up, appVars>>
    BY <1>5 DEF ServerSend
  <2>3. downOther' \in [Clients -> 0..1]
    <3>1. [downOther EXCEPT ![c] = 1] \in [Clients -> 0..1]
      BY <1>2
    <3> QED
      BY <1>2, <2>2, <3>1
  <2>4. down' \in [Clients -> Seq(Replies)]
    BY <1>2, <1>3, <2>1, <2>2
  <2> QED
    BY <1>1, <1>2, <2>2, <2>3, <2>4
<1>6. ASSUME NEW code \in {"ServerFull", "ProtocolMismatch"}, ServerDisconnect(c, code)
      PROVE  Typed'
  <2>1. code \in DisconnectCodes
    BY DEF DisconnectCodes
  <2>2. Disconnect(c, code) /\ UNCHANGED <<serverVars, clientVars, up, down, downOther, appVars>>
    BY <1>6 DEF ServerDisconnect
  <2>3. /\ serverPeer' \in [Clients -> {"none", "pending", "connected", "leaving"}]
        /\ leaveCode' \in [Clients -> DisconnectCodes]
    BY <2>1, <2>2, DisconnectTyped
  <2> QED
    BY <1>1, <1>2, <2>2, <2>3
<1>7. ASSUME NEW message \in {"ClientHello", "Payload", "Oversized"}, ForeignSend(c, message)
      PROVE  Typed'
  <2>1. message \in Requests
    BY DEF Requests
  <2>2. /\ up' = [up EXCEPT ![c] = Append(@, message)]
        /\ UNCHANGED <<serverVars, clientVars, serverPeer, leaveCode, down, downOther, appVars>>
    BY <1>7 DEF ForeignSend
  <2> QED
    BY <1>1, <1>2, <1>3, <2>1, <2>2
<1> QED
  BY <1>4, <1>5, <1>6, <1>7

\* The first pending event.
LEMMA FirstEvent ==
  ASSUME Typed, serverEvents # << >>
  PROVE  /\ Head(serverEvents) = serverEvents[1] /\ 1 \in 1..Len(serverEvents)
         /\ Head(serverEvents) \in Events
         /\ Tail(serverEvents) \in Seq(Events)
         /\ Len(Tail(serverEvents)) = Len(serverEvents) - 1
         /\ Len(serverEvents) \in Nat
         /\ \A i \in 1..Len(Tail(serverEvents)) :
               i + 1 \in 1..Len(serverEvents) /\ Tail(serverEvents)[i] = serverEvents[i + 1]
<1>1. serverEvents \in Seq(Events)
  BY DEF Typed
<1> HIDE DEF Events
<1> QED
  BY <1>1

\* The first pending event of a peer fits what the application was told of it.
LEMMA FirstEventFits ==
  ASSUME Typed, EventsCatchUp, serverEvents # << >>
  PROVE  LET event == Head(serverEvents)
         IN  AfterEvent(seen[event.peer], event.kind) \in Phases
<1> DEFINE event == Head(serverEvents)
<1>1. event = serverEvents[1] /\ event \in Events /\ 1 \in DOMAIN serverEvents
  BY FirstEvent DEF Typed
<1>2. event.peer \in PeerIds
  BY <1>1 DEF Events
<1>3. PICK phases \in [DOMAIN serverEvents -> Phases] : Leads(event.peer, phases)
  BY <1>2 DEF EventsCatchUp
<1>4. phases[1] = AfterEvent(seen[event.peer], event.kind)
  BY <1>1, <1>3 DEF Leads
<1> QED
  BY <1>1, <1>3, <1>4

\* The server's application is told, and time passes.
LEMMA ServerStepTyped ==
  ASSUME Typed, EventsCatchUp, HandleServerEvent \/ Elapse
  PROVE  Typed'
<1>1. CASE HandleServerEvent
  <2> DEFINE event == Head(serverEvents)
             after == AfterEvent(seen[event.peer], event.kind)
  <2>1. /\ serverEvents # << >>
        /\ seen' = [seen EXCEPT ![event.peer] = after]
        /\ joined' = CASE event.kind = "ReceivedPacket" -> joined \cup {event.peer}
                       [] event.kind = "PeerDisconnected" -> joined \ {event.peer}
                       [] OTHER -> joined
        /\ serverEvents' = Tail(serverEvents)
        /\ UNCHANGED <<slots, nextPeerId, clientVars, enetVars, connection, stopCause>>
    BY <1>1 DEF HandleServerEvent
  <2>2. event \in Events /\ serverEvents' \in Seq(Events)
    BY <2>1, FirstEvent
  <2>3. event.peer \in PeerIds
    BY <2>2 DEF Events
  <2>4. after \in Phases
    BY <2>1, FirstEventFits
  <2> HIDE DEF after
  <2>5. seen' \in [PeerIds -> Phases]
    BY <2>1, <2>3, <2>4 DEF Typed
  <2> HIDE DEF event
  <2>6. joined' \subseteq PeerIds
    <3>1. joined' \in {joined \cup {event.peer}, joined \ {event.peer}, joined}
      BY <2>1
    <3> QED
      BY <2>3, <3>1 DEF Typed
  <2> HIDE DEF Slots, Events, ClientEvents, Requests, Replies
  <2> QED
    BY <2>1, <2>2, <2>5, <2>6 DEF Typed, Connected, clientVars, enetVars
<1>2. CASE Elapse
  <2>1. /\ clientAge' = [c \in Clients |->
                            IF Waiting(c) /\ clientAge[c] < HandshakeTimeout
                            THEN clientAge[c] + 1 ELSE clientAge[c]]
        /\ slots' = [c \in Connected |->
                        IF ~slots[c].ready /\ slots[c].age < HandshakeTimeout
                        THEN [slots[c] EXCEPT !.age = @ + 1] ELSE slots[c]]
        /\ UNCHANGED <<nextPeerId, serverEvents, clientPeer, clientReady, clientEvents,
                       enetVars, appVars>>
    BY <1>2 DEF Elapse
  <2>2. clientAge' \in [Clients -> 0..HandshakeTimeout]
    <3>1. \A c \in Clients : clientAge[c] < HandshakeTimeout =>
             clientAge[c] + 1 \in 0..HandshakeTimeout
      BY TransportAssumption DEF Typed
    <3> QED
      BY <2>1, <3>1 DEF Typed
  <2>3. \A c \in Connected : slots'[c] \in Slots
    <3> SUFFICES ASSUME NEW c \in Connected PROVE slots'[c] \in Slots
      OBVIOUS
    <3>1. slots[c] \in Slots
      BY DEF Typed
    <3>2. CASE ~slots[c].ready /\ slots[c].age < HandshakeTimeout
      <4>1. slots'[c] = [slots[c] EXCEPT !.age = @ + 1]
        BY <2>1, <3>2
      <4>2. slots[c].age + 1 \in 0..HandshakeTimeout
        BY <3>1, <3>2, TransportAssumption DEF Slots
      <4> QED
        BY <3>1, <4>1, <4>2 DEF Slots
    <3>3. CASE ~(~slots[c].ready /\ slots[c].age < HandshakeTimeout)
      BY <2>1, <3>1, <3>3
    <3> QED
      BY <3>2, <3>3
  <2>4. DOMAIN slots' = Connected
    BY <2>1
  <2> HIDE DEF Slots, Events, ClientEvents, Requests, Replies
  <2> QED
    BY <2>1, <2>2, <2>3, <2>4 DEF Typed, Connected, enetVars, appVars
<1> QED
  BY <1>1, <1>2

\* Every step keeps the types.
LEMMA TypedStep == Inv /\ Next => Typed'
<1> SUFFICES ASSUME Inv, Next PROVE Typed'
  OBVIOUS
<1>1. Typed /\ Numbered /\ EventsCatchUp
  BY DEF Inv
<1>2. ASSUME NEW c \in Clients, ServerStep(c)
      PROVE  Typed'
  BY <1>1, <1>2, PollConnectTyped, PollReceiveTyped, RemovalTyped DEF ServerStep
<1>3. ASSUME NEW c \in Clients, ClientStep(c)
      PROVE  Typed'
  BY <1>1, <1>3, ClientStepTyped, ApplicationStepTyped DEF ClientStep
<1>4. ASSUME NEW c \in Clients,
             \/ EnetAnswer(c) \/ EnetForget(c) \/ ServerSend(c)
             \/ \E code \in {"ServerFull", "ProtocolMismatch"} : ServerDisconnect(c, code)
             \/ \E message \in {"ClientHello", "Payload", "Oversized"} : ForeignSend(c, message)
      PROVE  Typed'
  BY <1>1, <1>4, OtherStepTyped
<1>5. CASE ExpirePendingSessions
  BY <1>1, <1>5, RemovalTyped
<1>6. CASE HandleServerEvent \/ Elapse
  BY <1>1, <1>6, ServerStepTyped
<1> QED
  BY <1>2, <1>3, <1>4, <1>5, <1>6 DEF Next

-----------------------------------------------------------------------------
(* Identifiers and ENet's peers. *)

\* A step that announces nobody and takes no peer of ENet's keeps the numbering.
LEMMA NumberingKept ==
  ASSUME Numbered, Typed, nextPeerId' = nextPeerId,
         Unannounced' \subseteq Unannounced, Occupying' \subseteq Occupying,
         Connected' \subseteq Connected,
         \A c \in Connected' : slots'[c].id = slots[c].id,
         \A i \in 1..Len(serverEvents') : serverEvents'[i].peer < nextPeerId,
         \A p \in joined' : p < nextPeerId
  PROVE  Numbered'
<1>1. Unannounced \in SUBSET Clients /\ Occupying \in SUBSET Clients
  BY DEF Unannounced, Occupying
<1>2. /\ IsFiniteSet(Unannounced) /\ IsFiniteSet(Occupying)
      /\ Cardinality(Unannounced) \in Nat /\ Cardinality(Occupying) \in Nat
      /\ Cardinality(Unannounced') \in Nat /\ Cardinality(Occupying') \in Nat
      /\ Cardinality(Clients) \in Nat
  BY <1>1, ClientsCounted
<1>3. Cardinality(Unannounced') <= Cardinality(Unannounced)
      /\ Cardinality(Occupying') <= Cardinality(Occupying)
  BY <1>2, FS_Subset
<1>4. nextPeerId + Cardinality(Unannounced') <= Cardinality(Clients) + 1
      /\ Cardinality(Occupying') <= MaxPeers
  BY <1>2, <1>3, TransportAssumption DEF Numbered, Typed
<1>5. \A c, d \in Connected' : slots'[c].id = slots'[d].id => c = d
  BY DEF Numbered
<1>6. \A c \in Connected' : slots'[c].id < nextPeerId
  BY DEF Numbered
<1> QED
  BY <1>4, <1>5, <1>6 DEF Numbered

\* Most steps touch neither slots, events nor what is served.
LEMMA NumberingUntouched ==
  ASSUME Numbered, Typed, UNCHANGED <<slots, nextPeerId, serverEvents, joined>>,
         Unannounced' \subseteq Unannounced, Occupying' \subseteq Occupying
  PROVE  Numbered'
<1>1. Connected' = Connected
  BY DEF Connected
<1> QED
  BY <1>1, NumberingKept DEF Numbered

\* A step that moves one client's side, and not back before it connected.
LEMMA ClientMoves ==
  ASSUME Typed, NEW c \in Clients, NEW phase \in {"connecting", "connected", "closed"},
         clientPeer' = [clientPeer EXCEPT ![c] = phase],
         phase = "connecting" => clientPeer[c] = "none",
         serverPeer' = serverPeer
  PROVE  Unannounced' \subseteq Unannounced /\ Occupying' = Occupying
<1>1. \A d \in Clients : clientPeer'[d] = IF d = c THEN phase ELSE clientPeer[d]
  BY DEF Typed
<1> QED
  BY <1>1 DEF Unannounced, Occupying

\* A peer of ENet's that leaves, or is asked to.
LEMMA PeerLeaves ==
  ASSUME Typed, NEW gone \in SUBSET Clients, NEW phase \in {"none", "leaving"},
         \A d \in Clients : serverPeer'[d] = IF d \in gone THEN phase ELSE serverPeer[d],
         phase = "leaving" => \A d \in gone : serverPeer[d] # "none",
         clientPeer' = clientPeer
  PROVE  Unannounced' \subseteq Unannounced /\ Occupying' \subseteq Occupying
BY DEF Unannounced, Occupying

\* An event of a peer that has a slot.
LEMMA EventNumbered ==
  ASSUME Typed, Numbered, NEW c \in Connected, NEW kind,
         serverEvents' = Append(serverEvents, Event(kind, slots[c].id))
  PROVE  \A i \in 1..Len(serverEvents') : serverEvents'[i].peer < nextPeerId
<1>1. serverEvents \in Seq(Events)
  BY DEF Typed
<1> DEFINE event == Event(kind, slots[c].id)
<1>2. event.peer = slots[c].id
  BY DEF Event
<1>3. serverEvents' = Append(serverEvents, event)
  OBVIOUS
<1> HIDE DEF event, Events
<1>4. \A i \in 1..Len(serverEvents') :
         \/ i \in 1..Len(serverEvents) /\ serverEvents'[i] = serverEvents[i]
         \/ serverEvents'[i] = event
  BY <1>1, <1>3
<1> QED
  BY <1>2, <1>4 DEF Numbered

\* What reading a message does.
LEMMA ReceiveEffects ==
  ASSUME Typed, NEW c \in Clients, PollReceive(c)
  PROVE  /\ c \in Connected /\ up[c] # << >> /\ Connected' = Connected
         /\ up' = [up EXCEPT ![c] = Tail(@)]
         /\ UNCHANGED <<nextPeerId, clientVars, downOther, appVars>>
         /\ \A d \in Connected : slots'[d].id = slots[d].id
         /\ \A d \in Connected \ {c} : slots'[d] = slots[d]
         /\ \/ /\ slots' = slots /\ serverPeer' = [serverPeer EXCEPT ![c] = "leaving"]
               /\ serverEvents' = Append(serverEvents, Event("TransportErrorEvent", slots[c].id))
               /\ \/ down' = down
                  \/ \E code \in DisconnectCodes : down' =
                        [down EXCEPT ![c] = Append(@, [kind |-> "ServerReject", code |-> code])]
            \/ /\ ~slots[c].ready /\ slots'[c].ready
               /\ Identity[c] = ExpectedIdentity /\ Head(up[c]) = "ClientHello"
               /\ down' = [down EXCEPT ![c] = Append(@, [kind |-> "ServerAccept", code |-> "None"])]
               /\ serverEvents' = Append(serverEvents, Event("PeerSessionReady", slots[c].id))
               /\ serverPeer' = serverPeer
            \/ /\ slots[c].ready /\ Head(up[c]) # "Oversized"
               /\ serverEvents' = Append(serverEvents, Event("ReceivedPacket", slots[c].id))
               /\ UNCHANGED <<slots, down, serverPeer>>
<1> DEFINE message == Head(up[c])
           mismatch == IdentityMismatch(Identity[c], ExpectedIdentity)
<1>1. /\ c \in Connected /\ up[c] # << >> /\ HandleReceive(c, message)
      /\ up' = [up EXCEPT ![c] = Tail(@)]
      /\ UNCHANGED <<nextPeerId, clientVars, downOther, appVars>>
  BY DEF PollReceive
<1>2. mismatch \in DisconnectCodes /\ (mismatch = "None" => Identity[c] = ExpectedIdentity)
  <2>1. Identity[c] \in Identities /\ ExpectedIdentity \in Identities
    BY TransportAssumption
  <2> QED
    BY <2>1 DEF IdentityMismatch, Identities, DisconnectCodes
<1>3. ASSUME NEW code, RefuseMessage(c, code)
      PROVE  /\ slots' = slots /\ serverPeer' = [serverPeer EXCEPT ![c] = "leaving"]
             /\ serverEvents' = Append(serverEvents, Event("TransportErrorEvent", slots[c].id))
             /\ Connected' = Connected
  BY <1>3 DEF RefuseMessage, Disconnect, Connected
<1>4. ASSUME slots' = [slots EXCEPT ![c].ready = TRUE]
      PROVE  /\ Connected' = Connected /\ slots'[c].ready
             /\ \A d \in Connected : slots'[d].id = slots[d].id
             /\ \A d \in Connected \ {c} : slots'[d] = slots[d]
  <2>1. Connected' = Connected /\ \A d \in Connected \ {c} : slots'[d] = slots[d]
    BY <1>4 DEF Connected
  <2>2. slots'[c] = [slots[c] EXCEPT !.ready = TRUE] /\ slots[c] \in Slots
    BY <1>1, <1>4 DEF Connected, Typed
  <2> QED
    BY <2>1, <2>2 DEF Slots
<1> HIDE DEF mismatch
<1>5. CASE \E code : RefuseMessage(c, code) /\ down' = down
  BY <1>1, <1>3, <1>5
<1>6. CASE ~slots[c].ready /\ message = "ClientHello" /\ HandleClientHello(c)
  <2>1. CASE \/ /\ RefuseMessage(c, mismatch)
                /\ \/ down' = down
                   \/ down' = [down EXCEPT ![c] =
                                  Append(@, [kind |-> "ServerReject", code |-> mismatch])]
             \/ RefuseMessage(c, "TransportError") /\ down' = down
    BY <1>1, <1>2, <1>3, <2>1
  <2>2. CASE /\ mismatch = "None"
             /\ down' = [down EXCEPT ![c] = Append(@, [kind |-> "ServerAccept", code |-> "None"])]
             /\ slots' = [slots EXCEPT ![c].ready = TRUE]
             /\ serverEvents' = Append(serverEvents, Event("PeerSessionReady", slots[c].id))
             /\ UNCHANGED <<serverPeer, leaveCode>>
    BY <1>1, <1>2, <1>4, <1>6, <2>2
  <2> QED
    BY <1>6, <2>1, <2>2 DEF HandleClientHello, mismatch
<1>7. CASE /\ slots[c].ready /\ message # "Oversized"
           /\ serverEvents' = Append(serverEvents, Event("ReceivedPacket", slots[c].id))
           /\ UNCHANGED <<slots, down, serverPeer, leaveCode>>
  BY <1>1, <1>7 DEF Connected
<1> QED
  BY <1>1, <1>5, <1>6, <1>7 DEF HandleReceive

\* The peers in gone are gone, and the application will be told of each once.
Removes(gone) ==
    /\ Connected' = Connected \ gone
    /\ \A d \in Connected \ gone : slots'[d] = slots[d]
    /\ \A d \in Clients : serverPeer'[d] = IF d \in gone THEN "none" ELSE serverPeer[d]
    /\ \A d \in Clients : up'[d] = IF d \in gone THEN << >> ELSE up[d]
    /\ UNCHANGED <<nextPeerId, clientVars, leaveCode, down, downOther, appVars>>
    /\ Len(serverEvents') \in Nat /\ Len(serverEvents) <= Len(serverEvents')
    /\ \A i \in 1..Len(serverEvents) : serverEvents'[i] = serverEvents[i]
    /\ \A i \in Len(serverEvents) + 1..Len(serverEvents') : \E d \in gone :
          serverEvents'[i].kind = "PeerDisconnected" /\ serverEvents'[i].peer = slots[d].id
    /\ \A d \in gone : \E i \in Len(serverEvents) + 1..Len(serverEvents') :
          serverEvents'[i].peer = slots[d].id
    /\ \A i, j \in Len(serverEvents) + 1..Len(serverEvents') :
          serverEvents'[i].peer = serverEvents'[j].peer => i = j

\* What the end of peers does, of one or of all whose handshake expired.
LEMMA RemovalEffects ==
  ASSUME Typed, \/ \E c \in Clients : PollDisconnect(c)
                \/ ExpirePendingSessions
  PROVE  \E gone \in SUBSET Connected : Removes(gone)
<1>0. serverEvents \in Seq(Events) /\ Len(serverEvents) \in Nat
  BY DEF Typed
<1>1. ASSUME NEW c \in Clients, PollDisconnect(c)
      PROVE  \E gone \in SUBSET Connected : Removes(gone)
  <2> DEFINE event == Event("PeerDisconnected", slots[c].id)
  <2>1. /\ c \in Connected /\ slots' = WithoutSlots({c})
        /\ serverEvents' = Append(serverEvents, event)
        /\ serverPeer' = [serverPeer EXCEPT ![c] = "none"]
        /\ up' = [up EXCEPT ![c] = << >>]
        /\ UNCHANGED <<nextPeerId, clientVars, leaveCode, down, downOther, appVars>>
    BY <1>1 DEF PollDisconnect
  <2>2. Connected' = Connected \ {c} /\ \A d \in Connected \ {c} : slots'[d] = slots[d]
    BY <2>1, WithoutSlotsFacts DEF Connected
  <2>3. /\ \A d \in Clients : serverPeer'[d] = IF d \in {c} THEN "none" ELSE serverPeer[d]
        /\ \A d \in Clients : up'[d] = IF d \in {c} THEN << >> ELSE up[d]
    BY <2>1 DEF Typed
  <2>4. event.kind = "PeerDisconnected" /\ event.peer = slots[c].id
    BY DEF Event
  <2> HIDE DEF event
  <2>5. /\ Len(serverEvents') = Len(serverEvents) + 1
        /\ serverEvents'[Len(serverEvents) + 1] = event
        /\ \A i \in 1..Len(serverEvents) : serverEvents'[i] = serverEvents[i]
    <3> HIDE DEF Events
    <3> QED
      BY <1>0, <2>1
  <2>6. Len(serverEvents) + 1..Len(serverEvents') = {Len(serverEvents) + 1}
        /\ Len(serverEvents') \in Nat /\ Len(serverEvents) <= Len(serverEvents')
    BY <1>0, <2>5
  <2>7. {c} \in SUBSET Connected
    BY <2>1
  <2>8. \A i \in Len(serverEvents) + 1..Len(serverEvents') : i = Len(serverEvents) + 1
    BY <2>6
  <2>9. Len(serverEvents) + 1 \in Len(serverEvents) + 1..Len(serverEvents')
    BY <2>6
  <2>10. Removes({c})
    BY <2>1, <2>2, <2>3, <2>4, <2>5, <2>6, <2>8, <2>9 DEF Removes
  <2> QED
    BY <2>7, <2>10
<1>2. ASSUME ExpirePendingSessions
      PROVE  \E gone \in SUBSET Connected : Removes(gone)
  <2> DEFINE gone == ExpiredSessions
  <2>1. /\ slots' = WithoutSlots(gone)
        /\ serverPeer' = [c \in Clients |-> IF c \in gone THEN "none" ELSE serverPeer[c]]
        /\ up' = [c \in Clients |-> IF c \in gone THEN << >> ELSE up[c]]
        /\ UNCHANGED <<nextPeerId, clientVars, leaveCode, down, downOther, appVars>>
    BY <1>2 DEF ExpirePendingSessions
  <2>2. PICK order \in SlotOrders(ExpiredSessions) :
           serverEvents' = serverEvents \o
              [i \in DOMAIN order |-> Event("PeerDisconnected", slots[order[i]].id)]
    BY <1>2 DEF ExpirePendingSessions
  <2> DEFINE told == [i \in DOMAIN order |-> Event("PeerDisconnected", slots[order[i]].id)]
             n == Len(serverEvents)
             m == Len(told)
  <2>3. /\ told \in Seq(Events)
        /\ \A i \in 1..m : order[i] \in gone
        /\ \A c \in gone : \E i \in 1..m : order[i] = c
        /\ \A i, j \in 1..m : i < j => slots[order[i]].id < slots[order[j]].id
        /\ \A i \in 1..m : told[i].kind = "PeerDisconnected" /\ told[i].peer = slots[order[i]].id
    BY ExpiryEvents
  <2>4. gone \in SUBSET Connected /\ Connected \subseteq Clients
    BY DEF ExpiredSessions, Typed
  <2>5. Connected' = Connected \ gone /\ \A d \in Connected \ gone : slots'[d] = slots[d]
    BY <2>1, WithoutSlotsFacts DEF Connected
  <2>6. \A c \in Connected : slots[c].id \in Nat
    BY <2>4, ClientTypes, ClientsCounted
  <2> HIDE DEF told, gone, Events
  <2>7. serverEvents' = serverEvents \o told
    BY <2>2 DEF told
  <2>8. /\ m \in Nat /\ Len(serverEvents') = n + m
        /\ \A i \in 1..n : serverEvents'[i] = serverEvents[i]
        /\ \A i \in 1..m : serverEvents'[n + i] = told[i]
    BY <1>0, <2>3, <2>7
  <2> HIDE DEF m, n
  <2>9. n \in Nat /\ \A i \in n + 1..n + m : i - n \in 1..m /\ i = n + (i - n)
    BY <1>0, <2>8 DEF n
  <2>10. \A i \in 1..m : n + i \in n + 1..n + m
    BY <2>8, <2>9
  <2>11. \A i \in n + 1..n + m : \E d \in gone :
            serverEvents'[i].kind = "PeerDisconnected" /\ serverEvents'[i].peer = slots[d].id
    <3> TAKE i \in n + 1..n + m
    <3>1. i - n \in 1..m /\ serverEvents'[i] = told[i - n]
      BY <2>8, <2>9
    <3> QED
      BY <2>3, <3>1
  <2>12. \A d \in gone : \E i \in n + 1..n + m : serverEvents'[i].peer = slots[d].id
    <3> TAKE d \in gone
    <3>1. PICK i \in 1..m : order[i] = d
      BY <2>3
    <3>2. serverEvents'[n + i].peer = slots[d].id
      BY <2>3, <2>8, <3>1
    <3> QED
      BY <2>10, <3>2
  <2>13. \A i, j \in n + 1..n + m : serverEvents'[i].peer = serverEvents'[j].peer => i = j
    <3> TAKE i, j \in n + 1..n + m
    <3> HAVE serverEvents'[i].peer = serverEvents'[j].peer
    <3>1. i - n \in 1..m /\ serverEvents'[i] = told[i - n]
          /\ j - n \in 1..m /\ serverEvents'[j] = told[j - n]
      BY <2>8, <2>9
    <3>2. slots[order[i - n]].id = slots[order[j - n]].id
      BY <2>3, <3>1
    <3>3. slots[order[i - n]].id \in Nat
      BY <2>3, <2>4, <2>6, <3>1
    <3>4. ~(i - n < j - n) /\ ~(j - n < i - n)
      <4> DEFINE a == i - n
                 b == j - n
                 x == slots[order[a]].id
                 y == slots[order[b]].id
      <4>1. a \in 1..m /\ b \in 1..m /\ x = y /\ x \in Nat
        BY <3>1, <3>2, <3>3
      <4>2. (a < b => x < y) /\ (b < a => y < x)
        BY <2>3, <4>1
      <4> HIDE DEF x, y
      <4>3. ~(x < y) /\ ~(y < x)
        BY <4>1
      <4> QED
        BY <4>2, <4>3
    <3> QED
      BY <2>8, <2>9, <3>1, <3>4
  <2>14. /\ \A d \in Clients : serverPeer'[d] = IF d \in gone THEN "none" ELSE serverPeer[d]
         /\ \A d \in Clients : up'[d] = IF d \in gone THEN << >> ELSE up[d]
    BY <2>1
  <2>15. n + m \in Nat /\ n <= n + m
    BY <2>8, <2>9
  <2>16. n = Len(serverEvents) /\ Len(serverEvents') = n + m
    BY <2>8 DEF n
  <2>17. Removes(gone)
    BY <2>1, <2>5, <2>8, <2>11, <2>12, <2>13, <2>14, <2>15, <2>16 DEF Removes
  <2> QED
    BY <2>4, <2>17
<1> QED
  BY <1>1, <1>2

\* The announcement of a client takes the next identifier, which no slot, event or served
\* peer has yet.
LEMMA PollConnectNumbered ==
  ASSUME Inv, NEW c \in Clients, PollConnect(c)
  PROVE  Numbered'
<1>1. Typed /\ Numbered /\ Follows(c)
  BY DEF Inv, ClientKept
<1>2. /\ serverPeer[c] = "pending" /\ clientPeer[c] # "connecting"
      /\ serverPeer' = [serverPeer EXCEPT ![c] = "connected"]
      /\ slots' = [d \in Connected \cup {c} |->
                     IF d = c THEN [id |-> nextPeerId, ready |-> FALSE, age |-> 0] ELSE slots[d]]
      /\ nextPeerId' = (nextPeerId + 1) % PeerIdModulus
      /\ serverEvents' = Append(serverEvents, Event("PeerConnected", nextPeerId))
      /\ clientPeer' = clientPeer /\ joined' = joined
  BY DEF PollConnect, clientVars, appVars
<1>3. c \in Unannounced
  BY <1>2 DEF Unannounced
<1>4. \A d \in Clients : serverPeer'[d] = IF d = c THEN "connected" ELSE serverPeer[d]
  BY <1>1, <1>2 DEF Typed
<1>5. Unannounced' \subseteq Unannounced \ {c}
  BY <1>1, <1>2, <1>4, ClientTypes DEF Unannounced, Follows
<1>6. Occupying' = Occupying
  BY <1>2, <1>4 DEF Occupying
<1>7. nextPeerId' = nextPeerId + 1
  BY <1>1, <1>2, <1>3, NextIdentifier
<1>8. nextPeerId' + Cardinality(Unannounced') <= Cardinality(Clients) + 1
  BY <1>1, <1>3, <1>5, <1>7, NextIdentifier
<1>9. c \notin Connected /\ nextPeerId \in Nat
  BY <1>1, <1>2 DEF Follows, Typed
<1>10. Connected' = Connected \cup {c} /\ slots'[c].id = nextPeerId
       /\ \A d \in Connected : slots'[d] = slots[d]
  BY <1>2, <1>9 DEF Connected
<1>11. \A d \in Connected : slots[d].id \in Nat /\ slots[d].id < nextPeerId
  BY <1>1, SlotIdsTyped DEF Numbered
<1>12. \A d \in Connected' : slots'[d].id < nextPeerId'
  BY <1>7, <1>9, <1>10, <1>11
<1>13. \A d, e \in Connected' : slots'[d].id = slots'[e].id => d = e
  <2> TAKE d, e \in Connected'
  <2> HAVE slots'[d].id = slots'[e].id
  <2>1. CASE d # c /\ e # c
    BY <1>1, <1>10, <2>1 DEF Numbered
  <2>2. CASE d = c /\ e # c
    BY <1>9, <1>10, <1>11, <2>2
  <2>3. CASE d # c /\ e = c
    BY <1>9, <1>10, <1>11, <2>3
  <2> QED
    BY <2>1, <2>2, <2>3
<1>14. \A i \in 1..Len(serverEvents') : serverEvents'[i].peer < nextPeerId'
  <2> DEFINE event == Event("PeerConnected", nextPeerId)
  <2>1. event.peer = nextPeerId
    BY DEF Event
  <2>2. serverEvents' = Append(serverEvents, event) /\ serverEvents \in Seq(Events)
    BY <1>1, <1>2 DEF Typed
  <2> HIDE DEF event, Events
  <2>3. \A i \in 1..Len(serverEvents') :
           \/ i \in 1..Len(serverEvents) /\ serverEvents'[i] = serverEvents[i]
           \/ serverEvents'[i] = event
    BY <2>2
  <2>4. \A i \in 1..Len(serverEvents) :
           serverEvents[i].peer \in Nat /\ serverEvents[i].peer < nextPeerId
    <3>1. \A i \in 1..Len(serverEvents) : serverEvents[i] \in Events
      BY <2>2
    <3> QED
      BY <1>1, <3>1, ClientsCounted DEF Numbered, Events
  <2> QED
    BY <1>7, <1>9, <2>1, <2>3, <2>4
<1>15. \A p \in joined' : p < nextPeerId'
  BY <1>1, <1>2, <1>7, ClientsCounted DEF Numbered, Typed
<1>16. Cardinality(Occupying') <= MaxPeers
  BY <1>1, <1>6 DEF Numbered
<1> QED
  BY <1>8, <1>12, <1>13, <1>14, <1>15, <1>16 DEF Numbered

\* ENet answers a request only while it has a peer left.
LEMMA AnswerNumbered ==
  ASSUME Inv, NEW c \in Clients, EnetAnswer(c)
  PROVE  Numbered'
<1>1. Typed /\ Numbered
  BY DEF Inv
<1>2. /\ clientPeer[c] = "connecting" /\ serverPeer[c] = "none"
      /\ Cardinality(Occupying) < MaxPeers
      /\ serverPeer' = [serverPeer EXCEPT ![c] = "pending"]
      /\ UNCHANGED <<slots, nextPeerId, serverEvents, clientPeer, joined>>
  BY DEF EnetAnswer, Occupying, serverVars, clientVars, appVars
<1>3. \A d \in Clients : serverPeer'[d] = IF d = c THEN "pending" ELSE serverPeer[d]
  BY <1>1, <1>2 DEF Typed
<1>4. Unannounced' = Unannounced
  BY <1>2, <1>3 DEF Unannounced
<1>5. Occupying' = Occupying \cup {c} /\ c \notin Occupying
  BY <1>2, <1>3 DEF Occupying
<1>6. IsFiniteSet(Occupying) /\ Cardinality(Occupying) \in Nat
  BY ClientsCounted DEF Occupying
<1>7. Cardinality(Occupying') = Cardinality(Occupying) + 1
  BY <1>5, <1>6, FS_AddElement
<1>8. Cardinality(Occupying') <= MaxPeers
  BY <1>2, <1>6, <1>7, TransportAssumption
<1>9. Connected' = Connected
  BY <1>2 DEF Connected
<1> QED
  BY <1>1, <1>2, <1>4, <1>8, <1>9 DEF Numbered

\* What the server and ENet do to connections that exist.
LEMMA ConnectionNumbered ==
  ASSUME Inv, \/ \E c \in Clients : PollReceive(c) \/ PollDisconnect(c) \/ EnetForget(c)
                                    \/ ServerSend(c)
              \/ \E c \in Clients, code \in {"ServerFull", "ProtocolMismatch"} :
                    ServerDisconnect(c, code)
              \/ ExpirePendingSessions
  PROVE  Numbered'
<1>1. Typed /\ Numbered /\ \A c \in Clients : Follows(c)
  BY DEF Inv, ClientKept
<1>2. ASSUME NEW c \in Clients, PollReceive(c)
      PROVE  Numbered'
  <2>1. /\ c \in Connected /\ Connected' = Connected
        /\ UNCHANGED <<nextPeerId, clientPeer, joined>>
        /\ \A d \in Connected : slots'[d].id = slots[d].id
        /\ serverPeer' = serverPeer \/ serverPeer' = [serverPeer EXCEPT ![c] = "leaving"]
        /\ \E kind : serverEvents' = Append(serverEvents, Event(kind, slots[c].id))
    BY <1>1, <1>2, ReceiveEffects DEF clientVars, appVars
  <2>2. Unannounced' \subseteq Unannounced /\ Occupying' \subseteq Occupying
    <3>1. CASE serverPeer' = serverPeer
      BY <2>1, <3>1 DEF Unannounced, Occupying
    <3>2. CASE serverPeer' = [serverPeer EXCEPT ![c] = "leaving"]
      <4>1. \A d \in Clients : serverPeer'[d] = IF d \in {c} THEN "leaving" ELSE serverPeer[d]
        BY <1>1, <3>2 DEF Typed
      <4>2. serverPeer[c] # "none"
        BY <1>1, <2>1 DEF Follows
      <4> QED
        BY <1>1, <2>1, <4>1, <4>2, PeerLeaves
    <3> QED
      BY <2>1, <3>1, <3>2
  <2>3. \A i \in 1..Len(serverEvents') : serverEvents'[i].peer < nextPeerId
    BY <1>1, <2>1, EventNumbered
  <2>4. \A p \in joined' : p < nextPeerId
    BY <1>1, <2>1 DEF Numbered
  <2>5. \A d \in Connected' : slots'[d].id = slots[d].id
    BY <2>1
  <2> QED
    BY <1>1, <2>1, <2>2, <2>3, <2>4, <2>5, NumberingKept
<1>3. ASSUME \/ \E c \in Clients : PollDisconnect(c)
             \/ ExpirePendingSessions
      PROVE  Numbered'
  <2>1. PICK gone \in SUBSET Connected : Removes(gone)
    BY <1>1, <1>3, RemovalEffects
  <2>2. gone \in SUBSET Clients
    BY <1>1 DEF Typed
  <2>3. /\ Connected' = Connected \ gone
        /\ \A d \in Connected \ gone : slots'[d] = slots[d]
        /\ \A d \in Clients : serverPeer'[d] = IF d \in gone THEN "none" ELSE serverPeer[d]
        /\ UNCHANGED <<nextPeerId, clientPeer, joined>>
    BY <2>1 DEF Removes, clientVars, appVars
  <2>4. Unannounced' \subseteq Unannounced /\ Occupying' \subseteq Occupying
    BY <1>1, <2>2, <2>3, PeerLeaves
  <2>5. \A i \in 1..Len(serverEvents') : serverEvents'[i].peer < nextPeerId
    <3> TAKE i \in 1..Len(serverEvents')
    <3>1. Len(serverEvents') \in Nat /\ Len(serverEvents) \in Nat
      BY <1>1, <2>1 DEF Removes, Typed
    <3>2. i \in 1..Len(serverEvents) \/ i \in Len(serverEvents) + 1..Len(serverEvents')
      BY <3>1
    <3> QED
      BY <1>1, <2>1, <3>2 DEF Removes, Numbered
  <2>6. \A p \in joined' : p < nextPeerId
    BY <1>1, <2>3 DEF Numbered
  <2> QED
    BY <1>1, <2>3, <2>4, <2>5, <2>6, NumberingKept
<1>4. ASSUME NEW c \in Clients, EnetForget(c)
      PROVE  Numbered'
  <2>1. /\ serverPeer' = [serverPeer EXCEPT ![c] = "none"]
        /\ UNCHANGED <<slots, nextPeerId, serverEvents, clientPeer, joined>>
    BY <1>4 DEF EnetForget, serverVars, clientVars, appVars
  <2>2. \A d \in Clients : serverPeer'[d] = IF d \in {c} THEN "none" ELSE serverPeer[d]
    BY <1>1, <2>1 DEF Typed
  <2>3. Unannounced' \subseteq Unannounced /\ Occupying' \subseteq Occupying
    BY <1>1, <2>1, <2>2, PeerLeaves
  <2> QED
    BY <1>1, <2>1, <2>3, NumberingUntouched
<1>5. ASSUME NEW c \in Clients, ServerSend(c)
      PROVE  Numbered'
  <2>1. UNCHANGED <<slots, nextPeerId, serverEvents, clientPeer, serverPeer, joined>>
    BY <1>5 DEF ServerSend, serverVars, clientVars, appVars
  <2>2. Unannounced' = Unannounced /\ Occupying' = Occupying
    BY <2>1 DEF Unannounced, Occupying
  <2> QED
    BY <1>1, <2>1, <2>2, NumberingUntouched
<1>6. ASSUME NEW c \in Clients, NEW code \in {"ServerFull", "ProtocolMismatch"},
             ServerDisconnect(c, code)
      PROVE  Numbered'
  <2>1. /\ c \in Connected /\ serverPeer' = [serverPeer EXCEPT ![c] = "leaving"]
        /\ UNCHANGED <<slots, nextPeerId, serverEvents, clientPeer, joined>>
    BY <1>6 DEF ServerDisconnect, Disconnect, serverVars, clientVars, appVars
  <2>2. \A d \in Clients : serverPeer'[d] = IF d \in {c} THEN "leaving" ELSE serverPeer[d]
    BY <1>1, <2>1 DEF Typed
  <2>3. serverPeer[c] # "none"
    BY <1>1, <2>1 DEF Follows
  <2>4. Unannounced' \subseteq Unannounced /\ Occupying' \subseteq Occupying
    BY <1>1, <2>1, <2>2, <2>3, PeerLeaves
  <2> QED
    BY <1>1, <2>1, <2>4, NumberingUntouched
<1> QED
  BY <1>2, <1>3, <1>4, <1>5, <1>6

\* What clients do touches no slot, and leaves nobody more to announce.
LEMMA ClientNumbered ==
  ASSUME Inv, NEW c \in Clients,
         ClientStep(c) \/ (\E message \in {"ClientHello", "Payload", "Oversized"} : ForeignSend(c, message))
  PROVE  Numbered'
<1>1. Typed /\ Numbered
  BY DEF Inv
<1>2. UNCHANGED <<slots, nextPeerId, serverEvents, serverPeer, joined>>
  BY DEF ClientStep, Connect, PollClientConnect, PollClientReceive, PollClientReceiveOther,
         PollClientDisconnect, ExpirePendingSession, HandleClientEvent, ClientStops,
         ForeignSend, serverVars, clientVars, enetVars, appVars
<1>3. \/ clientPeer' = clientPeer
      \/ /\ clientPeer[c] = "none"
         /\ clientPeer' = [clientPeer EXCEPT ![c] = "connecting"]
      \/ clientPeer' = [clientPeer EXCEPT ![c] = "connected"]
      \/ clientPeer' = [clientPeer EXCEPT ![c] = "closed"]
  BY DEF ClientStep, Connect, PollClientConnect, PollClientReceive, PollClientReceiveOther,
         HandleSessionReceive, PollClientDisconnect, ExpirePendingSession, HandleClientEvent,
         ClientStops, EndRun, CloseClient, ForeignSend, clientVars
<1>4. Unannounced' \subseteq Unannounced /\ Occupying' = Occupying
  <2>1. CASE clientPeer' = clientPeer
    BY <1>2, <2>1 DEF Unannounced, Occupying
  <2>2. CASE clientPeer[c] = "none" /\ clientPeer' = [clientPeer EXCEPT ![c] = "connecting"]
    BY <1>1, <1>2, <2>2, ClientMoves
  <2>3. CASE \/ clientPeer' = [clientPeer EXCEPT ![c] = "connected"]
             \/ clientPeer' = [clientPeer EXCEPT ![c] = "closed"]
    BY <1>1, <1>2, <2>3, ClientMoves
  <2> QED
    BY <1>3, <2>1, <2>2, <2>3
<1> QED
  BY <1>1, <1>2, <1>4, NumberingUntouched

\* The server's application is told, and time passes.
LEMMA ServerStepNumbered ==
  ASSUME Inv, HandleServerEvent \/ Elapse
  PROVE  Numbered'
<1>1. Typed /\ Numbered
  BY DEF Inv
<1>2. CASE HandleServerEvent
  <2> DEFINE event == Head(serverEvents)
  <2>1. /\ serverEvents # << >>
        /\ joined' = CASE event.kind = "ReceivedPacket" -> joined \cup {event.peer}
                       [] event.kind = "PeerDisconnected" -> joined \ {event.peer}
                       [] OTHER -> joined
        /\ serverEvents' = Tail(serverEvents)
        /\ UNCHANGED <<slots, nextPeerId, clientPeer, serverPeer>>
    BY <1>2 DEF HandleServerEvent, clientVars, enetVars
  <2>2. event = serverEvents[1] /\ event.peer < nextPeerId
    BY <1>1, <2>1, FirstEvent DEF Numbered
  <2>3. \A p \in joined' : p < nextPeerId
    <3> HIDE DEF event
    <3>1. joined' \in {joined \cup {event.peer}, joined \ {event.peer}, joined}
      BY <2>1
    <3> QED
      BY <1>1, <2>2, <3>1 DEF Numbered
  <2>4. \A i \in 1..Len(serverEvents') : serverEvents'[i].peer < nextPeerId
    BY <1>1, <2>1, FirstEvent DEF Numbered
  <2>5. /\ Unannounced' = Unannounced /\ Occupying' = Occupying /\ Connected' = Connected
        /\ \A c \in Connected' : slots'[c].id = slots[c].id
    BY <2>1 DEF Unannounced, Occupying, Connected
  <2> QED
    BY <1>1, <2>1, <2>3, <2>4, <2>5, NumberingKept
<1>3. CASE Elapse
  <2>1. /\ slots' = [c \in Connected |->
                        IF ~slots[c].ready /\ slots[c].age < HandshakeTimeout
                        THEN [slots[c] EXCEPT !.age = @ + 1] ELSE slots[c]]
        /\ UNCHANGED <<nextPeerId, serverEvents, clientPeer, serverPeer, joined>>
    BY <1>3 DEF Elapse, enetVars, appVars
  <2>2. Connected' = Connected
    BY <2>1 DEF Connected
  <2>3. \A c \in Connected : slots'[c].id = slots[c].id
    BY <1>1, <2>1 DEF Typed, Slots
  <2>4. Unannounced' = Unannounced /\ Occupying' = Occupying
    BY <2>1 DEF Unannounced, Occupying
  <2> QED
    BY <1>1, <2>1, <2>2, <2>3, <2>4, NumberingKept DEF Numbered
<1> QED
  BY <1>2, <1>3

\* Every step keeps the numbering.
LEMMA NumberedStep == Inv /\ Next => Numbered'
BY PollConnectNumbered, AnswerNumbered, ConnectionNumbered, ClientNumbered, ServerStepNumbered
   DEF Next, ServerStep

-----------------------------------------------------------------------------
(* Each client's side of the invariant. *)

\* What the server has heard stays as it is while nothing is polled or handled.
LEMMA HeardUntouched ==
  ASSUME UNCHANGED <<serverEvents, joined>>, NEW p
  PROVE  Heard(p)' <=> Heard(p)
BY DEF Heard

\* Only a payload's event makes a peer heard.
LEMMA HeardAppended ==
  ASSUME Typed, NEW kind, NEW peer, NEW p, joined' = joined,
         serverEvents' = Append(serverEvents, Event(kind, peer)),
         kind # "ReceivedPacket" \/ peer # p
  PROVE  Heard(p)' => Heard(p)
<1> DEFINE event == Event(kind, peer)
<1>1. serverEvents \in Seq(Events)
  BY DEF Typed
<1>2. event.kind = kind /\ event.peer = peer /\ serverEvents' = Append(serverEvents, event)
  BY DEF Event
<1> HIDE DEF event, Events
<1>3. \A i \in 1..Len(serverEvents') :
         \/ i \in 1..Len(serverEvents) /\ serverEvents'[i] = serverEvents[i]
         \/ serverEvents'[i] = event
  BY <1>1, <1>2
<1> QED
  BY <1>2, <1>3 DEF Heard

\* A client that a step leaves alone, or that the server asks to leave.
LEMMA ClientFrame ==
  ASSUME NEW c \in Clients, ClientKept(c),
         /\ clientPeer'[c] = clientPeer[c] /\ clientReady'[c] = clientReady[c]
         /\ up'[c] = up[c] /\ down'[c] = down[c] /\ downOther'[c] = downOther[c],
         \/ serverPeer'[c] = serverPeer[c]
         \/ c \in Connected /\ serverPeer'[c] = "leaving",
         c \in Connected' <=> c \in Connected,
         c \in Connected => slots'[c].id = slots[c].id /\ slots'[c].ready = slots[c].ready,
         \A p : c \in Connected /\ p = slots[c].id /\ Heard(p)' => Heard(p)
  PROVE  ClientKept(c)'
<1>1. Follows(c)'
  BY DEF ClientKept, Follows
<1>2. Accepted(c)'
  BY DEF ClientKept, Accepted
<1>3. Knows(c)' <=> Knows(c)
  BY DEF Knows
<1>4. ASSUME c \in Connected
      PROVE  Heard(slots[c].id)' => Heard(slots[c].id)
  <2>1. PICK p : p = slots[c].id
    OBVIOUS
  <2>2. Heard(slots[c].id)' <=> Heard(p)'
    BY <1>4, <2>1 DEF Heard
  <2> QED
    BY <1>4, <2>1, <2>2
<1>5. ASSUME c \notin Foreign
      PROVE  OwnClient(c)'
  BY <1>3, <1>4, <1>5 DEF ClientKept, OwnClient
<1> QED
  BY <1>1, <1>2, <1>5 DEF ClientKept

\* The clients a step of c's own side leaves alone.
LEMMA ClientSideFrame ==
  ASSUME Inv, NEW c \in Clients, UNCHANGED <<slots, serverEvents, joined>>,
         \A d \in Clients \ {c} :
            /\ clientPeer'[d] = clientPeer[d] /\ clientReady'[d] = clientReady[d]
            /\ up'[d] = up[d] /\ down'[d] = down[d] /\ downOther'[d] = downOther[d]
            /\ serverPeer'[d] = serverPeer[d]
  PROVE  \A d \in Clients \ {c} : ClientKept(d)'
<1> SUFFICES ASSUME NEW d \in Clients \ {c} PROVE ClientKept(d)'
  OBVIOUS
<1>1. Connected' = Connected
  BY DEF Connected
<1>2. \A p : Heard(p)' => Heard(p)
  BY HeardUntouched
<1>3. ClientKept(d)
  BY DEF Inv
<1> QED
  BY <1>1, <1>2, <1>3, ClientFrame

\* A client whose connection is closed.
LEMMA ClosedKept ==
  ASSUME Inv, NEW c \in Clients, CloseClient(c),
         UNCHANGED <<slots, serverEvents, joined, serverPeer, up>>
  PROVE  \A d \in Clients : ClientKept(d)'
<1>1. Typed /\ ClientKept(c)
  BY DEF Inv
<1>2. /\ clientPeer'[c] = "closed" /\ clientReady'[c] = FALSE
      /\ down'[c] = << >> /\ downOther'[c] = 0 /\ up'[c] = up[c] /\ serverPeer'[c] = serverPeer[c]
      /\ \A d \in Clients \ {c} :
            /\ clientPeer'[d] = clientPeer[d] /\ clientReady'[d] = clientReady[d]
            /\ up'[d] = up[d] /\ down'[d] = down[d] /\ downOther'[d] = downOther[d]
            /\ serverPeer'[d] = serverPeer[d]
  BY <1>1 DEF CloseClient, Typed
<1>3. Connected' = Connected
  BY DEF Connected
<1>4. Follows(c)'
  BY <1>1, <1>2, <1>3 DEF ClientKept, Follows
<1>5. Accepted(c)'
  BY <1>2 DEF Accepted
<1>6. ASSUME c \notin Foreign
      PROVE  OwnClient(c)'
  BY <1>1, <1>2, <1>3, <1>6 DEF ClientKept, OwnClient, Knows
<1>7. \A d \in Clients \ {c} : ClientKept(d)'
  BY <1>2, ClientSideFrame
<1> QED
  BY <1>4, <1>5, <1>6, <1>7 DEF ClientKept

\* A client that connects, first to its own ENet and then to the server.
LEMMA ConnectKept ==
  ASSUME Inv, NEW c \in Clients, Connect(c) \/ PollClientConnect(c)
  PROVE  \A d \in Clients : ClientKept(d)'
<1>1. Typed /\ ClientKept(c)
  BY DEF Inv
<1>2. UNCHANGED <<slots, serverEvents, joined, serverPeer, clientReady, down, downOther>>
  BY DEF Connect, PollClientConnect, serverVars, enetVars, appVars
<1>3. \/ /\ clientPeer[c] = "none" /\ clientPeer' = [clientPeer EXCEPT ![c] = "connecting"]
         /\ up' = up
      \/ /\ clientPeer[c] = "connecting" /\ serverPeer[c] = "pending"
         /\ clientPeer' = [clientPeer EXCEPT ![c] = "connected"]
         /\ \/ up' = [up EXCEPT ![c] = Append(@, "ClientHello")]
            \/ c \in Foreign /\ up' = up
  BY DEF Connect, PollClientConnect, enetVars
<1>4. \A d \in Clients \ {c} :
         /\ clientPeer'[d] = clientPeer[d] /\ clientReady'[d] = clientReady[d]
         /\ up'[d] = up[d] /\ down'[d] = down[d] /\ downOther'[d] = downOther[d]
         /\ serverPeer'[d] = serverPeer[d]
  BY <1>1, <1>2, <1>3 DEF Typed
<1>5. Connected' = Connected
  BY <1>2 DEF Connected
<1>6. /\ c \notin Connected /\ ~clientReady[c] /\ up[c] = << >> /\ down[c] = << >>
      /\ downOther[c] = 0
  BY <1>1, <1>3 DEF ClientKept, Follows
<1>7. ClientKept(c)'
  <2>1. CASE clientPeer[c] = "none" /\ clientPeer' = [clientPeer EXCEPT ![c] = "connecting"]
             /\ up' = up
    <3>1. clientPeer'[c] = "connecting"
      BY <1>1, <2>1 DEF Typed
    <3>2. Follows(c)'
      BY <1>1, <1>2, <1>5, <1>6, <2>1, <3>1 DEF ClientKept, Follows
    <3>3. Accepted(c)'
      BY <1>2, <1>6 DEF Accepted
    <3>4. OwnClient(c)'
      BY <1>2, <1>5, <1>6, <2>1, <3>1 DEF OwnClient
    <3> QED
      BY <3>2, <3>3, <3>4 DEF ClientKept
  <2>2. CASE /\ clientPeer[c] = "connecting" /\ serverPeer[c] = "pending"
             /\ clientPeer' = [clientPeer EXCEPT ![c] = "connected"]
             /\ \/ up' = [up EXCEPT ![c] = Append(@, "ClientHello")]
                \/ c \in Foreign /\ up' = up
    <3>1. clientPeer'[c] = "connected"
      BY <1>1, <2>2 DEF Typed
    <3>2. Follows(c)'
      BY <1>1, <1>2, <1>5, <1>6, <2>2, <3>1 DEF ClientKept, Follows
    <3>3. Accepted(c)'
      BY <1>2, <1>6 DEF Accepted
    <3>4. ASSUME c \notin Foreign PROVE OwnClient(c)'
      <4>1. up'[c] = <<"ClientHello">>
        BY <1>1, <1>6, <2>2, <3>4 DEF Typed
      <4> QED
        BY <1>2, <1>5, <1>6, <3>1, <4>1 DEF OwnClient
    <3> QED
      BY <3>2, <3>3, <3>4 DEF ClientKept
  <2> QED
    BY <1>3, <2>1, <2>2
<1> QED
  BY <1>2, <1>4, <1>7, ClientSideFrame

\* A message the client reads.
LEMMA ClientReceiveKept ==
  ASSUME Inv, NEW c \in Clients, PollClientReceive(c)
  PROVE  \A d \in Clients : ClientKept(d)'
<1> DEFINE message == Head(down[c])
<1>1. Typed /\ ClientKept(c)
  BY DEF Inv
<1>2. /\ clientPeer[c] = "connected" /\ down[c] # << >> /\ HandleSessionReceive(c, message)
      /\ UNCHANGED <<slots, serverEvents, joined, serverPeer, up>>
  BY DEF PollClientReceive, serverVars, appVars
<1>3. /\ down[c] \in Seq(Replies) /\ Len(down[c]) \in Nat /\ 1 \in 1..Len(down[c])
      /\ message = down[c][1] /\ message \in Replies
      /\ Len(Tail(down[c])) = Len(down[c]) - 1
      /\ \A i \in 1..Len(Tail(down[c])) :
            i + 1 \in 1..Len(down[c]) /\ Tail(down[c])[i] = down[c][i + 1]
  <2>1. down[c] \in Seq(Replies)
    BY <1>1, ClientTypes
  <2> HIDE DEF Replies
  <2> QED
    BY <1>2, <2>1
<1>4. Connected' = Connected
  BY <1>2 DEF Connected
<1>5. ASSUME down' = [down EXCEPT ![c] = Tail(@)], UNCHANGED <<clientPeer, downOther>>,
             \/ clientReady[c] /\ clientReady' = clientReady
             \/ /\ message.kind = "ServerAccept"
                /\ clientReady' = [clientReady EXCEPT ![c] = TRUE]
             \/ /\ ~clientReady[c] /\ message.kind = "Payload" /\ clientReady' = clientReady
      PROVE  \A d \in Clients : ClientKept(d)'
  <2>1. /\ down'[c] = Tail(down[c]) /\ (clientReady[c] => clientReady'[c])
        /\ \A d \in Clients \ {c} :
            /\ clientPeer'[d] = clientPeer[d] /\ clientReady'[d] = clientReady[d]
            /\ up'[d] = up[d] /\ down'[d] = down[d] /\ downOther'[d] = downOther[d]
            /\ serverPeer'[d] = serverPeer[d]
    BY <1>1, <1>2, <1>5 DEF Typed
  <2>2. clientReady'[c] \/ (\E i \in 1..Len(down'[c]) : down'[c][i].kind = "ServerAccept")
        => clientReady[c] \/ (\E i \in 1..Len(down[c]) : down[c][i].kind = "ServerAccept")
    BY <1>1, <1>3, <1>5, <2>1 DEF Typed
  <2>3. Accepted(c)'
    BY <1>1, <1>2, <1>4, <2>2 DEF ClientKept, Accepted
  <2>4. Follows(c)'
    BY <1>1, <1>2, <1>4, <1>5, <2>1 DEF ClientKept, Follows
  <2>5. ASSUME c \notin Foreign PROVE OwnClient(c)'
    <3>1. OwnClient(c)
      BY <1>1, <2>5 DEF ClientKept
    <3>2. clientReady'[c]
      <4>1. ~clientReady[c] => message.kind # "Payload"
        BY <1>2, <1>3, <3>1 DEF OwnClient
      <4> QED
        BY <1>1, <1>5, <4>1 DEF Typed
    <3>3. Heard(slots[c].id)' <=> Heard(slots[c].id)
      BY <1>2 DEF Heard
    <3> QED
      BY <1>2, <1>4, <3>1, <3>2, <3>3 DEF OwnClient, Knows
  <2>6. \A d \in Clients \ {c} : ClientKept(d)'
    BY <1>2, <2>1, ClientSideFrame
  <2> QED
    BY <2>3, <2>4, <2>5, <2>6 DEF ClientKept
<1>6. CASE CloseClient(c)
  BY <1>2, <1>6, ClosedKept
<1>7. message.kind \in {"ServerAccept", "ServerReject", "Payload"}
  BY <1>3 DEF Replies
<1> HIDE DEF message
<1> QED
  BY <1>2, <1>5, <1>6, <1>7 DEF HandleSessionReceive, IsSessionMessage

\* What else a client's transport does, and its application.
LEMMA ClientStepKept ==
  ASSUME Inv, NEW c \in Clients, ClientStep(c)
  PROVE  \A d \in Clients : ClientKept(d)'
<1>1. Typed /\ ClientKept(c)
  BY DEF Inv
<1>2. ASSUME CloseClient(c), UNCHANGED <<serverVars, joined, serverPeer, up>>
      PROVE  \A d \in Clients : ClientKept(d)'
  BY <1>2, ClosedKept DEF serverVars
<1>3. CASE Connect(c) \/ PollClientConnect(c)
  BY <1>3, ConnectKept
<1>4. CASE PollClientReceive(c)
  BY <1>4, ClientReceiveKept
<1>5. CASE PollClientReceiveOther(c)
  <2>1. /\ clientPeer[c] = "connected" /\ downOther[c] > 0
        /\ downOther' = [downOther EXCEPT ![c] = @ - 1]
        /\ UNCHANGED <<slots, serverEvents, joined, serverPeer, clientPeer, clientReady, up, down>>
    BY <1>5 DEF PollClientReceiveOther, serverVars, appVars
  <2>2. Connected' = Connected
    BY <2>1 DEF Connected
  <2>3. \A d \in Clients \ {c} : downOther'[d] = downOther[d]
    BY <1>1, <2>1 DEF Typed
  <2>4. downOther[c] # 0
    BY <2>1
  <2>5. Follows(c)'
    BY <1>1, <2>1, <2>2, <2>4 DEF ClientKept, Follows
  <2>6. Accepted(c)'
    BY <1>1, <2>1, <2>2 DEF ClientKept, Accepted
  <2>7. ASSUME c \notin Foreign PROVE OwnClient(c)'
    <3>1. OwnClient(c)
      BY <1>1, <2>7 DEF ClientKept
    <3>2. clientReady[c]
      BY <2>1, <2>4, <3>1 DEF OwnClient
    <3>3. Heard(slots[c].id)' <=> Heard(slots[c].id)
      BY <2>1 DEF Heard
    <3> QED
      BY <2>1, <2>2, <3>1, <3>2, <3>3 DEF OwnClient, Knows
  <2>8. \A d \in Clients \ {c} : ClientKept(d)'
    BY <2>1, <2>3, ClientSideFrame
  <2> QED
    BY <2>5, <2>6, <2>7, <2>8 DEF ClientKept
<1>6. ASSUME \/ \E code \in DisconnectCodes : PollClientDisconnect(c, code)
             \/ ExpirePendingSession(c) \/ ClientStops(c)
      PROVE  \A d \in Clients : ClientKept(d)'
  <2>1. CloseClient(c) /\ UNCHANGED <<serverVars, joined, serverPeer, up>>
    BY <1>6 DEF PollClientDisconnect, ExpirePendingSession, ClientStops, EndRun, appVars
  <2> QED
    BY <1>2, <2>1
<1>7. CASE HandleClientEvent(c)
  <2>1. UNCHANGED <<serverVars, joined, serverPeer>>
    BY <1>7 DEF HandleClientEvent
  <2>2. \/ \E cause : EndRun(c, cause)
        \/ UNCHANGED <<clientPeer, clientReady, up, down, downOther>>
        \/ /\ clientReady[c] /\ up' = [up EXCEPT ![c] = Append(@, "Payload")]
           /\ UNCHANGED <<clientPeer, clientReady, down, downOther>>
    BY <1>7 DEF HandleClientEvent
  <2>3. CASE \E cause : EndRun(c, cause)
    BY <1>2, <2>1, <2>3 DEF EndRun
  <2>4. CASE UNCHANGED <<clientPeer, clientReady, up, down, downOther>>
    <3>1. \A d \in Clients : ClientKept(d)
      BY DEF Inv
    <3>2. Connected' = Connected /\ slots' = slots
      BY <2>1 DEF Connected, serverVars
    <3>3. \A p : Heard(p)' => Heard(p)
      BY <2>1, HeardUntouched DEF serverVars
    <3> QED
      BY <2>1, <2>4, <3>1, <3>2, <3>3, ClientFrame
  <2>5. CASE /\ clientReady[c] /\ up' = [up EXCEPT ![c] = Append(@, "Payload")]
             /\ UNCHANGED <<clientPeer, clientReady, down, downOther>>
    <3>1. Connected' = Connected /\ UNCHANGED <<slots, serverEvents>>
      BY <2>1 DEF Connected, serverVars
    <3>2. up[c] \in Seq(Requests) /\ up'[c] = Append(up[c], "Payload")
          /\ \A d \in Clients \ {c} : up'[d] = up[d]
      BY <1>1, <2>5 DEF Typed
    <3>3. \A i \in 1..Len(up'[c]) :
             \/ i \in 1..Len(up[c]) /\ up'[c][i] = up[c][i]
             \/ up'[c][i] = "Payload"
      BY <3>2
    <3>4. Follows(c)'
      BY <1>1, <2>1, <2>5, <3>1 DEF ClientKept, Follows
    <3>5. Accepted(c)'
      BY <1>1, <2>5, <3>1 DEF ClientKept, Accepted
    <3>6. ASSUME c \notin Foreign PROVE OwnClient(c)'
      <4>1. OwnClient(c)
        BY <1>1, <3>6 DEF ClientKept
      <4>2. clientReady'[c]
        BY <2>5
      <4> QED
        BY <3>1, <3>3, <4>1, <4>2 DEF OwnClient, Knows
    <3>7. \A d \in Clients \ {c} : ClientKept(d)'
      BY <2>1, <2>5, <3>1, <3>2, ClientSideFrame
    <3> QED
      BY <3>4, <3>5, <3>6, <3>7 DEF ClientKept
  <2> QED
    BY <2>2, <2>3, <2>4, <2>5
<1> QED
  BY <1>3, <1>4, <1>5, <1>6, <1>7 DEF ClientStep

\* ENet's answer, and its forgetting of it.
LEMMA EnetKept ==
  ASSUME Inv, NEW c \in Clients, EnetAnswer(c) \/ EnetForget(c)
  PROVE  \A d \in Clients : ClientKept(d)'
<1>1. Typed /\ ClientKept(c)
  BY DEF Inv
<1>2. UNCHANGED <<slots, serverEvents, joined, clientPeer, clientReady, down, downOther>>
  BY DEF EnetAnswer, EnetForget, serverVars, clientVars, appVars
<1>3. \/ /\ clientPeer[c] = "connecting" /\ serverPeer[c] = "none" /\ up' = up
         /\ serverPeer' = [serverPeer EXCEPT ![c] = "pending"]
      \/ /\ clientPeer[c] = "closed" /\ serverPeer[c] = "pending"
         /\ up' = [up EXCEPT ![c] = << >>]
         /\ serverPeer' = [serverPeer EXCEPT ![c] = "none"]
  BY DEF EnetAnswer, EnetForget
<1>4. /\ \A d \in Clients \ {c} :
            /\ clientPeer'[d] = clientPeer[d] /\ clientReady'[d] = clientReady[d]
            /\ up'[d] = up[d] /\ down'[d] = down[d] /\ downOther'[d] = downOther[d]
            /\ serverPeer'[d] = serverPeer[d]
      /\ up'[c] = up[c] \/ up'[c] = << >>
      /\ \/ clientPeer[c] = "connecting" /\ serverPeer[c] = "none" /\ serverPeer'[c] = "pending"
         \/ clientPeer[c] = "closed" /\ serverPeer[c] = "pending" /\ serverPeer'[c] = "none"
  BY <1>1, <1>2, <1>3 DEF Typed
<1>5. Connected' = Connected /\ c \notin Connected
  BY <1>1, <1>2, <1>3 DEF Connected, ClientKept, Follows
<1>6. /\ ~clientReady[c] /\ down[c] = << >> /\ downOther[c] = 0
      /\ clientPeer[c] # "connected" /\ clientPeer[c] # "none"
      /\ clientPeer[c] = "connecting" => up[c] = << >>
  BY <1>1, <1>3 DEF ClientKept, Follows
<1>7. Follows(c)'
  BY <1>2, <1>4, <1>5, <1>6 DEF Follows
<1>8. Accepted(c)'
  BY <1>2, <1>6 DEF Accepted
<1>9. ASSUME c \notin Foreign PROVE OwnClient(c)'
  BY <1>1, <1>2, <1>4, <1>5, <1>6, <1>9 DEF ClientKept, OwnClient, Knows
<1>10. \A d \in Clients \ {c} : ClientKept(d)'
  BY <1>2, <1>4, ClientSideFrame
<1> QED
  BY <1>7, <1>8, <1>9, <1>10 DEF ClientKept

\* The server's application sends, and asks clients to leave; foreign clients talk.
LEMMA SendKept ==
  ASSUME Inv, NEW c \in Clients,
         \/ ServerSend(c)
         \/ \E code \in {"ServerFull", "ProtocolMismatch"} : ServerDisconnect(c, code)
         \/ \E message \in {"ClientHello", "Payload", "Oversized"} : ForeignSend(c, message)
  PROVE  \A d \in Clients : ClientKept(d)'
<1>1. Typed /\ \A d \in Clients : ClientKept(d)
  BY DEF Inv
<1>2. CASE ServerSend(c)
  <2>1. /\ Serves(c) /\ serverPeer[c] = "connected"
        /\ \/ /\ down' = [down EXCEPT ![c] = Append(@, [kind |-> "Payload", code |-> "None"])]
              /\ UNCHANGED downOther
           \/ /\ downOther' = [downOther EXCEPT ![c] = 1]
              /\ UNCHANGED down
        /\ UNCHANGED <<slots, serverEvents, joined, clientPeer, clientReady, serverPeer, up>>
    BY <1>2 DEF ServerSend, CanSend, serverVars, clientVars, appVars
  <2>2. c \in Connected /\ Heard(slots[c].id)
    BY <2>1 DEF Serves, Heard
  <2>3. \A d \in Clients \ {c} : down'[d] = down[d] /\ downOther'[d] = downOther[d]
    BY <1>1, <2>1 DEF Typed
  <2>4. \A i \in 1..Len(down'[c]) :
           \/ i \in 1..Len(down[c]) /\ down'[c][i] = down[c][i]
           \/ down'[c][i].kind = "Payload"
    <3> DEFINE m == [kind |-> "Payload", code |-> "None"]
    <3>1. down[c] \in Seq(Replies) /\ m.kind = "Payload"
      BY <1>1, ClientTypes
    <3>2. down'[c] = down[c] \/ down'[c] = Append(down[c], m)
      BY <1>1, <2>1 DEF Typed
    <3> HIDE DEF m, Replies
    <3>3. \A i \in 1..Len(down'[c]) :
             \/ i \in 1..Len(down[c]) /\ down'[c][i] = down[c][i]
             \/ down'[c][i] = m
      BY <3>1, <3>2
    <3> QED
      BY <3>1, <3>3
  <2>5. Connected' = Connected
    BY <2>1 DEF Connected
  <2>6. Follows(c)'
    BY <1>1, <2>1, <2>2, <2>5 DEF ClientKept, Follows
  <2>7. Accepted(c)'
    BY <1>1, <2>1, <2>4, <2>5 DEF ClientKept, Accepted
  <2>8. ASSUME c \notin Foreign PROVE OwnClient(c)'
    <3>1. OwnClient(c)
      BY <1>1, <2>8 DEF ClientKept
    <3>2. Knows(c) /\ ~(~clientReady[c] /\ clientPeer[c] = "connected")
      BY <2>2, <3>1 DEF OwnClient, Knows
    <3> QED
      BY <2>1, <2>5, <3>1, <3>2 DEF OwnClient, Knows
  <2>9. \A d \in Clients \ {c} : ClientKept(d)'
    BY <2>1, <2>3, ClientSideFrame
  <2> QED
    BY <2>6, <2>7, <2>8, <2>9 DEF ClientKept
<1>3. ASSUME NEW code \in {"ServerFull", "ProtocolMismatch"}, ServerDisconnect(c, code)
      PROVE  \A d \in Clients : ClientKept(d)'
  <2>1. /\ c \in Connected /\ serverPeer' = [serverPeer EXCEPT ![c] = "leaving"]
        /\ UNCHANGED <<slots, serverEvents, joined, clientPeer, clientReady, up, down, downOther>>
    BY <1>3 DEF ServerDisconnect, Disconnect, serverVars, clientVars, appVars
  <2>2. \A d \in Clients : \/ serverPeer'[d] = serverPeer[d]
                           \/ d \in Connected /\ serverPeer'[d] = "leaving"
    BY <1>1, <2>1 DEF Typed
  <2>3. Connected' = Connected
    BY <2>1 DEF Connected
  <2>4. \A p : Heard(p)' => Heard(p)
    BY <2>1, HeardUntouched
  <2> QED
    BY <1>1, <2>1, <2>2, <2>3, <2>4, ClientFrame
<1>4. ASSUME NEW message \in {"ClientHello", "Payload", "Oversized"}, ForeignSend(c, message)
      PROVE  \A d \in Clients : ClientKept(d)'
  <2>1. /\ c \in Foreign /\ clientPeer[c] = "connected"
        /\ up' = [up EXCEPT ![c] = Append(@, message)]
        /\ UNCHANGED <<slots, serverEvents, joined, clientPeer, clientReady, serverPeer, down,
                       downOther>>
    BY <1>4 DEF ForeignSend, serverVars, clientVars, appVars
  <2>2. Connected' = Connected /\ \A d \in Clients \ {c} : up'[d] = up[d]
    BY <1>1, <2>1 DEF Connected, Typed
  <2>3. Follows(c)' /\ Accepted(c)'
    BY <1>1, <2>1, <2>2 DEF ClientKept, Follows, Accepted
  <2>4. \A d \in Clients \ {c} : ClientKept(d)'
    BY <2>1, <2>2, ClientSideFrame
  <2> QED
    BY <2>1, <2>3, <2>4 DEF ClientKept
<1> QED
  BY <1>2, <1>3, <1>4

\* A connection the server is told of.
LEMMA PollConnectKept ==
  ASSUME Inv, NEW c \in Clients, PollConnect(c)
  PROVE  \A d \in Clients : ClientKept(d)'
<1>1. Typed /\ Numbered /\ \A d \in Clients : ClientKept(d)
  BY DEF Inv
<1>2. /\ serverPeer[c] = "pending" /\ clientPeer[c] # "connecting"
      /\ serverPeer' = [serverPeer EXCEPT ![c] = "connected"]
      /\ slots' = [d \in Connected \cup {c} |->
                     IF d = c THEN [id |-> nextPeerId, ready |-> FALSE, age |-> 0] ELSE slots[d]]
      /\ serverEvents' = Append(serverEvents, Event("PeerConnected", nextPeerId))
      /\ UNCHANGED <<clientPeer, clientReady, up, down, downOther, joined>>
  BY DEF PollConnect, clientVars, appVars
<1>3. \A d \in Clients : serverPeer'[d] = IF d = c THEN "connected" ELSE serverPeer[d]
  BY <1>1, <1>2 DEF Typed
<1>4. /\ c \notin Connected /\ ~clientReady[c] /\ down[c] = << >> /\ downOther[c] = 0
      /\ clientPeer[c] \notin {"none", "connecting"}
  BY <1>1, <1>2 DEF ClientKept, Follows
<1>5. /\ Connected' = Connected \cup {c}
      /\ slots'[c].id = nextPeerId /\ slots'[c].ready = FALSE
      /\ \A d \in Connected : slots'[d] = slots[d]
  BY <1>2, <1>4 DEF Connected
<1>6. \A p : Heard(p)' => Heard(p)
  BY <1>1, <1>2, HeardAppended
<1>7. ~Heard(nextPeerId)
  <2>1. nextPeerId \in Nat
    BY <1>1 DEF Typed
  <2> QED
    BY <1>1, <2>1 DEF Numbered, Heard
<1>8. Follows(c)'
  BY <1>2, <1>3, <1>4, <1>5 DEF Follows
<1>9. Accepted(c)'
  BY <1>2, <1>4 DEF Accepted
<1>10. ASSUME c \notin Foreign PROVE OwnClient(c)'
  <2>1. OwnClient(c)
    BY <1>1, <1>10 DEF ClientKept
  <2>2. ~Heard(slots[c].id)'
    <3>1. PICK p : p = nextPeerId
      OBVIOUS
    <3>2. ~Heard(p)'
      BY <1>6, <1>7, <3>1
    <3>3. Heard(slots[c].id)' <=> Heard(p)'
      BY <1>5, <3>1 DEF Heard
    <3> QED
      BY <3>2, <3>3
  <2> QED
    BY <1>2, <1>4, <1>5, <2>1, <2>2 DEF OwnClient, Knows
<1>11. \A d \in Clients \ {c} : ClientKept(d)'
  BY <1>1, <1>2, <1>3, <1>5, <1>6, ClientFrame
<1> QED
  BY <1>8, <1>9, <1>10, <1>11 DEF ClientKept

\* A message the server reads: it accepts a hello only, and hears only what a client says
\* that knows of its session.
LEMMA PollReceiveKept ==
  ASSUME Inv, NEW c \in Clients, PollReceive(c)
  PROVE  \A d \in Clients : ClientKept(d)'
<1>1. Typed /\ Numbered /\ \A d \in Clients : ClientKept(d)
  BY DEF Inv
<1>2. /\ c \in Connected /\ up[c] # << >> /\ Connected' = Connected
      /\ up' = [up EXCEPT ![c] = Tail(@)]
      /\ UNCHANGED <<clientPeer, clientReady, downOther, joined>>
      /\ \A d \in Connected : slots'[d].id = slots[d].id
      /\ \A d \in Connected \ {c} : slots'[d] = slots[d]
  BY <1>1, ReceiveEffects DEF clientVars, appVars
<1>3. \/ /\ slots' = slots /\ serverPeer' = [serverPeer EXCEPT ![c] = "leaving"]
         /\ serverEvents' = Append(serverEvents, Event("TransportErrorEvent", slots[c].id))
         /\ \/ down' = down
            \/ \E code \in DisconnectCodes : down' =
                  [down EXCEPT ![c] = Append(@, [kind |-> "ServerReject", code |-> code])]
      \/ /\ ~slots[c].ready /\ slots'[c].ready
         /\ Identity[c] = ExpectedIdentity /\ Head(up[c]) = "ClientHello"
         /\ down' = [down EXCEPT ![c] = Append(@, [kind |-> "ServerAccept", code |-> "None"])]
         /\ serverEvents' = Append(serverEvents, Event("PeerSessionReady", slots[c].id))
         /\ serverPeer' = serverPeer
      \/ /\ slots[c].ready /\ Head(up[c]) # "Oversized"
         /\ serverEvents' = Append(serverEvents, Event("ReceivedPacket", slots[c].id))
         /\ UNCHANGED <<slots, down, serverPeer>>
  BY <1>1, ReceiveEffects
<1>4. /\ up[c] \in Seq(Requests) /\ Len(up[c]) \in Nat /\ 1 \in 1..Len(up[c])
      /\ Head(up[c]) = up[c][1] /\ up'[c] = Tail(up[c])
      /\ Len(Tail(up[c])) = Len(up[c]) - 1
      /\ \A i \in 1..Len(Tail(up[c])) :
            i + 1 \in 1..Len(up[c]) /\ i + 1 # 1 /\ Tail(up[c])[i] = up[c][i + 1]
  <2>1. up[c] \in Seq(Requests) /\ up'[c] = Tail(up[c])
    BY <1>1, <1>2 DEF Typed
  <2> HIDE DEF Requests
  <2> QED
    BY <1>2, <2>1
<1>5. /\ \A d \in Clients \ {c} :
            up'[d] = up[d] /\ down'[d] = down[d] /\ serverPeer'[d] = serverPeer[d]
      /\ serverPeer'[c] \in {"connected", "leaving"}
  <2>1. serverPeer[c] \in {"connected", "leaving"}
    BY <1>1, <1>2 DEF ClientKept, Follows
  <2> QED
    BY <1>1, <1>2, <1>3, <2>1 DEF Typed
<1>6. /\ Len(down[c]) \in Nat
      /\ \A i \in 1..Len(down[c]) : i \in 1..Len(down'[c]) /\ down'[c][i] = down[c][i]
      /\ \A i \in 1..Len(down'[c]) :
            \/ i \in 1..Len(down[c]) /\ down'[c][i] = down[c][i]
            \/ /\ i = Len(down[c]) + 1 /\ down'[c][i].kind # "Payload"
               /\ down'[c][i].kind = "ServerAccept" =>
                     slots'[c].ready /\ Identity[c] = ExpectedIdentity
  <2>1. ASSUME NEW m, down'[c] = Append(down[c], m), m.kind # "Payload",
               m.kind = "ServerAccept" => slots'[c].ready /\ Identity[c] = ExpectedIdentity
        PROVE  <1>6
    <3>1. down[c] \in Seq(Replies)
      BY <1>1, ClientTypes
    <3> HIDE DEF Replies
    <3>2. /\ Len(down[c]) \in Nat
          /\ \A i \in 1..Len(down[c]) : i \in 1..Len(down'[c]) /\ down'[c][i] = down[c][i]
          /\ \A i \in 1..Len(down'[c]) :
                \/ i \in 1..Len(down[c]) /\ down'[c][i] = down[c][i]
                \/ i = Len(down[c]) + 1 /\ down'[c][i] = m
      BY <2>1, <3>1
    <3> QED
      BY <2>1, <3>2
  <2>2. CASE down' = down
    BY <1>1, <2>2, ClientTypes
  <2>3. CASE \E code \in DisconnectCodes : down' =
                [down EXCEPT ![c] = Append(@, [kind |-> "ServerReject", code |-> code])]
    <3>1. PICK code \in DisconnectCodes : down' =
                [down EXCEPT ![c] = Append(@, [kind |-> "ServerReject", code |-> code])]
      BY <2>3
    <3>2. down'[c] = Append(down[c], [kind |-> "ServerReject", code |-> code])
      BY <1>1, <3>1 DEF Typed
    <3> QED
      BY <2>1, <3>2
  <2>4. CASE /\ slots'[c].ready /\ Identity[c] = ExpectedIdentity
             /\ down' = [down EXCEPT ![c] = Append(@, [kind |-> "ServerAccept", code |-> "None"])]
    <3>1. down'[c] = Append(down[c], [kind |-> "ServerAccept", code |-> "None"])
      BY <1>1, <2>4 DEF Typed
    <3> QED
      BY <2>1, <2>4, <3>1
  <2> QED
    BY <1>3, <2>2, <2>3, <2>4
<1>7. Follows(c)'
  <2>1. clientPeer[c] \notin {"none", "connecting"}
    BY <1>1, <1>2 DEF ClientKept, Follows
  <2> QED
    BY <1>1, <1>2, <1>5, <2>1 DEF ClientKept, Follows
<1>8. Accepted(c)'
  <2>1. c \in Connected /\ slots[c].ready => slots'[c].ready
    BY <1>3
  <2> QED
    BY <1>1, <1>2, <1>6, <2>1 DEF ClientKept, Accepted
<1>9. ASSUME c \notin Foreign PROVE OwnClient(c)'
  <2>1. OwnClient(c)
    BY <1>1, <1>9 DEF ClientKept
  <2>2. \A i \in 1..Len(up'[c]) : up'[c][i] = "Payload" /\ Knows(c)
    BY <1>4, <2>1 DEF OwnClient
  <2>3. Knows(c)' <=> Knows(c)
    BY <1>2 DEF Knows
  <2>4. Heard(slots[c].id)' => Knows(c)
    <3>1. PICK p : p = slots[c].id
      OBVIOUS
    <3>2. Heard(slots[c].id)' <=> Heard(p)'
      BY <1>2, <3>1 DEF Heard
    <3>3. CASE slots[c].ready /\ Head(up[c]) # "Oversized"
      BY <1>2, <1>4, <2>1, <3>3 DEF OwnClient
    <3>4. CASE \E kind \in {"TransportErrorEvent", "PeerSessionReady"} :
                  serverEvents' = Append(serverEvents, Event(kind, slots[c].id))
      <4>1. Heard(p)' => Heard(p)
        BY <1>1, <1>2, <3>4, HeardAppended
      <4> QED
        BY <1>2, <2>1, <3>1, <3>2, <4>1 DEF OwnClient
    <3> QED
      BY <1>3, <3>3, <3>4
  <2>5. ASSUME ~clientReady[c], clientPeer[c] = "connected"
        PROVE  /\ downOther'[c] = 0
               /\ \A i \in 1..Len(down'[c]) : down'[c][i].kind # "Payload"
                     \/ \E j \in 1..i - 1 : down'[c][j].kind = "ServerAccept"
    <3>1. downOther[c] = 0 /\ \A i \in 1..Len(down[c]) : down[c][i].kind # "Payload"
                     \/ \E j \in 1..i - 1 : down[c][j].kind = "ServerAccept"
      BY <2>1, <2>5 DEF OwnClient
    <3>2. \A i \in 1..Len(down[c]) : \A j \in 1..i - 1 : j \in 1..Len(down[c])
      BY <1>6
    <3> QED
      BY <1>2, <1>6, <3>1, <3>2
  <2> QED
    BY <1>2, <2>2, <2>3, <2>4, <2>5 DEF OwnClient
<1>10. ASSUME NEW d \in Clients \ {c} PROVE ClientKept(d)'
  <2>1. \A p : d \in Connected /\ p = slots[d].id /\ Heard(p)' => Heard(p)
    <3> SUFFICES ASSUME NEW p, d \in Connected, p = slots[d].id
                 PROVE  Heard(p)' => Heard(p)
      OBVIOUS
    <3>1. p # slots[c].id
      BY <1>1, <1>2 DEF Numbered
    <3>2. \E kind : serverEvents' = Append(serverEvents, Event(kind, slots[c].id))
      BY <1>3
    <3> QED
      BY <1>1, <1>2, <3>1, <3>2, HeardAppended
  <2> QED
    BY <1>1, <1>2, <1>5, <2>1, ClientFrame
<1> QED
  BY <1>7, <1>8, <1>9, <1>10 DEF ClientKept

\* Peers that are gone.
LEMMA RemovalKept ==
  ASSUME Inv, \/ \E c \in Clients : PollDisconnect(c)
              \/ ExpirePendingSessions
  PROVE  \A d \in Clients : ClientKept(d)'
<1>1. Typed /\ \A d \in Clients : ClientKept(d)
  BY DEF Inv
<1>2. PICK gone \in SUBSET Connected : Removes(gone)
  BY <1>1, RemovalEffects
<1>3. /\ Connected' = Connected \ gone
      /\ \A d \in Connected \ gone : slots'[d] = slots[d]
      /\ \A d \in Clients : serverPeer'[d] = IF d \in gone THEN "none" ELSE serverPeer[d]
      /\ \A d \in Clients : up'[d] = IF d \in gone THEN << >> ELSE up[d]
      /\ UNCHANGED <<clientPeer, clientReady, down, downOther, joined>>
  BY <1>2 DEF Removes, clientVars, appVars
<1>4. \A p : Heard(p)' => Heard(p)
  <2>1. \A i \in 1..Len(serverEvents') :
           i \in 1..Len(serverEvents) \/ serverEvents'[i].kind = "PeerDisconnected"
    <3> TAKE i \in 1..Len(serverEvents')
    <3>1. Len(serverEvents') \in Nat /\ Len(serverEvents) \in Nat
      BY <1>1, <1>2 DEF Removes, Typed
    <3>2. i \in 1..Len(serverEvents) \/ i \in Len(serverEvents) + 1..Len(serverEvents')
      BY <3>1
    <3> QED
      BY <1>2, <3>2 DEF Removes
  <2> QED
    BY <1>2, <1>3, <2>1 DEF Heard, Removes
<1>5. ASSUME NEW d \in Clients \ gone
      PROVE  ClientKept(d)'
  BY <1>1, <1>3, <1>4, ClientFrame
<1>6. ASSUME NEW d \in gone
      PROVE  ClientKept(d)'
  <2>1. d \in Clients /\ ClientKept(d) /\ d \in Connected
    BY <1>1, <1>2 DEF Typed
  <2>2. serverPeer'[d] = "none" /\ up'[d] = << >> /\ d \notin Connected'
    BY <1>3, <2>1
  <2>3. Follows(d)'
    BY <1>3, <2>1, <2>2 DEF ClientKept, Follows
  <2>4. Accepted(d)'
    BY <1>3, <2>1, <2>2 DEF ClientKept, Accepted
  <2>5. ASSUME d \notin Foreign PROVE OwnClient(d)'
    BY <1>3, <2>1, <2>2, <2>5 DEF ClientKept, OwnClient
  <2> QED
    BY <2>3, <2>4, <2>5 DEF ClientKept
<1> QED
  BY <1>5, <1>6

\* The server's application is told, and time passes.
LEMMA ServerStepKept ==
  ASSUME Inv, HandleServerEvent \/ Elapse
  PROVE  \A d \in Clients : ClientKept(d)'
<1>1. Typed /\ \A d \in Clients : ClientKept(d)
  BY DEF Inv
<1>2. CASE HandleServerEvent
  <2> DEFINE event == Head(serverEvents)
  <2>1. /\ serverEvents # << >>
        /\ joined' = CASE event.kind = "ReceivedPacket" -> joined \cup {event.peer}
                       [] event.kind = "PeerDisconnected" -> joined \ {event.peer}
                       [] OTHER -> joined
        /\ serverEvents' = Tail(serverEvents)
        /\ UNCHANGED <<slots, clientPeer, clientReady, serverPeer, up, down, downOther>>
    BY <1>2 DEF HandleServerEvent, clientVars, enetVars
  <2>2. event = serverEvents[1] /\ 1 \in 1..Len(serverEvents)
    BY <1>1, <2>1, FirstEvent
  <2>3. \A i \in 1..Len(serverEvents') :
           i + 1 \in 1..Len(serverEvents) /\ serverEvents'[i] = serverEvents[i + 1]
    BY <1>1, <2>1, FirstEvent
  <2>4. \A p : Heard(p)' => Heard(p)
    <3> SUFFICES ASSUME NEW p, Heard(p)' PROVE Heard(p)
      OBVIOUS
    <3>1. CASE p \in joined'
      BY <2>1, <2>2, <3>1 DEF Heard
    <3>2. CASE \E i \in 1..Len(serverEvents') :
                  serverEvents'[i].kind = "ReceivedPacket" /\ serverEvents'[i].peer = p
      BY <2>3, <3>2 DEF Heard
    <3> QED
      BY <3>1, <3>2 DEF Heard
  <2>5. Connected' = Connected
    BY <2>1 DEF Connected
  <2> QED
    BY <1>1, <2>1, <2>4, <2>5, ClientFrame
<1>3. CASE Elapse
  <2>1. /\ slots' = [c \in Connected |->
                        IF ~slots[c].ready /\ slots[c].age < HandshakeTimeout
                        THEN [slots[c] EXCEPT !.age = @ + 1] ELSE slots[c]]
        /\ UNCHANGED <<serverEvents, clientPeer, clientReady, serverPeer, up, down, downOther,
                       joined>>
    BY <1>3 DEF Elapse, enetVars, appVars
  <2>2. Connected' = Connected
    BY <2>1 DEF Connected
  <2>3. \A c \in Connected : slots'[c].id = slots[c].id /\ slots'[c].ready = slots[c].ready
    BY <1>1, <2>1 DEF Typed, Slots
  <2>4. \A p : Heard(p)' => Heard(p)
    BY <2>1, HeardUntouched
  <2> QED
    BY <1>1, <2>1, <2>2, <2>3, <2>4, ClientFrame
<1> QED
  BY <1>2, <1>3

\* Every step keeps every client's side of the invariant.
LEMMA ClientKeptStep == Inv /\ Next => \A c \in Clients : ClientKept(c)'
BY ClientStepKept, EnetKept, SendKept, PollConnectKept, PollReceiveKept, RemovalKept,
   ServerStepKept DEF Next, ServerStep

-----------------------------------------------------------------------------
(* What the application was told, with what is pending, is what the slots say. *)

\* The pending events lead the peer to its slot's phase.
CatchesUp(p) ==
    \E phases \in [DOMAIN serverEvents -> Phases] :
        /\ Leads(p, phases)
        /\ SlotPhase(p) = IF serverEvents = << >> THEN seen[p] ELSE phases[Len(serverEvents)]

\* The phase of a peer that has a slot, or that had one.
LEMMA PhasesNow ==
  ASSUME Numbered, NEW p
  PROVE  /\ SlotPhase(p) \in Phases
         /\ \A c \in Connected :
               slots[c].id = p => SlotPhase(p) = IF slots[c].ready THEN "ready" ELSE "connected"
         /\ (\A c \in Connected : slots[c].id # p) =>
               SlotPhase(p) = IF p < nextPeerId THEN "gone" ELSE "unknown"
<1>1. CASE \E c \in Connected : slots[c].id = p
  <2> DEFINE d == CHOOSE d \in Connected : slots[d].id = p
  <2>1. d \in Connected /\ slots[d].id = p
    BY <1>1
  <2>2. \A c \in Connected : slots[c].id = p => c = d
    BY <2>1 DEF Numbered
  <2>3. SlotPhase(p) = IF slots[d].ready THEN "ready" ELSE "connected"
    BY <1>1 DEF SlotPhase
  <2> HIDE DEF d
  <2> QED
    BY <1>1, <2>2, <2>3 DEF Phases
<1>2. CASE ~\E c \in Connected : slots[c].id = p
  BY <1>2 DEF SlotPhase, Phases
<1> QED
  BY <1>1, <1>2

\* The same after a step.
LEMMA PhasesThen ==
  ASSUME Numbered', NEW p
  PROVE  /\ SlotPhase(p)' \in Phases
         /\ \A c \in Connected' : slots'[c].id = p =>
               SlotPhase(p)' = IF slots'[c].ready THEN "ready" ELSE "connected"
         /\ (\A c \in Connected' : slots'[c].id # p) =>
               SlotPhase(p)' = IF p < nextPeerId' THEN "gone" ELSE "unknown"
<1>1. CASE \E c \in Connected' : slots'[c].id = p
  <2> DEFINE d == CHOOSE d \in Connected' : slots'[d].id = p
  <2>1. d \in Connected' /\ slots'[d].id = p
    BY <1>1
  <2>2. \A c \in Connected' : slots'[c].id = p => c = d
    BY <2>1 DEF Numbered
  <2>3. SlotPhase(p)' = IF slots'[d].ready THEN "ready" ELSE "connected"
    BY <1>1 DEF SlotPhase
  <2> HIDE DEF d
  <2> QED
    BY <1>1, <2>2, <2>3 DEF Phases
<1>2. CASE ~\E c \in Connected' : slots'[c].id = p
  BY <1>2 DEF SlotPhase, Phases
<1> QED
  BY <1>1, <1>2

\* The events that fit a peer whose slot is in a phase.
LEMMA FittingEvents ==
  /\ AfterEvent("unknown", "PeerConnected") = "connected"
  /\ AfterEvent("connected", "PeerSessionReady") = "ready"
  /\ \A phase \in {"connected", "ready"} : AfterEvent(phase, "PeerDisconnected") = "gone"
  /\ AfterEvent("ready", "ReceivedPacket") = "ready"
  /\ \A phase : AfterEvent(phase, "TransportErrorEvent") = phase
BY DEF AfterEvent

\* More events are pending, which lead the peer on from its slot's phase.
LEMMA CatchUpExtended ==
  ASSUME Typed, EventsCatchUp, NEW p \in PeerIds, seen' = seen,
         Len(serverEvents') \in Nat, serverEvents' \in Seq(Events),
         Len(serverEvents) <= Len(serverEvents'),
         \A i \in 1..Len(serverEvents) : serverEvents'[i] = serverEvents[i],
         NEW q \in [Len(serverEvents)..Len(serverEvents') -> Phases],
         q[Len(serverEvents)] = SlotPhase(p),
         \A i \in Len(serverEvents) + 1..Len(serverEvents') :
            q[i] = IF serverEvents'[i].peer = p
                   THEN AfterEvent(q[i - 1], serverEvents'[i].kind) ELSE q[i - 1],
         q[Len(serverEvents')] = SlotPhase(p)'
  PROVE  CatchesUp(p)'
<1> DEFINE n == Len(serverEvents)
           m == Len(serverEvents')
<1>1. /\ n \in Nat /\ m \in Nat /\ n <= m
      /\ DOMAIN serverEvents = 1..n /\ DOMAIN serverEvents' = 1..m
      /\ (serverEvents = << >> <=> n = 0) /\ (serverEvents' = << >> <=> m = 0)
  <2>1. serverEvents \in Seq(Events)
    BY DEF Typed
  <2> HIDE DEF Events
  <2> QED
    BY <2>1
<1>2. PICK phases \in [DOMAIN serverEvents -> Phases] :
         /\ Leads(p, phases)
         /\ SlotPhase(p) = IF serverEvents = << >> THEN seen[p] ELSE phases[n]
  BY DEF EventsCatchUp
<1> DEFINE longer == [i \in 1..m |-> IF i <= n THEN phases[i] ELSE q[i]]
<1>3. \A i \in 1..n : phases[i] = LET before == IF i = 1 THEN seen[p] ELSE phases[i - 1]
                                   IN  IF serverEvents[i].peer = p
                                       THEN AfterEvent(before, serverEvents[i].kind) ELSE before
  BY <1>1, <1>2 DEF Leads
<1>4. /\ q \in [n..m -> Phases] /\ q[n] = SlotPhase(p) /\ q[m] = SlotPhase(p)'
      /\ \A i \in 1..n : serverEvents'[i] = serverEvents[i]
      /\ \A i \in n + 1..m :
            q[i] = IF serverEvents'[i].peer = p
                   THEN AfterEvent(q[i - 1], serverEvents'[i].kind) ELSE q[i - 1]
  OBVIOUS
<1> HIDE DEF n, m
<1>5. PICK ext : ext = longer
  OBVIOUS
<1>6. \A i \in 1..n : ext[i] = phases[i]
  BY <1>1, <1>5
<1>7. \A i \in n + 1..m : ext[i] = q[i] /\ q[i] \in Phases
  BY <1>1, <1>4, <1>5
<1>8. ext \in [DOMAIN serverEvents' -> Phases]
  BY <1>1, <1>2, <1>7, <1>4, <1>5
<1> HIDE DEF longer
<1>9. ASSUME NEW i \in 1..m
      PROVE  ext[i] = LET before == IF i = 1 THEN seen[p] ELSE ext[i - 1]
                      IN  IF serverEvents'[i].peer = p
                          THEN AfterEvent(before, serverEvents'[i].kind) ELSE before
  <2>1. CASE i <= n
    <3>1. i \in 1..n /\ (i # 1 => i - 1 \in 1..n)
      BY <1>1, <2>1
    <3>2. serverEvents'[i] = serverEvents[i] /\ ext[i] = phases[i]
          /\ (i # 1 => ext[i - 1] = phases[i - 1])
      BY <1>6, <1>4, <3>1
    <3> QED
      BY <1>3, <3>1, <3>2
  <2>2. CASE i = n + 1
    <3>1. i \in n + 1..m /\ i - 1 = n /\ (i # 1 => n \in 1..n) /\ (i = 1 <=> n = 0)
      BY <1>1, <2>2
    <3>2. q[i - 1] = IF i = 1 THEN seen[p] ELSE ext[i - 1]
      BY <1>1, <1>2, <1>6, <1>4, <3>1 DEF n
    <3>3. ext[i] = IF serverEvents'[i].peer = p
                   THEN AfterEvent(q[i - 1], serverEvents'[i].kind) ELSE q[i - 1]
      BY <1>1, <1>4, <1>7, <3>1
    <3>4. PICK e : e = serverEvents'[i]
      OBVIOUS
    <3>5. PICK before : before = q[i - 1]
      OBVIOUS
    <3> QED
      BY <3>2, <3>3, <3>4, <3>5
  <2>3. CASE i > n + 1
    <3>1. i \in n + 1..m /\ i - 1 \in n + 1..m /\ i # 1
      BY <1>1, <2>3
    <3>2. ext[i] = IF serverEvents'[i].peer = p
                   THEN AfterEvent(q[i - 1], serverEvents'[i].kind) ELSE q[i - 1]
      BY <1>1, <1>4, <1>7, <3>1
    <3>3. q[i - 1] = ext[i - 1]
      BY <1>7, <3>1
    <3> QED
      BY <3>1, <3>2, <3>3
  <2> QED
    BY <1>1, <2>1, <2>2, <2>3
<1>10. Leads(p, ext)'
  BY <1>1, <1>9 DEF Leads
<1>11. SlotPhase(p)' = IF serverEvents' = << >> THEN seen'[p] ELSE ext[m]
  <2>1. CASE m = n
    <3>1. n # 0 => ext[n] = phases[n]
      BY <1>1, <1>6
    <3> QED
      BY <1>1, <1>2, <1>4, <2>1, <3>1 DEF n
  <2>2. CASE m # n
    <3>1. m \in n + 1..m
      BY <1>1, <2>2
    <3> QED
      BY <1>1, <1>7, <1>4, <3>1
  <2> QED
    BY <2>1, <2>2
<1> QED
  BY <1>8, <1>10, <1>11 DEF CatchesUp, m

\* One more event is pending, which takes its peer to the phase its slot has now.
LEMMA CatchUpAppended ==
  ASSUME Typed, Numbered, EventsCatchUp, Numbered', seen' = seen,
         NEW kind \in EventKinds, NEW peer \in PeerIds,
         serverEvents' = Append(serverEvents, Event(kind, peer)),
         SlotPhase(peer)' = AfterEvent(SlotPhase(peer), kind),
         \A p \in PeerIds \ {peer} : SlotPhase(p)' = SlotPhase(p)
  PROVE  EventsCatchUp'
<1> DEFINE event == Event(kind, peer)
           n == Len(serverEvents)
<1>1. event.kind = kind /\ event.peer = peer /\ serverEvents' = Append(serverEvents, event)
  BY DEF Event
<1>2. serverEvents' \in Seq(Events) /\ serverEvents \in Seq(Events)
  BY EventsTyped DEF Typed
<1> HIDE DEF event, Events
<1>3. /\ n \in Nat /\ Len(serverEvents') = n + 1
      /\ \A i \in 1..n : serverEvents'[i] = serverEvents[i]
      /\ serverEvents'[n + 1] = event
  BY <1>1, <1>2
<1>4. \A i \in n + 1..n + 1 : i = n + 1 /\ i - 1 = n
  BY <1>3
<1> SUFFICES ASSUME NEW p \in PeerIds PROVE CatchesUp(p)'
  BY DEF EventsCatchUp, CatchesUp
<1> DEFINE steps == [i \in n..n + 1 |-> IF i = n THEN SlotPhase(p) ELSE SlotPhase(p)']
<1>5. PICK q : q = steps
  OBVIOUS
<1>6. /\ q[n] = SlotPhase(p) /\ q[n + 1] = SlotPhase(p)'
      /\ q \in [n..n + 1 -> Phases]
  BY <1>3, <1>5, PhasesNow, PhasesThen
<1> HIDE DEF steps
<1>7. \A i \in n + 1..n + 1 :
         q[i] = IF serverEvents'[i].peer = p
                THEN AfterEvent(q[i - 1], serverEvents'[i].kind) ELSE q[i - 1]
  <2> TAKE i \in n + 1..n + 1
  <2>1. i = n + 1 /\ i - 1 = n
    BY <1>4
  <2>2. CASE p = peer
    BY <1>1, <1>3, <1>6, <2>1, <2>2
  <2>3. CASE p # peer
    BY <1>1, <1>3, <1>6, <2>1, <2>3
  <2> QED
    BY <2>2, <2>3
<1>8. n + 1 \in Nat /\ n <= n + 1
  BY <1>3
<1> QED
  BY <1>2, <1>3, <1>6, <1>7, <1>8, CatchUpExtended

\* Connecting and reading: the slot and the event change together.
LEMMA PollCatchesUp ==
  ASSUME Inv, Numbered', NEW c \in Clients, PollConnect(c) \/ PollReceive(c)
  PROVE  EventsCatchUp'
<1>1. Typed /\ Numbered /\ EventsCatchUp /\ ClientKept(c)
  BY DEF Inv
<1>2. \A d \in Connected : slots[d].id \in PeerIds /\ slots[d].id \in Nat
  BY <1>1, SlotIdsTyped
<1>3. CASE PollConnect(c)
  <2>1. /\ slots' = [d \in Connected \cup {c} |->
                     IF d = c THEN [id |-> nextPeerId, ready |-> FALSE, age |-> 0] ELSE slots[d]]
        /\ nextPeerId' = (nextPeerId + 1) % PeerIdModulus
        /\ serverEvents' = Append(serverEvents, Event("PeerConnected", nextPeerId))
        /\ seen' = seen /\ c \in Unannounced /\ c \notin Connected
    BY <1>1, <1>3 DEF PollConnect, appVars, Unannounced, ClientKept, Follows
  <2>2. nextPeerId \in PeerIds /\ nextPeerId \in Nat /\ nextPeerId' = nextPeerId + 1
    BY <1>1, <2>1, NextIdentifier, ClientsCounted
  <2>3. /\ Connected' = Connected \cup {c}
        /\ slots'[c].id = nextPeerId /\ slots'[c].ready = FALSE
        /\ \A d \in Connected : slots'[d] = slots[d]
    BY <2>1 DEF Connected
  <2>4. \A d \in Connected : slots[d].id < nextPeerId /\ slots[d].id # nextPeerId
    BY <1>1, <1>2, <2>2 DEF Numbered
  <2>5. PICK peer : peer = nextPeerId
    OBVIOUS
  <2>6. SlotPhase(peer) = "unknown" /\ SlotPhase(peer)' = "connected"
    BY <1>1, <2>2, <2>3, <2>4, <2>5, PhasesNow, PhasesThen
  <2>7. ASSUME NEW p \in PeerIds \ {peer} PROVE SlotPhase(p)' = SlotPhase(p)
    <3>1. p \in Nat /\ (p < nextPeerId' <=> p < nextPeerId)
      BY <2>2, <2>5, ClientsCounted
    <3>2. CASE \E d \in Connected : slots[d].id = p
      BY <1>1, <2>3, <3>2, PhasesNow, PhasesThen
    <3>3. CASE ~\E d \in Connected : slots[d].id = p
      BY <1>1, <2>3, <2>5, <3>1, <3>3, PhasesNow, PhasesThen
    <3> QED
      BY <3>2, <3>3
  <2>8. "PeerConnected" \in EventKinds
    BY DEF EventKinds
  <2>9. SlotPhase(peer)' = AfterEvent(SlotPhase(peer), "PeerConnected")
    BY <2>6, FittingEvents
  <2> QED
    BY <1>1, <2>1, <2>2, <2>5, <2>7, <2>8, <2>9, CatchUpAppended
<1>4. CASE PollReceive(c)
  <2>1. /\ c \in Connected /\ Connected' = Connected
        /\ UNCHANGED <<nextPeerId, seen>>
        /\ \A d \in Connected : slots'[d].id = slots[d].id
        /\ \A d \in Connected \ {c} : slots'[d] = slots[d]
    BY <1>1, <1>4, ReceiveEffects DEF appVars
  <2>2. PICK peer : peer = slots[c].id
    OBVIOUS
  <2>3. /\ SlotPhase(peer) = IF slots[c].ready THEN "ready" ELSE "connected"
        /\ SlotPhase(peer)' = IF slots'[c].ready THEN "ready" ELSE "connected"
    BY <1>1, <2>1, <2>2, PhasesNow, PhasesThen
  <2>4. ASSUME NEW p \in PeerIds \ {peer} PROVE SlotPhase(p)' = SlotPhase(p)
    <3>1. CASE \E d \in Connected : slots[d].id = p
      BY <1>1, <2>1, <2>2, <3>1, PhasesNow, PhasesThen
    <3>2. CASE ~\E d \in Connected : slots[d].id = p
      BY <1>1, <2>1, <3>2, PhasesNow, PhasesThen
    <3> QED
      BY <3>1, <3>2
  <2>5. \E kind \in EventKinds :
           /\ serverEvents' = Append(serverEvents, Event(kind, peer))
           /\ \/ kind = "TransportErrorEvent" /\ slots'[c].ready = slots[c].ready
              \/ kind = "PeerSessionReady" /\ ~slots[c].ready /\ slots'[c].ready
              \/ kind = "ReceivedPacket" /\ slots[c].ready /\ slots'[c].ready
    BY <1>1, <1>4, <2>2, ReceiveEffects DEF EventKinds
  <2>6. PICK kind \in EventKinds :
           /\ serverEvents' = Append(serverEvents, Event(kind, peer))
           /\ SlotPhase(peer)' = AfterEvent(SlotPhase(peer), kind)
    BY <2>3, <2>5, FittingEvents
  <2> QED
    BY <1>1, <1>2, <2>1, <2>2, <2>4, <2>6, CatchUpAppended
<1> QED
  BY <1>3, <1>4

\* Peers that are gone: one event for each.
LEMMA RemovalCatchesUp ==
  ASSUME Inv, Typed', Numbered', \/ \E c \in Clients : PollDisconnect(c)
                                 \/ ExpirePendingSessions
  PROVE  EventsCatchUp'
<1>1. Typed /\ Numbered /\ EventsCatchUp
  BY DEF Inv
<1>2. PICK gone \in SUBSET Connected : Removes(gone)
  BY <1>1, RemovalEffects
<1> SUFFICES ASSUME NEW p \in PeerIds PROVE CatchesUp(p)'
  BY DEF EventsCatchUp, CatchesUp
<1> DEFINE n == Len(serverEvents)
           m == Len(serverEvents')
           told(i) == \E j \in n + 1..i : serverEvents'[j].peer = p
           steps == [i \in n..m |-> IF told(i) THEN "gone" ELSE SlotPhase(p)]
<1>3. /\ m \in Nat /\ n \in Nat /\ n <= m /\ serverEvents' \in Seq(Events) /\ seen' = seen
      /\ \A i \in 1..n : serverEvents'[i] = serverEvents[i]
      /\ nextPeerId' = nextPeerId /\ Connected' = Connected \ gone
      /\ \A d \in Connected \ gone : slots'[d] = slots[d]
  BY <1>1, <1>2 DEF Removes, Typed, appVars
<1>4. /\ \A i \in n + 1..m : \E d \in gone :
            serverEvents'[i].kind = "PeerDisconnected" /\ serverEvents'[i].peer = slots[d].id
      /\ \A d \in gone : \E i \in n + 1..m : serverEvents'[i].peer = slots[d].id
      /\ \A i, j \in n + 1..m : serverEvents'[i].peer = serverEvents'[j].peer => i = j
  BY <1>2 DEF Removes
<1>5. PICK q : q = steps
  OBVIOUS
<1> HIDE DEF n, m
<1>6. q \in [n..m -> Phases]
  BY <1>1, <1>5, PhasesNow DEF Phases
<1>7. q[n] = SlotPhase(p)
  <2>1. ~told(n) /\ n \in n..m
    BY <1>3
  <2> HIDE DEF told
  <2> QED
    BY <1>5, <2>1
<1>8. \A i \in n + 1..m :
         q[i] = IF serverEvents'[i].peer = p
                THEN AfterEvent(q[i - 1], serverEvents'[i].kind) ELSE q[i - 1]
  <2> TAKE i \in n + 1..m
  <2>1. i \in n..m /\ i - 1 \in n..m /\ (\A j \in n + 1..i - 1 : j \in n + 1..m /\ j # i)
        /\ (\A j \in n + 1..i : j = i \/ j \in n + 1..i - 1) /\ i \in n + 1..i
        /\ (\A j \in n + 1..i - 1 : j \in n + 1..i)
    BY <1>3
  <2>2. CASE serverEvents'[i].peer = p
    <3>1. PICK d \in gone : serverEvents'[i].kind = "PeerDisconnected" /\ p = slots[d].id
      BY <1>4, <2>2
    <3>2. SlotPhase(p) \in {"connected", "ready"}
      BY <1>1, <3>1, PhasesNow
    <3>3. told(i)
      BY <2>1, <2>2
    <3>4. ~told(i - 1)
      BY <1>4, <2>1, <2>2
    <3> HIDE DEF told
    <3>5. q[i] = "gone" /\ q[i - 1] = SlotPhase(p)
      BY <1>5, <2>1, <3>3, <3>4
    <3> QED
      BY <2>2, <3>1, <3>2, <3>5, FittingEvents
  <2>3. CASE serverEvents'[i].peer # p
    <3>1. told(i) <=> told(i - 1)
      BY <2>1, <2>3
    <3> HIDE DEF told
    <3>2. q[i] = q[i - 1]
      BY <1>5, <2>1, <3>1
    <3> QED
      BY <2>3, <3>2
  <2> QED
    BY <2>2, <2>3
<1>9. q[m] = SlotPhase(p)'
  <2>1. m \in n..m
    BY <1>3
  <2>2. CASE \E d \in gone : slots[d].id = p
    <3>1. PICK d \in gone : slots[d].id = p
      BY <2>2
    <3>2. told(m)
      BY <1>4, <3>1
    <3> HIDE DEF told
    <3>3. q[m] = "gone"
      BY <1>5, <2>1, <3>2
    <3>4. \A e \in Connected' : slots'[e].id # p
      BY <1>1, <1>3, <3>1 DEF Numbered
    <3>5. p < nextPeerId'
      BY <1>1, <1>3, <3>1 DEF Numbered
    <3> QED
      BY <3>3, <3>4, <3>5, PhasesThen
  <2>3. CASE ~\E d \in gone : slots[d].id = p
    <3>1. ~told(m)
      BY <1>4, <2>3
    <3> HIDE DEF told
    <3>2. q[m] = SlotPhase(p)
      BY <1>5, <2>1, <3>1
    <3>3. SlotPhase(p)' = SlotPhase(p)
      <4>1. CASE \E d \in Connected : slots[d].id = p
        BY <1>1, <1>3, <2>3, <4>1, PhasesNow, PhasesThen
      <4>2. CASE ~\E d \in Connected : slots[d].id = p
        BY <1>1, <1>3, <4>2, PhasesNow, PhasesThen
      <4> QED
        BY <4>1, <4>2
    <3> QED
      BY <3>2, <3>3
  <2> QED
    BY <2>2, <2>3
<1> HIDE DEF steps, told
<1> QED
  BY <1>1, <1>3, <1>6, <1>7, <1>8, <1>9, CatchUpExtended DEF n, m

\* Handling an event moves what the application was told by one.
LEMMA HandlingCatchesUp ==
  ASSUME Inv, Numbered', HandleServerEvent
  PROVE  EventsCatchUp'
<1> DEFINE event == Head(serverEvents)
           n == Len(serverEvents)
<1>1. Typed /\ Numbered /\ EventsCatchUp
  BY DEF Inv
<1>2. /\ serverEvents # << >>
      /\ seen' = [seen EXCEPT ![event.peer] = AfterEvent(@, event.kind)]
      /\ serverEvents' = Tail(serverEvents)
      /\ UNCHANGED <<slots, nextPeerId>>
  BY DEF HandleServerEvent
<1>3. /\ event = serverEvents[1] /\ event.peer \in PeerIds
      /\ n \in Nat /\ n # 0 /\ Len(serverEvents') = n - 1
      /\ \A i \in 1..n - 1 : serverEvents'[i] = serverEvents[i + 1]
      /\ DOMAIN serverEvents = 1..n /\ DOMAIN serverEvents' = 1..n - 1
      /\ (serverEvents' = << >> <=> n = 1)
  <2>1. event = serverEvents[1] /\ event \in Events /\ serverEvents \in Seq(Events)
    BY <1>1, <1>2, FirstEvent DEF Typed
  <2>2. event.peer \in PeerIds
    BY <2>1 DEF Events
  <2>3. /\ n \in Nat /\ Len(Tail(serverEvents)) = n - 1 /\ Tail(serverEvents) \in Seq(Events)
        /\ 1 \in 1..n
        /\ \A i \in 1..Len(Tail(serverEvents)) : Tail(serverEvents)[i] = serverEvents[i + 1]
    BY <1>1, <1>2, FirstEvent
  <2> HIDE DEF event, Events
  <2>4. DOMAIN serverEvents = 1..n /\ n # 0
    BY <2>1, <2>3
  <2>5. DOMAIN serverEvents' = 1..n - 1
    BY <1>2, <2>3
  <2>6. serverEvents' = << >> <=> n = 1
    BY <1>2, <2>3
  <2> QED
    BY <1>2, <2>1, <2>2, <2>3, <2>4, <2>5, <2>6
<1> HIDE DEF event
<1> SUFFICES ASSUME NEW p \in PeerIds PROVE CatchesUp(p)'
  BY DEF EventsCatchUp, CatchesUp
<1>4. PICK phases \in [DOMAIN serverEvents -> Phases] :
         /\ Leads(p, phases)
         /\ SlotPhase(p) = IF serverEvents = << >> THEN seen[p] ELSE phases[n]
  BY <1>1 DEF EventsCatchUp
<1>5. SlotPhase(p) = phases[n]
  BY <1>2, <1>4
<1> HIDE DEF n
<1>6. \A i \in 1..n : phases[i] = LET before == IF i = 1 THEN seen[p] ELSE phases[i - 1]
                                   IN  IF serverEvents[i].peer = p
                                       THEN AfterEvent(before, serverEvents[i].kind) ELSE before
  BY <1>3, <1>4 DEF Leads
<1>7. seen'[p] = phases[1]
  <2>1. 1 \in 1..n
    BY <1>3
  <2>2. phases[1] = IF event.peer = p THEN AfterEvent(seen[p], event.kind) ELSE seen[p]
    BY <1>3, <1>6, <2>1
  <2>3. seen \in [PeerIds -> Phases]
    BY <1>1 DEF Typed
  <2>4. seen'[p] = IF p = event.peer THEN AfterEvent(seen[p], event.kind) ELSE seen[p]
    BY <1>2, <2>3
  <2> QED
    BY <2>2, <2>4
<1> DEFINE rest == [i \in 1..n - 1 |-> phases[i + 1]]
<1>8. PICK q : q = rest
  OBVIOUS
<1>9. \A i \in 1..n - 1 : q[i] = phases[i + 1] /\ i + 1 \in 1..n /\ i + 1 # 1
  BY <1>3, <1>8
<1>10. q \in [DOMAIN serverEvents' -> Phases]
  BY <1>3, <1>4, <1>8, <1>9
<1> HIDE DEF rest
<1>11. ASSUME NEW i \in 1..n - 1
       PROVE  q[i] = LET before == IF i = 1 THEN seen'[p] ELSE q[i - 1]
                     IN  IF serverEvents'[i].peer = p
                         THEN AfterEvent(before, serverEvents'[i].kind) ELSE before
  <2>1. serverEvents'[i] = serverEvents[i + 1] /\ q[i] = phases[i + 1]
    BY <1>3, <1>9
  <2>2. i + 1 \in 1..n /\ i + 1 # 1 /\ (i + 1) - 1 = i
    BY <1>3
  <2>3. phases[i + 1] = IF serverEvents[i + 1].peer = p
                        THEN AfterEvent(phases[i], serverEvents[i + 1].kind) ELSE phases[i]
    BY <1>6, <2>2
  <2>4. phases[i] = IF i = 1 THEN seen'[p] ELSE q[i - 1]
    <3>1. CASE i = 1
      BY <1>7, <3>1
    <3>2. CASE i # 1
      <4>1. i - 1 \in 1..n - 1 /\ (i - 1) + 1 = i
        BY <1>3, <3>2
      <4>2. q[i - 1] = phases[(i - 1) + 1]
        BY <1>9, <4>1
      <4> QED
        BY <3>2, <4>1, <4>2
    <3> QED
      BY <3>1, <3>2
  <2> QED
    BY <2>1, <2>3, <2>4
<1>12. Leads(p, q)'
  BY <1>3, <1>11 DEF Leads
<1>13. SlotPhase(p)' = SlotPhase(p)
  BY <1>2 DEF SlotPhase, Connected
<1>14. SlotPhase(p)' = IF serverEvents' = << >> THEN seen'[p] ELSE q[Len(serverEvents')]
  <2>1. CASE n = 1
    BY <1>3, <1>5, <1>7, <1>13, <2>1
  <2>2. CASE n # 1
    <3>1. n - 1 \in 1..n - 1 /\ (n - 1) + 1 = n
      BY <1>3, <2>2
    <3>2. q[n - 1] = phases[n]
      BY <1>9, <3>1
    <3> QED
      BY <1>3, <1>5, <1>13, <2>2, <3>2
  <2> QED
    BY <2>1, <2>2
<1> QED
  BY <1>10, <1>12, <1>14 DEF CatchesUp

\* The rest changes no phase and is told to nobody.
LEMMA UntouchedCatchesUp ==
  ASSUME Inv, Numbered', UNCHANGED <<serverEvents, seen, nextPeerId>>, Connected' = Connected,
         \A c \in Connected : slots'[c].id = slots[c].id /\ slots'[c].ready = slots[c].ready
  PROVE  EventsCatchUp'
<1>1. Numbered /\ EventsCatchUp
  BY DEF Inv
<1>2. \A p : SlotPhase(p)' = SlotPhase(p)
  <2> TAKE p
  <2>1. CASE \E d \in Connected : slots[d].id = p
    BY <1>1, <2>1, PhasesNow, PhasesThen
  <2>2. CASE ~\E d \in Connected : slots[d].id = p
    BY <1>1, <2>2, PhasesNow, PhasesThen
  <2> QED
    BY <2>1, <2>2
<1>3. \A p, phases : Leads(p, phases)' <=> Leads(p, phases)
  BY DEF Leads
<1> QED
  BY <1>1, <1>2, <1>3 DEF EventsCatchUp

\* Every step keeps the account of events.
LEMMA CatchUpStep ==
  ASSUME Inv, Next, Typed', Numbered'
  PROVE  EventsCatchUp'
<1>1. Typed
  BY DEF Inv
<1>2. CASE \E c \in Clients : PollConnect(c) \/ PollReceive(c)
  BY <1>2, PollCatchesUp
<1>3. CASE (\E c \in Clients : PollDisconnect(c)) \/ ExpirePendingSessions
  BY <1>3, RemovalCatchesUp
<1>4. CASE HandleServerEvent
  BY <1>4, HandlingCatchesUp
<1>5. ASSUME UNCHANGED <<serverVars, seen>>
      PROVE  EventsCatchUp'
  BY <1>5, UntouchedCatchesUp DEF serverVars, Connected
<1>6. ASSUME NEW c \in Clients,
             \/ ClientStep(c) \/ EnetAnswer(c) \/ EnetForget(c) \/ ServerSend(c)
             \/ \E code \in {"ServerFull", "ProtocolMismatch"} : ServerDisconnect(c, code)
             \/ \E message \in {"ClientHello", "Payload", "Oversized"} : ForeignSend(c, message)
      PROVE  EventsCatchUp'
  <2>1. UNCHANGED <<serverVars, seen>>
    BY <1>6 DEF ClientStep, Connect, PollClientConnect, PollClientReceive,
         PollClientReceiveOther, PollClientDisconnect, ExpirePendingSession, HandleClientEvent,
         ClientStops, EnetAnswer, EnetForget, ServerSend, ServerDisconnect, ForeignSend, appVars
  <2> QED
    BY <1>5, <2>1
<1>7. CASE Elapse
  <2>1. /\ slots' = [c \in Connected |->
                        IF ~slots[c].ready /\ slots[c].age < HandshakeTimeout
                        THEN [slots[c] EXCEPT !.age = @ + 1] ELSE slots[c]]
        /\ UNCHANGED <<nextPeerId, serverEvents, seen>>
    BY <1>7 DEF Elapse, appVars
  <2>2. Connected' = Connected
    BY <2>1 DEF Connected
  <2>3. \A c \in Connected : slots'[c].id = slots[c].id /\ slots'[c].ready = slots[c].ready
    BY <1>1, <2>1 DEF Typed, Slots
  <2> QED
    BY <2>1, <2>2, <2>3, UntouchedCatchesUp
<1> QED
  BY <1>2, <1>3, <1>4, <1>6, <1>7 DEF Next, ServerStep

-----------------------------------------------------------------------------
(* The invariant, and what follows from it. *)

\* Nobody has connected, and nothing is pending.
LEMMA InvInit == Init => Inv
<1> SUFFICES ASSUME Init PROVE Inv
  OBVIOUS
<1>1. Connected = {}
  BY DEF Init, Connected
<1>2. Typed
  <2>1. << >> \in Seq(Events) /\ << >> \in Seq(ClientEvents) /\ << >> \in Seq(Requests)
        /\ << >> \in Seq(Replies)
    OBVIOUS
  <2> HIDE DEF Events, ClientEvents, Requests, Replies
  <2> QED
    BY <1>1, <2>1, TransportAssumption DEF Init, Typed, Phases, DisconnectCodes
<1>3. Numbered
  <2>1. Unannounced = Clients /\ Occupying = {}
    BY DEF Init, Unannounced, Occupying
  <2>2. Cardinality(Occupying) <= MaxPeers
    BY <2>1, FS_EmptySet, TransportAssumption
  <2>3. nextPeerId + Cardinality(Unannounced) <= Cardinality(Clients) + 1
    BY <2>1, ClientsCounted DEF Init
  <2> QED
    BY <1>1, <2>2, <2>3 DEF Init, Numbered
<1>4. ASSUME NEW c \in Clients PROVE ClientKept(c)
  <2>1. /\ clientPeer[c] = "none" /\ clientReady[c] = FALSE /\ serverPeer[c] = "none"
        /\ up[c] = << >> /\ down[c] = << >> /\ downOther[c] = 0
    BY DEF Init
  <2> QED
    BY <1>1, <2>1 DEF ClientKept, Follows, Accepted, OwnClient
<1>5. EventsCatchUp
  <2> SUFFICES ASSUME NEW p \in PeerIds
               PROVE  \E phases \in [DOMAIN serverEvents -> Phases] :
                         /\ Leads(p, phases)
                         /\ SlotPhase(p) = IF serverEvents = << >> THEN seen[p]
                                           ELSE phases[Len(serverEvents)]
    BY DEF EventsCatchUp
  <2>1. serverEvents = << >> /\ DOMAIN serverEvents = {} /\ nextPeerId = 1
        /\ seen[p] = "unknown"
    BY DEF Init
  <2>2. SlotPhase(p) = "unknown"
    BY <1>1, <2>1, ClientsCounted DEF SlotPhase
  <2>3. [i \in {} |-> "unknown"] \in [DOMAIN serverEvents -> Phases]
    BY <2>1
  <2> QED
    BY <2>1, <2>2, <2>3 DEF Leads
<1> QED
  BY <1>2, <1>3, <1>4, <1>5 DEF Inv

\* A stuttering step.
LEMMA InvStutter == Inv /\ UNCHANGED vars => Inv'
<1> SUFFICES ASSUME Inv, UNCHANGED vars PROVE Inv'
  OBVIOUS
<1>1. Typed /\ Numbered /\ EventsCatchUp /\ \A c \in Clients : ClientKept(c)
  BY DEF Inv
<1>2. UNCHANGED <<slots, nextPeerId, serverEvents, clientPeer, clientReady, clientAge,
                  clientEvents, serverPeer, leaveCode, up, down, downOther, seen, joined,
                  connection>> /\ Connected' = Connected
  BY DEF vars, serverVars, clientVars, enetVars, appVars, Connected
<1>3. Typed'
  BY <1>1, <1>2 DEF Typed
<1>4. Unannounced' = Unannounced /\ Occupying' = Occupying
  BY <1>2 DEF Unannounced, Occupying
<1>5. Numbered'
  BY <1>1, <1>2, <1>4, NumberingUntouched
<1>6. \A p : Heard(p)' => Heard(p)
  BY <1>2, HeardUntouched
<1>7. \A c \in Clients : ClientKept(c)'
  BY <1>1, <1>2, <1>6, ClientFrame
<1>8. EventsCatchUp'
  BY <1>2, <1>5, UntouchedCatchesUp
<1> QED
  BY <1>3, <1>5, <1>7, <1>8 DEF Inv

\* The invariant holds of every behaviour, whatever ENet loses and foreign clients send.
THEOREM SessionsKept == Spec => []Inv
<1>1. Inv /\ Next => Inv'
  <2> SUFFICES ASSUME Inv, Next PROVE Inv'
    OBVIOUS
  <2>1. Typed' /\ Numbered' /\ (\A c \in Clients : ClientKept(c)')
    BY TypedStep, NumberedStep, ClientKeptStep
  <2>2. EventsCatchUp'
    BY <2>1, CatchUpStep
  <2> QED
    BY <2>1, <2>2 DEF Inv
<1> QED
  BY <1>1, InvInit, InvStutter, PTL DEF Spec

\* SlotsKept, for any number of clients and peers: a peer of ENet's and its slot come and
\* go together, within the limit, and the pending events account for every slot
\* (handle_connect, handle_disconnect, disconnect, expire_pending_sessions).
THEOREM SlotsAreKept == Spec => []SlotsKept
<1>1. Inv => SlotsKept
  <2> SUFFICES ASSUME Inv PROVE SlotsKept
    OBVIOUS
  <2>1. Typed /\ Numbered /\ EventsCatchUp /\ \A c \in Clients : Follows(c)
    BY DEF Inv, ClientKept
  <2>2. SlotsMatchPeers
    BY <2>1 DEF SlotsMatchPeers, Follows
  <2>3. Cardinality(Connected) <= MaxPeers
    <3>1. Connected \subseteq Occupying /\ Occupying \in SUBSET Clients
          /\ Connected \in SUBSET Clients
      BY <2>1 DEF Typed, Occupying, Follows
    <3>2. IsFiniteSet(Occupying) /\ Cardinality(Occupying) \in Nat /\ Cardinality(Connected) \in Nat
      BY <3>1, ClientsCounted
    <3>3. Cardinality(Connected) <= Cardinality(Occupying)
      BY <3>1, <3>2, FS_Subset
    <3> QED
      BY <2>1, <3>2, <3>3, TransportAssumption DEF Numbered
  <2>4. nextPeerId \in 1..Cardinality(Clients) + 1
    <3>1. Cardinality(Unannounced) \in Nat /\ Cardinality(Clients) \in Nat
      BY ClientsCounted DEF Unannounced
    <3> QED
      BY <2>1, <3>1 DEF Typed, Numbered
  <2>5. TypeOK
    BY <2>1, <2>3, <2>4 DEF Typed, TypeOK, Slots, Events, ClientEvents, Requests, Replies
  <2> QED
    BY <2>1, <2>2, <2>5 DEF SlotsKept
<1> QED
  BY <1>1, SessionsKept, PTL

\* SessionsAgree: a client that is ready has the server's identity and no slot that waits,
\* and a client of SimNet's own is sent no payload before it knows that it is ready
\* (handle_client_hello, handle_session_receive, send).
THEOREM BothSidesAgree == Spec => []SessionsAgree
<1>1. Inv => SessionsAgree
  <2> SUFFICES ASSUME Inv PROVE SessionsAgree
    OBVIOUS
  <2>1. Typed /\ \A c \in Clients : ClientKept(c)
    BY DEF Inv
  <2>2. SessionAgreement
    BY <2>1 DEF SessionAgreement, ClientKept, Accepted
  <2>3. NoEarlyPayload
    <3> SUFFICES ASSUME NEW c \in Clients \ Foreign, ~clientReady[c], clientPeer[c] = "connected"
                 PROVE  /\ downOther[c] = 0
                        /\ \A i \in DOMAIN down[c] : down[c][i].kind # "Payload"
                              \/ \E j \in 1..i - 1 : down[c][j].kind = "ServerAccept"
      BY DEF NoEarlyPayload
    <3>1. OwnClient(c)
      BY <2>1 DEF ClientKept
    <3>2. DOMAIN down[c] = 1..Len(down[c])
      BY <2>1, ClientTypes
    <3> QED
      BY <3>1, <3>2 DEF OwnClient
  <2> QED
    BY <2>2, <2>3 DEF SessionsAgree
<1> QED
  BY <1>1, SessionsKept, PTL

\* SessionSpec: what the server application is told of each peer is a behaviour of
\* SessionEvents, connected before ready and ready before payloads, and nothing after the
\* end (poll_transport and what poll queues for it).
THEOREM EventsInOrder == Spec => SessionSpec
<1>1. Init => Sessions!SessionInit
  BY DEF Init, Sessions!SessionInit
<1>2. Inv /\ [Next]_vars => [Sessions!SessionNext]_seen
  <2> SUFFICES ASSUME Inv, [Next]_vars PROVE [Sessions!SessionNext]_seen
    OBVIOUS
  <2>1. Typed /\ EventsCatchUp
    BY DEF Inv
  <2>2. CASE HandleServerEvent
    <3> DEFINE event == Head(serverEvents)
               after == AfterEvent(seen[event.peer], event.kind)
    <3>1. serverEvents # << >> /\ seen' = [seen EXCEPT ![event.peer] = after]
      BY <2>2 DEF HandleServerEvent
    <3>2. event.peer \in PeerIds
      BY <2>1, <3>1, FirstEvent DEF Events
    <3>3. after \in Phases /\ seen \in [PeerIds -> Phases]
      BY <2>1, <3>1, FirstEventFits DEF Typed
    <3>4. \/ after = "connected" /\ seen[event.peer] = "unknown"
          \/ after = "ready" /\ seen[event.peer] = "connected"
          \/ after = "gone" /\ seen[event.peer] \in {"connected", "ready"}
          \/ after = seen[event.peer]
      BY <3>3 DEF AfterEvent, Phases
    <3> HIDE DEF event, after
    <3>5. CASE after = seen[event.peer]
      BY <3>1, <3>2, <3>3, <3>5
    <3>6. CASE after # seen[event.peer]
      BY <3>1, <3>2, <3>4, <3>6 DEF Sessions!SessionNext, Sessions!PeerConnected,
         Sessions!PeerSessionReady, Sessions!PeerDisconnected
    <3> QED
      BY <3>5, <3>6
  <2>3. CASE ~HandleServerEvent
    <3>1. ASSUME NEW c \in Clients, ServerStep(c) PROVE UNCHANGED seen
      BY <3>1 DEF ServerStep, PollConnect, PollReceive, PollDisconnect, appVars
    <3>2. ASSUME NEW c \in Clients, ClientStep(c) PROVE UNCHANGED seen
      BY <3>2 DEF ClientStep, Connect, PollClientConnect, PollClientReceive,
         PollClientReceiveOther, PollClientDisconnect, ExpirePendingSession, HandleClientEvent,
         ClientStops, appVars
    <3>3. ASSUME NEW c \in Clients, EnetAnswer(c) \/ EnetForget(c) \/ ServerSend(c)
          PROVE  UNCHANGED seen
      BY <3>3 DEF EnetAnswer, EnetForget, ServerSend, appVars
    <3>4. ASSUME NEW c \in Clients, NEW code, ServerDisconnect(c, code) PROVE UNCHANGED seen
      BY <3>4 DEF ServerDisconnect, appVars
    <3>5. ASSUME NEW c \in Clients, NEW message, ForeignSend(c, message) PROVE UNCHANGED seen
      BY <3>5 DEF ForeignSend, appVars
    <3>6. ASSUME ExpirePendingSessions \/ Elapse \/ UNCHANGED vars PROVE UNCHANGED seen
      BY <3>6 DEF ExpirePendingSessions, Elapse, appVars, vars
    <3> QED
      BY <2>3, <3>1, <3>2, <3>3, <3>4, <3>5, <3>6 DEF Next
  <2> QED
    BY <2>2, <2>3
<1> QED
  BY <1>1, <1>2, SessionsKept, PTL DEF Spec, SessionSpec, Sessions!SessionSpec
=============================================================================
