--------------------------- MODULE TransportSession ---------------------------
(***************************************************************************)
(* The ENet transport of the server and of its clients: connecting, the    *)
(* session handshake with its timeout on both sides, rejection,            *)
(* disconnection, and the events each side's application is told.  A       *)
(* client connects once; a restarted client is another member of Clients.  *)
(* ENet is external: it delivers each lane in order, lanes independently   *)
(* of each other, and may declare a connection dead at any time.           *)
(***************************************************************************)
EXTENDS Naturals, Sequences, FiniteSets, Functions

CONSTANTS Clients,          \* processes that connect to the server
          Identity,         \* [Clients -> session identity]
          ExpectedIdentity, \* the server's session identity
          Foreign,          \* clients that send other things than SimNet's do
          MaxPeers,         \* ENet's peer limit at the server
          HandshakeTimeout, \* handshake_timeout in steps of Elapse
          PeerIdModulus,    \* PeerId is a 16-bit integer
          MaxStray,         \* model bound on unread messages of a foreign client
          MaxPolled         \* model bound on events one side polls before handling

\* SessionIdentity: its three fields, all of them compared.
Identities == [protocol : Nat, config : Nat, wire : Nat]

ASSUME TransportAssumption ==
    /\ Identity \in [Clients -> Identities] /\ ExpectedIdentity \in Identities
    /\ Foreign \subseteq Clients
    /\ MaxPeers \in Nat \ {0}
    /\ HandshakeTimeout \in Nat \ {0}
    /\ IsFiniteSet(Clients)
    /\ PeerIdModulus \in Nat /\ Cardinality(Clients) + 1 < PeerIdModulus
    /\ MaxStray \in Nat
    /\ MaxPolled \in Nat \ {0}

VARIABLES
    \* the server's transport
    slots,        \* peers_: client -> [id, ready, age]
    nextPeerId,
    serverEvents, \* events polled and not yet handled by the application
    \* each client's transport
    clientPeer,   \* the client's ENet peer: "none", "connecting", "connected", "closed"
    clientReady,  \* session_ready_
    clientAge,    \* time since connect(), capped
    clientEvents,
    \* ENet
    serverPeer,   \* "none", "pending", "connected", "leaving"
    leaveCode,    \* code of the server's last disconnect()
    up,           \* lane 0, client to server
    down,         \* lane 0, server to client
    downOther,    \* payloads under way to the client on another lane
    \* the applications
    seen,         \* what the server application was told of each peer id
    joined,       \* peer ids a payload of which was handled: the server serves them
    connection,   \* the client's connection_state
    stopCause     \* the client's stop_cause

serverVars == <<slots, nextPeerId, serverEvents>>
clientVars == <<clientPeer, clientReady, clientAge, clientEvents>>
enetVars == <<serverPeer, leaveCode, up, down, downOther>>
appVars == <<seen, joined, connection, stopCause>>
vars == <<serverVars, clientVars, enetVars, appVars>>

PeerIds == 1..Cardinality(Clients)

EventKinds == {"PeerConnected", "PeerSessionReady", "PeerDisconnected", "ReceivedPacket",
               "TransportErrorEvent"}

Phases == {"unknown", "connected", "ready", "gone"}

DisconnectCodes == {"None", "Timeout", "ProtocolMismatch", "IncompatibleConfig",
                    "IncompatibleWireProfile", "ServerFull", "TransportError"}

Init ==
    /\ slots = << >>
    /\ nextPeerId = 1
    /\ serverEvents = << >>
    /\ clientPeer = [c \in Clients |-> "none"]
    /\ clientReady = [c \in Clients |-> FALSE]
    /\ clientAge = [c \in Clients |-> 0]
    /\ clientEvents = [c \in Clients |-> << >>]
    /\ serverPeer = [c \in Clients |-> "none"]
    /\ leaveCode = [c \in Clients |-> "None"]
    /\ up = [c \in Clients |-> << >>]
    /\ down = [c \in Clients |-> << >>]
    /\ downOther = [c \in Clients |-> 0]
    /\ seen = [p \in PeerIds |-> "unknown"]
    /\ joined = {}
    /\ connection = [c \in Clients |-> "Connecting"]
    /\ stopCause = [c \in Clients |-> "None"]

Event(kind, peer) == [kind |-> kind, peer |-> peer]
ClientEvent(kind, code) == [kind |-> kind, code |-> code]

Connected == DOMAIN slots

\* Faulty variant: the slot of a peer that is gone stays.
AllSlots(gone) == slots

WithoutSlots(gone) == Restrict(slots, Connected \ gone)

-----------------------------------------------------------------------------
(* The server's transport. *)

\* identity_mismatch: the first field that differs.
IdentityMismatch(actual, expected) ==
    IF actual.protocol # expected.protocol THEN "ProtocolMismatch"
    ELSE IF actual.config # expected.config THEN "IncompatibleConfig"
    ELSE IF actual.wire # expected.wire THEN "IncompatibleWireProfile"
    ELSE "None"

\* Faulty variant: the ENet peer is reset at once, so that its end is never reported.
ResetPeer(c, code) ==
    /\ serverPeer' = [serverPeer EXCEPT ![c] = "none"]
    /\ leaveCode' = [leaveCode EXCEPT ![c] = code]

\* disconnect(): the ENet peer leaves once what it was sent is acknowledged; the
\* slot stays until ENet reports the end.  A later code replaces an earlier one.
Disconnect(c, code) ==
    /\ serverPeer' = [serverPeer EXCEPT ![c] = "leaving"]
    /\ leaveCode' = [leaveCode EXCEPT ![c] = code]

\* enet_peer_send accepts nothing for a peer that is leaving.
CanSend(c) == serverPeer[c] = "connected"

PollConnect(c) ==
    /\ serverPeer[c] = "pending"
    /\ clientPeer[c] # "connecting"
    /\ serverPeer' = [serverPeer EXCEPT ![c] = "connected"]
    /\ slots' = [d \in Connected \cup {c} |->
                    IF d = c THEN [id |-> nextPeerId, ready |-> FALSE, age |-> 0]
                             ELSE slots[d]]
    /\ nextPeerId' = (nextPeerId + 1) % PeerIdModulus
    /\ serverEvents' = Append(serverEvents, Event("PeerConnected", nextPeerId))
    /\ UNCHANGED <<clientVars, leaveCode, up, down, downOther, appVars>>

\* What a slot that is not ready makes of a message.
RefuseMessage(c, code) ==
    /\ Disconnect(c, code)
    /\ serverEvents' = Append(serverEvents, Event("TransportErrorEvent", slots[c].id))
    /\ UNCHANGED slots

\* handle_client_hello
HandleClientHello(c) ==
    LET mismatch == IdentityMismatch(Identity[c], ExpectedIdentity) IN
    \/ /\ mismatch # "None"
       /\ RefuseMessage(c, mismatch)
       /\ down' = IF CanSend(c)
                  THEN [down EXCEPT ![c] = Append(@, [kind |-> "ServerReject", code |-> mismatch])]
                  ELSE down
    \/ /\ mismatch = "None" /\ ~CanSend(c)
       /\ RefuseMessage(c, "TransportError")
       /\ UNCHANGED down
    \/ /\ mismatch = "None" /\ CanSend(c)
       /\ down' = [down EXCEPT ![c] = Append(@, [kind |-> "ServerAccept", code |-> "None"])]
       /\ slots' = [slots EXCEPT ![c].ready = TRUE]
       /\ serverEvents' = Append(serverEvents, Event("PeerSessionReady", slots[c].id))
       /\ UNCHANGED <<serverPeer, leaveCode>>

\* Faulty variant: a payload is passed on whether or not the session is ready.
HandleReceiveUnchecked(c, message) ==
    \/ /\ message = "ClientHello" /\ ~slots[c].ready
       /\ HandleClientHello(c)
    \/ /\ message # "ClientHello" \/ slots[c].ready
       /\ serverEvents' = Append(serverEvents, Event("ReceivedPacket", slots[c].id))
       /\ UNCHANGED <<slots, down, serverPeer, leaveCode>>

\* handle_receive: "Oversized" stands for what exceeds the receive limit.
HandleReceive(c, message) ==
    \/ /\ \/ message = "Oversized"
          \/ ~slots[c].ready /\ message # "ClientHello"
       /\ RefuseMessage(c, "ProtocolMismatch")
       /\ UNCHANGED down
    \/ /\ ~slots[c].ready /\ message = "ClientHello"
       /\ HandleClientHello(c)
    \/ /\ slots[c].ready /\ message # "Oversized"
       /\ serverEvents' = Append(serverEvents, Event("ReceivedPacket", slots[c].id))
       /\ UNCHANGED <<slots, down, serverPeer, leaveCode>>

PollReceive(c) ==
    /\ c \in Connected
    /\ up[c] # << >>
    /\ HandleReceive(c, Head(up[c]))
    /\ up' = [up EXCEPT ![c] = Tail(@)]
    /\ UNCHANGED <<nextPeerId, clientVars, downOther, appVars>>

\* ENet's DISCONNECT event: the client said so, acknowledged the server's own
\* disconnect, or the connection is dead.
PollDisconnect(c) ==
    /\ c \in Connected
    /\ serverEvents' = Append(serverEvents, Event("PeerDisconnected", slots[c].id))
    /\ slots' = WithoutSlots({c})
    /\ serverPeer' = [serverPeer EXCEPT ![c] = "none"]
    /\ up' = [up EXCEPT ![c] = << >>]
    /\ UNCHANGED <<nextPeerId, clientVars, leaveCode, down, downOther, appVars>>

\* Faulty variant: only a peer that was already refused is removed.
RefusedAndExpired == {c \in Connected :
    ~slots[c].ready /\ slots[c].age >= HandshakeTimeout /\ serverPeer[c] = "leaving"}

\* Slots whose handshake took too long.
ExpiredSessions == {c \in Connected : ~slots[c].ready /\ slots[c].age >= HandshakeTimeout}

\* Clients in the order of peers_, oldest slot first.
SlotOrders(expired) ==
    {order \in [1..Cardinality(expired) -> expired] :
        /\ \A c \in expired : \E i \in DOMAIN order : order[i] = c
        /\ \A i, j \in DOMAIN order : i < j => slots[order[i]].id < slots[order[j]].id}

ExpirePendingSessions ==
    LET expired == ExpiredSessions IN
    /\ expired # {}
    /\ slots' = WithoutSlots(expired)
    /\ serverPeer' = [c \in Clients |-> IF c \in expired THEN "none" ELSE serverPeer[c]]
    /\ up' = [c \in Clients |-> IF c \in expired THEN << >> ELSE up[c]]
    /\ \E order \in SlotOrders(expired) :
          serverEvents' = serverEvents \o
              [i \in DOMAIN order |-> Event("PeerDisconnected", slots[order[i]].id)]
    /\ UNCHANGED <<nextPeerId, clientVars, leaveCode, down, downOther, appVars>>

-----------------------------------------------------------------------------
(* A client's transport. *)

Connect(c) ==
    /\ clientPeer[c] = "none"
    /\ clientPeer' = [clientPeer EXCEPT ![c] = "connecting"]
    /\ UNCHANGED <<serverVars, clientReady, clientAge, clientEvents, enetVars, appVars>>

\* The server's ENet answers a connection request, unless its peers are all taken.
EnetAnswer(c) ==
    /\ clientPeer[c] = "connecting"
    /\ serverPeer[c] = "none"
    /\ Cardinality({d \in Clients : serverPeer[d] # "none"}) < MaxPeers
    /\ serverPeer' = [serverPeer EXCEPT ![c] = "pending"]
    /\ UNCHANGED <<serverVars, clientVars, leaveCode, up, down, downOther, appVars>>

\* ENet forgets an answered request whose client never completed it.
EnetForget(c) ==
    /\ serverPeer[c] = "pending"
    /\ clientPeer[c] = "closed"
    /\ serverPeer' = [serverPeer EXCEPT ![c] = "none"]
    /\ up' = [up EXCEPT ![c] = << >>]
    /\ UNCHANGED <<serverVars, clientVars, leaveCode, down, downOther, appVars>>

Tell(c, events) == clientEvents' = [clientEvents EXCEPT ![c] = @ \o events]

CloseClient(c) ==
    /\ clientPeer' = [clientPeer EXCEPT ![c] = "closed"]
    /\ clientReady' = [clientReady EXCEPT ![c] = FALSE]
    /\ down' = [down EXCEPT ![c] = << >>]
    /\ downOther' = [downOther EXCEPT ![c] = 0]

PollClientConnect(c) ==
    /\ clientPeer[c] = "connecting"
    /\ serverPeer[c] = "pending"
    /\ clientPeer' = [clientPeer EXCEPT ![c] = "connected"]
    /\ up' \in {[up EXCEPT ![c] = Append(@, "ClientHello")]} \cup (IF c \in Foreign THEN {up} ELSE {})
    /\ Tell(c, <<ClientEvent("PeerConnected", "None")>>)
    /\ UNCHANGED <<serverVars, clientReady, clientAge, serverPeer, leaveCode, down, downOther, appVars>>

\* decode_session_message: magic, version, kind and size must all fit.
IsSessionMessage(kind) == kind \in {"ServerAccept", "ServerReject"}

\* handle_receive and handle_session_receive, lane 0.
HandleSessionReceive(c, message) ==
    \/ /\ clientReady[c]
       /\ Tell(c, <<ClientEvent("ReceivedPacket", "None")>>)
       /\ down' = [down EXCEPT ![c] = Tail(@)]
       /\ UNCHANGED <<clientPeer, clientReady, downOther>>
    \/ /\ ~clientReady[c] /\ message.kind = "ServerAccept"
       /\ Tell(c, <<ClientEvent("PeerSessionReady", "None")>>)
       /\ clientReady' = [clientReady EXCEPT ![c] = TRUE]
       /\ down' = [down EXCEPT ![c] = Tail(@)]
       /\ UNCHANGED <<clientPeer, downOther>>
    \/ /\ ~clientReady[c] /\ message.kind = "ServerReject"
       /\ Tell(c, <<ClientEvent("TransportErrorEvent", "None"),
                    ClientEvent("PeerDisconnected", message.code)>>)
       /\ CloseClient(c)
    \/ /\ ~clientReady[c] /\ ~IsSessionMessage(message.kind)
       /\ Tell(c, <<ClientEvent("TransportErrorEvent", "None")>>)
       /\ down' = [down EXCEPT ![c] = Tail(@)]
       /\ UNCHANGED <<clientPeer, clientReady, downOther>>

PollClientReceive(c) ==
    /\ clientPeer[c] = "connected"
    /\ down[c] # << >>
    /\ HandleSessionReceive(c, Head(down[c]))
    /\ UNCHANGED <<serverVars, clientAge, serverPeer, leaveCode, up, appVars>>

\* The same on the snapshot lane, where a payload may overtake lane 0.
PollClientReceiveOther(c) ==
    /\ clientPeer[c] = "connected"
    /\ downOther[c] > 0
    /\ downOther' = [downOther EXCEPT ![c] = @ - 1]
    /\ Tell(c, <<ClientEvent(IF clientReady[c] THEN "ReceivedPacket" ELSE "TransportErrorEvent",
                             "None")>>)
    /\ UNCHANGED <<serverVars, clientPeer, clientReady, clientAge, serverPeer, leaveCode, up, down, appVars>>

\* ENet's DISCONNECT event: the server's code once everything before it arrived, or
\* none when the connection is dead.
PollClientDisconnect(c, code) ==
    /\ clientPeer[c] \in {"connecting", "connected"}
    /\ code = "None" \/ (serverPeer[c] = "leaving" /\ down[c] = << >> /\ code = leaveCode[c])
    /\ Tell(c, <<ClientEvent("PeerDisconnected", code)>>)
    /\ CloseClient(c)
    /\ UNCHANGED <<serverVars, clientAge, serverPeer, leaveCode, up, appVars>>

ExpirePendingSession(c) ==
    /\ clientPeer[c] \in {"connecting", "connected"}
    /\ ~clientReady[c]
    /\ clientAge[c] >= HandshakeTimeout
    /\ Tell(c, <<ClientEvent("PeerDisconnected", "Timeout")>>)
    /\ CloseClient(c)
    /\ UNCHANGED <<serverVars, clientAge, serverPeer, leaveCode, up, appVars>>

\* Time passes for whoever waits for a handshake.
Waiting(c) == clientPeer[c] \in {"connecting", "connected"} /\ ~clientReady[c]

Elapse ==
    /\ \/ \E c \in Clients : Waiting(c) /\ clientAge[c] < HandshakeTimeout
       \/ \E c \in Connected : ~slots[c].ready /\ slots[c].age < HandshakeTimeout
    /\ clientAge' = [c \in Clients |->
                        IF Waiting(c) /\ clientAge[c] < HandshakeTimeout
                        THEN clientAge[c] + 1 ELSE clientAge[c]]
    /\ slots' = [c \in Connected |->
                    IF ~slots[c].ready /\ slots[c].age < HandshakeTimeout
                    THEN [slots[c] EXCEPT !.age = @ + 1] ELSE slots[c]]
    /\ UNCHANGED <<nextPeerId, serverEvents, clientPeer, clientReady, clientEvents, enetVars, appVars>>

-----------------------------------------------------------------------------
(* The applications.  The server serves a peer once it has joined, that is, *)
(* once a payload of it was handled; it may ask any peer it knows to leave. *)

\* What an event makes of what is known of its peer; "confused" if it cannot be.
AfterEvent(phase, kind) ==
    CASE kind = "PeerConnected" /\ phase = "unknown" -> "connected"
      [] kind = "PeerSessionReady" /\ phase = "connected" -> "ready"
      [] kind = "PeerDisconnected" /\ phase \in {"connected", "ready"} -> "gone"
      [] kind = "ReceivedPacket" /\ phase = "ready" -> "ready"
      [] kind = "TransportErrorEvent" -> phase
      [] OTHER -> "confused"

HandleServerEvent ==
    /\ serverEvents # << >>
    /\ LET event == Head(serverEvents) IN
       /\ seen' = [seen EXCEPT ![event.peer] = AfterEvent(@, event.kind)]
       /\ joined' = CASE event.kind = "ReceivedPacket" -> joined \cup {event.peer}
                      [] event.kind = "PeerDisconnected" -> joined \ {event.peer}
                      [] OTHER -> joined
    /\ serverEvents' = Tail(serverEvents)
    /\ UNCHANGED <<slots, nextPeerId, clientVars, enetVars, connection, stopCause>>

\* Faulty variant: payloads are sent as soon as the session is ready.
ServesReady(c) == c \in Connected /\ slots[c].ready

\* The peers the server sends payloads to: run_tick skips those without a role.
Serves(c) == c \in Connected /\ slots[c].ready /\ slots[c].id \in joined

ServerSend(c) ==
    /\ Serves(c)
    /\ CanSend(c)
    /\ \/ /\ Len(down[c]) < 2
          /\ down' = [down EXCEPT ![c] = Append(@, [kind |-> "Payload", code |-> "None"])]
          /\ UNCHANGED downOther
       \/ /\ downOther[c] = 0
          /\ downOther' = [downOther EXCEPT ![c] = 1]
          /\ UNCHANGED down
    /\ UNCHANGED <<serverVars, clientVars, serverPeer, leaveCode, up, appVars>>

ServerDisconnect(c, code) ==
    /\ c \in Connected
    /\ seen[slots[c].id] = "ready"
    /\ Disconnect(c, code)
    /\ UNCHANGED <<serverVars, clientVars, up, down, downOther, appVars>>

\* The client runtime's poll loop: the first fatal event ends the run, and the
\* transport is disconnected without a further event.
EndRun(c, cause) ==
    /\ stopCause' = [stopCause EXCEPT ![c] = cause]
    /\ clientEvents' = [clientEvents EXCEPT ![c] = << >>]
    /\ CloseClient(c)
    /\ UNCHANGED up

DisconnectCause(c, code) ==
    IF connection[c] # "SessionReady"
    THEN IF code = "Timeout" THEN "ConnectionTimeout" ELSE "ProtocolError"
    ELSE IF code = "None" THEN "RemoteShutdown" ELSE "ConnectionLost"

HandleClientEvent(c) ==
    /\ stopCause[c] = "None"
    /\ clientEvents[c] # << >>
    /\ LET event == Head(clientEvents[c]) IN
       \/ /\ event.kind = "PeerConnected"
          /\ clientEvents' = [clientEvents EXCEPT ![c] = Tail(@)]
          /\ UNCHANGED <<clientPeer, clientReady, up, down, downOther, connection, stopCause>>
       \/ /\ event.kind = "PeerSessionReady"
          /\ connection' = [connection EXCEPT ![c] = "SessionReady"]
          /\ \/ /\ clientReady[c] \* the join request is sent
                /\ up' = [up EXCEPT ![c] = Append(@, "Payload")]
                /\ clientEvents' = [clientEvents EXCEPT ![c] = Tail(@)]
                /\ UNCHANGED <<clientPeer, clientReady, down, downOther, stopCause>>
             \/ /\ ~clientReady[c]
                /\ EndRun(c, "ProtocolError")
       \/ /\ event.kind = "ReceivedPacket"
          /\ \/ /\ connection[c] = "SessionReady"
                /\ clientEvents' = [clientEvents EXCEPT ![c] = Tail(@)]
                /\ UNCHANGED <<clientPeer, clientReady, up, down, downOther, stopCause>>
             \/ /\ connection[c] # "SessionReady"
                /\ EndRun(c, "ProtocolError")
          /\ UNCHANGED connection
       \/ /\ event.kind = "PeerDisconnected"
          /\ connection' = [connection EXCEPT ![c] = "Disconnected"]
          /\ EndRun(c, DisconnectCause(c, event.code))
       \/ /\ event.kind = "TransportErrorEvent"
          /\ EndRun(c, "ProtocolError")
          /\ UNCHANGED connection
    /\ UNCHANGED <<serverVars, clientAge, serverPeer, leaveCode, seen, joined>>

\* The client's own limits end its run.
ClientStops(c) ==
    /\ stopCause[c] = "None"
    /\ clientPeer[c] # "none"
    /\ EndRun(c, "Requested")
    /\ UNCHANGED <<serverVars, clientAge, serverPeer, leaveCode, seen, joined, connection>>

\* A foreign client sends what it likes, or nothing.
ForeignSend(c, message) ==
    /\ c \in Foreign
    /\ clientPeer[c] = "connected"
    /\ Len(up[c]) < MaxStray
    /\ up' = [up EXCEPT ![c] = Append(@, message)]
    /\ UNCHANGED <<serverVars, clientVars, serverPeer, leaveCode, down, downOther, appVars>>

-----------------------------------------------------------------------------
ServerStep(c) ==
    /\ Len(serverEvents) < MaxPolled
    /\ PollConnect(c) \/ PollReceive(c) \/ PollDisconnect(c)

ClientStep(c) ==
    \/ Connect(c)
    \/ /\ Len(clientEvents[c]) < MaxPolled
       /\ PollClientConnect(c) \/ PollClientReceive(c) \/ PollClientReceiveOther(c)
    \/ \E code \in DisconnectCodes : PollClientDisconnect(c, code)
    \/ ExpirePendingSession(c) \/ HandleClientEvent(c) \/ ClientStops(c)

Next ==
    \/ \E c \in Clients :
        \/ ServerStep(c) \/ ClientStep(c)
        \/ EnetAnswer(c) \/ EnetForget(c) \/ ServerSend(c)
        \/ \E code \in {"ServerFull", "ProtocolMismatch"} : ServerDisconnect(c, code)
        \/ \E message \in {"ClientHello", "Payload", "Oversized"} : ForeignSend(c, message)
    \/ ExpirePendingSessions
    \/ HandleServerEvent
    \/ Elapse

Spec == Init /\ [][Next]_vars

\* Both processes poll in a loop and time passes.  Nothing is assumed of ENet: it
\* need not answer, deliver, or notice that the other side is gone.
Fairness ==
    /\ WF_vars(Elapse)
    /\ WF_vars(ExpirePendingSessions)
    /\ WF_vars(HandleServerEvent)
    /\ \A c \in Clients :
        /\ WF_vars(ExpirePendingSession(c))
        /\ WF_vars(HandleClientEvent(c))

FairSpec == Spec /\ Fairness
-----------------------------------------------------------------------------
(* Properties. *)

TypeOK ==
    /\ Connected \subseteq Clients /\ Cardinality(Connected) <= MaxPeers
    /\ \A c \in Connected : slots[c] \in [id : PeerIds, ready : BOOLEAN, age : 0..HandshakeTimeout]
    /\ nextPeerId \in 1..Cardinality(Clients) + 1
    /\ serverEvents \in Seq([kind : EventKinds, peer : PeerIds])
    /\ clientPeer \in [Clients -> {"none", "connecting", "connected", "closed"}]
    /\ clientReady \in [Clients -> BOOLEAN]
    /\ clientAge \in [Clients -> 0..HandshakeTimeout]
    /\ clientEvents \in [Clients -> Seq([kind : EventKinds, code : DisconnectCodes])]
    /\ serverPeer \in [Clients -> {"none", "pending", "connected", "leaving"}]
    /\ leaveCode \in [Clients -> DisconnectCodes]
    /\ up \in [Clients -> Seq({"ClientHello", "Payload", "Oversized"})]
    /\ down \in [Clients -> Seq([kind : {"ServerAccept", "ServerReject", "Payload"},
                                 code : DisconnectCodes])]
    /\ downOther \in [Clients -> 0..1]
    /\ seen \in [PeerIds -> Phases]
    /\ joined \subseteq PeerIds
    /\ connection \in [Clients -> {"Connecting", "SessionReady", "Disconnected"}]

\* Every slot belongs to a live ENet peer and every live ENet peer that was announced
\* has its slot, whoever ended the connection and however: no slot is left behind by
\* the expiry of handshakes, and no packet is looked up for a slot that is gone.
SlotsMatchPeers == \A c \in Clients : c \in Connected <=> serverPeer[c] \in {"connected", "leaving"}

SlotPhase(p) ==
    IF \E c \in Connected : slots[c].id = p
    THEN LET c == CHOOSE d \in Connected : slots[d].id = p
         IN IF slots[c].ready THEN "ready" ELSE "connected"
    ELSE IF p < nextPeerId THEN "gone" ELSE "unknown"

\* The pending events lead the peer from what the application was told through these
\* phases.
Leads(p, phases) ==
    \A i \in DOMAIN serverEvents :
        LET before == IF i = 1 THEN seen[p] ELSE phases[i - 1]
        IN  phases[i] = IF serverEvents[i].peer = p
                        THEN AfterEvent(before, serverEvents[i].kind) ELSE before

\* What the application was told of a peer, with what is polled and not yet handled, is
\* what its slot says now: no event of a session is lost, repeated or out of order,
\* also when the handshake expires or the server disconnects the peer itself.
EventsCatchUp ==
    \A p \in PeerIds :
        \E phases \in [DOMAIN serverEvents -> Phases] :
            /\ Leads(p, phases)
            /\ SlotPhase(p) = IF serverEvents = << >> THEN seen[p]
                              ELSE phases[Len(serverEvents)]

\* A client whose session is ready has the server's identity, and the server still
\* holds its session ready or has ended it; it never waits for it.
SessionAgreement ==
    \A c \in Clients : clientReady[c] =>
        /\ Identity[c] = ExpectedIdentity
        /\ c \in Connected => slots[c].ready

\* A client of SimNet's own is never sent a payload before it knows that its session
\* is ready, although the snapshot lane may overtake the lane that carries ServerAccept:
\* a payload before readiness would end the client's run as a protocol error.
NoEarlyPayload ==
    \A c \in Clients \ Foreign :
        ~clientReady[c] /\ clientPeer[c] = "connected" =>
            /\ downOther[c] = 0
            /\ \A i \in DOMAIN down[c] : down[c][i].kind # "Payload" \/ \E j \in 1..i - 1 : down[c][j].kind = "ServerAccept"

\* Both sides agree on ready sessions, and a client is sent no payload before it knows of
\* its session, on whatever lane (handle_hello, handle_session_message, the lanes' use).
SessionsAgree == SessionAgreement /\ NoEarlyPayload

\* Slots follow ENet's peers within its limit, and the pending events account for every
\* slot, whichever way a peer goes (handle_connect, handle_disconnect, expiry, disconnect).
SlotsKept == TypeOK /\ SlotsMatchPeers /\ EventsCatchUp

\* The stream of events the server application handles is that of SessionEvents.
Sessions == INSTANCE SessionEvents WITH phase <- seen
SessionSpec == Sessions!SessionSpec

\* A handshake ends: a peer that says nothing, or the wrong thing, does not keep one of
\* the server's peer slots.
HandshakeEnds ==
    \A c \in Clients : (c \in Connected /\ ~slots[c].ready) ~> (c \notin Connected \/ slots[c].ready)

\* A client that connects is soon ready or ends its run, also when nothing answers.
ClientDecides ==
    \A c \in Clients : (clientPeer[c] = "connecting") ~> (clientReady[c] \/ stopCause[c] # "None")
=============================================================================
