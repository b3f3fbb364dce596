--------------------------- MODULE ServerMembership ---------------------------
(***************************************************************************)
(* Who takes part in a server's session: the run loop polls a batch of     *)
(* transport events, handles them one by one, broadcasts a changed pause   *)
(* state, runs its ticks and draws its viewer.  The transport is that of   *)
(* SessionEvents; it runs on while a batch is handled, so that a member    *)
(* may be gone, and a send to it fail, before its event is handled.        *)
(* Clients join, ask to pause and follow the pause state they are told.    *)
(***************************************************************************)
EXTENDS Naturals, Sequences, FiniteSets, Functions, SequencesExt

CONSTANTS PeerIds,
          Foreign,     \* peers whose clients send other things than SimNet's do
          MaxClients,  \* local.transport.max_clients
          Synthetic,   \* the server replicates a synthetic workload: no world
          LastEntity,  \* entity identifiers are spent after this one
          MaxBatch,    \* model bound on the events of one poll
          MaxQueued    \* model bound on unread control messages of one peer

ASSUME MembershipAssumption ==
    /\ 0 \notin PeerIds /\ Foreign \subseteq PeerIds
    /\ MaxClients \in Nat \ {0}
    /\ Synthetic \in BOOLEAN
    /\ LastEntity \in Nat
    /\ MaxBatch \in Nat \ {0} /\ MaxQueued \in Nat \ {0}

VARIABLES
    \* the transport
    phase,       \* what it has told of each peer
    leaveCode,   \* code of the last disconnect() of each peer, or "none"
    up, down,    \* the control lane of each peer, both ways
    \* the server
    stage,       \* "poll", "handle", "broadcast", "ticks", "view"
    batch,       \* events polled and not yet handled
    members,     \* peers: peer id -> [role, player]
    paused,      \* simulation_paused
    pauseChanged,
    players,     \* player entities of the world
    nextEntity,  \* next player identifier; 0 when they are spent
    current,     \* CurrentSnapshotState: [valid, dirty, players]
    \* the clients
    clientRole,  \* the role a client accepted, or "none"
    clientPaused \* its authoritative_pause_state, or "unknown"

transportVars == <<phase, leaveCode, up, down>>
worldVars == <<players, nextEntity, current>>
clientVars == <<clientRole, clientPaused>>
vars == <<transportVars, stage, batch, members, paused, pauseChanged, worldVars, clientVars>>

Roles == {"player", "observer"}
Messages == [kind : {"JoinRequest"}, role : Roles]
            \cup [kind : {"PauseSetRequest"}, paused : BOOLEAN]
            \cup [kind : {"Invalid"}]

Transport == INSTANCE SessionEvents

Init ==
    /\ Transport!SessionInit
    /\ leaveCode = [p \in PeerIds |-> "none"]
    /\ up = [p \in PeerIds |-> << >>]
    /\ down = [p \in PeerIds |-> << >>]
    /\ stage = "poll"
    /\ batch = << >>
    /\ members = << >>
    /\ paused = FALSE
    /\ pauseChanged = FALSE
    /\ players = {}
    /\ nextEntity = IF LastEntity = 0 THEN 0 ELSE 1
    /\ current = [valid |-> FALSE, dirty |-> TRUE, players |-> {}]
    /\ clientRole = [p \in PeerIds |-> "none"]
    /\ clientPaused = [p \in PeerIds |-> "unknown"]

Members == DOMAIN members
Joined == {p \in Members : members[p].role # "none"}

-----------------------------------------------------------------------------
(* The transport and the clients. *)

Poll(event) == batch' = Append(batch, event)

\* transport.poll(): what became of a peer.
PollSession(p) ==
    /\ stage = "poll"
    /\ Len(batch) < MaxBatch
    /\ \/ /\ Transport!PeerConnected(p)
          /\ UNCHANGED <<batch, up>>
       \/ /\ Transport!PeerSessionReady(p)
          /\ Poll([kind |-> "PeerSessionReady", peer |-> p])
          /\ UNCHANGED up
       \/ /\ Transport!PeerDisconnected(p)
          /\ Poll([kind |-> "PeerDisconnected", peer |-> p])
          /\ up' = [up EXCEPT ![p] = << >>]
    /\ UNCHANGED <<leaveCode, down, stage, members, paused, pauseChanged, worldVars, clientVars>>

\* transport.poll(): a packet of a peer, its packets in order.
PollPacket(p) ==
    /\ stage = "poll"
    /\ Len(batch) < MaxBatch
    /\ phase[p] = "ready"
    /\ up[p] # << >>
    /\ Poll([kind |-> "ReceivedPacket", peer |-> p, message |-> Head(up[p])])
    /\ up' = [up EXCEPT ![p] = Tail(@)]
    /\ UNCHANGED <<phase, leaveCode, down, stage, members, paused, pauseChanged, worldVars, clientVars>>

ClientSend(p, message) ==
    /\ phase[p] = "ready"
    /\ Len(up[p]) < MaxQueued
    /\ up' = [up EXCEPT ![p] = Append(@, message)]

\* The client's first message; clientRole "asked" stands for a JoinRequest sent.
RequestJoin(p, role) ==
    /\ clientRole[p] = "none"
    /\ ClientSend(p, [kind |-> "JoinRequest", role |-> role])
    /\ clientRole' = [clientRole EXCEPT ![p] = "asked"]
    /\ UNCHANGED <<phase, leaveCode, down, stage, batch, members, paused, pauseChanged,
                   worldVars, clientPaused>>

\* The client's viewer asks for the other state, once it knows one.
RequestPause(p) ==
    /\ clientPaused[p] # "unknown"
    /\ \A q \in PeerIds : Len(down[q]) < MaxQueued
    /\ ClientSend(p, [kind |-> "PauseSetRequest", paused |-> clientPaused[p] # "paused"])
    /\ UNCHANGED <<phase, leaveCode, down, stage, batch, members, paused, pauseChanged,
                   worldVars, clientVars>>

ForeignSend(p, message) ==
    /\ p \in Foreign
    /\ \A q \in PeerIds : Len(down[q]) < MaxQueued
    /\ ClientSend(p, message)
    /\ UNCHANGED <<phase, leaveCode, down, stage, batch, members, paused, pauseChanged,
                   worldVars, clientVars>>

\* apply_application_control: a second JoinAccepted ends the client's run.
ClientReceive(p) ==
    /\ down[p] # << >>
    /\ down' = [down EXCEPT ![p] = Tail(@)]
    /\ LET message == Head(down[p]) IN
       \/ /\ message = "JoinAccepted"
          /\ clientRole' = [clientRole EXCEPT ![p] =
                               IF @ \in {"accepted", "failed"} THEN "failed" ELSE "accepted"]
          /\ UNCHANGED clientPaused
       \/ /\ message \in {"paused", "running"}
          /\ clientPaused' = [clientPaused EXCEPT ![p] = message]
          /\ UNCHANGED clientRole
    /\ UNCHANGED <<phase, leaveCode, up, stage, batch, members, paused, pauseChanged, worldVars>>

-----------------------------------------------------------------------------
(* Handling one polled event. *)

Message(isPaused) == IF isPaused THEN "paused" ELSE "running"

\* A send is accepted only for a ready peer that is not leaving.
CanSend(p) == phase[p] = "ready" /\ leaveCode[p] = "none"

Disconnected(gone, code) ==
    leaveCode' = [p \in PeerIds |->
                     IF p \in gone /\ phase[p] # "gone" THEN code ELSE leaveCode[p]]

\* Faulty variant: the current snapshot is not marked.
EraseUnmarked(gone, snapshot) ==
    /\ members' = Restrict(members, Members \ gone)
    /\ players' = players \ {members[p].player : p \in gone \cap Members}
    /\ current' = snapshot

\* erase_peer_state or remove_failed_peer_state of the peers, with the snapshot the
\* server then has.
ErasePeers(gone, snapshot) ==
    LET lost == players \cap {members[p].player : p \in gone \cap Members} IN
    /\ members' = Restrict(members, Members \ gone)
    /\ players' = players \ lost
    /\ current' = [snapshot EXCEPT !.dirty = @ \/ lost # {}]

\* Faulty variant: the peer is told to leave and stays a member.
RejectAndKeep(p, code) ==
    /\ Disconnected({p}, code)
    /\ UNCHANGED <<down, members, players, current, paused, pauseChanged, nextEntity>>

RejectPeer(p, code) ==
    /\ Disconnected({p}, code)
    /\ ErasePeers({p}, current)
    /\ UNCHANGED <<down, paused, pauseChanged, nextEntity>>

HandlePeerSessionReady(p) ==
    \/ /\ p \in Members \/ Cardinality(Members) >= MaxClients
       /\ Disconnected({p}, "ServerFull")
       /\ UNCHANGED <<down, members, paused, pauseChanged, worldVars>>
    \/ /\ p \notin Members /\ Cardinality(Members) < MaxClients
       /\ members' = [q \in Members \cup {p} |->
                         IF q = p THEN [role |-> "none", player |-> 0] ELSE members[q]]
       /\ UNCHANGED <<leaveCode, down, paused, pauseChanged, worldVars>>

HandlePeerDisconnected(p) ==
    /\ ErasePeers({p}, current)
    /\ UNCHANGED <<leaveCode, down, paused, pauseChanged, nextEntity>>

HandleUnknownPeer(p) ==
    /\ Disconnected({p}, "ProtocolMismatch")
    /\ UNCHANGED <<down, members, paused, pauseChanged, worldVars>>

\* spawn_authoritative_player for a player; its entity marks the snapshot.
Spawn(player) ==
    /\ nextEntity' = IF player = 0 THEN nextEntity ELSE IF player = LastEntity THEN 0 ELSE player + 1
    /\ current' = [current EXCEPT !.dirty = @ \/ player # 0]

JoinSucceeds(p, role, player) ==
    /\ CanSend(p)
    /\ down' = [down EXCEPT ![p] = @ \o <<"JoinAccepted", Message(paused)>>]
    /\ members' = [members EXCEPT ![p] = [role |-> role, player |-> player]]
    /\ players' = players \cup ({player} \ {0})
    /\ UNCHANGED leaveCode

\* One of the two messages is refused: the peer is erased, its entity deleted again.
JoinFails(p) ==
    /\ \/ UNCHANGED down
       \/ CanSend(p) /\ down' = [down EXCEPT ![p] = Append(@, "JoinAccepted")]
    /\ members' = Restrict(members, Members \ {p})
    /\ Disconnected({p}, "TransportError")
    /\ UNCHANGED players

AnswerJoin(p, role, player) ==
    /\ Spawn(player)
    /\ JoinSucceeds(p, role, player) \/ JoinFails(p)
    /\ UNCHANGED <<paused, pauseChanged>>

OtherPlayer(p) == \E q \in Members \ {p} : members[q].role = "player"

\* Faulty variant: a join that cannot be granted is not answered.
HandleJoinQuietly(p, role) ==
    \/ /\ role = "player" /\ (OtherPlayer(p) \/ Synthetic \/ nextEntity = 0)
       /\ UNCHANGED <<down, leaveCode, members, paused, pauseChanged, worldVars>>
    \/ /\ role = "player" /\ ~OtherPlayer(p) /\ ~Synthetic /\ nextEntity # 0
       /\ AnswerJoin(p, role, nextEntity)
    \/ /\ role = "observer"
       /\ AnswerJoin(p, role, 0)

HandleJoinRequest(p, role) ==
    \/ /\ role = "player" /\ OtherPlayer(p)
       /\ RejectPeer(p, "ServerFull")
    \/ /\ role = "player" /\ ~OtherPlayer(p) /\ Synthetic
       /\ RejectPeer(p, "ProtocolMismatch")
    \/ /\ role = "player" /\ ~OtherPlayer(p) /\ ~Synthetic /\ nextEntity = 0
       /\ RejectPeer(p, "ServerFull")
    \/ /\ role = "player" /\ ~OtherPlayer(p) /\ ~Synthetic /\ nextEntity # 0
       /\ AnswerJoin(p, role, nextEntity)
    \/ /\ role = "observer"
       /\ AnswerJoin(p, role, 0)

\* Faulty variant: only the batch's last request counts.
SetPausedByLast(requested) ==
    /\ pauseChanged' = (paused # requested)
    /\ paused' = requested

SetPaused(requested) ==
    /\ pauseChanged' = (pauseChanged \/ paused # requested)
    /\ paused' = requested

HandleControl(p, message) ==
    \/ /\ message.kind = "JoinRequest" /\ p \notin Joined
       /\ HandleJoinRequest(p, message.role)
    \/ /\ message.kind = "PauseSetRequest" /\ p \in Joined
       /\ SetPaused(message.paused)
       /\ UNCHANGED <<down, leaveCode, members, worldVars>>
    \/ /\ \/ message.kind = "Invalid"
          \/ message.kind = "JoinRequest" /\ p \in Joined
          \/ message.kind = "PauseSetRequest" /\ p \notin Joined
       /\ RejectPeer(p, "ProtocolMismatch")

HandleEvent ==
    /\ stage \in {"poll", "handle"}
    /\ batch # << >>
    /\ stage' = "handle"
    /\ batch' = Tail(batch)
    /\ LET event == Head(batch) IN
       \/ event.kind = "PeerSessionReady" /\ HandlePeerSessionReady(event.peer)
       \/ event.kind = "PeerDisconnected" /\ HandlePeerDisconnected(event.peer)
       \/ /\ event.kind = "ReceivedPacket"
          /\ \/ event.peer \notin Members /\ HandleUnknownPeer(event.peer)
             \/ event.peer \in Members /\ HandleControl(event.peer, event.message)
    /\ UNCHANGED <<phase, up, clientVars>>

-----------------------------------------------------------------------------
(* The rest of a frame. *)

\* broadcast_pause_state: whom it cannot tell is disconnected and erased.
Broadcast(message, failed, snapshot) ==
    /\ {p \in Joined : ~CanSend(p)} \subseteq failed
    /\ down' = [p \in PeerIds |->
                   IF p \in Joined \ failed THEN Append(down[p], message) ELSE down[p]]
    /\ Disconnected(failed, "TransportError")
    /\ ErasePeers(failed, snapshot)

BroadcastPauseState(failed) ==
    /\ batch = << >>
    /\ stage \in {"poll", "handle"}
    /\ stage' = "ticks"
    /\ \/ /\ pauseChanged
          /\ Broadcast(Message(paused), failed, current)
       \/ /\ ~pauseChanged /\ failed = {}
          /\ UNCHANGED <<down, leaveCode, members, players, current>>
    /\ pauseChanged' = FALSE
    /\ UNCHANGED <<phase, up, batch, paused, nextEntity, clientVars>>

\* ensure_current_snapshot
Extracted == IF current.valid /\ ~current.dirty THEN current
             ELSE [valid |-> TRUE, dirty |-> FALSE, players |-> players]

\* run_tick: the world moves on, then every joined peer is sent to; whom that fails
\* for is disconnected and removed.
RunTick(failed) ==
    /\ stage = "ticks"
    /\ ~paused
    /\ Disconnected(failed, "TransportError")
    /\ ErasePeers(failed, IF Synthetic THEN current
                          ELSE IF Joined = {} THEN [current EXCEPT !.dirty = TRUE]
                          ELSE [valid |-> TRUE, dirty |-> FALSE, players |-> players])
    /\ UNCHANGED <<phase, up, down, stage, batch, paused, pauseChanged, nextEntity, clientVars>>

EndTicks ==
    /\ stage = "ticks"
    /\ stage' = "view"
    /\ UNCHANGED <<transportVars, batch, members, paused, pauseChanged, worldVars, clientVars>>

\* A frame ends.  A server with a viewer, which a synthetic one does not have, first
\* extracts what is drawn; the viewer may toggle the pause state, told at once.
EndFrame(failed) ==
    /\ stage = "view"
    /\ stage' = "poll"
    /\ \/ /\ failed = {}
          /\ current' \in {current} \cup (IF Synthetic THEN {} ELSE {Extracted})
          /\ UNCHANGED <<leaveCode, down, members, paused, players>>
       \/ /\ ~Synthetic
          /\ \A q \in PeerIds : Len(down[q]) < MaxQueued
          /\ paused' = ~paused
          /\ Broadcast(Message(~paused), failed, Extracted)
    /\ UNCHANGED <<phase, up, batch, pauseChanged, nextEntity, clientVars>>

-----------------------------------------------------------------------------
Loop ==
    \/ HandleEvent
    \/ \E failed \in SUBSET Joined : BroadcastPauseState(failed) \/ RunTick(failed) \/ EndFrame(failed)
    \/ EndTicks

Next ==
    \/ Loop
    \/ \E p \in PeerIds :
        \/ PollSession(p) \/ PollPacket(p)
        \/ \E role \in Roles : RequestJoin(p, role)
        \/ RequestPause(p)
        \/ ClientReceive(p)
        \/ \E message \in Messages : ForeignSend(p, message)

Spec == Init /\ [][Next]_vars

\* The server's loop goes on, clients read what they are sent, and a packet of a peer is
\* polled unless the peer is lost: ENet repeats reliable packets until it gives up.
Fairness ==
    /\ WF_vars(HandleEvent)
    /\ WF_vars(\E failed \in SUBSET Joined : BroadcastPauseState(failed))
    /\ WF_vars(EndTicks)
    /\ WF_vars(\E failed \in SUBSET Joined : EndFrame(failed))
    /\ \A p \in PeerIds : SF_vars(PollPacket(p)) /\ WF_vars(ClientReceive(p))

FairSpec == Spec /\ Fairness
-----------------------------------------------------------------------------
(* Properties. *)

TypeOK ==
    /\ Members \subseteq PeerIds /\ Cardinality(Members) <= MaxClients
    /\ \A p \in Members : members[p] \in [role : Roles \cup {"none"}, player : 0..LastEntity]
    /\ leaveCode \in [PeerIds -> {"none", "ServerFull", "ProtocolMismatch", "TransportError"}]
    /\ stage \in {"poll", "handle", "ticks", "view"}
    /\ nextEntity \in 0..LastEntity
    /\ current \in [valid : BOOLEAN, dirty : BOOLEAN, players : SUBSET (1..LastEntity)]
    /\ clientPaused \in [PeerIds -> {"unknown", "paused", "running"}]

\* The player entities of the world are those of the members, at most one, whatever
\* happened to the peers since: rejected, lost before their event is handled, or
\* dropped because a send to them failed.
PlayersMatchWorld ==
    /\ players = {members[p].player : p \in Members} \ {0}
    /\ \A p \in Members : members[p].role = "player" <=> members[p].player # 0
    /\ \A p, q \in Members : members[p].role = "player" /\ members[q].role = "player" => p = q

\* Between two polls the members are exactly the peers whose session is ready and that
\* the server has not asked to leave.
MembersAreReadyPeers == stage = "poll" /\ batch = << >> => Members = {p \in PeerIds : CanSend(p)}

\* A current snapshot that is not marked dirty shows the players the world has.
SnapshotFresh == current.valid /\ ~current.dirty => current.players = players

\* Between two polls every joined client was last told the server's pause state, whoever
\* changed it, how often within one batch, and however late the client joined
\* (broadcast_pause_state, handle_join_request, the viewer's toggle).
LastTold(p) == IF down[p] = << >> THEN clientPaused[p] ELSE Last(down[p])

PauseAgreement == stage = "poll" => \A p \in Joined : LastTold(p) = Message(paused)

\* No client is accepted twice: its run would end at the second JoinAccepted.
AcceptedOnce == \A p \in PeerIds : clientRole[p] # "failed"

\* The players of the world are the members', and a snapshot that is not marked dirty
\* shows them, whatever became of the peers since (erase_peers, ensure_current_snapshot).
WorldFollowsMembers == PlayersMatchWorld /\ SnapshotFresh

\* Members are the ready peers nobody sent away, at most max_clients, and none is accepted
\* twice (handle_peer_session_ready, handle_control, reject_peer).
MembersKept == TypeOK /\ MembersAreReadyPeers /\ AcceptedOnce

\* A client that asked to join is accepted or told to leave.
JoinIsAnswered ==
    \A p \in PeerIds : clientRole[p] = "asked" ~>
        (clientRole[p] = "accepted" \/ leaveCode[p] # "none" \/ phase[p] = "gone")
=============================================================================
