------------------------ MODULE ServerMembershipTheorems ------------------------
(***************************************************************************)
(* The server's members, player entities, cached snapshot and pause state  *)
(* stay in step with the peers and with what every client knows, for any   *)
(* number of peers, every limit, and every order of events and failures.   *)
(***************************************************************************)
EXTENDS ServerMembership, FiniteSetTheorems, TLAPS

-----------------------------------------------------------------------------
(* Types. *)

LeaveCodes == {"none", "ServerFull", "ProtocolMismatch", "TransportError"}

Tidings == {"JoinAccepted", "paused", "running"}

MemberRecords == [role : Roles \cup {"none"}, player : 0..LastEntity]

CurrentStates == [valid : BOOLEAN, dirty : BOOLEAN, players : SUBSET (1..LastEntity)]

Events == [kind : {"PeerSessionReady", "PeerDisconnected"}, peer : PeerIds]
          \cup [kind : {"ReceivedPacket"}, peer : PeerIds, message : Messages]

\* TypeOK with the unbounded variables, which TLC cannot enumerate.
Typed ==
    /\ phase \in [PeerIds -> Transport!Phases]
    /\ leaveCode \in [PeerIds -> LeaveCodes]
    /\ up \in [PeerIds -> Seq(Messages)]
    /\ down \in [PeerIds -> Seq(Tidings)]
    /\ stage \in {"poll", "handle", "ticks", "view"}
    /\ batch \in Seq(Events)
    /\ Members \subseteq PeerIds /\ members \in [Members -> MemberRecords]
    /\ paused \in BOOLEAN /\ pauseChanged \in BOOLEAN
    /\ players \subseteq 1..LastEntity
    /\ nextEntity \in 0..LastEntity
    /\ current \in CurrentStates
    /\ clientRole \in [PeerIds -> {"none", "asked", "accepted", "failed"}]
    /\ clientPaused \in [PeerIds -> {"unknown", "paused", "running"}]

\* What a join can be granted: an observer has no entity, the only player a new one.
Grantable(p, role, player) ==
    /\ role \in Roles /\ player \in 0..LastEntity
    /\ role = "player" <=> player # 0
    /\ role = "player" => ~OtherPlayer(p)

\* Elements of a batch.
LEMMA EventFields ==
  ASSUME NEW event \in Events
  PROVE  /\ event.peer \in PeerIds
         /\ event.kind \in {"PeerSessionReady", "PeerDisconnected", "ReceivedPacket"}
         /\ event.kind = "ReceivedPacket" => event.message \in Messages
BY DEF Events

\* What is said in a control message.
LEMMA MessageFields ==
  ASSUME NEW message \in Messages
  PROVE  /\ message.kind \in {"JoinRequest", "PauseSetRequest", "Invalid"}
         /\ message.kind = "JoinRequest" => message.role \in Roles
         /\ message.kind = "PauseSetRequest" => message.paused \in BOOLEAN
BY DEF Messages

\* The cases of handling one polled event.
HandleCases(event, p) ==
    \/ event.kind = "PeerSessionReady" /\ HandlePeerSessionReady(p)
    \/ event.kind = "PeerDisconnected" /\ HandlePeerDisconnected(p)
    \/ event.kind = "ReceivedPacket" /\ p \notin Members /\ HandleUnknownPeer(p)
    \/ /\ event.kind = "ReceivedPacket" /\ p \in Members
       /\ \E code \in {"ServerFull", "ProtocolMismatch"} : RejectPeer(p, code)
    \/ /\ event.kind = "ReceivedPacket" /\ p \in Members \ Joined
       /\ \E role \in Roles, player \in 0..LastEntity :
             Grantable(p, role, player) /\ AnswerJoin(p, role, player)
    \/ /\ event.kind = "ReceivedPacket" /\ p \in Joined
       /\ \E requested \in BOOLEAN : SetPaused(requested)
       /\ UNCHANGED <<down, leaveCode, members, worldVars>>

\* Handling an event is one of these cases for the peer of the batch's first event.
LEMMA HandleEventCases ==
  ASSUME Typed, HandleEvent
  PROVE  /\ batch # << >> /\ Head(batch) \in Events /\ Head(batch).peer \in PeerIds
         /\ Head(batch).kind \in {"PeerSessionReady", "PeerDisconnected", "ReceivedPacket"}
         /\ stage \in {"poll", "handle"} /\ stage' = "handle" /\ batch' = Tail(batch)
         /\ UNCHANGED <<phase, up, clientVars>>
         /\ HandleCases(Head(batch), Head(batch).peer)
<1> DEFINE event == Head(batch)
           p == event.peer
<1>1. batch \in Seq(Events) /\ batch # << >>
  BY DEF Typed, HandleEvent
<1>2. event \in Events
  BY <1>1
<1>3. /\ p \in PeerIds /\ event.kind \in {"PeerSessionReady", "PeerDisconnected", "ReceivedPacket"}
      /\ event.kind = "ReceivedPacket" => event.message \in Messages
  BY <1>2, EventFields
<1>4. /\ stage \in {"poll", "handle"} /\ stage' = "handle" /\ batch' = Tail(batch)
      /\ UNCHANGED <<phase, up, clientVars>>
  BY DEF HandleEvent
<1>5. HandleCases(event, p)
  <2>1. CASE event.kind = "PeerSessionReady"
    BY <2>1 DEF HandleEvent, HandleCases
  <2>2. CASE event.kind = "PeerDisconnected"
    BY <2>2 DEF HandleEvent, HandleCases
  <2>3. CASE event.kind = "ReceivedPacket" /\ p \notin Members
    BY <2>3 DEF HandleEvent, HandleCases
  <2>4. CASE event.kind = "ReceivedPacket" /\ p \in Members
    <3> DEFINE message == event.message
    <3>1. HandleControl(p, message)
      BY <2>4 DEF HandleEvent
    <3>2. message \in Messages
      BY <1>3, <2>4
    <3> HIDE DEF message, event, p
    <3>3. CASE RejectPeer(p, "ProtocolMismatch") \/ RejectPeer(p, "ServerFull")
      BY <2>4, <3>3 DEF HandleCases
    <3>4. CASE message.kind = "JoinRequest" /\ p \notin Joined /\ HandleJoinRequest(p, message.role)
      <4>1. message.role \in Roles
        BY <3>2, <3>4, MessageFields
      <4>2. CASE /\ message.role = "player" /\ ~OtherPlayer(p) /\ nextEntity # 0
                 /\ AnswerJoin(p, message.role, nextEntity)
        <5>1. Grantable(p, message.role, nextEntity) /\ nextEntity \in 0..LastEntity
          BY <4>1, <4>2 DEF Grantable, Typed
        <5> QED
          BY <2>4, <3>4, <4>1, <4>2, <5>1 DEF HandleCases
      <4>3. CASE message.role = "observer" /\ AnswerJoin(p, message.role, 0)
        <5>1. Grantable(p, message.role, 0) /\ 0 \in 0..LastEntity
          BY <4>1, <4>3, MembershipAssumption DEF Grantable
        <5> QED
          BY <2>4, <3>4, <4>1, <4>3, <5>1 DEF HandleCases
      <4> QED
        BY <3>3, <3>4, <4>2, <4>3 DEF HandleJoinRequest
    <3>5. CASE /\ message.kind = "PauseSetRequest" /\ p \in Joined /\ SetPaused(message.paused)
               /\ UNCHANGED <<down, leaveCode, members, worldVars>>
      <4>1. message.paused \in BOOLEAN
        BY <3>2, <3>5, MessageFields
      <4> QED
        BY <2>4, <3>5, <4>1 DEF HandleCases
    <3> QED
      BY <3>1, <3>3, <3>4, <3>5 DEF HandleControl
  <2> QED
    BY <1>3, <2>1, <2>2, <2>3, <2>4
<1> QED
  BY <1>1, <1>2, <1>3, <1>4, <1>5

-----------------------------------------------------------------------------
(* What one step does to the members, the world and its cached snapshot. *)

\* The snapshot shows the world's players unless it is marked.
Shows(snapshot) ==
    snapshot \in CurrentStates /\ (snapshot.valid /\ ~snapshot.dirty => snapshot.players = players)

Admits(p) ==
    /\ p \in PeerIds /\ p \notin Members /\ Cardinality(Members) < MaxClients
    /\ members' = [q \in Members \cup {p} |->
                      IF q = p THEN [role |-> "none", player |-> 0] ELSE members[q]]
    /\ UNCHANGED worldVars

Erases(gone) ==
    /\ \E snapshot \in CurrentStates : (SnapshotFresh => Shows(snapshot)) /\ ErasePeers(gone, snapshot)
    /\ UNCHANGED nextEntity

Grants(p, role, player) ==
    /\ p \in Members \ Joined
    /\ Grantable(p, role, player)
    /\ Spawn(player)
    /\ \/ JoinSucceeds(p, role, player)
       \/ JoinFails(p)

Refreshes ==
    /\ \E snapshot \in CurrentStates : (SnapshotFresh => Shows(snapshot)) /\ current' = snapshot
    /\ UNCHANGED <<members, players, nextEntity>>

WorldCases ==
    \/ \E p \in PeerIds : Admits(p)
    \/ \E gone \in SUBSET PeerIds : Erases(gone)
    \/ \E p \in PeerIds, role \in Roles, player \in 0..LastEntity : Grants(p, role, player)
    \/ Refreshes

\* A new entity marks the snapshot, and the extracted one shows the world.
LEMMA SnapshotFacts ==
  ASSUME Typed
  PROVE  /\ current \in CurrentStates /\ (SnapshotFresh => Shows(current))
         /\ Extracted \in CurrentStates /\ (SnapshotFresh => Shows(Extracted))
         /\ LET snapshot == [current EXCEPT !.dirty = TRUE]
            IN  snapshot \in CurrentStates /\ Shows(snapshot)
         /\ LET snapshot == [valid |-> TRUE, dirty |-> FALSE, players |-> players]
            IN  snapshot \in CurrentStates /\ Shows(snapshot)
<1>1. /\ current \in CurrentStates /\ players \in SUBSET (1..LastEntity)
  BY DEF Typed
<1>2. LET snapshot == [current EXCEPT !.dirty = TRUE]
      IN  snapshot \in CurrentStates /\ Shows(snapshot)
  BY <1>1 DEF CurrentStates, Shows
<1>3. LET snapshot == [valid |-> TRUE, dirty |-> FALSE, players |-> players]
      IN  snapshot \in CurrentStates /\ Shows(snapshot)
  BY <1>1 DEF CurrentStates, Shows
<1>4. current \in CurrentStates /\ (SnapshotFresh => Shows(current))
  BY <1>1 DEF Shows, SnapshotFresh
<1> QED
  BY <1>2, <1>3, <1>4 DEF Extracted

\* Every step is one of these cases.
LEMMA StepWorldCases ==
  ASSUME Typed, [Next]_vars
  PROVE  WorldCases
<1> USE SnapshotFacts
<1>1. ASSUME UNCHANGED <<members, players, current, nextEntity>> PROVE WorldCases
  BY <1>1 DEF WorldCases, Refreshes
<1>2. CASE UNCHANGED vars
  BY <1>1, <1>2 DEF vars, worldVars
<1>3. ASSUME NEW p \in PeerIds, PollSession(p) \/ PollPacket(p) PROVE WorldCases
  BY <1>1, <1>3 DEF PollSession, PollPacket, worldVars
<1>4. ASSUME NEW p \in PeerIds,
             \/ \E role \in Roles : RequestJoin(p, role)
             \/ RequestPause(p)
             \/ ClientReceive(p)
             \/ \E message \in Messages : ForeignSend(p, message)
      PROVE  WorldCases
  BY <1>1, <1>4 DEF RequestJoin, RequestPause, ClientReceive, ForeignSend, worldVars
<1>5. CASE HandleEvent
  <2> DEFINE p == Head(batch).peer
  <2>1. p \in PeerIds /\ HandleCases(Head(batch), p)
    BY <1>5, HandleEventCases
  <2> HIDE DEF p
  <2>2. CASE HandlePeerSessionReady(p) \/ HandleUnknownPeer(p)
    BY <1>1, <2>1, <2>2 DEF HandlePeerSessionReady, HandleUnknownPeer, WorldCases, Admits, worldVars
  <2>3. CASE HandlePeerDisconnected(p) \/ \E code : RejectPeer(p, code)
    <3>1. Erases({p})
      BY <2>3 DEF HandlePeerDisconnected, RejectPeer, Erases
    <3> QED
      BY <2>1, <3>1 DEF WorldCases
  <2>4. CASE /\ p \in Members \ Joined
             /\ \E role \in Roles, player \in 0..LastEntity :
                   Grantable(p, role, player) /\ AnswerJoin(p, role, player)
    BY <2>1, <2>4 DEF WorldCases, Grants, AnswerJoin
  <2>5. CASE UNCHANGED <<down, leaveCode, members, worldVars>>
    BY <1>1, <2>5 DEF worldVars
  <2> QED
    BY <2>1, <2>2, <2>3, <2>4, <2>5 DEF HandleCases
<1>6. ASSUME NEW failed \in SUBSET Joined, BroadcastPauseState(failed) \/ RunTick(failed) \/ EndFrame(failed)
      PROVE  WorldCases
  <2>1. failed \in SUBSET PeerIds
    BY DEF Joined, Typed
  <2>2. CASE BroadcastPauseState(failed)
    <3>1. CASE Broadcast(Message(paused), failed, current)
      BY <2>1, <2>2, <3>1 DEF BroadcastPauseState, Broadcast, WorldCases, Erases
    <3>2. CASE UNCHANGED <<down, leaveCode, members, players, current>>
      BY <1>1, <2>2, <3>2 DEF BroadcastPauseState
    <3> QED
      BY <2>2, <3>1, <3>2 DEF BroadcastPauseState
  <2>3. CASE RunTick(failed)
    BY <2>1, <2>3 DEF RunTick, WorldCases, Erases
  <2>4. CASE EndFrame(failed)
    <3>1. CASE Broadcast(Message(~paused), failed, Extracted)
      BY <2>1, <2>4, <3>1 DEF EndFrame, Broadcast, WorldCases, Erases
    <3>2. CASE current' \in {current, Extracted} /\ UNCHANGED <<leaveCode, down, members, paused, players>>
      BY <2>4, <3>2 DEF EndFrame, WorldCases, Refreshes
    <3> QED
      BY <2>4, <3>1, <3>2 DEF EndFrame
  <2> QED
    BY <1>6, <2>2, <2>3, <2>4
<1>7. CASE EndTicks
  BY <1>1, <1>7 DEF EndTicks, worldVars
<1> QED
  BY <1>2, <1>3, <1>4, <1>5, <1>6, <1>7 DEF Next, Loop

-----------------------------------------------------------------------------
(* Types are kept. *)

\* The players, members and cached snapshot keep their types.
LEMMA WorldTyped ==
  ASSUME Typed, WorldCases
  PROVE  /\ Members' \subseteq PeerIds /\ members' \in [Members' -> MemberRecords]
         /\ players' \subseteq 1..LastEntity
         /\ nextEntity' \in 0..LastEntity
         /\ current' \in CurrentStates
<1> USE MembershipAssumption
<1>1. /\ Members \subseteq PeerIds /\ members \in [Members -> MemberRecords]
      /\ players \subseteq 1..LastEntity /\ nextEntity \in 0..LastEntity /\ current \in CurrentStates
  BY DEF Typed
<1>2. ASSUME NEW p \in PeerIds, Admits(p)
      PROVE  /\ Members' \subseteq PeerIds /\ members' \in [Members' -> MemberRecords]
             /\ UNCHANGED worldVars
  <2>1. [role |-> "none", player |-> 0] \in MemberRecords
    BY DEF MemberRecords
  <2> QED
    BY <1>1, <1>2, <2>1 DEF Admits, Members
<1>3. ASSUME NEW gone, NEW snapshot \in CurrentStates, ErasePeers(gone, snapshot)
      PROVE  /\ Members' \subseteq PeerIds /\ members' \in [Members' -> MemberRecords]
             /\ players' \subseteq 1..LastEntity /\ current' \in CurrentStates
  <2>1. players' \subseteq 1..LastEntity /\ current' \in CurrentStates
    BY <1>1, <1>3 DEF ErasePeers, CurrentStates
  <2> QED
    BY <1>1, <1>3, <2>1 DEF ErasePeers, Members, Restrict
<1>4. ASSUME NEW p \in PeerIds, NEW role \in Roles, NEW player \in 0..LastEntity, Grants(p, role, player)
      PROVE  /\ Members' \subseteq PeerIds /\ members' \in [Members' -> MemberRecords]
             /\ players' \subseteq 1..LastEntity
             /\ nextEntity' \in 0..LastEntity /\ current' \in CurrentStates
  <2>1. nextEntity' \in 0..LastEntity /\ current' \in CurrentStates
    <3> DEFINE marked == current.dirty \/ player # 0
    <3>1. /\ nextEntity' = IF player = 0 THEN nextEntity ELSE IF player = LastEntity THEN 0 ELSE player + 1
          /\ current' = [current EXCEPT !.dirty = marked]
      BY <1>4, Zenon DEF Grants, Spawn
    <3>2. marked \in BOOLEAN
      OBVIOUS
    <3> HIDE DEF marked
    <3>3. current' \in CurrentStates
      BY <1>1, <3>1, <3>2 DEF CurrentStates
    <3>4. nextEntity' \in 0..LastEntity
      BY <1>1, <3>1
    <3> QED
      BY <3>3, <3>4
  <2>2. p \in Members
    BY <1>4 DEF Grants
  <2>3. CASE JoinSucceeds(p, role, player)
    <3>1. [role |-> role, player |-> player] \in MemberRecords
      BY DEF MemberRecords
    <3>2. players' \subseteq 1..LastEntity
      BY <1>1, <2>3 DEF JoinSucceeds
    <3> QED
      BY <1>1, <2>1, <2>2, <2>3, <3>1, <3>2 DEF JoinSucceeds, Members
  <2>4. CASE JoinFails(p)
    BY <1>1, <2>1, <2>4 DEF JoinFails, Members, Restrict
  <2> QED
    BY <1>4, <2>3, <2>4 DEF Grants
<1>5. ASSUME Refreshes
      PROVE  UNCHANGED <<members, players, nextEntity>> /\ current' \in CurrentStates
  BY <1>5 DEF Refreshes
<1> QED
  BY <1>1, <1>2, <1>3, <1>4, <1>5 DEF WorldCases, Erases, worldVars, Members

\* Whom the server asks to leave, for whatever reason, has one of the codes.
LEMMA DisconnectedTyped ==
  ASSUME Typed, NEW gone, NEW code \in LeaveCodes, Disconnected(gone, code)
  PROVE  leaveCode' \in [PeerIds -> LeaveCodes]
BY DEF Typed, Disconnected

\* Handling an event keeps the types of the lanes, the codes and the pause state.
LEMMA HandleEventTyped ==
  ASSUME Typed, HandleEvent
  PROVE  /\ leaveCode' \in [PeerIds -> LeaveCodes] /\ down' \in [PeerIds -> Seq(Tidings)]
         /\ paused' \in BOOLEAN /\ pauseChanged' \in BOOLEAN
         /\ batch' \in Seq(Events) /\ stage' = "handle" /\ UNCHANGED <<phase, up, clientVars>>
<1> DEFINE p == Head(batch).peer
<1>1. /\ leaveCode \in [PeerIds -> LeaveCodes] /\ down \in [PeerIds -> Seq(Tidings)]
      /\ paused \in BOOLEAN /\ pauseChanged \in BOOLEAN /\ batch \in Seq(Events)
  BY DEF Typed
<1>2. /\ p \in PeerIds /\ HandleCases(Head(batch), p)
      /\ batch # << >> /\ batch' = Tail(batch) /\ stage' = "handle" /\ UNCHANGED <<phase, up, clientVars>>
  BY HandleEventCases
<1>3. batch' \in Seq(Events)
  BY <1>1, <1>2
<1> HIDE DEF p
<1>4. {"none", "ServerFull", "ProtocolMismatch", "TransportError"} \subseteq LeaveCodes
      /\ {"JoinAccepted", "paused", "running"} \subseteq Tidings
      /\ Message(paused) \in Tidings
  BY DEF LeaveCodes, Tidings, Message
<1>5. CASE HandlePeerSessionReady(p) \/ HandleUnknownPeer(p)
  BY <1>1, <1>2, <1>3, <1>4, <1>5, DisconnectedTyped DEF HandlePeerSessionReady, HandleUnknownPeer
<1>6. CASE HandlePeerDisconnected(p) \/ \E code \in {"ServerFull", "ProtocolMismatch"} : RejectPeer(p, code)
  BY <1>1, <1>2, <1>3, <1>4, <1>6, DisconnectedTyped DEF HandlePeerDisconnected, RejectPeer
<1>7. ASSUME NEW role, NEW player, AnswerJoin(p, role, player)
      PROVE  /\ leaveCode' \in [PeerIds -> LeaveCodes] /\ down' \in [PeerIds -> Seq(Tidings)]
             /\ UNCHANGED <<paused, pauseChanged>>
  <2>1. down[p] \in Seq(Tidings)
    BY <1>1, <1>2
  <2>2. /\ down[p] \o <<"JoinAccepted", Message(paused)>> \in Seq(Tidings)
        /\ Append(down[p], "JoinAccepted") \in Seq(Tidings)
    BY <1>4, <2>1
  <2>3. CASE JoinSucceeds(p, role, player)
    BY <1>1, <1>7, <2>2, <2>3 DEF JoinSucceeds, AnswerJoin
  <2>4. CASE JoinFails(p)
    <3>1. leaveCode' \in [PeerIds -> LeaveCodes]
      BY <1>4, <2>4, DisconnectedTyped DEF JoinFails
    <3> QED
      BY <1>1, <1>7, <2>2, <2>4, <3>1 DEF JoinFails, AnswerJoin
  <2> QED
    BY <1>7, <2>3, <2>4 DEF AnswerJoin
<1>8. CASE (\E requested \in BOOLEAN : SetPaused(requested)) /\ UNCHANGED <<down, leaveCode, members, worldVars>>
  BY <1>1, <1>2, <1>3, <1>8 DEF SetPaused
<1> QED
  BY <1>1, <1>2, <1>3, <1>5, <1>6, <1>7, <1>8 DEF HandleCases

\* The rest of a frame keeps the types of the lanes and codes.
LEMMA LoopTyped ==
  ASSUME Typed, NEW failed \in SUBSET Joined,
         BroadcastPauseState(failed) \/ RunTick(failed) \/ EndFrame(failed)
  PROVE  /\ leaveCode' \in [PeerIds -> LeaveCodes] /\ down' \in [PeerIds -> Seq(Tidings)]
         /\ paused' \in BOOLEAN /\ pauseChanged' \in BOOLEAN
         /\ stage' \in {"ticks", "poll"}
         /\ UNCHANGED <<phase, up, batch, clientVars>>
<1>1. /\ leaveCode \in [PeerIds -> LeaveCodes] /\ down \in [PeerIds -> Seq(Tidings)]
      /\ paused \in BOOLEAN /\ pauseChanged \in BOOLEAN
  BY DEF Typed
<1>2. "TransportError" \in LeaveCodes /\ \A told : Message(told) \in Tidings
  BY DEF LeaveCodes, Tidings, Message
<1>3. ASSUME NEW message \in Tidings, NEW snapshot, Broadcast(message, failed, snapshot)
      PROVE  leaveCode' \in [PeerIds -> LeaveCodes] /\ down' \in [PeerIds -> Seq(Tidings)]
  <2>1. leaveCode' \in [PeerIds -> LeaveCodes]
    BY <1>2, <1>3, DisconnectedTyped DEF Broadcast
  <2>2. down' = [p \in PeerIds |-> IF p \in Joined \ failed THEN Append(down[p], message) ELSE down[p]]
    BY <1>3 DEF Broadcast
  <2>3. \A p \in PeerIds : down[p] \in Seq(Tidings) /\ Append(down[p], message) \in Seq(Tidings)
    BY <1>1, <1>3
  <2> QED
    BY <2>1, <2>2, <2>3
<1>4. CASE BroadcastPauseState(failed)
  BY <1>1, <1>2, <1>3, <1>4 DEF BroadcastPauseState
<1>5. CASE RunTick(failed)
  BY <1>1, <1>2, <1>5, DisconnectedTyped DEF RunTick
<1>6. CASE EndFrame(failed)
  BY <1>1, <1>2, <1>3, <1>6 DEF EndFrame
<1> QED
  BY <1>4, <1>5, <1>6

\* Polling and the clients keep the types of the lanes and of what clients know.
LEMMA EnvironmentTyped ==
  ASSUME Typed, NEW p \in PeerIds,
         \/ PollSession(p) \/ PollPacket(p)
         \/ \E role \in Roles : RequestJoin(p, role)
         \/ RequestPause(p) \/ ClientReceive(p)
         \/ \E message \in Messages : ForeignSend(p, message)
  PROVE  /\ phase' \in [PeerIds -> Transport!Phases]
         /\ up' \in [PeerIds -> Seq(Messages)] /\ down' \in [PeerIds -> Seq(Tidings)]
         /\ batch' \in Seq(Events)
         /\ clientRole' \in [PeerIds -> {"none", "asked", "accepted", "failed"}]
         /\ clientPaused' \in [PeerIds -> {"unknown", "paused", "running"}]
         /\ UNCHANGED <<leaveCode, stage, paused, pauseChanged>>
<1>1. /\ phase \in [PeerIds -> Transport!Phases]
      /\ up \in [PeerIds -> Seq(Messages)] /\ down \in [PeerIds -> Seq(Tidings)] /\ batch \in Seq(Events)
      /\ clientRole \in [PeerIds -> {"none", "asked", "accepted", "failed"}]
      /\ clientPaused \in [PeerIds -> {"unknown", "paused", "running"}]
  BY DEF Typed
<1>2. ASSUME NEW message \in Messages, ClientSend(p, message)
      PROVE  up' \in [PeerIds -> Seq(Messages)]
  <2>1. Append(up[p], message) \in Seq(Messages)
    BY <1>1
  <2> QED
    BY <1>1, <1>2, <2>1 DEF ClientSend
<1>3. CASE PollSession(p)
  <2>1. \A kind \in {"PeerSessionReady", "PeerDisconnected"} :
           Append(batch, [kind |-> kind, peer |-> p]) \in Seq(Events)
    <3>1. \A kind \in {"PeerSessionReady", "PeerDisconnected"} : [kind |-> kind, peer |-> p] \in Events
      BY DEF Events
    <3> QED
      BY <1>1, <3>1
  <2>2. phase' \in [PeerIds -> Transport!Phases]
    BY <1>1, <1>3 DEF PollSession, Transport!PeerConnected, Transport!PeerSessionReady,
                      Transport!PeerDisconnected, Transport!Phases
  <2>3. up' \in [PeerIds -> Seq(Messages)] /\ batch' \in Seq(Events)
    <3>1. << >> \in Seq(Messages)
      OBVIOUS
    <3>2. up' = up \/ up' = [up EXCEPT ![p] = << >>]
      BY <1>3 DEF PollSession
    <3>3. batch' = batch \/ \E kind \in {"PeerSessionReady", "PeerDisconnected"} :
                               batch' = Append(batch, [kind |-> kind, peer |-> p])
      BY <1>3 DEF PollSession, Poll
    <3>4. up' \in [PeerIds -> Seq(Messages)]
      BY <1>1, <3>1, <3>2
    <3> QED
      BY <1>1, <2>1, <3>3, <3>4
  <2> QED
    BY <1>1, <1>3, <2>2, <2>3 DEF PollSession, clientVars
<1>4. CASE PollPacket(p)
  <2>1. up[p] \in Seq(Messages) /\ up[p] # << >>
    BY <1>1, <1>4 DEF PollPacket
  <2>2. Head(up[p]) \in Messages /\ Tail(up[p]) \in Seq(Messages)
    BY <2>1
  <2>3. [kind |-> "ReceivedPacket", peer |-> p, message |-> Head(up[p])] \in Events
    BY <2>2 DEF Events
  <2>4. batch' \in Seq(Events)
    BY <1>1, <1>4, <2>3 DEF PollPacket, Poll
  <2> QED
    BY <1>1, <1>4, <2>2, <2>4 DEF PollPacket, clientVars
<1>5. ASSUME NEW role \in Roles, RequestJoin(p, role)
      PROVE  up' \in [PeerIds -> Seq(Messages)]
             /\ clientRole' \in [PeerIds -> {"none", "asked", "accepted", "failed"}]
             /\ UNCHANGED <<phase, leaveCode, down, stage, batch, paused, pauseChanged, clientPaused>>
  <2>1. [kind |-> "JoinRequest", role |-> role] \in Messages
    BY DEF Messages
  <2> QED
    BY <1>1, <1>2, <1>5, <2>1 DEF RequestJoin
<1>6. CASE RequestPause(p)
  <2>1. [kind |-> "PauseSetRequest", paused |-> clientPaused[p] # "paused"] \in Messages
    BY DEF Messages
  <2> QED
    BY <1>1, <1>2, <1>6, <2>1 DEF RequestPause, clientVars
<1>7. CASE ClientReceive(p)
  <2>1. down[p] \in Seq(Tidings) /\ down[p] # << >>
    BY <1>1, <1>7 DEF ClientReceive
  <2>2. Tail(down[p]) \in Seq(Tidings)
    BY <2>1
  <2>3. clientRole' \in [PeerIds -> {"none", "asked", "accepted", "failed"}]
        /\ clientPaused' \in [PeerIds -> {"unknown", "paused", "running"}]
    BY <1>1, <1>7 DEF ClientReceive
  <2> QED
    BY <1>1, <1>7, <2>2, <2>3 DEF ClientReceive
<1>8. ASSUME NEW message \in Messages, ForeignSend(p, message)
      PROVE  up' \in [PeerIds -> Seq(Messages)]
             /\ UNCHANGED <<phase, leaveCode, down, stage, batch, paused, pauseChanged, clientVars>>
  BY <1>2, <1>8 DEF ForeignSend
<1> QED
  BY <1>1, <1>3, <1>4, <1>5, <1>6, <1>7, <1>8 DEF clientVars

\* Every step keeps every type.
LEMMA StepTyped ==
  ASSUME Typed, [Next]_vars
  PROVE  Typed'
<1>1. /\ Members' \subseteq PeerIds /\ members' \in [Members' -> MemberRecords]
      /\ players' \subseteq 1..LastEntity
      /\ nextEntity' \in 0..LastEntity
      /\ current' \in CurrentStates
  BY StepWorldCases, WorldTyped
<1>2. ASSUME NEW p \in PeerIds,
             \/ PollSession(p) \/ PollPacket(p)
             \/ \E role \in Roles : RequestJoin(p, role)
             \/ RequestPause(p) \/ ClientReceive(p)
             \/ \E message \in Messages : ForeignSend(p, message)
      PROVE  Typed'
  BY <1>1, <1>2, EnvironmentTyped DEF Typed
<1>3. CASE HandleEvent
  BY <1>1, <1>3, HandleEventTyped DEF Typed, clientVars
<1>4. ASSUME NEW failed \in SUBSET Joined,
             BroadcastPauseState(failed) \/ RunTick(failed) \/ EndFrame(failed)
      PROVE  Typed'
  BY <1>1, <1>4, LoopTyped DEF Typed, clientVars
<1>5. CASE EndTicks
  BY <1>1, <1>5 DEF Typed, EndTicks, clientVars, transportVars
<1>6. CASE UNCHANGED vars
  BY <1>1, <1>6 DEF Typed, vars, clientVars, transportVars
<1> QED
  BY <1>2, <1>3, <1>4, <1>5, <1>6 DEF Next, Loop

\* The initial state has the types.
LEMMA InitTyped == Init => Typed
<1> SUFFICES ASSUME Init PROVE Typed
  OBVIOUS
<1>1. members = << >> /\ DOMAIN members = {}
  BY DEF Init
<1>2. members \in [Members -> MemberRecords] /\ Members \subseteq PeerIds
  BY <1>1 DEF Members
<1>3. nextEntity \in 0..LastEntity
  BY MembershipAssumption DEF Init
<1>4. current \in CurrentStates
  BY DEF Init, CurrentStates
<1>5. phase \in [PeerIds -> Transport!Phases]
  BY DEF Init, Transport!SessionInit, Transport!Phases
<1>6. up \in [PeerIds -> Seq(Messages)] /\ down \in [PeerIds -> Seq(Tidings)] /\ batch \in Seq(Events)
  <2>1. << >> \in Seq(Messages) /\ << >> \in Seq(Tidings) /\ << >> \in Seq(Events)
    OBVIOUS
  <2> QED
    BY <2>1 DEF Init
<1>7. /\ leaveCode \in [PeerIds -> LeaveCodes]
      /\ clientRole \in [PeerIds -> {"none", "asked", "accepted", "failed"}]
      /\ clientPaused \in [PeerIds -> {"unknown", "paused", "running"}]
  BY DEF Init, LeaveCodes
<1>8. /\ stage \in {"poll", "handle", "ticks", "view"} /\ paused \in BOOLEAN /\ pauseChanged \in BOOLEAN
      /\ players \subseteq 1..LastEntity
  BY DEF Init
<1> QED
  BY <1>2, <1>3, <1>4, <1>5, <1>6, <1>7, <1>8 DEF Typed

\* The types of the specification, but for the number of members (MembersBounded below).
THEOREM TypesKept == Spec => []Typed
<1>1. Typed /\ [Next]_vars => Typed'
  BY StepTyped
<1> QED
  BY <1>1, InitTyped, PTL DEF Spec

-----------------------------------------------------------------------------
(* The world follows the members. *)

\* Peers erased with their entities leave the others with theirs: no two have the same.
LEMMA ErasedPlayers ==
  ASSUME Typed, PlayersMatchWorld, NEW gone, NEW snapshot \in CurrentStates, ErasePeers(gone, snapshot)
  PROVE  PlayersMatchWorld'
<1>1. /\ players = {members[p].player : p \in Members} \ {0}
      /\ \A p \in Members : members[p].role = "player" <=> members[p].player # 0
      /\ \A p, q \in Members : members[p].role = "player" /\ members[q].role = "player" => p = q
  BY DEF PlayersMatchWorld
<1>2. /\ Members' = Members \ gone
      /\ \A p \in Members' : members'[p] = members[p]
  BY DEF ErasePeers, Restrict, Members
<1>3. players' = players \ {members[p].player : p \in gone \cap Members}
  BY DEF ErasePeers
<1>4. ASSUME NEW p \in Members \ gone, NEW q \in gone \cap Members,
             members[p].player = members[q].player, members[p].player # 0
      PROVE  FALSE
  BY <1>1, <1>4
<1>5. players' = {members'[p].player : p \in Members'} \ {0}
  BY <1>1, <1>2, <1>3, <1>4
<1> QED
  BY <1>1, <1>2, <1>5 DEF PlayersMatchWorld

\* The world's players stay those of the members, whatever the step.
LEMMA PlayersFollow ==
  ASSUME Typed, PlayersMatchWorld, WorldCases
  PROVE  PlayersMatchWorld'
<1>1. /\ players = {members[p].player : p \in Members} \ {0}
      /\ \A p \in Members : members[p].role = "player" <=> members[p].player # 0
      /\ \A p, q \in Members : members[p].role = "player" /\ members[q].role = "player" => p = q
  BY DEF PlayersMatchWorld
<1>2. ASSUME NEW p \in PeerIds, Admits(p) PROVE PlayersMatchWorld'
  <2>1. /\ Members' = Members \cup {p} /\ p \notin Members
        /\ members'[p] = [role |-> "none", player |-> 0]
        /\ \A q \in Members : members'[q] = members[q]
        /\ players' = players
    BY <1>2 DEF Admits, Members, worldVars
  <2> QED
    BY <1>1, <2>1 DEF PlayersMatchWorld
<1>3. ASSUME NEW gone \in SUBSET PeerIds, Erases(gone) PROVE PlayersMatchWorld'
  BY <1>3, ErasedPlayers DEF Erases
<1>4. ASSUME NEW p \in PeerIds, NEW role \in Roles, NEW player \in 0..LastEntity, Grants(p, role, player)
      PROVE  PlayersMatchWorld'
  <2>1. p \in Members /\ members[p].role = "none" /\ members[p].player = 0
    BY <1>1, <1>4 DEF Grants, Joined
  <2>2. /\ role = "player" <=> player # 0
        /\ role = "player" => \A q \in Members \ {p} : members[q].role # "player"
    BY <1>4 DEF Grants, Grantable, OtherPlayer
  <2>3. CASE JoinSucceeds(p, role, player)
    <3>1. /\ Members' = Members
          /\ members'[p] = [role |-> role, player |-> player]
          /\ \A q \in Members \ {p} : members'[q] = members[q]
          /\ players' = players \cup ({player} \ {0})
      BY <2>1, <2>3 DEF JoinSucceeds, Members, Typed
    <3>2. players' = {members'[q].player : q \in Members'} \ {0}
      BY <1>1, <2>1, <3>1
    <3> QED
      BY <1>1, <2>1, <2>2, <3>1, <3>2 DEF PlayersMatchWorld
  <2>4. CASE JoinFails(p)
    <3>1. /\ Members' = Members \ {p}
          /\ \A q \in Members' : members'[q] = members[q]
          /\ players' = players
      BY <2>4 DEF JoinFails, Restrict, Members
    <3>2. players' = {members'[q].player : q \in Members'} \ {0}
      BY <1>1, <2>1, <3>1
    <3> QED
      BY <1>1, <3>1, <3>2 DEF PlayersMatchWorld
  <2> QED
    BY <1>4, <2>3, <2>4 DEF Grants
<1>5. CASE Refreshes
  BY <1>1, <1>5 DEF Refreshes, Members, PlayersMatchWorld
<1> QED
  BY <1>2, <1>3, <1>4, <1>5 DEF WorldCases

\* A snapshot that is not marked dirty still shows the world's players after any step.
LEMMA SnapshotFollows ==
  ASSUME Typed, SnapshotFresh, WorldCases
  PROVE  SnapshotFresh'
<1>1. current \in CurrentStates /\ (current.valid /\ ~current.dirty => current.players = players)
  BY DEF Typed, SnapshotFresh
<1>2. ASSUME NEW p \in PeerIds, Admits(p) PROVE SnapshotFresh'
  BY <1>1, <1>2 DEF Admits, worldVars, SnapshotFresh
<1>3. ASSUME NEW gone \in SUBSET PeerIds, Erases(gone) PROVE SnapshotFresh'
  <2>1. PICK snapshot \in CurrentStates : Shows(snapshot) /\ ErasePeers(gone, snapshot)
    BY <1>3 DEF Erases
  <2> DEFINE lost == players \cap {members[p].player : p \in gone \cap Members}
             marked == snapshot.dirty \/ lost # {}
  <2>2. players' = players \ lost /\ current' = [snapshot EXCEPT !.dirty = marked]
    BY <2>1, Zenon DEF ErasePeers
  <2>3. marked \in BOOLEAN /\ (~marked => snapshot.dirty = FALSE /\ lost = {})
    BY <2>1 DEF CurrentStates
  <2> HIDE DEF lost, marked
  <2>4. /\ current'.valid = snapshot.valid /\ current'.dirty = marked /\ current'.players = snapshot.players
    BY <2>1, <2>2, <2>3 DEF CurrentStates
  <2>5. CASE marked
    BY <2>4, <2>5 DEF SnapshotFresh
  <2>6. CASE ~marked
    <3>1. players' = players /\ snapshot.dirty = FALSE
      BY <2>2, <2>3, <2>6
    <3> QED
      BY <2>1, <2>4, <3>1 DEF SnapshotFresh, Shows
  <2> QED
    BY <2>5, <2>6
<1>4. ASSUME NEW p \in PeerIds, NEW role \in Roles, NEW player \in 0..LastEntity, Grants(p, role, player)
      PROVE  SnapshotFresh'
  <2> DEFINE marked == current.dirty \/ player # 0
  <2>1. current' = [current EXCEPT !.dirty = marked]
    BY <1>4, Zenon DEF Grants, Spawn
  <2>2. marked \in BOOLEAN /\ (~marked => current.dirty = FALSE /\ player = 0)
    BY <1>1 DEF CurrentStates
  <2> HIDE DEF marked
  <2>3. current'.valid = current.valid /\ current'.dirty = marked /\ current'.players = current.players
    BY <1>1, <2>1, <2>2 DEF CurrentStates
  <2>4. players' = players \cup ({player} \ {0}) \/ players' = players
    BY <1>4 DEF Grants, JoinSucceeds, JoinFails
  <2>5. CASE marked
    BY <2>3, <2>5 DEF SnapshotFresh
  <2>6. CASE ~marked
    <3>1. players' = players /\ current.dirty = FALSE
      BY <2>2, <2>4, <2>6
    <3> QED
      BY <1>1, <2>3, <3>1 DEF SnapshotFresh
  <2> QED
    BY <2>5, <2>6
<1>5. CASE Refreshes
  BY <1>5 DEF Refreshes, Shows, SnapshotFresh
<1> QED
  BY <1>2, <1>3, <1>4, <1>5 DEF WorldCases

\* The player entities of the world are the members', and a snapshot that is not marked
\* dirty shows them, whatever became of the peers since (erase_peers, ensure_current_snapshot).
THEOREM WorldFollows == Spec => []WorldFollowsMembers
<1> DEFINE World == Typed /\ PlayersMatchWorld /\ SnapshotFresh
<1>1. Init => World
  <2> SUFFICES ASSUME Init PROVE World
    OBVIOUS
  <2>1. DOMAIN members = {} /\ players = {}
    BY DEF Init
  <2>2. PlayersMatchWorld
    BY <2>1 DEF PlayersMatchWorld, Members
  <2>3. SnapshotFresh
    BY DEF Init, SnapshotFresh
  <2> QED
    BY <2>2, <2>3, InitTyped
<1>2. World /\ [Next]_vars => World'
  BY StepTyped, StepWorldCases, PlayersFollow, SnapshotFollows
<1>3. World => WorldFollowsMembers
  BY DEF WorldFollowsMembers
<1> QED
  BY <1>1, <1>2, <1>3, PTL DEF Spec

-----------------------------------------------------------------------------
(* The members are the peers that are there. *)

\* An event of the kind and peer is polled and not yet handled.
Pending(kind, p) == \E i \in 1..Len(batch) : batch[i].kind = kind /\ batch[i].peer = p

\* The events of a peer come in the order of its session.
BatchOrdered ==
    \A i, j \in 1..Len(batch) : i < j /\ batch[i].peer = batch[j].peer =>
        batch[i].kind # "PeerDisconnected" /\ batch[j].kind # "PeerSessionReady"

\* What the server knows of a peer, and what the batch will tell it, agree with the peer's
\* session: the conjunction for every peer is inductive.
PeerTracked(p) ==
    /\ Pending("PeerSessionReady", p) =>
          p \notin Members /\ leaveCode[p] = "none" /\ phase[p] \in {"ready", "gone"}
    /\ Pending("PeerDisconnected", p) => phase[p] = "gone"
    /\ phase[p] \in {"unknown", "connected"} =>
          p \notin Members /\ leaveCode[p] = "none" /\ ~Pending("ReceivedPacket", p)
    /\ phase[p] = "ready" /\ ~Pending("PeerSessionReady", p) => (p \in Members <=> leaveCode[p] = "none")
    /\ phase[p] = "gone" /\ (p \in Members \/ Pending("PeerSessionReady", p)) =>
          Pending("PeerDisconnected", p)

Tracked == BatchOrdered /\ \A p \in PeerIds : PeerTracked(p)

\* What is pending once the first event of a batch is taken off it.
LEMMA BatchTail ==
  ASSUME Typed, BatchOrdered, batch # << >>, batch' = Tail(batch)
  PROVE  /\ BatchOrdered'
         /\ Pending(Head(batch).kind, Head(batch).peer)
         /\ \A q : q = Head(batch).peer => ~Pending("PeerSessionReady", q)'
         /\ \A kind, q : Head(batch).kind = "PeerDisconnected" /\ q = Head(batch).peer => ~Pending(kind, q)'
         /\ \A kind, q : Pending(kind, q)' => Pending(kind, q)
         /\ \A kind, q : Pending(kind, q) /\ (kind # Head(batch).kind \/ q # Head(batch).peer) =>
                            Pending(kind, q)'
<1>1. batch \in Seq(Events) /\ Len(batch) \in Nat /\ Len(batch) >= 1 /\ Head(batch) = batch[1]
  BY DEF Typed
<1>2. Len(batch') = Len(batch) - 1 /\ \A i \in 1..Len(batch') : i + 1 \in 1..Len(batch) /\ batch'[i] = batch[i + 1]
  BY <1>1
<1>3. BatchOrdered'
  <2>1. \A i, j \in 1..Len(batch') : i < j /\ batch'[i].peer = batch'[j].peer =>
            batch'[i].kind # "PeerDisconnected" /\ batch'[j].kind # "PeerSessionReady"
    <3> SUFFICES ASSUME NEW i \in 1..Len(batch'), NEW j \in 1..Len(batch'), i < j,
                        batch'[i].peer = batch'[j].peer
                 PROVE  batch'[i].kind # "PeerDisconnected" /\ batch'[j].kind # "PeerSessionReady"
      OBVIOUS
    <3>1. i + 1 < j + 1 /\ batch[i + 1].peer = batch[j + 1].peer
      BY <1>1, <1>2
    <3> QED
      BY <1>2, <3>1 DEF BatchOrdered
  <2> QED
    BY <2>1 DEF BatchOrdered
<1>4. Pending(Head(batch).kind, Head(batch).peer)
  BY <1>1 DEF Pending
<1>5. \A i \in 1..Len(batch') : batch'[i].peer = Head(batch).peer =>
          Head(batch).kind # "PeerDisconnected" /\ batch'[i].kind # "PeerSessionReady"
  BY <1>1, <1>2 DEF BatchOrdered
<1>6. \A kind, q : Pending(kind, q)' => Pending(kind, q)
  BY <1>1, <1>2 DEF Pending
<1>7. ASSUME NEW kind, NEW q, Pending(kind, q), kind # Head(batch).kind \/ q # Head(batch).peer
      PROVE  Pending(kind, q)'
  <2>1. PICK i \in 1..Len(batch) : batch[i].kind = kind /\ batch[i].peer = q
    BY <1>7 DEF Pending
  <2>2. i # 1
    BY <1>1, <1>7, <2>1
  <2>3. i - 1 \in 1..Len(batch') /\ batch'[i - 1] = batch[i]
    BY <1>1, <1>2, <2>2
  <2> QED
    BY <2>1, <2>3 DEF Pending
<1>8. \A q : q = Head(batch).peer => ~Pending("PeerSessionReady", q)'
  BY <1>5 DEF Pending
<1>9. \A kind, q : Head(batch).kind = "PeerDisconnected" /\ q = Head(batch).peer => ~Pending(kind, q)'
  BY <1>5 DEF Pending
<1> QED
  BY <1>3, <1>4, <1>6, <1>7, <1>8, <1>9

\* What is pending once an event is polled: the event of a peer that has no later ones.
LEMMA BatchAppend ==
  ASSUME Typed, BatchOrdered, NEW event \in Events, batch' = Append(batch, event),
         ~Pending("PeerDisconnected", event.peer),
         event.kind = "PeerSessionReady" => \A kind : ~Pending(kind, event.peer)
  PROVE  /\ BatchOrdered'
         /\ \A kind, q : Pending(kind, q)' <=> Pending(kind, q) \/ (kind = event.kind /\ q = event.peer)
<1>1. batch \in Seq(Events) /\ Len(batch) \in Nat
  BY DEF Typed
<1>2. /\ Len(batch') = Len(batch) + 1 /\ batch'[Len(batch) + 1] = event
      /\ \A i \in 1..Len(batch) : batch'[i] = batch[i]
  BY <1>1
<1>3. \A i, j \in 1..Len(batch') : i < j /\ batch'[i].peer = batch'[j].peer =>
          batch'[i].kind # "PeerDisconnected" /\ batch'[j].kind # "PeerSessionReady"
  <2> SUFFICES ASSUME NEW i \in 1..Len(batch'), NEW j \in 1..Len(batch'), i < j,
                      batch'[i].peer = batch'[j].peer
               PROVE  batch'[i].kind # "PeerDisconnected" /\ batch'[j].kind # "PeerSessionReady"
    OBVIOUS
  <2>1. i \in 1..Len(batch) /\ batch'[i] = batch[i]
    BY <1>1, <1>2
  <2>2. CASE j \in 1..Len(batch)
    BY <1>2, <2>1, <2>2 DEF BatchOrdered
  <2>3. CASE j = Len(batch) + 1
    BY <1>2, <2>1, <2>3 DEF Pending
  <2> QED
    BY <1>1, <1>2, <2>2, <2>3
<1>4. \A kind, q : Pending(kind, q)' <=> Pending(kind, q) \/ (kind = event.kind /\ q = event.peer)
  BY <1>1, <1>2 DEF Pending
<1> QED
  BY <1>3, <1>4 DEF BatchOrdered

\* A peer leaves the members and, while it is there, is asked to leave the session.
Leaves(p) == p \notin Members' /\ (phase[p] # "gone" => leaveCode'[p] # "none")

Keeps(p) == (p \in Members' <=> p \in Members) /\ leaveCode'[p] = leaveCode[p]

\* What an event does to the membership of its peer and to no other.
MembershipCases(kind, p) ==
    /\ \A q \in PeerIds \ {p} : Keeps(q)
    /\ kind = "PeerSessionReady" /\ p \notin Members =>
          \/ p \in Members' /\ leaveCode'[p] = leaveCode[p]
          \/ Leaves(p)
    /\ kind = "PeerDisconnected" => p \notin Members' /\ leaveCode'[p] = leaveCode[p]
    /\ kind = "ReceivedPacket" => Keeps(p) \/ Leaves(p)

\* Handling an event changes the membership of the event's peer, and of no other.
LEMMA HandledMembership ==
  ASSUME Typed, HandleEvent
  PROVE  MembershipCases(Head(batch).kind, Head(batch).peer)
<1> DEFINE event == Head(batch)
           p == event.peer
<1> USE DEF MembershipCases, Keeps, Leaves
<1>1. /\ p \in PeerIds /\ HandleCases(event, p)
      /\ event.kind \in {"PeerSessionReady", "PeerDisconnected", "ReceivedPacket"}
  BY HandleEventCases
<1>2. leaveCode \in [PeerIds -> LeaveCodes] /\ members \in [Members -> MemberRecords]
  BY DEF Typed
<1> SUFFICES MembershipCases(event.kind, p)
  OBVIOUS
<1> HIDE DEF event, p
<1>3. ASSUME NEW code \in LeaveCodes \ {"none"}, Disconnected({p}, code)
      PROVE  /\ \A q \in PeerIds \ {p} : leaveCode'[q] = leaveCode[q]
             /\ phase[p] # "gone" => leaveCode'[p] # "none"
  BY <1>1, <1>3 DEF Disconnected
<1>4. ASSUME members' = Restrict(members, Members \ {p})
      PROVE  p \notin Members' /\ \A q \in PeerIds \ {p} : q \in Members' <=> q \in Members
  BY <1>4 DEF Members, Restrict
<1>5. {"ServerFull", "ProtocolMismatch", "TransportError"} = LeaveCodes \ {"none"}
  BY DEF LeaveCodes
<1>6. CASE event.kind = "PeerSessionReady" /\ HandlePeerSessionReady(p)
  <2>1. CASE p \notin Members /\ members' = [q \in Members \cup {p} |->
                 IF q = p THEN [role |-> "none", player |-> 0] ELSE members[q]] /\ UNCHANGED leaveCode
    BY <1>6, <2>1 DEF Members
  <2>2. CASE Disconnected({p}, "ServerFull") /\ UNCHANGED members
    BY <1>3, <1>5, <1>6, <2>2 DEF Members
  <2> QED
    BY <1>6, <2>1, <2>2 DEF HandlePeerSessionReady
<1>7. CASE event.kind = "PeerDisconnected" /\ HandlePeerDisconnected(p)
  BY <1>4, <1>7 DEF HandlePeerDisconnected, ErasePeers
<1>8. CASE event.kind = "ReceivedPacket" /\ p \notin Members /\ HandleUnknownPeer(p)
  BY <1>3, <1>5, <1>8 DEF HandleUnknownPeer, Members
<1>9. CASE event.kind = "ReceivedPacket" /\ \E code \in {"ServerFull", "ProtocolMismatch"} : RejectPeer(p, code)
  BY <1>3, <1>4, <1>5, <1>9 DEF RejectPeer, ErasePeers
<1>10. CASE /\ event.kind = "ReceivedPacket" /\ p \in Members \ Joined
            /\ \E role \in Roles, player \in 0..LastEntity :
                  Grantable(p, role, player) /\ AnswerJoin(p, role, player)
  <2>1. PICK role \in Roles, player \in 0..LastEntity : AnswerJoin(p, role, player)
    BY <1>10
  <2>2. CASE JoinSucceeds(p, role, player)
    BY <1>2, <1>10, <2>2 DEF JoinSucceeds, Members
  <2>3. CASE JoinFails(p)
    BY <1>3, <1>4, <1>5, <1>10, <2>3 DEF JoinFails
  <2> QED
    BY <2>1, <2>2, <2>3 DEF AnswerJoin
<1>11. CASE event.kind = "ReceivedPacket" /\ UNCHANGED <<down, leaveCode, members, worldVars>>
  BY <1>11 DEF Members
<1> QED
  BY <1>1, <1>6, <1>7, <1>8, <1>9, <1>10, <1>11 DEF HandleCases

\* Handling an event keeps the peers tracked.
LEMMA HandleTracked ==
  ASSUME Typed, Tracked, HandleEvent
  PROVE  Tracked'
<1>1. PICK kind, p : kind = Head(batch).kind /\ p = Head(batch).peer
  OBVIOUS
<1>2. /\ p \in PeerIds /\ kind \in {"PeerSessionReady", "PeerDisconnected", "ReceivedPacket"}
      /\ batch # << >> /\ batch' = Tail(batch) /\ phase' = phase
  BY <1>1, HandleEventCases
<1>3. MembershipCases(kind, p)
  BY <1>1, HandledMembership
<1>4. BatchOrdered /\ \A q \in PeerIds : PeerTracked(q)
  BY DEF Tracked
<1>5. /\ BatchOrdered'
      /\ Pending(kind, p)
      /\ ~Pending("PeerSessionReady", p)'
      /\ kind = "PeerDisconnected" => \A other : ~Pending(other, p)'
      /\ \A other, q : Pending(other, q)' => Pending(other, q)
      /\ \A other, q : Pending(other, q) /\ (other # kind \/ q # p) => Pending(other, q)'
  BY <1>1, <1>2, <1>4, BatchTail
<1>6. \A q \in PeerIds : phase[q] \in {"unknown", "connected", "ready", "gone"}
  BY DEF Typed, Transport!Phases
<1>7. ASSUME NEW q \in PeerIds \ {p} PROVE PeerTracked(q)'
  <2>1. Keeps(q)
    BY <1>3 DEF MembershipCases
  <2>2. \A other : Pending(other, q)' <=> Pending(other, q)
    BY <1>5
  <2> QED
    BY <1>2, <1>4, <2>1, <2>2 DEF PeerTracked, Keeps
<1>8. PeerTracked(p)'
  <2>1. PeerTracked(p) /\ phase[p] \in {"ready", "gone"}
    BY <1>2, <1>4, <1>5, <1>6 DEF PeerTracked
  <2>2. CASE kind = "PeerSessionReady"
    <3>1. \/ p \in Members' /\ leaveCode'[p] = leaveCode[p]
          \/ Leaves(p)
      BY <1>3, <1>5, <2>1, <2>2 DEF MembershipCases, PeerTracked
    <3>2. Pending("PeerDisconnected", p)' <=> Pending("PeerDisconnected", p)
      BY <1>5, <2>2
    <3> QED
      BY <1>2, <1>5, <2>1, <2>2, <3>1, <3>2 DEF PeerTracked, Leaves
  <2>3. CASE kind = "PeerDisconnected"
    <3>1. p \notin Members' /\ phase[p] = "gone"
      BY <1>3, <1>5, <2>1, <2>3 DEF MembershipCases, PeerTracked
    <3> QED
      BY <1>2, <1>5, <2>3, <3>1 DEF PeerTracked
  <2>4. CASE kind = "ReceivedPacket"
    <3>1. Keeps(p) \/ Leaves(p)
      BY <1>3, <2>4 DEF MembershipCases
    <3>2. ~Pending("PeerSessionReady", p)
      BY <1>5, <2>4
    <3>3. Pending("PeerDisconnected", p)' <=> Pending("PeerDisconnected", p)
      BY <1>5, <2>4
    <3> QED
      BY <1>2, <1>5, <2>1, <3>1, <3>2, <3>3 DEF PeerTracked, Keeps, Leaves
  <2> QED
    BY <1>2, <2>2, <2>3, <2>4
<1> QED
  BY <1>5, <1>7, <1>8 DEF Tracked

\* Sends that fail dismiss members; what is pending stays as it is.
LEMMA DismissTracked ==
  ASSUME Typed, Tracked, NEW failed \in SUBSET Joined,
         NEW snapshot, Disconnected(failed, "TransportError"), ErasePeers(failed, snapshot),
         UNCHANGED <<phase, batch>>
  PROVE  Tracked'
<1>1. /\ \A q \in PeerIds \ failed : Keeps(q)
      /\ \A q \in failed : q \in PeerIds /\ q \in Members /\ Leaves(q)
  BY DEF Typed, Disconnected, ErasePeers, Restrict, Members, Joined, Keeps, Leaves
<1>2. BatchOrdered /\ \A q \in PeerIds : PeerTracked(q)
  BY DEF Tracked
<1>3. BatchOrdered' /\ \A other, q : Pending(other, q)' <=> Pending(other, q)
  BY <1>2 DEF BatchOrdered, Pending
<1>4. ASSUME NEW q \in PeerIds PROVE PeerTracked(q)'
  <2>1. CASE q \in failed
    <3>1. phase[q] # "unknown" /\ phase[q] # "connected" /\ ~Pending("PeerSessionReady", q)
      BY <1>1, <1>2, <2>1 DEF PeerTracked
    <3> QED
      BY <1>1, <1>2, <1>3, <2>1, <3>1 DEF PeerTracked, Leaves
  <2>2. CASE q \notin failed
    BY <1>1, <1>2, <1>3, <2>2 DEF PeerTracked, Keeps
  <2> QED
    BY <2>1, <2>2
<1> QED
  BY <1>3, <1>4 DEF Tracked

\* What a peer's session goes through is polled as it happens.
LEMMA PollTracked ==
  ASSUME Typed, Tracked, NEW p \in PeerIds, PollSession(p) \/ PollPacket(p)
  PROVE  Tracked'
<1>1. /\ \A q \in PeerIds : Keeps(q)
      /\ Members' = Members
  BY DEF PollSession, PollPacket, Keeps, Members
<1>2. BatchOrdered /\ \A q \in PeerIds : PeerTracked(q)
  BY DEF Tracked
<1>3. phase \in [PeerIds -> Transport!Phases]
  BY DEF Typed
<1>4. ASSUME NEW event \in Events, Poll(event), event.peer = p, phase[p] # "gone",
             event.kind = "PeerSessionReady" => phase[p] = "connected"
      PROVE  /\ BatchOrdered'
             /\ \A kind, q : Pending(kind, q)' <=> Pending(kind, q) \/ (kind = event.kind /\ q = p)
  <2>1. ~Pending("PeerDisconnected", p)
    BY <1>2, <1>4 DEF PeerTracked
  <2>2. phase[p] = "connected" =>
           ~Pending("PeerSessionReady", p) /\ ~Pending("ReceivedPacket", p)
    BY <1>2 DEF PeerTracked
  <2>3. event.kind = "PeerSessionReady" => \A kind : ~Pending(kind, p)
    <3>1. \A kind : Pending(kind, p) => kind \in {"PeerSessionReady", "PeerDisconnected", "ReceivedPacket"}
      BY EventFields DEF Pending, Typed
    <3> QED
      BY <1>4, <2>1, <2>2, <3>1
  <2> QED
    BY <1>2, <1>4, <2>1, <2>3, BatchAppend DEF Poll
<1>5. CASE PollPacket(p)
  <2>1. up[p] \in Seq(Messages) /\ up[p] # << >> /\ phase[p] = "ready" /\ phase' = phase
    BY <1>5 DEF PollPacket, Typed
  <2> DEFINE event == [kind |-> "ReceivedPacket", peer |-> p, message |-> Head(up[p])]
  <2>2. event \in Events
    BY <2>1 DEF Events
  <2>3. BatchOrdered' /\ \A kind, q : Pending(kind, q)' <=> Pending(kind, q) \/ (kind = "ReceivedPacket" /\ q = p)
    BY <1>4, <1>5, <2>1, <2>2 DEF PollPacket
  <2>4. ASSUME NEW q \in PeerIds PROVE PeerTracked(q)'
    BY <1>1, <1>2, <2>1, <2>3, <2>4 DEF PeerTracked, Keeps
  <2> QED
    BY <2>3, <2>4 DEF Tracked
<1>6. CASE PollSession(p) /\ Transport!PeerConnected(p) /\ UNCHANGED batch
  <2>1. phase[p] = "unknown" /\ phase' = [phase EXCEPT ![p] = "connected"]
    BY <1>6 DEF Transport!PeerConnected
  <2>2. BatchOrdered' /\ \A kind, q : Pending(kind, q)' <=> Pending(kind, q)
    BY <1>2, <1>6 DEF BatchOrdered, Pending
  <2>3. ASSUME NEW q \in PeerIds PROVE PeerTracked(q)'
    BY <1>1, <1>2, <1>3, <2>1, <2>2 DEF PeerTracked, Keeps
  <2> QED
    BY <2>2, <2>3 DEF Tracked
<1>7. CASE /\ PollSession(p) /\ Transport!PeerSessionReady(p)
           /\ Poll([kind |-> "PeerSessionReady", peer |-> p])
  <2>1. phase[p] = "connected" /\ phase' = [phase EXCEPT ![p] = "ready"]
    BY <1>7 DEF Transport!PeerSessionReady
  <2>2. [kind |-> "PeerSessionReady", peer |-> p] \in Events
    BY DEF Events
  <2>3. BatchOrdered' /\ \A kind, q : Pending(kind, q)' <=> Pending(kind, q) \/ (kind = "PeerSessionReady" /\ q = p)
    BY <1>4, <1>7, <2>1, <2>2
  <2>4. ASSUME NEW q \in PeerIds PROVE PeerTracked(q)'
    BY <1>1, <1>2, <1>3, <2>1, <2>3 DEF PeerTracked, Keeps
  <2> QED
    BY <2>3, <2>4 DEF Tracked
<1>8. CASE /\ PollSession(p) /\ Transport!PeerDisconnected(p)
           /\ Poll([kind |-> "PeerDisconnected", peer |-> p])
  <2>1. phase[p] \in {"connected", "ready"} /\ phase' = [phase EXCEPT ![p] = "gone"]
    BY <1>8 DEF Transport!PeerDisconnected
  <2>2. [kind |-> "PeerDisconnected", peer |-> p] \in Events
    BY DEF Events
  <2>3. BatchOrdered' /\ \A kind, q : Pending(kind, q)' <=> Pending(kind, q) \/ (kind = "PeerDisconnected" /\ q = p)
    BY <1>4, <1>8, <2>1, <2>2
  <2>4. ASSUME NEW q \in PeerIds PROVE PeerTracked(q)'
    BY <1>1, <1>2, <1>3, <2>1, <2>3 DEF PeerTracked, Keeps
  <2> QED
    BY <2>3, <2>4 DEF Tracked
<1> QED
  BY <1>5, <1>6, <1>7, <1>8 DEF PollSession

\* No step but these concerns the peers' sessions.
LEMMA StepTracked ==
  ASSUME Typed, Tracked, [Next]_vars
  PROVE  Tracked'
<1>1. ASSUME UNCHANGED <<phase, leaveCode, batch, members>> PROVE Tracked'
  BY <1>1 DEF Tracked, BatchOrdered, PeerTracked, Pending, Members
<1>2. ASSUME NEW p \in PeerIds,
             \/ \E role \in Roles : RequestJoin(p, role)
             \/ RequestPause(p) \/ ClientReceive(p)
             \/ \E message \in Messages : ForeignSend(p, message)
      PROVE  Tracked'
  BY <1>1, <1>2 DEF RequestJoin, RequestPause, ClientReceive, ForeignSend
<1>3. ASSUME NEW failed \in SUBSET Joined, BroadcastPauseState(failed) PROVE Tracked'
  <2>1. CASE Broadcast(Message(paused), failed, current)
    BY <1>3, <2>1, DismissTracked DEF BroadcastPauseState, Broadcast
  <2> QED
    BY <1>1, <1>3, <2>1 DEF BroadcastPauseState
<1>4. ASSUME NEW failed \in SUBSET Joined, RunTick(failed) PROVE Tracked'
  BY <1>4, DismissTracked DEF RunTick
<1>5. ASSUME NEW failed \in SUBSET Joined, EndFrame(failed) PROVE Tracked'
  <2>1. CASE Broadcast(Message(~paused), failed, Extracted)
    BY <1>5, <2>1, DismissTracked DEF EndFrame, Broadcast
  <2> QED
    BY <1>1, <1>5, <2>1 DEF EndFrame
<1>6. CASE EndTicks \/ UNCHANGED vars
  BY <1>1, <1>6 DEF EndTicks, vars, transportVars
<1> QED
  BY <1>2, <1>3, <1>4, <1>5, <1>6, HandleTracked, PollTracked DEF Next, Loop

\* The server has a finite number of members, at most max_clients.
MembersBounded == IsFiniteSet(Members) /\ Cardinality(Members) <= MaxClients

\* A member is admitted only where there is room for one.
LEMMA StepBounded ==
  ASSUME Typed, MembersBounded, WorldCases
  PROVE  MembersBounded'
<1>1. IsFiniteSet(Members) /\ Cardinality(Members) \in Nat /\ Cardinality(Members) <= MaxClients
  BY FS_CardinalityType DEF MembersBounded
<1>2. MaxClients \in Nat
  BY MembershipAssumption
<1>3. ASSUME NEW p \in PeerIds, Admits(p) PROVE MembersBounded'
  <2>1. Members' = Members \cup {p}
    BY <1>3 DEF Admits, Members
  <2>2. IsFiniteSet(Members \cup {p}) /\ Cardinality(Members \cup {p}) = Cardinality(Members) + 1
    BY <1>1, <1>3, FS_AddElement DEF Admits
  <2>3. Cardinality(Members) < MaxClients
    BY <1>3 DEF Admits
  <2>4. Cardinality(Members) + 1 <= MaxClients
    BY <1>1, <1>2, <2>3
  <2> QED
    BY <2>1, <2>2, <2>4 DEF MembersBounded
<1>4. ASSUME Members' \subseteq Members PROVE MembersBounded'
  <2>1. IsFiniteSet(Members') /\ Cardinality(Members') <= Cardinality(Members) /\ Cardinality(Members') \in Nat
    BY <1>1, <1>4, FS_Subset, FS_CardinalityType
  <2> QED
    BY <1>1, <1>2, <2>1 DEF MembersBounded
<1>5. ASSUME NEW gone \in SUBSET PeerIds, Erases(gone) PROVE MembersBounded'
  BY <1>4, <1>5 DEF Erases, ErasePeers, Restrict, Members
<1>6. ASSUME NEW p \in PeerIds, NEW role \in Roles, NEW player \in 0..LastEntity, Grants(p, role, player)
      PROVE  MembersBounded'
  BY <1>4, <1>6 DEF Grants, JoinSucceeds, JoinFails, Restrict, Members, Typed
<1>7. CASE Refreshes
  BY <1>4, <1>7 DEF Refreshes, Members
<1> QED
  BY <1>3, <1>5, <1>6, <1>7 DEF WorldCases

-----------------------------------------------------------------------------
(* No client is accepted twice. *)

\* An acceptance is on its way to the peer's client.
Accepting(p) == \E i \in 1..Len(down[p]) : down[p][i] = "JoinAccepted"

\* The peer was asked to leave, or it has left.
Dismissed(p) == leaveCode[p] # "none" \/ phase[p] = "gone"

\* Who was sent an acceptance is joined, was asked to leave or is gone, and is sent no
\* second one; the conjunction for every peer is inductive.
RoleTracked(p) ==
    /\ clientRole[p] # "failed"
    /\ clientRole[p] = "accepted" => ~Accepting(p)
    /\ \A i, j \in 1..Len(down[p]) :
          down[p][i] = "JoinAccepted" /\ down[p][j] = "JoinAccepted" => i = j
    /\ Accepting(p) \/ clientRole[p] = "accepted" => p \in Joined \/ Dismissed(p)

\* A peer stays dismissed, and joined until it is dismissed.
Persists(p) == ~Dismissed(p)' => ~Dismissed(p) /\ (p \in Joined => p \in Joined')

\* No step forgets that a peer was asked to leave or is gone, and one stays joined until then.
LEMMA HandlePersists ==
  ASSUME Typed, Tracked, HandleEvent, NEW q \in PeerIds
  PROVE  Persists(q)
<1> DEFINE event == Head(batch)
           p == event.peer
<1>1. /\ p \in PeerIds /\ HandleCases(event, p) /\ phase' = phase
      /\ batch # << >> /\ batch' = Tail(batch)
  BY HandleEventCases
<1>2. event.kind = "PeerDisconnected" => phase[p] = "gone"
  BY <1>1, BatchTail DEF Tracked, PeerTracked
<1>3. leaveCode \in [PeerIds -> LeaveCodes] /\ members \in [Members -> MemberRecords]
  BY DEF Typed
<1> HIDE DEF event, p
<1>4. {"ServerFull", "ProtocolMismatch", "TransportError"} = LeaveCodes \ {"none"}
  BY DEF LeaveCodes
<1>5. ASSUME NEW code \in LeaveCodes \ {"none"}, Disconnected({p}, code)
      PROVE  ~Dismissed(q)' => ~Dismissed(q) /\ q # p
  BY <1>1, <1>5 DEF Disconnected, Dismissed
<1>6. ASSUME members' = Restrict(members, Members \ {p}), q # p
      PROVE  q \in Joined => q \in Joined'
  BY <1>6 DEF Joined, Members, Restrict
<1>7. CASE event.kind = "PeerSessionReady" /\ HandlePeerSessionReady(p)
  <2>1. CASE p \notin Members /\ members' = [r \in Members \cup {p} |->
                 IF r = p THEN [role |-> "none", player |-> 0] ELSE members[r]] /\ UNCHANGED leaveCode
    BY <1>1, <2>1 DEF Persists, Dismissed, Joined, Members
  <2>2. CASE Disconnected({p}, "ServerFull") /\ UNCHANGED members
    BY <1>4, <1>5, <2>2 DEF Persists, Joined, Members
  <2> QED
    BY <1>7, <2>1, <2>2 DEF HandlePeerSessionReady
<1>8. CASE event.kind = "PeerDisconnected" /\ HandlePeerDisconnected(p)
  BY <1>1, <1>2, <1>6, <1>8 DEF HandlePeerDisconnected, ErasePeers, Persists, Dismissed
<1>9. CASE event.kind = "ReceivedPacket" /\ p \notin Members /\ HandleUnknownPeer(p)
  BY <1>4, <1>5, <1>9 DEF HandleUnknownPeer, Persists, Joined, Members
<1>10. CASE event.kind = "ReceivedPacket" /\ \E code \in {"ServerFull", "ProtocolMismatch"} : RejectPeer(p, code)
  BY <1>4, <1>5, <1>6, <1>10 DEF RejectPeer, ErasePeers, Persists
<1>11. CASE /\ event.kind = "ReceivedPacket" /\ p \in Members \ Joined
            /\ \E role \in Roles, player \in 0..LastEntity :
                  Grantable(p, role, player) /\ AnswerJoin(p, role, player)
  <2>1. PICK role \in Roles, player \in 0..LastEntity : AnswerJoin(p, role, player)
    BY <1>11
  <2>2. CASE JoinSucceeds(p, role, player)
    BY <1>1, <1>3, <1>11, <2>2 DEF JoinSucceeds, Persists, Dismissed, Joined, Members
  <2>3. CASE JoinFails(p)
    BY <1>4, <1>5, <1>6, <1>11, <2>3 DEF JoinFails, Persists
  <2> QED
    BY <2>1, <2>2, <2>3 DEF AnswerJoin
<1>12. CASE event.kind = "ReceivedPacket" /\ UNCHANGED <<down, leaveCode, members, worldVars>>
  BY <1>1, <1>12 DEF Persists, Dismissed, Joined, Members
<1> QED
  BY <1>1, <1>7, <1>8, <1>9, <1>10, <1>11, <1>12 DEF HandleCases

\* The same where sends fail.
LEMMA DismissPersists ==
  ASSUME Typed, NEW failed \in SUBSET Joined, NEW snapshot,
         Disconnected(failed, "TransportError"), ErasePeers(failed, snapshot), UNCHANGED phase,
         NEW q \in PeerIds
  PROVE  Persists(q)
<1>1. CASE q \in failed
  BY <1>1 DEF Disconnected, Persists, Dismissed
<1>2. CASE q \notin failed
  BY <1>2 DEF Disconnected, ErasePeers, Restrict, Persists, Dismissed, Joined, Members
<1> QED
  BY <1>1, <1>2

\* A client that is told nothing, or only of the pause state, is not accepted once more.
LEMMA RoleKept ==
  ASSUME Typed, NEW q \in PeerIds, RoleTracked(q), Persists(q), clientRole'[q] = clientRole[q],
         \/ down'[q] = down[q]
         \/ \E message \in {"paused", "running"} : down'[q] = Append(down[q], message)
  PROVE  RoleTracked(q)'
<1>1. down[q] \in Seq(Tidings)
  BY DEF Typed
<1>2. \A i \in 1..Len(down'[q]) : down'[q][i] = "JoinAccepted" =>
          i \in 1..Len(down[q]) /\ down[q][i] = "JoinAccepted"
  <2>1. CASE down'[q] = down[q]
    BY <2>1
  <2>2. ASSUME NEW message \in {"paused", "running"}, down'[q] = Append(down[q], message)
        PROVE  \A i \in 1..Len(down'[q]) : down'[q][i] = "JoinAccepted" =>
                   i \in 1..Len(down[q]) /\ down[q][i] = "JoinAccepted"
    <3>1. /\ Len(down'[q]) = Len(down[q]) + 1 /\ down'[q][Len(down[q]) + 1] = message
          /\ \A i \in 1..Len(down[q]) : down'[q][i] = down[q][i]
      BY <1>1, <2>2
    <3>2. Len(down[q]) \in Nat
      BY <1>1
    <3> QED
      BY <3>1, <3>2
  <2> QED
    BY <2>1, <2>2
<1>3. Accepting(q)' => Accepting(q)
  BY <1>2 DEF Accepting
<1> QED
  BY <1>2, <1>3 DEF RoleTracked, Persists

\* A client is accepted only while it is neither joined, nor asked to leave, nor gone.
LEMMA AnswerRole ==
  ASSUME Typed, NEW p \in PeerIds, p \in Members \ Joined, RoleTracked(p), UNCHANGED <<phase, clientRole>>,
         NEW role \in Roles, NEW player \in 0..LastEntity, AnswerJoin(p, role, player)
  PROVE  RoleTracked(p)'
<1>1. /\ down \in [PeerIds -> Seq(Tidings)] /\ down[p] \in Seq(Tidings) /\ Len(down[p]) \in Nat
      /\ leaveCode \in [PeerIds -> LeaveCodes]
  BY DEF Typed
<1>2. Message(paused) # "JoinAccepted" /\ Message(paused) \in {"paused", "running"}
  BY DEF Message
<1>3. CanSend(p) => /\ clientRole[p] # "accepted"
                    /\ \A i \in 1..Len(down[p]) : down[p][i] # "JoinAccepted"
  BY DEF RoleTracked, Accepting, CanSend, Dismissed
<1>4. CASE JoinSucceeds(p, role, player)
  <2>1. CanSend(p) /\ down'[p] = down[p] \o <<"JoinAccepted", Message(paused)>>
    BY <1>1, <1>4 DEF JoinSucceeds
  <2>2. /\ Len(down'[p]) = Len(down[p]) + 2
        /\ \A i \in 1..Len(down[p]) : down'[p][i] = down[p][i]
        /\ down'[p][Len(down[p]) + 2] = Message(paused)
    BY <1>1, <2>1
  <2>3. \A i \in 1..Len(down'[p]) : down'[p][i] = "JoinAccepted" => i = Len(down[p]) + 1
    <3> SUFFICES ASSUME NEW i \in 1..Len(down'[p]), down'[p][i] = "JoinAccepted"
                 PROVE  i = Len(down[p]) + 1
      OBVIOUS
    <3>1. i \in 1..Len(down[p]) \/ i = Len(down[p]) + 1 \/ i = Len(down[p]) + 2
      BY <1>1, <2>2
    <3>2. i \notin 1..Len(down[p])
      BY <1>3, <2>1, <2>2
    <3>3. i # Len(down[p]) + 2
      BY <1>2, <2>2
    <3> QED
      BY <3>1, <3>2, <3>3
  <2>4. p \in Joined'
    BY <1>4 DEF JoinSucceeds, Joined, Members, Typed, Roles
  <2> QED
    BY <1>3, <2>1, <2>3, <2>4 DEF RoleTracked
<1>5. CASE JoinFails(p)
  <2>1. Dismissed(p)'
    BY <1>5 DEF JoinFails, Disconnected, Dismissed
  <2>2. CASE UNCHANGED down
    BY <2>1, <2>2 DEF RoleTracked, Accepting
  <2>3. CASE CanSend(p) /\ down' = [down EXCEPT ![p] = Append(@, "JoinAccepted")]
    <3>1. down'[p] = Append(down[p], "JoinAccepted")
      BY <1>1, <2>3
    <3>2. /\ Len(down'[p]) = Len(down[p]) + 1
          /\ \A i \in 1..Len(down[p]) : down'[p][i] = down[p][i]
      BY <1>1, <3>1
    <3>3. \A i \in 1..Len(down'[p]) : down'[p][i] = "JoinAccepted" => i = Len(down[p]) + 1
      BY <1>1, <1>3, <2>3, <3>2
    <3> QED
      BY <1>3, <2>1, <2>3, <3>3 DEF RoleTracked
  <2> QED
    BY <1>5, <2>2, <2>3 DEF JoinFails
<1> QED
  BY <1>4, <1>5 DEF AnswerJoin

\* Handling an event accepts the client of no peer twice.
LEMMA HandleRole ==
  ASSUME Typed, Tracked, HandleEvent, NEW q \in PeerIds, RoleTracked(q)
  PROVE  RoleTracked(q)'
<1> DEFINE event == Head(batch)
           p == event.peer
<1>1. p \in PeerIds /\ HandleCases(event, p) /\ UNCHANGED <<phase, clientRole>>
  BY HandleEventCases DEF clientVars
<1>2. Persists(q)
  BY HandlePersists
<1> HIDE DEF event, p
<1>3. ASSUME down'[q] = down[q] PROVE RoleTracked(q)'
  BY <1>1, <1>2, <1>3, RoleKept
<1>4. CASE \/ HandlePeerSessionReady(p) \/ HandlePeerDisconnected(p) \/ HandleUnknownPeer(p)
           \/ \E code : RejectPeer(p, code)
           \/ UNCHANGED <<down, leaveCode, members, worldVars>>
  <2>1. UNCHANGED down
    BY <1>4 DEF HandlePeerSessionReady, HandlePeerDisconnected, HandleUnknownPeer, RejectPeer
  <2> QED
    BY <1>3, <2>1
<1>5. CASE /\ p \in Members \ Joined
           /\ \E role \in Roles, player \in 0..LastEntity :
                 Grantable(p, role, player) /\ AnswerJoin(p, role, player)
  <2>1. PICK role \in Roles, player \in 0..LastEntity : AnswerJoin(p, role, player)
    BY <1>5
  <2>2. CASE q = p
    BY <1>1, <1>5, <2>1, <2>2, AnswerRole
  <2>3. CASE q # p
    <3>1. down'[q] = down[q]
      BY <2>1, <2>3 DEF AnswerJoin, JoinSucceeds, JoinFails, Typed
    <3> QED
      BY <1>3, <3>1
  <2> QED
    BY <2>2, <2>3
<1> QED
  BY <1>1, <1>4, <1>5 DEF HandleCases

\* A client that takes up an acceptance has no other one on its way.
LEMMA ReceiveRole ==
  ASSUME Typed, NEW p \in PeerIds, ClientReceive(p), NEW q \in PeerIds, RoleTracked(q)
  PROVE  RoleTracked(q)'
<1>1. /\ down \in [PeerIds -> Seq(Tidings)] /\ down[p] \in Seq(Tidings) /\ down[p] # << >>
      /\ Len(down[p]) \in Nat /\ Len(down[p]) >= 1
      /\ clientRole \in [PeerIds -> {"none", "asked", "accepted", "failed"}]
  BY DEF Typed, ClientReceive
<1>2. Persists(q) /\ (Joined' = Joined) /\ (Dismissed(q)' <=> Dismissed(q))
  BY DEF ClientReceive, Persists, Dismissed, Joined, Members
<1>3. CASE q # p
  <2>1. down'[q] = down[q] /\ clientRole'[q] = clientRole[q]
    BY <1>1, <1>3 DEF ClientReceive
  <2> QED
    BY <1>2, <2>1, RoleKept
<1>4. CASE q = p
  <2>1. /\ down'[q] = Tail(down[q]) /\ Len(down'[q]) = Len(down[q]) - 1
        /\ \A i \in 1..Len(down'[q]) : i + 1 \in 1..Len(down[q]) /\ down'[q][i] = down[q][i + 1]
    BY <1>1, <1>4 DEF ClientReceive
  <2>2. Accepting(q)' => Accepting(q)
    BY <2>1 DEF Accepting
  <2>3. \A i, j \in 1..Len(down'[q]) :
            down'[q][i] = "JoinAccepted" /\ down'[q][j] = "JoinAccepted" => i = j
    <3> SUFFICES ASSUME NEW i \in 1..Len(down'[q]), NEW j \in 1..Len(down'[q]),
                        down'[q][i] = "JoinAccepted", down'[q][j] = "JoinAccepted"
                 PROVE  i = j
      OBVIOUS
    <3>1. i + 1 = j + 1
      BY <2>1 DEF RoleTracked
    <3> QED
      BY <3>1
  <2>4. CASE Head(down[p]) = "JoinAccepted"
    <3>1. down[q][1] = "JoinAccepted" /\ 1 \in 1..Len(down[q]) /\ Accepting(q)
      BY <1>1, <1>4, <2>4 DEF Accepting
    <3>2. clientRole[q] # "accepted" /\ clientRole[q] # "failed"
      BY <3>1 DEF RoleTracked
    <3>3. clientRole'[q] = "accepted"
      BY <1>1, <1>4, <2>4, <3>2 DEF ClientReceive
    <3>4. ~Accepting(q)'
      <4> SUFFICES ASSUME NEW i \in 1..Len(down'[q]), down'[q][i] = "JoinAccepted" PROVE FALSE
        BY DEF Accepting
      <4>1. i + 1 = 1
        BY <2>1, <3>1 DEF RoleTracked
      <4> QED
        BY <4>1
    <3> QED
      BY <1>2, <2>3, <3>1, <3>3, <3>4 DEF RoleTracked
  <2>5. CASE Head(down[p]) # "JoinAccepted"
    <3>1. clientRole'[q] = clientRole[q]
      BY <2>5 DEF ClientReceive
    <3> QED
      BY <1>2, <2>2, <2>3, <3>1 DEF RoleTracked
  <2> QED
    BY <2>4, <2>5
<1> QED
  BY <1>3, <1>4

\* No step accepts the client of any peer twice.
LEMMA StepRole ==
  ASSUME Typed, Tracked, [Next]_vars, NEW q \in PeerIds, RoleTracked(q)
  PROVE  RoleTracked(q)'
<1>1. ASSUME UNCHANGED <<leaveCode, members, down, clientRole>>, phase[q] = "gone" => phase'[q] = "gone"
      PROVE  RoleTracked(q)'
  BY <1>1, RoleKept DEF Persists, Dismissed, Joined, Members
<1>2. ASSUME UNCHANGED <<phase, leaveCode, members, down, clientRole>> PROVE RoleTracked(q)'
  BY <1>1, <1>2
<1>3. ASSUME NEW p \in PeerIds, PollSession(p) PROVE RoleTracked(q)'
  <2>1. phase[q] = "gone" => phase'[q] = "gone"
    BY <1>3 DEF PollSession, Transport!PeerConnected, Transport!PeerSessionReady,
                Transport!PeerDisconnected, Typed
  <2> QED
    BY <1>1, <1>3, <2>1 DEF PollSession, clientVars
<1>4. ASSUME NEW p \in PeerIds, PollPacket(p) PROVE RoleTracked(q)'
  BY <1>2, <1>4 DEF PollPacket, clientVars
<1>5. ASSUME NEW p \in PeerIds, NEW role \in Roles, RequestJoin(p, role) PROVE RoleTracked(q)'
  <2>1. CASE q # p
    <3>1. clientRole'[q] = clientRole[q]
      BY <1>5, <2>1 DEF RequestJoin, Typed
    <3> QED
      BY <1>5, <3>1, RoleKept DEF RequestJoin, Persists, Dismissed, Joined, Members
  <2>2. CASE q = p
    <3>1. clientRole'[q] = "asked"
      BY <1>5, <2>2 DEF RequestJoin, Typed
    <3> QED
      BY <1>5, <3>1 DEF RequestJoin, RoleTracked, Accepting, Dismissed, Joined, Members
  <2> QED
    BY <2>1, <2>2
<1>6. ASSUME NEW p \in PeerIds, RequestPause(p) \/ \E message \in Messages : ForeignSend(p, message)
      PROVE  RoleTracked(q)'
  BY <1>2, <1>6 DEF RequestPause, ForeignSend, clientVars
<1>7. ASSUME NEW failed \in SUBSET Joined, NEW message \in {"paused", "running"}, NEW snapshot,
             Broadcast(message, failed, snapshot), UNCHANGED <<phase, clientRole>>
      PROVE  RoleTracked(q)'
  <2>1. Persists(q)
    BY <1>7, DismissPersists DEF Broadcast
  <2>2. down'[q] = down[q] \/ down'[q] = Append(down[q], message)
    BY <1>7 DEF Broadcast
  <2> QED
    BY <1>7, <2>1, <2>2, RoleKept
<1>8. ASSUME NEW failed \in SUBSET Joined, BroadcastPauseState(failed) PROVE RoleTracked(q)'
  <2>1. CASE Broadcast(Message(paused), failed, current)
    BY <1>7, <1>8, <2>1 DEF BroadcastPauseState, Message, clientVars
  <2> QED
    BY <1>2, <1>8, <2>1 DEF BroadcastPauseState, clientVars
<1>9. ASSUME NEW failed \in SUBSET Joined, RunTick(failed) PROVE RoleTracked(q)'
  <2>1. Persists(q)
    BY <1>9, DismissPersists DEF RunTick
  <2> QED
    BY <1>9, <2>1, RoleKept DEF RunTick, clientVars
<1>10. ASSUME NEW failed \in SUBSET Joined, EndFrame(failed) PROVE RoleTracked(q)'
  <2>1. CASE Broadcast(Message(~paused), failed, Extracted)
    BY <1>7, <1>10, <2>1 DEF EndFrame, Message, clientVars
  <2> QED
    BY <1>2, <1>10, <2>1 DEF EndFrame, clientVars
<1>11. CASE EndTicks \/ UNCHANGED vars
  BY <1>2, <1>11 DEF EndTicks, vars, transportVars, clientVars
<1> QED
  BY <1>3, <1>4, <1>5, <1>6, <1>8, <1>9, <1>10, <1>11, HandleRole, ReceiveRole DEF Next, Loop

-----------------------------------------------------------------------------
(* Every joined client was told the pause state. *)

\* Whoever is joined knows the pause state, or it will be broadcast before the ticks.
PauseTracked ==
    /\ stage # "handle" => ~pauseChanged
    /\ ~pauseChanged => \A p \in Joined : LastTold(p) = Message(paused)

\* What a client was last told after one message more.
LEMMA ToldLast ==
  ASSUME Typed, NEW p \in PeerIds, NEW message,
         down'[p] = Append(down[p], message) \/ \E first : down'[p] = down[p] \o <<first, message>>
  PROVE  LastTold(p)' = message
<1>1. down[p] \in Seq(Tidings) /\ Len(down[p]) \in Nat
  BY DEF Typed
<1>2. CASE down'[p] = Append(down[p], message)
  <2>1. Len(down'[p]) = Len(down[p]) + 1 /\ down'[p][Len(down[p]) + 1] = message
    BY <1>1, <1>2
  <2>2. down'[p] # << >>
    BY <1>1, <2>1
  <2> QED
    BY <2>1, <2>2 DEF LastTold, Last
<1>3. ASSUME NEW first, down'[p] = down[p] \o <<first, message>> PROVE LastTold(p)' = message
  <2>1. Len(down'[p]) = Len(down[p]) + 2 /\ down'[p][Len(down[p]) + 2] = message
    BY <1>1, <1>3
  <2>2. down'[p] # << >>
    BY <1>1, <2>1
  <2> QED
    BY <2>1, <2>2 DEF LastTold, Last
<1> QED
  BY <1>2, <1>3

\* A pause request changes what is to be told; a join is answered with it.
LEMMA HandlePause ==
  ASSUME Typed, PauseTracked, HandleEvent
  PROVE  PauseTracked'
<1>0. PICK event, p : event = Head(batch) /\ p = event.peer
  OBVIOUS
<1>1. p \in PeerIds /\ HandleCases(event, p) /\ stage' = "handle" /\ UNCHANGED clientPaused
  BY <1>0, HandleEventCases DEF clientVars
<1>2. down \in [PeerIds -> Seq(Tidings)] /\ members \in [Members -> MemberRecords] /\ Members \subseteq PeerIds
      /\ paused \in BOOLEAN /\ pauseChanged \in BOOLEAN
  BY DEF Typed
<1>3. ASSUME Joined' \subseteq Joined, UNCHANGED <<paused, pauseChanged>>,
             \A q \in Joined' : down'[q] = down[q]
      PROVE  PauseTracked'
  BY <1>1, <1>3 DEF PauseTracked, LastTold
<1>4. ASSUME NEW gone, members' = Restrict(members, Members \ gone)
      PROVE  Joined' = Joined \ gone
  BY <1>4 DEF Joined, Members, Restrict
<1>5. CASE HandlePeerSessionReady(p)
  <2>1. Joined' = Joined
    BY <1>5 DEF HandlePeerSessionReady, Joined, Members
  <2> QED
    BY <1>3, <1>5, <2>1 DEF HandlePeerSessionReady
<1>6. CASE HandlePeerDisconnected(p) \/ \E code : RejectPeer(p, code)
  <2>1. Joined' = Joined \ {p}
    BY <1>4, <1>6 DEF HandlePeerDisconnected, RejectPeer, ErasePeers
  <2> QED
    BY <1>3, <1>6, <2>1 DEF HandlePeerDisconnected, RejectPeer
<1>7. CASE HandleUnknownPeer(p)
  BY <1>3, <1>7 DEF HandleUnknownPeer, Joined, Members
<1>8. CASE /\ p \in Members \ Joined
           /\ \E role \in Roles, player \in 0..LastEntity :
                 Grantable(p, role, player) /\ AnswerJoin(p, role, player)
  <2>1. PICK role \in Roles, player \in 0..LastEntity : AnswerJoin(p, role, player)
    BY <1>8
  <2>2. UNCHANGED <<paused, pauseChanged>>
    BY <2>1 DEF AnswerJoin
  <2>3. CASE JoinSucceeds(p, role, player)
    <3>1. /\ Joined' \subseteq Joined \cup {p}
          /\ \A q \in PeerIds \ {p} : down'[q] = down[q]
          /\ down'[p] = down[p] \o <<"JoinAccepted", Message(paused)>>
      BY <1>1, <1>2, <2>3 DEF JoinSucceeds, Joined, Members
    <3>2. LastTold(p)' = Message(paused)
      <4>1. PICK message : message = Message(paused)
        OBVIOUS
      <4> QED
        BY <1>1, <3>1, <4>1, ToldLast
    <3>3. \A q \in Joined' \ {p} : LastTold(q)' = LastTold(q)
      BY <1>1, <1>2, <3>1 DEF LastTold, Joined
    <3> QED
      BY <1>1, <2>2, <3>1, <3>2, <3>3 DEF PauseTracked, Message
  <2>4. CASE JoinFails(p)
    <3>1. Joined' = Joined \ {p}
      BY <1>4, <2>4 DEF JoinFails
    <3>2. \A q \in PeerIds \ {p} : down'[q] = down[q]
      BY <1>2, <2>4 DEF JoinFails
    <3> QED
      BY <1>2, <1>3, <2>2, <3>1, <3>2 DEF Joined
  <2> QED
    BY <2>1, <2>3, <2>4 DEF AnswerJoin
<1>9. ASSUME NEW requested \in BOOLEAN, SetPaused(requested), UNCHANGED <<down, leaveCode, members, worldVars>>
      PROVE  PauseTracked'
  <2>1. /\ pauseChanged' = FALSE => pauseChanged = FALSE /\ paused' = paused
        /\ pauseChanged' \in BOOLEAN
    BY <1>2, <1>9, Zenon DEF SetPaused
  <2> QED
    BY <1>1, <1>2, <1>9, <2>1 DEF PauseTracked, LastTold, Joined, Members
<1> QED
  BY <1>1, <1>5, <1>6, <1>7, <1>8, <1>9 DEF HandleCases

\* Whoever is still joined after a broadcast was told its message.
LEMMA BroadcastTells ==
  ASSUME Typed, NEW message, NEW failed \in SUBSET Joined, NEW snapshot, Broadcast(message, failed, snapshot)
  PROVE  \A p \in Joined' : LastTold(p)' = message
<1>1. Joined' = Joined \ failed
  BY DEF Broadcast, ErasePeers, Joined, Members, Restrict
<1>2. ASSUME NEW p \in Joined' PROVE LastTold(p)' = message
  <2>1. p \in PeerIds /\ down'[p] = Append(down[p], message)
    BY <1>1, <1>2 DEF Broadcast, Joined, Typed
  <2> QED
    BY <2>1, ToldLast
<1> QED
  BY <1>2

\* A client that reads what it is sent still knows what it was last told.
LEMMA ReceivePause ==
  ASSUME Typed, PauseTracked, NEW p \in PeerIds, ClientReceive(p)
  PROVE  PauseTracked'
<1>1. /\ down \in [PeerIds -> Seq(Tidings)] /\ down[p] \in Seq(Tidings) /\ down[p] # << >>
      /\ Len(down[p]) \in Nat /\ Len(down[p]) >= 1
      /\ clientPaused \in [PeerIds -> {"unknown", "paused", "running"}]
  BY DEF Typed, ClientReceive
<1>2. Joined' = Joined /\ UNCHANGED <<stage, paused, pauseChanged>> /\ Joined \subseteq PeerIds
  BY DEF ClientReceive, Joined, Members, Typed
<1>3. ASSUME NEW q \in PeerIds \ {p} PROVE LastTold(q)' = LastTold(q)
  BY <1>1 DEF ClientReceive, LastTold
<1>4. ASSUME LastTold(p) \in {"paused", "running"} PROVE LastTold(p)' = LastTold(p)
  <2>1. LastTold(p) = down[p][Len(down[p])] /\ down'[p] = Tail(down[p])
    BY <1>1 DEF LastTold, Last, ClientReceive
  <2>2. CASE Len(down[p]) = 1
    <3>1. Head(down[p]) = LastTold(p) /\ down'[p] = << >>
      BY <1>1, <2>1, <2>2
    <3>2. clientPaused'[p] = LastTold(p)
      BY <1>1, <1>4, <3>1 DEF ClientReceive
    <3> QED
      BY <3>1, <3>2 DEF LastTold
  <2>3. CASE Len(down[p]) > 1
    <3>1. /\ Len(down'[p]) = Len(down[p]) - 1 /\ Len(down'[p]) \in Nat /\ Len(down'[p]) >= 1
          /\ down'[p][Len(down'[p])] = down[p][Len(down[p])]
      BY <1>1, <2>1, <2>3
    <3>2. down'[p] # << >>
      BY <3>1
    <3> QED
      BY <2>1, <3>1, <3>2 DEF LastTold, Last
  <2>4. Len(down[p]) = 1 \/ Len(down[p]) > 1
    <3>1. \A n \in Nat : n >= 1 => n = 1 \/ n > 1
      OBVIOUS
    <3> QED
      BY <1>1, <3>1, Zenon
  <2> QED
    BY <2>2, <2>3, <2>4
<1>5. Message(paused) \in {"paused", "running"}
  BY DEF Message
<1> QED
  BY <1>2, <1>3, <1>4, <1>5 DEF PauseTracked, Message

\* Whatever the step, who is joined knows the pause state or will be told before the ticks.
LEMMA StepPause ==
  ASSUME Typed, PauseTracked, [Next]_vars
  PROVE  PauseTracked'
<1>1. paused \in BOOLEAN /\ pauseChanged \in BOOLEAN
  BY DEF Typed
<1>2. ASSUME UNCHANGED <<down, members, paused, pauseChanged, clientPaused>>, stage' = stage \/ (stage' # "handle" /\ stage # "handle")
      PROVE  PauseTracked'
  BY <1>2 DEF PauseTracked, LastTold, Message, Joined, Members
<1>3. ASSUME NEW p \in PeerIds,
             \/ PollSession(p) \/ PollPacket(p)
             \/ \E role \in Roles : RequestJoin(p, role)
             \/ RequestPause(p)
             \/ \E message \in Messages : ForeignSend(p, message)
      PROVE  PauseTracked'
  <2>1. UNCHANGED <<down, members, paused, pauseChanged, clientPaused, stage>>
    BY <1>3 DEF PollSession, PollPacket, RequestJoin, RequestPause, ForeignSend, clientVars
  <2> QED
    BY <1>2, <2>1
<1>4. ASSUME NEW failed \in SUBSET Joined, BroadcastPauseState(failed) PROVE PauseTracked'
  <2>1. stage' = "ticks" /\ pauseChanged' = FALSE /\ paused' = paused /\ clientPaused' = clientPaused
    BY <1>4 DEF BroadcastPauseState, clientVars
  <2>2. CASE Broadcast(Message(paused), failed, current)
    BY <2>1, <2>2, BroadcastTells DEF PauseTracked, Message
  <2>3. CASE ~pauseChanged /\ UNCHANGED <<down, leaveCode, members, players, current>>
    BY <2>1, <2>3 DEF PauseTracked, Message, LastTold, Joined, Members
  <2> QED
    BY <1>4, <2>2, <2>3 DEF BroadcastPauseState
<1>5. ASSUME NEW failed \in SUBSET Joined, RunTick(failed) PROVE PauseTracked'
  <2>1. Joined' \subseteq Joined
    BY <1>5 DEF RunTick, ErasePeers, Joined, Members, Restrict
  <2> QED
    BY <1>5, <2>1 DEF RunTick, PauseTracked, LastTold, Message, clientVars
<1>6. ASSUME NEW failed \in SUBSET Joined, EndFrame(failed) PROVE PauseTracked'
  <2>1. stage = "view" /\ stage' = "poll" /\ pauseChanged' = pauseChanged /\ clientPaused' = clientPaused
    BY <1>6 DEF EndFrame, clientVars
  <2>2. CASE paused' = ~paused /\ Broadcast(Message(~paused), failed, Extracted)
    BY <2>1, <2>2, BroadcastTells DEF PauseTracked, Message
  <2>3. CASE UNCHANGED <<leaveCode, down, members, paused, players>>
    BY <1>2, <2>1, <2>3
  <2> QED
    BY <1>6, <2>2, <2>3 DEF EndFrame
<1>7. CASE EndTicks \/ UNCHANGED vars
  <2>1. /\ UNCHANGED <<down, members, paused, pauseChanged, clientPaused>>
        /\ stage' = stage \/ (stage' # "handle" /\ stage # "handle")
    BY <1>7 DEF EndTicks, vars, transportVars, clientVars
  <2> QED
    BY <1>2, <2>1
<1> QED
  BY <1>3, <1>4, <1>5, <1>6, <1>7, HandlePause, ReceivePause DEF Next, Loop

-----------------------------------------------------------------------------
(* The theorems. *)

\* Everything above, which each step keeps.
MembershipInv ==
    Typed /\ MembersBounded /\ Tracked /\ PauseTracked /\ \A p \in PeerIds : RoleTracked(p)

\* The invariant holds initially, before any peer connects.
LEMMA InitMembership == Init => MembershipInv
<1> SUFFICES ASSUME Init PROVE MembershipInv
  OBVIOUS
<1>1. Members = {} /\ Joined = {} /\ batch = << >> /\ Len(batch) = 0
  BY DEF Init, Members, Joined
<1>2. MembersBounded
  BY <1>1, FS_EmptySet, MembershipAssumption DEF MembersBounded
<1>3. Tracked
  <2>1. BatchOrdered /\ \A kind, p : ~Pending(kind, p)
    BY <1>1 DEF BatchOrdered, Pending
  <2> QED
    BY <1>1, <2>1 DEF Tracked, PeerTracked, Init, Transport!SessionInit
<1>4. PauseTracked
  BY <1>1 DEF PauseTracked, Init
<1>5. \A p \in PeerIds : RoleTracked(p)
  BY DEF RoleTracked, Accepting, Init
<1> QED
  BY <1>2, <1>3, <1>4, <1>5, InitTyped DEF MembershipInv

\* The inductive invariant: the members, what the batch will tell of their peers, what each
\* client was told and its role agree.
THEOREM MembershipHolds == Spec => []MembershipInv
<1>1. MembershipInv /\ [Next]_vars => MembershipInv'
  <2> SUFFICES ASSUME MembershipInv, [Next]_vars PROVE MembershipInv'
    OBVIOUS
  <2>1. Typed' /\ MembersBounded'
    BY StepTyped, StepWorldCases, StepBounded DEF MembershipInv
  <2> QED
    BY <2>1, StepTracked, StepPause, StepRole DEF MembershipInv
<1> QED
  BY <1>1, InitMembership, PTL DEF Spec

\* Members are the ready peers nobody sent away, at most max_clients, and none is accepted
\* twice (handle_peer_session_ready, handle_control, reject_peer).
THEOREM MembersAreKept == Spec => []MembersKept
<1>1. MembershipInv => MembersKept
  <2> SUFFICES ASSUME MembershipInv PROVE MembersKept
    OBVIOUS
  <2>1. Typed /\ MembersBounded /\ Tracked /\ \A p \in PeerIds : RoleTracked(p)
    BY DEF MembershipInv
  <2>2. TypeOK
    BY <2>1 DEF TypeOK, Typed, MembersBounded, MemberRecords, LeaveCodes, CurrentStates
  <2>3. MembersAreReadyPeers
    <3> SUFFICES ASSUME batch = << >> PROVE Members = {p \in PeerIds : CanSend(p)}
      BY DEF MembersAreReadyPeers
    <3>1. \A kind, p : ~Pending(kind, p)
      BY DEF Pending
    <3>2. \A p \in PeerIds : p \in Members <=> CanSend(p)
      BY <2>1, <3>1 DEF Tracked, PeerTracked, CanSend, Typed, Transport!Phases
    <3> QED
      BY <2>1, <3>2 DEF Typed
  <2>4. AcceptedOnce
    BY <2>1 DEF AcceptedOnce, RoleTracked
  <2> QED
    BY <2>2, <2>3, <2>4 DEF MembersKept
<1> QED
  BY <1>1, MembershipHolds, PTL

\* Between two polls every joined client was last told the server's pause state
\* (broadcast_pause_state, handle_join_request, the viewer's toggle).
THEOREM PauseAgreed == Spec => []PauseAgreement
<1>1. MembershipInv => PauseAgreement
  BY DEF MembershipInv, PauseTracked, PauseAgreement
<1> QED
  BY <1>1, MembershipHolds, PTL
=============================================================================
