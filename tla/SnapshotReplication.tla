-------------------------- MODULE SnapshotReplication --------------------------
(***************************************************************************)
(* Replication of the world to one joined peer: the server's per-tick      *)
(* emission, the snapshot lane (lossy and ordered, or reliable and         *)
(* ordered), the client that decodes, reconstructs, applies and            *)
(* acknowledges, and the reliable input lane that carries acknowledgements *)
(* and recovery requests back.                                             *)
(*                                                                         *)
(* The server keeps one such state per peer and never lets one peer's      *)
(* state influence another's, so one peer is enough here.                  *)
(***************************************************************************)
EXTENDS SnapshotEncode

CONSTANTS Reliable,                \* snapshot delivery: ReliableSequenced or UnreliableSequenced
          FullReplaceThreshold,    \* full_replace_after_unacknowledged_updates
          RetainedSnapshotLimit,   \* the client's retained_snapshot_limit
          SourceSnapshots,         \* the populations the world and the AOI can present
          MaxSequence,             \* model bound on the number of emissions
          MaxNow                   \* model bound on the clock

ASSUME ReplicationAssumption ==
    /\ Reliable \in BOOLEAN
    /\ FullReplaceThreshold \in Nat \ {0}
    /\ FullReplaceThreshold < MaximumRetainedResults
    /\ RetainedSnapshotLimit \in Nat \ {0}
    /\ SourceSnapshots \subseteq Snapshots
    /\ MaxSequence \in Nat
    /\ MaxNow \in Nat

VARIABLES
    now,                        \* steady clock
    session,                    \* "joined", "dropped" by the server, or at the client "closed"
                                \* by a refused send or "failed" on an update
    delivery,                   \* PeerRuntimeState::snapshot_delivery
    pipeline,                   \* PeerRuntimeState::pipeline_state
    snapshot_lane,              \* complete snapshot groups in flight to the client
    input_lane,                 \* acknowledgements and recovery requests in flight to the server
    latest_applied_sequence,    \* the client's newest applied sequence
    snapshot_history,           \* the client's retained reconstructions
    client_world,               \* what the client's Flecs world holds
    requested_missing_baseline, \* ClientRecoveryRequestState (0: none requested)
    emitted,                    \* history: every committed emission, by sequence
    applied                     \* history: sequences the client applied

clientVars == <<latest_applied_sequence, snapshot_history, client_world,
                requested_missing_baseline, applied>>
serverVars == <<delivery, pipeline, emitted>>
vars == <<now, session, serverVars, snapshot_lane, input_lane, clientVars>>

Messages == [sequence : Nat, baseline_sequence : Nat, update : Updates]

InputMessages ==
    [type : {"SnapshotAck"}, sequence : Nat]
      \cup [type : {"SnapshotRecoveryRequest"}, rejected : Nat, missing : Nat]

Retained == [sequence : Nat, snapshot : Snapshots, capacity_bytes : Nat]

\* What the history keeps of an emission: the result it leads to, the kind, the
\* baseline and the records it carried.
Emissions == [snapshot : Snapshots, kind : Kinds, baseline_sequence : Nat,
              sent : SUBSET Entities]

Init ==
    /\ now = 0
    /\ session = "joined"
    /\ delivery = InitialDelivery
    /\ pipeline = InitialPipeline
    /\ snapshot_lane = << >>
    /\ input_lane = << >>
    /\ latest_applied_sequence = 0
    /\ snapshot_history = << >>
    /\ client_world = EmptySnapshot
    /\ requested_missing_baseline = 0
    /\ emitted = << >>
    /\ applied = {}

-----------------------------------------------------------------------------
(* The server: replicate_peer. *)

Stalled(d) == AckProgressStalled(d, FullReplaceThreshold)

\* The two reasons to recover that a tick looks at first.
RecoveryChecked(d) ==
    CASE ~d.recovery_active /\ ~HasResult(d.acknowledged) ->
             EnterSnapshotRecovery(d, "NoAcknowledgedBaseline")
      [] ~d.recovery_active /\ HasResult(d.acknowledged) /\ Stalled(d) ->
             EnterSnapshotRecovery(d, "AckStalled")
      [] OTHER -> d

\* Faulty variant: reliable delivery builds on the acknowledged result as well.
AcknowledgedReplica(d) == d.acknowledged

\* The replica a level-of-detail or replica-incremental Patch builds on: with
\* reliable delivery the newest submitted result, otherwise the acknowledged one.
LatestReplica(d) ==
    IF Reliable /\ d.submitted # << >> THEN Last(d.submitted) ELSE d.acknowledged

\* A partial technique that has sent its first FullReplace and is not recovering.
PatchesReplica(p, d) ==
    /\ ~d.recovery_active
    /\ \/ LevelOfDetail /\ p.level_of_detail_seeded
       \/ ReplicaIncremental /\ p.incremental_seeded

\* The delivery state a tick encodes from.
PreparedDelivery ==
    LET d == RecoveryChecked(ExpireRetainedSnapshots(delivery, now))
    IN  IF PatchesReplica(pipeline, d) /\ ~HasResult(LatestReplica(d))
        THEN EnterSnapshotRecovery(d, "MissingRetainedResult")
        ELSE d

DeltaBaseline(d) ==
    CASE d.recovery_active -> NoResult
      [] ~d.recovery_active /\ LevelOfDetail -> LatestReplica(d)
      [] ~d.recovery_active /\ ~LevelOfDetail /\ Delta -> d.acknowledged
      [] OTHER -> NoResult

\* Faulty variant: recovery upserts are also passed with a forced FullReplace.
InputDuringRecovery(d, source) ==
    [snapshot            |-> source,
     baseline            |-> DeltaBaseline(d),
     replica             |-> NoResult,
     recovery_upsert_ids |-> DOMAIN d.recovery_upserts,
     force_full_replace  |-> d.recovery_active]

EncodeInput(d, source) ==
    [snapshot            |-> source,
     baseline            |-> DeltaBaseline(d),
     replica             |-> IF ReplicaIncremental /\ PatchesReplica(pipeline, d)
                             THEN LatestReplica(d) ELSE NoResult,
     recovery_upsert_ids |-> IF PartialSelection /\ ~Reliable /\ ~d.recovery_active
                             THEN DOMAIN d.recovery_upserts ELSE {},
     force_full_replace  |-> d.recovery_active]

\* A lossy partial Patch, whose upserts must be remembered until acknowledged.
TracksUpserts(encoded) ==
    ~Reliable /\ PartialSelection /\ encoded.update.kind = "Patch"

\* The bound on queued recovery upserts would be exceeded.
RecoveryOverflow(d, encoded) ==
    /\ TracksUpserts(encoded)
    /\ Population(d.recovery_upserts) + Population(encoded.update.upserts)
         > MaximumRecoveryUpserts

SubmittedResult(encoded) ==
    [sequence       |-> encoded.sequence,
     snapshot       |-> encoded.resulting_snapshot,
     kind           |-> encoded.update.kind,
     submitted_at   |-> now,
     capacity_bytes |-> encoded.capacity_bytes]

\* The delivery state after every packet of the group was accepted by the transport.
CommittedDelivery(d, encoded, plan) ==
    LET merged == IF TracksUpserts(encoded) THEN MergeRecoveryUpserts(d, encoded.update) ELSE d
        committed == CommitSubmittedSnapshot(merged, SubmittedResult(encoded), plan)
    IN  IF ~committed.recovery_active /\ Stalled(committed)
        THEN EnterSnapshotRecovery(committed, "AckStalled")
        ELSE committed

Emission(encoded) ==
    [snapshot |-> encoded.resulting_snapshot, kind |-> encoded.update.kind,
     baseline_sequence |-> encoded.baseline_sequence,
     sent |-> DOMAIN encoded.update.upserts]

\* The group is encoded, retained and handed to the transport.
CommitEmission(d, encoded) ==
    LET plan == PlanSnapshotRetention(d, encoded.capacity_bytes)
    IN  /\ plan.valid /\ ~RecoveryOverflow(d, encoded)
        /\ delivery' = CommittedDelivery(d, encoded, plan)
        /\ snapshot_lane' = Append(snapshot_lane,
                                   [sequence          |-> encoded.sequence,
                                    baseline_sequence |-> encoded.baseline_sequence,
                                    update            |-> encoded.update])
        /\ emitted' = Append(emitted, Emission(encoded))
        /\ UNCHANGED session

\* There is no room to retain the result: nothing is sent, the baseline goes.
AbandonEmission(d, encoded) ==
    /\ \/ ~PlanSnapshotRetention(d, encoded.capacity_bytes).valid
       \/ RecoveryOverflow(d, encoded)
    /\ encoded.capacity_bytes <= MaximumRetainedCapacity
    /\ delivery' = DiscardAcknowledgedReplica(d, "RetentionPressure")
    /\ UNCHANGED <<pipeline, snapshot_lane, emitted, session>>

\* The result alone exceeds the capacity: the server drops the peer.
DropOversized(d, encoded) ==
    /\ encoded.capacity_bytes > MaximumRetainedCapacity
    /\ delivery' = d
    /\ session' = "dropped"
    /\ UNCHANGED <<pipeline, snapshot_lane, emitted>>

\* The transport refuses a packet of the group: the server drops the peer, and
\* the packets already accepted never complete a group at the client.
DropOnSendFailure(d, encoded) ==
    LET plan == PlanSnapshotRetention(d, encoded.capacity_bytes)
    IN  /\ plan.valid /\ ~RecoveryOverflow(d, encoded)
        /\ delivery' = d
        /\ session' = "dropped"
        /\ UNCHANGED <<pipeline, snapshot_lane, emitted>>

\* One cadence tick for the peer, with the population source and, under level of
\* detail, the records due.
ReplicatePeer(source, due) ==
    LET d       == PreparedDelivery
        input   == EncodeInput(d, source)
        encoded == Encoded(pipeline, input, due)
    IN  /\ session = "joined"
        /\ pipeline.next_sequence <= MaxSequence
        /\ ~EncodeRejects(pipeline, input)
        /\ \/ CommitEmission(d, encoded)
              /\ pipeline' = AdvancedPipeline(pipeline, input)
           \/ AbandonEmission(d, encoded)
           \/ DropOversized(d, encoded)
           \/ DropOnSendFailure(d, encoded)
        /\ UNCHANGED <<now, input_lane, clientVars>>

-----------------------------------------------------------------------------
(* The server: the input lane (poll_transport). *)

\* valid_ack and apply_ack
AcceptedAck(d, m) ==
    IF m.sequence # 0 /\ m.sequence <= d.latest_submitted_sequence
    THEN PromoteSnapshotAck(d, m.sequence) ELSE d

AcceptedRecoveryRequest(d, m) ==
    IF ValidRecoveryRequest(d, m.rejected, m.missing)
    THEN EnterSnapshotRecovery(d, "ClientRequest") ELSE d

ServerReceiveAck ==
    /\ session = "joined" /\ input_lane # << >>
    /\ Head(input_lane).type = "SnapshotAck"
    /\ delivery' = AcceptedAck(delivery, Head(input_lane))
    /\ input_lane' = Tail(input_lane)
    /\ UNCHANGED <<now, session, pipeline, emitted, snapshot_lane, clientVars>>

ServerReceiveRecoveryRequest ==
    /\ session = "joined" /\ input_lane # << >>
    /\ Head(input_lane).type = "SnapshotRecoveryRequest"
    /\ delivery' = AcceptedRecoveryRequest(delivery, Head(input_lane))
    /\ input_lane' = Tail(input_lane)
    /\ UNCHANGED <<now, session, pipeline, emitted, snapshot_lane, clientVars>>

-----------------------------------------------------------------------------
(* The client: apply_packet. *)

RetainedSequences == {snapshot_history[i].sequence : i \in DOMAIN snapshot_history}

\* Faulty variant: a Patch is taken to be relative to the newest reconstruction.
NewestRetained(sequence) == Last(snapshot_history).snapshot

\* find_retained_snapshot
RetainedSnapshot(sequence) ==
    snapshot_history[CHOOSE i \in DOMAIN snapshot_history :
                        snapshot_history[i].sequence = sequence].snapshot

\* The snapshot an update is relative to; a FullReplace has none.
ClientBaseline(m) ==
    IF m.baseline_sequence = 0 THEN EmptySnapshot ELSE RetainedSnapshot(m.baseline_sequence)

MissingBaseline(m) ==
    m.baseline_sequence # 0 /\ m.baseline_sequence \notin RetainedSequences

\* inspect_encoded_update_header: the errors that end the session.
MalformedHeader(m) ==
    IF m.update.kind = "FullReplace" THEN m.baseline_sequence # 0
    ELSE m.baseline_sequence = 0 \/ m.baseline_sequence >= m.sequence

OversizedReconstruction(m) ==
    ReconstructionCapacity(ClientBaseline(m), m.update) > MaximumRetainedCapacity

\* retain_snapshot evicts from the front for the count and the capacity.
RetainSnapshot(history, entry) ==
    LET fits(n) == /\ Len(history) - n < RetainedSnapshotLimit
                   /\ CapacityOf(WithoutFirst(history, n)) + entry.capacity_bytes
                        <= MaximumRetainedCapacity
        stops == {n \in 0..Len(history) : n = Len(history) \/ fits(n)}
    IN  Append(WithoutFirst(history, Min(stops)), entry)

\* Faulty variant: every update is applied as it came.
AppliedAsReceived(m, reconstructed) == m.update

\* What is applied to the world: a Patch whose baseline is not the newest
\* reconstruction is replaced by the complete reconstruction.
UpdateToApply(m, reconstructed) ==
    LET baseline_is_current == /\ snapshot_history # << >>
                               /\ Last(snapshot_history).sequence = m.baseline_sequence
    IN  IF m.update.kind = "Patch" /\ ~baseline_is_current
        THEN FullReplaceOf(reconstructed) ELSE m.update

\* The client's reliable input lane; a send the transport refuses ends its run.
SendToServer(message) ==
    \/ input_lane' = Append(input_lane, message) /\ UNCHANGED session
    \/ session' = "closed" /\ UNCHANGED input_lane

ApplyUpdate(m) ==
    LET reconstructed == Reconstruct(ClientBaseline(m), m.update)
    IN  /\ client_world' = AppliedToWorld(client_world, UpdateToApply(m, reconstructed))
        /\ latest_applied_sequence' = m.sequence
        /\ snapshot_history' =
               RetainSnapshot(snapshot_history,
                   [sequence |-> m.sequence, snapshot |-> reconstructed,
                    capacity_bytes |-> ReconstructionCapacity(ClientBaseline(m), m.update)])
        /\ requested_missing_baseline' = 0
        /\ applied' = applied \cup {m.sequence}
        /\ SendToServer([type |-> "SnapshotAck", sequence |-> m.sequence])

\* The Patch is dropped; the missing baseline is requested once.
RejectPatch(m) ==
    /\ IF requested_missing_baseline = m.baseline_sequence
       THEN UNCHANGED <<session, input_lane, requested_missing_baseline>>
       ELSE /\ SendToServer([type     |-> "SnapshotRecoveryRequest",
                             rejected |-> m.sequence,
                             missing  |-> m.baseline_sequence])
            /\ requested_missing_baseline' =
                   IF session' = "closed" THEN requested_missing_baseline
                                          ELSE m.baseline_sequence
    /\ UNCHANGED <<latest_applied_sequence, snapshot_history, client_world, applied>>

\* An update the client cannot accept ends its run.
FailClient ==
    /\ session' = "failed"
    /\ UNCHANGED <<input_lane, clientVars>>

ClientReceiveSnapshot ==
    /\ session \in {"joined", "dropped"} /\ snapshot_lane # << >>
    /\ snapshot_lane' = Tail(snapshot_lane)
    /\ LET m == Head(snapshot_lane)
       IN  IF m.sequence <= latest_applied_sequence
           THEN UNCHANGED <<session, input_lane, clientVars>>
           ELSE IF MalformedHeader(m) THEN FailClient
           ELSE IF MissingBaseline(m) THEN RejectPatch(m)
           ELSE IF OversizedReconstruction(m) THEN FailClient
           ELSE ApplyUpdate(m)
    /\ UNCHANGED <<now, serverVars>>

-----------------------------------------------------------------------------
(* The environment. *)

\* Without reliable delivery the oldest group in flight may be lost, or miss a packet.
LoseSnapshot ==
    /\ ~Reliable
    /\ snapshot_lane # << >>
    /\ snapshot_lane' = Tail(snapshot_lane)
    /\ UNCHANGED <<now, session, serverVars, input_lane, clientVars>>

\* The server's disconnect reaches the client: what was still in flight is gone.
CloseConnection ==
    /\ session = "dropped"
    /\ snapshot_lane # << >>
    /\ snapshot_lane' = << >>
    /\ UNCHANGED <<now, session, serverVars, input_lane, clientVars>>

Wait ==
    /\ now < MaxNow
    /\ now' = now + 1
    /\ UNCHANGED <<session, serverVars, snapshot_lane, input_lane, clientVars>>

Next ==
    \/ \E source \in SourceSnapshots :
          \E due \in IF LevelOfDetail THEN SUBSET DOMAIN source ELSE {{}} :
             ReplicatePeer(source, due)
    \/ ServerReceiveAck
    \/ ServerReceiveRecoveryRequest
    \/ ClientReceiveSnapshot
    \/ LoseSnapshot
    \/ CloseConnection
    \/ Wait

Spec == Init /\ [][Next]_vars
-----------------------------------------------------------------------------
(* Properties. *)

\* Every variable keeps its type.
TypeOK ==
    /\ now \in Nat
    /\ session \in {"joined", "dropped", "closed", "failed"}
    /\ delivery \in DeliveryStates
    /\ pipeline \in PipelineStates
    /\ snapshot_lane \in Seq(Messages)
    /\ input_lane \in Seq(InputMessages)
    /\ latest_applied_sequence \in Nat
    /\ snapshot_history \in Seq(Retained)
    /\ client_world \in Snapshots
    /\ requested_missing_baseline \in Nat
    /\ emitted \in Seq(Emissions)
    /\ applied \in SUBSET Nat

\* The evidence both processes write names each sequence by a fingerprint of
\* its canonical snapshot: whatever the client reconstructs for a sequence is
\* exactly the result the server committed for it.
ReplicaAgreement ==
    \A i \in DOMAIN snapshot_history :
        LET h == snapshot_history[i]
        IN  /\ h.sequence \in DOMAIN emitted
            /\ h.snapshot = emitted[h.sequence].snapshot

\* The client's Flecs world, changed record by record, always holds the newest
\* reconstruction and so the result the server committed for it, also after a
\* Patch over an older baseline.
WorldMatchesEmission ==
    latest_applied_sequence # 0 =>
        /\ latest_applied_sequence \in DOMAIN emitted
        /\ client_world = emitted[latest_applied_sequence].snapshot

\* The acknowledged replica is proven: the client did apply it, and the server
\* still holds the very result it committed under that sequence.
AcknowledgedIsProven ==
    HasResult(delivery.acknowledged) =>
        /\ delivery.acknowledged.sequence \in applied
        /\ delivery.acknowledged.snapshot
             = emitted[delivery.acknowledged.sequence].snapshot

\* retained_capacity_bytes is kept by additions and subtractions on five paths;
\* it always equals what is retained and never exceeds the budget.
RetentionAccounted ==
    /\ delivery.retained_capacity_bytes
         = CapacityOf(delivery.submitted) + delivery.acknowledged.capacity_bytes
    /\ delivery.retained_capacity_bytes <= MaximumRetainedCapacity
    /\ Len(delivery.submitted) <= MaximumRetainedResults

\* The next tick never calls the encoder with a combination it throws on,
\* whatever acknowledgements, requests and expiries came before.
NextEncodeAccepted ==
    session = "joined" =>
        \A source \in SourceSnapshots :
            ~EncodeRejects(pipeline, EncodeInput(PreparedDelivery, source))

\* No sequence of legal deliveries makes the client give up its session.
ClientNeverFails == session # "failed"

\* A Patch never builds on a result older than the retention age: the tick
\* expires before it chooses the baseline.
PatchBaselineFresh ==
    [][\A i \in DOMAIN emitted' \ DOMAIN emitted :
          emitted'[i].kind = "Patch" =>
             \E r \in {delivery.acknowledged} \cup ToSet(delivery.submitted) :
                /\ r.sequence = emitted'[i].baseline_sequence
                /\ ~Expired(r, now)]_vars

\* Leaving recovery means the client holds a complete replacement: outside
\* recovery there is an acknowledged baseline, unless it aged out and the next
\* tick recovers.  And a FullReplace is what ends recovery.
RecoveryEndsWithProvenFullReplace ==
    [][delivery.recovery_active /\ ~delivery'.recovery_active =>
          /\ delivery'.acknowledged.sequence \in applied
          /\ delivery'.acknowledged.kind = "FullReplace"]_vars

\* Acknowledgements and recovery requests share one ordered lane, and a client only
\* evicts a baseline for results it acknowledged: when a request for a missing
\* baseline is about to be read, the acknowledgements before it have already made
\* the server recover or move past that baseline, whatever was evicted meanwhile.
RequestComesLate ==
    session = "joined" /\ input_lane # << >> =>
        LET m == Head(input_lane)
        IN  m.type = "SnapshotRecoveryRequest" =>
               delivery.recovery_active \/ delivery.latest_acknowledged_sequence > m.missing

\* A lossy partial Patch is the only update that carries its records, and the
\* round-robin scan counts them as served.  Every record sent in a Patch newer
\* than the acknowledged result is as the acknowledged result has it, or queued
\* to be sent again, or back in a state that a result older than the
\* acknowledged one had (the reconciliation at an earlier acknowledgement then
\* took it for delivered).
PatchUpsertsTracked ==
    LET d == delivery
        newest == Last(d.submitted).snapshot
        seenBefore(e) == \E k \in 1..(d.acknowledged.sequence - 1) :
                            /\ e \in DOMAIN emitted[k].snapshot
                            /\ emitted[k].snapshot[e] = newest[e]
    IN  /\ ~Reliable /\ PartialSelection
        /\ HasResult(d.acknowledged) /\ d.submitted # << >>
        /\ ~d.recovery_active
        => \A i \in (d.acknowledged.sequence + 1)..Len(emitted) :
              emitted[i].kind = "Patch" =>
                 \A e \in emitted[i].sent \cap ChangedIds(newest, d.acknowledged.snapshot) :
                    e \in DOMAIN d.recovery_upserts \/ seenBefore(e)

\* With reliable ordered delivery the partial techniques chain every Patch on
\* the result before it, so the client never lacks a baseline, however late its
\* acknowledgements are.
ReliableChainUnbroken ==
    Reliable /\ (LevelOfDetail \/ ReplicaIncremental) => requested_missing_baseline = 0

\* "Applications use the latest submitted replica for reliable ordered delivery"
\* (src/pipeline/README.md:49): every Patch of a reliable session is relative to
\* the update before it.
ReliablePatchFollowsSubmitted ==
    Reliable => \A i \in DOMAIN emitted :
                   emitted[i].kind = "Patch" => emitted[i].baseline_sequence = i - 1

\* What replication promises whatever the technique: ReplicaStream.
Stream == INSTANCE ReplicaStream
    WITH Views     <- Snapshots,
         EmptyView <- EmptySnapshot,
         published <- [i \in DOMAIN emitted |-> emitted[i].snapshot],
         position  <- latest_applied_sequence,
         view      <- client_world,
         held      <- applied,
         confirmed <- delivery.latest_acknowledged_sequence

StreamSpec == Stream!Spec
=============================================================================
