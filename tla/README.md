# Verification of SimNetLab

SimNetLab is a laboratory for snapshot replication: an authoritative boid
simulation whose world is sent to every client by configurable techniques
(whole-population `FullReplace`, `Delta` against an acknowledged baseline,
round-robin `Incremental` scheduling, distance-band level of detail, an area of
interest) over a lossy or a reliable transport lane. This directory holds TLA+
modules that model the program, TLC configurations that check small instances,
and TLAPS proofs for every value of the constants. `PROJECT.json` maps every
definition to the lines it translates; "paths" below are relative to the
repository.

## Inventory

| Component | Code | State it keeps | Operations | Module |
|---|---|---|---|---|
| Snapshot values | `src/src/snapshot` | none (values) | reconstruct, apply | `Snapshots` |
| Delivery state | `src/app/common/app_snapshot_delivery.cppm` | submitted results, acknowledged result, capacity account, recovery flag, recovery upserts, stall counter | commit, plan retention, promote, expire, discard, enter recovery, validate request | `SnapshotDelivery` |
| Pipeline encoder | `src/src/pipeline` | `ClientReplicationState`: next sequence, round-robin cursor, seeded flags | encode | `SnapshotEncode` |
| Level-of-detail schedule | `src/src/pipeline/private/pipeline_lod.cppm` | member, band, due tick and pending flag of each record; cursor | reconcile, select, service, commit | `LevelOfDetailSchedule` |
| Server replication | `src/app/server/server_replication.cppm` | `PeerRuntimeState` per peer | `replicate_peer`, `apply_ack`, membership, input | `SnapshotReplication` (one peer), `ServerMembership`, `InputDelivery` |
| Client replication | `src/app/client/client_replication.cppm` | newest sequence, retained reconstructions, requested baseline, reassembly | `apply_packet`, `receive_snapshot`, `expire` | `SnapshotReplication`, `Reassembly`, `CompressionPath` |
| Client world | `src/src/game_client` | Flecs entities | apply a patch | `AppliedToWorld` in `SnapshotReplication` |
| Packetization | `src/src/packetization` | incomplete groups, newest committed group | split, accept, expire, commit, clear | `Reassembly` |
| Compression | `src/src/compression` | none | compress, decompress, bounds | `CompressionPath` |
| Transport | `src/src/transport` | ENet host, peer slots, session handshake per peer, pending events | connect, poll, send, disconnect, reject, time out | `TransportSession`, abstract: `SessionEvents` |
| Server runtime | `src/app/server/server_runtime.cpp` | peers, roles, pause, clock, cached snapshot and grid, presentation, stop request | poll, frame, tick, view, limits | `ServerClock`, `ServerMembership` |
| Client runtime | `src/app/client/client_runtime.cpp` | join state, pause, presentation, stop request | run loop | `ClientLoop` |
| Player and observer input | `src/app/client/app_player_input.cppm`, both runtimes | input sequence, last sent and accepted input, send times | send, accept, limit the rate | `InputDelivery` |
| Frame plan and limits | `src/src/runtime`, `src/src/core` | accumulator, statistics | plan a frame, reach a limit | `ServerClock` |
| Simulation | `src/src/game_server` | Flecs world, entity index, flock capture, proposals | tick, spawn, delete, extract, inspect | `FlockTick`, abstract: `FlockStep`; `AuthoritativeIndex` |
| Spatial grid | `src/src/spatial` | cell ranges, entries | build (three strategies), query | `SpatialGrid`, `FlockNeighbors` |
| Evidence | `src/src/telemetry`, `src/app/server/app_evidence.cpp` | record buffer, stream, counters | submit, drain, close | `EvidenceCsv` |
| Configuration, synthetic workloads, shared components, rendering | `src/src/config`, `src/src/synthetic`, `src/src/game_shared`, `src/src/render` | – | load, generate, declare, draw | none |

### How the parts interact

A client connects, the transports shake hands (`TransportSession`), and what each side's
application is told about a peer follows `SessionEvents`. The server's run loop handles those
events: a join request makes a member, with a player entity when it asks for one
(`ServerMembership`, `AuthoritativeIndex`). Between polls it plans a frame and runs its ticks
(`ServerClock`); each tick moves players and boids (`FlockTick`), which find their neighbours in
a spatial grid (`FlockNeighbors`).

Once per cadence tick the server takes the area of interest of a peer, expires old
results, decides whether it must recover, picks the baseline from the delivery
state, encodes, plans retention, compresses, splits into chunks and hands every
chunk to the transport; only when all were accepted are the pipeline state and
the delivery state replaced (`replicate_peer`). The client reassembles chunks,
checks the header, looks up the baseline in its retained reconstructions,
reconstructs, applies to its Flecs world, retains and acknowledges
(`apply_packet`). Acknowledgements and recovery requests travel on one reliable
ordered lane. `poll_transport` gives them to the delivery state. The server keeps one
`PeerRuntimeState` per peer and shares none of it between peers, so one peer is
modelled. The client's input goes the other way on a lane of its own (`InputDelivery`).
Everything on the server but the workers of a tick runs in one thread, as does the client; the
interleavings are those of the processes, of the batches a poll returns, of the lanes
that race each other, and of the workers.

### What is hard

- **Stale belief.** The server encodes against what the client proved it holds
  some time ago; between, results are evicted, expired, discarded.
- **Loss with partial techniques.** A lost round-robin or LOD Patch carried
  records that are not due again soon: they must be queued until acknowledged.
- **Patches over old baselines.** The client's world is mutated record by record
  and is usually newer than the baseline of the Patch that arrives.
- **Bounds.** Results are limited by count, capacity and age on the server, by
  count and capacity on the client, and the capacity account is a running
  unsigned total changed on five paths.
- **Recovery.** Six reasons lead into it; a FullReplace must be proven to leave.
- **Reassembly.** Four in-flight groups and a byte budget under arbitrary
  duplication, reordering and loss of chunks.
- **Sessions.** A handshake may time out on either side, complete late or never, and be crossed
  by a rejection or a disconnection; events of a connection are handled a batch later.
- **Membership.** A member may be gone while its messages are still in the batch, and a send
  in the middle of a broadcast or a tick may remove it, its player and the cached snapshot.
- **Time.** Elapsed time is clamped, accumulated, dropped, paused or forfeited; ticks of one
  frame share caches with the viewer, membership changes and the next frame.
- **Workers.** Boids are computed and committed by several workers within a tick that may fail.
- **Evidence.** Rows are buffered past the operation that caused them; a stream may fail in any of them.

What makes each component correct: the two ends agree on the content of
every sequence; the world shows exactly one committed result; the acknowledged
result was really applied; the account equals what is retained; the encoder
is never called with a combination it throws on; records carried by a lost Patch are
tracked; recovery ends only with proof; groups complete intact and never hold a
slot for good; both sides agree on ready sessions and every handshake ends; players, index and
cached snapshot follow the members; every request to join is answered; time is conserved and
ticks run in order; a tick is atomic; every grid strategy finds the same neighbours; a steady
input arrives; a run that reports success wrote all its rows, in order. The `hazards` of
`PROJECT.json` list where each could go wrong.

## Modules

| Module | Models | Constants |
|---|---|---|
| `Snapshots` | snapshots as functions from present identifiers to canonical states; updates, reconstruction, selection | `Entities`, `States` |
| `SnapshotDelivery` | `SnapshotDeliveryState` as a record, its functions as operators record → record | the four retention bounds |
| `SnapshotEncode` | `encode_snapshot_unchecked`: kind, base, scheduled records, state update, rejections | technique flags, slice size |
| `SnapshotReplication` | server tick, lanes, client, environment for one peer | delivery mode, stall threshold, client retention, populations, model bounds |
| `ReplicaStream` | the promise of the whole: a view that moves forward through published views, confirmations of positions really held | `Views`, `EmptyView` |
| `Reassembly` | splitting and the bounded reassembler against a stateless network | `PacketizationSettings`, groups |
| `CompressionPath` | the size bounds and the decompression of both compression policies, packetized or not | sizes of headers, limits, updates |
| `SessionEvents` | the promise of the transport to its application, per peer | `PeerIds` |
| `TransportSession` | ENet server and clients with their handshakes; refines `SessionEvents` | clients, identities, limits, foreign clients |
| `ServerMembership` | the run loop's handling of a batch of events: join, pause, loss; clients that follow | members, roles, bounds of batch and queue |
| `ServerClock` | frame plan, ticks, caches, presentation, stop reasons | step, caps, limits, elapsed times |
| `InputDelivery` | the client's input and its acceptance | role, interval, heartbeat |
| `ClientLoop` | the client's run loop | elapsed times, limits, viewer |
| `AuthoritativeIndex` | entities, identifiers, index and extraction | bounds on identifiers and batches |
| `FlockStep`, `FlockTick` | a tick as it should be, and in its phases | rows, states, workers, uninterpreted steering |
| `SpatialGrid`, `FlockNeighbors` | grid building and queries; choice of neighbours | positions, cells, neighbours |
| `EvidenceCsv` | the buffered CSV writer and its application, of a client or a server | capacity, threshold |
| `LevelOfDetailSchedule` | due ticks, pending records, cursor | populations, intervals, cap |
| `MCSnapshotReplication`, `MCRetention` | replication under each technique, and at its limits | techniques, situations |
| `MCUpdatePath`, `MCTransportSession`, `MCServerMembership`, `MCServerTick` (with `MCFlockTick`), `MCClientProcess`, `MCLevelOfDetail` | values for TLC, and what is checked side by side | |
| `SnapshotReplicationTheorems`, `ReplicationLimitsTheorems` | the proofs about snapshots, delivery state and replication | |
| `ReassemblyTheorems` | the proofs about reassembly and `CompressionPath` | |
| `TransportSessionTheorems`, `ServerMembershipTheorems`, `ServerClockTheorems` | the proofs about each of these | |
| `ServerTickTheorems` | the proofs about `FlockTick`, `AuthoritativeIndex` and `LevelOfDetailSchedule` | |
| `ClientProcessTheorems` | the proofs about `ClientLoop`, `EvidenceCsv` and `InputDelivery` | |

State and actions against the code:

- `ReplicatePeer(source, due)` is one call of `replicate_peer`. `PreparedDelivery` is
  everything before encoding (expiry, `RecoveryChecked`, the missing-replica
  check); `EncodeInput` the arguments; then exactly one of `CommitEmission`
  (every chunk accepted), `AbandonEmission` (no room to retain: the acknowledged
  replica is discarded and nothing is sent), `DropOversized` (the result exceeds
  the capacity alone) and `DropOnSendFailure` (the transport refused a chunk; a
  failure to compress or to prepare chunks leaves `replicate_peer` the same way and
  is the same step).
- `ServerReceiveAck`, `ServerReceiveRecoveryRequest` are the two branches of the
  server's poll loop, with `valid_ack` and `valid_recovery_request`.
- `ClientReceiveSnapshot` is `apply_packet`, its early returns in order: stale sequence,
  malformed header, missing baseline (`RejectPatch`, one request per baseline),
  oversized reconstruction, `ApplyUpdate`. A refused send on the client's lane ends its run.
- `LoseSnapshot`, `CloseConnection`, `Wait` are the network and the clock. The
  snapshot lane is ordered: unreliable *sequenced* delivery drops late packets,
  and reassembly drops superseded groups, so updates reach the decoder in order.
- In `Reassembly`, `ReceiveSnapshot(p, applied)` is one packet: expiry, then
  rejection, ignoring or acceptance; `applied` says whether decoding and
  application of a completed group succeeded and it was committed. The network
  is memoryless, so any packet of any group may come at any time. The incomplete groups are
  a function of their identifiers, because the code finds and erases them by identifier and their order
  in its vector shows nowhere; `RetainedBytes` counts the byte positions they reserve.
  The code caches that total, but every packet first expires, which refreshes it
  (`src/src/packetization/src/packetization.cpp:477`, `:489`), so the total that admission reads is the one of the groups kept.

- `TransportSession`: `PollConnect`, `PollReceive` and `PollDisconnect` take one event of ENet into a
  poll of the server, `PollClientConnect`, `PollClientReceive` and `PollClientDisconnect` into one of a
  client; `ExpirePendingSessions` and `ExpirePendingSession` end the polls, and `HandleServerEvent`
  and `HandleClientEvent` are the application's turn. `EnetAnswer` and `EnetForget` are ENet's, which
  may lose a side at any time; `ForeignSend` is a client that speaks the lanes but not the protocol.
- `ServerMembership`: `PollSession` and `PollPacket` fill a batch, `HandleEvent` is one turn of the loop
  over it, with the branch of `poll_transport` for each message; `BroadcastPauseState`, `RunTick` and
  `EndFrame` may fail to send to some members and remove them. The transport's side is that of
  `SessionEvents`.
- `ServerClock`: `at` is the place in the run loop; `Poll`, `Frame`, `RunTick` or `FailTick`, `Drain`,
  `View` and `Limits` are its parts in their order.
- `ClientLoop`: likewise for the client (`Frame`, `PollEvent`, `EndPoll`, `HandleEvent`, `Drain`, `Show`,
  `Limits`), with two lanes that race each other.
- `InputDelivery`: `ClientFrame` is `app_player_input`'s decision and the send, `ReceiveInput` the branch
  of the server's poll loop with its checks of sequence and rate.
- `FlockTick`: `PlayerMovement` to `FlockReport` are the Flecs systems of a tick in their order, and in
  the multithreaded `FlockCompute` and `FlockCommit` one action per row.
- `AuthoritativeIndex`: `SpawnAuthoritativePlayer`, `DeleteAuthoritativePlayer`,
  `SetAuthoritativePlayerInput` and `AppendAuthoritativeBoids` are the exported functions.
- `SpatialGrid`: each strategy computes the committed grid as an operator; the initial states
  take every placement, and the queries are checked in each.
- `EvidenceCsv`: `Submit`, `Drain`, `AcceptRole` and `Close`, with a stream that may fail in each; `requiresRole`, which
  never changes, tells the client's writer from the server's.
- `LevelOfDetailSchedule`: `Emit` is one encode that is committed or dropped (`Commit`, `Drop`), `Skip` a
  tick without emission.

Abstractions: a record is its canonical state (the state after quantization,
which is what baselines, results and the client hold); capacities are counted in
entity records; an optional result is one with sequence 0; diagnostics,
fingerprints and byte layouts are left out; bytes are counted in `CompressionPath` only. The history variables
`emitted` and `applied` record what was committed and applied, for the
properties only. The due set of `SnapshotEncode` is any subset of the population, which
includes every set that `LevelOfDetailSchedule` computes. Two branches of the code can be reached by no state:
the missing-replica check after the first recovery check (`PreparedDelivery`), and
the overflow in `merge_recovery_upserts`, which the check before encoding
precludes; both are modelled as written.

## Runs

Small parts that share no state are checked side by side in one run: a variable that never
changes (`technique`, `situation`, `room`, `part`) says which part or which setting a behaviour is of,
each an `INSTANCE` of the same module with other constants. It costs nothing in states and
keeps every setting of a property in one place. `MCSnapshotReplication` and `MCRetention` also
instantiate `SnapshotEncode`, because TLC evaluates the constant-level definitions of an extended
module once, under the flags of the configuration.

| Run | Question |
|---|---|
| `Techniques` | Delta, round robin, both, level of detail over lossy delivery and level of detail over reliable delivery: do both ends agree on every sequence, does the world show what was committed, is the acknowledged result proven, does the encoder never throw, are records of lost Patches tracked, is the reliable chain unbroken; is it a `ReplicaStream`? |
| `Retention` | Results that expire, room for less than two full results, a client that keeps less than the server patches against: is the account right, may the client fail, is the recovery request ever needed, what ends recovery? |
| `UpdatePath` | Four groups of one to three chunks, three slots, a budget that closes first, conflicting packets: what completes, can a packet cost a group other than its own, and does a slot ever stay blocked? Every size of update in every compression mode: does it fit and decode? |
| `Sessions` | Two clients, one of another wire profile, with room for both and for one: do both sides agree (`SessionsAgree`), do slots, pending events and peers stay in step (`SlotsKept`); is it `SessionEvents`? |
| `HalfOpen` | A client that sends anything in any order, or nothing, and an ENet that need not answer: does every handshake end? |
| `Membership` | Joining, pausing, losing and failing peers in batches, with room for both, room for one, and a client that repeats and invents requests: do the world (`WorldFollowsMembers`), the members (`MembersKept`) and what peers believe of pauses (`PauseAgreement`) stay in step? |
| `JoinAnswered` | Is every join request answered, by `JoinAccepted` or by a disconnection? |
| `ServerLoop` | Frames of any length, pauses, a viewer, failing ticks, signals and limits: time, order, caches, presentation, termination |
| `ServerTick` | Workers of a flock in any order, the entity index, every placement in a grid with its queries, the level-of-detail schedule |
| `ClientProcess` | The client's loop with racing lanes, input of both roles over a lane that loses and reorders, evidence with a failing stream |
| `ReliableDelta`, `LodChurn` | Two documentation claims, violated (below) |

### Bounds

- *Replication.* Two entities in two states, and populations in which one changes, leaves or
  appears, are enough for a Patch to carry a change, a removal and an addition and
  to leave a record stale. Five emissions (`MaxSequence`) with a stall threshold
  of 2 allow: seed, Patch, stall, forced FullReplace, its acknowledgement, and a
  Patch over it, with any of them lost or acknowledged late. `Retention` has three situations: results of age 1
  under a clock up to 3, so that one expires with its acknowledgement under way (four emissions); round robin with room
  for less than two full results (five); and a client that keeps one result, so that it
  evicts a baseline the server still uses (seven). `ReplicationAssumption` has a
  threshold below the retained count because `src/src/config/src/config_load.cpp:934`
  admits 1 to 63 and the count is 64.
- *Chunks.* Only the age of a group is bounded by the model, capped past the timeout where
  it no longer matters; the network is memoryless. Sizes run from one byte to beyond every limit.
- *Sessions and membership.* Two peers are enough for one to take another's slot, to share a
  batch and to be told of each other's pause. `MaxPolled` and `MaxBatch` of 2 let a disconnection and a
  message of the same peer share a batch; the two stray messages a foreign client may have in
  flight (`MaxStray`, `MaxQueued`) let it repeat a request before the first is answered.
- *Server loop.* A step is 3 units; frames of 0, 1, 3 and 8 units are empty, below a step, a step, and
  more than `MaxFrameTime`, with `MaxSteps` of 2 in between. Three ticks let a frame catch up two and leave one.
  The frame limit is disabled in the run, because with it every run would stop; its branch of `Limits`
  is covered by the proofs.
- *Tick.* Three boids and two workers: one worker may have two rows, and one none. Three points on a 3 by 2
  choice of coordinates, on, inside and beyond the border, for two cell sizes and two
  strategies' limits, with identifiers in order, out of order and repeated. The schedule runs in two situations: four
  records, two per emission, with emissions that fail; and three records in three bands, with a far interval of 8 that
  is longer than any wait for the cap, and an emission every second tick. Both populations stay.
- *Client.* Three ticks of the server, a pause and a resumption, batches of two; twenty records at most, six
  buffered, drained at three.

`CHECK_DEADLOCK FALSE` stands where a bound or an ended session stops the system; `LodChurn` has
none and runs for ever.

### Fairness

- `SlotsAreFreed`: weak fairness of `Expire` (the client loop calls it in every iteration) and of `Elapse` (the
  steady clock); nothing of the network.
- `HandshakesSettle`: weak fairness of the clock, the end of each poll and the handling of what was polled: both
  loops poll in every iteration. Nothing is assumed of ENet, neither that it answers nor that it
  reports a lost peer.
- `JoinIsAnswered`: weak fairness of the server's loop and of the client's reading, and strong fairness of
  polling a packet: a batch is bounded by the model, and while others fill it a packet may wait.
- `StopsWhenAsked`, `StopsWithCause`: weak fairness of a loop's next step. `RuntimeLimitStops` is conditional on
  a clock that moves (`ClockMoves`): a frame that samples no time does not approach a limit on time.
- `InputArrives`: weak fairness of the frame loop and of the clock, strong fairness of receiving: a lane that
  loses every packet delivers nothing, one that delivers some of what is repeated is enough.

Every property of a passing run has a mutant, a definition replaced by a plausible bug
(a "Faulty variant" in the modules), under which TLC finds it violated.

### What the runs showed

- **Reliable Delta patches the acknowledged result** (`ReliableDelta`). `src/src/pipeline/README.md:49`
  says reliable ordered delivery uses the latest submitted replica; `delta_baseline` in
  `server_replication.cppm` uses the acknowledged one for Delta without level of detail.
  The client still reconstructs correctly. With Delta and Incremental together,
  reliable delivery queues no recovery upserts either, so a Patch shows again the older
  state of records that an unacknowledged Patch had updated, until their next turn.
- **Recovery requests are redundant** (`RequestComesLate`). A client lacks a baseline only after
  it acknowledged newer results; those acknowledgements are ahead of the request
  on the same lane, and either move the server past the baseline or, naming an
  evicted result, make it recover. The request is a second safeguard.
- **A gap in recovery upserts** (the third case of `PatchUpsertsTracked`, in `UpsertsTracked`). Promotion forgets
  an upsert when the newly acknowledged state equals the newest submitted one.
  If the state changed in between and returned, acknowledging the result in between
  leaves the record stale at the client until its next scheduled turn. Discarding the
  acknowledged replica likewise clears the queue.
- **The level-of-detail rotation may pass over a record** (`LodChurn`). `src/src/pipeline/README.md:92` says
  that persistent due work is serviced within `ceil(N / K)` committed emissions. The cursor of
  `select_pending_indices` is an index into the population of the day: when a record before it
  leaves, the one at the cursor moves in front of it and waits for another round. With a
  population that stays, also across failed emissions, the bound holds (`ScheduleKept`, proved in general).
- **The scheduling-age bound is that of the band at the last service.** `src/src/pipeline/README.md:92` bounds a record's
  age by its band's interval and the emissions it may wait for. A record that comes nearer is pending at
  once, but it may already be older than its new, shorter interval allows. `AgeBounded` therefore
  compares with the interval it was given when it was last serviced (`promised`), which the far interval of the
  run tells apart.
- **A compressed update may be abandoned that would fit uncompressed.** With whole-update compression the envelope counts
  against `max_group_bytes`, and `UpdatesTravel` states exactly that bound.
- **A failed tick keeps the player's move.** `FlockStep` says so: boids move together or not at all, and the
  player has moved already; the run ends then.

Three remarks on documents, seen while translating and not checked by a run: evidence is drained by
`submit` itself once the threshold is reached (`src/src/telemetry/src/telemetry_csv.cpp:813`), where
`src/src/telemetry/README.md:98` has explicit drains only; a second hello of a ready session is delivered
to the application as a payload (`src/src/transport/src/transport_enet.cpp:514`), where
`src/src/transport/README.md:22` calls it a violation; and a client's evidence may have rows without a peer
identifier, of snapshots that overtook `JoinAccepted` (`src/app/client/client_runtime.cpp:755`,
`src/src/telemetry/README.md:24`).

## Proofs

Every theorem holds for every value of the constants under the assumptions that the modules name, which
TLC evaluates in every run: entities are finitely many positive identifiers; the retention bounds
and the threshold are natural numbers as configured; the flags are Booleans; the populations the AOI presents
are snapshots; packetization settings are those `validate_packetization_settings` lets through, and foreign packets have
the fields of a header; a build's identity is its three version numbers; clients and members are finitely many;
rows are finitely many, a moved player is a pose and what steering computes from poses is one (`TickAssumption`:
the functions of `FlockTick` are total, and a result that is not finite is a pose that fails validation); the limits of an
update are those `run_client` accepts (`PathAssumption`); the intervals of the level of detail are those
`require_level_of_detail_settings` lets through. `ReassemblyTheorems`, `ServerTickTheorems` and `ClientProcessTheorems` extend the
MC module that places their components side by side, for its variables and properties and not for its values: the constants
stay parameters. Where such a theorem is about an instance, the assumption of that component stands in the theorem.

### Replication

`SnapshotReplicationTheorems` begins with lemmas that the operators on snapshots and updates are well typed and
`DeltaRoundTrip`: when every record is scheduled, the changed records and the
removed identifiers reconstruct the current snapshot exactly.

Then it has one lemma per operation of the delivery state. Each
says that the type is kept, that the results held afterwards were held before (or are the one
submitted), and what happens to the acknowledged result, the acknowledged sequence and
recovery. `CapacityOf` is a recursive function; that it exists and is a natural
number is proved by picking the least counterexample (`MinIn`), since
induction theorems with operator parameters are out of the provers' reach.

On these it proves the inductive invariant `Inv`:

- `EmissionsNumbered`: the next sequence is one past the history.
- `HeldResultsCommitted`: every result the server holds is the one committed under its sequence.
- `LaneFaithful`: every update in flight is the committed snapshot of its
  sequence, or patches the committed snapshot of its baseline into it.
- `HistoryEndsWithLatest`: the client's history ends with what it applied last.
- `AcknowledgementsTruthful`, `AcknowledgedApplied`: acknowledgements in flight, and the acknowledged
  result, name applied sequences.
- `TypeOK`, `ReplicaAgreement`, `WorldMatchesEmission`.

The last two are not inductive by themselves: what the client makes of the next update
depends on what is in flight, and a Patch is applied straight to the world only
because the history's end is what the world holds. The crux is `ReconstructedIsCommitted`: for a faithful
update whose baseline is retained, the reconstruction is the committed result, and so is the world
after either way of applying it; and `EncodedFaithful`: an accepted encode is
relative to a held result, because the encoder rejects a Patch without one
(`PatchBaseHeld`).

`ReplicationLimitsTheorems` builds four more invariants on `Inv`, each needing those before it:

- `DeliveryKept`: the account of the delivery state is the capacity of what it retains (`Accounted`), its results are
  in order of sequence and time (`Ordered`), the latest submitted sequence is the newest emission's, and
  after an emission the partial techniques are seeded. It gives `RetentionAccounted`, and, since
  every tick expires before it chooses a baseline, `PatchBaselineFresh`; with `Inv` it leaves
  the encoder no reason to reject (`TickAccepted`). Evicting or erasing the front of the queue frees what the account
  loses because the running totals of a part are differences of those of the whole (`TotalsShift`, by the
  least place where they are not, and `CapacitySplit`).
- `ClientKept`: every update in flight is well formed and its reconstruction fits the client, whose bound is the server's. So
  `apply_packet` never ends the session.
- `ChainKept`: under reliable ordered delivery of a partial technique what is in flight continues what was
  applied, one by one, up to the newest emission. So no baseline is ever missing.
- `InputKept`: Patches in flight are over applied results (`PatchesProven`), acknowledgements in flight ascend, and for every
  request in flight, and for every older result the client no longer has, the server is past it, recovers, or
  an acknowledgement that will make it do either is ahead (`RequestsCovered`, `OlderCovered`). `RequestComesLate` is the case of
  a request at the head of the lane. It is not inductive, because what a request meets at the head depends on
  what eviction at the client and expiry at the server left behind when it was sent.

### Reassembly

The invariant `Inv` of `ReassemblyTheorems` has `Shaped` (a group's bytes and received chunks are those of its size)
and `Faithful` (each byte of a received chunk is the byte that was split) for every incomplete group; `CompletedIntact` alone
says nothing of groups that are not complete yet. `ByteInChunk` proves that rounding up and down agree: every byte
lies in exactly the part of its group that its chunk carries. `AdmittedKept` is the admission: retained bytes are a set's cardinality,
so that a new group adds its size. All hold for any foreign packets, and contents
for the groups with which no foreign packet shares an identifier.

`IntactGroupsRemain` is that a conflicting packet "invalidates only the affected group"
(`src/src/packetization/README.md:18`), as an action property: whatever packet comes, such a group loses no chunk it received
unless it completes, a newer group is applied, or it is as old as the timeout. A packet of another group reaches it through none
of the erase paths; and a chunk of its own is never rejected, because it passes every check of its header (`OwnChunkValid`, for
which `ChunksCover` and `OffsetsOrdered` do the arithmetic of the last chunk) and agrees, by `Faithful`, with the bytes at its place
(`OwnChunkAgrees`).

`UpdatesArrive` is about the sizes of `CompressionPath`: its invariant `PathInv` says what a packet of each
size becomes, compressed or not, and that a bound which the server computes from its limits is the one the
client checks (`Path!PacketsFit`, `Path!SentArrives`, `Path!AbandonedAtTheBound`). Zstd is any size that its bound admits.

### Transport sessions

The invariant `Inv` of `TransportSessionTheorems` is needed for all three results about `TransportSession`:

- `Typed`: the types, with the whole range of identifiers.
- `Numbered`: an identifier names one slot for good. A client is announced at most once, so fewer identifiers
  are in use or used up than there are clients, and `next_peer_id_` does not wrap around onto a live one: the assumption
  `Cardinality(Clients) + 1 < PeerIdModulus` says that the connections of one run stay below that limit.
- `ClientKept`: for each client, the slot follows the ENet peer (`Follows`), a client that is ready was accepted by its
  slot (`Accepted`), and of a client of SimNet's own the requests on the lane come in the order it sends them (`OwnClient`).
- `EventsCatchUp`: for each peer, the pending events lead in steps of `SessionEvents` from what the application
  was told to what the slot is (`Leads`). This is what makes `SessionSpec` provable: handling one event is one step of the
  abstract specification, and everything else stutters.

### Membership

`ServerMembershipTheorems` proves `WorldFollowsMembers` from `Typed` alone: each action is one of the few changes that
`WorldCases` lists, to the members, the players and the cached snapshot together. `MembershipInv` adds, for each peer, that what the
batch still holds about it decides whether it is a member (`PeerTracked`: a gone peer that still is one has its disconnection
ahead), that its role, its pending messages and its acceptance agree (`RoleTracked`: it is accepted once), and that a
joined client's last news of the pause is the server's unless a broadcast is due (`PauseTracked`). `MembersKept` and
`PauseAgreement` are what it says where the batch is done.

### Server loop

`ServerClockTheorems` proves of the server's loop, for every step length, frame length, cap and limit:

- `TypedInductive`: `Typed` is `TypeOK` with the whole ranges of the counters, which TLC cannot enumerate.
  The facts about division and the lesser of two numbers (`StepsFit`, `MinOfTwo`, `FramePlan`) bound the
  planned steps by what fits in the accumulator, the step limit and the tick limit.
- `TimeAccountedInductive`: the account is inductive on its own; each frame's plan and each pause or stop
  moves time from one place of it to another (`Balance`, `ForfeitAccounted`).
- `OrderedInductive`: what was run last is the planned offset behind the clock, which makes the ticks of a
  frame consecutive; `GridInductive` and `PresentationInductive` strengthen the caches' properties
  with where in the loop the snapshot, the grid and the presentation may lag behind the world, and
  build on `Ordered`: a cache of the current tick cannot be of an earlier population.

### Tick

`ServerTickTheorems` has three parts.

- *The flock.* `Inv`: a tick has captured the state before it (`CaptureInv`), each row that is written holds the result
  of the row from that capture (`WorldInv`), each was counted by exactly one worker (`CountInv`, `ComputeCounts`) and at
  most one worker holds the inspected row (`InspectionInv`, `OneInspection`). In this state the last commit of a tick is a
  step of `FlockStep` and every other step a stutter (`StepRefines`), however workers share and interleave the rows.
- *The entities.* `IndexInv`: the index lists the live entities in the order of their identifiers (`EntitiesListed`), boids
  fill the rows in the same order (`BoidsInRows`), each table stores the entities of its kind once (`StoredOnce`), and an identifier
  that may be given again was a boid's (`IssuedBehind`). A batch that is appended ascends behind all identifiers
  (`AppendStep`). From it follow the order of the capture, that sorting by identifier gives the same world for
  either order of the tables (`RankIsPlace`, `SortedAsListed`), and that a new player's identifier is new.
- *The schedule.* `ScheduleInv`: a pending record that was left out `w` times stands within the next
  `N - w K` places behind the cursor (`WaitingInv`), because an emission that leaves it out selects `K` records
  before it and the cursor passes them all (`LeftOutMovesUp`, `PlacesRotate`); and a record's age is covered by its due tick and
  then by the emissions it waits for (`AgeInv`). `ceil(N / K)` follows by division (`DivisorsFit`). The theorem is for a
  population that stays, as the finding above requires.

### Client

`ClientProcessTheorems` has three parts.

- *Evidence.* `CsvInv`: what is written and what is buffered are consecutive records (`Consecutive`), through partial
  writes, drains, failures and the close.
- *The loop.* `CauseInv` keeps every reason to stop with its cause; `ShownInv` says where the time last shown lies
  between the two snapshots of the history. It is needed because the next frame may interpolate between
  others: `FrameAdvances` compares the two, by `PassedMonotone`.
- *Input.* `HonestInv`: a client that sends input has been accepted, and the server accepts and answers only
  a peer that it holds as joined, so no honest input meets a rejection.

| Theorem | Property |
|---|---|
| `SnapshotReplicationTheorems!TypeCorrect`, `ServerClockTheorems!TypeCorrect` | `TypeOK` of each |
| `ReplicasAgree` | `ReplicaAgreement` |
| `WorldIsCommitted` | `WorldMatchesEmission` |
| `AcknowledgedResultProven` | `AcknowledgedIsProven` |
| `RecoveryEndsProven` | `RecoveryEndsWithProvenFullReplace` |
| `ImplementsReplicaStream` | `StreamSpec`: `Spec` implements `ReplicaStream` |
| `DeltaRoundTrip` | the reconstruction of a complete Delta Patch |
| `TimeIsAccounted` | `TimeAccounted` |
| `TicksOrdered` | `TicksRunInOrder` |
| `GridMatchesSnapshot` | `GridIsOfSnapshot` |
| `PresentationIsAdjacent` | `PresentationAdjacent` |
| `RetentionIsAccounted` | `RetentionAccounted` |
| `EncoderNeverThrows` | `NextEncodeAccepted`, which `EncoderAccepts` is for each technique |
| `PatchesBuildOnFresh` | `PatchBaselineFresh` |
| `ClientsNeverFail` | `ClientNeverFails` |
| `ReliableChainsHold` | `ReliableChainUnbroken`, which `ChainUnbroken` is for each technique |
| `RequestsAreOvertaken` | `RequestComesLate` |
| `ReceiverBounded` | `ReceiverKept` |
| `GroupsIntact` | `CompletedIntact` |
| `IntactGroupsRemain` | `IntactGroupsStay` |
| `SlotsAreKept` | `SlotsKept` |
| `BothSidesAgree` | `SessionsAgree` |
| `EventsInOrder` | `SessionSpec`: `Spec` implements `SessionEvents` |
| `WorldFollows` | `WorldFollowsMembers` |
| `MembersAreKept` | `MembersKept` |
| `PauseAgreed` | `PauseAgreement` |
| `UpdatesArrive` | `UpdatesTravel` |
| `ImplementsFlockStep` | `TickIsAtomic`: `FlockTick` implements `FlockStep` |
| `InspectionIsKept` | `InspectionKept` |
| `IndexFollows` | `IndexConsistent` |
| `ScheduleIsKept` | `LevelOfDetailSchedule!ScheduleKept`, which `ScheduleKept` is for two situations |
| `EvidenceIsKept` | `RowsKept` |
| `WorldRunsForward` | `ShownForward` |
| `ExitIsExplained` | the invariants `TypeOK` and `ExitTellsCause` of `ClientLoop`, parts of `StopsWithCause` |
| `HonestClientsStay` | `HonestClientStays`, the invariant in `InputArrives` |
| `InvariantHolds`, `MembershipHolds`, `SessionsKept`, `TickInvariant` | the inductive invariants themselves |

### What is only model-checked

- *Liveness*: `SlotsAreFreed`, `HandshakesSettle`, `JoinIsAnswered`, `StopsWhenAsked`, `StopsWithCause`, `RuntimeLimitStops`,
  `InputArrives`. Fairness and ENABLED are out of the provers' reach.
- *Recovery upserts* (`UpsertsTracked`): what a lost Patch carried is a statement about all Patches in
  flight and lost. It holds in the settings of `Techniques`, where nothing expires and the acknowledged replica is
  not discarded; when tight limits discard it, the queue is cleared and the statement is false, so there is no theorem for every
  value of the constants (the third finding above, and the hazard at `app_snapshot_delivery.cppm:229`).
- *`EncoderAccepts` and `ChainUnbroken`* are made of the formulas of each technique in the MC module; those
  formulas are what `EncoderNeverThrows` and `ReliableChainsHold` prove.
- *The grid* (`GridAnswers`): what folds over placements and a sort compute for every
  input is induction over data, which the provers cannot do.

## Plan

1. Proofs: `PatchUpsertsTracked` under limits that discard nothing; a reference definition of `SpatialGrid` by
   recursive functions whose defining equations can be used without induction.
2. A composition of `Reassembly` with `SnapshotReplication`, so that the ordered lane is derived
   from chunks rather than assumed; and the end of recovery as liveness under fair delivery.
3. `LevelOfDetailSchedule` composed with replication, to bound how long a record stays stale at
   the client when recovery cleared its upsert.

## Not modelled

- The floating-point arithmetic of steering and movement: functions of what they read in `FlockTick`.
  Its own rounding and range checks are a pose that fails validation.
- Byte layouts, quantization, masks and fingerprints of the wire format, and the checks against damaged input:
  a record is its canonical state, and the lanes deliver what was sent or nothing.
- Configuration loading, workload generators, component declarations and the formatting of
  columns: values and output that take no part in the protocols. The ranges the
  configuration admits are the assumptions on the constants.
- Rendering and cameras: drawing is a step that changes nothing but a selection and the pause request. `ClientLoop` leaves out
  the stop when a viewer cannot interpolate between two results (`src/app/client/client_runtime.cpp:858`) and the client's limits
  of frames and ticks: each is one more way to stop with a cause, and no property depends on them.
- ENet itself, beyond what the code relies on: ordered lanes or lossy ones, and a disconnection reported some time
  or never. Wrap-around of 16-bit peer and 32-bit sequence numbers is out of a small model's reach: sequences end
  in an error in the code, peer identifiers are reused after 65535 connections without a check
  (`src/src/transport/src/transport_enet.cpp:302`).
- The raw delivery mode without packetization passes a payload through unchanged, which `CompressionPath`
  covers for sizes only.
