------------------------------- MODULE Reassembly -------------------------------
(***************************************************************************)
(* Packetization of an encoded update into chunks and the client's bounded *)
(* reassembly of them.  The network is stateless: any packet of a prepared *)
(* group may arrive at any time, any number of times or never, which is    *)
(* loss, duplication and reordering at once.                               *)
(*                                                                         *)
(* Time is the age of each incomplete group, capped just past the timeout, *)
(* so that it need not be bounded.  A byte is its group and position.  The *)
(* incomplete groups are a function from their identifiers: the code finds *)
(* them by identifier only, and their order shows nowhere.  The mode       *)
(* without packetization, which hands a payload through, is left out.      *)
(***************************************************************************)
EXTENDS Naturals, Sequences, FiniteSetsExt, Functions

CONSTANTS Capacity,            \* max_payload_bytes - packet_header_bytes
          MaxGroupBytes,       \* max_group_bytes
          MaxChunksPerGroup,   \* max_chunks_per_group
          MaxInFlightGroups,   \* max_in_flight_groups
          MaxIncompleteBytes,  \* max_incomplete_bytes
          ReassemblyTimeout,   \* reassembly_timeout, in clock steps
          GroupSizes,          \* bytes of the update with each sequence, from 1
          ForeignPackets       \* packets no prepared group consists of

\* validate_packetization_settings, and what the constants mean.
ASSUME PacketizationAssumption ==
    /\ {Capacity, MaxChunksPerGroup, MaxInFlightGroups, ReassemblyTimeout} \subseteq Nat \ {0}
    /\ MaxGroupBytes \in 1..(Capacity * MaxChunksPerGroup)
    /\ MaxIncompleteBytes \in Nat /\ MaxIncompleteBytes >= MaxGroupBytes
    /\ GroupSizes \in Seq(1..MaxGroupBytes)
    /\ ForeignPackets \subseteq [group_id : Nat, chunk_index : Nat, chunk_count : Nat,
                                 group_bytes : Nat, payload : Seq(Nat \X Nat)]

VARIABLES latest_committed_group,  \* newest group whose update was applied
          incomplete,              \* the incomplete group of each identifier that has one
          completed                \* the group the last packet completed, if it did

vars == <<latest_committed_group, incomplete, completed>>

-----------------------------------------------------------------------------
(* The sender: prepare_byte_group and serialize_group_chunk. *)

GroupIds == DOMAIN GroupSizes

Content(g) == [b \in 1..GroupSizes[g] |-> <<g, b>>]

\* ceiling_divide
ChunkCount(bytes) == (bytes + Capacity - 1) \div Capacity

ChunkOffset(index) == index * Capacity

ChunkBytes(bytes, index) == Min({Capacity, bytes - ChunkOffset(index)})

Chunk(g, index) ==
    [group_id    |-> g,
     chunk_index |-> index,
     chunk_count |-> ChunkCount(GroupSizes[g]),
     group_bytes |-> GroupSizes[g],
     payload     |-> [k \in 1..ChunkBytes(GroupSizes[g], index) |->
                         Content(g)[ChunkOffset(index) + k]]]

ChunksOf(g) == {Chunk(g, index) : index \in 0..(ChunkCount(GroupSizes[g]) - 1)}

Packets == ForeignPackets \cup UNION {ChunksOf(g) : g \in GroupIds}

-----------------------------------------------------------------------------
(* The receiver. *)

NoGroup == [group_id |-> 0, bytes |-> << >>]

Init ==
    /\ latest_committed_group = 0
    /\ incomplete = << >>
    /\ completed = NoGroup

\* The bytes that are reserved for incomplete groups, each with its group.
ReservedBytes(groups) ==
    {byte \in (DOMAIN groups) \X (1..MaxGroupBytes) : byte[2] <= groups[byte[1]].group_bytes}

\* update_current_report.  The code keeps the total and refreshes it whenever a group is
\* admitted or erased; every packet expires first, so admission reads a fresh total.
RetainedBytes(groups) == Cardinality(ReservedBytes(groups))

\* Faulty variant: old groups go only when room is needed.
ExpireWhenFull(groups) ==
    Restrict(groups, {id \in DOMAIN groups :
        Cardinality(DOMAIN groups) >= MaxInFlightGroups => groups[id].age < ReassemblyTimeout})

\* What expire_incomplete_groups keeps.
Unexpired(groups) == Restrict(groups, {id \in DOMAIN groups : groups[id].age < ReassemblyTimeout})

\* erase_incomplete_group
WithoutGroup(groups, id) == Restrict(groups, DOMAIN groups \ {id})

\* header_fields_are_within_bounds
WithinBounds(p) ==
    /\ p.group_id # 0
    /\ p.group_bytes \in 1..MaxGroupBytes
    /\ p.chunk_count \in 1..MaxChunksPerGroup
    /\ p.chunk_index < p.chunk_count

\* The chunk geometry follows from the group's size.
ConsistentGeometry(p) ==
    /\ p.chunk_count = ChunkCount(p.group_bytes)
    /\ ChunkOffset(p.chunk_index) < p.group_bytes
    /\ Len(p.payload) = ChunkBytes(p.group_bytes, p.chunk_index)

NewGroup(p) ==
    [group_bytes |-> p.group_bytes, age |-> 0,
     bytes |-> [b \in 1..p.group_bytes |-> <<0, 0>>], received |-> {}]

\* admit_incomplete_group has room for a new group.
Admissible(groups, p) ==
    /\ Cardinality(DOMAIN groups) < MaxInFlightGroups
    /\ RetainedBytes(groups) + p.group_bytes <= MaxIncompleteBytes

\* The incomplete groups with p's group among them.
Admitted(groups, p) ==
    [id \in DOMAIN groups \cup {p.group_id} |->
        IF id \in DOMAIN groups THEN groups[id] ELSE NewGroup(p)]

\* Faulty variant: a repetition is compared with the start of the group.
PayloadMatchesStart(group, p) == \A k \in DOMAIN p.payload : group.bytes[k] = p.payload[k]

PayloadMatches(group, p) ==
    \A k \in DOMAIN p.payload :
        group.bytes[ChunkOffset(p.chunk_index) + k] = p.payload[k]

\* Faulty variant: the offset is counted in chunks of the payload's own size.
WithChunkByPayload(group, p) ==
    LET offset == p.chunk_index * Len(p.payload)
    IN  [group EXCEPT !.bytes = [b \in DOMAIN @ |->
                                    IF b - offset \in DOMAIN p.payload
                                    THEN p.payload[b - offset] ELSE @[b]],
                      !.received = @ \cup {p.chunk_index}]

WithChunk(group, p) ==
    LET offset == ChunkOffset(p.chunk_index)
    IN  [group EXCEPT !.bytes = [b \in DOMAIN @ |->
                                    IF b - offset \in DOMAIN p.payload
                                    THEN p.payload[b - offset] ELSE @[b]],
                      !.received = @ \cup {p.chunk_index}]

IsComplete(group) == Cardinality(group.received) = ChunkCount(group.group_bytes)

\* Faulty variant: a commit leaves older incomplete groups where they are.
CommittedOnly(groups, id) == groups

\* What commit_reassembled_group keeps.
NewerThan(groups, id) == Restrict(groups, {other \in DOMAIN groups : other >= id})

-----------------------------------------------------------------------------
(* accept_group_packet: the cases of one packet, after expiry. *)

\* A malformed or conflicting packet erases its own group.
RejectPacket(p, live) ==
    LET id    == p.group_id
        group == live[id]
    IN  /\ \/ ~WithinBounds(p)
           \/ id > latest_committed_group /\ ~ConsistentGeometry(p)
           \/ /\ id > latest_committed_group /\ WithinBounds(p) /\ ConsistentGeometry(p)
              /\ id \in DOMAIN live
              /\ \/ group.group_bytes # p.group_bytes
                 \/ p.chunk_index \in group.received /\ ~PayloadMatches(group, p)
        /\ incomplete' = WithoutGroup(live, id)
        /\ completed' = NoGroup
        /\ UNCHANGED latest_committed_group

IsStale(p) == WithinBounds(p) /\ p.group_id <= latest_committed_group

\* The packets that are looked up among the incomplete groups.
IsCandidate(p) == WithinBounds(p) /\ ~IsStale(p) /\ ConsistentGeometry(p)

IgnorePacket(p, live) ==
    /\ \/ IsStale(p)
       \/ /\ IsCandidate(p)
          /\ p.group_id \notin DOMAIN live
          /\ ~Admissible(live, p)
    /\ incomplete' = live
    /\ completed' = NoGroup
    /\ UNCHANGED latest_committed_group

\* Metadata agrees and the chunk is new or a repetition of what was received.
AcceptPacket(p, live, applied) ==
    LET id      == p.group_id
        groups  == Admitted(live, p)
        group   == groups[id]
        updated == WithChunk(group, p)
    IN  /\ IsCandidate(p)
        /\ id \in DOMAIN live \/ Admissible(live, p)
        /\ group.group_bytes = p.group_bytes
        /\ \/ /\ p.chunk_index \in group.received /\ PayloadMatches(group, p)
              /\ ~applied
              /\ incomplete' = live
              /\ completed' = NoGroup
              /\ UNCHANGED latest_committed_group
           \/ /\ p.chunk_index \notin group.received /\ ~IsComplete(updated)
              /\ ~applied
              /\ incomplete' = [groups EXCEPT ![id] = updated]
              /\ completed' = NoGroup
              /\ UNCHANGED latest_committed_group
           \/ /\ p.chunk_index \notin group.received /\ IsComplete(updated)
              /\ completed' = [group_id |-> id, bytes |-> updated.bytes]
              /\ LET remaining == WithoutGroup(groups, id)
                 IN  IF applied
                     THEN /\ latest_committed_group' = id
                          /\ incomplete' = NewerThan(remaining, id)
                     ELSE /\ incomplete' = remaining
                          /\ UNCHANGED latest_committed_group

\* ClientReplicationReceiver::receive_snapshot.  applied: decoding, reconstruction
\* and application of a completed group succeeded, and it was committed.
ReceiveSnapshot(p, applied) ==
    LET live == Unexpired(incomplete)
    IN  \/ ~applied /\ RejectPacket(p, live)
        \/ ~applied /\ IgnorePacket(p, live)
        \/ AcceptPacket(p, live, applied)

\* The client's loop calls expire_incomplete_groups once per iteration.
Expire ==
    /\ incomplete' = Unexpired(incomplete)
    /\ completed' = NoGroup
    /\ UNCHANGED latest_committed_group

Elapse ==
    /\ incomplete' = [id \in DOMAIN incomplete |->
                        [incomplete[id] EXCEPT !.age = IF @ > ReassemblyTimeout THEN @ ELSE @ + 1]]
    /\ completed' = NoGroup
    /\ UNCHANGED latest_committed_group

\* clear_reassembly_state, when a session becomes ready or its peer is gone.
ClearReassemblyState ==
    /\ latest_committed_group' = 0
    /\ incomplete' = << >>
    /\ completed' = NoGroup

Next ==
    \/ \E p \in Packets, applied \in BOOLEAN : ReceiveSnapshot(p, applied)
    \/ Expire
    \/ Elapse
    \/ ClearReassemblyState

\* The client's loop keeps running and the steady clock keeps advancing; nothing
\* is assumed of the network.
Spec == Init /\ [][Next]_vars /\ WF_vars(Expire) /\ WF_vars(Elapse)
-----------------------------------------------------------------------------
(* Properties. *)

IntactIds == GroupIds \ {p.group_id : p \in ForeignPackets}

\* Every variable keeps its type; no retained group exceeds the size bounds.
TypeOK ==
    /\ latest_committed_group \in Nat
    /\ completed \in [group_id : Nat, bytes : Seq(Nat \X Nat)]
    /\ DOMAIN incomplete \subseteq Nat \ {0}
    /\ incomplete \in [DOMAIN incomplete ->
                         [group_bytes : 1..MaxGroupBytes, age : 0..(ReassemblyTimeout + 1),
                          bytes : Seq(Nat \X Nat), received : SUBSET (0..(MaxChunksPerGroup - 1))]]

\* However chunks were lost, repeated, reordered, expired and started again, a
\* group is handed on only with exactly the bytes that were split, unless
\* packets of another making share its identifier.
CompletedIntact ==
    completed.group_id \in IntactIds => completed.bytes = Content(completed.group_id)

\* Per-peer state stays within the in-flight count and the byte budget.
WithinBudget ==
    /\ Cardinality(DOMAIN incomplete) <= MaxInFlightGroups
    /\ RetainedBytes(incomplete) <= MaxIncompleteBytes

\* Superseded groups do not hold slots: only groups newer than what was applied
\* are waited for.
IncompleteAreNewer == \A id \in DOMAIN incomplete : id > latest_committed_group

\* What a receiver keeps is well formed, within the in-flight count and the byte budget,
\* and newer than what was applied (admission and every erase path).
ReceiverKept == TypeOK /\ WithinBudget /\ IncompleteAreNewer

\* What was received of the group is still there.
Remains(id) == id \in DOMAIN incomplete' /\ incomplete[id].received \subseteq incomplete'[id].received

\* A bad packet invalidates the affected group only, and a repeated or late one none: a
\* group that nothing but its own chunks was made for loses no chunk it received, whatever
\* packet comes (accept_group_packet and its erase paths), until it completes, a newer
\* group is applied, or it is as old as the timeout.
IntactGroupsStay ==
    [][\A p \in Packets, applied \in BOOLEAN : ReceiveSnapshot(p, applied) =>
          \A id \in IntactIds \cap DOMAIN incomplete :
              \/ Remains(id)
              \/ completed'.group_id = id
              \/ latest_committed_group' > id
              \/ incomplete[id].age >= ReassemblyTimeout]_vars

AgedIds == {id \in DOMAIN incomplete : incomplete[id].age > 0}

\* A full set of incomplete groups blocks every newer one, so none of them may
\* stay: each completes, is rejected, superseded or expires, whatever the
\* network does.  (A group may start again at once from a late chunk.)
SlotsAreFreed ==
    \A id \in GroupIds : id \in AgedIds ~> id \notin AgedIds
=============================================================================
