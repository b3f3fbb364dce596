---------------------------- MODULE SnapshotEncode ----------------------------
(***************************************************************************)
(* encode_snapshot_unchecked: which kind of update the pipeline emits for  *)
(* one peer, over which baseline, which records it carries, and how the    *)
(* peer's ClientReplicationState moves.  Encoding itself is abstracted: a  *)
(* record is its canonical state.                                          *)
(*                                                                         *)
(* The area of interest is part of the input (the snapshot handed in is    *)
(* the population relevant to the peer).  Which records the level-of-      *)
(* detail schedule finds due is left open: with level of detail, any set   *)
(* of identifiers may be scheduled, which covers every choice that the     *)
(* schedule and its cursor (LevelOfDetailSchedule) make.                   *)
(***************************************************************************)
EXTENDS SnapshotDelivery

CONSTANTS Delta,                \* PipelineTechniqueFlags::Delta
          Incremental,          \* PipelineTechniqueFlags::Incremental
          LevelOfDetail,        \* LevelOfDetailMode::DistanceBands
          MaxEntitiesPerUpdate  \* incremental.max_entities_per_update

ASSUME PipelineAssumption ==
    /\ {Delta, Incremental, LevelOfDetail} \subseteq BOOLEAN
    /\ MaxEntitiesPerUpdate \in Nat \ {0}

\* ClientReplicationState, the encoder's half.
PipelineStates == [next_sequence          : Nat \ {0},
                   incremental_cursor     : Nat,
                   incremental_seeded     : BOOLEAN,
                   level_of_detail_seeded : BOOLEAN]

InitialPipeline == [next_sequence          |-> 1,
                    incremental_cursor     |-> 0,
                    incremental_seeded     |-> FALSE,
                    level_of_detail_seeded |-> FALSE]

\* partial_selection_enabled
PartialSelection == Incremental \/ LevelOfDetail

\* Incremental scheduling that needs an exact replica rather than a Delta baseline.
ReplicaIncremental == Incremental /\ ~LevelOfDetail /\ ~Delta

-----------------------------------------------------------------------------
(* The scheduling decision.  p is the pipeline state, input an EncodeInput. *)

ScheduleLevelOfDetail(p, input) ==
    LevelOfDetail /\ p.level_of_detail_seeded /\ ~input.force_full_replace

EmitDelta(p, input) ==
    Delta /\ ~input.force_full_replace /\ HasResult(input.baseline)

SeedIncremental(p, input) ==
    ReplicaIncremental /\ ~p.incremental_seeded /\ ~input.force_full_replace

ScheduleIncremental(p, input) ==
    /\ Incremental
    /\ \/ ScheduleLevelOfDetail(p, input)
       \/ /\ ~LevelOfDetail
          /\ ~input.force_full_replace
          /\ ~SeedIncremental(p, input)
          /\ Delta => EmitDelta(p, input)

EmitPatch(p, input) ==
    \/ ScheduleLevelOfDetail(p, input)
    \/ EmitDelta(p, input)
    \/ ScheduleIncremental(p, input)

\* The combinations for which the encoder throws.
EncodeRejects(p, input) ==
    \/ HasResult(input.baseline) /\ ~Delta /\ ~LevelOfDetail
    \/ HasResult(input.replica) /\ ~ReplicaIncremental
    \/ /\ input.force_full_replace
       /\ \/ HasResult(input.baseline)
          \/ HasResult(input.replica)
          \/ input.recovery_upsert_ids # {}
    \/ input.baseline.sequence >= p.next_sequence
    \/ input.replica.sequence >= p.next_sequence
    \/ LevelOfDetail /\ ~p.level_of_detail_seeded /\ HasResult(input.baseline)
    \/ ScheduleLevelOfDetail(p, input) /\ ~HasResult(input.baseline)
    \/ /\ ScheduleIncremental(p, input)
       /\ ReplicaIncremental
       /\ ~HasResult(input.replica)
    \/ input.recovery_upsert_ids # {} /\ ~EmitPatch(p, input)

-----------------------------------------------------------------------------
\* The index of an identifier in a snapshot's ascending order.
IndexIn(snapshot, e) == Cardinality({d \in DOMAIN snapshot : d < e})

Population(snapshot) == Cardinality(DOMAIN snapshot)

\* select_incremental_indices: how many records a round-robin slice holds...
SliceSize(snapshot) ==
    IF Population(snapshot) < MaxEntitiesPerUpdate THEN Population(snapshot)
                                                   ELSE MaxEntitiesPerUpdate

\* ...and which ones, starting at the cursor and wrapping around.
RoundRobinSlice(snapshot, cursor) ==
    LET n == Population(snapshot)
    IN  {e \in DOMAIN snapshot :
            (IndexIn(snapshot, e) + n - (cursor % n)) % n < SliceSize(snapshot)}

\* next_incremental_cursor
NextIncrementalCursor(snapshot, cursor) ==
    IF Population(snapshot) = 0 THEN 0
    ELSE (cursor + SliceSize(snapshot)) % Population(snapshot)

\* The records a Patch considers.  due is what the level-of-detail schedule
\* selects; recovery upserts join either partial schedule.
ScheduledIds(p, input, due) ==
    CASE ScheduleLevelOfDetail(p, input) -> due \cup input.recovery_upsert_ids
      [] ~ScheduleLevelOfDetail(p, input) /\ ScheduleIncremental(p, input) ->
             RoundRobinSlice(input.snapshot, p.incremental_cursor)
               \cup input.recovery_upsert_ids
      [] OTHER -> DOMAIN input.snapshot

\* The result the update is relative to: the reconstruction baseline.
PatchBase(p, input) ==
    IF ScheduleLevelOfDetail(p, input) \/ EmitDelta(p, input) THEN input.baseline
                                                              ELSE input.replica

EncodedUpdate(p, input, due) ==
    IF EmitPatch(p, input)
    THEN ScheduledPatch(input.snapshot, PatchBase(p, input).snapshot,
                        ScheduledIds(p, input, due), EmitDelta(p, input))
    ELSE FullReplaceOf(input.snapshot)

\* EncodeOutput: the update, its header fields, the exact client result it
\* leads to and the capacity of that result.
Encoded(p, input, due) ==
    LET update == EncodedUpdate(p, input, due)
        base   == IF EmitPatch(p, input) THEN PatchBase(p, input) ELSE NoResult
    IN  [sequence           |-> p.next_sequence,
         baseline_sequence  |-> base.sequence,
         update             |-> update,
         resulting_snapshot |-> Reconstruct(base.snapshot, update),
         capacity_bytes     |-> ReconstructionCapacity(base.snapshot, update)]

\* The client state after a successful encode.
AdvancedPipeline(p, input) ==
    [next_sequence |-> p.next_sequence + 1,
     incremental_cursor |->
         IF ScheduleIncremental(p, input) /\ ~LevelOfDetail
         THEN NextIncrementalCursor(input.snapshot, p.incremental_cursor)
         ELSE p.incremental_cursor,
     incremental_seeded |->
         p.incremental_seeded \/ (Incremental /\ ~EmitPatch(p, input)),
     level_of_detail_seeded |->
         p.level_of_detail_seeded \/ (LevelOfDetail /\ ~EmitPatch(p, input))]
=============================================================================
