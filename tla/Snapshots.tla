------------------------------ MODULE Snapshots ------------------------------
(***************************************************************************)
(* Snapshots of the replicated world and the updates that turn one into    *)
(* another.  A WorldSnapshot is a set of entity records in ascending       *)
(* EntityNetId order with no duplicates, so it is modelled as a function   *)
(* from the identifiers that are present to their canonical state (the     *)
(* state after quantization, the only one that baselines, updates and the  *)
(* client ever hold).  A SnapshotUpdate carries upserts and deletes.       *)
(***************************************************************************)
EXTENDS Naturals, FiniteSets

CONSTANTS Entities,   \* entity identifiers
          States      \* canonical entity states: classification, position, heading, hue

\* EntityNetId 0 is reserved.
ASSUME EntitiesAssumption == Entities \subseteq Nat \ {0} /\ IsFiniteSet(Entities)

Snapshots == UNION {[population -> States] : population \in SUBSET Entities}

EmptySnapshot == [e \in {} |-> e]

Kinds == {"FullReplace", "Patch"}

Updates == [kind : Kinds, upserts : Snapshots, deletes : SUBSET Entities]

\* The records of a snapshot whose identifiers are in ids.
Restricted(snapshot, ids) == [e \in DOMAIN snapshot \cap ids |-> snapshot[e]]

\* Identifiers that differ from the baseline or that the baseline lacks.
ChangedIds(current, baseline) ==
    {e \in DOMAIN current : e \in DOMAIN baseline => current[e] # baseline[e]}

\* Identifiers of previous that are gone from current (select_removed_entity_ids).
RemovedIds(current, previous) == DOMAIN previous \ DOMAIN current

\* A Patch over a baseline: deleted records go, upserts replace or extend the rest.
PatchedSnapshot(baseline, update) ==
    [e \in (DOMAIN baseline \ update.deletes) \cup DOMAIN update.upserts |->
        IF e \in DOMAIN update.upserts THEN update.upserts[e] ELSE baseline[e]]

\* reconstruct_world_snapshot_unchecked
Reconstruct(baseline, update) ==
    IF update.kind = "FullReplace" THEN update.upserts ELSE PatchedSnapshot(baseline, update)

\* The vector capacity a reconstruction reserves, in entity records:
\* snapshot_capacity_bytes of the result, which may exceed its population.
ReconstructionCapacity(baseline, update) ==
    Cardinality(DOMAIN update.upserts)
      + (IF update.kind = "Patch" THEN Cardinality(DOMAIN baseline) ELSE 0)

\* make_full_replace_patch
FullReplaceOf(snapshot) ==
    [kind |-> "FullReplace", upserts |-> snapshot, deletes |-> {}]

\* The Patch of the scheduled records; changedOnly is the Delta filter
\* (select_delta_records, filter_scheduled_delta_records).  Without it every
\* scheduled record is sent (select_replica_deletes adds the deletes).
ScheduledPatch(current, baseline, scheduled, changedOnly) ==
    [kind    |-> "Patch",
     upserts |-> Restricted(current,
                     IF changedOnly THEN scheduled \cap ChangedIds(current, baseline)
                                    ELSE scheduled),
     deletes |-> RemovedIds(current, baseline)]

\* apply_client_snapshot_patch_unchecked on the client's Flecs world: a Patch
\* changes what the world holds, a FullReplace deletes and recreates all of it.
AppliedToWorld(world, update) ==
    IF update.kind = "FullReplace" THEN update.upserts ELSE PatchedSnapshot(world, update)
=============================================================================
