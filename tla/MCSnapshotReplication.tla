------------------------ MODULE MCSnapshotReplication ------------------------
(***************************************************************************)
(* SnapshotReplication under each pipeline technique, with two entities in *)
(* two states and the populations that tell updates apart: an entity that  *)
(* changes, one that leaves and one that appears.  The technique is chosen *)
(* initially and never changes; the configuration of the run is Delta,     *)
(* and the others replace its flags.                                       *)
(***************************************************************************)
EXTENDS SnapshotReplication, TLC

CONSTANT Techniques     \* the techniques the run covers

VARIABLE technique      \* the technique of this behaviour

MCEntities == {1, 2}
MCStates == {"s", "t"}

Both(a, b) == (1 :> a) @@ (2 :> b)

MCSourceSnapshots == {Both("s", "s"), Both("t", "s"), 2 :> "t"}

\* Two populations, where the choice of due records multiplies the steps.
MCTwoSourceSnapshots == {Both("s", "s"), 2 :> "t"}

\* SnapshotEncode is instantiated as well, so that TLC evaluates what it derives from
\* the flags (PartialSelection, ReplicaIncremental) under each set of flags.
Encoding == INSTANCE SnapshotEncode

LossyIncremental == INSTANCE SnapshotReplication
    WITH Delta <- FALSE, Incremental <- TRUE

LossyDeltaIncremental == INSTANCE SnapshotReplication
    WITH Incremental <- TRUE, MaximumRecoveryUpserts <- 3,
         SourceSnapshots <- MCTwoSourceSnapshots

LossyLevelOfDetail == INSTANCE SnapshotReplication
    WITH Delta <- FALSE, LevelOfDetail <- TRUE, SourceSnapshots <- MCTwoSourceSnapshots

ReliableLevelOfDetail == INSTANCE SnapshotReplication
    WITH Delta <- FALSE, LevelOfDetail <- TRUE, Reliable <- TRUE,
         SourceSnapshots <- MCTwoSourceSnapshots

TechniqueInit == Init /\ technique \in Techniques

TechniqueNext ==
    /\ \/ technique = "Delta" /\ Next
       \/ technique = "LossyIncremental" /\ LossyIncremental!Next
       \/ technique = "LossyDeltaIncremental" /\ LossyDeltaIncremental!Next
       \/ technique = "LossyLevelOfDetail" /\ LossyLevelOfDetail!Next
       \/ technique = "ReliableLevelOfDetail" /\ ReliableLevelOfDetail!Next
    /\ UNCHANGED technique

TechniqueSpec == TechniqueInit /\ [][TechniqueNext]_<<vars, technique>>
-----------------------------------------------------------------------------
(* Properties that depend on the technique. *)

\* The next tick never calls the encoder with a combination it throws on, whatever
\* acknowledgements, requests and expiries came before (encode_snapshot_unchecked).
EncoderAccepts ==
    /\ technique = "Delta" => NextEncodeAccepted
    /\ technique = "LossyIncremental" => LossyIncremental!NextEncodeAccepted
    /\ technique = "LossyDeltaIncremental" => LossyDeltaIncremental!NextEncodeAccepted
    /\ technique = "LossyLevelOfDetail" => LossyLevelOfDetail!NextEncodeAccepted
    /\ technique = "ReliableLevelOfDetail" => ReliableLevelOfDetail!NextEncodeAccepted

\* A record that a lossy partial Patch carried is proven, queued to be sent again, or
\* back in a state the peer had before (merge and promotion of recovery upserts).
UpsertsTracked ==
    /\ technique = "LossyIncremental" => LossyIncremental!PatchUpsertsTracked
    /\ technique = "LossyDeltaIncremental" => LossyDeltaIncremental!PatchUpsertsTracked
    /\ technique = "LossyLevelOfDetail" => LossyLevelOfDetail!PatchUpsertsTracked

\* With reliable delivery the partial techniques chain every Patch on the result
\* before it, and the client never lacks a baseline (replicate_peer's replica).
ChainUnbroken ==
    technique = "ReliableLevelOfDetail" => ReliableLevelOfDetail!ReliableChainUnbroken
=============================================================================
