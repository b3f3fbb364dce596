------------------------------ MODULE MCRetention ------------------------------
(***************************************************************************)
(* SnapshotReplication at its limits.  The situation is chosen initially   *)
(* and never changes: results and baselines that expire while the clock    *)
(* moves (the configuration of the run), room for less than two full       *)
(* results, and a client that keeps less than the server patches against.  *)
(***************************************************************************)
EXTENDS SnapshotReplication, TLC

CONSTANT Situations     \* the situations the run covers

VARIABLE situation      \* the situation of this behaviour

MCEntities == {1, 2}
MCStates == {"s", "t"}

Both(a, b) == (1 :> a) @@ (2 :> b)

\* One population: what is retained and evicted depends on sequences and sizes alone.
MCOneSourceSnapshot == {2 :> "t"}

MCSourceSnapshots == {Both("s", "s"), Both("t", "s"), 2 :> "t"}

\* SnapshotEncode is instantiated as well, so that TLC evaluates what it derives from
\* the flags (PartialSelection, ReplicaIncremental) under each set of flags.
Encoding == INSTANCE SnapshotEncode

\* Round robin with room for less than two full results, the recovery upserts included.
Pressure == INSTANCE SnapshotReplication
    WITH Delta <- FALSE, Incremental <- TRUE, MaximumRecoveryUpserts <- 3,
         RetainedSnapshotLimit <- 3, MaxSequence <- 5, MaxNow <- 0,
         SourceSnapshots <- MCSourceSnapshots

\* Delta with a client that keeps one result: it evicts a baseline that the server
\* still patches against.
Eviction == INSTANCE SnapshotReplication
    WITH RetainedSnapshotLimit <- 1, MaxSequence <- 7, MaxNow <- 0

SituationInit == Init /\ situation \in Situations

SituationNext ==
    /\ \/ situation = "expiry" /\ Next
       \/ situation = "pressure" /\ Pressure!Next
       \/ situation = "eviction" /\ Eviction!Next
    /\ UNCHANGED situation

SituationSpec == SituationInit /\ [][SituationNext]_<<vars, situation>>
=============================================================================
