SPECIFICATION TechniqueSpec
CONSTANTS
    Techniques = {"Delta", "LossyIncremental", "LossyDeltaIncremental",
                  "LossyLevelOfDetail", "ReliableLevelOfDetail"}
    Entities <- MCEntities
    States <- MCStates
    SourceSnapshots <- MCSourceSnapshots
    Delta = TRUE
    Incremental = FALSE
    LevelOfDetail = FALSE
    Reliable = FALSE
    MaxEntitiesPerUpdate = 1
    FullReplaceThreshold = 2
    MaximumRetainedResults = 3
    MaximumRetainedCapacity = 20
    MaximumResultAge = 1
    MaximumRecoveryUpserts = 4
    RetainedSnapshotLimit = 3
    MaxSequence = 5
    MaxNow = 0
INVARIANTS
    ReplicaAgreement
    WorldMatchesEmission
    AcknowledgedIsProven
    EncoderAccepts
    UpsertsTracked
    ChainUnbroken
PROPERTIES
    StreamSpec
CHECK_DEADLOCK FALSE
