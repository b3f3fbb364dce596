SPECIFICATION SituationSpec
CONSTANTS
    Situations = {"expiry", "pressure", "eviction"}
    Entities <- MCEntities
    States <- MCStates
    SourceSnapshots <- MCOneSourceSnapshot
    Delta = TRUE
    Incremental = FALSE
    LevelOfDetail = FALSE
    Reliable = FALSE
    MaxEntitiesPerUpdate = 1
    FullReplaceThreshold = 2
    MaximumRetainedResults = 3
    MaximumRetainedCapacity = 3
    MaximumResultAge = 1
    MaximumRecoveryUpserts = 4
    RetainedSnapshotLimit = 2
    MaxSequence = 4
    MaxNow = 3
INVARIANTS
    RetentionAccounted
    ClientNeverFails
    RequestComesLate
PROPERTIES
    PatchBaselineFresh
    RecoveryEndsWithProvenFullReplace
CHECK_DEADLOCK FALSE
