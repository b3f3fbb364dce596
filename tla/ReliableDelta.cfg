SPECIFICATION TechniqueSpec
CONSTANTS
    Techniques = {"Delta"}
    Entities <- MCEntities
    States <- MCStates
    SourceSnapshots <- MCTwoSourceSnapshots
    Delta = TRUE
    Incremental = FALSE
    LevelOfDetail = FALSE
    Reliable = TRUE
    MaxEntitiesPerUpdate = 1
    FullReplaceThreshold = 2
    MaximumRetainedResults = 3
    MaximumRetainedCapacity = 20
    MaximumResultAge = 1
    MaximumRecoveryUpserts = 4
    RetainedSnapshotLimit = 3
    MaxSequence = 5
    MaxNow = 0
INVARIANTS
    ReliablePatchFollowsSubmitted
CHECK_DEADLOCK FALSE
