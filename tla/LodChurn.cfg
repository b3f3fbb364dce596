SPECIFICATION Spec
CONSTANTS
    Populations = {{1, 2, 3}, {2, 3, 4}}
    Self = 0
    MediumInterval = 2
    FarInterval = 3
    SendInterval = 1
    Incremental = TRUE
    MaxEntities = 1
    MixedId <- MCMixedId
    Cycle = 6
    Bands = {1, 2, 3}
    MayFail = FALSE
INVARIANTS
    DueWorkServiced
