SPECIFICATION PartSpec
CONSTANTS
    Deltas = {0, 3}
    TickTime = 2
    MaxRuntime = 6
    Viewer = TRUE
    LastTick = 3
    MaxBatch = 2
    MaxPauses = 1
    Aims = {"none", "left", "right"}
    Idle = "none"
    MaxInFlight = 3
    BufferCapacity = 6
    DrainThreshold = 3
    MaxRecords = 20
CHECK_DEADLOCK FALSE
INVARIANTS
    RowsKept
PROPERTIES
    ShownForward
    StopsWithCause
    InputArrives
