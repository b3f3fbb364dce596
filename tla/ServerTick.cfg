SPECIFICATION PartSpec
CONSTANTS
    Rows = {1, 2, 3}
    Poses = {0, 1, 2, 3}
    Broken = 3
    PlayerPoses = {0, 1}
    NoPlayer = NoPlayer
    Inputs = {0, 1}
    Workers = {1, 2}
    Influence = TRUE
    NoSelection = NoSelection
    PlayerId = PlayerId
    Moved <- MCMoved
    Evaluate <- MCEvaluate
    IsFinite <- MCIsFinite
    MaxTicks = 2
    LastId = 5
    MaxAppended = 2
    MaxHandles = 7
    Sources = {1, 2, 3}
    CoordinatesX = {0, 2, 4}
    CoordinatesY = {0, 3}
    ExtentX = 3
    ExtentY = 3
    CellSizes = {1, 2}
    MaxDenseCells = 4
    WorkerCount = 2
    MaxNeighbors = 1
    Radii = {0, 2}
CHECK_DEADLOCK FALSE
INVARIANTS
    InspectionKept
    GridAnswers
    ScheduleKept
PROPERTIES
    TickIsAtomic
    IndexConsistent
