SPECIFICATION FairSpec
CONSTANTS
    Deltas = {0, 1, 3, 8}
    FixedDt = 3
    MaxFrameTime = 7
    MaxSteps = 2
    MaxTicks = 3
    MaxFrames = 0
    MaxRuntime = 9
    Viewer = TRUE
    FrameCap = 2
    MaxChanges = 2
CHECK_DEADLOCK FALSE
INVARIANTS
    TimeAccounted
    GridIsOfSnapshot
    PresentationAdjacent
PROPERTIES
    TicksRunInOrder
    StopsWhenAsked
