SPECIFICATION PartSpec
CONSTANTS
    Capacity = 2
    MaxGroupBytes = 6
    MaxChunksPerGroup = 3
    MaxInFlightGroups = 3
    MaxIncompleteBytes = 10
    ReassemblyTimeout = 2
    GroupSizes <- MCGroupSizes
    ForeignPackets <- MCForeignPackets
    MaxPayload = 5
    ClientLimit = 6
    MaxGroup = 9
    Header = 2
    Envelope = 2
    Overhead = 1
    Sizes = {1, 2, 3, 4, 5, 6, 7, 8, 9, 10}
INVARIANTS
    CompletedIntact
    ReceiverKept
    UpdatesTravel
PROPERTIES
    IntactGroupsStay
    SlotsAreFreed
CHECK_DEADLOCK FALSE
