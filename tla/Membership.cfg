SPECIFICATION SituationSpec
CONSTANTS
    Situations = {"both", "full", "alien"}
    p1 = p1
    p2 = p2
    PeerIds = {p1, p2}
    Foreign = {}
    MaxClients = 2
    Synthetic = FALSE
    LastEntity = 2
    MaxBatch = 2
    MaxQueued = 1
CHECK_DEADLOCK FALSE
INVARIANTS
    WorldFollowsMembers
    MembersKept
    PauseAgreement
