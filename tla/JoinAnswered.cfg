SPECIFICATION FairSituationSpec
CONSTANTS
    Situations = {"both"}
    p1 = p1
    p2 = p2
    PeerIds = {p1, p2}
    Foreign = {}
    MaxClients = 1
    Synthetic = FALSE
    LastEntity = 1
    MaxBatch = 1
    MaxQueued = 1
CHECK_DEADLOCK FALSE
PROPERTIES
    JoinIsAnswered
