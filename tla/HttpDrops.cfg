\* Connections time out after their peer has gone.
SPECIFICATION FairSpec
CONSTANTS
    Fds = {f1, f2}
    Listen = Listen
    MaxRoutines = 6
    MaxConns = 2
    MaxReqs = 0
    ReqParts = 1
    RespParts = 1
    SndBuf = 1
    FaultyPeers = TRUE
    TimeoutsOn = TRUE
    EpollAddMayFail = FALSE
    ClockMayStall = FALSE
INVARIANTS
    IdleTracksConnections
PROPERTIES
    DeadDropped
CHECK_DEADLOCK FALSE
