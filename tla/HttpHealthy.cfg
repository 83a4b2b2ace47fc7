\* Peers that stay: keep-alive connections, two requests in two parts on each.
SPECIFICATION FairSpec
CONSTANTS
    Fds = {f1, f2}
    Listen = Listen
    MaxRoutines = 8
    MaxConns = 2
    MaxReqs = 2
    ReqParts = 2
    RespParts = 2
    SndBuf = 1
    FaultyPeers = FALSE
    TimeoutsOn = FALSE
    EpollAddMayFail = FALSE
    ClockMayStall = FALSE
INVARIANTS
    OneResponsePerRequest
    PartialRequestKept
PROPERTIES
    Answered
CHECK_DEADLOCK FALSE
