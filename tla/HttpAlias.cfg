\* Is a connection only ever handled by its own coroutine?
SPECIFICATION Spec
CONSTANTS
    Fds = {f1, f2}
    Listen = Listen
    MaxRoutines = 4
    MaxConns = 2
    MaxReqs = 1
    ReqParts = 1
    RespParts = 1
    SndBuf = 1
    FaultyPeers = TRUE
    TimeoutsOn = FALSE
    EpollAddMayFail = FALSE
    ClockMayStall = FALSE
INVARIANTS
    ServesOwnConnection
CHECK_DEADLOCK FALSE
