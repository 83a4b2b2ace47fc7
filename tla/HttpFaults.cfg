\* Faulty peers, a failing EPOLL_CTL_ADD, a clock that steps, and descriptor
\* numbers that come back; requests and responses in two parts.
SPECIFICATION Spec
CONSTANTS
    Fds = {f1, f2}
    Listen = Listen
    MaxRoutines = 2
    MaxConns = 3
    MaxReqs = 1
    ReqParts = 2
    RespParts = 2
    SndBuf = 1
    FaultyPeers = TRUE
    TimeoutsOn = FALSE
    EpollAddMayFail = TRUE
    ClockMayStall = TRUE
INVARIANTS
    TypeOK
    NoPhantomEvent
    SocketsOwned
PROPERTIES
    CoSpec
    NoSilentClose
CHECK_DEADLOCK FALSE
SYMMETRY FdSymmetry
CONSTRAINT FewLeave
