\* The echo server with faulty peers and close() from the main thread.
SPECIFICATION FairSpec
CONSTANTS
    Fds = {f1, f2}
    Listen = Listen
    MaxConns = 2
    MaxParts = 3
    MsgParts = 2
    SndBuf = 1
    Junk <- SomeJunk
    Closes = TRUE
INVARIANTS
    SocketsOwned
    Watched
PROPERTIES
    HealthyKept
    AllRead
    CloseEndsRun
CHECK_DEADLOCK FALSE
