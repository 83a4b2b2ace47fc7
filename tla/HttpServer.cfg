\* Two threads asked for on a machine that says it has none, one or more;
\* two connections, and descriptors for one of them or for both.
SPECIFICATION FairSpec
CONSTANTS
    Main = Main
    NoThread = NoThread
    Listen = Listen
    MaxThreads = 2
    Threads <- MCThreads
    Requested = 2
    Hardware = {0, 1, 4}
    Conns = {c1, c2}
    QueueSize = 2
    Limits = {1, 2}
    LogLevels = {3}
    MayFail = TRUE
INVARIANTS
    NoLostWakeup
    LogSound
PROPERTIES
    Accepted
CHECK_DEADLOCK FALSE
