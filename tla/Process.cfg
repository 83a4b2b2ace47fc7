\* Two children; pipes, fork and exec may fail, children may be killed.
SPECIFICATION FairSpec
CONSTANTS
    N = 2
    Scenarios <- SomeScenarios
    MsgParts = 2
    Cap = 2
    MayFail = TRUE
    MayDie = TRUE
INVARIANTS
    LeavesNothing
    Heard
PROPERTIES
    ParentEnds
CHECK_DEADLOCK FALSE
