\* Processes that use set_value only while they are alone.
SPECIFICATION FairSpec
CONSTANTS
    Procs = {parent, child}
    Creator = parent
    Keys = {k1, k2}
    Vals = {v1, v2}
    None = None
    Empty = Empty
    Size = 4
    MaxCalls = 4
    Disciplined = TRUE
INVARIANTS
    TypeOK
    SemaphoreSound
    BlocksDisjoint
PROPERTIES
    MapSpec
    Served
CHECK_DEADLOCK FALSE
