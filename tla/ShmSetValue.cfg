\* Are operations protected when set_value is one of them?
SPECIFICATION Spec
CONSTANTS
    Procs = {parent, child}
    Creator = parent
    Keys = {k1, k2}
    Vals = {v1}
    None = None
    Empty = Empty
    Size = 4
    MaxCalls = 3
    Disciplined = FALSE
INVARIANTS
    OneAtATime
CHECK_DEADLOCK FALSE
