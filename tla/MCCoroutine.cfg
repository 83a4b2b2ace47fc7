\* Routines are created, recycled, suspended and resumed in every order.
SPECIFICATION CoSpec
CONSTANTS
    Jobs = {j1, j2}
    MaxRoutines = 4
INVARIANTS
    CoTypeOK
    FinishedQueueSound
    CurrentRuns
    LiveNotRefused
PROPERTIES
    JobsRunToEnd
CHECK_DEADLOCK FALSE
