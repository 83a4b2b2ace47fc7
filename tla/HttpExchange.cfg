\* Three programs of two requests, both services, the three ways to read, with
\* sizes that are the answer's and others; time-outs and the idle drop at any
\* time they can happen.
SPECIFICATION FairSpec
CONSTANTS
    Programs <- MCPrograms
    Entries <- MCEntries
    AnswerSizes <- MCAnswerSizes
    Services = {"canned", "file"}
    Readers = {"exact", "parse", "end"}
    Cap = 6
    ReadSize = 4
    MayTimeOut = TRUE
    MayDrop = TRUE
INVARIANTS
    FailsForCause
PROPERTIES
    RequestReply
    ClientEnds
CHECK_DEADLOCK FALSE
