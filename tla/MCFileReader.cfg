\* Cached lookups in mapped files of one to three entries, with the zeros of
\* the last page behind them, another mapping with any key, or nothing.
SPECIFICATION FairSpec
CONSTANTS
    Keys = {0, 1, 2, 3}
    Nodes = {1, 2, 3}
    Files <- SmallFiles
    Sizes = {0, 1, 2}
    Past <- AnyPast
INVARIANTS
    CacheInStep
    SearchWindow
    OverrunOnly
PROPERTIES
    Promise
    SearchEnds
\* The process ends at an unmapped probe or an eviction from nothing.
CHECK_DEADLOCK FALSE
