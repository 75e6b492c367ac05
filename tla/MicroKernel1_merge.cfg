\* The three merges of the main thread on the array of init.s.
CONSTANTS
    MaxThreads = 5
    JoinedIds = {1, 2, 3, 4}
    Arrays <- PoolOnly
    TickInSort = FALSE
    StackWords = 40
SPECIFICATION FairKernelSpec
INVARIANT ThreadsSorted
CHECK_DEADLOCK FALSE
