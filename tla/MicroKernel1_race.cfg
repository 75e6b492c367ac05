\* The timer may tick while a thread sorts its part.
CONSTANTS
    MaxThreads = 5
    JoinedIds = {1, 2, 3, 4}
    Arrays <- EightItems
    TickInSort = TRUE
    StackWords = 40
SPECIFICATION FairKernelSpec
INVARIANT SortsItsPart
CHECK_DEADLOCK FALSE
