\* Both microkernels; in the first no tick while a thread sorts: the programs
\* as they are meant.  Three rounds in the second, of which two print.
CONSTANTS
    MaxThreads = 5
    JoinedIds = {1, 2, 3, 4}
    Arrays <- PoolOnly
    TickInSort = FALSE
    StackWords = 40
    Rounds = 3
SPECIFICATION FairMainSpec
INVARIANTS SortsItsPart QuartersBeforeMerge MainSorted LinesApart JoinedAtExit
PROPERTY KernelEnds
CHECK_DEADLOCK FALSE
