\* Any program on up to three threads.  The model stops when the program ends.
CONSTANTS
    MaxThreads = 3
    JoinedIds = {0, 2}
SPECIFICATION FairSpec
INVARIANTS TypeOK FrontRuns MutexSafety SwitchEnds
PROPERTIES ImplementsThreadMachine NoStarvation
CHECK_DEADLOCK FALSE
