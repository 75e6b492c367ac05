\* The discipline under which Schedule's cleaning loop is right: at most one
\* terminated thread waits for it at a time.  Safety, liveness and refinement;
\* no symmetry.  The model stops when the kernel has lost its stack.
CONSTANTS
    Thread = {t1, t2, t3}
    Kernel = Kernel
    None = None
    Capacity = 3
    MaxID = 3
    MaxDead = 1
    Recreate = TRUE
    DeviceIrq = FALSE
SPECIFICATION FairSpec
INVARIANT LiveListed
PROPERTIES DeadStaysDead StarvationFree ImplementsScheduler
CHECK_DEADLOCK FALSE
