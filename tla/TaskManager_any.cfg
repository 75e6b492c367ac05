\* Any program: several threads may be terminated within one time slice, and
\* any device may interrupt.  A device that interrupts before the first tick
\* leaves the model ("wild"), where the system stops.  With more threads than
\* Capacity, AddThread also meets its limit.
CONSTANTS
    Thread = {t1, t2, t3, t4}
    Kernel = Kernel
    None = None
    Capacity = 3
    MaxID = 4
    MaxDead = 3
    Recreate = FALSE
    DeviceIrq = TRUE
SYMMETRY Symmetry
SPECIFICATION Spec
INVARIANTS TypeOK ContextOwnership OneRunning OwnershipInv
PROPERTY RemovesOnlyItsThread
CHECK_DEADLOCK FALSE
