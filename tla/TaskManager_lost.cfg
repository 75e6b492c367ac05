\* Two threads terminated within one time slice: Schedule loses a third,
\* live one when it stands between them in the run queue.  The model stops when
\* the kernel has lost its stack.
CONSTANTS
    Thread = {t1, t2, t3}
    Kernel = Kernel
    None = None
    Capacity = 3
    MaxID = 3
    MaxDead = 2
    Recreate = FALSE
    DeviceIrq = FALSE
SYMMETRY Symmetry
SPECIFICATION Spec
INVARIANT LiveListed
CHECK_DEADLOCK FALSE
