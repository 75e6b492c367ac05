\* A device interrupts: the running thread is removed though it has work left.
CONSTANTS
    Thread = {t1, t2, t3}
    Kernel = Kernel
    None = None
    Capacity = 3
    MaxID = 3
    MaxDead = 1
    Recreate = FALSE
    DeviceIrq = TRUE
SYMMETRY Symmetry
SPECIFICATION Spec
PROPERTY UnhandledMeansFinished
CHECK_DEADLOCK FALSE
