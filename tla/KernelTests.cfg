\* The five tests as kernelMain sets them up.  Four of them end with the loss of
\* the kernel's stack, where the model stops.
CONSTANTS
    Producer = Producer
    Consumer = Consumer
    Main = Main
    Thread = {Producer, Consumer, Main}
    Kernel = Kernel
    None = None
    Capacity = 3
    MaxID = 3
    MaxDead = 3
    Recreate = FALSE
    DeviceIrq = FALSE
SPECIFICATION FairTestSpec
INVARIANTS JoinedHasStopped ItemProtected
PROPERTY TestsEnd
CHECK_DEADLOCK FALSE
