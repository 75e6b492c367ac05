\* A screen of 2 by 2; packets with either button, moves by one pixel, and the
\* bytes that a shifted packet takes for flags.
CONSTANTS
    None = None
    Root = "screen"
    children <- Tree
    Size <- Sizes
    Place <- Places
    Slots = 2
    Functions = 2
    Layouts <- SomeLayouts
    Flags = {8, 9}
    Deltas = {0, 4, 252}
    Keys = {30}
    Bases <- SomeBases
    Limits <- SomeLimits
SPECIFICATION FairSpec
INVARIANTS SegmentsFit EnumerationRight ButtonsInSync DragFollowsMouse SeenIsHit KeysGoToPressed
PROPERTIES MovesWithMouse InterruptsServed
