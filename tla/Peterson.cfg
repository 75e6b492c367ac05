\* Three items; either user may be terminated anywhere.  When both are, or when
\* nobody calls lock any more, the model stops.
CONSTANTS
    MaxItems = 3
    MayDie = TRUE
SPECIFICATION FairSpec
INVARIANTS MutualExclusion TestStaysTrue
PROPERTIES NoOvertaking EntersCriticalSection
CHECK_DEADLOCK FALSE
