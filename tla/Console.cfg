\* A screen of 2 by 2 and two characters per printer: two threads can both fill
\* the screen and clear it at once, with a handler in between.
CONSTANTS
    Threads = {a, b}
    Handlers = {h}
    Numbers = {7}
    Width = 2
    Height = 2
    MaxInt = 127
SPECIFICATION FairSpec
INVARIANTS CursorOnScreen StoresNear ItoaRight
PROPERTY PrintfReturns
CHECK_DEADLOCK FALSE
