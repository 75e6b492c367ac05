----------------------------- MODULE ConsoleProofs -----------------------------
(***************************************************************************)
(* printf's cursor, for any screen, any strings, and any number of threads *)
(* and handlers.                                                           *)
(***************************************************************************)
EXTENDS Console, TLAPS

\* Labels of a printer that has yet to compare x with the width, or to reset it.
TestsX == {"feed", "feedload", "feedstore", "row", "column", "loadx", "storex", "testx",
           "wrap", "clear", "rows", "left", "columns", "blankrow", "blank", "columnload",
           "columnstore", "rowload", "rowstore", "homex"}

\* The same of y and the height.
TestsY == TestsX \cup {"wrapload", "wrapstore", "testy", "homey"}

Labels == TestsY \cup {"call", "absent", "next", "returned"}

ConsoleType ==
    /\ cursor \in [x : 0 .. 255, y : 0 .. 255]
    /\ pc \in [Printers -> Labels]
    /\ register \in [Printers -> 0 .. 255]

\* Who moves the cursor beyond an edge comes to a test of it, and every step past the
\* test, of whichever printer, leaves the cursor inside that edge.
CursorInv ==
    /\ ConsoleType
    /\ cursor.x >= Width => \E p \in Printers : pc[p] \in TestsX
    /\ cursor.y >= Height => \E p \in Printers : pc[p] \in TestsY

LEMMA ConsoleConstants == Width \in 1 .. 128 /\ Height \in 1 .. 128
  BY ConsoleAssumption

LEMMA InitCursor == Init => CursorInv
  BY ConsoleConstants DEF Init, CursorInv, ConsoleType, Labels

-----------------------------------------------------------------------------
(* The steps *)

\* The step takes p to the label, and leaves x, y in the cursor and r in its register.
Leaves(p, label, x, y, r) ==
    /\ cursor'.x = x /\ cursor'.y = y
    /\ pc'[p] = label
    /\ register'[p] = r

Others(p) ==
    /\ ConsoleType'
    /\ \A q \in Printers \ {p} : pc'[q] = pc[q] /\ register'[q] = register[q]

Incremented(p) == (register[p] + 1) % 256

LEMMA SetX ==
    ASSUME ConsoleType, NEW p \in Printers, NEW label \in Labels, NEW value \in Int,
           Set(p, "x", value, label)
    PROVE  Others(p) /\ Leaves(p, label, value % 256, cursor.y, 0)
  BY SMTT(60) DEF Set, Goto, Leaves, Others, ConsoleType

LEMMA SetY ==
    ASSUME ConsoleType, NEW p \in Printers, NEW label \in Labels, NEW value \in Int,
           Set(p, "y", value, label)
    PROVE  Others(p) /\ Leaves(p, label, cursor.x, value % 256, 0)
  BY DEF Set, Goto, Leaves, Others, ConsoleType

LEMMA LoadX ==
    ASSUME ConsoleType, NEW p \in Printers, NEW label \in Labels, Load(p, "x", label)
    PROVE  Others(p) /\ Leaves(p, label, cursor.x, cursor.y, cursor.x)
  BY DEF Load, Goto, Leaves, Others, ConsoleType

LEMMA LoadY ==
    ASSUME ConsoleType, NEW p \in Printers, NEW label \in Labels, Load(p, "y", label)
    PROVE  Others(p) /\ Leaves(p, label, cursor.x, cursor.y, cursor.y)
  BY DEF Load, Goto, Leaves, Others, ConsoleType

LEMMA Puts ==
    ASSUME ConsoleType, NEW p \in Printers, NEW label \in Labels, Put(p, label)
    PROVE  Others(p) /\ Leaves(p, label, cursor.x, cursor.y, 0)
  BY DEF Put, Goto, Leaves, Others, ConsoleType

LEMMA Stays ==
    ASSUME ConsoleType, NEW p \in Printers, NEW label \in Labels, Goto(p, label),
           UNCHANGED <<cursor, register>>
    PROVE  Others(p) /\ Leaves(p, label, cursor.x, cursor.y, register[p])
  BY DEF Goto, Leaves, Others, ConsoleType

\* What each group of steps does, in these terms.
CharacterSteps(p) ==
    \/ pc[p] = "call" /\ Leaves(p, "next", cursor.x, cursor.y, register[p])
    \/ pc[p] = "next" /\ Leaves(p, "returned", cursor.x, cursor.y, register[p])
    \/ pc[p] = "next" /\ Leaves(p, "feed", cursor.x, cursor.y, register[p])
    \/ pc[p] = "next" /\ Leaves(p, "row", cursor.x, cursor.y, register[p])
    \/ pc[p] = "feed" /\ Leaves(p, "feedload", 0, cursor.y, 0)
    \/ pc[p] = "feedload" /\ Leaves(p, "feedstore", cursor.x, cursor.y, cursor.y)
    \/ pc[p] = "feedstore" /\ Leaves(p, "testx", cursor.x, Incremented(p), 0)
    \/ pc[p] = "row" /\ Leaves(p, "column", cursor.x, cursor.y, cursor.y)
    \/ pc[p] = "column" /\ Leaves(p, "loadx", cursor.x, cursor.y, 0)
    \/ pc[p] = "loadx" /\ Leaves(p, "storex", cursor.x, cursor.y, cursor.x)
    \/ pc[p] = "storex" /\ Leaves(p, "testx", Incremented(p), cursor.y, 0)

WrapSteps(p) ==
    \/ pc[p] = "testx" /\ cursor.x >= Width
          /\ Leaves(p, "wrap", cursor.x, cursor.y, register[p])
    \/ pc[p] = "testx" /\ cursor.x < Width
          /\ Leaves(p, "testy", cursor.x, cursor.y, register[p])
    \/ pc[p] = "wrap" /\ Leaves(p, "wrapload", 0, cursor.y, 0)
    \/ pc[p] = "wrapload" /\ Leaves(p, "wrapstore", cursor.x, cursor.y, cursor.y)
    \/ pc[p] = "wrapstore" /\ Leaves(p, "testy", cursor.x, Incremented(p), 0)
    \/ pc[p] = "testy" /\ cursor.y >= Height
          /\ Leaves(p, "clear", cursor.x, cursor.y, register[p])
    \/ pc[p] = "testy" /\ cursor.y < Height
          /\ Leaves(p, "next", cursor.x, cursor.y, register[p])

ClearSteps(p) ==
    \/ pc[p] = "clear" /\ Leaves(p, "rows", cursor.x, 0, 0)
    \/ pc[p] = "rows" /\ cursor.y < Height
          /\ Leaves(p, "left", cursor.x, cursor.y, register[p])
    \/ pc[p] = "rows" /\ cursor.y >= Height
          /\ Leaves(p, "homex", cursor.x, cursor.y, register[p])
    \/ pc[p] = "left" /\ Leaves(p, "columns", 0, cursor.y, 0)
    \/ pc[p] = "columns" /\ cursor.x < Width
          /\ Leaves(p, "blankrow", cursor.x, cursor.y, register[p])
    \/ pc[p] = "columns" /\ cursor.x >= Width
          /\ Leaves(p, "rowload", cursor.x, cursor.y, register[p])
    \/ pc[p] = "blankrow" /\ Leaves(p, "blank", cursor.x, cursor.y, cursor.y)
    \/ pc[p] = "blank" /\ Leaves(p, "columnload", cursor.x, cursor.y, 0)
    \/ pc[p] = "columnload" /\ Leaves(p, "columnstore", cursor.x, cursor.y, cursor.x)
    \/ pc[p] = "columnstore" /\ Leaves(p, "columns", Incremented(p), cursor.y, 0)
    \/ pc[p] = "rowload" /\ Leaves(p, "rowstore", cursor.x, cursor.y, cursor.y)
    \/ pc[p] = "rowstore" /\ Leaves(p, "rows", cursor.x, Incremented(p), 0)
    \/ pc[p] = "homex" /\ Leaves(p, "homey", 0, cursor.y, 0)
    \/ pc[p] = "homey" /\ Leaves(p, "next", cursor.x, 0, 0)

LEMMA StepLeaves ==
    ASSUME ConsoleType, NEW p \in Printers, Step(p)
    PROVE  Others(p) /\ (CharacterSteps(p) \/ WrapSteps(p) \/ ClearSteps(p))
<1>1. cursor.x \in Int /\ cursor.y \in Int /\ register[p] + 1 \in Int /\ 0 % 256 = 0
  BY DEF ConsoleType
<1>2. /\ Labels = TestsY \cup {"call", "absent", "next", "returned"}
      /\ TestsX \subseteq Labels
      /\ {"wrapload", "wrapstore", "testy", "homey", "next", "returned"} \subseteq Labels
  BY DEF Labels, TestsX, TestsY
<1>3. ASSUME NextCharacter(p) PROVE Others(p) /\ CharacterSteps(p)
  BY <1>2, <1>3, Stays DEF NextCharacter, Branch, CharacterSteps, TestsX
<1>4. ASSUME Feed(p) PROVE Others(p) /\ CharacterSteps(p)
  BY <1>1, <1>2, <1>4, SetX, SetY, LoadY
     DEF Feed, Zero, Increment, Incremented, CharacterSteps, TestsX
<1>5. ASSUME Character(p) PROVE Others(p) /\ CharacterSteps(p)
  BY <1>1, <1>2, <1>5, SetX, LoadX, LoadY, Puts
     DEF Character, Increment, Incremented, CharacterSteps, TestsX
<1>6. ASSUME Wrap(p) PROVE Others(p) /\ WrapSteps(p)
  BY <1>1, <1>2, <1>6, ConsoleConstants, SetX, SetY, LoadY, Stays
     DEF Wrap, Zero, Increment, Incremented, Branch, Over, WrapSteps, TestsX
<1>7. ASSUME Clear(p) PROVE Others(p) /\ ClearSteps(p)
  BY <1>1, <1>2, <1>7, ConsoleConstants, SetX, SetY, LoadX, LoadY, Puts, Stays
     DEF Clear, ColumnDone, Zero, Increment, Incremented, Branch, ClearSteps, TestsX
<1> QED
  BY <1>3, <1>4, <1>5, <1>6, <1>7 DEF Step

-----------------------------------------------------------------------------
(* The cursor is on the screen *)

LEMMA CursorInductive == CursorInv /\ [Next]_vars => CursorInv'
<1> SUFFICES ASSUME CursorInv, [Next]_vars PROVE CursorInv'
  OBVIOUS
<1>1. ASSUME UNCHANGED vars PROVE CursorInv'
  BY <1>1 DEF vars, CursorInv, ConsoleType
<1>2. ASSUME NEW p \in Printers, Step(p) PROVE CursorInv'
  <2>1. ConsoleType
    BY DEF CursorInv
  <2>2. CharacterSteps(p) \/ WrapSteps(p) \/ ClearSteps(p)
    BY <1>2, <2>1, StepLeaves
  \* p leaves the labels before the test of x only with x inside the edge
  <2>3. /\ ConsoleType'
        /\ \A q \in Printers \ {p} : pc'[q] = pc[q]
    BY <1>2, <2>1, StepLeaves DEF Others
  <2> /\ cursor.x \in 0 .. 255 /\ cursor.y \in 0 .. 255
    BY <2>1 DEF ConsoleType
  <2>4. \/ pc'[p] \in TestsX
        \/ cursor'.x < Width
        \/ pc[p] \notin TestsX /\ cursor'.x = cursor.x
    BY <2>2, ConsoleConstants
       DEF CharacterSteps, WrapSteps, ClearSteps, Leaves, TestsX
  <2>5. \/ pc'[p] \in TestsY
        \/ cursor'.y < Height
        \/ pc[p] \notin TestsY /\ cursor'.y = cursor.y
    BY <2>2, ConsoleConstants
       DEF CharacterSteps, WrapSteps, ClearSteps, Leaves, TestsX, TestsY
  <2>6. cursor'.x \in Int /\ cursor'.y \in Int /\ Width \in Int /\ Height \in Int
    BY <2>3, ConsoleConstants DEF ConsoleType
  <2>7. cursor'.x >= Width => \E q \in Printers : pc'[q] \in TestsX
    BY <2>3, <2>4, <2>5, <2>6 DEF CursorInv
  <2>8. cursor'.y >= Height => \E q \in Printers : pc'[q] \in TestsY
    BY <2>3, <2>4, <2>5, <2>6 DEF CursorInv
  <2> QED
    BY <2>3, <2>7, <2>8 DEF CursorInv
<1> QED
  BY <1>1, <1>2 DEF Next

\* Whenever no printer is between two accesses the cursor is on the screen, however
\* many threads and handlers print at once.
THEOREM CursorReturns == Spec => []CursorOnScreen
<1>1. Init => CursorInv
  BY InitCursor
<1>2. CursorInv => CursorOnScreen
  BY ConsoleConstants
     DEF CursorInv, ConsoleType, CursorOnScreen, Inside, TestsX, TestsY
<1> QED
  BY <1>1, <1>2, CursorInductive, PTL DEF Spec

-----------------------------------------------------------------------------
(* One thread with handlers *)

\* Where the cursor can be while the printer at the label runs.  The slack is 0 for
\* the thread, 1 for a handler, which finds what the thread left between two steps.
XWithin(label, x, slack) ==
    /\ label \in {"testx", "wrap"} => x <= Width + slack
    /\ label \in {"call", "absent", "returned", "next", "feed", "row", "column", "loadx",
                  "storex"} => x < Width + slack
    /\ label \in {"rows", "left", "columns", "rowload", "rowstore", "homex"} => x <= Width
    /\ label \in {"feedload", "feedstore", "wrapload", "wrapstore", "testy", "clear",
                  "blankrow", "blank", "columnload", "columnstore", "homey"} => x < Width

YWithin(label, y, slack) ==
    /\ label \in {"testx", "testy", "clear"} => y <= Height + slack
    /\ label \in {"call", "absent", "returned", "next", "feed", "row", "column", "loadx",
                  "storex", "feedload", "feedstore", "wrap", "wrapload", "wrapstore"} =>
          y < Height + slack
    /\ label \in {"rows", "homex", "homey"} => y <= Height
    /\ label \in {"left", "columns", "rowload", "rowstore", "blankrow", "blank",
                  "columnload", "columnstore"} => y < Height

Within(label, x, y, slack) ==
    /\ XWithin(label, x, slack)
    /\ YWithin(label, y, slack)
    /\ label = "testx" => x < Width \/ y < Height + slack

\* What its register holds.
Holds(label, r, slack) ==
    /\ label \in {"column", "feedstore", "wrapstore"} => r < Height + slack
    /\ label \in {"blank", "rowstore"} => r < Height
    /\ label = "storex" => r < Width + slack
    /\ label = "columnstore" => r < Width

OnScreen == cursor.x < Width /\ cursor.y < Height

\* A step of a printer that finds the cursor as it left it.
LEMMA StepWithin ==
    ASSUME ConsoleType, NEW p \in Printers, NEW slack \in {0, 1}, Step(p),
           Within(pc[p], cursor.x, cursor.y, slack), Holds(pc[p], register[p], slack)
    PROVE  /\ Within(pc'[p], cursor'.x, cursor'.y, slack)
           /\ Holds(pc'[p], register'[p], slack)
           /\ pc'[p] = "next" /\ pc[p] # "call" => OnScreen'
           /\ pc'[p] \in {"next", "returned"} /\ pc[p] \in {"call", "next"} =>
                 cursor'.x = cursor.x /\ cursor'.y = cursor.y
<1>1. CharacterSteps(p) \/ WrapSteps(p) \/ ClearSteps(p)
  BY StepLeaves
<1>2. cursor.x \in 0 .. 255 /\ cursor.y \in 0 .. 255 /\ register[p] \in 0 .. 255
  BY DEF ConsoleType
<1>3. Incremented(p) \in 0 .. 255
      /\ (register[p] < 255 => Incremented(p) = register[p] + 1)
  BY <1>2 DEF Incremented
<1>4. slack \in Int /\ slack >= 0 /\ Width + slack < 255 /\ Height + slack < 255
  BY ConsoleConstants
<1> USE <1>2, <1>3, <1>4, ConsoleConstants
    DEF CharacterSteps, WrapSteps, ClearSteps, Leaves
<1>5. Within(pc'[p], cursor'.x, cursor'.y, slack)
  <2> USE DEF Within, XWithin, YWithin, Holds
  <2>1. CASE CharacterSteps(p)
    <3>1. CASE pc[p] = "call"
      BY <2>1, <3>1
    <3>2. CASE pc[p] = "next"
      BY <2>1, <3>2
    <3>3. CASE pc[p] = "feed"
      BY <2>1, <3>3
    <3>4. CASE pc[p] = "feedload"
      BY <2>1, <3>4
    <3>5. CASE pc[p] = "feedstore"
      BY <2>1, <3>5, SMTT(60)
    <3>6. CASE pc[p] = "row"
      BY <2>1, <3>6
    <3>7. CASE pc[p] = "column"
      BY <2>1, <3>7
    <3>8. CASE pc[p] = "loadx"
      BY <2>1, <3>8
    <3>9. CASE pc[p] = "storex"
      BY <2>1, <3>9, SMTT(60)
    <3> HIDE DEF Within, Leaves
    <3> QED
      BY <2>1, <3>1, <3>2, <3>3, <3>4, <3>5, <3>6, <3>7, <3>8, <3>9
  <2>2. CASE WrapSteps(p)
    <3>1. CASE pc[p] = "testx"
      BY <2>2, <3>1, SMTT(60)
    <3>2. CASE pc[p] = "wrap"
      BY <2>2, <3>2
    <3>3. CASE pc[p] = "wrapload"
      BY <2>2, <3>3
    <3>4. CASE pc[p] = "wrapstore"
      BY <2>2, <3>4
    <3>5. CASE pc[p] = "testy"
      BY <2>2, <3>5, SMTT(60)
    <3> HIDE DEF Within, Leaves
    <3> QED
      BY <2>2, <3>1, <3>2, <3>3, <3>4, <3>5
  <2>3. CASE ClearSteps(p)
    <3>1. CASE pc[p] = "clear"
      BY <2>3, <3>1, SMTT(60)
    <3>2. CASE pc[p] = "rows"
      BY <2>3, <3>2
    <3>3. CASE pc[p] = "left"
      BY <2>3, <3>3
    <3>4. CASE pc[p] = "columns"
      BY <2>3, <3>4
    <3>5. CASE pc[p] = "blankrow"
      BY <2>3, <3>5
    <3>6. CASE pc[p] = "blank"
      BY <2>3, <3>6
    <3>7. CASE pc[p] = "columnload"
      BY <2>3, <3>7
    <3>8. CASE pc[p] = "columnstore"
      BY <2>3, <3>8, SMTT(60)
    <3>9. CASE pc[p] = "rowload"
      BY <2>3, <3>9
    <3>10. CASE pc[p] = "rowstore"
      BY <2>3, <3>10, SMTT(60)
    <3>11. CASE pc[p] = "homex"
      BY <2>3, <3>11
    <3>12. CASE pc[p] = "homey"
      BY <2>3, <3>12
    <3> HIDE DEF Within, Leaves
    <3> QED
      BY <2>3, <3>1, <3>2, <3>3, <3>4, <3>5, <3>6, <3>7, <3>8, <3>9, <3>10, <3>11, <3>12
  <2> HIDE DEF Within, CharacterSteps, WrapSteps, ClearSteps
  <2> QED
    BY <1>1, <2>1, <2>2, <2>3
<1>6. Holds(pc'[p], register'[p], slack)
  BY <1>1 DEF Within, XWithin, YWithin, Holds
<1>7. pc'[p] = "next" /\ pc[p] # "call" => OnScreen'
  BY <1>1 DEF Within, XWithin, YWithin, OnScreen
<1>8. pc'[p] \in {"next", "returned"} /\ pc[p] \in {"call", "next"} =>
         cursor'.x = cursor.x /\ cursor'.y = cursor.y
  BY <1>1
<1> QED
  BY <1>5, <1>6, <1>7, <1>8

LEMMA NotAbsent ==
    ASSUME ConsoleType, NEW p \in Printers, Step(p)
    PROVE  pc[p] # "absent" /\ pc'[p] # "absent"
  BY StepLeaves DEF CharacterSteps, WrapSteps, ClearSteps, Leaves

\* A cursor on the screen suits a printer at any label, ...
LEMMA OnScreenWithin ==
    ASSUME ConsoleType, OnScreen, NEW label \in Labels
    PROVE  Within(label, cursor.x, cursor.y, 0)
  BY ConsoleConstants DEF ConsoleType, OnScreen, Within, XWithin, YWithin

\* ... and what the thread leaves suits a handler that comes in.
LEMMA WithinNext ==
    ASSUME ConsoleType, NEW label \in Labels, Within(label, cursor.x, cursor.y, 0)
    PROVE  Within("next", cursor.x, cursor.y, 1)
<1>1. cursor.x <= Width /\ cursor.y <= Height
  BY ConsoleConstants
     DEF ConsoleType, Within, XWithin, YWithin, Labels, TestsX, TestsY
<1> QED
  BY <1>1, ConsoleConstants DEF ConsoleType, Within, XWithin, YWithin

Alone(t) == \A u \in Threads \ {t} : pc[u] = "absent"

\* The handler that runs; before the next character it has the cursor as it left it or as
\* it found it.
Interrupts(h, t) ==
    /\ Holds(pc[h], register[h], 1)
    /\ Within(pc[h], cursor.x, cursor.y, 1)
    /\ pc[h] = "next" => OnScreen \/ Within(pc[t], cursor.x, cursor.y, 0)
    /\ \A g \in Handlers \ {h} : ~Inside(g)

Near(t) ==
    /\ Holds(pc[t], register[t], 0)
    /\ (\A h \in Handlers : ~Inside(h)) => Within(pc[t], cursor.x, cursor.y, 0)
    /\ \A h \in Handlers : Inside(h) => Interrupts(h, t)

\* The cursor is where the label of the one thread says, but for the handler that
\* interrupts it between two steps; that handler leaves it as it was or on the screen.
NearInv == ConsoleType /\ \A t \in Threads : Alone(t) => Near(t)

\* A step of the thread: no handler is inside.
LEMMA ThreadNear ==
    ASSUME ConsoleType, NEW t \in Threads, Step(t), Near(t)
    PROVE  Near(t)'
<1>1. t \in Printers /\ t \notin Handlers /\ Handlers \subseteq Printers \ {t}
  BY ConsoleAssumption DEF Printers
<1>2. \A h \in Handlers : ~Inside(h) /\ ~Inside(h)'
  BY <1>1, StepLeaves DEF Step, Runs, Others, Inside
<1>3. Within(pc[t], cursor.x, cursor.y, 0) /\ Holds(pc[t], register[t], 0)
  BY <1>2 DEF Near
<1>4. Within(pc'[t], cursor'.x, cursor'.y, 0) /\ Holds(pc'[t], register'[t], 0)
  BY <1>1, <1>3, StepWithin
<1> QED
  BY <1>2, <1>4 DEF Near

\* A step of a handler: one that comes in finds what the thread left, and one that
\* returns leaves what it found, or the cursor on the screen.
LEMMA HandlerNear ==
    ASSUME ConsoleType, NEW t \in Threads, NEW h \in Handlers, Step(h), Near(t)
    PROVE  Near(t)'
<1>1. h \in Printers /\ t \in Printers \ {h} /\ Handlers \subseteq Printers
  BY ConsoleAssumption DEF Printers
<1>2. ConsoleType' /\ pc'[t] = pc[t] /\ register'[t] = register[t]
  BY <1>1, StepLeaves DEF Others
<1>3. \A g \in Handlers \ {h} : ~Inside(g) /\ ~Inside(g)'
  BY <1>1, StepLeaves DEF Step, Runs, Others, Inside
<1>4. pc[t] \in Labels /\ pc'[t] \in Labels /\ pc[h] \in Labels
  BY <1>1, <1>2 DEF ConsoleType
<1>5. Within(pc[h], cursor.x, cursor.y, 1) /\ Holds(pc[h], register[h], 1)
      /\ (pc[h] \in {"call", "next"} => OnScreen \/ Within(pc[t], cursor.x, cursor.y, 0))
  <2>1. CASE Inside(h)
    BY <2>1 DEF Near, Interrupts, Inside
  <2>2. CASE ~Inside(h)
    <3>1. Within(pc[t], cursor.x, cursor.y, 0)
      BY <1>3, <2>2 DEF Near
    <3>2. Within("next", cursor.x, cursor.y, 1)
      BY <1>4, <3>1, WithinNext
    <3>3. pc[h] = "call"
      BY <1>1, <2>2, StepLeaves
         DEF Inside, CharacterSteps, WrapSteps, ClearSteps
    <3> QED
      BY <3>1, <3>2, <3>3 DEF Within, XWithin, YWithin, Holds
  <2> QED
    BY <2>1, <2>2
<1>6. /\ Within(pc'[h], cursor'.x, cursor'.y, 1)
      /\ Holds(pc'[h], register'[h], 1)
      /\ pc'[h] = "next" /\ pc[h] # "call" => OnScreen'
      /\ pc'[h] \in {"next", "returned"} /\ pc[h] \in {"call", "next"} =>
            cursor'.x = cursor.x /\ cursor'.y = cursor.y
  BY <1>1, <1>5, StepWithin
<1>7. pc'[h] = "returned" => pc[h] = "next"
  BY <1>1, StepLeaves DEF CharacterSteps, WrapSteps, ClearSteps, Leaves
<1>8. pc'[h] \in {"next", "returned"} => OnScreen' \/ Within(pc'[t], cursor'.x, cursor'.y, 0)
  <2> HIDE DEF Within
  <2> QED
    BY <1>2, <1>5, <1>6, <1>7 DEF OnScreen
<1>9. Inside(h)' => Interrupts(h, t)'
  BY <1>3, <1>6, <1>8 DEF Interrupts
<1>10. (\A g \in Handlers : ~Inside(g)') => Within(pc'[t], cursor'.x, cursor'.y, 0)
  <2> SUFFICES ASSUME ~Inside(h)'
               PROVE  Within(pc'[t], cursor'.x, cursor'.y, 0)
    OBVIOUS
  <2>1. pc'[h] = "returned"
    BY <1>1, StepLeaves DEF Inside, CharacterSteps, WrapSteps, ClearSteps, Leaves
  <2>2. OnScreen' => Within(pc'[t], cursor'.x, cursor'.y, 0)
    BY <1>2, <1>4, ConsoleConstants, SMTT(60)
       DEF ConsoleType, OnScreen, Within, XWithin, YWithin
  <2> QED
    BY <2>1, <2>2, <1>8
<1> QED
  BY <1>2, <1>3, <1>9, <1>10 DEF Near

LEMMA NearInductive == NearInv /\ [Next]_vars => NearInv'
<1> SUFFICES ASSUME NearInv, [Next]_vars PROVE NearInv'
  OBVIOUS
<1>1. ASSUME UNCHANGED vars PROVE NearInv'
  <2> SUFFICES ASSUME NEW t \in Threads, Alone(t)' PROVE Near(t)'
    BY <1>1 DEF vars, NearInv, ConsoleType
  <2>1. Near(t)
    BY <1>1 DEF vars, NearInv, Alone
  <2> QED
    BY <1>1, <2>1 DEF vars, Near, Interrupts, Inside, OnScreen
<1>2. ASSUME NEW p \in Printers, Step(p) PROVE NearInv'
  <2>1. ConsoleType
    BY DEF NearInv
  <2>2. ConsoleType' /\ \A q \in Printers \ {p} : pc'[q] = pc[q]
    BY <1>2, <2>1, StepLeaves DEF Others
  <2> SUFFICES ASSUME NEW t \in Threads, Alone(t)' PROVE Near(t)'
    BY <2>2 DEF NearInv
  <2>3. pc[p] # "absent" /\ pc'[p] # "absent"
    BY <1>2, <2>1, NotAbsent
  <2>4. p \notin Threads \ {t} /\ Alone(t)
    BY <2>2, <2>3 DEF Alone, Printers
  <2>5. Near(t)
    BY <2>4 DEF NearInv
  <2> QED
    BY <1>2, <2>1, <2>4, <2>5, ThreadNear, HandlerNear DEF Printers
<1> QED
  BY <1>1, <1>2 DEF Next

LEMMA InitNear == Init => NearInv
<1> SUFFICES ASSUME Init PROVE NearInv
  OBVIOUS
<1>1. ConsoleType
  BY InitCursor DEF CursorInv
<1>2. OnScreen
  BY ConsoleConstants DEF Init, OnScreen
<1> SUFFICES ASSUME NEW t \in Threads PROVE Near(t)
  BY <1>1 DEF NearInv
<1>3. pc[t] \in {"call", "absent"} /\ \A h \in Handlers : ~Inside(h)
  BY DEF Init, Printers, Inside
<1>4. Within(pc[t], cursor.x, cursor.y, 0)
  BY <1>1, <1>2, <1>3, OnScreenWithin DEF Labels
<1> QED
  BY <1>3, <1>4 DEF Near, Holds

LEMMA LastCell ==
    ASSUME NEW r \in Nat, NEW x \in Nat, r <= Height, x <= Width
    PROVE  Width * r + x <= Width * (Height + 1)
<1>1. Width * (Height - r) >= 0
  BY ConsoleConstants
<1>2. Width * (Height - r) = Width * Height - Width * r
      /\ Width * (Height + 1) = Width * Height + Width
  BY ConsoleConstants
<1>3. Width * r \in Int /\ Width * Height \in Int
  BY ConsoleConstants
<1> QED
  BY <1>1, <1>2, <1>3, ConsoleConstants

LEMMA NearStores == NearInv => StoresNear
<1> SUFFICES ASSUME NearInv, NEW t \in Threads, Alone(t), NEW p \in Printers,
                    pc[p] \in {"column", "blank"}, Runs(p)
             PROVE  Cell(p) <= Width * (Height + 1)
  BY DEF StoresNear, Alone
<1>1. Near(t) /\ Inside(p) /\ cursor.x \in Nat /\ register[p] \in Nat
  BY DEF NearInv, ConsoleType, Inside
<1>2. register[p] <= Height /\ cursor.x <= Width
  <2>1. CASE p \in Handlers
    <3>1. Holds(pc[p], register[p], 1) /\ Within(pc[p], cursor.x, cursor.y, 1)
      BY <1>1, <2>1 DEF Near, Interrupts
    <3> QED
      BY <1>1, <3>1, ConsoleConstants DEF Holds, Within, XWithin
  <2>2. CASE p \notin Handlers
    <3>1. p = t /\ \A h \in Handlers : ~Inside(h)
      BY <2>2 DEF Printers, Alone, Runs
    <3>2. Holds(pc[p], register[p], 0) /\ Within(pc[p], cursor.x, cursor.y, 0)
      BY <1>1, <3>1 DEF Near
    <3> QED
      BY <1>1, <3>2, ConsoleConstants DEF Holds, Within, XWithin
  <2> QED
    BY <2>1, <2>2
<1> QED
  BY <1>1, <1>2, LastCell DEF Cell

\* One thread that prints, and any handlers that print between its steps, store no
\* character further than the cell behind the row below the screen.
THEOREM PrintsNear == Spec => []StoresNear
<1> QED
  BY InitNear, NearInductive, NearStores, PTL DEF Spec
=============================================================================
