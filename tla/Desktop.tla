-------------------------------- MODULE Desktop --------------------------------
(***************************************************************************)
(* The window system (desktop.cpp, window.cpp, widget.cpp) and what it     *)
(* draws with (vga.cpp).  The tree of widgets is a constant; a point is a  *)
(* pair of coordinates.                                                    *)
(*                                                                         *)
(* The drivers call it from interrupt handlers, several calls in one       *)
(* handler: the calls are operators from a state of the desktop to the     *)
(* next, and Devices.tla composes them.                                    *)
(***************************************************************************)
EXTENDS Integers, SequencesExt

CONSTANTS
    Root,       \* the desktop, root of the tree
    children,   \* of the desktop and of each window, the one on top first
    Place,      \* where a widget is created, relative to its parent
    Size,       \* w and h of each widget
    None

Widget == DOMAIN Size
Composite == DOMAIN children
Window == Composite \ {Root}
Point == Int \X Int

ASSUME DesktopAssumption ==
    /\ Root \in Composite
    /\ Composite \subseteq Widget
    /\ Place \in [Widget -> Point]
    /\ Size \in [Widget -> (Nat \ {0}) \X (Nat \ {0})]
    /\ \A c \in Composite : ToSet(children[c]) \subseteq Widget \ {Root}
    \* a child lies within its window
    /\ \A c \in Window : \A w \in ToSet(children[c]) : \A k \in 1 .. 2 :
          Place[w][k] >= 0 /\ Place[w][k] + Size[w][k] <= Size[c][k]

VARIABLE desktop    \* Mouse: MouseX and MouseY; at: x and y of each widget;
                    \* Dragging, focussedChild: the fields of that name;
                    \* pressed: the last plain widget pressed (history)

Desktops == [Mouse : Point, at : [Widget -> Point], Dragging : [Window -> BOOLEAN],
             focussedChild : [Composite -> Widget \cup {None}],
             pressed : Widget \cup {None}]

DesktopInit ==
    desktop = [Mouse |-> <<Size[Root][1] \div 2, Size[Root][2] \div 2>>,
               at |-> Place,
               Dragging |-> [w \in Window |-> FALSE],
               focussedChild |-> [c \in Composite |-> None],
               pressed |-> None]

-----------------------------------------------------------------------------
Plus(p, q) == <<p[1] + q[1], p[2] + q[2]>>
Minus(p, q) == <<p[1] - q[1], p[2] - q[2]>>

parent == [w \in Widget \ {Root} |-> CHOOSE c \in Composite : w \in ToSet(children[c])]

\* Is p, relative to the parent of w, in w?
ContainsCoordinate(d, w, p) ==
    \A k \in 1 .. 2 : d.at[w][k] <= p[k] /\ p[k] < d.at[w][k] + Size[w][k]

\* The first child of w that contains p, which is relative to w.
ChildAt(d, w, p) ==
    IF w \notin Composite THEN None
    ELSE LET k == SelectInSeq(children[w], LAMBDA c : ContainsCoordinate(d, c, p))
         IN  IF k = 0 THEN None ELSE children[w][k]

\* The widgets that a press or a release at p goes through, from w down.
Hit(d, w, p) ==
    LET Path[v \in Widget, r \in Point] ==
            LET q == Minus(r, d.at[v])
                c == ChildAt(d, v, q)
            IN  <<v>> \o (IF c = None THEN << >> ELSE Path[c, q])
    IN  Path[w, p]

GetFocus_Kept(focus, w) ==      \* mutant: who has the focus keeps it
    LET Asked[v \in Widget] ==
            IF v = Root \/ focus[parent[v]] # None THEN focus
            ELSE [Asked[parent[v]] EXCEPT ![parent[v]] = v]
    IN  Asked[w]

\* w asks its parent for the focus, and the parent asks its own.
GetFocus(focus, w) ==
    LET Asked[v \in Widget] ==
            IF v = Root THEN focus ELSE [Asked[parent[v]] EXCEPT ![parent[v]] = v]
    IN  Asked[w]

\* Every window that the press goes through is dragged, with the first button;
\* only a plain widget takes the focus.
OnMouseDown(d, button) ==
    LET path == Hit(d, Root, d.Mouse)
        clicked == [d EXCEPT !.Dragging =
                       [w \in Window |-> IF w \in ToSet(path) THEN button = 1 ELSE @[w]]]
    IN  IF Last(path) \in Composite THEN clicked
        ELSE [clicked EXCEPT !.focussedChild = GetFocus(@, Last(path)),
                             !.pressed = Last(path)]

OnMouseUp_Ignored(d, button) == d       \* mutant: the window misses the release

OnMouseUp(d, button) ==
    [d EXCEPT !.Dragging = [w \in Window |->
                              @[w] /\ w \notin ToSet(Hit(d, Root, d.Mouse))]]

MovesToo_Same(first, second) ==         \* mutant: firstchild is not compared
    second # None

\* The child under the new position gets the move unless it just got it.
MovesToo(first, second) == second \notin {None, first}

\* A window that is dragged moves along.
Dragged(d, w, move) ==
    IF w \in Window /\ d.Dragging[w] THEN [d EXCEPT !.at[w] = Plus(@, move)] ELSE d

\* A move relative to the parent of w: w moves, then the child under the old
\* position gets it, then the child that is now under the new one.
Moved(d, w, old, new) ==
    LET After[e \in Desktops, v \in Widget, o \in Point, n \in Point] ==
            LET e1 == Dragged(e, v, Minus(n, o))
                from == Minus(o, e1.at[v])
                to == Minus(n, e1.at[v])
                first == ChildAt(e1, v, from)
                e2 == IF first = None THEN e1 ELSE After[e1, first, from, to]
                second == ChildAt(e2, v, to)
            IN  IF MovesToo(first, second) THEN After[e2, second, from, to] ELSE e2
    IN  After[d, w, old, new]

\* Division of C, towards zero.
Quarter(n) == IF n >= 0 THEN n \div 4 ELSE -((-n) \div 4)

Clamp(n, size) == IF n < 0 THEN 0 ELSE IF n >= size THEN size - 1 ELSE n

\* A move of the mouse by x and y, from the driver.
OnMouseMove(d, x, y) ==
    LET new == <<Clamp(d.Mouse[1] + Quarter(x), Size[Root][1]),
                 Clamp(d.Mouse[2] + Quarter(y), Size[Root][2])>>
    IN  [Moved(d, Root, d.Mouse, new) EXCEPT !.Mouse = new]

\* The widget at the end of the chain of focussed children gets the key.
OnKeyDown(d, w) ==
    LET Receiver[v \in Widget \cup {None}] ==
            IF v \in Composite THEN Receiver[d.focussedChild[v]] ELSE v
    IN  Receiver[w]

-----------------------------------------------------------------------------
(* What is drawn *)

LastFirst_Forward(s) == s               \* mutant: the top window is drawn first

LastFirst(s) == Reverse(s)

DrawOrder[w \in Widget] ==
    <<w>> \o IF w \notin Composite THEN << >>
             ELSE FlattenSeq([k \in DOMAIN children[w] |->
                                DrawOrder[LastFirst(children[w])[k]]])

Order == DrawOrder[Root]

ModelToScreen(d, w) ==
    LET Corner[v \in Widget] ==
            IF v = Root THEN d.at[v] ELSE Plus(d.at[v], Corner[parent[v]])
    IN  Corner[w]

\* FillRectangle's coordinates are unsigned: a rectangle that begins left of the
\* screen, or above it, and ends on it has its end before its beginning.
Straddles(corner, w) == \E k \in 1 .. 2 : corner[k] < 0 /\ corner[k] + Size[w][k] >= 0

\* Does the rectangle of w, with this corner on the screen, cover p?
FillRectangle(corner, w, p) ==
    /\ ~Straddles(corner, w)
    /\ \A k \in 1 .. 2 : corner[k] <= p[k] /\ p[k] < corner[k] + Size[w][k]

\* The corner of each widget on the screen.
Corners(d) == [w \in Widget |-> ModelToScreen(d, w)]

\* The widget whose colour the pixel p has after Draw (the mouse pointer apart).
Draw(corners, p) ==
    Order[SelectLastInSeq(Order, LAMBDA w : FillRectangle(corners[w], w, p))]

Pixels == (0 .. Size[Root][1] - 1) \X (0 .. Size[Root][2] - 1)

-----------------------------------------------------------------------------
(* What the window system should guarantee *)

\* What the user sees is what a press reaches: the widget drawn last at a pixel is
\* the one that Hit finds there, though Draw goes through the children backwards
\* and Hit forwards.  Except for a widget that straddles the left or upper edge
\* of the screen: FillRectangle does not draw it at all.
SeenIsHit ==
    LET corners == Corners(desktop)
    IN  \A p \in Pixels :
           LET w == Last(Hit(desktop, Root, p))
           IN  Draw(corners, p) = w \/ Straddles(corners[w], w)

\* Keys go to the plain widget that was pressed last, in whichever window, and
\* wherever windows have been dragged since: the chain of focussed children leads
\* there from the desktop, and to no widget that had the focus before.
KeysGoToPressed == OnKeyDown(desktop, Root) = desktop.pressed

\* A move of the mouse moves a window with it, once, or not at all, though it
\* is handed to the child under the old and to the child under the new position, and
\* the first may have moved in between.
MovesWithMouse ==
    [][\A w \in Window :
          Minus(desktop'.at[w], desktop.at[w])
              \in {<<0, 0>>, Minus(desktop'.Mouse, desktop.Mouse)}]_desktop
=============================================================================
