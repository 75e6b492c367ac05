-------------------------------- MODULE Console --------------------------------
(***************************************************************************)
(* printf and printfInt of the x86 kernel (kernel.cpp).  The cursor is     *)
(* static: threads that a tick interrupts in printf, and handlers that     *)
(* print, share it.  Each load and each store of x or y is a step; those   *)
(* that only read a character's colour are left out, all cells having one. *)
(*                                                                         *)
(* A character is its distance from '0'.                                   *)
(***************************************************************************)
EXTENDS Integers, SequencesExt

CONSTANTS
    Threads,        \* each calls printfInt once; switched at any step
    Handlers,       \* so does each of these, with interrupts off
    Numbers,        \* what they print
    Width, Height,  \* of the screen (80 and 25)
    MaxInt          \* the largest int

ASSUME ConsoleAssumption ==
    /\ Threads \cap Handlers = {}
    /\ {Width, Height} \subseteq 1 .. 128
    /\ MaxInt \in Nat
    /\ Numbers \subseteq -MaxInt - 1 .. MaxInt

Printers == Threads \cup Handlers

VARIABLES
    cursor,     \* x and y
    pc,
    rest,       \* of the string, from str[i] on
    register    \* y while x is loaded, or what ++ increments; else 0

vars == <<cursor, pc, rest, register>>

-----------------------------------------------------------------------------
(* itoa *)

Minus == -3         \* '-' is 45, '0' is 48
Newline == -38

Negated(num) == IF num = -MaxInt - 1 THEN num ELSE -num

\* Division of C, towards zero.
Rem(num, base) == IF num >= 0 THEN num % base ELSE -(-num % base)
Quotient(num, base) == IF num >= 0 THEN num \div base ELSE -(-num \div base)

\* The character of a remainder: 'a' is 49 behind '0'.
Digit(rem) == IF rem > 9 THEN rem - 10 + 49 ELSE rem

\* The digits, the last one first.
Digits(num, base) ==
    LET digits[n \in Int] == IF n = 0 THEN << >>
                             ELSE <<Digit(Rem(n, base))>> \o digits[Quotient(n, base)]
    IN  digits[num]

itoa_Unreversed(num, base) ==       \* mutant: the sign stays last
    IF num = 0 THEN <<0>>
    ELSE IF num < 0 THEN Reverse(Digits(Negated(num), base)) \o <<Minus>>
    ELSE Reverse(Digits(num, base))

itoa(num, base) ==
    IF num = 0 THEN <<0>>
    ELSE IF num < 0 /\ base = 10 THEN Reverse(Digits(Negated(num), base) \o <<Minus>>)
    ELSE Reverse(Digits(num, base))

printfInt(num) == itoa(num, 10) \o <<Newline>>

-----------------------------------------------------------------------------
(* printf: one label per access to x or y *)

Init ==
    /\ cursor \in [x : 0 .. Width - 1, y : 0 .. Height - 1]
    /\ pc \in [Printers -> {"call", "absent"}]
    /\ \E num \in [Printers -> Numbers] : rest = [p \in Printers |-> printfInt(num[p])]
    /\ register = [p \in Printers |-> 0]

Goto(p, label) == pc' = [pc EXCEPT ![p] = label]

Set(p, v, value, label) ==
    /\ cursor' = [cursor EXCEPT ![v] = value % 256]
    /\ register' = [register EXCEPT ![p] = 0]
    /\ Goto(p, label)
    /\ UNCHANGED rest

Zero(p, v, label) == Set(p, v, 0, label)

Increment(p, v, label) == Set(p, v, register[p] + 1, label)

Load(p, v, label) ==
    /\ register' = [register EXCEPT ![p] = cursor[v]]
    /\ Goto(p, label)
    /\ UNCHANGED <<cursor, rest>>

\* The row is in the register: x is loaded, and a character stored in this cell.
Cell_Bytes(p) == 2 * (Width * register[p] + cursor.x)   \* mutant: a byte offset

Cell(p) == Width * register[p] + cursor.x

Put(p, label) ==
    /\ register' = [register EXCEPT ![p] = 0]
    /\ Goto(p, label)
    /\ UNCHANGED <<cursor, rest>>

Branch(p, condition, yes, no) ==
    /\ Goto(p, IF condition THEN yes ELSE no)
    /\ UNCHANGED <<cursor, rest, register>>

\* The loop over the string, and the switch.
NextCharacter(p) ==
    \/ pc[p] = "call" /\ Branch(p, TRUE, "next", "next")
    \/ pc[p] = "next" /\ rest[p] = << >> /\ Branch(p, TRUE, "returned", "returned")
    \/ /\ pc[p] = "next" /\ rest[p] # << >>
       /\ rest' = [rest EXCEPT ![p] = Tail(@)]
       /\ Goto(p, IF Head(rest[p]) = Newline THEN "feed" ELSE "row")
       /\ UNCHANGED <<cursor, register>>

Feed(p) ==
    \/ pc[p] = "feed"      /\ Zero(p, "x", "feedload")
    \/ pc[p] = "feedload"  /\ Load(p, "y", "feedstore")
    \/ pc[p] = "feedstore" /\ Increment(p, "y", "testx")

Character(p) ==
    \/ pc[p] = "row"    /\ Load(p, "y", "column")
    \/ pc[p] = "column" /\ Put(p, "loadx")
    \/ pc[p] = "loadx"  /\ Load(p, "x", "storex")
    \/ pc[p] = "storex" /\ Increment(p, "x", "testx")

Over_ByOne(v, size) == v > size     \* mutant: >= becomes >

Over(v, size) == v >= size

\* Behind the switch: the end of the line.
Wrap(p) ==
    \/ pc[p] = "testx"  /\ Branch(p, Over(cursor.x, Width), "wrap", "testy")
    \/ pc[p] = "wrap"   /\ Zero(p, "x", "wrapload")
    \/ pc[p] = "wrapload"  /\ Load(p, "y", "wrapstore")
    \/ pc[p] = "wrapstore" /\ Increment(p, "y", "testy")
    \/ pc[p] = "testy"  /\ Branch(p, Over(cursor.y, Height), "clear", "next")

ColumnDone_Missing(p) ==    \* mutant: the inner loop does not increment x
    pc[p] = "columnload" /\ Branch(p, TRUE, "columns", "columns")

ColumnDone(p) ==
    \/ pc[p] = "columnload"  /\ Load(p, "x", "columnstore")
    \/ pc[p] = "columnstore" /\ Increment(p, "x", "columns")

\* The end of the screen: two loops whose variables are y and x.
Clear(p) ==
    \/ pc[p] = "clear"   /\ Zero(p, "y", "rows")
    \/ pc[p] = "rows"    /\ Branch(p, cursor.y < Height, "left", "homex")
    \/ pc[p] = "left"    /\ Zero(p, "x", "columns")
    \/ pc[p] = "columns" /\ Branch(p, cursor.x < Width, "blankrow", "rowload")
    \/ pc[p] = "blankrow" /\ Load(p, "y", "blank")
    \/ pc[p] = "blank"   /\ Put(p, "columnload")
    \/ ColumnDone(p)
    \/ pc[p] = "rowload"  /\ Load(p, "y", "rowstore")
    \/ pc[p] = "rowstore" /\ Increment(p, "y", "rows")
    \/ pc[p] = "homex"   /\ Zero(p, "x", "homey")
    \/ pc[p] = "homey"   /\ Zero(p, "y", "next")

Inside(p) == pc[p] \notin {"call", "returned", "absent"}

\* A handler is not interrupted.
Runs(p) == \A h \in Handlers \ {p} : ~Inside(h)

Step(p) ==
    /\ Runs(p)
    /\ NextCharacter(p) \/ Feed(p) \/ Character(p) \/ Wrap(p) \/ Clear(p)

Next == \E p \in Printers : Step(p)

Spec == Init /\ [][Next]_vars

\* A printer goes on: a thread is switched back to, a handler is not interrupted.
FairSpec == Spec /\ \A p \in Printers : WF_vars(Step(p))

-----------------------------------------------------------------------------
(* What the console should guarantee *)

\* Whenever no printer is between two accesses, the cursor is on the screen: however
\* threads and handlers interleave, the last of them to change x or y tests it
\* afterwards.  In between, two threads can drive x far beyond the line.
CursorOnScreen ==
    (\A p \in Printers : Inside(p) => pc[p] = "next") =>
        cursor.x < Width /\ cursor.y < Height

\* With one thread and any handlers, a character is stored on the screen, in the
\* row behind it, or at most in the cell after that, wherever handlers come in.
StoresNear ==
    (\E t \in Threads : \A u \in Threads \ {t} : pc[u] = "absent") =>
        \A p \in Printers :
            pc[p] \in {"column", "blank"} /\ Runs(p) => Cell(p) <= Width * (Height + 1)

\* printf returns: two threads that clear the screen at once, with one pair of loop
\* variables, whose increments can be lost, still end.
PrintfReturns == \A p \in Printers : Inside(p) ~> ~Inside(p)

\* itoa in base 10 is the decimal notation, for every int but the least.
ItoaRight ==
    (\A p \in Printers : pc[p] = "call") =>
        \A num \in -MaxInt .. MaxInt :
            LET s == itoa(num, 10)
                digits == SelectSeq(s, LAMBDA c : c # Minus)
                value == FoldLeft(LAMBDA v, c : 10 * v + c, 0, digits)
            IN  /\ s = (IF num < 0 THEN <<Minus>> ELSE << >>) \o digits
                /\ num = IF num < 0 THEN -value ELSE value
                /\ ToSet(digits) \subseteq 0 .. 9
=============================================================================
