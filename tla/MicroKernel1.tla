------------------------------ MODULE MicroKernel1 ------------------------------
(***************************************************************************)
(* The first microkernel of init.s: four threads sort the quarters of an   *)
(* array, the main thread joins them, merges, prints, sorts the whole and  *)
(* prints again; on the thread library of SpimOS.tla.                      *)
(*                                                                         *)
(* A new thread copies its creator's registers, $sp among them: there is   *)
(* one stack, and the main thread and the four others all push on it.      *)
(*                                                                         *)
(* A step is a block of instructions up to a jump, a call or a return; the *)
(* thread's first block ends where it reads its words back from the stack. *)
(* LO lives between a div and the mflo that follows it, inside one block:  *)
(* that a switch there loses it is in SpimOS.tla, and not here.            *)
(* Addresses count words; array[k] is the item that the k-th word of       *)
(* `array` points to.                                                      *)
(***************************************************************************)
EXTENDS SpimOS

CONSTANTS
    Arrays,         \* the contents of `array`
    TickInSort,     \* may the timer tick while a thread sorts its part?
    StackWords      \* bound: words of the stack

ASSUME MicroKernel1Assumption ==
    /\ \A a \in Arrays : /\ DOMAIN a = 0 .. Cardinality(DOMAIN a) - 1
                          /\ \A k \in DOMAIN a : a[k] \in Nat \ {0, 1}
    /\ TickInSort \in BOOLEAN
    /\ StackWords \in Nat

VARIABLES
    items,              \* `array` at the beginning
    array,
    stack,
    thread_id_array,
    printed             \* what the main thread has printed: two arrays

memory == <<items, array, stack, thread_id_array, printed>>
kernelVars == <<vars, memory>>

size == Cardinality(DOMAIN items)

\* t0 and t4 hold what the first block of the program puts there; the call that
\* starts the threads leaves them alone.
KernelInit ==
    /\ Boot([v0 |-> 0, a0 |-> 1, a1 |-> 0, a2 |-> 0, s0 |-> 0, s1 |-> 0,
             t0 |-> 1, t4 |-> 1, sp |-> StackWords + 1, ra |-> 0])
    /\ items \in Arrays
    /\ array = items
    /\ stack = [k \in 1 .. StackWords |-> 0]
    /\ thread_id_array = [k \in 1 .. 4 |-> 0]
    /\ printed = << >>

-----------------------------------------------------------------------------
\* Where the calls return to.  An address of the text is negative here, to tell it
\* from a number; a jump to anything else would be an exception of the simulator.
ReturnPoints == <<"right_half", "halves", "mergesort_return", "sorted",
                  "second_merge", "third_merge", "printArr_t", "printArr_m">>
Link(label) == -(CHOOSE k \in DOMAIN ReturnPoints : ReturnPoints[k] = label)

\* A block at the label, which leads to next with the registers regs; and one in
\* which `result` is the result of the last mult or div.
Divides(label, regs, result, next) ==
    PC = label /\ R' = regs /\ LO' = result /\ Jump(next)
Block(label, regs, next) == Divides(label, regs, LO, next)

Syscall(label, call) == PC = label /\ call /\ UNCHANGED memory

\* words are stored at the new top of the stack, n words below the old one.
Push(n, words) ==
    /\ R.sp - n > 0
    /\ stack' = [k \in DOMAIN stack |->
                   IF k - (R.sp - n) + 1 \in DOMAIN words
                   THEN words[k - (R.sp - n) + 1] ELSE stack[k]]

Word(offset) == stack[R.sp + offset]

-----------------------------------------------------------------------------
(* The sort, called with the first word in a0 and the end in a1 *)

\* One word or none is sorted; else the left half is.
mergesort ==
    LET sp == R.sp - 4
        middle == R.a0 + (R.a1 - R.a0) \div 2
    IN  IF R.a1 - R.a0 <= 1
        THEN /\ Push(4, <<R.ra, R.a0, R.a1>>)
             /\ Block("mergesort", [R EXCEPT !.sp = sp], "mergesort_return")
        ELSE /\ Push(4, <<R.ra, R.a0, R.a1, middle>>)
             /\ Block("mergesort", [R EXCEPT !.sp = sp, !.a1 = middle, !.ra = Link("right_half")],
                      "mergesort")

right_half ==
    /\ Block("right_half", [R EXCEPT !.a0 = Word(3), !.a1 = Word(2), !.ra = Link("halves")],
             "mergesort")
    /\ UNCHANGED stack

halves ==
    /\ Block("halves", [R EXCEPT !.a0 = Word(1), !.a1 = Word(3), !.a2 = Word(2),
                                 !.ra = Link("mergesort_return")], "merge")
    /\ UNCHANGED stack

\* Both functions return with the address that they have on the stack.
Return(label) ==
    /\ PC = label
    /\ -Word(0) \in DOMAIN ReturnPoints
    /\ Block(label, [R EXCEPT !.ra = Word(0), !.sp = @ + 4], ReturnPoints[-Word(0)])
    /\ UNCHANGED stack

merge ==
    /\ Push(4, <<R.ra, R.a0, R.a1, R.a2>>)
    /\ Block("merge", [R EXCEPT !.sp = @ - 4, !.s0 = R.a0, !.s1 = R.a1], "mergeloop")

\* shift_swap: the item at `from` goes down to `to`, and those between up.
Shifted(from, to) ==
    [k \in DOMAIN array |-> IF to < from /\ k = to THEN array[from]
                            ELSE IF to < k /\ k <= from THEN array[k - 1]
                            ELSE array[k]]

mergeloop_Stuck ==              \* mutant: s1 is not advanced after a shift
    LET shifts == array[R.s1] <= array[R.s0]
        s0 == R.s0 + 1
        s1 == R.s1
    IN  /\ {R.s0, R.s1} \subseteq DOMAIN array
        /\ array' = IF shifts THEN Shifted(R.s1, R.s0) ELSE array
        /\ Block("mergeloop",
                 [R EXCEPT !.s0 = s0, !.s1 = s1, !.t0 = IF shifts THEN 10 ELSE array[R.s0],
                           !.a2 = Word(3)],
                 IF s0 >= Word(3) \/ s1 >= Word(3) THEN "mergeloop_out" ELSE "mergeloop")
        /\ UNCHANGED <<items, stack, thread_id_array, printed>>

\* One round.  shift_swap leaves 10 in t0, a round without it an item.  A pointer
\* beyond the array would raise an exception of the simulator: the program stops.
mergeloop ==
    LET shifts == array[R.s1] <= array[R.s0]
        s0 == R.s0 + 1
        s1 == IF shifts THEN R.s1 + 1 ELSE R.s1
    IN  /\ {R.s0, R.s1} \subseteq DOMAIN array
        /\ array' = IF shifts THEN Shifted(R.s1, R.s0) ELSE array
        /\ Block("mergeloop",
                 [R EXCEPT !.s0 = s0, !.s1 = s1, !.t0 = IF shifts THEN 10 ELSE array[R.s0],
                           !.a2 = Word(3)],
                 IF s0 >= Word(3) \/ s1 >= Word(3) THEN "mergeloop_out" ELSE "mergeloop")
        /\ UNCHANGED <<items, stack, thread_id_array, printed>>

SortLabels == {"thread_bounds", "mergesort", "right_half", "halves", "mergesort_return",
               "merge", "mergeloop", "mergeloop_out"}

Sort == \/ /\ \/ mergesort \/ right_half \/ halves \/ merge
              \/ Return("mergesort_return") \/ Return("mergeloop_out")
           /\ UNCHANGED <<items, array, thread_id_array, printed>>
        \/ mergeloop

-----------------------------------------------------------------------------
(* The four threads *)

\* The first and the last word of the part'th quarter.
Low(part) == part * (size \div 4)
High(part) == (part + 1) * (size \div 4) - 1

\* div rounds towards zero.
Quotient(a, b) == IF a >= 0 THEN a \div b ELSE -((-a) \div b)

\* a1 is the number of the thread, from 1.
thread ==
    LET part == R.a1 - 1
    IN  /\ Push(4, <<part, Low(part), High(part)>>)
        /\ Divides("thread", [R EXCEPT !.sp = @ - 4, !.a1 = part + 1], High(part) + 1,
                   "thread_bounds")
        /\ UNCHANGED <<items, array, thread_id_array, printed>>

\* The thread sorts what the stack says: what it has just stored, unless another
\* thread has stored its own there.
thread_bounds ==
    LET low == Word(1)
        high == Word(2)
        half == Quotient(high - low, 2)
    IN  /\ stack' = [stack EXCEPT ![R.sp + 3] = low + half]
        /\ Divides("thread_bounds", [R EXCEPT !.a0 = low, !.a1 = high + 1, !.ra = Link("sorted")],
                   half, "mergesort")
        /\ UNCHANGED <<items, array, thread_id_array, printed>>

Worker ==
    \/ thread
    \/ thread_bounds
    \/ Block("sorted", [R EXCEPT !.sp = @ + 4], "return") /\ UNCHANGED memory
    \/ Syscall("return", PTHREAD_RETURN("dummy"))
    \/ Syscall("dummy", GoTo("dummy") /\ UNCHANGED R)

-----------------------------------------------------------------------------
(* The main thread *)

loop_create ==
    \/ Block("out", [R EXCEPT !.a1 = R.t4], "create") /\ UNCHANGED memory
    \/ Syscall("create", PTHREAD_CREATE("thread", "save"))
    \/ /\ Block("save", [R EXCEPT !.t4 = @ + 1], IF R.t4 < 4 THEN "out" ELSE "loop_join")
       /\ thread_id_array' = [thread_id_array EXCEPT ![R.t4] = R.v0]
       /\ UNCHANGED <<items, array, stack, printed>>

\* t0 points into thread_id_array.
loop_join ==
    \/ Block("loop_join", [R EXCEPT !.a0 = thread_id_array[R.t0]], "join") /\ UNCHANGED memory
    \/ Syscall("join", PTHREAD_JOIN("joined"))
    \/ /\ Block("joined", [R EXCEPT !.t0 = @ + 1],
                IF R.t0 < 4 THEN "loop_join" ELSE "loop_join_end")
       /\ UNCHANGED memory

\* The parameters of the n-th merge.  The divisor 2 is in t0 only for the first:
\* merge uses t0 itself.
MergeParameters(n) ==
    CASE n = 1 -> <<0, (size \div 2 - 1) \div 2, size \div 2 - 1>>
      [] n = 2 -> <<size \div R.t0, (size - 1 - size \div R.t0) + size \div R.t0, size - 1>>
      [] n = 3 -> <<0, (size - 1) \div R.t0, size - 1>>

\* Only the first call passes the end of the range, the others the last word.
CallMerge(label, n, end, next) ==
    LET p == MergeParameters(n)
        quotient == <<size \div 2, size \div R.t0, (size - 1) \div R.t0>>[n]
        regs == [R EXCEPT !.a0 = p[1], !.a1 = p[2], !.a2 = p[3] + end, !.ra = Link(next)]
    IN  /\ IF n = 1
           THEN Push(3, p) /\ Divides(label, [regs EXCEPT !.sp = @ - 3], quotient, "merge")
           ELSE /\ Divides(label, regs, quotient, "merge")
                /\ stack' = [k \in DOMAIN stack |->
                               IF k - R.sp + 1 \in 1 .. 3 THEN p[k - R.sp + 1] ELSE stack[k]]
        /\ UNCHANGED <<items, array, thread_id_array, printed>>

printArr(label, regs, next) ==
    /\ Block(label, regs, next)
    /\ printed' = Append(printed, array)
    /\ UNCHANGED <<items, array, stack, thread_id_array>>

\* The exit call of the simulator itself.
EXIT_SYSCALL == machine' = "off" /\ UNCHANGED <<threads, current_thread, who,
                                                get_kernel_up, PC, R, LO>>

micro_kernel_1 ==
    \/ loop_create
    \/ loop_join
    \/ CallMerge("loop_join_end", 1, 1, "second_merge")
    \/ CallMerge("second_merge", 2, 0, "third_merge")
    \/ CallMerge("third_merge", 3, 0, "printArr_t")
    \/ printArr("printArr_t", R, "print_ret")
    \/ /\ Block("print_ret", [R EXCEPT !.a0 = 0, !.a1 = size, !.ra = Link("printArr_m")],
                "mergesort")
       /\ UNCHANGED memory
    \/ printArr("printArr_m", [R EXCEPT !.sp = @ + 3], "micro_kernel_1_exit")
    \/ Syscall("micro_kernel_1_exit", EXIT_SYSCALL)

-----------------------------------------------------------------------------

KernelInstruction == Running /\ (micro_kernel_1 \/ Worker \/ Sort)

Tick == /\ TickInSort \/ PC \notin SortLabels
        /\ SPIM_timerHandler
        /\ UNCHANGED memory

KernelNext == \/ KernelInstruction
              \/ INIT_SYSCALL /\ UNCHANGED memory
              \/ Tick

\* The time between two timer interrupts is enough for many instructions, so a
\* thread that is switched to again and again executes again and again.
FairKernelSpec ==
    /\ KernelInit /\ [][KernelNext]_kernelVars
    /\ WF_kernelVars(INIT_SYSCALL /\ UNCHANGED memory)
    /\ WF_kernelVars(Tick)
    /\ \A id \in Ids : SF_kernelVars(current_thread.ID = id /\ KernelInstruction)

-----------------------------------------------------------------------------
(* What the program should do *)

SortedOn(a, low, high) == \A j, k \in low .. high : j <= k => a[j] <= a[k]

\* When the call of mergesort returns to a thread, its quarter is sorted.
SortsItsPart ==
    \A k \in 1 .. Len(threads) :
        LET part == threads[k].ID - 1
        IN  At(k) = "sorted" => SortedOn(array, Low(part), High(part))

SameItems(a) == \A x \in {items[k] : k \in DOMAIN items} :
                   Cardinality({k \in DOMAIN a : a[k] = x})
                     = Cardinality({k \in DOMAIN items : items[k] = x})

\* The main thread merges only when all four have returned, and then every
\* quarter is sorted and no item is lost.
QuartersBeforeMerge ==
    get_kernel_up /\ PC = "loop_join_end" =>
        /\ \A k \in 2 .. 5 : threads[k].state = "DEAD"
        /\ \A part \in 0 .. 3 : SortedOn(array, Low(part), High(part))
        /\ SameItems(array)

\* What is printed "For Main" are the items, sorted, and the stack is given back.
MainSorted ==
    Len(printed) = 2 => /\ SortedOn(printed[2], 0, size - 1)
                        /\ SameItems(printed[2])
                        /\ machine = "off" => R.sp = StackWords + 1

\* "For Thread: Sorted Array": the three merges have sorted the four quarters.
ThreadsSorted == Len(printed) >= 1 => SortedOn(printed[1], 0, size - 1)

\* The program ends, and not by a panic or in the loop of context_switch.
KernelEnds == <>(machine = "off")
=============================================================================
