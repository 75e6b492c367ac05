------------------------------ MODULE KernelTests ------------------------------
(***************************************************************************)
(* The five test programs of kernel.cpp, one of which is compiled into     *)
(* kernelMain, running on the thread library of TaskManager.tla.  Every    *)
(* entry point is a sequence of instructions, and the thread that has the  *)
(* processor executes the next one: an action of the library with the      *)
(* step of the program counter, or an access to a shared variable.         *)
(*                                                                         *)
(* The two local Thread objects of the tests without a main thread play    *)
(* the parts of Producer and Consumer.                                     *)
(***************************************************************************)
EXTENDS TaskManager, Sequences

CONSTANTS Producer, Consumer, Main

ASSUME TestThreadsAssumption ==
    /\ Thread = {Producer, Consumer, Main}
    /\ Producer # Consumer
    /\ Main \notin {Producer, Consumer}

VARIABLES
    test,           \* the test that is compiled in
    pc,             \* the next instruction of each thread
    turn,
    thread_flags,
    itemSize,
    count,          \* the producer's register for ++itemSize
    found           \* what the consumer's test of itemSize found

peterson == <<turn, thread_flags>>
items == <<itemSize, count, found>>
testVars == <<vars, test, pc, peterson, items>>

Test == {"CREATE_FINISH_TEST", "CREATE_TERMINATE_JOIN_TEST",
         "CREATE_TERMINATE_JOIN_TEST_2", "WITH_PETERSON_TEST",
         "WITHOUT_PETERSON_TEST"}

Do(op) == [op |-> op]
Call(op, t) == [op |-> op, thread |-> t]

\* MainEvent and MainEvent_2
MainEvent == << Call("terminate", Producer), Call("terminate", Consumer),
                Call("join", Producer), Call("join", Consumer) >>
MainEvent_2 == << Call("terminate", Producer),
                  Call("join", Producer), Call("join", Consumer) >>

\* ProduceEvent and ConsumeEvent print for ever.
Loop == << Do("loop") >>

lock_with_peterson_Late ==      \* mutant: looks at the other before raising the flag
    << Do("turn"), Do("test_turn"), Do("test_flag"), Do("flag") >>

lock_with_peterson == << Do("flag"), Do("turn"), Do("test_turn"), Do("test_flag") >>
unlock_with_peterson == << Do("unflag") >>
Produce == << Do("load"), Do("store") >>
Consume == << Do("test") >>

\* The code of each thread in the test.
Code(t) ==
    CASE test = "CREATE_FINISH_TEST" -> << Do("print") >>
      [] test = "CREATE_TERMINATE_JOIN_TEST" /\ t = Main -> MainEvent
      [] test = "CREATE_TERMINATE_JOIN_TEST_2" /\ t = Main -> MainEvent_2
      [] test \in {"CREATE_TERMINATE_JOIN_TEST", "CREATE_TERMINATE_JOIN_TEST_2"}
            /\ t # Main -> Loop
      [] test = "WITH_PETERSON_TEST" ->
            lock_with_peterson \o (IF t = Producer THEN Produce ELSE Consume)
                               \o unlock_with_peterson
      [] OTHER -> IF t = Producer THEN Produce ELSE Consume

\* kernelMain creates the threads in this order.
Created == IF test \in {"CREATE_TERMINATE_JOIN_TEST", "CREATE_TERMINATE_JOIN_TEST_2"}
           THEN << Producer, Consumer, Main >>
           ELSE << Producer, Consumer >>

TestInit ==
    /\ Init
    /\ test \in Test
    /\ pc = [t \in Thread |-> 1]
    /\ turn = Producer
    /\ thread_flags = [t \in {Producer, Consumer} |-> FALSE]
    /\ itemSize = 0
    /\ count = 0
    /\ found = "nothing"

-----------------------------------------------------------------------------

kernelMain ==
    /\ IF threadIDCounter < Len(Created) THEN CreateThread(Created[threadIDCounter + 1])
                                         ELSE Activate
    /\ UNCHANGED <<test, pc, peterson, items>>

Other(t) == IF t = Producer THEN Consumer ELSE Producer

\* The next instruction of t is op; the one after it is `offset` further on.
At(t, op, offset) ==
    /\ pc[t] <= Len(Code(t))
    /\ Code(t)[pc[t]].op = op
    /\ pc' = [pc EXCEPT ![t] = @ + offset]
    /\ UNCHANGED test

Argument(t) == Code(t)[pc[t]].thread

\* An instruction that does not call the library.
Runs(t, op, offset) ==
    /\ Executes(t)
    /\ At(t, op, offset)
    /\ UNCHANGED vars

Instruction(t) ==
    \/ /\ Runs(t, "print", 1)
       /\ UNCHANGED <<peterson, items>>
    \/ /\ Runs(t, "flag", 1)
       /\ thread_flags' = [thread_flags EXCEPT ![t] = TRUE]
       /\ UNCHANGED <<turn, items>>
    \/ /\ Runs(t, "turn", 1)
       /\ turn' = t
       /\ UNCHANGED <<thread_flags, items>>
    \/ /\ Runs(t, "test_turn", IF turn = t THEN 1 ELSE 2)
       /\ UNCHANGED <<peterson, items>>
    \/ /\ Runs(t, "test_flag", IF thread_flags[Other(t)] THEN -1 ELSE 1)
       /\ UNCHANGED <<peterson, items>>
    \/ /\ Runs(t, "unflag", 1)
       /\ thread_flags' = [thread_flags EXCEPT ![t] = FALSE]
       /\ UNCHANGED <<turn, items>>
    \/ /\ Runs(t, "load", 1)
       /\ count' = itemSize + 1
       /\ UNCHANGED <<peterson, itemSize, found>>
    \/ /\ Runs(t, "store", 1)
       /\ itemSize' = count
       /\ UNCHANGED <<peterson, count, found>>
    \/ /\ Runs(t, "test", 1)
       /\ found' = IF itemSize <= 0 THEN "nothing" ELSE "item"
       /\ UNCHANGED <<peterson, itemSize, count>>

\* An instruction that calls the library; a join ends when JoinThread returns.
LibraryCall(t) ==
    /\ \/ At(t, "terminate", 1) /\ TermniateThread(t, Argument(t))
       \/ At(t, "join", 0) /\ JoinThread(t, Argument(t))
       \/ At(t, "join", 1) /\ JoinReturns(t)
    /\ UNCHANGED <<peterson, items>>

Return(t) ==
    /\ pc[t] > Len(Code(t))
    /\ Finish(t)
    /\ UNCHANGED <<test, pc, peterson, items>>

Step(t) == Instruction(t) \/ LibraryCall(t) \/ Return(t)

Interrupt ==
    /\ TimerInterrupt \/ InterruptAtZero \/ Handler
    /\ UNCHANGED <<test, pc, peterson, items>>

\* A thread that has returned runs into a memory exception.
MemoryException == Fault /\ UNCHANGED <<test, pc, peterson, items>>

TestNext ==
    \/ kernelMain
    \/ \E t \in Thread : Step(t)
    \/ Interrupt
    \/ MemoryException

TestSpec == TestInit /\ [][TestNext]_testVars

\* A time slice is long enough to execute instructions: a thread that is
\* dispatched again and again goes on.  The timer and the handler are weakly fair.
FairTestSpec ==
    /\ TestSpec
    /\ WF_testVars(kernelMain)
    /\ WF_testVars(Interrupt)
    /\ SF_testVars(MemoryException)
    /\ \A t \in Thread : SF_testVars(Step(t))

-----------------------------------------------------------------------------

\* Main has passed its JoinThread of u, and prints "Joined".
Joined(u) ==
    /\ test \in {"CREATE_TERMINATE_JOIN_TEST", "CREATE_TERMINATE_JOIN_TEST_2"}
    /\ \E k \in 1 .. pc[Main] - 1 : Code(Main)[k] = Call("join", u)

\* A thread that Main has joined never gets the processor again.
JoinedHasStopped ==
    \A u \in Thread : Joined(u) => cpu # u /\ state[u] = "DEAD"

\* With the Peterson lock, what the consumer found in itemSize is still so when
\* it lowers its flag, wherever the ticks fall.
ItemProtected ==
    test = "WITH_PETERSON_TEST" /\ pc[Consumer] = 6 =>
        (found = "item" <=> itemSize > 0)

AllEnded == \A k \in 1 .. Len(Created) : state[Created[k]] = "DEAD"

\* Schedule has emptied the run queue and returned to kernelMain's loop.
BackInKernel == mode = "user" /\ cpu = Kernel /\ thread_size = 0 /\ AllEnded

\* Every test ends as its comments expect, except the second join test, where Main
\* waits for the running Consumer: its threads end and the kernel's loop gets the
\* processor back.  It does not keep it: its stack pointer is then 44, and the next
\* interrupt is lost.  What is promised is that no interrupt is lost before.
TestsEnd ==
    /\ test # "CREATE_TERMINATE_JOIN_TEST_2" => <>BackInKernel
    /\ [](mode = "wild" => AllEnded)
    /\ test = "CREATE_TERMINATE_JOIN_TEST" => <>(Joined(Producer) /\ Joined(Consumer))
    /\ test = "CREATE_TERMINATE_JOIN_TEST_2" =>
            <>[](Joined(Producer) /\ joining[Main] = Consumer) /\ []<>(cpu = Consumer)
=============================================================================
