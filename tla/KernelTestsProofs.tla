--------------------------- MODULE KernelTestsProofs ---------------------------
(***************************************************************************)
(* What the test programs show of the library, for any length of the run   *)
(* queue and any timing of the ticks.  The tests are programs of           *)
(* TaskManager, so that its invariants hold of them.                       *)
(***************************************************************************)
EXTENDS KernelTests, SchedulingProofs

LEMMA TestThreads ==
    /\ Thread = {Producer, Consumer, Main}
    /\ Producer # Consumer /\ Main # Producer /\ Main # Consumer
    /\ Kernel \notin Thread /\ None \notin Thread
  BY TestThreadsAssumption, ContextsAssumption

JoinTests == {"CREATE_TERMINATE_JOIN_TEST", "CREATE_TERMINATE_JOIN_TEST_2"}

LEMMA CreatedLemma ==
    /\ test \in JoinTests => Created = << Producer, Consumer, Main >>
    /\ test \notin JoinTests => Created = << Producer, Consumer >>
  BY DEF Created, JoinTests

-----------------------------------------------------------------------------
(* The code of the tests *)

\* In the tests that join, Main alone has instructions.
LEMMA JoinCode ==
    ASSUME test \in JoinTests
    PROVE  /\ Code(Main) = IF test = "CREATE_TERMINATE_JOIN_TEST" THEN MainEvent
                                                                  ELSE MainEvent_2
           /\ \A t \in {Producer, Consumer} : Code(t) = << [op |-> "loop"] >>
  BY TestThreads DEF Code, JoinTests, Loop, Do

Instructions == {Do("flag"), Do("turn"), Do("test_turn"), Do("test_flag"),
                 Do("load"), Do("store"), Do("test"), Do("unflag")}

\* Of sequences whose lengths are m and n.
Concatenates(a, b, m, n) ==
    /\ a \o b \in Seq(Instructions) /\ Len(a \o b) = m + n
    /\ \A k \in 1 .. m + n : (a \o b)[k] = IF k <= m THEN a[k] ELSE b[k - m]

LEMMA Concatenation ==
    ASSUME NEW a \in Seq(Instructions), NEW b \in Seq(Instructions),
           NEW m \in Nat, NEW n \in Nat, Len(a) = m, Len(b) = n
    PROVE  Concatenates(a, b, m, n)
  BY DEF Concatenates

LEMMA PetersonParts ==
    /\ lock_with_peterson \in Seq(Instructions) /\ Len(lock_with_peterson) = 4
    /\ lock_with_peterson[1].op = "flag" /\ lock_with_peterson[2].op = "turn"
    /\ lock_with_peterson[3].op = "test_turn" /\ lock_with_peterson[4].op = "test_flag"
    /\ Produce \in Seq(Instructions) /\ Len(Produce) = 2
    /\ Produce[1].op = "load" /\ Produce[2].op = "store"
    /\ Consume \in Seq(Instructions) /\ Len(Consume) = 1 /\ Consume[1].op = "test"
    /\ unlock_with_peterson \in Seq(Instructions) /\ Len(unlock_with_peterson) = 1
    /\ unlock_with_peterson[1].op = "unflag"
<1>1. /\ Do("flag") \in Instructions /\ Do("turn") \in Instructions
      /\ Do("test_turn") \in Instructions /\ Do("test_flag") \in Instructions
      /\ Do("load") \in Instructions /\ Do("store") \in Instructions
      /\ Do("test") \in Instructions /\ Do("unflag") \in Instructions
  BY DEF Instructions
<1>2. /\ Do("flag").op = "flag" /\ Do("turn").op = "turn"
      /\ Do("test_turn").op = "test_turn" /\ Do("test_flag").op = "test_flag"
      /\ Do("load").op = "load" /\ Do("store").op = "store"
      /\ Do("test").op = "test" /\ Do("unflag").op = "unflag"
  BY DEF Do
<1>3. /\ lock_with_peterson \in Seq(Instructions) /\ Len(lock_with_peterson) = 4
      /\ lock_with_peterson[1] = Do("flag") /\ lock_with_peterson[2] = Do("turn")
      /\ lock_with_peterson[3] = Do("test_turn")
      /\ lock_with_peterson[4] = Do("test_flag")
  BY <1>1 DEF lock_with_peterson
<1>4. /\ Produce \in Seq(Instructions) /\ Len(Produce) = 2
      /\ Produce[1] = Do("load") /\ Produce[2] = Do("store")
  BY <1>1 DEF Produce
<1>5. /\ Consume \in Seq(Instructions) /\ Len(Consume) = 1 /\ Consume[1] = Do("test")
  BY <1>1 DEF Consume
<1>6. /\ unlock_with_peterson \in Seq(Instructions) /\ Len(unlock_with_peterson) = 1
      /\ unlock_with_peterson[1] = Do("unflag")
  BY <1>1 DEF unlock_with_peterson
<1> QED
  BY <1>2, <1>3, <1>4, <1>5, <1>6

\* What stands between the lock and the unlock follows the lock's four instructions.
Brackets(s, b, m) ==
    /\ Len(s) = m + 5
    /\ s[1] = lock_with_peterson[1] /\ s[2] = lock_with_peterson[2]
    /\ s[3] = lock_with_peterson[3] /\ s[4] = lock_with_peterson[4]
    /\ \A k \in 1 .. m : s[4 + k] = b[k]
    /\ s[m + 5] = unlock_with_peterson[1]

LEMMA BracketsLemma ==
    ASSUME NEW b \in Seq(Instructions), NEW m \in Nat, Len(b) = m
    PROVE  Brackets((lock_with_peterson \o b) \o unlock_with_peterson, b, m)
<1> DEFINE p == lock_with_peterson \o b
           s == p \o unlock_with_peterson
<1>1. Concatenates(lock_with_peterson, b, 4, m)
  BY PetersonParts, Concatenation
<1>2. /\ p \in Seq(Instructions) /\ Len(p) = 4 + m
      /\ \A k \in 1 .. 4 + m : p[k] = IF k <= 4 THEN lock_with_peterson[k] ELSE b[k - 4]
  BY <1>1 DEF Concatenates
<1> HIDE DEF p
<1>3. Concatenates(p, unlock_with_peterson, 4 + m, 1)
  <2>1. 4 + m \in Nat
    OBVIOUS
  <2> QED
    BY <1>2, <2>1, PetersonParts, Concatenation
<1>4. /\ Len(s) = 4 + m + 1
      /\ \A k \in 1 .. 4 + m + 1 :
            s[k] = IF k <= 4 + m THEN p[k] ELSE unlock_with_peterson[k - (4 + m)]
  BY <1>3 DEF Concatenates
<1> HIDE DEF s
<1>5. ASSUME NEW k \in 1 .. 4
      PROVE  s[k] = lock_with_peterson[k]
  BY <1>2, <1>4
<1>6. ASSUME NEW k \in 1 .. m
      PROVE  s[4 + k] = b[k]
  <2>1. 4 + k \in 1 .. 4 + m /\ 4 + k \in 1 .. 4 + m + 1 /\ 4 + k - 4 = k
    OBVIOUS
  <2>2. s[4 + k] = p[4 + k]
    BY <1>4, <2>1
  <2>3. p[4 + k] = b[4 + k - 4]
    BY <1>2, <2>1
  <2> QED
    BY <2>1, <2>2, <2>3
<1>7. s[m + 5] = unlock_with_peterson[1]
  <2>1. /\ m + 5 \in 1 .. 4 + m + 1 /\ ~(m + 5 <= 4 + m)
        /\ m + 5 - (4 + m) = 1
    OBVIOUS
  <2> QED
    BY <1>4, <2>1
<1>8. Brackets(s, b, m)
  BY <1>4, <1>5, <1>6, <1>7 DEF Brackets
<1> QED
  BY <1>8 DEF s, p

\* Main, which the tests with the items do not create, would be a consumer.
LEMMA PetersonCode ==
    ASSUME test = "WITH_PETERSON_TEST", NEW t \in Thread
    PROVE  /\ Code(t)[1].op = "flag" /\ Code(t)[2].op = "turn"
           /\ Code(t)[3].op = "test_turn" /\ Code(t)[4].op = "test_flag"
           /\ t = Producer => /\ Len(Code(t)) = 7
                              /\ Code(t)[5].op = "load" /\ Code(t)[6].op = "store"
                              /\ Code(t)[7].op = "unflag"
           /\ t # Producer => /\ Len(Code(t)) = 6
                              /\ Code(t)[5].op = "test" /\ Code(t)[6].op = "unflag"
<1>1. Code(t) = (lock_with_peterson \o (IF t = Producer THEN Produce ELSE Consume))
                                   \o unlock_with_peterson
  BY DEF Code
<1>2. CASE t = Producer
  <2>1. Code(t) = (lock_with_peterson \o Produce) \o unlock_with_peterson
    BY <1>1, <1>2
  <2>2. Brackets(Code(t), Produce, 2)
    BY <2>1, PetersonParts, BracketsLemma
  <2>3. /\ Code(t)[4 + 1] = Produce[1] /\ Code(t)[4 + 2] = Produce[2]
        /\ Code(t)[2 + 5] = unlock_with_peterson[1] /\ Len(Code(t)) = 2 + 5
    BY <2>2 DEF Brackets
  <2>4. 4 + 1 = 5 /\ 4 + 2 = 6 /\ 2 + 5 = 7
    OBVIOUS
  <2> QED
    BY <1>2, <2>2, <2>3, <2>4, PetersonParts DEF Brackets
<1>3. CASE t # Producer
  <2>1. Code(t) = (lock_with_peterson \o Consume) \o unlock_with_peterson
    BY <1>1, <1>3
  <2>2. Brackets(Code(t), Consume, 1)
    BY <2>1, PetersonParts, BracketsLemma
  <2>3. /\ Code(t)[4 + 1] = Consume[1]
        /\ Code(t)[1 + 5] = unlock_with_peterson[1] /\ Len(Code(t)) = 1 + 5
    BY <2>2 DEF Brackets
  <2>4. 4 + 1 = 5 /\ 1 + 5 = 6
    OBVIOUS
  <2> QED
    BY <1>3, <2>2, <2>3, <2>4, PetersonParts DEF Brackets
<1> QED
  BY <1>2, <1>3

LEMMA CodeLength ==
    ASSUME test \in Test, NEW t \in Thread
    PROVE  Len(Code(t)) \in Nat
<1>1. CASE test = "WITH_PETERSON_TEST"
  BY <1>1, PetersonCode
<1>2. CASE test = "CREATE_TERMINATE_JOIN_TEST"
  BY <1>2 DEF Code, MainEvent, Loop
<1>3. CASE test = "CREATE_TERMINATE_JOIN_TEST_2"
  BY <1>3 DEF Code, MainEvent_2, Loop
<1>4. CASE test \in {"CREATE_FINISH_TEST", "WITHOUT_PETERSON_TEST"}
  BY <1>4 DEF Code, Produce, Consume
<1> QED
  BY <1>1, <1>2, <1>3, <1>4 DEF Test

LibraryOps == {"terminate", "join"}

\* What the proofs need of the code of any test: no thread begins with a step
\* backwards, and the calls of the library are Main's in the tests that join.
LEMMA CodeLemma ==
    ASSUME test \in Test, NEW t \in Thread
    PROVE  /\ Code(t)[1].op # "test_flag"
           /\ \A k \in 1 .. Len(Code(t)) : Code(t)[k].op \in LibraryOps =>
                 /\ t = Main /\ test \in JoinTests
                 /\ Code(t)[k].thread \in {Producer, Consumer}
<1>1. CASE test = "CREATE_FINISH_TEST"
  BY <1>1 DEF Code, Do, LibraryOps
<1>2. CASE test = "CREATE_TERMINATE_JOIN_TEST"
  <2>1. CASE t = Main
    <3>1. Code(t) = MainEvent
      BY <1>2, <2>1 DEF Code
    <3> QED
      BY <1>2, <2>1, <3>1 DEF MainEvent, Call, JoinTests, LibraryOps
  <2>2. CASE t # Main
    BY <1>2, <2>2 DEF Code, Loop, Do, LibraryOps
  <2> QED
    BY <2>1, <2>2
<1>3. CASE test = "CREATE_TERMINATE_JOIN_TEST_2"
  <2>1. CASE t = Main
    <3>1. Code(t) = MainEvent_2
      BY <1>3, <2>1 DEF Code
    <3> QED
      BY <1>3, <2>1, <3>1 DEF MainEvent_2, Call, JoinTests, LibraryOps
  <2>2. CASE t # Main
    BY <1>3, <2>2 DEF Code, Loop, Do, LibraryOps
  <2> QED
    BY <2>1, <2>2
<1>4. CASE test = "WITH_PETERSON_TEST"
  <2>1. ASSUME NEW k \in 1 .. Len(Code(t)), t = Producer
        PROVE  Code(t)[k].op \notin LibraryOps
    <3>1. Len(Code(t)) = 7
      BY <1>4, <2>1, PetersonCode
    <3>2. k \in {1, 2, 3, 4, 5, 6, 7}
      BY <3>1
    <3> QED
      BY <1>4, <2>1, <3>2, PetersonCode DEF LibraryOps
  <2>2. ASSUME NEW k \in 1 .. Len(Code(t)), t # Producer
        PROVE  Code(t)[k].op \notin LibraryOps
    <3>1. Len(Code(t)) = 6
      BY <1>4, <2>2, PetersonCode
    <3>2. k \in {1, 2, 3, 4, 5, 6}
      BY <3>1
    <3> QED
      BY <1>4, <2>2, <3>2, PetersonCode DEF LibraryOps
  <2> QED
    BY <1>4, <2>1, <2>2, PetersonCode
<1>5. CASE test = "WITHOUT_PETERSON_TEST"
  BY <1>5 DEF Code, Produce, Consume, Do, LibraryOps
<1> QED
  BY <1>1, <1>2, <1>3, <1>4, <1>5 DEF Test

-----------------------------------------------------------------------------
(* The tests are programs of the library *)

ProgramInv == test \in Test /\ pc \in [Thread -> Nat \ {0}]

\* Where the program counter goes.
LEMMA AtLemma ==
    ASSUME ProgramInv, NEW t \in Thread, NEW op, NEW offset \in -1 .. 2,
           At(t, op, offset), offset = -1 => op = "test_flag"
    PROVE  /\ pc' = [pc EXCEPT ![t] = pc[t] + offset] /\ test' = test
           /\ pc[t] \in 1 .. Len(Code(t)) /\ Code(t)[pc[t]].op = op
           /\ ProgramInv'
<1>1. /\ pc' = [pc EXCEPT ![t] = pc[t] + offset] /\ test' = test
      /\ pc[t] <= Len(Code(t)) /\ Code(t)[pc[t]].op = op
  BY DEF At
<1>2. pc[t] \in Nat \ {0} /\ test \in Test
  BY DEF ProgramInv
<1>3. pc[t] = 1 => op # "test_flag"
  BY <1>1, <1>2, CodeLemma
<1>4. pc[t] + offset \in Nat \ {0}
  BY <1>2, <1>3
<1>5. Len(Code(t)) \in Nat
  BY <1>2, CodeLength
<1> QED
  BY <1>1, <1>2, <1>4, <1>5 DEF ProgramInv

\* An instruction leaves the library alone.
LEMMA InstructionSteps ==
    ASSUME ProgramInv, NEW t \in Thread, Instruction(t)
    PROVE  UNCHANGED vars /\ ProgramInv'
<1>1. ASSUME NEW op, NEW offset \in -1 .. 2, Runs(t, op, offset),
             offset = -1 => op = "test_flag"
      PROVE  UNCHANGED vars /\ ProgramInv'
  BY <1>1, AtLemma DEF Runs
<1>2. CASE \/ Runs(t, "print", 1) \/ Runs(t, "flag", 1) \/ Runs(t, "turn", 1)
           \/ Runs(t, "unflag", 1) \/ Runs(t, "load", 1) \/ Runs(t, "store", 1)
           \/ Runs(t, "test", 1)
  BY <1>1, <1>2
<1>3. CASE Runs(t, "test_turn", IF turn = t THEN 1 ELSE 2)
  BY <1>1, <1>3
<1>4. CASE Runs(t, "test_flag", IF thread_flags[Other(t)] THEN -1 ELSE 1)
  BY <1>1, <1>4
<1> QED
  BY <1>2, <1>3, <1>4 DEF Instruction

LEMMA LibrarySteps ==
    ASSUME ProgramInv, NEW t \in Thread, LibraryCall(t)
    PROVE  Program(t) /\ ProgramInv'
<1>1. CASE At(t, "terminate", 1) /\ TermniateThread(t, Argument(t))
  <2>1. /\ pc[t] \in 1 .. Len(Code(t)) /\ Code(t)[pc[t]].op = "terminate" /\ ProgramInv'
    BY <1>1, AtLemma
  <2>2. Argument(t) \in Thread
    BY <2>1, CodeLemma, TestThreads DEF Argument, LibraryOps, ProgramInv
  <2> QED
    BY <1>1, <2>1, <2>2 DEF Program
<1>2. CASE At(t, "join", 0) /\ JoinThread(t, Argument(t))
  <2>1. /\ pc[t] \in 1 .. Len(Code(t)) /\ Code(t)[pc[t]].op = "join" /\ ProgramInv'
    BY <1>2, AtLemma
  <2>2. Argument(t) \in Thread
    BY <2>1, CodeLemma, TestThreads DEF Argument, LibraryOps, ProgramInv
  <2> QED
    BY <1>2, <2>1, <2>2 DEF Program
<1>3. CASE At(t, "join", 1) /\ JoinReturns(t)
  BY <1>3, AtLemma DEF Program
<1> QED
  BY <1>1, <1>2, <1>3 DEF LibraryCall

\* kernelMain creates a thread that the test has, or turns the interrupts on.
LEMMA KernelMainSteps ==
    ASSUME TypeOK, ProgramInv, kernelMain
    PROVE  /\ ProgramInv'
           /\ \/ Activate
              \/ \E t \in Thread : CreateThread(t) /\ (test \notin JoinTests => t # Main)
<1>1. ProgramInv'
  BY DEF kernelMain, ProgramInv
<1>2. CASE threadIDCounter < Len(Created)
  <2>1. threadIDCounter \in Nat
    BY DEF TypeOK
  <2>2. CreateThread(Created[threadIDCounter + 1])
    BY <1>2 DEF kernelMain
  <2>3. CASE test \in JoinTests
    <3>1. Created = << Producer, Consumer, Main >>
      BY <2>3, CreatedLemma
    <3>2. threadIDCounter + 1 \in 1 .. 3
      BY <1>2, <2>1, <3>1
    <3>3. Created[threadIDCounter + 1] \in Thread
      BY <3>1, <3>2, TestThreads
    <3> QED
      BY <1>1, <2>2, <2>3, <3>3
  <2>4. CASE test \notin JoinTests
    <3>1. Created = << Producer, Consumer >>
      BY <2>4, CreatedLemma
    <3>2. threadIDCounter + 1 \in 1 .. 2
      BY <1>2, <2>1, <3>1
    <3>3. Created[threadIDCounter + 1] \in Thread \ {Main}
      BY <3>1, <3>2, TestThreads
    <3> QED
      BY <1>1, <2>2, <3>3
  <2> QED
    BY <2>3, <2>4
<1>3. CASE ~(threadIDCounter < Len(Created))
  BY <1>1, <1>3 DEF kernelMain
<1> QED
  BY <1>2, <1>3

\* Every step of a test is a step of the library or leaves it alone.
LEMMA TestRefines ==
    TypeOK /\ ProgramInv /\ [TestNext]_testVars => [Next]_vars /\ ProgramInv'
<1> SUFFICES ASSUME TypeOK, ProgramInv, [TestNext]_testVars PROVE [Next]_vars /\ ProgramInv'
  OBVIOUS
<1>1. CASE kernelMain
  BY <1>1, KernelMainSteps DEF Next
<1>2. ASSUME NEW t \in Thread, Instruction(t) PROVE [Next]_vars /\ ProgramInv'
  BY <1>2, InstructionSteps
<1>3. ASSUME NEW t \in Thread, LibraryCall(t) PROVE [Next]_vars /\ ProgramInv'
  BY <1>3, LibrarySteps DEF Next
<1>4. ASSUME NEW t \in Thread, Return(t) PROVE [Next]_vars /\ ProgramInv'
  BY <1>4 DEF Return, Next, Program, ProgramInv
<1>5. CASE Interrupt
  BY <1>5 DEF Interrupt, Next, ProgramInv
<1>6. CASE MemoryException
  BY <1>6 DEF MemoryException, Next, ProgramInv
<1>7. CASE UNCHANGED testVars
  BY <1>7 DEF testVars, ProgramInv
<1> QED
  BY <1>1, <1>2, <1>3, <1>4, <1>5, <1>6, <1>7 DEF TestNext, Step

\* So a run of a test is a run of the library: its invariants hold.
THEOREM TestsAreRuns == TestSpec => Spec
<1>1. TestInit => Init /\ ProgramInv
  BY DEF TestInit, ProgramInv
<1>2. TestInit => OwnershipInv /\ ProgramInv
  BY <1>1, InitOwnership
<1>3. OwnershipInv => TypeOK
  BY DEF OwnershipInv
<1> QED
  BY <1>1, <1>2, <1>3, TestRefines, OwnershipInductive, PTL DEF TestSpec, Spec
-----------------------------------------------------------------------------
(* The test with the Peterson lock *)

WithPeterson == test = "WITH_PETERSON_TEST"

\* kernelMain does not create Main, which therefore never gets the processor.
MainAbsent == \A k \in Index : threads[k] # Main

\* The instruction at which t lowers its flag.
Last(t) == IF t = Producer THEN 7 ELSE 6
Users == {Producer, Consumer}
Waits(t) == pc[t] \in {3, 4}
Inside(t) == pc[t] \in 5 .. Last(t)

RangeInv ==
    /\ turn \in Users /\ thread_flags \in [Users -> BOOLEAN]
    /\ itemSize \in Int /\ count \in Int
    /\ \A t \in Users : pc[t] \in 1 .. Last(t) + 1

\* From raising its flag to lowering it a user has its flag up, and one that is
\* inside has the other outside, the turn left to it if it waits.
LockInv ==
    \A t \in Users :
        /\ pc[t] \in 2 .. Last(t) => thread_flags[t]
        /\ Inside(t) => /\ ~Inside(Other(t))
                        /\ Waits(Other(t)) => turn = Other(t)

FoundInv == pc[Consumer] = 6 => (found = "item" <=> itemSize > 0)

ItemInv == WithPeterson => MainAbsent /\ RangeInv /\ LockInv /\ FoundInv

LEMMA UsersLemma ==
    /\ Users = {Producer, Consumer} /\ Users \subseteq Thread
    /\ Last(Producer) = 7 /\ Last(Consumer) = 6
    /\ Other(Producer) = Consumer /\ Other(Consumer) = Producer
  BY TestThreads DEF Users, Last, Other

LEMMA InitItem == TestInit => ItemInv
  BY UsersLemma, ContextsAssumption, TestThreads
     DEF TestInit, Init, ItemInv, MainAbsent, RangeInv, LockInv, FoundInv, Inside

\* What a step of the library does to the array.
LEMMA MainStaysAbsent ==
    ASSUME TypeOK, MainAbsent,
           \/ \E t \in Thread \ {Main} : CreateThread(t)
           \/ \E t \in Thread : Program(t)
           \/ Activate \/ TimerInterrupt \/ InterruptAtZero
           \/ Fault \/ Handler \/ UNCHANGED vars
    PROVE  MainAbsent'
<1>1. ASSUME NEW k \in Int, RemoveAt(k) PROVE MainAbsent'
  <2>1. threads' = [j \in Index |-> IF k <= j /\ j < thread_size - 1
                                    THEN threads[j + 1] ELSE threads[j]]
    BY <1>1 DEF RemoveAt
  <2>2. ASSUME NEW j \in Index, j < thread_size - 1 PROVE j + 1 \in Index
    BY <2>2, BoundsAssumption DEF TypeOK, Index
  <2> QED
    BY <2>1, <2>2 DEF MainAbsent
<1>2. ASSUME NEW t \in Thread \ {Main}, CreateThread(t) PROVE MainAbsent'
  <2>1. threads' = threads \/ threads' = [threads EXCEPT ![thread_size] = t]
    BY <1>2 DEF CreateThread, AddThread, AddThreadRefuses
  <2> QED
    BY <2>1 DEF MainAbsent, TypeOK
<1>3. ASSUME NEW t \in Thread, Program(t) PROVE threads' = threads
  BY <1>3 DEF Program, JoinReturns, Finish, TermniateThread, JoinThread, queue
<1>4. CASE Activate \/ TimerInterrupt \/ InterruptAtZero \/ UNCHANGED vars
  BY <1>4 DEF Activate, TimerInterrupt, InterruptAtZero, vars, queue, MainAbsent
<1>5. CASE Fault
  BY <1>1, <1>5 DEF Fault, RemoveCurrentThread, TypeOK
<1>6. CASE Handler
  <2>1. CASE CleanRound
    BY <1>1, <2>1 DEF CleanRound, TypeOK, MainAbsent, queue
  <2>2. CASE ScheduleEmpty \/ SchedulePrologue \/ SwitchToKernel \/ SwitchThread
    BY <2>2 DEF ScheduleEmpty, SchedulePrologue, SwitchToKernel, SwitchThread,
                queue, MainAbsent
  <2> QED
    BY <1>6, <2>1, <2>2 DEF Handler
<1> QED
  BY <1>2, <1>3, <1>4, <1>5, <1>6 DEF MainAbsent

\* Who executes is in the run queue.
LEMMA UserRuns ==
    ASSUME OwnershipInv, MainAbsent, NEW t \in Thread, mode = "user", cpu = t
    PROVE  t \in Users
<1>1. IndexOK /\ t # Kernel
  BY ContextsAssumption DEF OwnershipInv, OwnerInv
<1>2. current_thread_idx \in 0 .. thread_size - 1 /\ threads[current_thread_idx] = t
  BY <1>1 DEF IndexOK, NoThreadYet
<1>3. current_thread_idx \in Index
  BY <1>2, BoundsAssumption DEF OwnershipInv, TypeOK, Index
<1> QED
  BY <1>2, <1>3, TestThreads DEF MainAbsent, Users

\* Where each instruction stands.
LEMMA OpAt ==
    ASSUME WithPeterson, NEW t \in Users, NEW k \in 1 .. Len(Code(t))
    PROVE  /\ k \in 1 .. Last(t)
           /\ Code(t)[k].op = "flag" => k = 1
           /\ Code(t)[k].op = "turn" => k = 2
           /\ Code(t)[k].op = "test_turn" => k = 3
           /\ Code(t)[k].op = "test_flag" => k = 4
           /\ Code(t)[k].op \in {"load", "store"} => t = Producer /\ k < 7
           /\ Code(t)[k].op = "load" => k = 5
           /\ Code(t)[k].op = "store" => k = 6
           /\ Code(t)[k].op = "test" => t = Consumer /\ k = 5
           /\ Code(t)[k].op = "unflag" => k = Last(t)
           /\ Code(t)[k].op # "print"
<1>1. t \in Thread /\ Len(Code(t)) = Last(t) /\ Last(t) \in {6, 7}
  BY UsersLemma, PetersonCode, TestThreads DEF WithPeterson
<1>2. k \in 1 .. 4 \/ (t = Producer /\ k \in {5, 6, 7}) \/ (t = Consumer /\ k \in {5, 6})
  BY <1>1, UsersLemma
<1> QED
  BY <1>1, <1>2, UsersLemma, PetersonCode, TestThreads DEF WithPeterson

\* The user t goes from one instruction to another.
Moves(t, from, to) == pc[t] = from /\ pc' = [pc EXCEPT ![t] = to]

LEMMA UserSteps ==
    ASSUME WithPeterson, ProgramInv, RangeInv, NEW t \in Users, Instruction(t)
    PROVE  \/ /\ Moves(t, 1, 2)
              /\ thread_flags' = [thread_flags EXCEPT ![t] = TRUE]
              /\ UNCHANGED <<turn, items>>
           \/ Moves(t, 2, 3) /\ turn' = t /\ UNCHANGED <<thread_flags, items>>
           \/ Moves(t, 3, 4) /\ UNCHANGED <<peterson, items>>
           \/ Moves(t, 3, 5) /\ turn # t /\ UNCHANGED <<peterson, items>>
           \/ Moves(t, 4, 3) /\ UNCHANGED <<peterson, items>>
           \/ Moves(t, 4, 5) /\ ~thread_flags[Other(t)] /\ UNCHANGED <<peterson, items>>
           \/ /\ Moves(t, Last(t), Last(t) + 1)
              /\ thread_flags' = [thread_flags EXCEPT ![t] = FALSE]
              /\ UNCHANGED <<turn, items>>
           \/ /\ t = Producer /\ Moves(t, 5, 6) /\ count' = itemSize + 1
              /\ UNCHANGED <<peterson, itemSize, found>>
           \/ /\ t = Producer /\ Moves(t, 6, 7) /\ itemSize' = count
              /\ UNCHANGED <<peterson, count, found>>
           \/ /\ t = Consumer /\ Moves(t, 5, 6)
              /\ found' = (IF itemSize <= 0 THEN "nothing" ELSE "item")
              /\ UNCHANGED <<peterson, itemSize, count>>
<1>1. ASSUME NEW op, NEW offset \in -1 .. 2, Runs(t, op, offset),
             offset = -1 => op = "test_flag"
      PROVE  /\ Moves(t, pc[t], pc[t] + offset)
             /\ pc[t] \in 1 .. Len(Code(t)) /\ Code(t)[pc[t]].op = op
  BY <1>1, AtLemma, UsersLemma DEF Runs, Moves
<1>2. CASE Runs(t, "flag", 1) /\ thread_flags' = [thread_flags EXCEPT ![t] = TRUE]
             /\ UNCHANGED <<turn, items>>
  <2>1. Moves(t, 1, 2)
    <3>1. Moves(t, pc[t], pc[t] + 1) /\ pc[t] = 1
      BY <1>1, <1>2, OpAt
    <3> QED
      BY <3>1
  <2> QED
    BY <1>2, <2>1
<1>3. CASE Runs(t, "turn", 1) /\ turn' = t /\ UNCHANGED <<thread_flags, items>>
  <2>1. Moves(t, 2, 3)
    <3>1. Moves(t, pc[t], pc[t] + 1) /\ pc[t] = 2
      BY <1>1, <1>3, OpAt
    <3> QED
      BY <3>1
  <2> QED
    BY <1>3, <2>1
<1>4. CASE Runs(t, "test_turn", IF turn = t THEN 1 ELSE 2) /\ UNCHANGED <<peterson, items>>
  <2>1. CASE turn = t
    <3>1. Moves(t, pc[t], pc[t] + 1) /\ pc[t] = 3
      BY <1>1, <1>4, <2>1, OpAt
    <3>2. Moves(t, 3, 4)
      BY <3>1
    <3> QED
      BY <1>4, <3>2
  <2>2. CASE turn # t
    <3>1. Moves(t, pc[t], pc[t] + 2) /\ pc[t] = 3
      BY <1>1, <1>4, <2>2, OpAt
    <3>2. Moves(t, 3, 5)
      BY <3>1
    <3> QED
      BY <1>4, <2>2, <3>2
  <2> QED
    BY <2>1, <2>2
<1>5. CASE Runs(t, "test_flag", IF thread_flags[Other(t)] THEN -1 ELSE 1)
             /\ UNCHANGED <<peterson, items>>
  <2>1. CASE thread_flags[Other(t)]
    <3>1. Runs(t, "test_flag", -1)
      BY <1>5, <2>1
    <3>2. Moves(t, pc[t], pc[t] + -1) /\ pc[t] = 4
      BY <1>1, <3>1, OpAt
    <3>3. Moves(t, 4, 3)
      BY <3>2
    <3> QED
      BY <1>5, <3>3
  <2>2. CASE ~thread_flags[Other(t)]
    <3>1. Moves(t, pc[t], pc[t] + 1) /\ pc[t] = 4
      BY <1>1, <1>5, <2>2, OpAt
    <3>2. Moves(t, 4, 5)
      BY <3>1
    <3> QED
      BY <1>5, <2>2, <3>2
  <2> QED
    BY <2>1, <2>2
<1>6. CASE Runs(t, "unflag", 1) /\ thread_flags' = [thread_flags EXCEPT ![t] = FALSE]
             /\ UNCHANGED <<turn, items>>
  <2>1. Moves(t, pc[t], pc[t] + 1) /\ pc[t] = Last(t)
    BY <1>1, <1>6, OpAt
  <2> QED
    BY <1>6, <2>1
<1>7. CASE Runs(t, "load", 1) /\ count' = itemSize + 1 /\ UNCHANGED <<peterson, itemSize, found>>
  <2>1. Moves(t, pc[t], pc[t] + 1) /\ pc[t] = 5 /\ t = Producer
    BY <1>1, <1>7, OpAt
  <2>2. Moves(t, 5, 6)
    BY <2>1
  <2> QED
    BY <1>7, <2>1, <2>2
<1>8. CASE Runs(t, "store", 1) /\ itemSize' = count /\ UNCHANGED <<peterson, count, found>>
  <2>1. Moves(t, pc[t], pc[t] + 1) /\ pc[t] = 6 /\ t = Producer
    BY <1>1, <1>8, OpAt
  <2>2. Moves(t, 6, 7)
    BY <2>1
  <2> QED
    BY <1>8, <2>1, <2>2
<1>9. CASE Runs(t, "test", 1) /\ found' = (IF itemSize <= 0 THEN "nothing" ELSE "item")
             /\ UNCHANGED <<peterson, itemSize, count>>
  <2>1. Moves(t, pc[t], pc[t] + 1) /\ pc[t] = 5 /\ t = Consumer
    BY <1>1, <1>9, OpAt
  <2>2. Moves(t, 5, 6)
    BY <2>1
  <2> QED
    BY <1>9, <2>1, <2>2
<1>10. ~Runs(t, "print", 1)
  BY <1>1, OpAt
<1> QED
  BY <1>2, <1>3, <1>4, <1>5, <1>6, <1>7, <1>8, <1>9, <1>10
     DEF Instruction, peterson, items

\* An instruction of a user keeps the invariant of the lock and of the items.
LEMMA UserItem ==
    ASSUME WithPeterson, ProgramInv, RangeInv, LockInv, FoundInv,
           NEW t \in Users, Instruction(t)
    PROVE  RangeInv' /\ LockInv' /\ FoundInv'
<1> DEFINE o == Other(t)
<1>1. /\ o \in Users /\ o # t /\ Other(o) = t /\ \A v \in Users : v = t \/ v = o
      /\ Last(t) \in {6, 7} /\ Last(o) \in {6, 7}
  BY UsersLemma, TestThreads
<1>2. /\ pc \in [Thread -> Nat \ {0}] /\ t \in Thread /\ o \in Thread
      /\ pc[t] \in 1 .. Last(t) + 1 /\ pc[o] \in 1 .. Last(o) + 1
      /\ turn \in Users /\ thread_flags \in [Users -> BOOLEAN]
      /\ itemSize \in Int /\ count \in Int
  BY <1>1, UsersLemma DEF ProgramInv, RangeInv
<1>3. ASSUME NEW from, NEW to \in Int, Moves(t, from, to)
      PROVE  pc[t] = from /\ pc'[t] = to /\ pc'[o] = pc[o]
  BY <1>1, <1>2, <1>3 DEF Moves
<1>4. /\ pc[t] \in 2 .. Last(t) => thread_flags[t]
      /\ pc[o] \in 2 .. Last(o) => thread_flags[o]
      /\ Inside(t) => ~Inside(o) /\ (Waits(o) => turn = o)
      /\ Inside(o) => ~Inside(t) /\ (Waits(t) => turn = t)
  BY <1>1 DEF LockInv
<1> HIDE DEF o
<1>5. SUFFICES /\ turn' \in Users /\ thread_flags' \in [Users -> BOOLEAN]
               /\ itemSize' \in Int /\ count' \in Int
               /\ pc'[t] \in 1 .. Last(t) + 1 /\ pc'[o] = pc[o]
               /\ pc'[t] \in 2 .. Last(t) => thread_flags'[t]
               /\ thread_flags'[o] = thread_flags[o]
               /\ Inside(t)' => ~Inside(o)' /\ (Waits(o)' => turn' = o)
               /\ Inside(o)' => (Waits(t)' => turn' = t)
               /\ FoundInv'
  <2>1. ASSUME NEW v \in Users PROVE Last(v)' = Last(v) /\ Other(v)' = Other(v)
    BY DEF Last, Other
  <2> QED
    BY <1>1, <1>2, <1>4, <2>1 DEF RangeInv, LockInv, o
<1>6. CASE \/ /\ Moves(t, 1, 2)
              /\ thread_flags' = [thread_flags EXCEPT ![t] = TRUE]
              /\ UNCHANGED <<turn, items>>
           \/ Moves(t, 2, 3) /\ turn' = t /\ UNCHANGED <<thread_flags, items>>
           \/ Moves(t, 3, 4) /\ UNCHANGED <<peterson, items>>
           \/ Moves(t, 4, 3) /\ UNCHANGED <<peterson, items>>
  <2>1. /\ pc[t] \in 1 .. 4 /\ pc'[t] \in 2 .. 4 /\ pc'[o] = pc[o]
        /\ UNCHANGED <<itemSize, count, found>>
        /\ pc[t] = 1 \/ thread_flags'[t] = thread_flags[t]
        /\ pc[t] = 1 => thread_flags'[t]
        /\ thread_flags'[o] = thread_flags[o]
        /\ thread_flags' \in [Users -> BOOLEAN]
        /\ turn' = turn \/ (turn' = t /\ pc[t] = 2)
        /\ pc[t] \in {1, 2} => ~Waits(t)
        /\ pc[t] = 1 => pc'[t] = 2
        /\ pc[t] = 2 => turn' = t
    <3>1. CASE Moves(t, 1, 2)
      <4>1. pc[t] = 1 /\ pc'[t] = 2 /\ pc'[o] = pc[o]
        BY <1>3, <3>1
      <4>2. /\ thread_flags' = [thread_flags EXCEPT ![t] = TRUE]
            /\ UNCHANGED <<turn, items>>
        BY <1>6, <4>1 DEF Moves
      <4> QED
        BY <1>1, <1>2, <4>1, <4>2 DEF items, Waits
    <3>2. CASE Moves(t, 2, 3)
      BY <1>1, <1>2, <1>3, <1>6, <3>2 DEF items, peterson, Waits
    <3>3. CASE Moves(t, 3, 4) \/ Moves(t, 4, 3)
      BY <1>1, <1>2, <1>3, <1>6, <3>3 DEF items, peterson, Waits
    <3> QED
      BY <1>6, <3>1, <3>2, <3>3
  <2>2. thread_flags'[t]
    <3>1. pc[t] = 1 \/ pc[t] \in 2 .. Last(t)
      BY <1>1, <2>1
    <3> QED
      BY <1>4, <2>1, <3>1
  <2>3. ~Inside(t)' /\ Inside(o)' = Inside(o)
    BY <1>1, <2>1 DEF Inside, Last
  <2>4. Inside(o)' => (Waits(t)' => turn' = t)
    BY <1>4, <2>1, <2>3 DEF Waits
  <2>5. FoundInv'
    BY <1>1, <2>1, UsersLemma DEF FoundInv
  <2> QED
    BY <1>1, <1>2, <2>1, <2>2, <2>3, <2>4, <2>5
<1>7. CASE \/ Moves(t, 3, 5) /\ turn # t /\ UNCHANGED <<peterson, items>>
           \/ Moves(t, 4, 5) /\ ~thread_flags[Other(t)] /\ UNCHANGED <<peterson, items>>
  <2>1. /\ pc[t] \in {3, 4} /\ pc'[t] = 5 /\ pc'[o] = pc[o]
        /\ UNCHANGED <<itemSize, count, found, turn, thread_flags>>
        /\ turn # t \/ ~thread_flags[o]
    BY <1>3, <1>7 DEF items, peterson, o
  <2>2. Waits(o)' = Waits(o) /\ Inside(o)' = Inside(o) /\ Waits(t)
    BY <2>1 DEF Waits, Inside, Last
  <2>3. ~Inside(o)
    BY <1>1, <1>4, <2>1, <2>2 DEF Inside
  <2>4. Waits(o) => turn = o
    <3>1. turn = t \/ turn = o
      BY <1>1, <1>2
    <3>2. Waits(o) => pc[o] \in 2 .. Last(o)
      BY <1>1 DEF Waits
    <3> QED
      BY <1>4, <2>1, <3>1, <3>2
  <2>5. FoundInv'
    BY <1>1, <2>1, UsersLemma DEF FoundInv
  <2> QED
    BY <1>1, <1>2, <1>4, <2>1, <2>2, <2>3, <2>4, <2>5
<1>8. CASE /\ Moves(t, Last(t), Last(t) + 1)
           /\ thread_flags' = [thread_flags EXCEPT ![t] = FALSE]
           /\ UNCHANGED <<turn, items>>
  <2>1. /\ pc'[t] = Last(t) + 1 /\ pc'[o] = pc[o]
        /\ UNCHANGED <<itemSize, count, found, turn>>
        /\ thread_flags'[o] = thread_flags[o] /\ thread_flags' \in [Users -> BOOLEAN]
    BY <1>1, <1>2, <1>3, <1>8 DEF items
  <2>2. ~Inside(t)' /\ ~Waits(t)'
    BY <1>1, <2>1 DEF Inside, Waits, Last
  <2>3. FoundInv'
    BY <1>1, <2>1, UsersLemma DEF FoundInv
  <2> QED
    BY <1>1, <2>1, <2>2, <2>3, <1>2
<1>9. CASE \/ /\ t = Producer /\ Moves(t, 5, 6) /\ count' = itemSize + 1
              /\ UNCHANGED <<peterson, itemSize, found>>
           \/ /\ t = Producer /\ Moves(t, 6, 7) /\ itemSize' = count
              /\ UNCHANGED <<peterson, count, found>>
           \/ /\ t = Consumer /\ Moves(t, 5, 6)
              /\ found' = (IF itemSize <= 0 THEN "nothing" ELSE "item")
              /\ UNCHANGED <<peterson, itemSize, count>>
  <2>1. /\ pc[t] \in {5, 6} /\ pc'[t] \in {6, 7} /\ pc'[o] = pc[o]
        /\ pc[t] <= Last(t) /\ pc'[t] <= Last(t) /\ turn' = turn /\ thread_flags' = thread_flags
        /\ itemSize' \in Int /\ count' \in Int
    BY <1>2, <1>3, <1>9, UsersLemma DEF peterson
  <2>2. Inside(t) /\ Inside(t)' /\ Inside(o)' = Inside(o) /\ Waits(o)' = Waits(o)
    BY <1>1, <2>1 DEF Inside, Waits, Last
  <2>3. thread_flags'[t]
    BY <1>1, <1>4, <2>1
  <2>4. FoundInv'
    <3>1. CASE t = Producer
      <4>1. ~Inside(Consumer) /\ pc'[Consumer] = pc[Consumer]
        BY <1>4, <2>1, <2>2, <3>1, UsersLemma DEF o
      <4> QED
        BY <4>1, UsersLemma DEF Inside, FoundInv
    <3>2. CASE t = Consumer
      <4>1. itemSize' = itemSize /\ found' = IF itemSize <= 0 THEN "nothing" ELSE "item"
        BY <1>9, <3>2, TestThreads
      <4> QED
        BY <1>2, <4>1 DEF FoundInv
    <3> QED
      BY <3>1, <3>2 DEF Users
  <2> QED
    BY <1>1, <1>2, <1>4, <2>1, <2>2, <2>3, <2>4
<1> QED
  BY <1>6, <1>7, <1>8, <1>9, UserSteps

LEMMA ItemInductive ==
    OwnershipInv /\ ProgramInv /\ ItemInv /\ [TestNext]_testVars => ItemInv'
<1> SUFFICES ASSUME OwnershipInv, ProgramInv, ItemInv, [TestNext]_testVars, WithPeterson'
             PROVE  MainAbsent' /\ RangeInv' /\ LockInv' /\ FoundInv'
  BY DEF ItemInv
<1>1. test' = test
  BY DEF TestNext, kernelMain, Step, Instruction, Runs, At, LibraryCall, Return,
         Interrupt, MemoryException, testVars
<1>2. WithPeterson /\ TypeOK /\ MainAbsent /\ RangeInv /\ LockInv /\ FoundInv
  BY <1>1 DEF WithPeterson, ItemInv, OwnershipInv
<1>3. ASSUME UNCHANGED <<pc, peterson, items>>
      PROVE  RangeInv' /\ LockInv' /\ FoundInv'
  BY <1>2, <1>3 DEF peterson, items, RangeInv, LockInv, FoundInv,
                    Inside, Waits, Last, Other
<1>4. CASE kernelMain
  <2>1. Activate \/ \E t \in Thread \ {Main} : CreateThread(t)
    BY <1>2, <1>4, KernelMainSteps DEF WithPeterson, JoinTests
  <2> QED
    BY <1>2, <1>3, <1>4, <2>1, MainStaysAbsent DEF kernelMain
<1>5. ASSUME NEW t \in Thread, Instruction(t)
      PROVE  MainAbsent' /\ RangeInv' /\ LockInv' /\ FoundInv'
  <2>1. mode = "user" /\ cpu = t
    BY <1>5 DEF Instruction, Runs, Executes
  <2>2. t \in Users
    BY <1>2, <2>1, UserRuns
  <2>3. UNCHANGED vars
    BY <1>5, InstructionSteps
  <2> QED
    BY <1>2, <1>5, <2>2, <2>3, UserItem, MainStaysAbsent
<1>6. ASSUME NEW t \in Thread, LibraryCall(t) PROVE FALSE
  <2>1. PICK op \in LibraryOps : \E offset \in 0 .. 1 : At(t, op, offset)
    BY <1>6 DEF LibraryCall, LibraryOps
  <2>2. op # "test_flag"
    BY <2>1 DEF LibraryOps
  <2>3. pc[t] \in 1 .. Len(Code(t)) /\ Code(t)[pc[t]].op = op
    BY <2>1, <2>2, AtLemma
  <2> QED
    BY <1>2, <2>1, <2>3, CodeLemma DEF WithPeterson, JoinTests, Test
<1>7. ASSUME NEW t \in Thread, Return(t)
      PROVE  MainAbsent' /\ RangeInv' /\ LockInv' /\ FoundInv'
  BY <1>2, <1>3, <1>7, MainStaysAbsent DEF Return, Program
<1>8. CASE Interrupt \/ MemoryException
  BY <1>2, <1>3, <1>8, MainStaysAbsent DEF Interrupt, MemoryException
<1>9. CASE UNCHANGED testVars
  BY <1>2, <1>3, <1>9, MainStaysAbsent DEF testVars
<1> QED
  BY <1>4, <1>5, <1>6, <1>7, <1>8, <1>9 DEF TestNext, Step

LEMMA TestInvariants == TestSpec => [](OwnershipInv /\ ProgramInv)
<1>1. TestInit => OwnershipInv /\ ProgramInv
  BY InitOwnership DEF TestInit, ProgramInv
<1>2. OwnershipInv => TypeOK
  BY DEF OwnershipInv
<1> QED
  BY <1>1, <1>2, TestRefines, OwnershipInductive, PTL DEF TestSpec

\* What the consumer read under the lock holds until it lowers its flag, wherever
\* the ticks of Schedule fall between the instructions of lock_with_peterson.
THEOREM ItemIsProtected == TestSpec => []ItemProtected
<1>1. ItemInv => ItemProtected
  BY DEF ItemInv, WithPeterson, FoundInv, ItemProtected
<1> QED
  BY <1>1, InitItem, ItemInductive, TestInvariants, PTL DEF TestSpec
-----------------------------------------------------------------------------
(* The tests with joins *)

WithJoins == test \in JoinTests

\* Producer and Consumer loop for ever; Main waits where its code has a join, and
\* ends behind the last one.
MainInv ==
    /\ \A t \in Users : pc[t] = 1 /\ ~finished[t]
    /\ joining[Main] # None => /\ pc[Main] \in 1 .. Len(Code(Main))
                              /\ Code(Main)[pc[Main]] = Call("join", joining[Main])
    /\ finished[Main] => pc[Main] > Len(Code(Main))
    /\ pc[Main] <= Len(Code(Main)) + 1

\* The join of a thread has returned only if the thread is dead.
JoinedInv == \A u \in Thread : Joined(u) => state[u] = "DEAD"

\* kernelMain creates Main last.
CreatedInv ==
    /\ pc[Main] = 1
    /\ thread_size = threadIDCounter /\ thread_size <= 3
    /\ \A k \in 0 .. thread_size - 1 : threads[k] = Created[k + 1]
    /\ \A t \in Thread : state[t] # "DEAD"

DeadListed == \E k \in 0 .. thread_size - 1 : state[threads[k]] = "DEAD"

\* Main is the last entry.  Terminated threads wait in the run queue only while Main
\* has the processor: Schedule counts on from the last index before the loop, and
\* with at most three entries that is Main again as soon as one of them is gone.
MainLast ==
    /\ state[Main] # "DEAD" /\ ~unhandled
    /\ thread_size \in 1 .. 3 /\ threads[thread_size - 1] = Main
    /\ \A t \in Thread : state[t] = "DEAD" => cpu # t
    /\ mode \in {"user", "schedule"} => (DeadListed => cpu = Main)
    /\ mode = "clean" =>
          /\ bound <= 3
          /\ \A k \in thread_size - 1 .. bound - 1 : threads[k] = Main
          /\ thread_size = bound =>
                \A k \in 0 .. thread_size - 1 : k < i => state[threads[k]] # "DEAD"
          /\ thread_size < bound \/ DeadListed => tempCurr = bound - 1

\* Main has run into its exception, and with it the last live thread is gone: the
\* loop takes every entry out.
AllGone ==
    /\ \A t \in Thread : state[t] = "DEAD"
    /\ cpu \in {Main, Kernel}
    /\ mode = "user" => cpu = Kernel /\ thread_size = 0
    /\ mode = "clean" => thread_size = bound - i

JoinInv ==
    WithJoins =>
        /\ MainInv
        /\ JoinedInv
        /\ mode = "boot" => CreatedInv
        /\ mode # "boot" => MainLast \/ AllGone
        /\ mode = "wild" => AllGone

LEMMA CallLemma == \A op, t : Call(op, t).op = op /\ Call(op, t).thread = t
  BY DEF Call

LEMMA MainCode ==
    ASSUME WithJoins
    PROVE  /\ Len(Code(Main)) \in Nat
           /\ \A k \in 1 .. Len(Code(Main)) :
                 \E u \in Users : \/ Code(Main)[k] = Call("terminate", u)
                                 \/ Code(Main)[k] = Call("join", u)
           /\ \A u \in Users : \E k \in 1 .. Len(Code(Main)) : Code(Main)[k] = Call("join", u)
           /\ \A t \in Users : Len(Code(t)) = 1 /\ Code(t)[1].op = "loop"
<1>1. \A t \in Users : Len(Code(t)) = 1 /\ Code(t)[1].op = "loop"
  BY JoinCode DEF WithJoins, Users
<1>2. CASE Code(Main) = MainEvent
  <2>1. /\ Len(Code(Main)) = 4
        /\ Code(Main)[1] = Call("terminate", Producer)
        /\ Code(Main)[2] = Call("terminate", Consumer)
        /\ Code(Main)[3] = Call("join", Producer)
        /\ Code(Main)[4] = Call("join", Consumer)
    BY <1>2 DEF MainEvent
  <2>2. \A k \in 1 .. Len(Code(Main)) : k \in {1, 2, 3, 4}
    BY <2>1
  <2> QED
    BY <1>1, <2>1, <2>2 DEF Users
<1>3. CASE Code(Main) = MainEvent_2
  <2>1. /\ Len(Code(Main)) = 3
        /\ Code(Main)[1] = Call("terminate", Producer)
        /\ Code(Main)[2] = Call("join", Producer)
        /\ Code(Main)[3] = Call("join", Consumer)
    BY <1>3 DEF MainEvent_2
  <2>2. \A k \in 1 .. Len(Code(Main)) : k \in {1, 2, 3}
    BY <2>1
  <2> QED
    BY <1>1, <2>1, <2>2 DEF Users
<1> QED
  BY <1>2, <1>3, JoinCode DEF WithJoins

\* What Main has done at the end of its step, and where it stands.
MainStep(u) ==
    \/ /\ TermniateThread(Main, u) /\ Code(Main)[pc[Main]] = Call("terminate", u)
       /\ pc' = [pc EXCEPT ![Main] = pc[Main] + 1]
    \/ /\ JoinThread(Main, u) /\ Code(Main)[pc[Main]] = Call("join", u)
       /\ pc' = pc
    \/ /\ JoinReturns(Main) /\ joining[Main] = u
       /\ pc' = [pc EXCEPT ![Main] = pc[Main] + 1]

\* Only Main does anything.
LEMMA JoinSteps ==
    ASSUME WithJoins, ProgramInv, MainInv, NEW t \in Thread, Step(t)
    PROVE  /\ t = Main
           /\ \/ Finish(Main) /\ pc[Main] > Len(Code(Main)) /\ pc' = pc
              \/ /\ pc[Main] \in 1 .. Len(Code(Main))
                 /\ \E u \in Users : MainStep(u)
<1>1. test \in Test /\ pc[t] \in Nat \ {0} /\ Len(Code(Main)) \in Nat
  BY MainCode DEF ProgramInv
<1>2. t = Main \/ (t \in Users /\ pc[t] = 1 /\ Len(Code(t)) = 1 /\ Code(t)[1].op = "loop")
  BY MainCode, TestThreads DEF MainInv, Users
<1>3. ASSUME NEW op, NEW offset \in -1 .. 2, At(t, op, offset), op # "loop",
             offset = -1 => op = "test_flag"
      PROVE  /\ t = Main /\ op \in LibraryOps
             /\ pc' = [pc EXCEPT ![Main] = pc[Main] + offset]
             /\ pc[Main] \in 1 .. Len(Code(Main))
             /\ \E u \in Users : Code(Main)[pc[Main]] = Call(op, u)
  <2>1. /\ pc' = [pc EXCEPT ![t] = pc[t] + offset]
        /\ pc[t] \in 1 .. Len(Code(t)) /\ Code(t)[pc[t]].op = op
    BY <1>3, AtLemma
  <2>2. t = Main
    BY <1>2, <1>3, <2>1
  <2>3. \E u \in Users : Code(Main)[pc[Main]] = Call("terminate", u)
                        \/ Code(Main)[pc[Main]] = Call("join", u)
    BY <2>1, <2>2, MainCode
  <2> QED
    BY <2>1, <2>2, <2>3, CallLemma DEF LibraryOps
<1>4. ~Instruction(t)
  <2>1. ASSUME NEW op, NEW offset \in -1 .. 2, Runs(t, op, offset), op # "loop",
               offset = -1 => op = "test_flag"
        PROVE  op \in LibraryOps
    BY <1>3, <2>1 DEF Runs
  <2>2. ~Runs(t, "test_turn", IF turn = t THEN 1 ELSE 2)
    BY <2>1 DEF LibraryOps
  <2>3. ~Runs(t, "test_flag", IF thread_flags[Other(t)] THEN -1 ELSE 1)
    BY <2>1 DEF LibraryOps
  <2>4. /\ ~Runs(t, "print", 1) /\ ~Runs(t, "flag", 1) /\ ~Runs(t, "turn", 1)
        /\ ~Runs(t, "unflag", 1) /\ ~Runs(t, "load", 1) /\ ~Runs(t, "store", 1)
        /\ ~Runs(t, "test", 1)
    BY <2>1 DEF LibraryOps
  <2> QED
    BY <2>2, <2>3, <2>4 DEF Instruction
<1>5. CASE LibraryCall(t)
  <2>1. CASE At(t, "terminate", 1) /\ TermniateThread(t, Argument(t))
    <3>1. /\ t = Main /\ pc[Main] \in 1 .. Len(Code(Main))
          /\ pc' = [pc EXCEPT ![Main] = pc[Main] + 1]
          /\ \E u \in Users : Code(Main)[pc[Main]] = Call("terminate", u)
      BY <1>3, <2>1
    <3> QED
      BY <2>1, <3>1, CallLemma DEF Argument, MainStep
  <2>2. CASE At(t, "join", 0) /\ JoinThread(t, Argument(t))
    <3>1. /\ t = Main /\ pc[Main] \in 1 .. Len(Code(Main))
          /\ pc' = [pc EXCEPT ![Main] = pc[Main] + 0]
          /\ \E u \in Users : Code(Main)[pc[Main]] = Call("join", u)
      BY <1>3, <2>2
    <3>2. pc' = pc
      BY <1>1, <3>1 DEF ProgramInv
    <3> QED
      BY <2>2, <3>1, <3>2, CallLemma DEF Argument, MainStep
  <2>3. CASE At(t, "join", 1) /\ JoinReturns(t)
    <3>1. /\ t = Main /\ pc[Main] \in 1 .. Len(Code(Main))
          /\ pc' = [pc EXCEPT ![Main] = pc[Main] + 1]
          /\ \E u \in Users : Code(Main)[pc[Main]] = Call("join", u)
      BY <1>3, <2>3
    <3>2. joining[Main] \in Users
      BY <2>3, <3>1, CallLemma DEF MainInv, JoinReturns
    <3> QED
      BY <2>3, <3>1, <3>2 DEF MainStep
  <2> QED
    BY <1>5, <2>1, <2>2, <2>3 DEF LibraryCall
<1>6. CASE Return(t)
  <2>1. Finish(t) /\ pc' = pc /\ pc[t] > Len(Code(t))
    BY <1>6 DEF Return
  <2>2. t = Main
    BY <1>2, <2>1
  <2> QED
    BY <2>1, <2>2
<1> QED
  BY <1>4, <1>5, <1>6 DEF Step

DeadStay == \A t \in Thread : state[t] = "DEAD" => state'[t] = "DEAD"

LEMMA CodeStays ==
    ASSUME test' = test
    PROVE  /\ WithJoins' = WithJoins
           /\ \A t \in Thread : Code(t)' = Code(t)
           /\ Created' = Created
  BY DEF WithJoins, Code, Created

\* A step of the library or of the processor.
LEMMA OthersMain ==
    ASSUME WithJoins, MainInv, JoinedInv, DeadStay, UNCHANGED <<test, pc, program>>
    PROVE  MainInv' /\ JoinedInv'
<1>1. Code(Main)' = Code(Main)
  BY CodeStays, TestThreads
<1>2. UNCHANGED <<test, pc, joining, finished>>
  BY DEF program
<1>3. MainInv'
  BY <1>1, <1>2 DEF MainInv
<1>4. ASSUME NEW u PROVE Joined(u)' => Joined(u)
  BY <1>1, <1>2 DEF Joined
<1> QED
  BY <1>3, <1>4 DEF JoinedInv, DeadStay

\* A step of Main.
LEMMA MainMain ==
    ASSUME WithJoins, TypeOK, ProgramInv, MainInv, JoinedInv, NEW t \in Thread, Step(t),
           test' = test
    PROVE  MainInv' /\ JoinedInv' /\ DeadStay
<1>1. /\ Code(Main)' = Code(Main) /\ Main \in Thread /\ Users \subseteq Thread
      /\ Main \notin Users /\ None \notin Thread
  BY CodeStays, TestThreads DEF Users
<1>2. /\ pc \in [Thread -> Nat \ {0}] /\ joining \in [Thread -> Thread \cup {None}]
      /\ finished \in [Thread -> BOOLEAN] /\ state \in [Thread -> THREAD_STATE]
  BY DEF ProgramInv, TypeOK
<1>3. CASE Finish(Main) /\ pc[Main] > Len(Code(Main)) /\ pc' = pc
  <2>1. /\ finished' = [finished EXCEPT ![Main] = TRUE]
        /\ joining' = joining /\ state' = state /\ pc' = pc
    BY <1>3 DEF Finish
  <2>2. MainInv'
    BY <1>1, <1>2, <1>3, <2>1 DEF MainInv
  <2>3. ASSUME NEW u PROVE Joined(u)' => Joined(u)
    BY <1>1, <2>1 DEF Joined
  <2> QED
    BY <2>1, <2>2, <2>3 DEF JoinedInv, DeadStay
<1>4. ASSUME NEW u \in Users, MainStep(u), pc[Main] \in 1 .. Len(Code(Main))
      PROVE  MainInv' /\ JoinedInv' /\ DeadStay
  <2>1. finished' = finished /\ ~finished[Main]
    <3>1. finished' = finished
      BY <1>4 DEF MainStep, TermniateThread, JoinThread, JoinReturns, program
    <3>2. ~finished[Main]
      BY <1>4, MainCode DEF MainInv
    <3> QED
      BY <3>1, <3>2
  <2>2. pc[Main] + 1 <= (Len(Code(Main)) + 1)'
    BY <1>1, <1>4, MainCode
  <2>3. \A v \in Users : pc'[v] = pc[v]
    BY <1>1, <1>2, <1>4 DEF MainStep
  <2>4. CASE /\ TermniateThread(Main, u) /\ Code(Main)[pc[Main]] = Call("terminate", u)
             /\ pc' = [pc EXCEPT ![Main] = pc[Main] + 1]
    <3>1. /\ joining' = joining /\ joining[Main] = None
          /\ state' = [state EXCEPT ![u] = "DEAD"] /\ pc'[Main] = pc[Main] + 1
      BY <1>1, <1>2, <2>4 DEF TermniateThread, Executes, program
    <3>2. DeadStay
      BY <1>1, <1>2, <3>1 DEF DeadStay
    <3>3. ASSUME NEW v PROVE Joined(v)' => Joined(v)
      BY <1>1, <1>2, <2>4, <3>1, CallLemma DEF Joined
    <3> QED
      BY <2>1, <2>2, <2>3, <3>1, <3>2, <3>3 DEF MainInv, JoinedInv, DeadStay
  <2>5. CASE /\ JoinThread(Main, u) /\ Code(Main)[pc[Main]] = Call("join", u)
             /\ pc' = pc
    <3>1. /\ joining' = [joining EXCEPT ![Main] = u] /\ state' = state
      BY <2>5 DEF JoinThread
    <3>2. joining'[Main] = u /\ DeadStay
      BY <1>1, <1>2, <3>1 DEF DeadStay
    <3>3. ASSUME NEW v PROVE Joined(v)' => Joined(v)
      BY <1>1, <2>5 DEF Joined
    <3> QED
      BY <1>1, <1>4, <2>1, <2>3, <2>5, <3>1, <3>2, <3>3 DEF MainInv, JoinedInv
  <2>6. CASE /\ JoinReturns(Main) /\ joining[Main] = u
             /\ pc' = [pc EXCEPT ![Main] = pc[Main] + 1]
    <3>1. /\ joining'[Main] = None /\ state' = state /\ state[u] = "DEAD"
          /\ pc'[Main] = pc[Main] + 1
      BY <1>1, <1>2, <2>6 DEF JoinReturns
    <3>2. Code(Main)[pc[Main]] = Call("join", u)
      BY <1>1, <2>6 DEF MainInv
    <3>3. ASSUME NEW v PROVE Joined(v)' => Joined(v) \/ v = u
      BY <1>1, <1>2, <3>1, <3>2, CallLemma DEF Joined
    <3> QED
      BY <2>1, <2>2, <2>3, <3>1, <3>3 DEF MainInv, JoinedInv, DeadStay
  <2> QED
    BY <1>4, <2>4, <2>5, <2>6 DEF MainStep
<1> QED
  BY <1>3, <1>4, JoinSteps

\* kernelMain fills the run queue with Main last, then turns the interrupts on.
LEMMA BootJoin ==
    ASSUME OwnershipInv, WithJoins, ProgramInv, MainInv, JoinedInv, CreatedInv,
           mode = "boot", kernelMain
    PROVE  /\ MainInv' /\ JoinedInv' /\ mode' # "wild"
           /\ mode' = "boot" => CreatedInv'
           /\ mode' # "boot" => MainLast'
<1>1. /\ Created = << Producer, Consumer, Main >> /\ Len(Created) = 3 /\ Created[3] = Main
      /\ Created' = Created /\ test' = test
  BY CreatedLemma, CodeStays DEF WithJoins, kernelMain
<1>2. TypeOK /\ QueueOK /\ NoThreadYet /\ ~unhandled
  BY DEF OwnershipInv, BootInv
<1>3. /\ pc[Main] = 1 /\ thread_size = threadIDCounter /\ thread_size \in 0 .. 3
      /\ \A k \in 0 .. thread_size - 1 : threads[k] = Created[k + 1]
      /\ \A t \in Thread : state[t] # "DEAD"
  BY <1>2 DEF CreatedInv, TypeOK
<1>4. CASE threadIDCounter < 3
  <2>1. CreateThread(Created[threadIDCounter + 1]) /\ UNCHANGED <<test, pc>>
    BY <1>1, <1>4 DEF kernelMain
  <2>2. threadIDCounter + 1 \in 1 .. 3 /\ Created[threadIDCounter + 1] \in Thread
    BY <1>1, <1>3, <1>4, TestThreads
  <2> DEFINE c == Created[threadIDCounter + 1]
  <2> HIDE DEF c
  <2>3. CreateThread(c) /\ c \in Thread
    BY <2>1, <2>2 DEF c
  <2>4. mode' = "boot" /\ program' = program
    BY <1>2, <2>3 DEF CreateThread, OwnershipInv
  <2>5. CASE AddThread(c)
    <3>1. /\ threadIDCounter' = threadIDCounter + 1 /\ thread_size' = thread_size + 1
          /\ threads' = [threads EXCEPT ![thread_size] = c]
          /\ state' = [state EXCEPT ![c] = "RUNNABLE"] /\ thread_size < Capacity
      BY <2>5 DEF AddThread
    <3>2. \A t \in Thread : state'[t] # "DEAD"
      BY <1>2, <1>3, <2>3, <3>1 DEF TypeOK
    <3>3. ASSUME NEW k \in 0 .. thread_size' - 1 PROVE threads'[k] = Created[k + 1]
      <4>1. k \in 0 .. thread_size - 1 \/ k = thread_size
        BY <1>3, <3>1
      <4>2. thread_size \in Index
        BY <1>3, <3>1, BoundsAssumption DEF Index
      <4> QED
        BY <1>2, <1>3, <3>1, <4>1, <4>2 DEF TypeOK, c
    <3>4. CreatedInv'
      BY <1>1, <1>3, <1>4, <2>1, <3>1, <3>2, <3>3 DEF CreatedInv
    <3>5. DeadStay
      BY <1>3 DEF DeadStay
    <3> QED
      BY <1>1, <2>1, <2>4, <3>4, <3>5, OthersMain
  <2>6. CASE AddThreadRefuses(c)
    <3>1. UNCHANGED <<threadIDCounter, state, threads, thread_size>>
      BY <2>6 DEF AddThreadRefuses
    <3>2. CreatedInv'
      BY <1>1, <1>3, <2>1, <3>1 DEF CreatedInv
    <3>3. DeadStay
      BY <1>3 DEF DeadStay
    <3> QED
      BY <1>1, <2>1, <2>4, <3>2, <3>3, OthersMain
  <2> QED
    BY <2>3, <2>5, <2>6 DEF CreateThread
<1>5. CASE ~(threadIDCounter < 3)
  <2>1. Activate /\ UNCHANGED <<test, pc>>
    BY <1>1, <1>5 DEF kernelMain
  <2>2. /\ mode' = "user"
        /\ UNCHANGED <<threads, thread_size, state, cpu, unhandled, program>>
    BY <2>1 DEF Activate, queue, locals
  <2>3. thread_size = 3 /\ threads[2] = Main
    <3>1. thread_size = 3
      BY <1>3, <1>5
    <3>2. threads[2] = Created[2 + 1]
      BY <1>3, <3>1
    <3> QED
      BY <1>1, <3>1, <3>2
  <2>4. /\ \A t \in Thread : state'[t] # "DEAD"
        /\ ~unhandled'
    BY <1>2, <1>3, <2>2
  <2>5. ~DeadListed'
    <3>1. \A k \in 0 .. thread_size - 1 : threads[k] \in Thread
      BY <1>2 DEF QueueOK
    <3> QED
      BY <2>2, <2>4, <3>1 DEF DeadListed
  <2>6. MainLast'
    BY <2>2, <2>3, <2>4, <2>5, TestThreads DEF MainLast
  <2>7. DeadStay
    BY <1>3 DEF DeadStay
  <2> QED
    BY <1>1, <2>1, <2>2, <2>6, <2>7, OthersMain
<1> QED
  BY <1>4, <1>5

\* A step of Main in front of its last entry: it can terminate another thread.
LEMMA MainStepLast ==
    ASSUME TypeOK, WithJoins, ProgramInv, MainInv, MainLast, NEW t \in Thread, Step(t)
    PROVE  MainLast' /\ mode' = "user"
<1>1. Main \in Thread /\ Users \subseteq Thread /\ Main \notin Users
  BY TestThreads DEF Users
<1>2. /\ mode = "user" /\ cpu = Main
      /\ UNCHANGED <<threads, thread_size, cpu, mode, unhandled>>
      /\ state' = state \/ \E u \in Users : state' = [state EXCEPT ![u] = "DEAD"]
  BY JoinSteps DEF MainStep, Finish, TermniateThread, JoinThread, JoinReturns,
                   Executes, queue, locals
<1>3. state'[Main] = state[Main] /\ \A u \in Thread : state'[u] = "DEAD" =>
                                       u \in Users \/ state[u] = "DEAD"
  BY <1>1, <1>2 DEF TypeOK
<1> QED
  BY <1>1, <1>2, <1>3 DEF MainLast

\* The exception of Main, when all others are dead.
LEMMA FaultJoin ==
    ASSUME OwnershipInv, WithJoins, ProgramInv, MainInv, JoinedInv, MainLast \/ AllGone, Fault
    PROVE  AllGone' /\ DeadStay /\ program' = program
<1>1. TypeOK /\ mode = "user" /\ cpu \in Thread /\ finished[cpu] /\ IndexOK /\ QueueOK
  BY DEF OwnershipInv, OwnerInv, Fault
<1>2. cpu = Main
  BY <1>1, TestThreads DEF MainInv, Users
<1>3. \A u \in Users : state[u] = "DEAD"
  <2>1. pc[Main] > Len(Code(Main)) /\ Len(Code(Main)) \in Nat /\ pc[Main] \in Nat
    BY <1>1, <1>2, MainCode, TestThreads DEF MainInv, ProgramInv
  <2>2. ASSUME NEW u \in Users PROVE Joined(u)
    <3>1. PICK k \in 1 .. Len(Code(Main)) : Code(Main)[k] = Call("join", u)
      BY MainCode
    <3>2. k \in 1 .. pc[Main] - 1
      BY <2>1
    <3> QED
      BY <3>1, <3>2 DEF Joined, WithJoins, JoinTests
  <2> QED
    BY <2>2, TestThreads DEF JoinedInv, Users
<1>4. threads[current_thread_idx] = Main
  BY <1>1, <1>2, ContextsAssumption DEF IndexOK, NoThreadYet
<1>5. /\ state' = [state EXCEPT ![Main] = "DEAD"] /\ mode' = "schedule"
      /\ cpu' = cpu /\ program' = program
  BY <1>4 DEF Fault, RemoveCurrentThread, RemoveAt
<1>6. \A t \in Thread : state'[t] = "DEAD"
  BY <1>1, <1>3, <1>5, TestThreads DEF TypeOK, Users
<1> QED
  BY <1>2, <1>5, <1>6 DEF AllGone, DeadStay

\* A tick while Main is alive.
LEMMA TickJoin ==
    ASSUME mode = "user", MainLast, TimerInterrupt
    PROVE  MainLast' /\ DeadStay /\ program' = program
  BY DEF TimerInterrupt, MainLast, DeadListed, DeadStay, queue

\* While Main is in the run queue the kernel's stack is not at address 0: after the
\* first tick the processor has the thread at the index.
LEMMA NotAtZero ==
    ASSUME OwnershipInv, MainLast, InterruptAtZero
    PROVE  FALSE
<1>1. /\ mode = "user" /\ cpu = Kernel /\ ~firstInterrupt /\ thread_size > 0
  BY DEF InterruptAtZero, StackAtZero, MainLast
<1>2. IndexOK /\ QueueOK /\ FirstTickInv
  BY <1>1 DEF OwnershipInv, OwnerInv
<1> QED
  BY <1>1, <1>2, ContextsAssumption DEF IndexOK, QueueOK, FirstTickInv, NoThreadYet

\* Schedule saves the interrupted thread; if somebody is dead, that is Main, the last.
LEMMA PrologueJoin ==
    ASSUME OwnershipInv, MainLast, SchedulePrologue
    PROVE  MainLast' /\ DeadStay /\ mode' = "clean" /\ program' = program
<1>1. /\ TypeOK /\ QueueOK /\ IndexOK /\ mode = "schedule" /\ ~unhandled
  BY DEF OwnershipInv, OwnerInv, SchedulePrologue, MainLast
<1>2. /\ UNCHANGED <<threads, thread_size, cpu, unhandled, program>>
      /\ mode' = "clean" /\ i' = 0 /\ bound' = thread_size /\ tempCurr' = current_thread_idx
      /\ thread_size > 0
  BY DEF SchedulePrologue, queue
<1>3. /\ state \in [Thread -> THREAD_STATE] /\ state' \in [Thread -> THREAD_STATE]
      /\ \A t \in Thread : state'[t] = "DEAD" <=> state[t] = "DEAD"
  <2>1. CASE SavesCurrent
    <3>1. YieldThread
      BY <2>1 DEF SchedulePrologue
    <3> QED
      BY <1>1, <3>1 DEF TypeOK, YieldThread, THREAD_STATE
  <2>2. CASE ~SavesCurrent
    BY <1>1, <2>2 DEF SchedulePrologue, TypeOK
  <2> QED
    BY <2>1, <2>2
<1>4. \A k \in 0 .. thread_size - 1 : threads[k] \in Thread
  BY <1>1 DEF QueueOK
<1>5. DeadListed' = DeadListed
  BY <1>2, <1>3, <1>4 DEF DeadListed
<1>6. DeadListed => current_thread_idx = thread_size - 1
  <2> SUFFICES ASSUME DeadListed PROVE current_thread_idx = thread_size - 1
    OBVIOUS
  <2>1. cpu = Main /\ thread_size \in 1 .. 3 /\ threads[thread_size - 1] = Main
    BY <1>1 DEF MainLast
  <2>2. current_thread_idx \in 0 .. thread_size - 1 /\ threads[current_thread_idx] = Main
    BY <1>1, <2>1, TestThreads DEF IndexOK, NoThreadYet
  <2>3. thread_size - 1 \in 0 .. thread_size - 1
    BY <2>1
  <2> QED
    BY <1>1, <2>1, <2>2, <2>3 DEF QueueOK
<1>7. MainLast'
  BY <1>2, <1>3, <1>5, <1>6, TestThreads DEF MainLast
<1> QED
  BY <1>2, <1>3, <1>7 DEF DeadStay

\* A round of the loop takes a dead entry out of the part before Main.
LEMMA CleanJoin ==
    ASSUME OwnershipInv, MainLast, CleanRound
    PROVE  MainLast' /\ DeadStay /\ mode' = "clean" /\ program' = program
<1>1. /\ TypeOK /\ mode = "clean" /\ i \in 0 .. bound - 1 /\ bound \in 1 .. 3
      /\ thread_size \in 1 .. 3 /\ thread_size <= bound /\ QueueOK
      /\ \A k \in 0 .. bound - 1 : threads[k] \in Thread
  BY DEF OwnershipInv, LoopInv, TypeOK, CleanRound, MainLast
<1>2. /\ UNCHANGED <<cpu, mode, program, unhandled, bound, tempCurr>> /\ i' = i + 1
  BY DEF CleanRound
<1>3. CASE state[threads[i]] # "DEAD"
  <2>1. UNCHANGED <<threads, thread_size, state>>
    BY <1>3 DEF CleanRound, queue
  <2>2. DeadListed' = DeadListed
    BY <2>1 DEF DeadListed
  <2>3. thread_size = bound =>
          \A k \in 0 .. thread_size - 1 : k < i + 1 => state[threads[k]] # "DEAD"
    <3>1. ASSUME NEW k \in 0 .. thread_size - 1, k < i + 1 PROVE k < i \/ k = i
      BY <1>1, <3>1
    <3> QED
      BY <1>1, <1>3, <3>1 DEF MainLast
  <2>4. MainLast'
    BY <1>1, <1>2, <2>1, <2>2, <2>3 DEF MainLast
  <2> QED
    BY <1>1, <1>2, <2>1, <2>4 DEF DeadStay
<1>4. CASE state[threads[i]] = "DEAD"
  <2>1. /\ RemoveAt(i) /\ threads[i] # Main
    BY <1>1, <1>4, TestThreads DEF CleanRound, MainLast
  <2>2. i \in 0 .. thread_size - 2 /\ thread_size \in 2 .. 3
    <3>1. i \notin thread_size - 1 .. bound - 1
      BY <1>1, <2>1 DEF MainLast
    <3> QED
      BY <1>1, <3>1
  <2>3. DeadListed
    BY <1>1, <1>4, <2>2 DEF DeadListed
  <2>4. tempCurr = bound - 1
    BY <1>1, <2>3 DEF MainLast
  <2>5. /\ thread_size' = thread_size - 1 /\ thread_size' \in 1 .. 2
        /\ thread_size' < bound
    BY <1>1, <2>1, <2>2 DEF RemoveAt
  <2>6. state' = state
    <3>1. threads[i] \in Thread /\ state \in [Thread -> THREAD_STATE]
      BY <1>1 DEF TypeOK
    <3> QED
      BY <1>4, <2>1, <3>1 DEF RemoveAt
  <2>7. /\ threads' = [j \in Index |-> IF i <= j /\ j < thread_size - 1
                                      THEN threads[j + 1] ELSE threads[j]]
        /\ bound <= Capacity /\ Capacity \in Nat
    BY <2>1, BoundsAssumption DEF RemoveAt, OwnershipInv, TypeOK
  <2>8. \A k \in thread_size - 1 .. bound - 1 : threads[k] = Main
    BY <1>1 DEF MainLast
  <2>9. ASSUME NEW k \in thread_size' - 1 .. bound - 1 PROVE threads'[k] = Main
    <3>1. k \in Index
      BY <1>1, <2>5, <2>7 DEF Index
    <3>2. CASE k = thread_size - 2
      <4>1. threads'[k] = threads[k + 1] /\ k + 1 \in thread_size - 1 .. bound - 1
        BY <1>1, <2>2, <2>7, <3>1, <3>2
      <4> QED
        BY <2>8, <4>1
    <3>3. CASE k # thread_size - 2
      <4>1. k \in thread_size - 1 .. bound - 1
        BY <1>1, <2>5, <3>3
      <4>2. threads'[k] = threads[k]
        BY <1>1, <2>7, <3>1, <4>1
      <4> QED
        BY <2>8, <4>1, <4>2
    <3> QED
      BY <3>2, <3>3
  <2>10. threads'[thread_size' - 1] = Main
    <3>1. thread_size' - 1 \in thread_size' - 1 .. bound - 1
      BY <1>1, <2>5
    <3> QED
      BY <2>9, <3>1
  <2>11. MainLast'
    BY <1>1, <1>2, <2>4, <2>5, <2>6, <2>9, <2>10 DEF MainLast
  <2> QED
    BY <1>1, <1>2, <2>6, <2>11 DEF DeadStay
<1> QED
  BY <1>3, <1>4

\* Schedule dispatches a live thread, and Main when it has taken somebody out.
LEMMA SwitchJoin ==
    ASSUME OwnershipInv, MainLast, SwitchThread
    PROVE  MainLast' /\ DeadStay /\ mode' = "user" /\ program' = program
<1>1. /\ TypeOK /\ mode = "clean" /\ QueueOK /\ SavedInv
      /\ i = bound /\ bound \in 1 .. 3 /\ thread_size \in 1 .. 3 /\ thread_size <= bound
      /\ threads[thread_size - 1] = Main
  BY DEF OwnershipInv, LoopInv, TypeOK, SwitchThread, MainLast
<1> DEFINE n == NextIndex
           t == threads[NextIndex]
<1>2. n \in 0 .. thread_size - 1
  BY <1>1, NextIndexLemma DEF SwitchThread, TypeOK
<1>3. t \in Thread /\ cpustate[t] = t
  BY <1>1, <1>2 DEF QueueOK, SavedInv, FrameOK
<1>4. /\ UNCHANGED <<threads, thread_size, program>>
      /\ mode' = "user" /\ cpu' = t /\ ~unhandled'
      /\ state' = [state EXCEPT ![t] = "RUNNING"]
  BY <1>3 DEF SwitchThread, Resume
<1>5. thread_size < bound => t = Main
  <2> SUFFICES ASSUME thread_size < bound PROVE n = thread_size - 1
    BY <1>1
  <2>1. tempCurr = bound - 1
    BY <1>1 DEF MainLast
  <2>2. n = bound % thread_size
    BY <1>1, <2>1 DEF NextIndex
  <2>3. thread_size = 1 \/ (thread_size = 2 /\ bound = 3)
    BY <1>1
  <2>4. 2 % 1 = 0 /\ 3 % 1 = 0 /\ 3 % 2 = 1
    OBVIOUS
  <2> QED
    BY <1>1, <2>2, <2>3, <2>4
<1>6. thread_size = bound => ~DeadListed
  BY <1>1 DEF MainLast, DeadListed
<1> HIDE DEF n, t
<1>7. state[t] # "DEAD"
  <2>1. CASE thread_size < bound
    BY <1>5, <2>1 DEF MainLast
  <2>2. CASE thread_size = bound
    BY <1>2, <1>6, <2>2 DEF DeadListed, n, t
  <2> QED
    BY <1>1, <2>1, <2>2
<1>8. \A u \in Thread : state'[u] = "DEAD" <=> state[u] = "DEAD"
  BY <1>1, <1>3, <1>4, <1>7 DEF TypeOK
<1>9. DeadListed' => cpu' = Main
  <2>1. DeadListed' => DeadListed
    BY <1>1, <1>4, <1>8 DEF DeadListed, QueueOK
  <2> QED
    BY <1>1, <1>4, <1>5, <1>6, <2>1
<1>10. \A u \in Thread : state'[u] = "DEAD" => cpu' # u
  BY <1>4, <1>7, <1>8
<1>11. MainLast'
  BY <1>1, <1>4, <1>8, <1>9, <1>10, TestThreads DEF MainLast
<1> QED
  BY <1>4, <1>8, <1>11 DEF DeadStay

\* When nobody is left alive, the loop empties the run queue and returns to the
\* kernel, whose next interrupt is lost.
LEMMA GoneJoin ==
    ASSUME OwnershipInv, AllGone, mode # "boot",
           TimerInterrupt \/ InterruptAtZero \/ Handler
    PROVE  /\ AllGone' /\ DeadStay /\ program' = program
           /\ mode' # "boot"
<1>1. TypeOK /\ empty_cpustate \in {Kernel, None} /\ \A t \in Thread : state[t] = "DEAD"
  BY DEF OwnershipInv, TypeOK, AllGone
<1>2. CASE TimerInterrupt \/ InterruptAtZero
  BY <1>1, <1>2 DEF TimerInterrupt, InterruptAtZero, AllGone, DeadStay
<1>3. CASE ScheduleEmpty
  <2>1. /\ thread_size = 0 /\ UNCHANGED <<thread_size, state, program>>
        /\ mode' = "user" /\ cpu' = empty_cpustate'
        /\ empty_cpustate' = IF FirstSave THEN cpu ELSE empty_cpustate
    BY <1>1, <1>3 DEF ScheduleEmpty, Resume, TypeOK, queue
  <2>2. cpu' = Kernel
    <3>1. FirstTickInv /\ mode = "schedule"
      BY <1>3 DEF ScheduleEmpty, OwnershipInv
    <3> QED
      BY <2>1, <3>1 DEF FirstTickInv, FirstSave, NoThreadYet
  <2> QED
    BY <1>1, <2>1, <2>2 DEF AllGone, DeadStay
<1>4. CASE SchedulePrologue
  <2>1. /\ UNCHANGED <<thread_size, cpu, program>> /\ mode' = "clean"
        /\ i' = 0 /\ bound' = thread_size /\ thread_size \in Nat
    BY <1>1, <1>4 DEF SchedulePrologue, TypeOK, queue
  <2>2. state' = state
    <3>1. CASE SavesCurrent
      <4>1. YieldThread /\ OwnerInv /\ mode = "schedule" /\ ~unhandled
        BY <1>4, <3>1 DEF SchedulePrologue, SavesCurrent, OwnershipInv
      <4>2. threads[current_thread_idx] \in Thread
        <5>1. QueueOK /\ current_thread_idx \in 0 .. thread_size - 1
          BY <1>4, <3>1, <4>1 DEF OwnerInv, IndexOK, NoThreadYet, SavesCurrent,
                             SchedulePrologue, OwnershipInv
        <5> QED
          BY <5>1 DEF QueueOK
      <4> QED
        BY <1>1, <4>1, <4>2 DEF YieldThread
    <3>2. CASE ~SavesCurrent
      BY <1>4, <3>2 DEF SchedulePrologue
    <3> QED
      BY <3>1, <3>2
  <2> QED
    BY <1>1, <2>1, <2>2 DEF AllGone, DeadStay
<1>5. CASE CleanRound
  <2>1. /\ mode = "clean" /\ i < bound /\ i \in Nat /\ bound \in Nat
        /\ thread_size = bound - i /\ threads[i] \in Thread
        /\ i' = i + 1 /\ UNCHANGED <<cpu, mode, program, bound>>
    BY <1>1, <1>5 DEF CleanRound, AllGone, OwnershipInv, LoopInv, TypeOK
  <2>2. RemoveAt(i)
    BY <1>1, <1>5, <2>1 DEF CleanRound
  <2>3. thread_size' = bound - (i + 1) /\ state' = state
    BY <1>1, <2>1, <2>2 DEF RemoveAt, TypeOK
  <2> QED
    BY <1>1, <2>1, <2>3 DEF AllGone, DeadStay
<1>6. CASE SwitchToKernel
  <2>1. /\ thread_size' = 0 /\ UNCHANGED <<state, program>>
        /\ mode' = "user" /\ cpu' = empty_cpustate
    BY <1>6 DEF SwitchToKernel, Resume, queue
  <2>2. empty_cpustate = Kernel
    BY <1>6 DEF SwitchToKernel, OwnershipInv, FirstTickInv
  <2> QED
    BY <1>1, <2>1, <2>2 DEF AllGone, DeadStay
<1>7. ~SwitchThread
  BY <1>1 DEF SwitchThread, AllGone, TypeOK
<1> QED
  BY <1>2, <1>3, <1>4, <1>5, <1>6, <1>7 DEF Handler

LEMMA JoinInductive ==
    OwnershipInv /\ ProgramInv /\ JoinInv /\ [TestNext]_testVars => JoinInv'
<1> SUFFICES ASSUME OwnershipInv, ProgramInv, JoinInv, [TestNext]_testVars, WithJoins'
             PROVE  /\ MainInv' /\ JoinedInv'
                    /\ mode' = "wild" => AllGone'
                    /\ mode' = "boot" => CreatedInv'
                    /\ mode' # "boot" => MainLast' \/ AllGone'
  BY DEF JoinInv
<1>1. test' = test /\ TypeOK
  BY DEF TestNext, kernelMain, Step, Instruction, Runs, At, LibraryCall, Return,
         Interrupt, MemoryException, testVars, OwnershipInv
<1>2. /\ WithJoins /\ MainInv /\ JoinedInv
      /\ mode = "wild" => AllGone
      /\ mode = "boot" => CreatedInv
      /\ mode # "boot" => MainLast \/ AllGone
  BY <1>1 DEF WithJoins, JoinInv
<1>3. CASE kernelMain
  <2>1. mode = "boot"
    BY <1>3 DEF kernelMain, CreateThread, Activate
  <2> QED
    BY <1>2, <1>3, <2>1, BootJoin
<1>4. ASSUME NEW t \in Thread, Step(t)
      PROVE  MainInv' /\ JoinedInv' /\ MainLast' /\ mode' = "user"
  <2>1. mode = "user" /\ cpu = t
    BY <1>4 DEF Step, Instruction, Runs, LibraryCall, Return, TermniateThread,
                JoinThread, JoinReturns, Finish, Executes
  <2>2. MainLast
    BY <1>2, <2>1, TestThreads DEF AllGone
  <2> QED
    BY <1>1, <1>2, <1>4, <2>2, MainMain, MainStepLast
<1>5. CASE Interrupt
  <2>1. (TimerInterrupt \/ InterruptAtZero \/ Handler) /\ UNCHANGED <<test, pc>>
    BY <1>5 DEF Interrupt
  <2>2. mode \in {"user", "schedule", "clean"}
    BY <2>1 DEF TimerInterrupt, InterruptAtZero, Handler, ScheduleEmpty,
                SchedulePrologue, CleanRound,
                SwitchToKernel, SwitchThread
  <2>3. CASE MainLast
    <3>1. CASE TimerInterrupt
      <4>1. mode = "user" /\ mode' = "schedule"
        BY <3>1 DEF TimerInterrupt
      <4> QED
        BY <1>1, <1>2, <2>1, <2>3, <3>1, <4>1, TickJoin, OthersMain
    <3>2. CASE SchedulePrologue
      BY <1>1, <1>2, <2>1, <2>3, <3>2, PrologueJoin, OthersMain
    <3>3. CASE CleanRound
      BY <1>1, <1>2, <2>1, <2>3, <3>3, CleanJoin, OthersMain
    <3>4. CASE SwitchThread
      BY <1>1, <1>2, <2>1, <2>3, <3>4, SwitchJoin, OthersMain
    <3>5. ~ScheduleEmpty /\ ~SwitchToKernel /\ ~InterruptAtZero
      BY <2>3, NotAtZero DEF MainLast, ScheduleEmpty, SwitchToKernel
    <3> QED
      BY <2>1, <3>1, <3>2, <3>3, <3>4, <3>5 DEF Handler
  <2>4. CASE AllGone
    BY <1>1, <1>2, <2>1, <2>2, <2>4, GoneJoin, OthersMain
  <2> QED
    BY <1>2, <2>2, <2>3, <2>4
<1>6. CASE MemoryException
  <2>1. /\ Fault /\ UNCHANGED <<test, pc>>
        /\ mode = "user" /\ mode' = "schedule"
    BY <1>6 DEF MemoryException, Fault, RemoveCurrentThread
  <2>2. MainLast \/ AllGone
    BY <1>2, <2>1
  <2> QED
    BY <1>1, <1>2, <2>1, <2>2, FaultJoin, OthersMain
<1>7. CASE UNCHANGED testVars
  <2>1. /\ UNCHANGED <<test, pc, program, mode, threads, thread_size, threadIDCounter,
                       state, cpu, unhandled, i, bound, tempCurr>>
    BY <1>7 DEF testVars, vars, queue, locals
  <2>2. DeadStay
    BY <2>1 DEF DeadStay
  <2>3. MainInv' /\ JoinedInv'
    BY <1>2, <2>1, <2>2, OthersMain
  <2>4. /\ CreatedInv => CreatedInv'
        /\ MainLast => MainLast'
        /\ AllGone => AllGone'
    <3>1. Created' = Created
      BY <1>1, CodeStays
    <3>2. DeadListed' = DeadListed
      BY <2>1 DEF DeadListed
    <3> QED
      BY <2>1, <3>1, <3>2 DEF CreatedInv, MainLast, AllGone
  <2> QED
    BY <1>2, <2>1, <2>3, <2>4
<1> QED
  BY <1>3, <1>4, <1>5, <1>6, <1>7 DEF TestNext

LEMMA InitJoin == TestInit => JoinInv
<1> SUFFICES ASSUME TestInit, WithJoins PROVE MainInv /\ JoinedInv /\ CreatedInv
  BY DEF TestInit, Init, JoinInv
<1>1. MainInv /\ CreatedInv
  BY TestThreads, MainCode DEF TestInit, Init, MainInv, CreatedInv, Users
<1>2. ASSUME NEW u PROVE ~Joined(u)
  BY TestThreads DEF TestInit, Joined
<1> QED
  BY <1>1, <1>2 DEF JoinedInv

\* A thread that Main has joined never gets the processor again, however long the
\* run queue may grow and whenever the ticks come: although Schedule leaves one of
\* two terminated threads in the run queue, the entry it goes on with is Main's.
THEOREM JoinedStay == TestSpec => []JoinedHasStopped
<1>1. ProgramInv /\ JoinInv => JoinedHasStopped
  <2> SUFFICES ASSUME ProgramInv, JoinInv, NEW u \in Thread, Joined(u)
               PROVE  cpu # u /\ state[u] = "DEAD"
    BY DEF JoinedHasStopped
  <2>1. WithJoins /\ MainInv /\ state[u] = "DEAD"
    BY DEF Joined, JoinInv, WithJoins, JoinTests, JoinedInv
  <2>2. CASE mode = "boot"
    BY <2>1, <2>2 DEF JoinInv, CreatedInv
  <2>3. CASE mode # "boot" /\ MainLast
    BY <2>1, <2>3 DEF MainLast
  <2>4. CASE mode # "boot" /\ AllGone
    <3>1. PICK k \in 1 .. pc[Main] - 1 : Code(Main)[k] = Call("join", u)
      BY DEF Joined
    <3>2. Len(Code(Main)) \in Nat /\ pc[Main] \in Int /\ pc[Main] <= Len(Code(Main)) + 1
      BY <2>1, MainCode, TestThreads DEF MainInv, ProgramInv
    <3>3. k \in 1 .. Len(Code(Main))
      BY <3>2
    <3>4. u \in Users
      BY <2>1, <3>1, <3>3, MainCode, CallLemma
    <3> QED
      BY <2>1, <2>4, <3>4, TestThreads, ContextsAssumption DEF AllGone, Users
  <2> QED
    BY <2>1, <2>2, <2>3, <2>4 DEF JoinInv
<1> QED
  BY <1>1, InitJoin, JoinInductive, TestInvariants, PTL DEF TestSpec
=============================================================================
