------------------------------ MODULE TaskManager ------------------------------
(***************************************************************************)
(* The x86 kernel's thread library: class Thread and class TaskManager     *)
(* (multitasking.cpp), and the part of InterruptManager that calls them    *)
(* (interrupts.cpp: DoHandleInterrupt).                                    *)
(*                                                                         *)
(* The processor is single.  kernelMain creates the threads with           *)
(* interrupts off (mode "boot"), then turns them on and idles.  From then  *)
(* on every thread runs with interrupts on (mode "user"), and any of its   *)
(* instructions may be followed by an interrupt.  The gates clear IF, so   *)
(* the handler is not interrupted: in the modes "schedule" and "clean"     *)
(* only its own next step is enabled.                                      *)
(*                                                                         *)
(* A saved CPUState is modelled by whose registers it holds.  It lies on   *)
(* the stack of its thread, and iret pops it: the frame of a thread that   *)
(* was given the processor is gone (None) until the next interrupt.        *)
(*                                                                         *)
(* The kernel's frame is the exception: the pointer empty_cpustate is never*)
(* set, so Schedule copies that frame to address 0, and iret leaves the    *)
(* stack pointer just above it.  The kernel gets the processor back once;  *)
(* the interrupt after that finds no room for its stack (mode "wild").     *)
(***************************************************************************)
EXTENDS Integers, FiniteSets

CONSTANTS
    Thread,     \* the Thread objects of the program
    Kernel,     \* the context of kernelMain's idle loop
    None,       \* no thread, no frame
    Capacity,   \* length of TaskManager::threads, 256 in the code
    MaxID,      \* bound: calls of CreateThread
    MaxDead,    \* discipline of the program: how many terminated threads may
                \* wait in the run queue for the next tick
    Recreate,   \* may the program call CreateThread on a RUNNABLE thread?
    DeviceIrq   \* may a device raise an interrupt (no handler is registered)?

ASSUME ContextsAssumption ==
    /\ Kernel \notin Thread
    /\ None \notin Thread \cup {Kernel}

ASSUME BoundsAssumption ==
    /\ Capacity \in Nat \ {0}
    /\ MaxID \in Nat
    /\ MaxDead \in Nat
    /\ Recreate \in BOOLEAN
    /\ DeviceIrq \in BOOLEAN

VARIABLES
    (* TaskManager *)
    threads,            \* the array, with what is left beyond thread_size
    thread_size,
    threadIDCounter,
    current_thread_idx,
    firstInterrupt,
    empty_cpustate,     \* whose registers are in the kernel's frame at address 0
    (* Thread *)
    state,
    ID,
    cpustate,           \* whose registers are in the thread's saved frame
    (* the processor and the program *)
    cpu,                \* whose registers are loaded
    mode,               \* "boot", "user", "schedule", "clean" or "wild"
    joining,            \* the thread that the loop of JoinThread waits for
    finished,           \* has the entry point returned?
    (* locals of Schedule *)
    unhandled,
    i,
    bound,
    tempCurr

queue == <<threads, thread_size, current_thread_idx>>
program == <<joining, finished>>
locals == <<unhandled, i, bound, tempCurr>>
vars == <<queue, threadIDCounter, firstInterrupt, empty_cpustate,
          state, ID, cpustate, cpu, mode, program, locals>>

THREAD_STATE == {"NEW", "RUNNABLE", "RUNNING", "DEAD"}
Index == 0 .. Capacity - 1

\* The run queue: the entries below thread_size.
Listed(t) == \E k \in 0 .. thread_size - 1 : threads[k] = t

Init ==
    /\ threads = [k \in Index |-> None]
    /\ thread_size = 0
    /\ threadIDCounter = 0
    /\ current_thread_idx = -1
    /\ firstInterrupt = TRUE
    /\ empty_cpustate = None
    /\ state = [t \in Thread |-> "NEW"]
    /\ ID = [t \in Thread |-> 0]
    /\ cpustate = [t \in Thread |-> None]
    /\ cpu = Kernel
    /\ mode = "boot"
    /\ joining = [t \in Thread |-> None]
    /\ finished = [t \in Thread |-> FALSE]
    /\ unhandled = FALSE /\ i = 0 /\ bound = 0 /\ tempCurr = -1

-----------------------------------------------------------------------------
(* kernelMain, interrupts off *)

AddThread_SizeAsID(t) ==        \* mutant: IDs given out from thread_size
    /\ state[t] # "RUNNABLE"
    /\ thread_size < Capacity
    /\ threadIDCounter' = threadIDCounter + 1
    /\ ID' = [ID EXCEPT ![t] = thread_size + 1]
    /\ state' = [state EXCEPT ![t] = "RUNNABLE"]
    /\ threads' = [threads EXCEPT ![thread_size] = t]
    /\ thread_size' = thread_size + 1

AddThread(t) ==
    /\ state[t] # "RUNNABLE"
    /\ thread_size < Capacity
    /\ threadIDCounter' = threadIDCounter + 1
    /\ ID' = [ID EXCEPT ![t] = threadIDCounter + 1]
    /\ state' = [state EXCEPT ![t] = "RUNNABLE"]
    /\ threads' = [threads EXCEPT ![thread_size] = t]
    /\ thread_size' = thread_size + 1

\* CreateThread has already overwritten the ID when AddThread refuses.
AddThreadRefuses(t) ==
    /\ state[t] = "RUNNABLE" \/ thread_size >= Capacity
    /\ ID' = [ID EXCEPT ![t] = -1]
    /\ UNCHANGED <<threadIDCounter, state, threads, thread_size>>

CreateThread(t) ==
    /\ mode = "boot"
    /\ threadIDCounter < MaxID
    /\ Recreate \/ state[t] # "RUNNABLE"
    /\ cpustate' = [cpustate EXCEPT ![t] = t]
    /\ AddThread(t) \/ AddThreadRefuses(t)
    /\ UNCHANGED <<current_thread_idx, firstInterrupt, empty_cpustate, cpu,
                   mode, program, locals>>

RemoveAt_ShiftLate(k) ==         \* mutant: the shift starts one entry late
    /\ state' = [state EXCEPT ![threads[k]] = "DEAD"]
    /\ threads' = [j \in Index |-> IF k < j /\ j < thread_size - 1
                                   THEN threads[j + 1] ELSE threads[j]]
    /\ thread_size' = thread_size - 1

\* Take entry k out of the run queue; the last entry stays behind it.
RemoveAt(k) ==
    /\ state' = [state EXCEPT ![threads[k]] = "DEAD"]
    /\ threads' = [j \in Index |-> IF k <= j /\ j < thread_size - 1
                                   THEN threads[j + 1] ELSE threads[j]]
    /\ thread_size' = thread_size - 1

\* The last entry with the ID of t goes; without one the call changes nothing.
RemoveThread(t) ==
    /\ mode = "boot"
    /\ ID[t] # 0
    /\ \E k \in 0 .. thread_size - 1 :
          /\ ID[threads[k]] = ID[t]
          /\ \A j \in k + 1 .. thread_size - 1 : ID[threads[j]] # ID[t]
          /\ RemoveAt(k)
    /\ UNCHANGED <<threadIDCounter, current_thread_idx, firstInterrupt, ID,
                   empty_cpustate, cpustate, cpu, mode, program, locals>>

Activate ==
    /\ mode = "boot"
    /\ mode' = "user"
    /\ UNCHANGED <<queue, threadIDCounter, firstInterrupt, empty_cpustate,
                   state, ID, cpustate, cpu, program, locals>>

-----------------------------------------------------------------------------
(* The running thread *)

\* The processor executes code of thread t, which is not in JoinThread.
Executes(t) ==
    /\ mode = "user"
    /\ cpu = t
    /\ ~finished[t]
    /\ joining[t] = None

\* Terminated threads that would wait in the run queue if u joined them.
AwaitCleaning(u) == {t \in Thread : Listed(t) /\ (state[t] = "DEAD" \/ t = u)}

TermniateThread(t, u) ==
    /\ Executes(t)
    /\ Cardinality(AwaitCleaning(u)) <= MaxDead
    /\ state' = [state EXCEPT ![u] = "DEAD"]
    /\ UNCHANGED <<queue, threadIDCounter, firstInterrupt, empty_cpustate,
                   ID, cpustate, cpu, mode, program, locals>>

JoinThread(t, u) ==
    /\ Executes(t)
    /\ joining' = [joining EXCEPT ![t] = u]
    /\ UNCHANGED <<queue, threadIDCounter, firstInterrupt, empty_cpustate,
                   state, ID, cpustate, cpu, mode, finished, locals>>

JoinReturns_NotRunning(t) ==    \* mutant: any thread that does not run has ended
    /\ mode = "user"
    /\ cpu = t
    /\ joining[t] # None
    /\ state[joining[t]] # "RUNNING"
    /\ joining' = [joining EXCEPT ![t] = None]
    /\ UNCHANGED <<queue, threadIDCounter, firstInterrupt, empty_cpustate,
                   state, ID, cpustate, cpu, mode, finished, locals>>

\* The loop of JoinThread reads the state anew in every round.
JoinReturns(t) ==
    /\ mode = "user"
    /\ cpu = t
    /\ joining[t] # None
    /\ state[joining[t]] = "DEAD"
    /\ joining' = [joining EXCEPT ![t] = None]
    /\ UNCHANGED <<queue, threadIDCounter, firstInterrupt, empty_cpustate,
                   state, ID, cpustate, cpu, mode, finished, locals>>

\* The entry point returns: nothing lies above its frame to return to.
Finish(t) ==
    /\ Executes(t)
    /\ finished' = [finished EXCEPT ![t] = TRUE]
    /\ UNCHANGED <<queue, threadIDCounter, firstInterrupt, empty_cpustate,
                   state, ID, cpustate, cpu, mode, joining, locals>>

-----------------------------------------------------------------------------
(* The interrupt handler, interrupts off *)

\* The kernel got the processor back from Schedule: its frame was popped at
\* address 0, which leaves its stack pointer at 44.
StackAtZero == cpu = Kernel /\ ~firstInterrupt

\* Any interrupt then: its frame fills what is below 44, and the arguments and
\* the return address of the handler are pushed past address 0 and lost.
InterruptAtZero ==
    /\ mode = "user"
    /\ StackAtZero
    /\ mode' = "wild"
    /\ UNCHANGED <<queue, threadIDCounter, firstInterrupt, empty_cpustate,
                   state, ID, cpustate, cpu, program, locals>>

TimerInterrupt ==
    /\ mode = "user"
    /\ ~StackAtZero
    /\ mode' = "schedule"
    /\ unhandled' = FALSE
    /\ UNCHANGED <<queue, threadIDCounter, firstInterrupt, empty_cpustate,
                   state, ID, cpustate, cpu, program, i, bound, tempCurr>>

\* DoHandleInterrupt without a handler, for any number but the timer's: the
\* thread at current_thread_idx is taken for finished.
RemoveCurrentThread ==
    /\ thread_size > 0
    /\ current_thread_idx >= 0
    /\ RemoveAt(current_thread_idx)
    /\ current_thread_idx' = current_thread_idx - 1
    /\ mode' = "schedule"
    /\ unhandled' = TRUE
    /\ UNCHANGED <<threadIDCounter, firstInterrupt, empty_cpustate, ID,
                   cpustate, cpu, program, i, bound, tempCurr>>

\* Before the first tick the index is -1 and RemoveCurrentThread writes before
\* the array: nothing is claimed of the kernel from then on.
RemoveBeforeFirstTick ==
    /\ thread_size > 0
    /\ current_thread_idx < 0
    /\ mode' = "wild"
    /\ UNCHANGED <<queue, threadIDCounter, firstInterrupt, empty_cpustate,
                   state, ID, cpustate, cpu, program, locals>>

\* The return from the entry point faults.
Fault ==
    /\ mode = "user"
    /\ cpu \in Thread
    /\ finished[cpu]
    /\ RemoveCurrentThread

\* With an empty run queue the handler only prints.
DeviceInterrupt ==
    /\ DeviceIrq
    /\ mode = "user"
    /\ ~StackAtZero
    /\ RemoveCurrentThread \/ RemoveBeforeFirstTick

\* The handler returns to the context c; its locals are gone.
Resume(c) ==
    /\ cpu' = c
    /\ mode' = "user"
    /\ unhandled' = FALSE /\ i' = 0 /\ bound' = 0 /\ tempCurr' = -1

FirstSave_Late ==               \* mutant: saved after the first return
    current_thread_idx = -1 /\ firstInterrupt /\ thread_size > 0

FirstSave == current_thread_idx = -1 /\ firstInterrupt

\* Schedule up to its first return: the run queue is empty.
ScheduleEmpty ==
    /\ mode = "schedule"
    /\ thread_size <= 0
    /\ empty_cpustate' = IF FirstSave THEN cpu ELSE empty_cpustate
    /\ firstInterrupt' = (firstInterrupt /\ ~FirstSave)
    /\ Resume(empty_cpustate')
    /\ UNCHANGED <<queue, threadIDCounter, state, ID, cpustate, program>>

YieldThread_Skipped ==          \* mutant: the thread stays RUNNING
    state' = state

YieldThread_Unchecked ==        \* mutant: a dead thread is yielded too
    state' = [state EXCEPT ![threads[current_thread_idx]] = "RUNNABLE"]

\* YieldThread of the thread at current_thread_idx.
YieldThread ==
    LET t == threads[current_thread_idx] IN
    state' = IF state[t] = "DEAD" THEN state
             ELSE [state EXCEPT ![t] = "RUNNABLE"]

SavesCurrent_Always ==          \* mutant: the flag unhandled is ignored
    current_thread_idx >= 0

\* After an unhandled interrupt the thread at the index is not the interrupted one.
SavesCurrent == current_thread_idx >= 0 /\ ~unhandled

\* Schedule up to the loop that cleans dead threads.
SchedulePrologue ==
    /\ mode = "schedule"
    /\ thread_size > 0
    /\ empty_cpustate' = IF FirstSave THEN cpu ELSE empty_cpustate
    /\ firstInterrupt' = (firstInterrupt /\ ~FirstSave)
    /\ IF SavesCurrent
       THEN /\ cpustate' = [cpustate EXCEPT ![threads[current_thread_idx]] = cpu]
            /\ YieldThread
       ELSE UNCHANGED <<cpustate, state>>
    /\ i' = 0
    /\ bound' = thread_size
    /\ tempCurr' = current_thread_idx
    /\ mode' = "clean"
    /\ UNCHANGED <<queue, threadIDCounter, ID, cpu, program, unhandled>>

\* One round of the loop.  i counts entries of the array as it was before the
\* loop; a removal moves the entries behind i but not i.
CleanRound ==
    /\ mode = "clean"
    /\ i < bound
    /\ IF state[threads[i]] # "DEAD"
       THEN UNCHANGED <<queue, state>>
       ELSE IF thread_size = 0
       THEN current_thread_idx' = i /\ UNCHANGED <<threads, thread_size, state>>
       ELSE RemoveAt(i) /\ current_thread_idx' = i - 1
    /\ i' = i + 1
    /\ UNCHANGED <<threadIDCounter, firstInterrupt, empty_cpustate, ID,
                   cpustate, cpu, mode, program, unhandled, bound, tempCurr>>

\* Schedule's second return: the loop emptied the run queue.
SwitchToKernel ==
    /\ mode = "clean"
    /\ i = bound
    /\ thread_size = 0
    /\ Resume(empty_cpustate)
    /\ UNCHANGED <<queue, threadIDCounter, firstInterrupt, empty_cpustate,
                   state, ID, cpustate, program>>

NextIndex_Stuck ==              \* mutant: the index is not advanced
    IF tempCurr < 0 THEN 0 ELSE tempCurr % thread_size

NextIndex == IF tempCurr + 1 >= thread_size THEN (tempCurr + 1) % thread_size
                                            ELSE tempCurr + 1

\* Schedule's third return: round robin, from the index before the loop.
SwitchThread ==
    /\ mode = "clean"
    /\ i = bound
    /\ thread_size > 0
    /\ current_thread_idx' = NextIndex
    /\ LET t == threads[NextIndex] IN
          /\ state' = [state EXCEPT ![t] = "RUNNING"]
          /\ cpustate' = [cpustate EXCEPT ![t] = None]
          /\ Resume(cpustate[t])
    /\ UNCHANGED <<threads, thread_size, threadIDCounter, firstInterrupt,
                   empty_cpustate, ID, program>>

-----------------------------------------------------------------------------

Handler == \/ ScheduleEmpty \/ SchedulePrologue
           \/ CleanRound \/ SwitchToKernel \/ SwitchThread

\* What entry points do, in any order.  (None of them calls YieldThread.)
Program(t) ==
    \/ JoinReturns(t)
    \/ Finish(t)
    \/ \E u \in Thread : TermniateThread(t, u) \/ JoinThread(t, u)

Next ==
    \/ \E t \in Thread : CreateThread(t) \/ RemoveThread(t) \/ Program(t)
    \/ Activate
    \/ TimerInterrupt \/ InterruptAtZero \/ Fault \/ DeviceInterrupt
    \/ Handler

Spec == Init /\ [][Next]_vars

\* The timer keeps ticking and the handler runs to its end.  Nothing is asked
\* of the threads: they may loop forever.
Fairness == /\ WF_vars(Activate) /\ WF_vars(Handler)
            /\ WF_vars(TimerInterrupt \/ InterruptAtZero)

FairSpec == Spec /\ Fairness
-----------------------------------------------------------------------------
(* What the code should guarantee *)

\* Every variable stays in its range; in particular no index leaves the array.
TypeOK ==
    /\ threads \in [Index -> Thread \cup {None}]
    /\ thread_size \in 0 .. Capacity
    /\ threadIDCounter \in Nat
    /\ current_thread_idx \in -1 .. Capacity - 1
    /\ firstInterrupt \in BOOLEAN
    /\ empty_cpustate \in {Kernel, None}
    /\ state \in [Thread -> THREAD_STATE]
    /\ ID \in [Thread -> Int]
    /\ cpustate \in [Thread -> Thread \cup {None}]
    /\ cpu \in Thread \cup {Kernel}
    /\ mode \in {"boot", "user", "schedule", "clean", "wild"}
    /\ joining \in [Thread -> Thread \cup {None}]
    /\ finished \in [Thread -> BOOLEAN]
    /\ unhandled \in BOOLEAN
    /\ i \in 0 .. Capacity
    /\ bound \in 0 .. Capacity
    /\ tempCurr \in -1 .. Capacity - 1

\* While code runs with interrupts on, the run queue and the processor agree:
\* current_thread_idx is the entry of the thread that executes, and every other
\* entry holds the registers of its own thread, ready to be loaded.  Schedule
\* saves "cpustate" through the index alone: were the two out of step, the next
\* tick would save one thread's registers as another's.
ContextOwnership ==
    mode = "user" =>
        /\ cpu \in Thread => /\ current_thread_idx \in 0 .. thread_size - 1
                             /\ threads[current_thread_idx] = cpu
        /\ cpu = Kernel => thread_size = 0 \/ firstInterrupt
        /\ \A t \in Thread : Listed(t) /\ t # cpu => cpustate[t] = t

\* At most one thread is RUNNING, and it is the one whose code executes.
OneRunning ==
    mode # "wild" => \A t \in Thread : state[t] = "RUNNING" => cpu = t

\* A thread that nobody terminated and that did not finish is in the run queue:
\* the loop that cleans dead threads never drops a live one.
LiveListed ==
    mode # "wild" =>
        \A t \in Thread : state[t] \in {"RUNNABLE", "RUNNING"} => Listed(t)

\* Once interrupts are on, a dead thread stays dead: Schedule does not make it
\* RUNNING again, so a JoinThread that waits for it can return.
DeadStaysDead ==
    [][mode # "boot" =>
        \A t \in Thread : state[t] = "DEAD" => state'[t] = "DEAD"]_vars

\* RemoveThread(t) finds its entry by ID: nobody but t leaves the run queue.
RemovesOnlyItsThread ==
    [][\A t \in Thread : RemoveThread(t) =>
        \A u \in Thread \ {t} : state'[u] = state[u] /\ (Listed(u) => Listed(u)')]_vars

\* Every thread in the run queue gets the processor, unless it is terminated:
\* the turn that a removal makes Schedule skip comes round again.
StarvationFree ==
    \A t \in Thread :
        mode = "user" /\ Listed(t) ~> cpu = t \/ state[t] = "DEAD" \/ mode = "wild"

\* The comment in DoHandleInterrupt: an interrupt without a handler comes from
\* a thread that has returned from its entry point.
UnhandledMeansFinished ==
    [][mode = "user" /\ unhandled' => cpu \in Thread /\ finished[cpu]]_vars

\* What the library promises (Scheduler.tla), read off the run queue.
Live == {t \in Thread : state[t] \in {"RUNNABLE", "RUNNING"}}
Promise == INSTANCE Scheduler WITH live <- Live, running <- cpu,
                                   started <- mode # "boot"
ImplementsScheduler == Promise!Spec
-----------------------------------------------------------------------------
(* The inductive invariant behind ContextOwnership *)

\* The run queue holds threads, each of them once.
QueueOK ==
    \A k \in 0 .. thread_size - 1 :
        /\ threads[k] \in Thread
        /\ \A j \in 0 .. thread_size - 1 : threads[j] = threads[k] => j = k

\* Entry k holds the registers of its own thread.
FrameOK(k) == cpustate[threads[k]] = threads[k]

\* No thread has run yet: kernelMain executes and the index is -1.
NoThreadYet == cpu = Kernel /\ current_thread_idx = -1 /\ firstInterrupt

\* The interrupted context is the one at the index, or the kernel's.
IndexOK ==
    \/ NoThreadYet
    \/ cpu = Kernel /\ thread_size = 0
    \/ /\ cpu \in Thread
       /\ current_thread_idx \in 0 .. thread_size - 1
       /\ threads[current_thread_idx] = cpu

BootInv ==
    mode = "boot" =>
        /\ NoThreadYet /\ ~unhandled
        /\ \A k \in 0 .. thread_size - 1 :
              FrameOK(k) /\ state[threads[k]] = "RUNNABLE"

\* The kernel's frame is saved once the first tick has come.
FirstTickInv ==
    mode \in {"user", "schedule", "clean"} =>
        \/ NoThreadYet /\ mode # "clean" /\ ~unhandled
        \/ ~firstInterrupt /\ empty_cpustate = Kernel

\* Interrupts are on, or the timer's interrupt has just come.
OwnerInv ==
    mode = "user" \/ (mode = "schedule" /\ ~unhandled) =>
        /\ IndexOK
        /\ \A k \in 0 .. thread_size - 1 : threads[k] # cpu => FrameOK(k)

\* The interrupted thread's frame is saved, or its entry is gone.
SavedInv ==
    mode = "clean" \/ (mode = "schedule" /\ unhandled) =>
        \A k \in 0 .. thread_size - 1 : FrameOK(k)

\* The loop reads entries that were in the run queue when it began.
LoopInv ==
    mode = "clean" =>
        /\ i <= bound
        /\ thread_size <= bound
        /\ \A k \in 0 .. bound - 1 : threads[k] \in Thread

\* The invariant that TaskManagerProofs shows to be inductive, for every program:
\* the queue has no duplicates, and at each point of the handler it is known which
\* frames are saved.
OwnershipInv ==
    /\ TypeOK
    /\ mode # "wild" => QueueOK
    /\ BootInv
    /\ FirstTickInv
    /\ OwnerInv
    /\ SavedInv
    /\ LoopInv
=============================================================================
