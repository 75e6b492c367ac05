---------------------------- MODULE SchedulingProofs ----------------------------
(***************************************************************************)
(* Which threads the library runs.  On the invariant of TaskManagerProofs  *)
(* rest three arguments about the states and the IDs of the threads: only  *)
(* the thread with the processor is RUNNING, whatever the program does;    *)
(* RemoveThread hits the entry it means, unless threads are created twice; *)
(* and while at most one terminated thread waits for each tick, the loop   *)
(* that cleans dead threads drops no live one and revives no dead one.     *)
(***************************************************************************)
EXTENDS TaskManagerProofs, FiniteSetTheorems

\* A removal inside the queue closes the gap and loses no other entry.
LEMMA RemoveAtKeeps ==
    ASSUME TypeOK, NEW k \in 0 .. thread_size - 1, RemoveAt(k)
    PROVE  /\ state' = [state EXCEPT ![threads[k]] = "DEAD"]
           /\ thread_size' = thread_size - 1
           /\ \A j \in 0 .. thread_size - 2 :
                 threads'[j] = threads[IF k <= j THEN j + 1 ELSE j]
           /\ \A m \in 0 .. thread_size - 1 : m # k =>
                 \E j \in 0 .. thread_size - 2 : threads'[j] = threads[m]
<1>1. thread_size \in 1 .. Capacity /\ Capacity \in Nat
  BY BoundsAssumption DEF TypeOK
<1>2. \A j \in 0 .. thread_size - 2 :
        threads'[j] = threads[IF k <= j THEN j + 1 ELSE j]
  BY <1>1 DEF RemoveAt, Index
<1>3. ASSUME NEW m \in 0 .. thread_size - 1, m # k
      PROVE  \E j \in 0 .. thread_size - 2 : threads'[j] = threads[m]
  <2>1. CASE m < k
    BY <1>1, <1>2, <2>1
  <2>2. CASE k < m
    <3>1. m - 1 \in 0 .. thread_size - 2 /\ k <= m - 1
      BY <1>1, <2>2
    <3>2. threads'[m - 1] = threads[m - 1 + 1]
      BY <1>2, <3>1
    <3>3. m - 1 + 1 = m
      BY <1>1
    <3> QED
      BY <3>1, <3>2, <3>3
  <2> QED
    BY <1>3, <2>1, <2>2
<1> QED
  BY <1>2, <1>3 DEF RemoveAt

-----------------------------------------------------------------------------
(* One thread is RUNNING *)

NobodyRuns == \A t \in Thread : state[t] # "RUNNING"

\* Only the loaded thread is RUNNING, and from the moment at which Schedule has
\* yielded it, or an unhandled interrupt has ended it, nobody is.
RunningInv ==
    /\ mode \in {"user", "schedule"} =>
          \A t \in Thread : state[t] = "RUNNING" => cpu = t
    /\ mode \in {"boot", "clean"} \/ (mode = "schedule" /\ unhandled) => NobodyRuns

LEMMA InitRunning == Init => RunningInv
  BY DEF Init, RunningInv, NobodyRuns

\* What the program and kernelMain do makes no thread RUNNING.
LEMMA ProgramRunning ==
    ASSUME OwnershipInv, RunningInv, NEW t \in Thread,
           CreateThread(t) \/ RemoveThread(t) \/ Program(t)
    PROVE  RunningInv'
<1>1. TypeOK
  BY DEF OwnershipInv
<1>2. CASE CreateThread(t)
  BY <1>1, <1>2 DEF CreateThread, AddThread, AddThreadRefuses, TypeOK,
                    RunningInv, NobodyRuns
<1>3. CASE RemoveThread(t)
  BY <1>1, <1>3 DEF RemoveThread, RemoveAt, TypeOK, RunningInv, NobodyRuns
<1>4. CASE Program(t)
  <2>1. /\ UNCHANGED <<cpu, mode, locals>>
        /\ state' = state \/ \E u \in Thread : state' = [state EXCEPT ![u] = "DEAD"]
    BY <1>4 DEF Program, JoinReturns, Finish, TermniateThread, JoinThread
  <2> QED
    BY <1>1, <2>1 DEF TypeOK, RunningInv, NobodyRuns, locals
<1> QED
  BY <1>2, <1>3, <1>4

\* An interrupt without a handler ends the thread that is RUNNING, if any.
LEMMA UnhandledRunning ==
    ASSUME OwnershipInv, RunningInv, mode = "user", RemoveCurrentThread
    PROVE  RunningInv'
<1>1. /\ TypeOK
      /\ current_thread_idx \in 0 .. thread_size - 1
      /\ threads[current_thread_idx] = cpu
      /\ cpu \in Thread
  BY DEF RemoveCurrentThread, OwnershipInv, OwnerInv, IndexOK, NoThreadYet, TypeOK
<1>2. /\ state' = [state EXCEPT ![cpu] = "DEAD"]
      /\ mode' = "schedule"
  BY <1>1 DEF RemoveCurrentThread, RemoveAt
<1> QED
  BY <1>1, <1>2 DEF RunningInv, NobodyRuns, TypeOK

\* At a tick, the thread that is RUNNING is the one at the index.
LEMMA AtTick ==
    ASSUME OwnershipInv, RunningInv, mode = "schedule", ~SavesCurrent \/ thread_size <= 0
    PROVE  NobodyRuns
<1>1. CASE unhandled
  BY <1>1 DEF RunningInv
<1>2. CASE ~unhandled
  <2>1. cpu = Kernel
    BY <1>2 DEF OwnershipInv, OwnerInv, IndexOK, NoThreadYet, SavesCurrent, TypeOK
  <2> QED
    BY <2>1, ContextsAssumption DEF RunningInv, NobodyRuns
<1> QED
  BY <1>1, <1>2

LEMMA HandlerRunning ==
    ASSUME OwnershipInv, RunningInv, Handler
    PROVE  RunningInv'
<1>1. TypeOK /\ QueueOK
  BY DEF OwnershipInv, Handler, ScheduleEmpty, SchedulePrologue, CleanRound,
         SwitchToKernel, SwitchThread
<1>2. CASE ScheduleEmpty
  <2>1. NobodyRuns
    BY <1>2, AtTick DEF ScheduleEmpty
  <2> QED
    BY <1>2, <2>1 DEF ScheduleEmpty, Resume, RunningInv, NobodyRuns
<1>3. CASE SchedulePrologue
  <2>1. CASE SavesCurrent
    <3>1. /\ cpu \in Thread
          /\ threads[current_thread_idx] = cpu
      BY <1>1, <1>3, <2>1
         DEF SchedulePrologue, SavesCurrent, OwnershipInv, OwnerInv, IndexOK,
             NoThreadYet, TypeOK
    <3>2. state' = IF state[cpu] = "DEAD" THEN state
                   ELSE [state EXCEPT ![cpu] = "RUNNABLE"]
      BY <1>3, <2>1, <3>1 DEF SchedulePrologue, YieldThread
    <3> QED
      BY <1>1, <1>3, <3>1, <3>2 DEF SchedulePrologue, RunningInv, NobodyRuns, TypeOK
  <2>2. CASE ~SavesCurrent
    <3>1. NobodyRuns
      BY <1>3, <2>2, AtTick DEF SchedulePrologue
    <3> QED
      BY <1>3, <2>2, <3>1 DEF SchedulePrologue, RunningInv, NobodyRuns
  <2> QED
    BY <2>1, <2>2
<1>4. CASE CleanRound
  <2>1. state' = state \/ state' = [state EXCEPT ![threads[i]] = "DEAD"]
    BY <1>4 DEF CleanRound, RemoveAt
  <2> QED
    BY <1>1, <1>4, <2>1 DEF CleanRound, RunningInv, NobodyRuns, TypeOK
<1>5. CASE SwitchToKernel
  BY <1>5 DEF SwitchToKernel, Resume, RunningInv, NobodyRuns
<1>6. CASE SwitchThread
  <2>1. /\ mode = "clean" /\ thread_size > 0
        /\ state' = [state EXCEPT ![threads[NextIndex]] = "RUNNING"]
        /\ cpu' = cpustate[threads[NextIndex]]
        /\ mode' = "user"
    BY <1>6 DEF SwitchThread, Resume
  <2>2. NextIndex \in 0 .. thread_size - 1
    BY <1>1, <2>1, NextIndexLemma DEF TypeOK
  <2>3. cpu' = threads[NextIndex] /\ threads[NextIndex] \in Thread
    BY <1>1, <2>1, <2>2 DEF OwnershipInv, SavedInv, FrameOK, QueueOK
  <2> QED
    BY <1>1, <2>1, <2>3 DEF RunningInv, NobodyRuns, TypeOK
<1> QED
  BY <1>2, <1>3, <1>4, <1>5, <1>6 DEF Handler

LEMMA RunningInductive ==
    OwnershipInv /\ RunningInv /\ [Next]_vars => RunningInv'
<1> SUFFICES ASSUME OwnershipInv, RunningInv, [Next]_vars PROVE RunningInv'
  OBVIOUS
<1>1. ASSUME NEW t \in Thread, CreateThread(t) \/ RemoveThread(t) \/ Program(t)
      PROVE  RunningInv'
  BY <1>1, ProgramRunning
<1>2. CASE Activate
  BY <1>2 DEF Activate, OwnershipInv, BootInv, locals, RunningInv, NobodyRuns
<1>3. CASE TimerInterrupt \/ InterruptAtZero
  BY <1>3 DEF TimerInterrupt, InterruptAtZero, RunningInv, NobodyRuns
<1>4. CASE Fault
  BY <1>4, UnhandledRunning DEF Fault
<1>5. CASE DeviceInterrupt
  <2>1. CASE RemoveCurrentThread
    BY <1>5, <2>1, UnhandledRunning DEF DeviceInterrupt
  <2>2. CASE RemoveBeforeFirstTick
    BY <2>2 DEF RemoveBeforeFirstTick, RunningInv
  <2> QED
    BY <1>5, <2>1, <2>2 DEF DeviceInterrupt
<1>6. CASE Handler
  BY <1>6, HandlerRunning
<1>7. CASE UNCHANGED vars
  BY <1>7 DEF vars, locals, RunningInv, NobodyRuns
<1> QED
  BY <1>1, <1>2, <1>3, <1>4, <1>5, <1>6, <1>7 DEF Next

\* At most one thread is RUNNING, and it is the one whose code executes, for every
\* program: Schedule yields the interrupted thread before it dispatches another,
\* and an unhandled interrupt leaves none RUNNING.
THEOREM OneThreadRuns == Spec => []OneRunning
<1>1. Init => RunningInv
  BY InitRunning
<1>2. Spec => []RunningInv
  BY <1>1, RunningInductive, OwnershipInvariant, PTL DEF Spec
<1>3. OwnershipInv /\ RunningInv => OneRunning
  BY DEF OwnershipInv, TypeOK, RunningInv, NobodyRuns, OneRunning
<1> QED
  BY <1>2, <1>3, OwnershipInvariant, PTL

-----------------------------------------------------------------------------
(* RemoveThread *)

\* The IDs given out by AddThread are new, and while threads are created each
\* entry of the run queue has one of them: the refused call of CreateThread, which
\* overwrites the ID, is for a thread outside the queue.
IDInv ==
    /\ \A t \in Thread : ID[t] <= threadIDCounter
    /\ \A t, u \in Thread : ID[t] = ID[u] /\ ID[t] > 0 => t = u
    /\ mode = "boot" => \A k \in 0 .. thread_size - 1 : ID[threads[k]] > 0

LEMMA CreateIDs ==
    ASSUME OwnershipInv, IDInv, Recreate = FALSE, NEW t \in Thread, CreateThread(t)
    PROVE  IDInv'
<1>1. /\ TypeOK /\ QueueOK
      /\ mode = "boot" /\ mode' = mode
      /\ state[t] # "RUNNABLE"
      /\ \A k \in 0 .. thread_size - 1 : state[threads[k]] = "RUNNABLE"
  BY DEF CreateThread, OwnershipInv, BootInv
<1>2. thread_size \in Nat /\ Capacity \in Nat \ {0} /\ threadIDCounter \in Nat
  BY <1>1, BoundsAssumption DEF TypeOK
<1>3. \A k \in 0 .. thread_size - 1 : threads[k] \in Thread /\ threads[k] # t
  BY <1>1 DEF QueueOK
<1>4. CASE AddThread(t)
  <2>1. /\ ID' = [ID EXCEPT ![t] = threadIDCounter + 1]
        /\ threadIDCounter' = threadIDCounter + 1
        /\ thread_size' = thread_size + 1
        /\ threads'[thread_size] = t
        /\ \A k \in 0 .. thread_size - 1 : threads'[k] = threads[k]
    BY <1>1, <1>2, <1>4 DEF AddThread, TypeOK, Index
  <2>2. \A u \in Thread : u # t => ID'[u] = ID[u] /\ ID[u] \in Int
    BY <1>1, <2>1 DEF TypeOK
  <2>3. ID'[t] = threadIDCounter + 1
    BY <1>1, <2>1 DEF TypeOK
  <2>4. \A k \in 0 .. thread_size' - 1 : ID'[threads'[k]] > 0
    <3>1. \A k \in 0 .. thread_size' - 1 : k = thread_size \/ k \in 0 .. thread_size - 1
      BY <1>2, <2>1
    <3> QED
      BY <1>1, <1>2, <1>3, <2>1, <2>2, <2>3, <3>1 DEF IDInv
  <2>5. \A u \in Thread : ID'[u] <= threadIDCounter'
    BY <1>2, <2>1, <2>2, <2>3 DEF IDInv
  <2>6. \A u, v \in Thread : ID'[u] = ID'[v] /\ ID'[u] > 0 => u = v
    BY <1>2, <2>1, <2>2, <2>3 DEF IDInv
  <2> QED
    BY <2>4, <2>5, <2>6 DEF IDInv
<1>5. CASE AddThreadRefuses(t)
  <2>1. /\ ID' = [ID EXCEPT ![t] = -1]
        /\ UNCHANGED <<threadIDCounter, threads, thread_size>>
    BY <1>5 DEF AddThreadRefuses
  <2>2. \A u \in Thread : u # t => ID'[u] = ID[u] /\ ID[u] \in Int
    BY <1>1, <2>1 DEF TypeOK
  <2>3. ID'[t] = -1
    BY <1>1, <2>1 DEF TypeOK
  <2> QED
    BY <1>1, <1>2, <1>3, <2>1, <2>2, <2>3 DEF IDInv
<1> QED
  BY <1>4, <1>5 DEF CreateThread

LEMMA RemoveIDs ==
    ASSUME OwnershipInv, IDInv, NEW t \in Thread, RemoveThread(t)
    PROVE  IDInv'
<1>1. TypeOK /\ mode = "boot"
  BY DEF RemoveThread, OwnershipInv
<1>2. PICK k \in 0 .. thread_size - 1 : RemoveAt(k)
  BY DEF RemoveThread
<1>3. UNCHANGED <<threadIDCounter, ID, mode>>
  BY DEF RemoveThread
<1>4. /\ thread_size' = thread_size - 1
      /\ \A j \in 0 .. thread_size - 2 :
            threads'[j] = threads[IF k <= j THEN j + 1 ELSE j]
  BY <1>1, <1>2, RemoveAtKeeps
<1>5. ASSUME NEW j \in 0 .. thread_size' - 1 PROVE ID'[threads'[j]] > 0
  <2>1. thread_size \in Nat /\ j \in 0 .. thread_size - 2
    BY <1>1, <1>4 DEF TypeOK
  <2>2. (IF k <= j THEN j + 1 ELSE j) \in 0 .. thread_size - 1
    BY <2>1
  <2> QED
    BY <1>1, <1>3, <1>4, <2>1, <2>2 DEF IDInv
<1> QED
  BY <1>3, <1>5 DEF IDInv

LEMMA IDInductive ==
    Recreate = FALSE /\ OwnershipInv /\ IDInv /\ [Next]_vars => IDInv'
<1> SUFFICES ASSUME Recreate = FALSE, OwnershipInv, IDInv, [Next]_vars PROVE IDInv'
  OBVIOUS
<1>1. ASSUME NEW t \in Thread, CreateThread(t) PROVE IDInv'
  BY <1>1, CreateIDs
<1>2. ASSUME NEW t \in Thread, RemoveThread(t) PROVE IDInv'
  BY <1>2, RemoveIDs
<1>3. ASSUME NEW t \in Thread, Program(t) PROVE IDInv'
  BY <1>3 DEF Program, JoinReturns, Finish, TermniateThread, JoinThread, Executes,
              IDInv
<1>4. CASE \/ Activate \/ TimerInterrupt \/ InterruptAtZero
           \/ Fault \/ DeviceInterrupt \/ Handler
  <2>1. UNCHANGED <<threadIDCounter, ID>> /\ mode' # "boot"
    BY <1>4 DEF Activate, TimerInterrupt, InterruptAtZero, Fault, DeviceInterrupt, Handler,
                RemoveCurrentThread, RemoveBeforeFirstTick, ScheduleEmpty,
                SchedulePrologue, CleanRound, SwitchToKernel, SwitchThread, Resume
  <2> QED
    BY <2>1 DEF IDInv
<1>5. CASE UNCHANGED vars
  BY <1>5 DEF vars, queue, IDInv
<1> QED
  BY <1>1, <1>2, <1>3, <1>4, <1>5 DEF Next

\* RemoveThread takes its own thread out of the run queue and no other, in every
\* program that creates no thread twice: the IDs it compares are distinct.
THEOREM RemovalIsExact == Recreate = FALSE => (Spec => RemovesOnlyItsThread)
<1> SUFFICES ASSUME Recreate = FALSE PROVE Spec => RemovesOnlyItsThread
  OBVIOUS
<1>1. Init => IDInv
  BY DEF Init, IDInv
<1>2. Spec => []IDInv
  <2>1. OwnershipInv /\ IDInv /\ [Next]_vars => IDInv'
    BY IDInductive
  <2> QED
    BY <1>1, <2>1, OwnershipInvariant, PTL DEF Spec
<1>3. ASSUME OwnershipInv, IDInv, NEW t \in Thread, RemoveThread(t)
      PROVE  \A u \in Thread \ {t} :
                state'[u] = state[u] /\ (Listed(u) => Listed(u)')
  <2>1. TypeOK /\ QueueOK /\ mode = "boot"
    BY <1>3 DEF RemoveThread, OwnershipInv
  <2>2. PICK k \in 0 .. thread_size - 1 : ID[threads[k]] = ID[t] /\ RemoveAt(k)
    BY <1>3 DEF RemoveThread
  <2>3. threads[k] = t
    BY <1>3, <2>1, <2>2 DEF IDInv, QueueOK
  <2>4. /\ state' = [state EXCEPT ![t] = "DEAD"]
        /\ thread_size' = thread_size - 1
        /\ \A m \in 0 .. thread_size - 1 : m # k =>
              \E j \in 0 .. thread_size - 2 : threads'[j] = threads[m]
    BY <2>1, <2>2, <2>3, RemoveAtKeeps
  <2>5. ASSUME NEW u \in Thread \ {t}, Listed(u) PROVE Listed(u)'
    <3>1. PICK m \in 0 .. thread_size - 1 : threads[m] = u
      BY <2>5 DEF Listed
    <3>2. m # k
      BY <2>3, <3>1
    <3>3. \E j \in 0 .. thread_size' - 1 : threads'[j] = u
      BY <2>1, <2>4, <3>1, <3>2 DEF TypeOK
    <3> QED
      BY <3>3 DEF Listed
  <2> QED
    BY <2>1, <2>4, <2>5 DEF TypeOK
<1>4. OwnershipInv /\ IDInv /\ [Next]_vars =>
        [\A t \in Thread : RemoveThread(t) =>
           \A u \in Thread \ {t} :
             state'[u] = state[u] /\ (Listed(u) => Listed(u)')]_vars
  BY <1>3
<1> QED
  BY <1>2, <1>4, OwnershipInvariant, PTL DEF Spec, RemovesOnlyItsThread

-----------------------------------------------------------------------------
(* The loop that cleans dead threads *)

DeadAt(k) == state[threads[k]] = "DEAD"

OneDeadEntry ==
    \A j, k \in 0 .. thread_size - 1 : DeadAt(j) /\ DeadAt(k) => j = k

\* At most one dead thread waits for the tick.  The loop passes over live entries
\* until it removes it; from then on it sees live ones only, also in the stale
\* entry behind the queue, which is a copy of the last one.
CleaningInv ==
    /\ mode # "wild" => LiveListed
    /\ mode \in {"user", "schedule"} => OneDeadEntry
    /\ mode = "clean" =>
          \/ /\ thread_size = bound
             /\ OneDeadEntry
             /\ \A k \in 0 .. i - 1 : ~DeadAt(k)
          \/ /\ thread_size = bound - 1
             /\ \A k \in 0 .. thread_size - 1 : ~DeadAt(k)
             /\ \A k \in i .. bound - 1 : ~DeadAt(k)

\* A removal inside the queue keeps the live threads listed, and adds no dead entry.
LEMMA RemoveAtLive ==
    ASSUME OwnershipInv, mode # "wild", LiveListed,
           NEW k \in 0 .. thread_size - 1, RemoveAt(k)
    PROVE  /\ \A t \in Thread : state'[t] \in {"RUNNABLE", "RUNNING"} => Listed(t)'
           /\ OneDeadEntry => OneDeadEntry'
<1>1. TypeOK /\ QueueOK
  BY DEF OwnershipInv
<1>2. /\ state' = [state EXCEPT ![threads[k]] = "DEAD"]
      /\ thread_size' = thread_size - 1
      /\ \A j \in 0 .. thread_size - 2 :
            threads'[j] = threads[IF k <= j THEN j + 1 ELSE j]
      /\ \A m \in 0 .. thread_size - 1 : m # k =>
            \E j \in 0 .. thread_size - 2 : threads'[j] = threads[m]
  BY <1>1, RemoveAtKeeps
<1>3. thread_size \in Nat
  BY <1>1 DEF TypeOK
<1>4. ASSUME NEW t \in Thread, state'[t] \in {"RUNNABLE", "RUNNING"}
      PROVE  Listed(t)'
  <2>1. t # threads[k] /\ state'[t] = state[t]
    BY <1>1, <1>2, <1>4 DEF TypeOK
  <2>2. PICK m \in 0 .. thread_size - 1 : threads[m] = t
    BY <1>4, <2>1 DEF LiveListed, Listed
  <2>3. m # k
    BY <2>1, <2>2
  <2>4. \E j \in 0 .. thread_size - 2 : threads'[j] = t
    BY <1>2, <2>2, <2>3
  <2> QED
    BY <1>2, <1>3, <2>4 DEF Listed
<1>5. ASSUME OneDeadEntry, NEW j \in 0 .. thread_size' - 1,
             NEW l \in 0 .. thread_size' - 1, DeadAt(j)', DeadAt(l)'
      PROVE  j = l
  <2> DEFINE from(n) == IF k <= n THEN n + 1 ELSE n
  <2>1. j \in 0 .. thread_size - 2 /\ l \in 0 .. thread_size - 2
    BY <1>2, <1>3
  <2>2. /\ from(j) \in 0 .. thread_size - 1 /\ from(j) # k
        /\ from(l) \in 0 .. thread_size - 1 /\ from(l) # k
        /\ from(j) = from(l) => j = l
    BY <1>3, <2>1
  <2>3. threads'[j] = threads[from(j)] /\ threads'[l] = threads[from(l)]
    BY <1>2, <2>1
  <2>4. DeadAt(from(j)) /\ DeadAt(from(l))
    <3>1. threads[from(j)] # threads[k] /\ threads[from(l)] # threads[k]
      BY <1>1, <2>2 DEF QueueOK
    <3> QED
      BY <1>1, <1>2, <1>5, <2>2, <2>3, <3>1 DEF DeadAt, QueueOK, TypeOK
  <2> QED
    BY <1>5, <2>2, <2>4 DEF OneDeadEntry
<1> QED
  BY <1>4, <1>5 DEF OneDeadEntry

\* kernelMain: nothing in the run queue is dead.
LEMMA BootCleaning ==
    ASSUME OwnershipInv, CleaningInv, NEW t \in Thread,
           CreateThread(t) \/ RemoveThread(t)
    PROVE  CleaningInv'
<1>1. mode = "boot" /\ mode' = "boot" /\ LiveListed /\ TypeOK
  BY DEF CreateThread, RemoveThread, CleaningInv, OwnershipInv
<1>2. CASE CreateThread(t)
  <2>1. CASE AddThread(t)
    <3>1. /\ state' = [state EXCEPT ![t] = "RUNNABLE"]
          /\ thread_size' = thread_size + 1
          /\ threads'[thread_size] = t
          /\ \A k \in 0 .. thread_size - 1 : threads'[k] = threads[k]
          /\ thread_size \in Nat
      BY <1>1, <2>1, BoundsAssumption DEF AddThread, TypeOK, Index
    <3>2. ASSUME NEW u \in Thread, state'[u] \in {"RUNNABLE", "RUNNING"}
          PROVE  Listed(u)'
      <4>1. CASE u = t
        BY <3>1, <4>1 DEF Listed
      <4>2. CASE u # t
        <5>1. Listed(u)
          BY <1>1, <3>1, <3>2, <4>2 DEF LiveListed, TypeOK
        <5> QED
          BY <3>1, <5>1 DEF Listed
      <4> QED
        BY <4>1, <4>2
    <3> QED
      BY <1>1, <3>2 DEF CleaningInv, LiveListed
  <2>2. CASE AddThreadRefuses(t)
    BY <1>1, <2>2 DEF AddThreadRefuses, CleaningInv, LiveListed, Listed
  <2> QED
    BY <1>2, <2>1, <2>2 DEF CreateThread
<1>3. CASE RemoveThread(t)
  <2>1. PICK k \in 0 .. thread_size - 1 : RemoveAt(k)
    BY <1>3 DEF RemoveThread
  <2>2. \A u \in Thread : state'[u] \in {"RUNNABLE", "RUNNING"} => Listed(u)'
    BY <1>1, <2>1, RemoveAtLive
  <2> QED
    BY <1>1, <2>2 DEF CleaningInv, LiveListed
<1> QED
  BY <1>2, <1>3

\* The entries of the run queue are finitely many, so the discipline that counts
\* the waiting dead threads says that two of them are the same.
LEMMA AwaitCleaningLemma ==
    ASSUME TypeOK, QueueOK, MaxDead <= 1, NEW u \in Thread,
           Cardinality(AwaitCleaning(u)) <= MaxDead
    PROVE  \A s, t \in AwaitCleaning(u) : s = t
<1> DEFINE Q == 0 .. thread_size - 1
           E == {threads[k] : k \in Q}
<1>1. thread_size \in Nat /\ MaxDead \in Nat
  BY BoundsAssumption DEF TypeOK
<1>2. IsFiniteSet(Q)
  BY <1>1, FS_Interval
<1>3. IsFiniteSet(E)
  <2>1. [k \in Q |-> threads[k]] \in Surjection(Q, E)
    BY DEF Surjection
  <2> QED
    BY <1>2, <2>1, FS_Surjection
<1>4. AwaitCleaning(u) \subseteq E
  BY DEF AwaitCleaning, Listed
<1>5. IsFiniteSet(AwaitCleaning(u))
  BY <1>3, <1>4, FS_Subset
<1>6. SUFFICES ASSUME NEW s \in AwaitCleaning(u), NEW t \in AwaitCleaning(u), s # t
               PROVE  FALSE
  OBVIOUS
<1>7. {s, t} \subseteq AwaitCleaning(u)
  OBVIOUS
<1>8. IsFiniteSet({s}) /\ Cardinality({s}) = 1
  BY FS_Singleton
<1>9. Cardinality({s} \cup {t}) = 2
  <2>1. t \notin {s}
    BY <1>6
  <2>2. Cardinality({s} \cup {t}) = Cardinality({s}) + 1
    BY <1>8, <2>1, FS_AddElement
  <2> QED
    BY <1>8, <2>2
<1>10. {s} \cup {t} = {s, t}
  OBVIOUS
<1>11. Cardinality({s, t}) <= Cardinality(AwaitCleaning(u))
  BY <1>5, <1>7, FS_Subset
<1>12. Cardinality(AwaitCleaning(u)) \in Nat
  BY <1>5, FS_CardinalityType
<1> QED
  BY <1>1, <1>9, <1>10, <1>11, <1>12

\* The program ends a thread only if no other dead one is listed.
LEMMA ProgramCleaning ==
    ASSUME OwnershipInv, CleaningInv, MaxDead <= 1, NEW t \in Thread, Program(t)
    PROVE  CleaningInv'
<1>1. TypeOK /\ QueueOK /\ mode = "user" /\ mode' = mode
      /\ UNCHANGED <<threads, thread_size>>
  BY DEF Program, JoinReturns, Finish, TermniateThread, JoinThread, Executes,
         OwnershipInv, queue
<1>2. LiveListed /\ OneDeadEntry
  BY <1>1 DEF CleaningInv
<1>3. CASE state' = state
  BY <1>1, <1>2, <1>3 DEF CleaningInv, LiveListed, Listed, OneDeadEntry, DeadAt
<1>4. ASSUME NEW u \in Thread, TermniateThread(t, u)
      PROVE  CleaningInv'
  <2>1. /\ state' = [state EXCEPT ![u] = "DEAD"]
        /\ Cardinality(AwaitCleaning(u)) <= MaxDead
    BY <1>4 DEF TermniateThread
  <2>2. \A s, r \in AwaitCleaning(u) : s = r
    BY <1>1, <2>1, AwaitCleaningLemma
  <2>3. LiveListed'
    BY <1>1, <1>2, <2>1 DEF LiveListed, Listed, TypeOK
  <2>4. ASSUME NEW j \in 0 .. thread_size - 1, NEW k \in 0 .. thread_size - 1,
               DeadAt(j)', DeadAt(k)'
        PROVE  j = k
    <3>1. threads[j] \in AwaitCleaning(u) /\ threads[k] \in AwaitCleaning(u)
      BY <1>1, <2>1, <2>4 DEF AwaitCleaning, Listed, DeadAt, QueueOK, TypeOK
    <3> QED
      BY <1>1, <2>2, <3>1 DEF QueueOK
  <2> QED
    BY <1>1, <2>3, <2>4 DEF CleaningInv, OneDeadEntry
<1> QED
  BY <1>3, <1>4 DEF Program, JoinReturns, Finish, JoinThread

\* The thread that an unhandled interrupt ends leaves the queue at once.
LEMMA UnhandledCleaning ==
    ASSUME OwnershipInv, CleaningInv, mode = "user", RemoveCurrentThread
    PROVE  CleaningInv'
<1>1. TypeOK /\ LiveListed /\ OneDeadEntry
  BY DEF OwnershipInv, CleaningInv
<1>2. /\ current_thread_idx \in 0 .. thread_size - 1
      /\ RemoveAt(current_thread_idx)
      /\ mode' = "schedule"
  BY <1>1 DEF RemoveCurrentThread, OwnershipInv, OwnerInv, IndexOK, NoThreadYet, TypeOK
<1>3. LiveListed' /\ OneDeadEntry'
  BY <1>1, <1>2, RemoveAtLive DEF LiveListed
<1> QED
  BY <1>2, <1>3 DEF CleaningInv

LEMMA CleanRoundCleaning ==
    ASSUME OwnershipInv, CleaningInv, CleanRound
    PROVE  CleaningInv'
<1>1. /\ TypeOK /\ QueueOK /\ LiveListed
      /\ mode = "clean" /\ mode' = "clean" /\ i < bound /\ i' = i + 1 /\ bound' = bound
      /\ thread_size \in Nat /\ i \in Nat /\ bound \in Nat /\ bound <= Capacity
      /\ Capacity \in Nat
  BY BoundsAssumption DEF CleanRound, OwnershipInv, CleaningInv, TypeOK
<1>2. CASE ~DeadAt(i)
  <2>1. UNCHANGED <<threads, thread_size, state>>
    BY <1>2 DEF CleanRound, DeadAt, queue
  <2>2. /\ LiveListed'
        /\ OneDeadEntry => OneDeadEntry'
        /\ \A k \in Int : ~DeadAt(k) => ~DeadAt(k)'
    BY <1>1, <2>1 DEF LiveListed, OneDeadEntry, DeadAt, Listed
  <2>3. \A k \in 0 .. i' - 1 : k \in 0 .. i - 1 \/ k = i
    BY <1>1
  <2>4. \A k \in i' .. bound - 1 : k \in i .. bound - 1
    BY <1>1
  <2> QED
    BY <1>1, <1>2, <2>1, <2>2, <2>3, <2>4 DEF CleaningInv
<1>3. CASE DeadAt(i)
  <2>1. /\ thread_size = bound
        /\ OneDeadEntry
        /\ i \in 0 .. thread_size - 1
    BY <1>1, <1>3 DEF CleaningInv
  <2>2. RemoveAt(i)
    BY <1>1, <1>3, <2>1 DEF CleanRound, DeadAt
  <2>3. LiveListed'
    BY <1>1, <2>1, <2>2, RemoveAtLive DEF LiveListed
  <2>4. /\ state' = [state EXCEPT ![threads[i]] = "DEAD"]
        /\ thread_size' = thread_size - 1
        /\ threads' = [j \in Index |-> IF i <= j /\ j < thread_size - 1
                                       THEN threads[j + 1] ELSE threads[j]]
    BY <2>2 DEF RemoveAt
  <2>5. state' = state
    BY <1>1, <1>3, <2>4 DEF DeadAt, TypeOK
  <2>6. \A k \in 0 .. thread_size - 1 : k # i => ~DeadAt(k)
    BY <1>3, <2>1 DEF OneDeadEntry
  <2>7. ASSUME NEW k \in 0 .. bound - 1, k < bound - 1 \/ i < k
        PROVE  ~DeadAt(k)'
    <3>1. k \in Index
      BY <1>1 DEF Index
    <3> DEFINE m == IF i <= k /\ k < thread_size - 1 THEN k + 1 ELSE k
    <3>2. threads'[k] = threads[m]
      BY <2>4, <3>1
    <3>3. m \in 0 .. thread_size - 1 /\ m # i
      BY <1>1, <2>1, <2>7
    <3> QED
      BY <2>5, <2>6, <3>2, <3>3 DEF DeadAt
  <2>8. \A k \in 0 .. thread_size' - 1 : ~DeadAt(k)'
    BY <1>1, <2>1, <2>4, <2>7
  <2>9. \A k \in i' .. bound - 1 : ~DeadAt(k)'
    BY <1>1, <2>7
  <2> QED
    BY <1>1, <2>1, <2>3, <2>4, <2>8, <2>9 DEF CleaningInv
<1> QED
  BY <1>2, <1>3

\* The loop has left no dead entry when the next thread is chosen.
LEMMA SwitchChoosesLive ==
    ASSUME OwnershipInv, CleaningInv, SwitchThread
    PROVE  /\ NextIndex \in 0 .. thread_size - 1
           /\ \A k \in 0 .. thread_size - 1 : ~DeadAt(k)
<1>1. TypeOK /\ mode = "clean" /\ i = bound /\ thread_size > 0
  BY DEF SwitchThread, OwnershipInv
<1>2. NextIndex \in 0 .. thread_size - 1
  BY <1>1, NextIndexLemma DEF TypeOK
<1> QED
  BY <1>1, <1>2 DEF CleaningInv

LEMMA HandlerCleaning ==
    ASSUME OwnershipInv, CleaningInv, Handler
    PROVE  CleaningInv'
<1>1. CASE ScheduleEmpty
  BY <1>1 DEF ScheduleEmpty, Resume, queue, CleaningInv, LiveListed, Listed,
              OneDeadEntry, DeadAt
<1>2. CASE SchedulePrologue
  <2>1. /\ TypeOK /\ QueueOK /\ LiveListed /\ OneDeadEntry
        /\ thread_size > 0
        /\ i' = 0 /\ bound' = thread_size /\ mode' = "clean"
        /\ UNCHANGED <<threads, thread_size>>
    BY <1>2 DEF SchedulePrologue, OwnershipInv, CleaningInv, queue
  <2>2. \/ state' = state
        \/ \E k \in 0 .. thread_size - 1 :
              ~DeadAt(k) /\ state' = [state EXCEPT ![threads[k]] = "RUNNABLE"]
    <3>1. CASE SavesCurrent
      <4>1. current_thread_idx \in 0 .. thread_size - 1
        BY <1>2, <2>1, <3>1
           DEF SchedulePrologue, SavesCurrent, OwnershipInv, OwnerInv, IndexOK,
               NoThreadYet, TypeOK
      <4> QED
        BY <1>2, <3>1, <4>1 DEF SchedulePrologue, YieldThread, DeadAt
    <3>2. CASE ~SavesCurrent
      BY <1>2, <3>2 DEF SchedulePrologue
    <3> QED
      BY <3>1, <3>2
  <2>3. \A t \in Thread : state'[t] = "DEAD" => state[t] = "DEAD"
    BY <2>1, <2>2 DEF TypeOK
  <2>4. OneDeadEntry'
    BY <2>1, <2>3 DEF OneDeadEntry, DeadAt, QueueOK
  <2>5. LiveListed'
    <3>1. ASSUME NEW t \in Thread, state'[t] \in {"RUNNABLE", "RUNNING"}
          PROVE  Listed(t)
      <4>1. CASE state'[t] = state[t]
        BY <2>1, <3>1, <4>1, <1>2 DEF LiveListed, SchedulePrologue
      <4>2. CASE state'[t] # state[t]
        BY <2>1, <2>2, <4>2 DEF Listed, TypeOK
      <4> QED
        BY <4>1, <4>2
    <3> QED
      BY <2>1, <3>1 DEF LiveListed, Listed
  <2> QED
    BY <2>1, <2>4, <2>5 DEF CleaningInv
<1>3. CASE CleanRound
  BY <1>3, CleanRoundCleaning
<1>4. CASE SwitchToKernel
  BY <1>4 DEF SwitchToKernel, Resume, queue, CleaningInv, LiveListed, Listed,
              OneDeadEntry, DeadAt, OwnershipInv, TypeOK
<1>5. CASE SwitchThread
  <2>1. /\ TypeOK /\ QueueOK /\ LiveListed
        /\ UNCHANGED <<threads, thread_size>>
        /\ mode' = "user"
        /\ state' = [state EXCEPT ![threads[NextIndex]] = "RUNNING"]
    BY <1>5 DEF SwitchThread, Resume, OwnershipInv, CleaningInv
  <2>2. /\ NextIndex \in 0 .. thread_size - 1
        /\ \A k \in 0 .. thread_size - 1 : ~DeadAt(k)
    BY <1>5, SwitchChoosesLive
  <2>3. \A k \in 0 .. thread_size - 1 : ~DeadAt(k)'
    BY <2>1, <2>2 DEF DeadAt, QueueOK, TypeOK
  <2>4. LiveListed'
    BY <1>5, <2>1, <2>2 DEF LiveListed, Listed, SwitchThread, TypeOK
  <2> QED
    BY <2>1, <2>3, <2>4 DEF CleaningInv, OneDeadEntry
<1> QED
  BY <1>1, <1>2, <1>3, <1>4, <1>5 DEF Handler

LEMMA CleaningInductive ==
    MaxDead <= 1 /\ OwnershipInv /\ CleaningInv /\ [Next]_vars => CleaningInv'
<1> SUFFICES ASSUME MaxDead <= 1, OwnershipInv, CleaningInv, [Next]_vars
             PROVE  CleaningInv'
  OBVIOUS
<1>1. ASSUME NEW t \in Thread, CreateThread(t) \/ RemoveThread(t) PROVE CleaningInv'
  BY <1>1, BootCleaning
<1>2. ASSUME NEW t \in Thread, Program(t) PROVE CleaningInv'
  BY <1>2, ProgramCleaning
<1>3. CASE Activate
  BY <1>3 DEF Activate, OwnershipInv, BootInv, queue, CleaningInv, LiveListed,
              Listed, OneDeadEntry, DeadAt
<1>4. CASE TimerInterrupt \/ InterruptAtZero
  BY <1>4 DEF TimerInterrupt, InterruptAtZero, queue, CleaningInv, LiveListed, Listed,
              OneDeadEntry, DeadAt
<1>5. CASE Fault
  BY <1>5, UnhandledCleaning DEF Fault
<1>6. CASE DeviceInterrupt
  <2>1. CASE RemoveCurrentThread
    BY <1>6, <2>1, UnhandledCleaning DEF DeviceInterrupt
  <2>2. CASE RemoveBeforeFirstTick
    BY <2>2 DEF RemoveBeforeFirstTick, CleaningInv
  <2> QED
    BY <1>6, <2>1, <2>2 DEF DeviceInterrupt
<1>7. CASE Handler
  BY <1>7, HandlerCleaning
<1>8. CASE UNCHANGED vars
  BY <1>8 DEF vars, queue, locals, CleaningInv, LiveListed, Listed, OneDeadEntry, DeadAt
<1> QED
  BY <1>1, <1>2, <1>3, <1>4, <1>5, <1>6, <1>7, <1>8 DEF Next

\* If the program ends at most one thread per tick, the loop of Schedule meets at
\* most one dead entry, and at every round knows where it is.
THEOREM CleaningInvariant == MaxDead <= 1 => (Spec => []CleaningInv)
<1> SUFFICES ASSUME MaxDead <= 1 PROVE Spec => []CleaningInv
  OBVIOUS
<1>1. Init => CleaningInv
  BY DEF Init, CleaningInv, LiveListed
<1>2. OwnershipInv /\ CleaningInv /\ [Next]_vars => CleaningInv'
  BY CleaningInductive
<1> QED
  BY <1>1, <1>2, OwnershipInvariant, PTL DEF Spec

\* While at most one terminated thread waits for each tick, Schedule's loop drops
\* no live thread from the run queue, for any number of threads.
THEOREM LiveStayListed == MaxDead <= 1 => (Spec => []LiveListed)
<1> SUFFICES ASSUME MaxDead <= 1 PROVE Spec => []LiveListed
  OBVIOUS
<1>1. Spec => []CleaningInv
  BY CleaningInvariant
<1>2. CleaningInv => LiveListed
  BY DEF CleaningInv, LiveListed
<1> QED
  BY <1>1, <1>2, PTL

\* Under the same discipline Schedule makes no dead thread RUNNING again.
THEOREM DeadAreNotRevived == MaxDead <= 1 => (Spec => DeadStaysDead)
<1> SUFFICES ASSUME MaxDead <= 1 PROVE Spec => DeadStaysDead
  OBVIOUS
<1>1. Spec => []CleaningInv
  BY CleaningInvariant
<1>2. ASSUME OwnershipInv, CleaningInv, Next, mode # "boot",
             NEW t \in Thread, state[t] = "DEAD"
      PROVE  state'[t] = "DEAD"
  <2>1. ASSUME NEW u \in Thread, Program(u) PROVE state'[t] = "DEAD"
    BY <1>2, <2>1 DEF Program, JoinReturns, Finish, TermniateThread, JoinThread,
                      OwnershipInv, TypeOK
  <2>2. CASE \E u \in Thread : CreateThread(u) \/ RemoveThread(u)
    BY <1>2, <2>2 DEF CreateThread, RemoveThread
  <2>3. CASE Activate \/ TimerInterrupt \/ InterruptAtZero
    BY <1>2, <2>3 DEF Activate, TimerInterrupt, InterruptAtZero
  <2>4. CASE Fault \/ DeviceInterrupt
    BY <1>2, <2>4 DEF Fault, DeviceInterrupt, RemoveCurrentThread, RemoveAt,
                      RemoveBeforeFirstTick, OwnershipInv, TypeOK
  <2>5. CASE ScheduleEmpty \/ SwitchToKernel
    BY <1>2, <2>5 DEF ScheduleEmpty, SwitchToKernel
  <2>6. CASE SchedulePrologue
    BY <1>2, <2>6 DEF SchedulePrologue, YieldThread, OwnershipInv, TypeOK
  <2>7. CASE CleanRound
    BY <1>2, <2>7 DEF CleanRound, RemoveAt, OwnershipInv, TypeOK
  <2>8. CASE SwitchThread
    <3>1. threads[NextIndex] # t
      BY <1>2, <2>8, SwitchChoosesLive DEF DeadAt
    <3> QED
      BY <1>2, <2>8, <3>1 DEF SwitchThread, OwnershipInv, TypeOK
  <2> QED
    BY <1>2, <2>1, <2>2, <2>3, <2>4, <2>5, <2>6, <2>7, <2>8 DEF Next, Handler
<1>3. OwnershipInv /\ CleaningInv /\ [Next]_vars =>
        [mode # "boot" =>
           \A t \in Thread : state[t] = "DEAD" => state'[t] = "DEAD"]_vars
  BY <1>2
<1> QED
  BY <1>1, <1>3, OwnershipInvariant, PTL DEF Spec, DeadStaysDead

-----------------------------------------------------------------------------
(* The library implements Scheduler.tla, step by step *)

\* What is in the run queue was given its state by AddThread.
ListedNotNew ==
    mode # "wild" => \A k \in 0 .. thread_size - 1 : state[threads[k]] # "NEW"

\* No step makes a thread NEW again.
LEMMA NeverNewAgain ==
    ASSUME TypeOK, [Next]_vars
    PROVE  \A t \in Thread : state[t] # "NEW" => state'[t] # "NEW"
<1> DEFINE Stays == \A t \in Thread : state[t] # "NEW" => state'[t] # "NEW"
<1>1. CASE state' = state
  BY <1>1
<1>2. ASSUME NEW u, state' = [state EXCEPT ![u] = "DEAD"] PROVE Stays
  BY <1>2 DEF TypeOK
<1>3. ASSUME NEW t \in Thread, CreateThread(t) PROVE Stays
  BY <1>3 DEF CreateThread, AddThread, AddThreadRefuses, TypeOK
<1>4. ASSUME NEW t \in Thread, RemoveThread(t) PROVE Stays
  BY <1>2, <1>4 DEF RemoveThread, RemoveAt
<1>5. ASSUME NEW t \in Thread, Program(t) PROVE Stays
  BY <1>1, <1>2, <1>5 DEF Program, JoinReturns, Finish, TermniateThread, JoinThread
<1>6. CASE \/ Activate \/ TimerInterrupt \/ InterruptAtZero
           \/ RemoveBeforeFirstTick \/ UNCHANGED vars
  BY <1>1, <1>6 DEF Activate, TimerInterrupt, InterruptAtZero, RemoveBeforeFirstTick, vars
<1>7. CASE RemoveCurrentThread
  BY <1>2, <1>7 DEF RemoveCurrentThread, RemoveAt
<1>8. CASE ScheduleEmpty \/ SwitchToKernel
  BY <1>1, <1>8 DEF ScheduleEmpty, SwitchToKernel
<1>9. CASE SchedulePrologue
  <2>1. state' = state \/ YieldThread
    BY <1>9 DEF SchedulePrologue
  <2>2. CASE YieldThread
    <3> DEFINE c == threads[current_thread_idx]
    <3>1. state' = state \/ state' = [state EXCEPT ![c] = "RUNNABLE"]
      BY <2>2 DEF YieldThread
    <3> QED
      BY <3>1 DEF TypeOK
  <2> QED
    BY <1>1, <2>1, <2>2
<1>10. CASE CleanRound
  BY <1>1, <1>2, <1>10 DEF CleanRound, RemoveAt
<1>11. CASE SwitchThread
  <2>1. state' = [state EXCEPT ![threads[NextIndex]] = "RUNNING"]
    BY <1>11 DEF SwitchThread
  <2> QED
    BY <2>1 DEF TypeOK
<1> QED
  BY <1>3, <1>4, <1>5, <1>6, <1>7, <1>8, <1>9, <1>10, <1>11
     DEF Next, Fault, DeviceInterrupt, Handler

\* An entry is removed where the queue is not empty, or the queue grows by AddThread.
LEMMA ListedNotNewInductive ==
    OwnershipInv /\ CleaningInv /\ ListedNotNew /\ [Next]_vars => ListedNotNew'
<1> SUFFICES ASSUME OwnershipInv, CleaningInv, ListedNotNew, [Next]_vars
             PROVE  ListedNotNew'
  OBVIOUS
<1>1. TypeOK /\ (mode # "wild" => QueueOK) /\ thread_size \in Nat
  BY DEF OwnershipInv, TypeOK
<1>2. \A t \in Thread : state[t] # "NEW" => state'[t] # "NEW"
  BY <1>1, NeverNewAgain
<1>3. CASE mode = "wild"
  BY <1>3 DEF Next, CreateThread, RemoveThread, Program, JoinReturns, Finish, Executes,
      TermniateThread, JoinThread, Activate, TimerInterrupt, InterruptAtZero, Fault,
      DeviceInterrupt,
      Handler, ScheduleEmpty, SchedulePrologue, CleanRound, SwitchToKernel,
      SwitchThread, vars, ListedNotNew
<1>4. CASE mode # "wild" /\ UNCHANGED <<threads, thread_size>>
  BY <1>1, <1>2, <1>4 DEF ListedNotNew, QueueOK
<1>5. ASSUME mode # "wild", NEW k \in 0 .. thread_size - 1, RemoveAt(k)
      PROVE  ListedNotNew'
  <2>1. /\ thread_size' = thread_size - 1
        /\ \A j \in 0 .. thread_size - 2 :
              threads'[j] = threads[IF k <= j THEN j + 1 ELSE j]
    BY <1>1, <1>5, RemoveAtKeeps
  <2>2. ASSUME NEW j \in 0 .. thread_size - 2 PROVE state'[threads'[j]] # "NEW"
    <3> DEFINE m == IF k <= j THEN j + 1 ELSE j
    <3>1. m \in 0 .. thread_size - 1 /\ threads'[j] = threads[m]
      BY <1>1, <2>1
    <3> QED
      BY <1>1, <1>2, <1>5, <3>1 DEF ListedNotNew, QueueOK
  <2>3. thread_size' - 1 = thread_size - 2
    BY <1>1, <2>1
  <2> QED
    BY <2>2, <2>3 DEF ListedNotNew
<1>6. ASSUME NEW t \in Thread, CreateThread(t) PROVE ListedNotNew'
  <2>1. CASE AddThreadRefuses(t)
    BY <1>4, <1>6, <2>1 DEF AddThreadRefuses, CreateThread
  <2>2. CASE AddThread(t)
    <3>1. /\ thread_size' = thread_size + 1
          /\ threads'[thread_size] = t
          /\ \A k \in 0 .. thread_size - 1 : threads'[k] = threads[k]
          /\ state' = [state EXCEPT ![t] = "RUNNABLE"]
      BY <1>1, <2>2, BoundsAssumption DEF AddThread, TypeOK, Index
    <3>2. mode # "wild"
      BY <1>6 DEF CreateThread
    <3>3. \A k \in 0 .. thread_size' - 1 : k = thread_size \/ k \in 0 .. thread_size - 1
      BY <1>1, <3>1
    <3>4. state'[t] # "NEW"
      BY <1>1, <3>1 DEF TypeOK
    <3> QED
      BY <1>1, <1>2, <3>1, <3>2, <3>3, <3>4 DEF ListedNotNew, QueueOK
  <2> QED
    BY <1>6, <2>1, <2>2 DEF CreateThread
<1>7. ASSUME NEW t \in Thread, RemoveThread(t) PROVE ListedNotNew'
  BY <1>5, <1>7 DEF RemoveThread
<1>8. ASSUME NEW t \in Thread, Program(t) PROVE ListedNotNew'
  BY <1>4, <1>8 DEF Program, JoinReturns, Finish, TermniateThread, JoinThread, Executes,
                    queue
<1>9. CASE Activate \/ TimerInterrupt
  BY <1>4, <1>9 DEF Activate, TimerInterrupt, queue
<1>10. CASE RemoveCurrentThread /\ mode = "user"
  <2>1. current_thread_idx \in 0 .. thread_size - 1 /\ RemoveAt(current_thread_idx)
    BY <1>1, <1>10 DEF RemoveCurrentThread, OwnershipInv, OwnerInv, IndexOK,
                       NoThreadYet, TypeOK
  <2> QED
    BY <1>5, <1>10, <2>1
<1>11. CASE RemoveBeforeFirstTick \/ InterruptAtZero
  BY <1>11 DEF RemoveBeforeFirstTick, InterruptAtZero, ListedNotNew
<1>12. CASE ScheduleEmpty \/ SchedulePrologue \/ SwitchToKernel \/ SwitchThread
  BY <1>4, <1>12 DEF ScheduleEmpty, SchedulePrologue, SwitchToKernel, SwitchThread, queue
<1>13. CASE CleanRound
  <2>1. CASE UNCHANGED <<threads, thread_size>>
    BY <1>4, <1>13, <2>1 DEF CleanRound
  <2>2. CASE RemoveAt(i) /\ DeadAt(i)
    <3>1. i \in 0 .. thread_size - 1
      BY <1>1, <1>13, <2>2 DEF CleanRound, CleaningInv, TypeOK
    <3> QED
      BY <1>5, <1>13, <2>2, <3>1 DEF CleanRound
  <2> QED
    BY <1>13, <2>1, <2>2 DEF CleanRound, DeadAt, queue
<1>14. CASE UNCHANGED vars /\ mode # "wild"
  BY <1>4, <1>14 DEF vars, queue
<1> QED
  BY <1>3, <1>6, <1>7, <1>8, <1>9, <1>10, <1>11, <1>12, <1>13, <1>14
     DEF Next, Fault, DeviceInterrupt, Handler

\* A step that ends a thread, or finds it dead already.
LEMMA DeathPromise ==
    ASSUME TypeOK, NEW t \in Thread, state' = [state EXCEPT ![t] = "DEAD"],
           cpu' = cpu, (mode # "boot")' = (mode # "boot")
    PROVE  [Promise!Next]_(Promise!vars)
<1>1. \A u \in Thread : state'[u] = IF u = t THEN "DEAD" ELSE state[u]
  BY DEF TypeOK
<1>2. Live' = Live \ {t}
  BY <1>1 DEF Live
<1>3. CASE t \in Live
  BY <1>2, <1>3 DEF Promise!Retire, Promise!Next
<1>4. CASE t \notin Live
  BY <1>2, <1>4 DEF Promise!vars
<1> QED
  BY <1>3, <1>4

\* A step that neither ends a thread nor gives the processor away.
LEMMA StutterPromise ==
    ASSUME Live' = Live, cpu' = cpu, (mode # "boot")' = (mode # "boot")
    PROVE  [Promise!Next]_(Promise!vars)
  BY DEF Promise!vars

LEMMA BootPromise ==
    ASSUME OwnershipInv, RunningInv, NEW t \in Thread, CreateThread(t) \/ RemoveThread(t)
    PROVE  [Promise!Next]_(Promise!vars)
<1>1. TypeOK /\ mode = "boot" /\ mode' = mode /\ cpu' = cpu
  BY DEF CreateThread, RemoveThread, OwnershipInv
<1>2. CASE CreateThread(t) /\ AddThread(t)
  <2>1. t \notin Live
    BY <1>1, <1>2 DEF AddThread, RunningInv, NobodyRuns, Live
  <2>2. \A u \in Thread : state'[u] = IF u = t THEN "RUNNABLE" ELSE state[u]
    BY <1>1, <1>2 DEF AddThread, TypeOK
  <2>3. Live' = Live \cup {t}
    BY <2>2 DEF Live
  <2> QED
    BY <1>1, <2>1, <2>3 DEF Promise!Create, Promise!Next
<1>3. CASE CreateThread(t) /\ AddThreadRefuses(t)
  <2>1. Live' = Live
    BY <1>3 DEF AddThreadRefuses, Live
  <2> QED
    BY <1>1, <2>1, StutterPromise
<1>4. CASE RemoveThread(t)
  <2>1. PICK k \in 0 .. thread_size - 1 : RemoveAt(k)
    BY <1>4 DEF RemoveThread
  <2>2. threads[k] \in Thread /\ state' = [state EXCEPT ![threads[k]] = "DEAD"]
    BY <1>1, <2>1 DEF RemoveAt, OwnershipInv, QueueOK
  <2> QED
    BY <1>1, <2>2, DeathPromise
<1> QED
  BY <1>2, <1>3, <1>4 DEF CreateThread

LEMMA ProgramPromise ==
    ASSUME TypeOK, NEW t \in Thread, Program(t)
    PROVE  [Promise!Next]_(Promise!vars)
<1>1. UNCHANGED <<cpu, mode>>
  BY DEF Program, JoinReturns, Finish, TermniateThread, JoinThread
<1>2. CASE state' = state
  BY <1>1, <1>2, StutterPromise DEF Live
<1>3. ASSUME NEW u \in Thread, TermniateThread(t, u)
      PROVE  [Promise!Next]_(Promise!vars)
  BY <1>1, <1>3, DeathPromise DEF TermniateThread
<1> QED
  BY <1>2, <1>3 DEF Program, JoinReturns, Finish, JoinThread

\* The end of a thread that an interrupt without a handler takes for finished.
LEMMA UnhandledPromise ==
    ASSUME OwnershipInv, mode = "user", RemoveCurrentThread
    PROVE  [Promise!Next]_(Promise!vars)
<1>1. /\ TypeOK
      /\ threads[current_thread_idx] \in Thread
  BY DEF RemoveCurrentThread, OwnershipInv, OwnerInv, IndexOK, NoThreadYet, TypeOK
<1>2. /\ state' = [state EXCEPT ![threads[current_thread_idx]] = "DEAD"]
      /\ mode' = "schedule" /\ cpu' = cpu
  BY DEF RemoveCurrentThread, RemoveAt
<1> QED
  BY <1>1, <1>2, DeathPromise

\* The handler gives the processor to a live thread, to the kernel if none is
\* left, and until then changes nothing that the promise speaks of.
LEMMA HandlerPromise ==
    ASSUME OwnershipInv, CleaningInv, ListedNotNew, Handler
    PROVE  [Promise!Next]_(Promise!vars)
<1>1. /\ TypeOK /\ QueueOK /\ LiveListed /\ thread_size \in Nat
      /\ mode \in {"schedule", "clean"} /\ mode' # "boot"
  BY DEF Handler, ScheduleEmpty, SchedulePrologue, CleanRound, SwitchToKernel,
         SwitchThread, Resume, OwnershipInv, CleaningInv, TypeOK
<1>2. CASE ScheduleEmpty \/ SwitchToKernel
  <2>1. cpu' = Kernel /\ state' = state /\ thread_size = 0
    BY <1>1, <1>2 DEF ScheduleEmpty, SwitchToKernel, Resume, FirstSave, OwnershipInv,
                      FirstTickInv, NoThreadYet
  <2>2. Live = {}
    BY <1>1, <2>1 DEF LiveListed, Listed, Live
  <2>3. Live' = Live
    BY <2>1 DEF Live
  <2> QED
    BY <1>1, <2>1, <2>2, <2>3 DEF Promise!Idle, Promise!Next
<1>3. CASE SchedulePrologue
  <2>1. cpu' = cpu
    BY <1>3 DEF SchedulePrologue
  <2>2. CASE state' = state
    BY <1>1, <2>1, <2>2, StutterPromise DEF Live
  <2>3. CASE SavesCurrent /\ YieldThread
    <3> DEFINE c == threads[current_thread_idx]
    <3>1. current_thread_idx \in 0 .. thread_size - 1
      BY <1>1, <1>3, <2>3 DEF SchedulePrologue, SavesCurrent, OwnershipInv, OwnerInv,
                              IndexOK, NoThreadYet, TypeOK
    <3>2. c \in Thread /\ state[c] # "NEW"
      BY <1>1, <3>1 DEF QueueOK, ListedNotNew
    <3>3. CASE state[c] = "DEAD"
      BY <2>2, <2>3, <3>3 DEF YieldThread
    <3>4. CASE state[c] # "DEAD"
      <4>1. \A u \in Thread : state'[u] = IF u = c THEN "RUNNABLE" ELSE state[u]
        BY <1>1, <2>3, <3>4 DEF YieldThread, TypeOK
      <4>2. c \in Live
        BY <1>1, <3>2, <3>4 DEF Live, TypeOK, THREAD_STATE
      <4>3. Live' = Live
        BY <4>1, <4>2 DEF Live
      <4> QED
        BY <1>1, <2>1, <4>3, StutterPromise
    <3> QED
      BY <3>3, <3>4
  <2> QED
    BY <1>3, <2>2, <2>3 DEF SchedulePrologue
<1>4. CASE CleanRound
  <2>1. cpu' = cpu /\ i \in 0 .. bound - 1
    BY <1>1, <1>4 DEF CleanRound, TypeOK
  <2>2. threads[i] \in Thread
    BY <1>4, <2>1 DEF CleanRound, OwnershipInv, LoopInv
  <2>3. CASE state' = state
    BY <1>1, <2>1, <2>3, StutterPromise DEF Live
  <2>4. CASE state' = [state EXCEPT ![threads[i]] = "DEAD"]
    BY <1>1, <2>1, <2>2, <2>4, DeathPromise
  <2> QED
    BY <1>4, <2>3, <2>4 DEF CleanRound, RemoveAt
<1>5. CASE SwitchThread
  <2> DEFINE n == threads[NextIndex]
  <2>1. NextIndex \in 0 .. thread_size - 1 /\ ~DeadAt(NextIndex)
    BY <1>5, SwitchChoosesLive
  <2>2. n \in Thread /\ state[n] \notin {"DEAD", "NEW"}
    BY <1>1, <2>1 DEF QueueOK, ListedNotNew, DeadAt
  <2>3. n \in Live
    BY <1>1, <2>2 DEF Live, TypeOK, THREAD_STATE
  <2>4. cpu' = n
    BY <1>5, <2>1 DEF SwitchThread, Resume, OwnershipInv, SavedInv, FrameOK
  <2>5. \A u \in Thread : state'[u] = IF u = n THEN "RUNNING" ELSE state[u]
    BY <1>1, <1>5 DEF SwitchThread, TypeOK
  <2>6. Live' = Live
    BY <2>3, <2>5 DEF Live
  <2>7. Promise!DispatchTo(n)
    BY <1>1, <2>3, <2>4, <2>6 DEF Promise!DispatchTo
  <2> QED
    BY <2>2, <2>7 DEF Promise!Next
<1> QED
  BY <1>2, <1>3, <1>4, <1>5 DEF Handler

LEMMA StepPromise ==
    OwnershipInv /\ RunningInv /\ CleaningInv /\ ListedNotNew /\ [Next]_vars =>
        [Promise!Next]_(Promise!vars)
<1> SUFFICES ASSUME OwnershipInv, RunningInv, CleaningInv, ListedNotNew, [Next]_vars
             PROVE  [Promise!Next]_(Promise!vars)
  OBVIOUS
<1>1. TypeOK
  BY DEF OwnershipInv
<1>2. ASSUME NEW t \in Thread, CreateThread(t) \/ RemoveThread(t)
      PROVE  [Promise!Next]_(Promise!vars)
  BY <1>2, BootPromise
<1>3. ASSUME NEW t \in Thread, Program(t)
      PROVE  [Promise!Next]_(Promise!vars)
  BY <1>1, <1>3, ProgramPromise
<1>4. CASE Activate
  <2>1. Live' = Live /\ cpu' = cpu /\ (mode # "boot")' = TRUE
    BY <1>4 DEF Activate, Live
  <2> QED
    BY <2>1 DEF Promise!Start, Promise!Next
<1>5. CASE \/ TimerInterrupt \/ InterruptAtZero
           \/ RemoveBeforeFirstTick /\ mode = "user"
  <2>1. Live' = Live /\ cpu' = cpu /\ mode # "boot" /\ mode' # "boot"
    BY <1>5 DEF TimerInterrupt, InterruptAtZero, RemoveBeforeFirstTick, Live
  <2> QED
    BY <2>1, StutterPromise
<1>6. CASE RemoveCurrentThread /\ mode = "user"
  BY <1>6, UnhandledPromise
<1>7. CASE Handler
  BY <1>7, HandlerPromise
<1>8. CASE UNCHANGED vars
  BY <1>8 DEF vars, Live, Promise!vars
<1> QED
  BY <1>2, <1>3, <1>4, <1>5, <1>6, <1>7, <1>8 DEF Next, Fault, DeviceInterrupt

\* The run queue, the saved frames and the loops of Schedule come to what Scheduler.tla
\* promises: a thread is live from CreateThread until it is terminated, removed or
\* finished, only a live thread is given the processor, and the kernel's idle loop
\* gets it only when none is left.  (That every live thread is dispatched again and
\* again is the fairness part of ImplementsScheduler, which a run checks.)
THEOREM KeepsPromise == MaxDead <= 1 => (Spec => Promise!Steps)
<1> SUFFICES ASSUME MaxDead <= 1 PROVE Spec => Promise!Steps
  OBVIOUS
<1> DEFINE Inv == OwnershipInv /\ RunningInv /\ CleaningInv /\ ListedNotNew
<1>1. Init => Promise!Init
  BY DEF Init, Live, Promise!Init
<1>2. Init => Inv
  BY InitOwnership, InitRunning DEF Init, CleaningInv, LiveListed, ListedNotNew
<1>3. Inv /\ [Next]_vars => Inv'
  BY OwnershipInductive, RunningInductive, CleaningInductive, ListedNotNewInductive
<1>4. Inv /\ [Next]_vars => [Promise!Next]_(Promise!vars)
  BY StepPromise
<1> QED
  BY <1>1, <1>2, <1>3, <1>4, PTL DEF Spec, Promise!Steps
=============================================================================
