--------------------------- MODULE TaskManagerProofs ---------------------------
(***************************************************************************)
(* Whatever the program does - any number of threads terminated in one     *)
(* time slice, threads created twice, devices interrupting - Schedule      *)
(* never saves one thread's registers as another's, and never loads a      *)
(* frame that is not there.  The argument is the invariant OwnershipInv:   *)
(* the run queue has no duplicates, its interrupted entry is the one at    *)
(* current_thread_idx, and all its other entries have saved frames.  A     *)
(* removal, also the wrong one of a stale entry, only takes entries away,  *)
(* and keeps this.                                                         *)
(***************************************************************************)
EXTENDS TaskManager, TLAPS

\* What a removal at entry k leaves: entries of the queue, each still once, and
\* without entry k if that belonged to the queue.
Removed(k) ==
    /\ threads' \in [Index -> Thread \cup {None}]
    /\ thread_size' = thread_size - 1
    /\ thread_size' \in 0 .. Capacity
    /\ state' \in [Thread -> THREAD_STATE]
    /\ QueueOK'
    /\ \A j \in 0 .. thread_size' - 1 :
          \E m \in 0 .. thread_size - 1 :
             /\ threads'[j] = threads[m]
             /\ k < thread_size => m # k

\* RemoveAt does just that, also for a stale entry beyond the queue.
LEMMA RemoveAtLemma ==
    ASSUME TypeOK, QueueOK, thread_size > 0,
           NEW k \in Index, threads[k] \in Thread, RemoveAt(k)
    PROVE  Removed(k)
<1> USE DEF Index
<1> DEFINE m(j) == IF k <= j /\ j < thread_size - 1 THEN j + 1 ELSE j
<1>1. /\ Capacity \in Nat \ {0}
      /\ threads \in [Index -> Thread \cup {None}]
      /\ thread_size \in 1 .. Capacity
      /\ state \in [Thread -> THREAD_STATE]
  BY BoundsAssumption DEF TypeOK
<1>2. /\ thread_size' = thread_size - 1
      /\ thread_size' \in 0 .. Capacity
      /\ state' \in [Thread -> THREAD_STATE]
  BY <1>1 DEF RemoveAt, THREAD_STATE
<1>3. threads' = [j \in Index |-> threads[m(j)]]
  BY DEF RemoveAt
<1>4. \A j \in Index : m(j) \in Index
  BY <1>1
<1>5. threads' \in [Index -> Thread \cup {None}]
  BY <1>1, <1>3, <1>4
<1>6. \A j \in 0 .. thread_size' - 1 :
         /\ m(j) \in 0 .. thread_size - 1
         /\ threads'[j] = threads[m(j)]
         /\ k < thread_size => m(j) # k
  <2> SUFFICES ASSUME NEW j \in 0 .. thread_size' - 1
               PROVE  /\ m(j) \in 0 .. thread_size - 1
                      /\ threads'[j] = threads[m(j)]
                      /\ k < thread_size => m(j) # k
    OBVIOUS
  <2>1. j \in Index
    BY <1>1, <1>2
  <2>2. threads'[j] = threads[m(j)]
    BY <1>3, <2>1
  <2> QED
    BY <1>1, <1>2, <2>2
<1>7. \A j, l \in 0 .. thread_size' - 1 : m(j) = m(l) => j = l
  BY <1>1, <1>2
<1>8. QueueOK'
  BY <1>6, <1>7 DEF QueueOK
<1> QED
  BY <1>2, <1>5, <1>6, <1>8 DEF Removed

LEMMA InitOwnership ==
    Init => OwnershipInv
<1> SUFFICES ASSUME Init PROVE OwnershipInv
  OBVIOUS
<1>1. TypeOK
  <2>1. /\ threads \in [Index -> Thread \cup {None}]
        /\ state \in [Thread -> THREAD_STATE]
        /\ ID \in [Thread -> Int]
        /\ cpustate \in [Thread -> Thread \cup {None}]
        /\ joining \in [Thread -> Thread \cup {None}]
        /\ finished \in [Thread -> BOOLEAN]
    BY DEF Init, THREAD_STATE
  <2>2. /\ thread_size \in 0 .. Capacity
        /\ threadIDCounter \in Nat
        /\ current_thread_idx \in -1 .. Capacity - 1
        /\ i \in 0 .. Capacity
        /\ bound \in 0 .. Capacity
        /\ tempCurr \in -1 .. Capacity - 1
    BY BoundsAssumption DEF Init
  <2>3. /\ firstInterrupt \in BOOLEAN
        /\ unhandled \in BOOLEAN
        /\ empty_cpustate \in {Kernel, None}
        /\ cpu \in Thread \cup {Kernel}
        /\ mode \in {"boot", "user", "schedule", "clean", "wild"}
    BY Zenon DEF Init
  <2> QED
    BY <2>1, <2>2, <2>3 DEF TypeOK
<1>2. QueueOK /\ BootInv
  BY DEF Init, QueueOK, BootInv, NoThreadYet
<1>3. FirstTickInv /\ OwnerInv /\ SavedInv /\ LoopInv
  BY DEF Init, FirstTickInv, OwnerInv, SavedInv, LoopInv
<1> QED
  BY <1>1, <1>2, <1>3 DEF OwnershipInv
\* Steps of the program that leave the queue and the frames alone.
LEMMA ProgramOwnership ==
    ASSUME OwnershipInv, NEW t \in Thread, Program(t)
    PROVE  OwnershipInv'
<1>1. /\ UNCHANGED <<queue, threadIDCounter, firstInterrupt, empty_cpustate,
                     ID, cpustate, cpu, mode, locals>>
      /\ mode = "user"
      /\ state' \in [Thread -> THREAD_STATE]
      /\ joining' \in [Thread -> Thread \cup {None}]
      /\ finished' \in [Thread -> BOOLEAN]
  <2> USE DEF OwnershipInv, TypeOK, program, THREAD_STATE
  <2>1. CASE JoinReturns(t)
    BY <2>1 DEF JoinReturns
  <2>2. CASE Finish(t)
    BY <2>2 DEF Finish, Executes
  <2>3. ASSUME NEW u \in Thread, TermniateThread(t, u)
        PROVE  <1>1!:
    BY <2>3 DEF TermniateThread, Executes
  <2>4. ASSUME NEW u \in Thread, JoinThread(t, u)
        PROVE  <1>1!:
    BY <2>4 DEF JoinThread, Executes
  <2> QED
    BY <2>1, <2>2, <2>3, <2>4 DEF Program
<1>2. TypeOK'
  BY <1>1 DEF OwnershipInv, TypeOK, queue, locals, Index
<1>3. QueueOK' /\ BootInv' /\ FirstTickInv' /\ OwnerInv' /\ SavedInv' /\ LoopInv'
  BY <1>1 DEF OwnershipInv, QueueOK, BootInv, FirstTickInv, OwnerInv, SavedInv,
              LoopInv, FrameOK, NoThreadYet, IndexOK, queue, locals
<1> QED
  BY <1>2, <1>3 DEF OwnershipInv
\* kernelMain: a created thread is appended with its first frame; a refused one
\* loses only its ID.
LEMMA CreateOwnership ==
    ASSUME OwnershipInv, NEW t \in Thread, CreateThread(t)
    PROVE  OwnershipInv'
<1> USE DEF Index
<1>1. /\ TypeOK /\ QueueOK /\ NoThreadYet /\ ~unhandled /\ mode = "boot"
      /\ \A k \in 0 .. thread_size - 1 :
            FrameOK(k) /\ state[threads[k]] = "RUNNABLE"
      /\ Capacity \in Nat \ {0}
  BY BoundsAssumption DEF CreateThread, OwnershipInv, BootInv
<1>2. /\ UNCHANGED <<current_thread_idx, firstInterrupt, empty_cpustate, cpu,
                     mode, program, locals>>
      /\ cpustate' = [cpustate EXCEPT ![t] = t]
  BY DEF CreateThread
<1>3. CASE AddThread(t)
  <2>1. TypeOK'
    BY <1>1, <1>2, <1>3 DEF TypeOK, AddThread, THREAD_STATE, program, locals
  <2>2. \A k \in 0 .. thread_size - 1 : threads[k] # t
    BY <1>1, <1>3 DEF AddThread
  <2>3. /\ thread_size' = thread_size + 1
        /\ threads'[thread_size] = t
        /\ \A k \in 0 .. thread_size - 1 : threads'[k] = threads[k]
    BY <1>1, <1>3 DEF AddThread, TypeOK
  <2>4. QueueOK'
    <3>1. \A k \in 0 .. thread_size' - 1 :
            k \in 0 .. thread_size - 1 \/ k = thread_size
      BY <1>1, <2>3 DEF TypeOK
    <3> QED
      BY <1>1, <2>2, <2>3, <3>1 DEF QueueOK
  <2>5. BootInv'
    BY <1>1, <1>2, <1>3, <2>2, <2>3
       DEF BootInv, NoThreadYet, FrameOK, QueueOK, AddThread, TypeOK, locals
  <2> QED
    BY <1>1, <1>2, <2>1, <2>4, <2>5
       DEF OwnershipInv, FirstTickInv, OwnerInv, SavedInv, LoopInv
<1>4. CASE AddThreadRefuses(t)
  <2>1. TypeOK'
    BY <1>1, <1>2, <1>4 DEF TypeOK, AddThreadRefuses, program, locals
  <2>2. QueueOK' /\ BootInv'
    BY <1>1, <1>2, <1>4
       DEF BootInv, NoThreadYet, FrameOK, QueueOK, AddThreadRefuses, TypeOK,
           locals
  <2> QED
    BY <1>1, <1>2, <2>1, <2>2
       DEF OwnershipInv, FirstTickInv, OwnerInv, SavedInv, LoopInv
<1> QED
  BY <1>3, <1>4 DEF CreateThread

LEMMA RemoveOwnership ==
    ASSUME OwnershipInv, NEW t \in Thread, RemoveThread(t)
    PROVE  OwnershipInv'
<1>1. /\ TypeOK /\ QueueOK /\ NoThreadYet /\ ~unhandled /\ mode = "boot"
      /\ \A k \in 0 .. thread_size - 1 :
            FrameOK(k) /\ state[threads[k]] = "RUNNABLE"
  BY DEF RemoveThread, OwnershipInv, BootInv
<1>2. UNCHANGED <<threadIDCounter, current_thread_idx, firstInterrupt, ID,
                  empty_cpustate, cpustate, cpu, mode, program, locals>>
  BY DEF RemoveThread
<1>3. PICK k \in 0 .. thread_size - 1 : RemoveAt(k)
  BY DEF RemoveThread
<1>4. thread_size > 0 /\ k \in Index /\ threads[k] \in Thread
  BY <1>1, BoundsAssumption DEF TypeOK, QueueOK, Index
<1>5. /\ threads' \in [Index -> Thread \cup {None}]
      /\ thread_size' \in 0 .. Capacity
      /\ state' \in [Thread -> THREAD_STATE]
      /\ QueueOK'
      /\ \A j \in 0 .. thread_size' - 1 :
            \E m \in 0 .. thread_size - 1 : threads'[j] = threads[m] /\ m # k
  <2>1. Removed(k)
    BY <1>1, <1>3, <1>4, RemoveAtLemma
  <2>2. k < thread_size
    BY <1>1 DEF TypeOK
  <2> QED
    BY <2>1, <2>2 DEF Removed
<1>6. TypeOK'
  <2>1. /\ threads' \in [Index -> Thread \cup {None}]
        /\ thread_size' \in 0 .. Capacity
        /\ state' \in [Thread -> THREAD_STATE]
    BY <1>5
  <2> QED
    BY <1>1, <1>2, <2>1 DEF TypeOK, program, locals
<1>7. BootInv'
  <2> SUFFICES ASSUME NEW j \in 0 .. thread_size' - 1
               PROVE  FrameOK(j)' /\ state'[threads'[j]] = "RUNNABLE"
    BY <1>1, <1>2 DEF BootInv, NoThreadYet, locals
  <2>1. PICK m \in 0 .. thread_size - 1 : threads'[j] = threads[m] /\ m # k
    BY <1>5
  <2>2. threads[m] # threads[k]
    BY <1>1, <2>1 DEF QueueOK
  <2>3. state' = [state EXCEPT ![threads[k]] = "DEAD"]
    BY <1>3 DEF RemoveAt
  <2> QED
    BY <1>1, <1>2, <2>1, <2>2, <2>3 DEF FrameOK, TypeOK
<1> QED
  BY <1>1, <1>2, <1>5, <1>6, <1>7
     DEF OwnershipInv, FirstTickInv, OwnerInv, SavedInv, LoopInv
\* Turning interrupts on, and the interrupts that change nothing yet.
LEMMA EntryOwnership ==
    ASSUME OwnershipInv,
           \/ Activate \/ TimerInterrupt
           \/ RemoveBeforeFirstTick \/ InterruptAtZero
    PROVE  OwnershipInv'
<1>1. CASE Activate
  <2>1. TypeOK'
    BY <1>1 DEF Activate, OwnershipInv, TypeOK, queue, program, locals, Index
  <2>2. ~unhandled
    BY <1>1 DEF Activate, OwnershipInv, BootInv
  <2>3. QueueOK' /\ BootInv' /\ FirstTickInv' /\ OwnerInv' /\ SavedInv' /\ LoopInv'
    BY <1>1, <2>2 DEF Activate, OwnershipInv, QueueOK, BootInv, FirstTickInv,
                OwnerInv, SavedInv, LoopInv, FrameOK, NoThreadYet, IndexOK,
                queue, locals
  <2> QED
    BY <2>1, <2>3 DEF OwnershipInv
<1>2. CASE TimerInterrupt
  <2>1. TypeOK'
    BY <1>2 DEF TimerInterrupt, OwnershipInv, TypeOK, queue, program, Index
  <2>2. QueueOK' /\ BootInv' /\ FirstTickInv' /\ OwnerInv' /\ SavedInv' /\ LoopInv'
    BY <1>2 DEF TimerInterrupt, OwnershipInv, QueueOK, BootInv, FirstTickInv,
                OwnerInv, SavedInv, LoopInv, FrameOK, NoThreadYet, IndexOK, queue
  <2> QED
    BY <2>1, <2>2 DEF OwnershipInv
<1>3. CASE RemoveBeforeFirstTick \/ InterruptAtZero
  BY <1>3 DEF RemoveBeforeFirstTick, InterruptAtZero, OwnershipInv, TypeOK, BootInv, FirstTickInv,
              OwnerInv, SavedInv, LoopInv, queue, program, locals, Index
<1> QED
  BY <1>1, <1>2, <1>3

\* An unhandled interrupt takes out the entry of the interrupted thread itself:
\* all that stay have saved frames.
LEMMA UnhandledOwnership ==
    ASSUME OwnershipInv, mode = "user", RemoveCurrentThread
    PROVE  OwnershipInv'
<1>1. /\ TypeOK /\ QueueOK
      /\ Capacity \in Nat \ {0}
      /\ \A k \in 0 .. thread_size - 1 : threads[k] # cpu => FrameOK(k)
  BY BoundsAssumption DEF OwnershipInv, OwnerInv
<1>2. /\ thread_size > 0
      /\ current_thread_idx >= 0
      /\ RemoveAt(current_thread_idx)
      /\ current_thread_idx' = current_thread_idx - 1
      /\ mode' = "schedule"
      /\ unhandled' = TRUE
      /\ UNCHANGED <<threadIDCounter, firstInterrupt, empty_cpustate, ID,
                     cpustate, cpu, program, i, bound, tempCurr>>
  BY DEF RemoveCurrentThread
<1>3. /\ current_thread_idx \in 0 .. thread_size - 1
      /\ threads[current_thread_idx] = cpu
      /\ cpu \in Thread
  BY <1>1, <1>2 DEF OwnershipInv, OwnerInv, IndexOK, NoThreadYet, TypeOK
<1>4. ~firstInterrupt /\ empty_cpustate = Kernel
  BY <1>2, <1>3, ContextsAssumption DEF OwnershipInv, FirstTickInv, NoThreadYet
<1>5. Removed(current_thread_idx)
  <2>1. current_thread_idx \in Index
    BY <1>1, <1>3 DEF TypeOK, Index
  <2> QED
    BY <1>1, <1>2, <1>3, <2>1, RemoveAtLemma
<1>6. TypeOK'
  <2>1. current_thread_idx' \in -1 .. Capacity - 1
    BY <1>1, <1>2, <1>3 DEF TypeOK
  <2> QED
    BY <1>1, <1>2, <1>5, <2>1 DEF TypeOK, Removed, program
<1>7. SavedInv'
  <2> SUFFICES ASSUME NEW j \in 0 .. thread_size' - 1
               PROVE  FrameOK(j)'
    BY DEF SavedInv
  <2>1. PICK m \in 0 .. thread_size - 1 :
            threads'[j] = threads[m] /\ m # current_thread_idx
    BY <1>1, <1>3, <1>5 DEF Removed, TypeOK
  <2>2. threads[m] # cpu
    BY <1>1, <1>3, <2>1 DEF QueueOK
  <2> QED
    BY <1>1, <1>2, <2>1, <2>2 DEF FrameOK
<1> QED
  BY <1>2, <1>4, <1>5, <1>6, <1>7
     DEF OwnershipInv, BootInv, FirstTickInv, OwnerInv, LoopInv, Removed
\* The handler returns at once: the queue is empty.
LEMMA EmptyOwnership ==
    ASSUME OwnershipInv, ScheduleEmpty
    PROVE  OwnershipInv'
<1>1. /\ TypeOK /\ QueueOK /\ mode = "schedule" /\ thread_size = 0
      /\ Capacity \in Nat \ {0}
  BY BoundsAssumption DEF ScheduleEmpty, OwnershipInv, TypeOK
<1>2. empty_cpustate' = Kernel /\ firstInterrupt' = FALSE
  BY <1>1, ContextsAssumption
     DEF ScheduleEmpty, OwnershipInv, FirstTickInv, NoThreadYet, FirstSave
<1>3. /\ cpu' = Kernel
      /\ mode' = "user"
      /\ unhandled' = FALSE /\ i' = 0 /\ bound' = 0 /\ tempCurr' = -1
      /\ UNCHANGED <<queue, threadIDCounter, state, ID, cpustate, program>>
  BY <1>2 DEF ScheduleEmpty, Resume
<1>4. TypeOK'
  <2>1. /\ i' \in 0 .. Capacity /\ bound' \in 0 .. Capacity
        /\ tempCurr' \in -1 .. Capacity - 1
    BY <1>1, <1>3
  <2>2. firstInterrupt' \in BOOLEAN /\ unhandled' \in BOOLEAN
    BY <1>2, <1>3, Zenon
  <2> QED
    BY <1>1, <1>2, <1>3, <2>1, <2>2 DEF TypeOK, queue, program
<1> QED
  BY <1>1, <1>2, <1>3, <1>4
     DEF OwnershipInv, QueueOK, BootInv, FirstTickInv, OwnerInv, SavedInv,
         LoopInv, IndexOK, queue

\* Saving through the index saves the frame of the interrupted thread.
LEMMA PrologueOwnership ==
    ASSUME OwnershipInv, SchedulePrologue
    PROVE  OwnershipInv'
<1>1. /\ TypeOK /\ QueueOK /\ mode = "schedule" /\ thread_size > 0
      /\ Capacity \in Nat \ {0}
  BY BoundsAssumption DEF SchedulePrologue, OwnershipInv
<1>2. /\ i' = 0 /\ bound' = thread_size /\ tempCurr' = current_thread_idx
      /\ mode' = "clean"
      /\ UNCHANGED <<queue, threadIDCounter, ID, cpu, program, unhandled>>
  BY DEF SchedulePrologue
<1>3. empty_cpustate' = Kernel /\ firstInterrupt' = FALSE
  BY <1>1, ContextsAssumption
     DEF SchedulePrologue, OwnershipInv, FirstTickInv, NoThreadYet, FirstSave
<1>4. /\ cpustate' \in [Thread -> Thread \cup {None}]
      /\ state' \in [Thread -> THREAD_STATE]
      /\ \A k \in 0 .. thread_size - 1 : cpustate'[threads[k]] = threads[k]
  <2>1. CASE SavesCurrent
    <3>1. /\ current_thread_idx >= 0 /\ ~unhandled
          /\ cpustate' = [cpustate EXCEPT ![threads[current_thread_idx]] = cpu]
          /\ YieldThread
      BY <2>1 DEF SchedulePrologue, SavesCurrent
    <3>2. /\ cpu \in Thread
          /\ threads[current_thread_idx] = cpu
          /\ \A k \in 0 .. thread_size - 1 : threads[k] # cpu => FrameOK(k)
      BY <1>1, <3>1 DEF OwnershipInv, OwnerInv, IndexOK, NoThreadYet, TypeOK
    <3> QED
      BY <1>1, <3>1, <3>2
         DEF TypeOK, QueueOK, FrameOK, YieldThread, THREAD_STATE
  <2>2. CASE ~SavesCurrent
    <3>1. UNCHANGED <<cpustate, state>>
      BY <2>2 DEF SchedulePrologue
    <3>2. \A k \in 0 .. thread_size - 1 : FrameOK(k)
      <4>1. CASE unhandled
        BY <1>1, <4>1 DEF OwnershipInv, SavedInv
      <4>2. CASE ~unhandled
        <5>1. cpu = Kernel
          BY <1>1, <2>2, <4>2
             DEF SavesCurrent, OwnershipInv, OwnerInv, IndexOK, NoThreadYet, TypeOK
        <5> QED
          BY <1>1, <4>2, <5>1, ContextsAssumption
             DEF OwnershipInv, OwnerInv, QueueOK
      <4> QED
        BY <4>1, <4>2
    <3> QED
      BY <1>1, <3>1, <3>2 DEF TypeOK, FrameOK
  <2> QED
    BY <2>1, <2>2
<1>5. TypeOK'
  <2>1. /\ i' \in 0 .. Capacity /\ bound' \in 0 .. Capacity
        /\ tempCurr' \in -1 .. Capacity - 1
    BY <1>1, <1>2 DEF TypeOK
  <2>2. firstInterrupt' \in BOOLEAN
    BY <1>3, Zenon
  <2> QED
    BY <1>1, <1>2, <1>3, <1>4, <2>1, <2>2 DEF TypeOK, queue, program
<1> QED
  BY <1>1, <1>2, <1>3, <1>4, <1>5
     DEF OwnershipInv, QueueOK, BootInv, FirstTickInv, OwnerInv, SavedInv,
         LoopInv, FrameOK, queue, TypeOK
\* A round of the cleaning loop, also one that removes the wrong entry.
LEMMA CleanOwnership ==
    ASSUME OwnershipInv, CleanRound
    PROVE  OwnershipInv'
<1>1. /\ TypeOK /\ QueueOK /\ mode = "clean" /\ i < bound
      /\ Capacity \in Nat \ {0}
      /\ thread_size <= bound
      /\ \A k \in 0 .. bound - 1 : threads[k] \in Thread
      /\ \A k \in 0 .. thread_size - 1 : FrameOK(k)
      /\ firstInterrupt = FALSE /\ empty_cpustate = Kernel
  BY BoundsAssumption, ContextsAssumption
     DEF CleanRound, OwnershipInv, LoopInv, SavedInv, FirstTickInv, TypeOK
<1>2. /\ i' = i + 1
      /\ UNCHANGED <<threadIDCounter, firstInterrupt, empty_cpustate, ID,
                     cpustate, cpu, mode, program, unhandled, bound, tempCurr>>
  BY DEF CleanRound
<1>3. i' \in 0 .. Capacity /\ i' <= bound
  BY <1>1, <1>2 DEF TypeOK
<1>4. i \in Index /\ i \in 0 .. bound - 1 /\ threads[i] \in Thread
  BY <1>1 DEF TypeOK, Index
<1>5. CASE UNCHANGED <<threads, thread_size, state>> /\ current_thread_idx' \in -1 .. Capacity - 1
  <2>1. TypeOK'
    BY <1>1, <1>2, <1>3, <1>5 DEF TypeOK, program, Index
  <2> QED
    BY <1>1, <1>2, <1>3, <1>5, <2>1
       DEF OwnershipInv, QueueOK, BootInv, FirstTickInv, OwnerInv, SavedInv,
           LoopInv, FrameOK
<1>6. CASE RemoveAt(i) /\ current_thread_idx' = i - 1 /\ thread_size # 0
  <2>1. Removed(i)
    <3>1. thread_size > 0
      BY <1>1, <1>6 DEF TypeOK
    <3> QED
      BY <1>1, <1>4, <1>6, <3>1, RemoveAtLemma
  <2>2. current_thread_idx' \in -1 .. Capacity - 1
    BY <1>1, <1>6 DEF TypeOK
  <2>3. TypeOK'
    BY <1>1, <1>2, <1>3, <2>1, <2>2 DEF TypeOK, Removed, program
  <2>4. SavedInv'
    <3> SUFFICES ASSUME NEW j \in 0 .. thread_size' - 1
                 PROVE  FrameOK(j)'
      BY DEF SavedInv
    <3>1. PICK m \in 0 .. thread_size - 1 : threads'[j] = threads[m]
      BY <2>1 DEF Removed
    <3> QED
      BY <1>1, <1>2, <3>1 DEF FrameOK
  <2>5. LoopInv'
    <3>1. thread_size' <= bound'
      BY <1>1, <1>2, <2>1 DEF Removed, TypeOK
    <3>2. ASSUME NEW k \in 0 .. bound - 1
          PROVE  threads'[k] \in Thread
      <4>1. k \in Index
        BY <1>1 DEF TypeOK, Index
      <4>2. threads'[k] = IF i <= k /\ k < thread_size - 1
                          THEN threads[k + 1] ELSE threads[k]
        BY <1>6, <4>1 DEF RemoveAt
      <4>3. i <= k /\ k < thread_size - 1 => k + 1 \in 0 .. bound - 1
        BY <1>1 DEF TypeOK
      <4> QED
        BY <1>1, <4>2, <4>3
    <3> QED
      BY <1>2, <1>3, <3>1, <3>2 DEF LoopInv
  <2> QED
    BY <1>1, <1>2, <2>1, <2>3, <2>4, <2>5
       DEF OwnershipInv, BootInv, FirstTickInv, OwnerInv, Removed
<1> QED
  BY <1>1, <1>4, <1>5, <1>6 DEF CleanRound, queue, TypeOK, Index

\* Round robin stays inside the queue.
LEMMA NextIndexLemma ==
    ASSUME thread_size \in Nat \ {0}, tempCurr \in Int, tempCurr >= -1
    PROVE  NextIndex \in 0 .. thread_size - 1
<1>1. \A a \in Nat, n \in Nat \ {0} : a % n \in 0 .. n - 1
  OBVIOUS
<1>2. tempCurr + 1 \in Nat
  OBVIOUS
<1>3. (tempCurr + 1) % thread_size \in 0 .. thread_size - 1
  BY <1>1, <1>2
<1>4. CASE tempCurr + 1 >= thread_size
  BY <1>3, <1>4 DEF NextIndex
<1>5. CASE ~(tempCurr + 1 >= thread_size)
  BY <1>2, <1>5 DEF NextIndex
<1> QED
  BY <1>4, <1>5

\* The handler returns to the kernel's frame, or to that of the next thread.
LEMMA SwitchOwnership ==
    ASSUME OwnershipInv, SwitchToKernel \/ SwitchThread
    PROVE  OwnershipInv'
<1>1. /\ TypeOK /\ QueueOK /\ mode = "clean"
      /\ Capacity \in Nat \ {0}
      /\ \A k \in 0 .. thread_size - 1 : FrameOK(k)
      /\ ~firstInterrupt /\ empty_cpustate = Kernel
  BY BoundsAssumption, ContextsAssumption
     DEF SwitchToKernel, SwitchThread, OwnershipInv, LoopInv, SavedInv,
         FirstTickInv, TypeOK
<1>2. /\ mode' = "user" /\ unhandled' = FALSE
      /\ i' = 0 /\ bound' = 0 /\ tempCurr' = -1
      /\ UNCHANGED <<threads, thread_size, threadIDCounter, firstInterrupt,
                     empty_cpustate, ID, program>>
  BY DEF SwitchToKernel, SwitchThread, Resume, queue
<1>3. /\ i' \in 0 .. Capacity /\ bound' \in 0 .. Capacity
      /\ tempCurr' \in -1 .. Capacity - 1
  BY <1>1, <1>2
<1>4. unhandled' \in BOOLEAN
  BY <1>2, Zenon
<1>5. CASE SwitchToKernel
  <2>1. /\ thread_size = 0 /\ cpu' = Kernel
        /\ UNCHANGED <<current_thread_idx, state, cpustate>>
    BY <1>1, <1>5 DEF SwitchToKernel, Resume, queue
  <2>2. TypeOK'
    BY <1>1, <1>2, <1>3, <1>4, <2>1 DEF TypeOK, program
  <2> QED
    BY <1>1, <1>2, <2>1, <2>2
       DEF OwnershipInv, QueueOK, BootInv, FirstTickInv, OwnerInv, SavedInv,
           LoopInv, IndexOK
<1>6. CASE SwitchThread
  <2> DEFINE t == threads[NextIndex]
  <2>1. /\ current_thread_idx' = NextIndex
        /\ state' = [state EXCEPT ![t] = "RUNNING"]
        /\ cpustate' = [cpustate EXCEPT ![t] = None]
        /\ cpu' = cpustate[t]
        /\ thread_size > 0
    BY <1>6 DEF SwitchThread, Resume
  <2>2. NextIndex \in 0 .. thread_size - 1
    BY <1>1, <2>1, NextIndexLemma DEF TypeOK
  <2>3. t \in Thread /\ cpu' = t
    BY <1>1, <2>1, <2>2 DEF QueueOK, FrameOK
  <2>4. current_thread_idx' \in -1 .. Capacity - 1
    BY <1>1, <2>1, <2>2 DEF TypeOK
  <2>5. TypeOK'
    BY <1>1, <1>2, <1>3, <1>4, <2>1, <2>3, <2>4 DEF TypeOK, program, THREAD_STATE
  <2>6. OwnerInv'
    <3>1. IndexOK'
      BY <1>2, <2>1, <2>2, <2>3 DEF IndexOK
    <3>2. \A k \in 0 .. thread_size - 1 : threads[k] # t => cpustate'[threads[k]] = threads[k]
      BY <1>1, <2>1, <2>3 DEF FrameOK, QueueOK, TypeOK
    <3> QED
      BY <1>2, <2>3, <3>1, <3>2 DEF OwnerInv, FrameOK
  <2> QED
    BY <1>1, <1>2, <2>5, <2>6
       DEF OwnershipInv, QueueOK, BootInv, FirstTickInv, SavedInv, LoopInv
<1> QED
  BY <1>5, <1>6
-----------------------------------------------------------------------------

\* Every step of the library, the program and the processor keeps the invariant.
THEOREM OwnershipInductive == OwnershipInv /\ [Next]_vars => OwnershipInv'
<1> SUFFICES ASSUME OwnershipInv, [Next]_vars PROVE OwnershipInv'
  OBVIOUS
<1>1. ASSUME NEW t \in Thread, CreateThread(t) PROVE OwnershipInv'
  BY <1>1, CreateOwnership
<1>2. ASSUME NEW t \in Thread, RemoveThread(t) PROVE OwnershipInv'
  BY <1>2, RemoveOwnership
<1>3. ASSUME NEW t \in Thread, Program(t) PROVE OwnershipInv'
  BY <1>3, ProgramOwnership
<1>4. CASE Activate \/ TimerInterrupt \/ InterruptAtZero
  BY <1>4, EntryOwnership
<1>5. CASE Fault
  BY <1>5, UnhandledOwnership DEF Fault
<1>6. CASE DeviceInterrupt
  BY <1>6, UnhandledOwnership, EntryOwnership DEF DeviceInterrupt
<1>7. CASE Handler
  BY <1>7, EmptyOwnership, PrologueOwnership, CleanOwnership, SwitchOwnership
     DEF Handler
<1>8. CASE UNCHANGED vars
  <2>1. TypeOK'
    BY <1>8 DEF OwnershipInv, TypeOK, vars, queue, program, locals, Index
  <2>2. QueueOK' = QueueOK
    BY <1>8 DEF QueueOK, vars, queue
  <2>3. BootInv' /\ FirstTickInv' /\ OwnerInv' /\ SavedInv' /\ LoopInv'
    BY <1>8 DEF OwnershipInv, BootInv, FirstTickInv, OwnerInv, SavedInv, LoopInv,
                FrameOK, NoThreadYet, IndexOK, vars, queue, locals
  <2> QED
    BY <1>8, <2>1, <2>2, <2>3 DEF OwnershipInv, vars
<1> QED
  BY <1>1, <1>2, <1>3, <1>4, <1>5, <1>6, <1>7, <1>8 DEF Next

THEOREM OwnershipInvariant == Spec => []OwnershipInv
<1>1. Init => OwnershipInv
  BY InitOwnership
<1> QED
  BY <1>1, OwnershipInductive, PTL DEF Spec

\* No variable leaves its range; no index leaves the array of threads.
THEOREM TypeCorrect == Spec => []TypeOK
<1>1. OwnershipInv => TypeOK
  BY DEF OwnershipInv
<1> QED
  BY <1>1, OwnershipInvariant, PTL

\* For every program, Schedule saves and loads every context as its own.
THEOREM ContextsAreOwned == Spec => []ContextOwnership
<1>1. OwnershipInv => ContextOwnership
  BY ContextsAssumption
     DEF OwnershipInv, OwnerInv, IndexOK, NoThreadYet, ContextOwnership,
         FrameOK, Listed, QueueOK
<1> QED
  BY <1>1, OwnershipInvariant, PTL
=============================================================================
