--------------------------------- MODULE SpimOS ---------------------------------
(***************************************************************************)
(* The thread extension of the MIPS simulator SPIM (syscall.cpp): the      *)
(* deque of threads, the system calls on threads and the mutex, and the    *)
(* timer handler that the simulator calls between two instructions.        *)
(*                                                                         *)
(* Of the general registers R, which a switch saves and loads, the model   *)
(* has those that the calls on threads use: v0 (result) and a0 (argument). *)
(* HI, LO and the floating-point registers are no part of R: no switch     *)
(* saves or loads them, and a thread finds in them what the last one left. *)
(* PC is the label of the next instruction.  A system call takes the label *)
(* that follows it; where the code subtracts a word from PC, the call is   *)
(* executed again.                                                         *)
(*                                                                         *)
(* The program is the most general one: any thread does anything, and      *)
(* stays at "lock" and "join" while the call fails.                        *)
(***************************************************************************)
EXTENDS Integers, Sequences, FiniteSets

CONSTANTS
    MaxThreads,     \* bound: threads created, with the first one
    JoinedIds       \* the IDs that programs pass to PTHREAD_JOIN

ASSUME SpimOSAssumption ==
    /\ MaxThreads \in Nat \ {0}
    /\ JoinedIds \subseteq 0 .. MaxThreads - 1

VARIABLES
    threads,        \* the deque; its front is the thread that runs
    current_thread, \* a copy of the front made at the last switch
    who,            \* the mutex: ID of its owner
    get_kernel_up,
    PC,
    R,
    LO,             \* the result of the last mult or div; stands for HI, LO and FPR
    machine         \* "on"; "off" after exit; "panic" after exit(-1);
                    \* "hung" in the loop of context_switch

vars == <<threads, current_thread, who, get_kernel_up, PC, R, LO, machine>>

NoOwner == -1
EntryAddress == -1      \* the address of a thread's code, seen as a number
Ids == 0 .. MaxThreads - 1
Labels == {"out", "in", "lock", "join", "dummy"}
Registers == [v0 : Ids \cup {EntryAddress}, a0 : Ids \cup {EntryAddress}]

Front == threads[1]
WithID(id) == {k \in 1 .. Len(threads) : threads[k].ID = id}
SetState(k, s) == [threads EXCEPT ![k].state = s]

\* The machine before the boot code makes the call INIT_SYSCALL.
Boot(registers) ==
    /\ threads = << >>
    /\ current_thread = [ID |-> 0, state |-> "READY"]
    /\ who = NoOwner
    /\ get_kernel_up = FALSE
    /\ PC = "out"
    /\ R = registers
    /\ LO = 0
    /\ machine = "on"

Init == Boot([v0 |-> 0, a0 |-> 0])

-----------------------------------------------------------------------------
(* System calls; next is the label after the call *)

\* The boot code makes this call once: the running program becomes thread 0.
INIT_SYSCALL ==
    /\ machine = "on"
    /\ ~get_kernel_up
    /\ threads' = << [ID |-> 0, state |-> "RUN", PC |-> "out",
                      R |-> [R EXCEPT !.v0 = R.a0]] >>
    /\ current_thread' = [ID |-> 0, state |-> "RUN"]
    /\ R' = [R EXCEPT !.v0 = R.a0]
    /\ PC' = "out"
    /\ get_kernel_up' = TRUE
    /\ UNCHANGED <<who, LO, machine>>

PTHREAD_CREATE_Pushed(entry, next) ==   \* mutant: the size is taken after push_back
    LET id == Len(threads) + 1
        called == [R EXCEPT !.a0 = EntryAddress]
    IN  /\ id <= MaxThreads
        /\ threads' = Append(threads, [ID |-> id, state |-> "READY", PC |-> entry,
                                       R |-> [called EXCEPT !.v0 = called.a0]])
        /\ R' = [called EXCEPT !.v0 = id]
        /\ PC' = next
        /\ UNCHANGED <<current_thread, who, get_kernel_up, LO, machine>>

\* The caller has put the address in a0.  All its registers are copied; then both
\* sides find a result in v0.
PTHREAD_CREATE(entry, next) ==
    LET id == Len(threads)
        called == [R EXCEPT !.a0 = EntryAddress]
    IN  /\ id < MaxThreads
        /\ threads' = Append(threads, [ID |-> id, state |-> "READY", PC |-> entry,
                                       R |-> [called EXCEPT !.v0 = called.a0]])
        /\ R' = [called EXCEPT !.v0 = id]
        /\ PC' = next
        /\ UNCHANGED <<current_thread, who, get_kernel_up, LO, machine>>

PTHREAD_JOIN_Once(next) ==      \* mutant: the call that waits is not repeated
    /\ PC' = next
    /\ UNCHANGED <<threads, current_thread, who, get_kernel_up, R, LO, machine>>

\* The call that waits, for the thread with ID a0, is executed again; for an ID
\* that no thread has it returns.  (That the kernel is up is part of Running: the
\* boot code's first call is INIT_SYSCALL.)
PTHREAD_JOIN(next) ==
    /\ IF R.a0 = 0
       THEN machine' = "panic" /\ UNCHANGED PC
       ELSE /\ PC' = IF \E k \in WithID(R.a0) : threads[k].state # "DEAD"
                     THEN PC ELSE next
            /\ UNCHANGED machine
    /\ UNCHANGED <<threads, current_thread, who, get_kernel_up, R, LO>>

ExitAll(how) ==
    /\ threads' = [k \in DOMAIN threads |-> [threads[k] EXCEPT !.state = "DEAD"]]
    /\ machine' = how
    /\ UNCHANGED <<current_thread, who, get_kernel_up, PC, R, LO>>

PROCESS_EXIT == ExitAll("off")

PTHREAD_EXIT_OnlyMe(next) ==    \* mutant: the first thread ends alone
    /\ threads' = [k \in DOMAIN threads |->
                     IF k \in WithID(current_thread.ID)
                     THEN [threads[k] EXCEPT !.state = "DEAD"] ELSE threads[k]]
    /\ PC' = next
    /\ UNCHANGED <<current_thread, who, get_kernel_up, R, LO, machine>>

\* The caller runs on until the next switch.  The first thread ends them all.  (Here
\* too, the kernel is up.)
PTHREAD_EXIT(next) ==
    IF current_thread.ID = 0
    THEN ExitAll("off")
    ELSE /\ threads' = [k \in DOMAIN threads |->
                          IF k \in WithID(current_thread.ID)
                          THEN [threads[k] EXCEPT !.state = "DEAD"] ELSE threads[k]]
         /\ PC' = next
         /\ UNCHANGED <<current_thread, who, get_kernel_up, R, LO, machine>>

\* Like PTHREAD_EXIT, but for the thread at the front, and for the first one too.
PTHREAD_RETURN(next) ==
    /\ threads' = SetState(1, "DEAD")
    /\ current_thread' = [current_thread EXCEPT !.state = "DEAD"]
    /\ PC' = next
    /\ UNCHANGED <<who, get_kernel_up, R, LO, machine>>

MUTEX_LOCK_Unchecked(next) ==   \* mutant: the owner is not looked at
    /\ who' = current_thread.ID
    /\ PC' = next
    /\ UNCHANGED <<threads, current_thread, get_kernel_up, R, LO, machine>>

\* The owner itself fails too: the mutex is not recursive.
MUTEX_LOCK(next) ==
    /\ IF who = NoOwner
       THEN who' = current_thread.ID /\ PC' = next
       ELSE UNCHANGED <<who, PC>>
    /\ UNCHANGED <<threads, current_thread, get_kernel_up, R, LO, machine>>

MUTEX_UNLOCK(next) ==
    /\ IF who = current_thread.ID
       THEN who' = NoOwner /\ PC' = next /\ UNCHANGED machine
       ELSE machine' = "panic" /\ UNCHANGED <<who, PC>>
    /\ UNCHANGED <<threads, current_thread, get_kernel_up, R, LO>>

-----------------------------------------------------------------------------
(* The timer *)

able_switch == Cardinality({k \in 1 .. Len(threads) : threads[k].state # "DEAD"}) # 1

\* The deque after n entries have gone from its front to its back.
Rotate(s, n) == SubSeq(s, n + 1, Len(s)) \o SubSeq(s, 1, n)

Yield_Skipped(th) == th         \* mutant: the thread stays in state RUN

Yield(th) == IF th.state = "RUN" THEN [th EXCEPT !.state = "READY"] ELSE th

\* At least one entry goes to the back, then all dead ones do.  When all are dead
\* the loop does not end.
context_switch(s) ==
    IF \A k \in DOMAIN s : s[k].state = "DEAD"
    THEN machine' = "hung" /\ UNCHANGED <<threads, current_thread, PC, R>>
    ELSE \E n \in 1 .. Len(s) :
            LET alive(m) == s[(m % Len(s)) + 1].state # "DEAD"
                rotated == Rotate([k \in DOMAIN s |->
                                     IF k <= n THEN Yield(s[k]) ELSE s[k]], n)
            IN  /\ alive(n) /\ \A m \in 1 .. n - 1 : ~alive(m)
                /\ threads' = [rotated EXCEPT ![1].state = "RUN"]
                /\ current_thread' = [ID |-> rotated[1].ID, state |-> "RUN"]
                /\ R' = rotated[1].R
                /\ PC' = rotated[1].PC
                /\ UNCHANGED machine

Save_PCOnly(s) ==               \* mutant: the registers are not saved
    [s EXCEPT ![1].PC = PC]

\* PC and R of the running thread are kept at the front of the deque; HI, LO and FPR
\* stay where they are.
Save(s) == [s EXCEPT ![1].PC = PC, ![1].R = R]

TimerSwitches_IfAble ==         \* mutant: the line the code comments out
    get_kernel_up /\ Len(threads) >= 2 /\ able_switch

\* The three early returns of the handler.
TimerSwitches ==
    /\ get_kernel_up
    /\ Len(threads) >= 2
    /\ able_switch \/ current_thread.ID # 0

SPIM_timerHandler ==
    /\ machine = "on"
    /\ TimerSwitches
    /\ context_switch(Save(threads))
    /\ UNCHANGED <<who, get_kernel_up, LO>>

-----------------------------------------------------------------------------
(* The most general program *)

Running == machine = "on" /\ get_kernel_up

\* Instructions without a call, up to a label.
Jump(label) == PC' = label /\ UNCHANGED <<threads, current_thread, who,
                                          get_kernel_up, machine>>
GoTo(label) == Jump(label) /\ UNCHANGED LO

\* The program goes to a call, with any argument, or with the one in LO; and it
\* multiplies, where the ID of the thread stands for its result.
Compute ==
    \/ PC = "out" /\ GoTo("lock") /\ UNCHANGED R
    \/ PC = "out" /\ GoTo("join")
         /\ \E id \in JoinedIds \cup {LO} : R' = [R EXCEPT !.a0 = id]
    \/ PC = "out" /\ Jump("out") /\ LO' = current_thread.ID /\ UNCHANGED R

Instruction ==
    /\ Running
    /\ \/ Compute
       \/ PC = "lock" /\ MUTEX_LOCK("in")
       \/ PC = "join" /\ PTHREAD_JOIN("out")
       \/ PC \in {"out", "in"} /\ MUTEX_UNLOCK("out")
       \/ PC \in {"out", "in"} /\ PTHREAD_CREATE("out", PC)
       \/ PC \in {"out", "in"} /\ PTHREAD_EXIT(PC)
       \/ PC \in {"out", "in"} /\ PTHREAD_RETURN("dummy")
       \/ PC \in {"out", "in"} /\ PROCESS_EXIT

Next == INIT_SYSCALL \/ Instruction \/ SPIM_timerHandler

Spec == Init /\ [][Next]_vars

\* The simulator calls the timer handler every 100 ms.
FairSpec == Spec /\ WF_vars(INIT_SYSCALL) /\ WF_vars(SPIM_timerHandler)

-----------------------------------------------------------------------------
(* What the code should guarantee *)

TypeOK ==
    /\ threads \in Seq([ID : Ids, state : {"READY", "RUN", "DEAD"}, PC : Labels,
                        R : Registers])
    /\ Len(threads) <= MaxThreads
    /\ current_thread \in [ID : Ids, state : {"READY", "RUN", "DEAD"}]
    /\ who \in Ids \cup {NoOwner}
    /\ get_kernel_up \in BOOLEAN
    /\ PC \in Labels
    /\ R \in Registers
    /\ LO \in Ids
    /\ machine \in {"on", "off", "panic", "hung"}

\* The system calls take the caller's ID from the copy current_thread: it is the
\* ID at the front, which is the only thread that may be in state RUN; and no two
\* threads have the same ID, which is the size of the deque when one is created.
FrontRuns ==
    get_kernel_up =>
        /\ current_thread.ID = Front.ID
        /\ machine = "on" => Front.state \in {"RUN", "DEAD"}
        /\ \A k \in 2 .. Len(threads) : threads[k].state # "RUN"
        /\ \A j, k \in 1 .. Len(threads) : threads[j].ID = threads[k].ID => j = k

\* The label at which the k-th thread of the deque is.
At(k) == IF k = 1 THEN PC ELSE threads[k].PC

\* A thread whose code is between lock and unlock owns the mutex, so there is at
\* most one; and the owner is nowhere else, unless it has returned with the mutex.
MutexSafety ==
    \A k \in 1 .. Len(threads) :
        /\ At(k) = "in" => who = threads[k].ID
        /\ who = threads[k].ID => At(k) \in {"in", "dummy"}

\* The first thread has made the call PTHREAD_RETURN: no program of init.s does.
MainReturned == \E k \in WithID(0) : threads[k].state = "DEAD" /\ machine \in {"on", "hung"}

\* A thread that is alive gets the processor again and again, as long as the first one
\* does not return: the timer handler does not switch away from a thread 0 that has
\* returned when one thread is left.
NoStarvation ==
    \A id \in Ids :
        []<>(\/ current_thread.ID = id
             \/ \A k \in WithID(id) : threads[k].state = "DEAD"
             \/ machine # "on"
             \/ MainReturned)

\* The loop of context_switch finds a thread to run, with the same exception.
SwitchEnds == machine = "hung" => \E k \in WithID(0) : At(k) = "dummy"

\* The promise of ThreadMachine: PC and R belong to the thread at the front, and the
\* deque keeps those of the others.  LO is no thread's: every thread that runs may
\* overwrite it, which is all that is promised of it.
ContextOf(id) ==
    IF id = current_thread.ID THEN <<PC, R>>
    ELSE LET k == CHOOSE k \in WithID(id) : TRUE
         IN  <<threads[k].PC, threads[k].R>>
Contexts == IF get_kernel_up
            THEN [id \in {threads[k].ID : k \in 1 .. Len(threads)} |-> ContextOf(id)]
            ELSE [id \in {0} |-> <<PC, R>>]
AliveIds == IF get_kernel_up
            THEN {id \in Ids : \E k \in WithID(id) : threads[k].state # "DEAD"}
            ELSE {0}
Promise == INSTANCE ThreadMachine WITH
    Nobody <- NoOwner,
    ctx <- Contexts,
    alive <- AliveIds,
    running <- current_thread.ID,
    owner <- who,
    shared <- LO
ImplementsThreadMachine == Promise!Spec
=============================================================================
