------------------------------- MODULE Scheduler -------------------------------
(***************************************************************************)
(* What the x86 kernel's thread library promises, with the run queue left  *)
(* out: a set of live threads, and one context on the processor.  A thread *)
(* becomes live when it is created, before interrupts are on; it stops     *)
(* being live when it is terminated or when its entry point returns; and   *)
(* it is given the processor only while it is live.  Nothing else makes a  *)
(* thread live or takes its life.                                          *)
(* TaskManager.tla is shown to implement this module.                      *)
(***************************************************************************)
CONSTANTS
    Thread,     \* the Thread objects of the program
    Kernel      \* the context of kernelMain, which ends in while(1)

VARIABLES
    live,       \* threads created and neither terminated nor finished
    running,    \* the context on the processor
    started     \* has kernelMain turned the interrupts on?

vars == <<live, running, started>>

Init ==
    /\ live = {}
    /\ running = Kernel
    /\ started = FALSE

\* kernelMain creates a thread, or creates a removed one again.
Create(t) ==
    /\ ~started
    /\ t \notin live
    /\ live' = live \cup {t}
    /\ UNCHANGED <<running, started>>

Start ==
    /\ started' = TRUE
    /\ UNCHANGED <<live, running>>

\* A thread is terminated by some thread, or finishes: it may keep the
\* processor until the next switch, and never gets it back.
Retire(t) ==
    /\ t \in live
    /\ live' = live \ {t}
    /\ UNCHANGED <<running, started>>

DispatchTo(t) ==
    /\ started
    /\ t \in live
    /\ running' = t
    /\ UNCHANGED <<live, started>>

\* Only when no thread is left does the kernel's idle loop get the processor.
Idle ==
    /\ started
    /\ live = {}
    /\ running' = Kernel
    /\ UNCHANGED <<live, started>>

Next ==
    \/ \E t \in Thread : Create(t) \/ Retire(t) \/ DispatchTo(t)
    \/ Start \/ Idle

\* Every thread that stays live is dispatched again and again.
Fairness == \A t \in Thread : SF_vars(DispatchTo(t))

\* What may happen, and with Fairness what must.
Steps == Init /\ [][Next]_vars

Spec == Steps /\ Fairness
=============================================================================
