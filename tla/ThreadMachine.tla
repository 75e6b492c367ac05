----------------------------- MODULE ThreadMachine -----------------------------
(***************************************************************************)
(* What SPIMOS promises a MIPS program: every thread has a program counter *)
(* and general registers of its own, its context.  One thread runs at a    *)
(* time; its instructions change its own context only; a switch changes no *)
(* context, and goes to a thread that is alive.  The mutex has one owner,  *)
(* which alone releases it.                                                *)
(*                                                                         *)
(* That is not a whole processor: HI, LO and the floating-point registers  *)
(* are shared.  Any instruction may change them and no switch does, so     *)
(* after one a thread finds there what the last thread left.               *)
(*                                                                         *)
(* SpimOS.tla, with its queue of saved registers, is shown to implement    *)
(* this module.                                                            *)
(***************************************************************************)
CONSTANTS
    Ids,        \* thread IDs
    Nobody      \* the owner of a mutex that is free

VARIABLES
    ctx,        \* the context of each thread created so far
    alive,      \* threads that have not exited
    running,
    owner,
    shared      \* the registers outside the contexts

vars == <<ctx, alive, running, owner, shared>>

\* The machine starts with one thread.
Init ==
    /\ \E id \in Ids : alive = {id} /\ running = id /\ DOMAIN ctx = {id}
    /\ owner = Nobody

\* The running thread changes its own context.
OwnContext == /\ DOMAIN ctx' = DOMAIN ctx
              /\ \A id \in DOMAIN ctx \ {running} : ctx'[id] = ctx[id]

\* An instruction without a call; it alone may change the shared registers.
Work == OwnContext /\ UNCHANGED <<alive, running, owner>>

Create(id) ==
    /\ id \notin DOMAIN ctx
    /\ DOMAIN ctx' = DOMAIN ctx \cup {id}
    /\ \A u \in DOMAIN ctx \ {running} : ctx'[u] = ctx[u]
    /\ alive' = alive \cup {id}
    /\ UNCHANGED <<running, owner, shared>>

Lock ==
    /\ owner = Nobody
    /\ owner' = running
    /\ OwnContext
    /\ UNCHANGED <<alive, running, shared>>

Unlock ==
    /\ owner = running
    /\ owner' = Nobody
    /\ OwnContext
    /\ UNCHANGED <<alive, running, shared>>

\* The thread keeps the processor until the next switch.
Exit ==
    /\ alive' = alive \ {running}
    /\ OwnContext
    /\ UNCHANGED <<running, owner, shared>>

Switch ==
    /\ running' \in alive
    /\ UNCHANGED <<ctx, alive, owner, shared>>

\* The whole program ends.
Shutdown == alive' = {} /\ UNCHANGED <<ctx, running, owner, shared>>

Next == \/ \E id \in Ids : Create(id)
        \/ Work \/ Lock \/ Unlock \/ Exit \/ Switch \/ Shutdown

Spec == Init /\ [][Next]_vars
=============================================================================
