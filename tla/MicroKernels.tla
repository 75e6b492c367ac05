------------------------------ MODULE MicroKernels ------------------------------
(***************************************************************************)
(* init.s as a whole: init_main starts the microkernel whose number the    *)
(* boot program (SPIMOS_GTU_1.s or SPIMOS_GTU_2.s) passed to INIT_SYSCALL, *)
(* on the one thread library of SpimOS.tla.                                *)
(***************************************************************************)
EXTENDS MCMicroKernel1

CONSTANT Rounds     \* see MicroKernel2

ASSUME RoundsAssumption == Rounds \in Nat \ {0}

VARIABLES
    microkernel,    \* the number; it never changes
    console,        \* see MicroKernel2
    products        \* see MicroKernel2

allVars == <<kernelVars, microkernel, console, products>>
K2 == INSTANCE MicroKernel2

MainInit ==
    \/ microkernel = 1 /\ KernelInit /\ K2!NothingPrinted
    \/ /\ microkernel = 2 /\ K2!KernelInit
       /\ items = << >> /\ array = << >> /\ stack = << >> /\ printed = << >>

First(step) == microkernel = 1 /\ step /\ UNCHANGED <<microkernel, console, products>>
Second(step) == microkernel = 2 /\ step
                    /\ UNCHANGED <<microkernel, items, array, stack, printed>>

\* The dispatch on v0 at init_main is the value of microkernel: v0 has the argument of
\* INIT_SYSCALL, and no later instruction goes back to init_main.
init_main == First(KernelInstruction) \/ Second(K2!KernelInstruction)

Initialize == \/ First(INIT_SYSCALL /\ UNCHANGED memory)
              \/ Second(INIT_SYSCALL /\ K2!Stays)

MainTick == First(Tick) \/ Second(SPIM_timerHandler /\ K2!Stays)

MainNext == init_main \/ Initialize \/ MainTick

MainSpec == MainInit /\ [][MainNext]_allVars

\* As in MicroKernel1.
FairMainSpec ==
    /\ MainSpec
    /\ WF_allVars(Initialize)
    /\ WF_allVars(MainTick)
    /\ \A id \in Ids : SF_allVars(current_thread.ID = id /\ init_main)

-----------------------------------------------------------------------------

\* See MicroKernel2: no piece of another line gets into the line of a product.
LinesApart == K2!LinesApart

\* See MicroKernel2: the producer and the consumer are done when main exits.
JoinedAtExit == K2!JoinedAtExit
=============================================================================
