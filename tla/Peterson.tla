-------------------------------- MODULE Peterson --------------------------------
(***************************************************************************)
(* lock_with_peterson and unlock_with_peterson (kernel.cpp), called again  *)
(* and again by their two users around the critical sections of            *)
(* Producer_Peterson_Event and Consumer_Peterson_Event.  Every access to   *)
(* a shared variable is a step of its own: the timer may switch threads    *)
(* between any two instructions, and the code is built without             *)
(* optimisation, so that the loop reads both variables in every round.     *)
(* The scheduler is left out: TaskManager's StarvationFree justifies the   *)
(* weak fairness.                                                          *)
(***************************************************************************)
EXTENDS Integers

CONSTANTS
    MaxItems,   \* bound: items produced
    MayDie      \* may a user be terminated by another thread (TermniateThread)?

ASSUME PetersonAssumption ==
    /\ MaxItems \in Nat
    /\ MayDie \in BOOLEAN

PRODUCER == 0
CONSUMER == 1
User == {PRODUCER, CONSUMER}
Other(which) == 1 - which

VARIABLES
    turn,
    thread_flags,
    itemSize,
    count,      \* the register in which the producer increments itemSize
    found,      \* what the consumer's last test of itemSize found
    pc          \* the next access of each user

vars == <<turn, thread_flags, itemSize, count, found, pc>>
lock == <<turn, thread_flags>>
data == <<itemSize, count, found>>

Init ==
    /\ turn = 0
    /\ thread_flags = [u \in User |-> FALSE]
    /\ itemSize = 0
    /\ count = 0
    /\ found = "nothing"
    /\ pc = [u \in User |-> "idle"]

GoTo(u, label) == pc' = [pc EXCEPT ![u] = label]

\* lock: thread_flags[which] = true
SetFlag(which) ==
    /\ pc[which] = "idle"
    /\ which = PRODUCER => itemSize < MaxItems
    /\ thread_flags' = [thread_flags EXCEPT ![which] = TRUE]
    /\ GoTo(which, "turn")
    /\ UNCHANGED <<turn, data>>

SetTurn_Other(which) ==         \* mutant: the turn is claimed for the other
    /\ pc[which] = "turn"
    /\ turn' = Other(which)
    /\ GoTo(which, "test turn")
    /\ UNCHANGED <<thread_flags, data>>

\* turn = which: the last to come waits.
SetTurn(which) ==
    /\ pc[which] = "turn"
    /\ turn' = which
    /\ GoTo(which, "test turn")
    /\ UNCHANGED <<thread_flags, data>>

TestTurn_Flipped(which) ==      \* mutant: waits while it is the other's turn
    /\ pc[which] = "test turn"
    /\ GoTo(which, IF turn = which THEN "critical" ELSE "test flag")
    /\ UNCHANGED <<lock, data>>

\* while (turn == which && ...
TestTurn(which) ==
    /\ pc[which] = "test turn"
    /\ GoTo(which, IF turn = which THEN "test flag" ELSE "critical")
    /\ UNCHANGED <<lock, data>>

\* ... && thread_flags[other]);
TestFlag(which) ==
    /\ pc[which] = "test flag"
    /\ GoTo(which, IF thread_flags[Other(which)] THEN "test turn" ELSE "critical")
    /\ UNCHANGED <<lock, data>>

\* ++itemSize, a load and a store
Load ==
    /\ pc[PRODUCER] = "critical"
    /\ count' = itemSize + 1
    /\ GoTo(PRODUCER, "store")
    /\ UNCHANGED <<lock, itemSize, found>>

Store ==
    /\ pc[PRODUCER] = "store"
    /\ itemSize' = count
    /\ GoTo(PRODUCER, "unlock")
    /\ UNCHANGED <<lock, count, found>>

\* if (itemSize <= 0)
Test ==
    /\ pc[CONSUMER] = "critical"
    /\ found' = IF itemSize <= 0 THEN "nothing" ELSE "item"
    /\ GoTo(CONSUMER, "unlock")
    /\ UNCHANGED <<lock, itemSize, count>>

Unlock_Forgotten(which) ==      \* mutant: the flag stays up
    /\ pc[which] = "unlock"
    /\ GoTo(which, "idle")
    /\ UNCHANGED <<lock, data>>

\* unlock: thread_flags[which] = false
Unlock(which) ==
    /\ pc[which] = "unlock"
    /\ thread_flags' = [thread_flags EXCEPT ![which] = FALSE]
    /\ GoTo(which, "idle")
    /\ UNCHANGED <<turn, data>>

\* Another thread terminates the user, wherever it is; nothing releases its lock.
Die(which) ==
    /\ MayDie
    /\ GoTo(which, "dead")
    /\ UNCHANGED <<lock, data>>

Access(u) == \/ SetTurn(u) \/ TestTurn(u) \/ TestFlag(u) \/ Unlock(u)
             \/ u = PRODUCER /\ (Load \/ Store)
             \/ u = CONSUMER /\ Test

Next == \E u \in User : SetFlag(u) \/ Access(u) \/ Die(u)

Spec == Init /\ [][Next]_vars

\* A user inside lock, unlock or the critical section goes on; none has to start.
FairSpec == Spec /\ \A u \in User : WF_vars(Access(u))

-----------------------------------------------------------------------------

TypeOK ==
    /\ turn \in User
    /\ thread_flags \in [User -> BOOLEAN]
    /\ itemSize \in Nat
    /\ count \in Nat
    /\ found \in {"nothing", "item"}
    /\ pc \in [User -> {"idle", "turn", "test turn", "test flag",
                        "critical", "store", "unlock", "dead"}]

Waits(u) == pc[u] \in {"test turn", "test flag"}
Inside(u) == pc[u] \in {"critical", "store", "unlock"}

\* The producer and the consumer are never between lock and unlock together,
\* wherever the timer interrupts them and whoever is terminated.
MutualExclusion == ~(Inside(PRODUCER) /\ Inside(CONSUMER))

\* What the consumer's test of itemSize found is still so when it leaves: the
\* producer does not store an item behind its back.
TestStaysTrue == pc[CONSUMER] = "unlock" => (found = "item" <=> itemSize > 0)

\* A user that has raised its flag gets into its critical section, unless one of
\* the two is terminated (a user terminated inside blocks the other for ever).
EntersCriticalSection ==
    \A u \in User : pc[u] = "turn" ~> Inside(u) \/ \E v \in User : pc[v] = "dead"

\* While a user waits in the loop, the other one enters only if it came first:
\* nobody is overtaken twice.
NoOvertaking ==
    [][\A u \in User : Waits(u) /\ ~Inside(Other(u)) /\ Inside(Other(u))'
            => turn = u]_vars

-----------------------------------------------------------------------------
(* The inductive invariant behind MutualExclusion *)

\* From the first line of lock to unlock a live user has its flag up.
FlagInv ==
    \A u \in User : pc[u] = "turn" \/ Waits(u) \/ Inside(u) => thread_flags[u] = TRUE

\* When one user is inside, the turn holds the other one back.
TurnInv ==
    \A u \in User : Inside(u) => /\ ~Inside(Other(u))
                                 /\ Waits(Other(u)) => turn = Other(u)

PetersonInv == TypeOK /\ FlagInv /\ TurnInv
=============================================================================
