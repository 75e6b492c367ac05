------------------------------ MODULE MicroKernel2 ------------------------------
(***************************************************************************)
(* The second microkernel of init.s, a producer and a consumer that share  *)
(* the console under the mutex, running on the thread library of           *)
(* SpimOS.tla.  An instruction here is a system call or a run of           *)
(* instructions that touch nothing but the registers of one thread.        *)
(*                                                                         *)
(* All threads print on one console.  The three calls that print a product *)
(* are made with the mutex, the announcements of a round, of a join and of *)
(* the program's begin and end without it.  (The simulator's own reports   *)
(* of its switches, on the same screen, are left out.)                     *)
(***************************************************************************)
EXTENDS SpimOS

CONSTANT Rounds     \* a1 at the entry of both loops (31 in the source)

VARIABLES
    thread_id_array,    \* memory of the main thread
    console,            \* what the calls have printed, from one product to the next
    products            \* how many products each thread has printed

kernelVars == <<vars, thread_id_array, console, products>>

Main == 0
Producer == 1
Consumer == 2

NothingPrinted ==
    /\ console = << >>
    /\ products = [id \in {Producer, Consumer} |-> 0]

\* The boot code asks for microkernel 2; a1 and t0 are the registers of the loops.
KernelInit ==
    /\ Boot([v0 |-> 0, a0 |-> 2, a1 |-> 0, t0 |-> 0])
    /\ thread_id_array = <<0, 0>>
    /\ NothingPrinted

-----------------------------------------------------------------------------
Stays == UNCHANGED <<thread_id_array, console, products>>

Syscall(label, call) == PC = label /\ call /\ Stays

\* The result of PTHREAD_CREATE, in v0, is kept in thread_id_array.
SaveID(label, i, next) ==
    /\ PC = label
    /\ thread_id_array' = [thread_id_array EXCEPT ![i] = R.v0]
    /\ GoTo(next)
    /\ UNCHANGED <<R, console, products>>

LoadID(label, i, next) ==
    /\ PC = label
    /\ R' = [R EXCEPT !.a0 = thread_id_array[i]]
    /\ GoTo(next)
    /\ Stays

\* The console ends with a whole product: the next piece begins a new stretch of it.
Ended(c) == Len(c) > 0 /\ c[Len(c)].part = "product"

\* One call that prints.
PrintPart(label, what, n, next) ==
    /\ PC = label
    /\ console' = Append(IF Ended(console) THEN << >> ELSE console,
                         [by |-> current_thread.ID, part |-> what, number |-> n])
    /\ products' = IF what = "product" THEN [products EXCEPT ![current_thread.ID] = @ + 1]
                   ELSE products
    /\ GoTo(next)
    /\ UNCHANGED <<R, thread_id_array>>

\* Whoever makes this call does not have the mutex.
Announce(label, next) == PrintPart(label, "announcement", 0, next)

\* The entries of the main thread: dispatch on v0, then micro_kernel_2.
micro_kernel_2 ==
    \/ Announce("out", "create_producer")
    \/ Syscall("create_producer", PTHREAD_CREATE("producer_thread", "save_producer"))
    \/ SaveID("save_producer", 1, "create_consumer")
    \/ Syscall("create_consumer", PTHREAD_CREATE("consumer_thread", "save_consumer"))
    \/ SaveID("save_consumer", 2, "pthread_join_2")
    \/ LoadID("pthread_join_2", 1, "join_producer")
    \/ Syscall("join_producer", PTHREAD_JOIN("joined_producer"))
    \/ Announce("joined_producer", "producer_id")
    \/ Announce("producer_id", "producer_endline")
    \/ Announce("producer_endline", "load_consumer")
    \/ LoadID("load_consumer", 2, "join_consumer")
    \/ Syscall("join_consumer", PTHREAD_JOIN("joined_consumer"))
    \/ Announce("joined_consumer", "consumer_id")
    \/ Announce("consumer_id", "consumer_endline")
    \/ Announce("consumer_endline", "micro_kernel_2_exit")
    \/ Announce("micro_kernel_2_exit", "exit")
    \/ Syscall("exit", PROCESS_EXIT)

\* Both threads have the same code, but for the messages.
Enter ==
    /\ PC \in {"producer_thread", "consumer_thread"}
    /\ R' = [R EXCEPT !.a1 = Rounds, !.t0 = 0]
    /\ GoTo("loop")
    /\ Stays

CountDown ==
    /\ PC = "count_down"
    /\ R' = [R EXCEPT !.a1 = @ - 1, !.t0 = @ + 1]
    /\ GoTo(IF R.a1 = 1 THEN "thread_return" ELSE "lock")
    /\ Stays

worker_loop ==
    \/ Enter
    \/ Announce("loop", "count_down")
    \/ CountDown
    \/ Syscall("lock", MUTEX_LOCK("in"))
    \/ PrintPart("in", "message", 0, "number")
    \/ PrintPart("number", "number", R.t0, "product")
    \/ PrintPart("product", "product", 0, "unlock")
    \/ Syscall("unlock", MUTEX_UNLOCK("loop"))

\* dummy_ jumps to itself until the thread is switched away.
thread_return ==
    \/ Syscall("thread_return", PTHREAD_RETURN("dummy"))
    \/ Syscall("dummy", GoTo("dummy") /\ UNCHANGED R)

KernelInstruction == Running /\ (micro_kernel_2 \/ worker_loop \/ thread_return)

KernelNext == \/ KernelInstruction
              \/ (INIT_SYSCALL \/ SPIM_timerHandler) /\ Stays

-----------------------------------------------------------------------------
(* What the program should do *)

\* The n-th piece was printed with the mutex.
Held(c, n) == c[n].part # "announcement"

After == [message |-> "number", number |-> "product"]

\* The n-th piece of a stretch c of the console.  The pieces printed with the mutex are
\* one line: message, number and product of one thread, with the number of its own
\* products, however often it was switched.  What a worker announces in the stretch
\* comes before all else that it prints there.
InOrder(c, made, n) ==
    /\ Held(c, n) /\ (\A m \in 1 .. n - 1 : ~Held(c, m)) => c[n].part = "message"
    /\ \A m \in 1 .. n - 1 :
          Held(c, n) /\ Held(c, m) /\ (\A i \in m + 1 .. n - 1 : ~Held(c, i)) =>
             /\ c[n].part = After[c[m].part]
             /\ c[n].by = c[m].by
    /\ c[n].part = "number" =>
          c[n].number = made[c[n].by] + IF Ended(c) THEN 0 ELSE 1
    /\ ~Held(c, n) /\ c[n].by # Main => \A m \in 1 .. n - 1 : c[m].by # c[n].by

\* The mutex keeps the lines of products apart: no piece of another line gets into one.
\* It does not keep a line together, for announcements are printed without it: into a
\* line fall none of the thread that prints it, and at most one of the other worker.
LinesApart == \A n \in 1 .. Len(console) : InOrder(console, products, n)

\* The main thread gets past its two joins only when both threads have returned,
\* each after its Rounds - 1 products, and neither of them with the mutex.
JoinedAtExit ==
    get_kernel_up /\ At(CHOOSE k \in WithID(Main) : TRUE) = "exit" =>
        /\ who = NoOwner
        /\ \A id \in {Producer, Consumer} :
              /\ \A k \in WithID(id) : threads[k].state = "DEAD"
              /\ products[id] = Rounds - 1
=============================================================================
