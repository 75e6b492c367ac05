------------------------------ MODULE SpimOSProofs ------------------------------
(***************************************************************************)
(* For any number of threads, with any program: the copy current_thread    *)
(* names the front of the deque, no two threads have the same ID, and the  *)
(* code between lock and unlock is that of the mutex's owner.  A switch    *)
(* turns the deque and loads the registers of its new front; so every      *)
(* thread is, after the switch, at the label it was at before.             *)
(***************************************************************************)
EXTENDS SpimOS, TLAPS

\* The entries of a deque whose program has the labels P and the registers G; the
\* lemmas on the deque and its turns hold for every program.
Thread(P, G) == [ID : Ids, state : {"READY", "RUN", "DEAD"}, PC : P, R : G]
THREAD == Thread(Labels, Registers)

\* The registers of the k-th thread of the deque, with its label At(k).
RAt(k) == IF k = 1 THEN R ELSE threads[k].R

\* IDs are sizes that the deque had, so that its size now is a new one.
SpimInv ==
    /\ TypeOK
    /\ FrontRuns
    /\ MutexSafety
    /\ get_kernel_up => threads # << >>
    /\ ~get_kernel_up => threads = << >> /\ who = NoOwner /\ current_thread.ID = 0
    /\ \A k \in 1 .. Len(threads) : threads[k].ID < Len(threads)
    /\ who < Len(threads)

LEMMA Constants == MaxThreads \in Nat \ {0} /\ EntryAddress = -1 /\ NoOwner = -1
  BY SpimOSAssumption DEF EntryAddress, NoOwner

LEMMA EntryTypesOf ==
    ASSUME NEW P, NEW G, NEW s \in Seq(Thread(P, G)), NEW k \in 1 .. Len(s)
    PROVE  /\ s[k] \in Thread(P, G)
           /\ s[k].ID \in Ids
           /\ s[k].state \in {"READY", "RUN", "DEAD"}
           /\ s[k].PC \in P
           /\ s[k].R \in G
<1>1. s[k] \in Thread(P, G)
  OBVIOUS
<1> QED
  BY <1>1 DEF Thread

LEMMA EntryTypes ==
    ASSUME NEW s \in Seq(THREAD)
    PROVE  \A k \in 1 .. Len(s) :
              /\ s[k] \in THREAD
              /\ s[k].ID \in Ids
              /\ s[k].state \in {"READY", "RUN", "DEAD"}
              /\ s[k].PC \in Labels
              /\ s[k].R \in Registers
  BY EntryTypesOf DEF THREAD

LEMMA TypeOKSeq == TypeOK => threads \in Seq(THREAD)
  BY DEF TypeOK, THREAD, Thread

\* Turning a deque.
LEMMA RotateLemma ==
    ASSUME NEW T, NEW s \in Seq(T), NEW n \in 1 .. Len(s)
    PROVE  /\ Rotate(s, n) \in Seq(T)
           /\ Len(Rotate(s, n)) = Len(s)
           /\ \A k \in 1 .. Len(s) :
                 Rotate(s, n)[k] = IF k + n <= Len(s) THEN s[k + n] ELSE s[k + n - Len(s)]
<1> DEFINE a == SubSeq(s, n + 1, Len(s))
           b == SubSeq(s, 1, n)
<1>1. Len(s) \in Nat /\ n \in Nat
  OBVIOUS
<1>2. /\ a \in Seq(T) /\ Len(a) = Len(s) - n
      /\ \A k \in 1 .. Len(s) - n : a[k] = s[k + n]
  BY <1>1
<1>3. /\ b \in Seq(T) /\ Len(b) = n
      /\ \A k \in 1 .. n : b[k] = s[k]
  BY <1>1
<1>4. /\ a \o b \in Seq(T) /\ Len(a \o b) = Len(s)
      /\ \A k \in 1 .. Len(s) :
            (a \o b)[k] = IF k <= Len(a) THEN a[k] ELSE b[k - Len(a)]
  BY <1>1, <1>2, <1>3
<1>5. ASSUME NEW k \in 1 .. Len(s)
      PROVE  (a \o b)[k] = IF k + n <= Len(s) THEN s[k + n] ELSE s[k + n - Len(s)]
  <2>1. CASE k + n <= Len(s)
    <3>1. k <= Len(a) /\ k \in 1 .. Len(s) - n
      BY <1>1, <1>2, <2>1
    <3> QED
      BY <1>2, <1>4, <2>1, <3>1
  <2>2. CASE ~(k + n <= Len(s))
    <3>1. ~(k <= Len(a)) /\ k - Len(a) \in 1 .. n /\ k - Len(a) = k + n - Len(s)
      BY <1>1, <1>2, <2>2
    <3> QED
      BY <1>3, <1>4, <2>2, <3>1
  <2> QED
    BY <2>1, <2>2
<1> QED
  BY <1>4, <1>5 DEF Rotate

LEMMA InitSpim == Init => SpimInv
<1> SUFFICES ASSUME Init PROVE SpimInv
  OBVIOUS
<1>1. threads = << >> /\ ~get_kernel_up /\ who = NoOwner /\ current_thread.ID = 0
  BY DEF Init, Boot
<1>2. TypeOK
  <2>1. 0 \in Ids /\ Len(threads) = 0 /\ 0 <= MaxThreads
    BY <1>1, Constants DEF Ids
  <2>2. R \in Registers
    BY <2>1 DEF Init, Boot, Registers
  <2>3. current_thread \in [ID : Ids, state : {"READY", "RUN", "DEAD"}]
    BY <2>1 DEF Init, Boot
  <2>4. threads \in Seq(THREAD)
    BY <1>1
  <2>5. threads \in Seq([ID : Ids, state : {"READY", "RUN", "DEAD"}, PC : Labels,
                         R : Registers])
    BY <2>4 DEF THREAD, Thread
  <2>6. /\ who \in Ids \cup {NoOwner} /\ get_kernel_up \in BOOLEAN
        /\ PC \in Labels /\ machine \in {"on", "off", "panic", "hung"}
        /\ LO \in Ids
    BY <1>1, <2>1 DEF Init, Boot, Labels
  <2> QED
    BY <2>1, <2>2, <2>3, <2>5, <2>6 DEF TypeOK
<1> QED
  BY <1>1, <1>2, Constants DEF SpimInv, FrontRuns, MutexSafety

\* The boot code's call makes the first thread.
LEMMA InitSyscallSpim ==
    ASSUME SpimInv, INIT_SYSCALL
    PROVE  SpimInv'
<1> DEFINE r == [R EXCEPT !.v0 = R.a0]
           first == [ID |-> 0, state |-> "RUN", PC |-> "out", R |-> r]
<1>1. /\ TypeOK /\ who = NoOwner
      /\ threads' = << first >> /\ current_thread' = [ID |-> 0, state |-> "RUN"]
      /\ R' = r /\ PC' = "out" /\ get_kernel_up' = TRUE
      /\ UNCHANGED <<who, LO, machine>>
  BY DEF SpimInv, INIT_SYSCALL
<1>2. 0 \in Ids /\ r \in Registers /\ "out" \in Labels
  BY <1>1, Constants DEF TypeOK, Ids, Registers, Labels
<1>3. Len(threads') = 1 /\ threads'[1] = first
  BY <1>1
<1>4. first \in THREAD
  BY <1>2 DEF THREAD, Thread
<1>5. TypeOK'
  BY <1>1, <1>2, <1>3, <1>4, Constants DEF TypeOK, THREAD, Thread
<1>6. FrontRuns' /\ MutexSafety'
  BY <1>1, <1>3, Constants DEF FrontRuns, MutexSafety, Front, At
<1> QED
  BY <1>1, <1>3, <1>5, <1>6, Constants DEF SpimInv

\* A new thread has an ID that no thread has, and does not own the mutex.
LEMMA CreateSpim ==
    ASSUME SpimInv, Running, PC \in {"out", "in"}, PTHREAD_CREATE("out", PC)
    PROVE  SpimInv'
<1> PICK n \in {Len(threads)} : TRUE
  OBVIOUS
<1> DEFINE called == [R EXCEPT !.a0 = EntryAddress]
           new == [ID |-> n, state |-> "READY", PC |-> "out",
                   R |-> [called EXCEPT !.v0 = called.a0]]
<1>1. /\ TypeOK /\ FrontRuns /\ MutexSafety
      /\ get_kernel_up /\ threads # << >>
      /\ \A k \in 1 .. n : threads[k].ID < n
      /\ who < n
      /\ n = Len(threads)
  BY DEF SpimInv, Running
<1>2. /\ n < MaxThreads
      /\ threads' = Append(threads, new)
      /\ R' = [called EXCEPT !.v0 = n]
      /\ PC' = PC
      /\ UNCHANGED <<current_thread, who, get_kernel_up, LO, machine>>
  BY DEF PTHREAD_CREATE
<1>3. threads \in Seq(THREAD) /\ n \in Nat /\ n >= 1
  <2>1. threads \in Seq(THREAD)
    BY <1>1, TypeOKSeq
  <2> QED
    BY <1>1, <2>1
<1>4. n \in Ids /\ new \in THREAD /\ R' \in Registers
  <2>1. n \in Ids
    BY <1>2, <1>3, Constants DEF Ids
  <2>2. called \in Registers /\ called.a0 \in Ids \cup {EntryAddress}
    BY <1>1 DEF TypeOK, Registers
  <2>3. [called EXCEPT !.v0 = called.a0] \in Registers /\ R' \in Registers
    BY <1>2, <2>1, <2>2 DEF Registers
  <2> QED
    BY <2>1, <2>3 DEF THREAD, Thread, Labels
<1>5. /\ threads' \in Seq(THREAD)
      /\ Len(threads') = n + 1
      /\ threads'[n + 1] = new
      /\ \A k \in 1 .. n : threads'[k] = threads[k]
  BY <1>2, <1>3, <1>4
<1>6. \A k \in 1 .. n + 1 : k \in 1 .. n \/ k = n + 1
  BY <1>3
<1>7. \A k \in 1 .. n : threads[k].ID \in Ids
  BY <1>3, EntryTypes
<1>8. TypeOK'
  BY <1>1, <1>2, <1>3, <1>4, <1>5, Constants DEF TypeOK, THREAD, Thread
<1>9. FrontRuns'
  <2>1. Front' = Front
    BY <1>3, <1>5 DEF Front
  <2>2. \A k \in 2 .. n + 1 : threads'[k].state # "RUN"
    BY <1>1, <1>3, <1>5, <1>6 DEF FrontRuns
  <2>3. \A j, k \in 1 .. n + 1 : threads'[j].ID = threads'[k].ID => j = k
    BY <1>1, <1>3, <1>5, <1>6, <1>7 DEF FrontRuns, Ids
  <2> QED
    BY <1>1, <1>2, <1>5, <2>1, <2>2, <2>3 DEF FrontRuns
<1>10. MutexSafety'
  <2>1. \A k \in 1 .. n : At(k)' = At(k)
    BY <1>2, <1>5 DEF At
  <2>2. At(n + 1)' = "out" /\ threads'[n + 1].ID = n
    <3>1. n + 1 # 1 /\ new.PC = "out" /\ new.ID = n
      BY <1>3
    <3>2. At(n + 1)' = threads'[n + 1].PC
      BY <3>1 DEF At
    <3> QED
      BY <1>5, <3>1, <3>2
  <2>3. ASSUME NEW k \in 1 .. n + 1
        PROVE  /\ At(k)' = "in" => who' = threads'[k].ID
               /\ who' = threads'[k].ID => At(k)' \in {"in", "dummy"}
    <3>1. CASE k \in 1 .. n
      BY <1>1, <1>2, <1>5, <2>1, <3>1 DEF MutexSafety
    <3>2. CASE k = n + 1
      <4>1. who' # n
        BY <1>1, <1>2, <1>3 DEF TypeOK, Ids, NoOwner
      <4> QED
        BY <1>2, <2>2, <3>2, <4>1
    <3> QED
      BY <1>6, <3>1, <3>2
  <2> QED
    BY <1>5, <2>3 DEF MutexSafety
<1>11. \A k \in 1 .. n + 1 : threads'[k].ID < n + 1
  BY <1>1, <1>3, <1>5, <1>6, <1>7 DEF Ids
<1>12. who' < n + 1
  BY <1>1, <1>2, <1>3 DEF TypeOK, Ids, NoOwner
<1> QED
  BY <1>1, <1>2, <1>3, <1>5, <1>8, <1>9, <1>10, <1>11, <1>12 DEF SpimInv

\* Calls that leave the deque alone, and move only the caller.
LEMMA CallerSpim ==
    ASSUME SpimInv, Running, PC' \in Labels, R' \in Registers, LO' \in Ids,
           UNCHANGED <<threads, current_thread, get_kernel_up>>,
           machine' \in {"on", "panic"},
           \/ who' = who /\ PC \notin {"in", "dummy"} /\ PC' \notin {"in", "dummy"}
           \/ who' = who /\ PC' = PC
           \/ who = NoOwner /\ who' = current_thread.ID /\ PC' = "in"
           \/ who = current_thread.ID /\ who' = NoOwner /\ PC' = "out"
    PROVE  SpimInv'
<1>1. /\ TypeOK /\ FrontRuns /\ MutexSafety /\ get_kernel_up /\ threads # << >>
      /\ machine = "on"
      /\ \A k \in 1 .. Len(threads) : threads[k].ID < Len(threads)
      /\ who < Len(threads)
  BY DEF SpimInv, Running
<1>2. Len(threads) \in Nat /\ Len(threads) >= 1 /\ 1 \in 1 .. Len(threads)
  BY <1>1 DEF TypeOK
<1>3. /\ current_thread.ID = threads[1].ID
      /\ current_thread.ID \in Ids
      /\ \A k \in 1 .. Len(threads) : threads[k].ID \in Ids
      /\ \A k \in 2 .. Len(threads) : threads[k].ID # threads[1].ID
  <2>1. \A k \in 1 .. Len(threads) : threads[k].ID \in Ids
    BY <1>1, TypeOKSeq, EntryTypes
  <2>2. current_thread.ID = threads[1].ID
    BY <1>1 DEF FrontRuns, Front
  <2>3. \A k \in 2 .. Len(threads) : threads[k].ID # threads[1].ID
    BY <1>1, <1>2 DEF FrontRuns
  <2> QED
    BY <1>2, <2>1, <2>2, <2>3
<1>4. who' \in Ids \cup {NoOwner} /\ who' < Len(threads)
  BY <1>1, <1>2, <1>3, Constants DEF TypeOK
<1>5. TypeOK'
  BY <1>1, <1>4 DEF TypeOK
<1>6. FrontRuns'
  BY <1>1 DEF FrontRuns, Front
<1>7. MutexSafety'
  <2>1. /\ At(1) = PC /\ At(1)' = PC'
        /\ \A k \in 2 .. Len(threads) : At(k)' = At(k)
    BY DEF At
  <2>2. NoOwner \notin Ids
    BY Constants DEF Ids
  <2>3. ASSUME NEW k \in 2 .. Len(threads)
        PROVE  /\ At(k)' = "in" => who' = threads[k].ID
               /\ who' = threads[k].ID => At(k)' \in {"in", "dummy"}
    <3>1. k \in 1 .. Len(threads) /\ threads[k].ID # NoOwner
      BY <1>2, <1>3, <2>2
    <3> QED
      BY <1>1, <1>3, <2>1, <3>1 DEF MutexSafety
  <2>4. /\ PC' = "in" => who' = threads[1].ID
        /\ who' = threads[1].ID => PC' \in {"in", "dummy"}
    BY <1>1, <1>2, <1>3, <2>1, <2>2 DEF MutexSafety
  <2>5. \A k \in 1 .. Len(threads) : k = 1 \/ k \in 2 .. Len(threads)
    BY <1>2
  <2> QED
    BY <2>1, <2>3, <2>4, <2>5 DEF MutexSafety
<1> QED
  BY <1>1, <1>4, <1>5, <1>6, <1>7 DEF SpimInv

\* Calls that end threads: entries become DEAD and nothing else of them changes.
LEMMA EndSpim ==
    ASSUME SpimInv, Running,
           threads' \in Seq(THREAD), Len(threads') = Len(threads),
           \A k \in 1 .. Len(threads) :
              \/ threads'[k] = threads[k]
              \/ threads'[k] = [threads[k] EXCEPT !.state = "DEAD"],
           current_thread' \in [ID : Ids, state : {"READY", "RUN", "DEAD"}],
           current_thread'.ID = current_thread.ID,
           machine' \in {"on", "off"},
           \/ PC' = PC
           \/ PC' = "dummy" /\ PC \in {"in", "out"},
           UNCHANGED <<who, get_kernel_up, R, LO>>
    PROVE  SpimInv'
<1>1. /\ TypeOK /\ FrontRuns /\ MutexSafety /\ get_kernel_up /\ threads # << >>
      /\ machine = "on"
      /\ \A k \in 1 .. Len(threads) : threads[k].ID < Len(threads)
      /\ who < Len(threads)
  BY DEF SpimInv, Running
<1>2. /\ Len(threads) \in Nat /\ Len(threads) >= 1 /\ 1 \in 1 .. Len(threads)
      /\ threads \in Seq(THREAD)
  <2>1. threads \in Seq(THREAD)
    BY <1>1, TypeOKSeq
  <2> QED
    BY <1>1, <2>1
<1>3. \A k \in 1 .. Len(threads) :
         /\ threads'[k].ID = threads[k].ID
         /\ threads'[k].PC = threads[k].PC
         /\ threads'[k].state \in {threads[k].state, "DEAD"}
  <2> SUFFICES ASSUME NEW k \in 1 .. Len(threads)
               PROVE  /\ threads'[k].ID = threads[k].ID
                      /\ threads'[k].PC = threads[k].PC
                      /\ threads'[k].state \in {threads[k].state, "DEAD"}
    OBVIOUS
  <2>1. threads[k] \in THREAD
    BY <1>2, EntryTypes
  <2> QED
    BY <2>1 DEF THREAD, Thread
<1>4. TypeOK'
  BY <1>1 DEF TypeOK, THREAD, Thread, Labels
<1>5. FrontRuns'
  <2>1. current_thread'.ID = threads'[1].ID /\ threads'[1].state \in {threads[1].state, "DEAD"}
    BY <1>1, <1>2, <1>3 DEF FrontRuns, Front
  <2>2. threads[1].state \in {"RUN", "DEAD"}
    BY <1>1 DEF FrontRuns, Front
  <2>3. \A k \in 2 .. Len(threads') : threads'[k].state # "RUN"
    <3>1. \A k \in 2 .. Len(threads) : threads[k].state # "RUN" /\ k \in 1 .. Len(threads)
      BY <1>1, <1>2 DEF FrontRuns
    <3> QED
      BY <1>3, <3>1
  <2>4. \A j, k \in 1 .. Len(threads') : threads'[j].ID = threads'[k].ID => j = k
    <3>1. \A j, k \in 1 .. Len(threads) : threads[j].ID = threads[k].ID => j = k
      BY <1>1 DEF FrontRuns
    <3> QED
      BY <1>3, <3>1
  <2> QED
    BY <2>1, <2>2, <2>3, <2>4 DEF FrontRuns, Front
<1>6. MutexSafety'
  <2>1. \A k \in 1 .. Len(threads) : At(k)' = At(k) \/ (k = 1 /\ PC' = "dummy" /\ At(k)' = "dummy")
    BY <1>3 DEF At
  <2> QED
    BY <1>1, <1>3, <2>1 DEF MutexSafety
<1> QED
  BY <1>1, <1>2, <1>3, <1>4, <1>5, <1>6 DEF SpimInv

\* A sequence made entry by entry.
LEMMA SequenceLemma ==
    ASSUME NEW S, NEW n \in Nat, NEW f, f = [k \in 1 .. n |-> f[k]],
           \A k \in 1 .. n : f[k] \in S
    PROVE  f \in Seq(S) /\ Len(f) = n
  OBVIOUS

\* The deque as the timer handler saves it, and as the first n entries yield.
DequeOK(P, G) ==
    /\ threads \in Seq(Thread(P, G))
    /\ threads # << >>
    /\ PC \in P /\ R \in G
    /\ \A k \in 2 .. Len(threads) : threads[k].state # "RUN"

LEMMA SpimDeque == SpimInv /\ get_kernel_up => DequeOK(Labels, Registers)
  BY TypeOKSeq DEF SpimInv, DequeOK, FrontRuns, TypeOK, THREAD

LEMMA YieldLemma ==
    ASSUME NEW P, NEW G, DequeOK(P, G), NEW n \in 1 .. Len(threads),
           NEW y, y = [k \in DOMAIN Save(threads) |->
                         IF k <= n THEN Yield(Save(threads)[k]) ELSE Save(threads)[k]]
    PROVE  /\ y \in Seq(Thread(P, G))
           /\ Len(y) = Len(threads)
           /\ Len(Save(threads)) = Len(threads)
           /\ \A k \in 1 .. Len(threads) :
                 /\ y[k].ID = threads[k].ID
                 /\ y[k].PC = At(k)
                 /\ y[k].R = RAt(k)
                 /\ y[k].state # "RUN"
                 /\ y[k].state = "DEAD" <=> threads[k].state = "DEAD"
                 /\ Save(threads)[k].state = threads[k].state
<1> DEFINE s == Save(threads)
           L == Len(threads)
<1>1. /\ threads \in Seq(Thread(P, G))
      /\ L \in Nat /\ L >= 1
      /\ DOMAIN threads = 1 .. L
      /\ \A k \in 2 .. L : threads[k].state # "RUN"
  BY DEF DequeOK
<1>2. /\ DOMAIN s = 1 .. L
      /\ s[1] = [threads[1] EXCEPT !.PC = PC, !.R = R]
      /\ \A k \in 2 .. L : s[k] = threads[k]
  BY <1>1 DEF Save
<1>3. \A k \in 1 .. L : threads[k] \in Thread(P, G)
  BY <1>1
<1>4. PC \in P /\ R \in G
  BY DEF DequeOK
<1>5. ASSUME NEW k \in 1 .. L
      PROVE  /\ s[k] \in Thread(P, G)
             /\ s[k].ID = threads[k].ID
             /\ s[k].PC = At(k)
             /\ s[k].R = RAt(k)
             /\ k # 1 => s[k].state # "RUN"
             /\ s[k].state = threads[k].state
  <2>1. CASE k = 1
    <3>1. threads[1] \in Thread(P, G)
      BY <1>1, <1>3
    <3> QED
      BY <1>2, <1>4, <2>1, <3>1 DEF Thread, At, RAt
  <2>2. CASE k # 1
    <3>1. k \in 2 .. L /\ threads[k] \in Thread(P, G)
      BY <1>1, <1>3, <2>2
    <3> QED
      BY <1>1, <1>2, <2>2, <3>1 DEF At, RAt
  <2> QED
    BY <2>1, <2>2
<1>6. ASSUME NEW k \in 1 .. L
      PROVE  /\ y[k] \in Thread(P, G)
             /\ y[k].ID = threads[k].ID
             /\ y[k].PC = At(k)
             /\ y[k].R = RAt(k)
             /\ y[k].state # "RUN"
             /\ y[k].state = "DEAD" <=> threads[k].state = "DEAD"
  <2>1. y[k] = IF k <= n THEN Yield(s[k]) ELSE s[k]
    BY <1>2
  <2>2. k <= n \/ k # 1
    BY <1>1
  <2>3. s[k] \in Thread(P, G)
    BY <1>5
  <2> QED
    BY <1>5, <2>1, <2>2, <2>3 DEF Yield, Thread
<1>7. y \in Seq(Thread(P, G)) /\ Len(y) = L
  BY <1>1, <1>2, <1>6
<1>8. Len(s) = L
  BY <1>1, <1>2 DEF Save
<1>9. \A k \in 1 .. L : s[k].state = threads[k].state
  BY <1>5
<1>10. \A k \in 1 .. L : /\ y[k].ID = threads[k].ID
                         /\ y[k].PC = At(k)
                         /\ y[k].R = RAt(k)
                         /\ y[k].state # "RUN"
                         /\ y[k].state = "DEAD" <=> threads[k].state = "DEAD"
  BY <1>6
<1> QED
  BY <1>7, <1>8, <1>9, <1>10

LEMMA ModLemma ==
    ASSUME NEW L \in Nat \ {0}, NEW n \in 1 .. L
    PROVE  (n % L) + 1 = IF 1 + n <= L THEN 1 + n ELSE 1 + n - L
<1>1. CASE n = L
  BY <1>1
<1>2. CASE n < L
  BY <1>2
<1> QED
  BY <1>1, <1>2

\* What a switch leaves: place k holds what place g[k] held, in the deque and in
\* the registers of its front, and the new front is alive.
TurnedIn(P, G, g, L) ==
    /\ \A j, k \in 1 .. L : g[j] = g[k] => j = k
    /\ \A m \in 1 .. L : \E k \in 1 .. L : g[k] = m
    /\ threads' \in Seq(Thread(P, G))
    /\ Len(threads') = L
    /\ \A k \in 1 .. L :
          /\ threads'[k].ID = threads[g[k]].ID
          /\ (IF k = 1 THEN PC' ELSE threads'[k].PC) = At(g[k])
          /\ (IF k = 1 THEN R' ELSE threads'[k].R) = RAt(g[k])
          /\ threads'[k].state = "RUN" <=> k = 1
          /\ threads'[k].state = "DEAD" <=> threads[g[k]].state = "DEAD"
    /\ current_thread' = [ID |-> threads'[1].ID, state |-> "RUN"]
    /\ PC' \in P /\ R' \in G

LEMMA SwitchTurnsIn ==
    ASSUME NEW P, NEW G, DequeOK(P, G), SPIM_timerHandler
    PROVE  \/ /\ machine' = "hung"
              /\ UNCHANGED <<threads, current_thread, PC, R>>
           \/ /\ machine' = machine
              /\ \E g \in [1 .. Len(threads) -> 1 .. Len(threads)] : TurnedIn(P, G, g, Len(threads))
<1> PICK L \in {Len(threads)} : TRUE
  OBVIOUS
<1> DEFINE s == Save(threads)
           yielded(n) == [k \in DOMAIN s |-> IF k <= n THEN Yield(s[k]) ELSE s[k]]
<1>1. /\ threads # << >> /\ threads \in Seq(Thread(P, G))
      /\ L = Len(threads) /\ L \in Nat /\ L >= 1
  BY DEF DequeOK
<1>2. CASE \A k \in DOMAIN s : s[k].state = "DEAD"
  BY <1>2 DEF SPIM_timerHandler, context_switch
<1>3. CASE ~ \A k \in DOMAIN s : s[k].state = "DEAD"
  <2>1. PICK n \in 1 .. Len(s) :
          /\ s[(n % Len(s)) + 1].state # "DEAD"
          /\ threads' = [Rotate(yielded(n), n) EXCEPT ![1].state = "RUN"]
          /\ current_thread' = [ID |-> Rotate(yielded(n), n)[1].ID, state |-> "RUN"]
          /\ R' = Rotate(yielded(n), n)[1].R
          /\ PC' = Rotate(yielded(n), n)[1].PC
          /\ machine' = machine
    BY <1>3 DEF SPIM_timerHandler, context_switch
  <2>2. PICK y \in {yielded(n)}, r \in {Rotate(yielded(n), n)} : r = Rotate(y, n)
    OBVIOUS
  <2>3. /\ threads' = [r EXCEPT ![1] = [r[1] EXCEPT !.state = "RUN"]]
        /\ current_thread' = [ID |-> r[1].ID, state |-> "RUN"]
        /\ R' = r[1].R /\ PC' = r[1].PC
    BY <2>1, <2>2
  <2>4. Len(s) = L
    BY <1>1 DEF Save
  <2>5. /\ y \in Seq(Thread(P, G))
        /\ Len(y) = L
        /\ \A k \in 1 .. L : /\ y[k].ID = threads[k].ID
                             /\ y[k].PC = At(k)
                             /\ y[k].R = RAt(k)
                             /\ y[k].state # "RUN"
                             /\ y[k].state = "DEAD" <=> threads[k].state = "DEAD"
                             /\ s[k].state = threads[k].state
    BY <1>1, <2>2, <2>4, YieldLemma
  <2> DEFINE from(k) == IF k + n <= L THEN k + n ELSE k + n - L
             g == [k \in 1 .. L |-> from(k)]
  <2>6. /\ r \in Seq(Thread(P, G)) /\ Len(r) = L
        /\ \A k \in 1 .. L : r[k] = y[from(k)]
    <3>1. n \in 1 .. Len(y)
      BY <2>4, <2>5
    <3>2. /\ r \in Seq(Thread(P, G))
          /\ Len(r) = Len(y)
          /\ \A k \in 1 .. Len(y) :
                r[k] = IF k + n <= Len(y) THEN y[k + n] ELSE y[k + n - Len(y)]
      BY <2>2, <2>5, <3>1, RotateLemma
    <3> QED
      BY <2>5, <3>2
  <2>7. /\ \A k \in 1 .. L : from(k) \in 1 .. L
        /\ \A j, k \in 1 .. L : from(j) = from(k) => j = k
    BY <1>1, <2>4
  <2>8. ASSUME NEW m \in 1 .. L PROVE \E k \in 1 .. L : from(k) = m
    <3>1. CASE m > n
      <4>1. m - n \in 1 .. L /\ from(m - n) = m
        BY <1>1, <2>4, <3>1
      <4> QED
        BY <4>1
    <3>2. CASE m <= n
      <4>1. m + L - n \in 1 .. L /\ from(m + L - n) = m
        BY <1>1, <2>4, <3>2
      <4> QED
        BY <4>1
    <3> QED
      BY <2>4, <3>1, <3>2
  <2>9. threads[from(1)].state # "DEAD"
    <3>1. (n % L) + 1 = from(1)
      <4>1. L \in Nat \ {0} /\ n \in 1 .. L
        BY <1>1, <2>4
      <4>2. (n % L) + 1 = IF 1 + n <= L THEN 1 + n ELSE 1 + n - L
        BY <4>1, ModLemma
      <4> QED
        BY <4>2
    <3>2. 1 \in 1 .. L
      BY <1>1
    <3>3. s[from(1)].state # "DEAD" /\ from(1) \in 1 .. L
      BY <2>1, <2>4, <2>7, <3>1, <3>2
    <3> QED
      BY <2>5, <3>3
  <2>10. /\ g \in [1 .. L -> 1 .. L]
         /\ \A k \in 1 .. L : g[k] = from(k)
         /\ \A j, k \in 1 .. L : g[j] = g[k] => j = k
         /\ \A m \in 1 .. L : \E k \in 1 .. L : g[k] = m
    BY <2>7, <2>8
  <2> HIDE DEF from, g
  <2>11. \A k \in 1 .. L : /\ r[k] \in Thread(P, G)
                           /\ r[k].ID = threads[g[k]].ID
                           /\ r[k].PC = At(g[k])
                           /\ r[k].R = RAt(g[k])
                           /\ r[k].state # "RUN"
                           /\ r[k].state = "DEAD" <=> threads[g[k]].state = "DEAD"
    <3> SUFFICES ASSUME NEW k \in 1 .. L
                 PROVE  /\ r[k] \in Thread(P, G)
                        /\ r[k].ID = threads[g[k]].ID
                        /\ r[k].PC = At(g[k])
                        /\ r[k].R = RAt(g[k])
                        /\ r[k].state # "RUN"
                        /\ r[k].state = "DEAD" <=> threads[g[k]].state = "DEAD"
      OBVIOUS
    <3>1. g[k] \in 1 .. L /\ r[k] = y[g[k]]
      BY <2>6, <2>7, <2>10
    <3>2. y[g[k]] \in Thread(P, G)
      BY <2>5, <3>1
    <3> QED
      BY <2>5, <3>1, <3>2
  <2>12. /\ 1 \in 1 .. L /\ r[1] \in Thread(P, G)
         /\ \A k \in 1 .. L : k = 1 \/ k \in 2 .. L
         /\ DOMAIN r = 1 .. L
    BY <1>1, <2>6, <2>11
  <2>13. /\ [r[1] EXCEPT !.state = "RUN"] \in Thread(P, G)
         /\ [r[1] EXCEPT !.state = "RUN"].ID = r[1].ID
         /\ [r[1] EXCEPT !.state = "RUN"].state = "RUN"
         /\ r[1].ID \in Ids /\ r[1].PC \in P /\ r[1].R \in G
    BY <2>12 DEF Thread
  <2>14. /\ DOMAIN threads' = 1 .. L
         /\ threads'[1] = [r[1] EXCEPT !.state = "RUN"]
         /\ \A k \in 1 .. L : k # 1 => threads'[k] = r[k]
    BY <2>3, <2>12
  <2>15. threads' \in Seq(Thread(P, G)) /\ Len(threads') = L
    <3>1. ASSUME NEW k \in 1 .. L PROVE threads'[k] \in Thread(P, G)
      <4>1. CASE k = 1
        BY <2>13, <2>14, <4>1
      <4>2. CASE k # 1
        BY <2>11, <2>14, <4>2
      <4> QED
        BY <4>1, <4>2
    <3>2. threads' = [k \in 1 .. L |-> threads'[k]]
      BY <2>3, <2>14
    <3> QED
      BY <1>1, <3>1, <3>2, SequenceLemma
  <2>16. ASSUME NEW k \in 1 .. L
         PROVE  /\ threads'[k].ID = threads[g[k]].ID
                /\ (IF k = 1 THEN PC' ELSE threads'[k].PC) = At(g[k])
                /\ (IF k = 1 THEN R' ELSE threads'[k].R) = RAt(g[k])
                /\ threads'[k].state = "RUN" <=> k = 1
                /\ threads'[k].state = "DEAD" <=> threads[g[k]].state = "DEAD"
    <3>1. CASE k = 1
      <4>1. threads[g[1]].state # "DEAD"
        BY <2>9, <2>10, <2>12
      <4> QED
        BY <2>3, <2>11, <2>13, <2>14, <3>1, <4>1
    <3>2. CASE k # 1
      BY <2>11, <2>12, <2>14, <3>2
    <3> QED
      BY <3>1, <3>2
  <2>17. /\ current_thread' = [ID |-> threads'[1].ID, state |-> "RUN"]
         /\ PC' \in P /\ R' \in G
    BY <2>3, <2>13, <2>14
  <2>18. TurnedIn(P, G, g, L)
    BY <2>10, <2>15, <2>16, <2>17 DEF TurnedIn
  <2> QED
    BY <1>1, <2>1, <2>10, <2>18
<1> QED
  BY <1>2, <1>3

Turned(g, L) == TurnedIn(Labels, Registers, g, L)

LEMMA SwitchTurns ==
    ASSUME SpimInv, SPIM_timerHandler
    PROVE  \/ /\ machine' = "hung"
              /\ UNCHANGED <<threads, current_thread, PC, R>>
           \/ /\ machine' = machine
              /\ \E g \in [1 .. Len(threads) -> 1 .. Len(threads)] : Turned(g, Len(threads))
<1>1. DequeOK(Labels, Registers)
  BY SpimDeque DEF SPIM_timerHandler, TimerSwitches
<1> QED
  BY <1>1, SwitchTurnsIn DEF Turned

\* A switch turns the deque: every thread is where it was, and the front runs.
LEMMA SwitchSpim ==
    ASSUME SpimInv, SPIM_timerHandler
    PROVE  SpimInv'
<1> PICK L \in {Len(threads)} : TRUE
  OBVIOUS
<1>1. /\ TypeOK /\ FrontRuns /\ MutexSafety /\ get_kernel_up /\ threads # << >>
      /\ machine = "on" /\ L = Len(threads) /\ L \in Nat /\ L >= 1
      /\ \A k \in 1 .. L : threads[k].ID < L
      /\ who < L /\ L <= MaxThreads
      /\ UNCHANGED <<who, get_kernel_up, LO>>
  <2>1. threads \in Seq(THREAD) /\ get_kernel_up
    BY TypeOKSeq DEF SpimInv, SPIM_timerHandler, TimerSwitches
  <2>2. threads # << >>
    BY <2>1 DEF SpimInv
  <2> QED
    BY <2>1, <2>2 DEF SpimInv, SPIM_timerHandler, TypeOK
<1>2. CASE machine' = "hung" /\ UNCHANGED <<threads, current_thread, PC, R>>
  <2>1. TypeOK' /\ FrontRuns' /\ MutexSafety'
    BY <1>1, <1>2 DEF TypeOK, FrontRuns, MutexSafety, Front, At
  <2> QED
    BY <1>1, <1>2, <2>1 DEF SpimInv
<1>3. ASSUME machine' = machine, NEW g \in [1 .. L -> 1 .. L], Turned(g, L)
      PROVE  SpimInv'
  <2>1. /\ threads' \in Seq(THREAD) /\ Len(threads') = L /\ 1 \in 1 .. L
        /\ \A k \in 1 .. L : /\ g[k] \in 1 .. L
                             /\ threads'[k].ID = threads[g[k]].ID
                             /\ threads'[k].state = "RUN" <=> k = 1
    <3>1. \A k \in 1 .. L : g[k] \in 1 .. L
      BY <1>3
    <3>2. threads' \in Seq(THREAD) /\ Len(threads') = L
      BY <1>3 DEF Turned, TurnedIn, THREAD
    <3>3. \A k \in 1 .. L : /\ threads'[k].ID = threads[g[k]].ID
                            /\ threads'[k].state = "RUN" <=> k = 1
      BY <1>3 DEF Turned, TurnedIn
    <3> QED
      BY <1>1, <3>1, <3>2, <3>3
  <2>2. TypeOK'
    <3>1. threads'[1].ID \in Ids
      BY <2>1, EntryTypes
    <3>2. current_thread' \in [ID : Ids, state : {"READY", "RUN", "DEAD"}]
      BY <1>3, <3>1 DEF Turned, TurnedIn
    <3>3. threads' \in Seq([ID : Ids, state : {"READY", "RUN", "DEAD"}, PC : Labels,
                            R : Registers])
      BY <2>1 DEF THREAD, Thread
    <3> QED
      BY <1>1, <1>3, <2>1, <3>2, <3>3 DEF TypeOK, Turned, TurnedIn
  <2>3. FrontRuns'
    <3>1. threads'[1].state = "RUN" /\ current_thread'.ID = threads'[1].ID
      BY <1>3, <2>1 DEF Turned, TurnedIn
    <3>2. \A k \in 2 .. L : k \in 1 .. L /\ k # 1
      BY <1>1
    <3>3. \A j, k \in 1 .. L : threads'[j].ID = threads'[k].ID => j = k
      <4>1. \A j, k \in 1 .. L : threads[j].ID = threads[k].ID => j = k
        BY <1>1 DEF FrontRuns
      <4>2. \A j, k \in 1 .. L : g[j] = g[k] => j = k
        BY <1>3 DEF Turned, TurnedIn
      <4> QED
        BY <2>1, <4>1, <4>2
    <3> QED
      BY <2>1, <3>1, <3>2, <3>3 DEF FrontRuns, Front
  <2>4. \A k \in 1 .. L : At(k)' = At(g[k])
    BY <1>3 DEF Turned, TurnedIn, At
  <2>5. MutexSafety'
    <3>1. \A k \in 1 .. L : /\ At(k) = "in" => who = threads[k].ID
                            /\ who = threads[k].ID => At(k) \in {"in", "dummy"}
      BY <1>1 DEF MutexSafety
    <3>2. ASSUME NEW k \in 1 .. L
          PROVE  /\ At(k)' = "in" => who' = threads'[k].ID
                 /\ who' = threads'[k].ID => At(k)' \in {"in", "dummy"}
      <4>1. g[k] \in 1 .. L /\ At(k)' = At(g[k]) /\ threads'[k].ID = threads[g[k]].ID
        BY <2>1, <2>4
      <4> QED
        BY <1>1, <3>1, <4>1
    <3> QED
      BY <2>1, <3>2 DEF MutexSafety
  <2>6. \A k \in 1 .. L : threads'[k].ID < L
    BY <1>1, <2>1
  <2>7. threads' # << >>
    BY <1>1, <2>1
  <2> QED
    BY <1>1, <2>1, <2>2, <2>3, <2>5, <2>6, <2>7 DEF SpimInv
<1> QED
  BY <1>1, <1>2, <1>3, SwitchTurns

-----------------------------------------------------------------------------
\* The instructions of the most general program.
LEMMA InstructionSpim ==
    ASSUME SpimInv, Instruction
    PROVE  SpimInv'
<1>1. /\ Running /\ TypeOK /\ threads \in Seq(THREAD) /\ threads # << >>
      /\ machine = "on" /\ PC \in Labels /\ R \in Registers /\ LO \in Ids
      /\ current_thread \in [ID : Ids, state : {"READY", "RUN", "DEAD"}]
      /\ DOMAIN threads = 1 .. Len(threads)
  <2>1. threads \in Seq(THREAD)
    BY TypeOKSeq DEF SpimInv
  <2> QED
    BY <2>1 DEF SpimInv, Instruction, Running, TypeOK
<1>2. \A k \in DOMAIN threads : /\ threads[k] \in THREAD
                                /\ [threads[k] EXCEPT !.state = "DEAD"] \in THREAD
  <2>1. \A k \in DOMAIN threads : threads[k] \in THREAD
    BY <1>1
  <2> QED
    BY <2>1 DEF THREAD, Thread
<1>3. CASE Compute
  <2>1. R' \in Registers
    <3>1. CASE R' = R
      BY <1>1, <3>1
    <3>2. ASSUME NEW id \in JoinedIds \cup {LO}, R' = [R EXCEPT !.a0 = id]
          PROVE  R' \in Registers
      <4>1. id \in Ids
        BY <1>1, SpimOSAssumption DEF Ids
      <4> QED
        BY <1>1, <3>2, <4>1 DEF Registers
    <3> QED
      BY <1>3, <3>1, <3>2 DEF Compute
  <2>2. /\ PC = "out" /\ PC' \in {"out", "lock", "join"}
        /\ LO' \in {LO, current_thread.ID}
        /\ UNCHANGED <<threads, current_thread, who, get_kernel_up, machine>>
    BY <1>3 DEF Compute, GoTo, Jump
  <2> QED
    BY <1>1, <2>1, <2>2, CallerSpim DEF Labels
<1>4. CASE PC = "lock" /\ MUTEX_LOCK("in")
  BY <1>1, <1>4, CallerSpim DEF MUTEX_LOCK, Labels
<1>5. CASE PC = "join" /\ PTHREAD_JOIN("out")
  BY <1>1, <1>5, CallerSpim DEF PTHREAD_JOIN, Labels
<1>6. CASE PC \in {"out", "in"} /\ MUTEX_UNLOCK("out")
  BY <1>1, <1>6, CallerSpim DEF MUTEX_UNLOCK, Labels
<1>7. CASE PC \in {"out", "in"} /\ PTHREAD_CREATE("out", PC)
  BY <1>1, <1>7, CreateSpim
<1>8. ASSUME NEW how \in {"off"}, ExitAll(how) PROVE SpimInv'
  <2>1. threads' = [k \in DOMAIN threads |-> [threads[k] EXCEPT !.state = "DEAD"]]
    BY <1>8 DEF ExitAll
  <2>2. threads' \in Seq(THREAD) /\ Len(threads') = Len(threads)
    BY <1>1, <1>2, <2>1
  <2>3. \A k \in 1 .. Len(threads) : threads'[k] = [threads[k] EXCEPT !.state = "DEAD"]
    BY <1>1, <2>1
  <2>4. machine' = "off" /\ UNCHANGED <<current_thread, who, get_kernel_up, PC, R, LO>>
    BY <1>8 DEF ExitAll
  <2> QED
    BY <1>1, <2>2, <2>3, <2>4, EndSpim
<1>9. CASE PC \in {"out", "in"} /\ PTHREAD_EXIT(PC)
  <2>1. CASE current_thread.ID = 0
    BY <1>8, <1>9, <2>1 DEF PTHREAD_EXIT
  <2>2. CASE current_thread.ID # 0
    <3>1. /\ threads' = [k \in DOMAIN threads |->
                           IF k \in WithID(current_thread.ID)
                           THEN [threads[k] EXCEPT !.state = "DEAD"] ELSE threads[k]]
          /\ PC' = PC
          /\ UNCHANGED <<current_thread, who, get_kernel_up, R, LO, machine>>
      BY <1>9, <2>2 DEF PTHREAD_EXIT
    <3>2. threads' \in Seq(THREAD) /\ Len(threads') = Len(threads)
      BY <1>1, <1>2, <3>1
    <3>3. \A k \in 1 .. Len(threads) :
             \/ threads'[k] = threads[k]
             \/ threads'[k] = [threads[k] EXCEPT !.state = "DEAD"]
      BY <1>1, <3>1
    <3> QED
      BY <1>1, <3>1, <3>2, <3>3, EndSpim
  <2> QED
    BY <2>1, <2>2
<1>10. CASE PC \in {"out", "in"} /\ PTHREAD_RETURN("dummy")
  <2>1. /\ threads' = [threads EXCEPT ![1] = [threads[1] EXCEPT !.state = "DEAD"]]
        /\ current_thread' = [current_thread EXCEPT !.state = "DEAD"]
        /\ PC' = "dummy"
        /\ UNCHANGED <<who, get_kernel_up, R, LO, machine>>
    BY <1>10 DEF PTHREAD_RETURN, SetState
  <2>2. 1 \in DOMAIN threads
    BY <1>1
  <2>3. threads' \in Seq(THREAD) /\ Len(threads') = Len(threads)
    BY <1>1, <1>2, <2>1, <2>2
  <2>4. \A k \in 1 .. Len(threads) :
           \/ threads'[k] = threads[k]
           \/ threads'[k] = [threads[k] EXCEPT !.state = "DEAD"]
    BY <1>1, <2>1, <2>2
  <2>5. /\ current_thread' \in [ID : Ids, state : {"READY", "RUN", "DEAD"}]
        /\ current_thread'.ID = current_thread.ID
    BY <1>1, <2>1
  <2> QED
    BY <1>1, <1>10, <2>1, <2>3, <2>4, <2>5, EndSpim
<1>11. CASE PROCESS_EXIT
  BY <1>8, <1>11 DEF PROCESS_EXIT
<1> QED
  BY <1>3, <1>4, <1>5, <1>6, <1>7, <1>9, <1>10, <1>11 DEF Instruction

\* Every system call, the timer handler and every instruction keep the invariant.
THEOREM SpimInductive == SpimInv /\ [Next]_vars => SpimInv'
<1> SUFFICES ASSUME SpimInv, [Next]_vars PROVE SpimInv'
  OBVIOUS
<1>1. CASE INIT_SYSCALL
  BY <1>1, InitSyscallSpim
<1>2. CASE Instruction
  BY <1>2, InstructionSpim
<1>3. CASE SPIM_timerHandler
  BY <1>3, SwitchSpim
<1>4. CASE UNCHANGED vars
  BY <1>4 DEF vars, SpimInv, TypeOK, FrontRuns, MutexSafety, Front, At
<1> QED
  BY <1>1, <1>2, <1>3, <1>4 DEF Next

\* Hence it holds at every point, for any number of threads and any program.
THEOREM SpimInvariant == Spec => []SpimInv
  BY InitSpim, SpimInductive, PTL DEF Spec

\* No variable leaves its range.
THEOREM SpimTypeCorrect == Spec => []TypeOK
<1>1. SpimInv => TypeOK
  BY DEF SpimInv
<1> QED
  BY <1>1, SpimInvariant, PTL

\* The copy current_thread names the front of the deque, which alone may be in
\* state RUN, and IDs are unique, for any number of threads.
THEOREM FrontAlwaysRuns == Spec => []FrontRuns
<1>1. SpimInv => FrontRuns
  BY DEF SpimInv
<1> QED
  BY <1>1, SpimInvariant, PTL

\* At most one thread is between lock and unlock, and it owns the mutex, wherever
\* the timer interrupts and whichever threads exit.
THEOREM MutexIsSafe == Spec => []MutexSafety
<1>1. SpimInv => MutexSafety
  BY DEF SpimInv
<1> QED
  BY <1>1, SpimInvariant, PTL

-----------------------------------------------------------------------------
(* A switch ends *)

\* Thread 0 stays in the deque, and while the machine is on it is dead only after it has
\* returned: PTHREAD_EXIT would have ended the program.
EndInv ==
    /\ get_kernel_up => \E k \in 1 .. Len(threads) : threads[k].ID = 0
    /\ machine \in {"on", "hung"} =>
          \A k \in 1 .. Len(threads) :
             threads[k].ID = 0 /\ threads[k].state = "DEAD" => At(k) = "dummy"
    /\ machine = "hung" =>
          get_kernel_up /\ \A k \in 1 .. Len(threads) : threads[k].state = "DEAD"

\* Calls that keep the threads and their states.
LEMMA KeepsEnd ==
    ASSUME SpimInv, EndInv, Running, UNCHANGED <<threads, get_kernel_up>>,
           machine' \in {"on", "panic"}, PC = "dummy" => PC' = "dummy"
    PROVE  EndInv'
  BY DEF EndInv, At, Running

LEMMA CreateEnd ==
    ASSUME SpimInv, EndInv, Running, PC \in {"out", "in"}, PTHREAD_CREATE("out", PC)
    PROVE  EndInv'
<1> DEFINE n == Len(threads)
<1>1. /\ threads \in Seq(THREAD) /\ n \in Nat /\ n >= 1 /\ machine = "on"
  <2>1. threads \in Seq(THREAD) /\ threads # << >>
    BY TypeOKSeq DEF SpimInv, Running
  <2> QED
    BY <2>1 DEF Running
<1>2. PICK e : /\ threads' = Append(threads, e) /\ e.state = "READY"
               /\ UNCHANGED <<PC, get_kernel_up, machine>>
  <2> DEFINE called == [R EXCEPT !.a0 = EntryAddress]
             e == [ID |-> Len(threads), state |-> "READY", PC |-> "out",
                   R |-> [called EXCEPT !.v0 = called.a0]]
  <2>1. threads' = Append(threads, e) /\ UNCHANGED <<PC, get_kernel_up, machine>>
    BY DEF PTHREAD_CREATE
  <2> QED
    BY <2>1
<1>3. /\ Len(threads') = n + 1 /\ threads'[n + 1] = e
      /\ \A k \in 1 .. n : threads'[k] = threads[k]
      /\ \A k \in 1 .. n + 1 : k \in 1 .. n \/ k = n + 1
  BY <1>1, <1>2
<1>4. \A k \in 1 .. n : At(k)' = At(k)
  BY <1>2, <1>3 DEF At
<1>5. \E k \in 1 .. n : threads[k].ID = 0
  BY DEF EndInv, Running
<1>6. \E k \in 1 .. n + 1 : threads'[k].ID = 0
  BY <1>1, <1>3, <1>5
<1> HIDE DEF n
<1> QED
  BY <1>1, <1>2, <1>3, <1>4, <1>6 DEF EndInv, n

\* The places in S become DEAD, thread 0's only when it returns or the program ends.
LEMMA EndsEnd ==
    ASSUME SpimInv, EndInv, Running, NEW S,
           threads' = [k \in DOMAIN threads |->
                         IF k \in S THEN [threads[k] EXCEPT !.state = "DEAD"]
                         ELSE threads[k]],
           UNCHANGED get_kernel_up,
           \/ machine' = "off"
           \/ /\ machine' = "on" /\ PC' = PC
              /\ \A k \in S : k \in 1 .. Len(threads) => threads[k].ID # 0
           \/ machine' = "on" /\ PC' = "dummy" /\ S = {1}
    PROVE  EndInv'
<1> PICK L \in {Len(threads)} : TRUE
  OBVIOUS
<1>1. threads \in Seq(THREAD) /\ machine = "on" /\ get_kernel_up /\ L \in Nat
      /\ L = Len(threads) /\ DOMAIN threads = 1 .. L
  <2>1. threads \in Seq(THREAD)
    BY TypeOKSeq DEF SpimInv
  <2> QED
    BY <2>1 DEF Running
<1>2. \A k \in 1 .. L :
         /\ [threads[k] EXCEPT !.state = "DEAD"] \in THREAD
         /\ [threads[k] EXCEPT !.state = "DEAD"].ID = threads[k].ID
         /\ [threads[k] EXCEPT !.state = "DEAD"].PC = threads[k].PC
         /\ threads[k] \in THREAD
  <2>1. \A k \in 1 .. L : threads[k] \in THREAD
    BY <1>1
  <2> QED
    BY <2>1 DEF THREAD, Thread
<1>3. \A k \in 1 .. L :
         threads'[k] = IF k \in S THEN [threads[k] EXCEPT !.state = "DEAD"] ELSE threads[k]
  BY <1>1
<1>4. Len(threads') = L
  BY <1>1, <1>2
<1>5. \A k \in 1 .. L :
         /\ threads'[k].ID = threads[k].ID
         /\ threads'[k].PC = threads[k].PC
         /\ k \notin S => threads'[k] = threads[k]
  BY <1>2, <1>3
<1>6. \E k \in 1 .. L : threads'[k].ID = 0
  <2>1. PICK k \in 1 .. L : threads[k].ID = 0
    BY <1>1 DEF EndInv
  <2> QED
    BY <1>5, <2>1
<1>7. ASSUME machine' = "on", NEW k \in 1 .. L, threads'[k].ID = 0, threads'[k].state = "DEAD"
      PROVE  At(k)' = "dummy"
  <2>1. CASE PC' = PC /\ k \notin S
    <3>1. At(k) = "dummy"
      BY <1>1, <1>5, <1>7, <2>1 DEF EndInv
    <3> QED
      BY <1>5, <2>1, <3>1 DEF At
  <2>2. CASE PC' = "dummy" /\ S = {1}
    <3>1. CASE k = 1
      BY <2>2, <3>1 DEF At
    <3>2. CASE k # 1
      <4>1. At(k) = "dummy"
        BY <1>1, <1>5, <1>7, <2>2, <3>2 DEF EndInv
      <4> QED
        BY <1>5, <3>2, <4>1 DEF At
    <3> QED
      BY <3>1, <3>2
  <2> QED
    BY <1>1, <1>5, <1>7, <2>1, <2>2
<1> QED
  BY <1>1, <1>4, <1>6, <1>7 DEF EndInv

\* The loop that does not end starts with every thread dead.
LEMMA SwitchEnd ==
    ASSUME SpimInv, EndInv, SPIM_timerHandler
    PROVE  EndInv'
<1> PICK L \in {Len(threads)} : TRUE
  OBVIOUS
<1>1. /\ threads \in Seq(THREAD) /\ get_kernel_up /\ get_kernel_up' /\ machine = "on"
      /\ L = Len(threads) /\ L \in Nat /\ L >= 1 /\ threads # << >>
  <2>1. threads \in Seq(THREAD) /\ get_kernel_up
    BY TypeOKSeq DEF SpimInv, SPIM_timerHandler, TimerSwitches
  <2>2. threads # << >>
    BY <2>1 DEF SpimInv
  <2> QED
    BY <2>1, <2>2 DEF SPIM_timerHandler
<1>2. CASE \A k \in DOMAIN Save(threads) : Save(threads)[k].state = "DEAD"
  <2>1. machine' = "hung" /\ UNCHANGED <<threads, PC>>
    BY <1>2 DEF SPIM_timerHandler, context_switch
  <2>2. DOMAIN Save(threads) = 1 .. L
    BY <1>1 DEF Save
  <2>3. \A k \in 1 .. L : Save(threads)[k].state = threads[k].state
    BY <1>1, SpimDeque, YieldLemma DEF THREAD
  <2>4. \A k \in 1 .. L : threads[k].state = "DEAD"
    BY <1>2, <2>2, <2>3
  <2> QED
    BY <1>1, <2>1, <2>4 DEF EndInv, At
<1>3. CASE machine' = machine /\ \E g \in [1 .. L -> 1 .. L] : Turned(g, L)
  <2>1. PICK g \in [1 .. L -> 1 .. L] : Turned(g, L)
    BY <1>3
  <2>2. /\ Len(threads') = L
        /\ \A m \in 1 .. L : \E k \in 1 .. L : g[k] = m
        /\ \A k \in 1 .. L :
              /\ g[k] \in 1 .. L
              /\ threads'[k].ID = threads[g[k]].ID
              /\ At(k)' = At(g[k])
              /\ threads'[k].state = "DEAD" <=> threads[g[k]].state = "DEAD"
    <3>1. \A k \in 1 .. L : g[k] \in 1 .. L
      OBVIOUS
    <3> QED
      BY <2>1, <3>1 DEF Turned, TurnedIn, At
  <2>3. \E k \in 1 .. L : threads'[k].ID = 0
    <3>1. PICK m \in 1 .. L : threads[m].ID = 0
      BY <1>1 DEF EndInv
    <3>2. PICK k \in 1 .. L : g[k] = m
      BY <2>2
    <3> QED
      BY <2>2, <3>1, <3>2
  <2>4. \A m \in 1 .. L : threads[m].ID = 0 /\ threads[m].state = "DEAD" => At(m) = "dummy"
    BY <1>1 DEF EndInv
  <2>5. ASSUME NEW k \in 1 .. L, threads'[k].ID = 0, threads'[k].state = "DEAD"
        PROVE  At(k)' = "dummy"
    <3>1. /\ g[k] \in 1 .. L /\ At(k)' = At(g[k])
          /\ threads[g[k]].ID = 0 /\ threads[g[k]].state = "DEAD"
      BY <2>2, <2>5
    <3> QED
      BY <2>4, <3>1
  <2> QED
    BY <1>1, <1>3, <2>2, <2>3, <2>5 DEF EndInv
<1>4. CASE ~ \A k \in DOMAIN Save(threads) : Save(threads)[k].state = "DEAD"
  <2>1. machine' # "hung"
    BY <1>1, <1>4 DEF SPIM_timerHandler, context_switch
  <2> QED
    BY <1>1, <1>3, <2>1, SwitchTurns
<1> QED
  BY <1>2, <1>4

LEMMA EndInductive == SpimInv /\ EndInv /\ [Next]_vars => EndInv'
<1> SUFFICES ASSUME SpimInv, EndInv, [Next]_vars PROVE EndInv'
  OBVIOUS
<1>1. CASE INIT_SYSCALL
  <2>1. /\ Len(threads') = 1 /\ threads'[1].ID = 0 /\ threads'[1].state = "RUN"
        /\ machine' = "on"
    BY <1>1 DEF INIT_SYSCALL
  <2> QED
    BY <2>1 DEF EndInv
<1>2. CASE Instruction
  <2>1. /\ Running /\ machine = "on" /\ get_kernel_up /\ PC \in Labels
        /\ DOMAIN threads = 1 .. Len(threads) /\ 1 \in 1 .. Len(threads)
    <3>1. threads \in Seq(THREAD) /\ Running
      BY <1>2, TypeOKSeq DEF SpimInv, Instruction
    <3>2. threads # << >> /\ PC \in Labels
      BY <3>1 DEF SpimInv, Running, TypeOK
    <3> QED
      BY <3>1, <3>2 DEF Running
  <2>2. CASE Compute
    BY <2>1, <2>2, KeepsEnd DEF Compute, GoTo, Jump
  <2>3. CASE PC = "lock" /\ MUTEX_LOCK("in")
    BY <2>1, <2>3, KeepsEnd DEF MUTEX_LOCK
  <2>4. CASE PC = "join" /\ PTHREAD_JOIN("out")
    BY <2>1, <2>4, KeepsEnd DEF PTHREAD_JOIN
  <2>5. CASE PC \in {"out", "in"} /\ MUTEX_UNLOCK("out")
    BY <2>1, <2>5, KeepsEnd DEF MUTEX_UNLOCK
  <2>6. CASE PC \in {"out", "in"} /\ PTHREAD_CREATE("out", PC)
    BY <2>1, <2>6, CreateEnd
  <2>7. CASE ExitAll("off")
    <3>1. threads' = [k \in DOMAIN threads |->
                        IF k \in 1 .. Len(threads) THEN [threads[k] EXCEPT !.state = "DEAD"]
                        ELSE threads[k]]
      BY <2>1, <2>7 DEF ExitAll
    <3> QED
      BY <2>1, <2>7, <3>1, EndsEnd DEF ExitAll
  <2>8. CASE PTHREAD_EXIT(PC)
    <3>1. CASE current_thread.ID = 0
      BY <2>7, <2>8, <3>1 DEF PTHREAD_EXIT
    <3>2. CASE current_thread.ID # 0
      <4>1. \A k \in WithID(current_thread.ID) : threads[k].ID # 0
        BY <3>2 DEF WithID
      <4> QED
        BY <2>1, <2>8, <3>2, <4>1, EndsEnd DEF PTHREAD_EXIT
    <3> QED
      BY <3>1, <3>2
  <2>9. CASE PTHREAD_RETURN("dummy")
    <3>1. threads' = [k \in DOMAIN threads |->
                        IF k \in {1} THEN [threads[k] EXCEPT !.state = "DEAD"]
                        ELSE threads[k]]
      BY <2>1, <2>9 DEF PTHREAD_RETURN, SetState, SpimInv, TypeOK
    <3> QED
      BY <2>1, <2>9, <3>1, EndsEnd DEF PTHREAD_RETURN
  <2> QED
    BY <1>2, <2>2, <2>3, <2>4, <2>5, <2>6, <2>7, <2>8, <2>9 DEF Instruction, PROCESS_EXIT
<1>3. CASE SPIM_timerHandler
  BY <1>3, SwitchEnd
<1>4. CASE UNCHANGED vars
  BY <1>4 DEF vars, EndInv, At
<1> QED
  BY <1>1, <1>2, <1>3, <1>4 DEF Next

\* The loop of context_switch finds a thread to run, for any number of threads and any
\* program whose first thread does not return.
THEOREM SwitchesEnd == Spec => []SwitchEnds
<1>1. Init => EndInv
  <2> SUFFICES ASSUME Init PROVE EndInv
    OBVIOUS
  <2>1. Len(threads) = 0 /\ ~get_kernel_up /\ machine = "on"
    BY DEF Init, Boot
  <2> QED
    BY <2>1 DEF EndInv
<1>2. EndInv => SwitchEnds
  BY DEF EndInv, SwitchEnds, WithID
<1> QED
  BY <1>1, <1>2, EndInductive, SpimInvariant, PTL DEF Spec

-----------------------------------------------------------------------------
(* Every thread keeps its context *)

DequeIds == {threads[k].ID : k \in 1 .. Len(threads)}

\* What ContextOf finds for the thread at place k is where it is and its registers.
ContextsInv ==
    SpimInv /\ get_kernel_up =>
        /\ Contexts = [id \in DequeIds |-> Contexts[id]]
        /\ DOMAIN Contexts = DequeIds
        /\ current_thread.ID \in DequeIds
        /\ current_thread.ID = threads[1].ID
        /\ 1 \in 1 .. Len(threads)
        /\ \A k \in 1 .. Len(threads) :
              Contexts[threads[k].ID] = <<At(k), RAt(k)>>
        /\ \A j, k \in 1 .. Len(threads) : threads[j].ID = threads[k].ID => j = k

LEMMA ContextsLemma == ContextsInv
<1> SUFFICES ASSUME SpimInv, get_kernel_up
             PROVE  /\ Contexts = [id \in DequeIds |-> Contexts[id]]
                    /\ DOMAIN Contexts = DequeIds
                    /\ current_thread.ID \in DequeIds
                    /\ current_thread.ID = threads[1].ID
                    /\ 1 \in 1 .. Len(threads)
                    /\ \A k \in 1 .. Len(threads) :
                          Contexts[threads[k].ID] = <<At(k), RAt(k)>>
                    /\ \A j, k \in 1 .. Len(threads) :
                          threads[j].ID = threads[k].ID => j = k
  BY DEF ContextsInv
<1>1. 1 \in 1 .. Len(threads)
  <2>1. threads \in Seq(THREAD) /\ threads # << >>
    BY TypeOKSeq DEF SpimInv
  <2> QED
    BY <2>1
<1>2. /\ current_thread.ID = threads[1].ID
      /\ \A j, k \in 1 .. Len(threads) : threads[j].ID = threads[k].ID => j = k
  BY DEF SpimInv, FrontRuns, Front
<1>3. Contexts = [id \in DequeIds |-> ContextOf(id)]
  BY DEF Contexts, DequeIds
<1>4. ASSUME NEW k \in 1 .. Len(threads)
      PROVE  ContextOf(threads[k].ID) = <<At(k), RAt(k)>>
  <2>1. CASE k = 1
    BY <1>2, <2>1 DEF ContextOf, At, RAt
  <2>2. CASE k # 1
    <3>1. threads[k].ID # current_thread.ID
      BY <1>1, <1>2, <2>2
    <3>2. WithID(threads[k].ID) = {k}
      BY <1>2 DEF WithID
    <3>3. (CHOOSE m \in WithID(threads[k].ID) : TRUE) = k
      BY <3>2
    <3>4. ContextOf(threads[k].ID) = <<threads[k].PC, threads[k].R>>
      BY <3>1, <3>3, Zenon DEF ContextOf
    <3> QED
      BY <2>2, <3>4 DEF At, RAt
  <2> QED
    BY <2>1, <2>2
<1>5. \A k \in 1 .. Len(threads) : threads[k].ID \in DequeIds
  BY DEF DequeIds
<1> QED
  BY <1>1, <1>2, <1>3, <1>4, <1>5

AliveInv ==
    SpimInv /\ get_kernel_up =>
        \A id : id \in AliveIds <=>
           \E k \in 1 .. Len(threads) : threads[k].ID = id /\ threads[k].state # "DEAD"

LEMMA AliveLemma == AliveInv
<1>1. ASSUME SpimInv PROVE \A k \in 1 .. Len(threads) : threads[k].ID \in Ids
  BY <1>1, TypeOKSeq, EntryTypes DEF SpimInv
<1> QED
  BY <1>1 DEF AliveInv, AliveIds, WithID

\* The two in the next state.
LEMMA NextLemma == ContextsInv' /\ AliveInv'
  BY ContextsLemma, AliveLemma, PTL

LEMMA ContextsNext ==
    SpimInv' /\ get_kernel_up' =>
        /\ Contexts' = [id \in DequeIds' |-> Contexts'[id]]
        /\ DOMAIN Contexts' = DequeIds'
        /\ current_thread'.ID = threads'[1].ID
        /\ \A k \in 1 .. Len(threads') :
              Contexts'[threads'[k].ID] =
                 <<IF k = 1 THEN PC' ELSE threads'[k].PC,
                   IF k = 1 THEN R' ELSE threads'[k].R>>
  BY NextLemma DEF ContextsInv, At, RAt

LEMMA AliveNext ==
    SpimInv' /\ get_kernel_up' =>
        \A id : id \in AliveIds' <=>
           \E k \in 1 .. Len(threads') :
              threads'[k].ID = id /\ threads'[k].state # "DEAD"
  BY NextLemma DEF AliveInv

\* The entries behind the front keep their contexts, also when one is added.
LEMMA OthersKeep ==
    ASSUME SpimInv, SpimInv', get_kernel_up, get_kernel_up',
           Len(threads) <= Len(threads'),
           \A k \in 1 .. Len(threads) : /\ threads'[k].ID = threads[k].ID
                                        /\ threads'[k].PC = threads[k].PC
                                        /\ threads'[k].R = threads[k].R
    PROVE  /\ \A id \in DOMAIN Contexts \ {current_thread.ID} :
                 Contexts'[id] = Contexts[id]
           /\ Len(threads') = Len(threads) => DOMAIN Contexts' = DOMAIN Contexts
           /\ Len(threads') = Len(threads) /\ PC' = PC /\ R' = R => Contexts' = Contexts
<1>1. \A k \in 1 .. Len(threads) : k \in 1 .. Len(threads')
  <2>1. threads \in Seq(THREAD) /\ threads' \in Seq(THREAD)
    BY DEF SpimInv, TypeOK, THREAD, Thread
  <2>2. Len(threads) \in Nat /\ Len(threads') \in Nat
    BY <2>1
  <2> QED
    BY <2>2
<1>2. \A id \in DequeIds : \E k \in 1 .. Len(threads) : id = threads[k].ID
  BY DEF DequeIds
<1>3. ASSUME NEW k \in 1 .. Len(threads), k # 1 \/ (PC' = PC /\ R' = R)
      PROVE  Contexts'[threads[k].ID] = Contexts[threads[k].ID]
  <2>1. Contexts[threads[k].ID] = <<At(k), RAt(k)>>
    BY ContextsLemma DEF ContextsInv
  <2>2. Contexts'[threads[k].ID] = <<IF k = 1 THEN PC' ELSE threads[k].PC,
                                     IF k = 1 THEN R' ELSE threads[k].R>>
    BY <1>1, ContextsNext
  <2> QED
    BY <1>3, <2>1, <2>2 DEF At, RAt
<1>4. \A id \in DOMAIN Contexts \ {current_thread.ID} : Contexts'[id] = Contexts[id]
  BY <1>2, <1>3, ContextsLemma DEF ContextsInv
<1>5. Len(threads') = Len(threads) => DequeIds' = DequeIds
  BY DEF DequeIds
<1>6. Len(threads') = Len(threads) => DOMAIN Contexts' = DOMAIN Contexts
  BY <1>5, ContextsLemma, ContextsNext DEF ContextsInv
<1>7. ASSUME Len(threads') = Len(threads), PC' = PC, R' = R
      PROVE  Contexts' = Contexts
  <2>1. \A id \in DequeIds : Contexts'[id] = Contexts[id]
    BY <1>2, <1>3, <1>7
  <2> QED
    BY <1>5, <1>7, <2>1, ContextsLemma, ContextsNext DEF ContextsInv
<1> QED
  BY <1>4, <1>6, <1>7

LEMMA InitPromise == Init => Promise!Init
<1> SUFFICES ASSUME Init PROVE Promise!Init
  OBVIOUS
<1>1. /\ get_kernel_up = FALSE
      /\ current_thread.ID = 0
      /\ who = NoOwner
  BY DEF Init, Boot
<1>2. AliveIds = {0} /\ DOMAIN Contexts = {0} /\ 0 \in Ids
  BY <1>1, Constants DEF AliveIds, Contexts, Ids
<1> QED
  BY <1>1, <1>2 DEF Promise!Init

\* An instruction of a thread changes the context of that thread alone.
LEMMA CallerPromise ==
    ASSUME SpimInv, SpimInv', get_kernel_up,
           UNCHANGED <<threads, current_thread, get_kernel_up>>
    PROVE  /\ Promise!OwnContext
           /\ UNCHANGED <<AliveIds, current_thread.ID>>
<1>1. threads' = threads /\ get_kernel_up' /\ Len(threads) <= Len(threads')
  <2>1. threads \in Seq(THREAD)
    BY TypeOKSeq DEF SpimInv
  <2> QED
    BY <2>1
<1>2. AliveIds' = AliveIds
  BY DEF AliveIds, WithID
<1>3. /\ \A id \in DOMAIN Contexts \ {current_thread.ID} : Contexts'[id] = Contexts[id]
      /\ DOMAIN Contexts' = DOMAIN Contexts
  BY <1>1, OthersKeep
<1> QED
  BY <1>2, <1>3 DEF Promise!OwnContext

LEMMA CreatePromise ==
    ASSUME SpimInv, SpimInv', Running, PTHREAD_CREATE("out", PC)
    PROVE  \E id \in Ids : Promise!Create(id)
<1> PICK n \in {Len(threads)}, new \in {[ID |-> Len(threads), state |-> "READY",
            PC |-> "out", R |-> [[R EXCEPT !.a0 = EntryAddress] EXCEPT
                                    !.v0 = [R EXCEPT !.a0 = EntryAddress].a0]]} : TRUE
  OBVIOUS
<1>1. /\ threads \in Seq(THREAD) /\ n = Len(threads) /\ n \in Nat /\ n < MaxThreads
      /\ threads' = Append(threads, new)
      /\ new.ID = n /\ new.state = "READY"
      /\ get_kernel_up /\ get_kernel_up'
      /\ UNCHANGED <<current_thread, who, LO>>
  <2>1. threads \in Seq(THREAD)
    BY TypeOKSeq DEF SpimInv
  <2> QED
    BY <2>1 DEF PTHREAD_CREATE, Running
<1>2. /\ Len(threads') = n + 1
      /\ threads'[n + 1] = new
      /\ \A k \in 1 .. n : threads'[k] = threads[k]
      /\ \A k \in 1 .. n + 1 : k \in 1 .. n \/ k = n + 1
  BY <1>1
<1>3. n \in Ids /\ n \notin DequeIds
  BY <1>1, Constants DEF Ids, DequeIds, SpimInv
<1>4. DequeIds' = DequeIds \cup {n}
  <2>1. DequeIds' = {threads'[k].ID : k \in 1 .. n + 1}
    BY <1>2 DEF DequeIds
  <2>2. DequeIds = {threads[k].ID : k \in 1 .. n}
    BY <1>1 DEF DequeIds
  <2>3. n + 1 \in 1 .. n + 1 /\ \A k \in 1 .. n : k \in 1 .. n + 1
    BY <1>1
  <2> QED
    BY <1>1, <1>2, <2>1, <2>2, <2>3
<1>5. \A id \in DOMAIN Contexts \ {current_thread.ID} : Contexts'[id] = Contexts[id]
  <2>1. Len(threads) <= Len(threads')
    BY <1>1, <1>2
  <2> QED
    BY <1>1, <1>2, <2>1, OthersKeep
<1>6. AliveIds' = AliveIds \cup {n}
  <2>1. \A id : id \in AliveIds' <=> id \in AliveIds \/ id = n
    <3>1. n + 1 \in 1 .. n + 1 /\ \A k \in 1 .. n : k \in 1 .. n + 1
      BY <1>1
    <3> QED
      BY <1>1, <1>2, <3>1, AliveLemma, AliveNext DEF AliveInv
  <2> QED
    BY <2>1
<1>7. n \notin DOMAIN Contexts /\ DOMAIN Contexts' = DOMAIN Contexts \cup {n}
  BY <1>1, <1>3, <1>4, ContextsLemma, ContextsNext DEF ContextsInv
<1>8. Promise!Create(n)
  BY <1>1, <1>5, <1>6, <1>7 DEF Promise!Create
<1> QED
  BY <1>3, <1>8

\* The calls that end threads.
LEMMA EndPromise ==
    ASSUME SpimInv, SpimInv', get_kernel_up, NEW D \in SUBSET (1 .. Len(threads)),
           threads' = [k \in DOMAIN threads |->
                         IF k \in D THEN [threads[k] EXCEPT !.state = "DEAD"]
                         ELSE threads[k]],
           UNCHANGED <<who, get_kernel_up, LO>>, current_thread'.ID = current_thread.ID,
           \/ D = {1}
           \/ D = 1 .. Len(threads) /\ PC' = PC /\ R' = R
    PROVE  Promise!Exit \/ Promise!Shutdown
<1>1. /\ threads \in Seq(THREAD) /\ DOMAIN threads = 1 .. Len(threads)
      /\ Len(threads) \in Nat
      /\ \A k \in 1 .. Len(threads) : threads[k] \in THREAD
  <2>1. threads \in Seq(THREAD)
    BY TypeOKSeq DEF SpimInv
  <2> QED
    BY <2>1
<1>2. /\ Len(threads') = Len(threads)
      /\ \A k \in 1 .. Len(threads) :
            threads'[k] = IF k \in D THEN [threads[k] EXCEPT !.state = "DEAD"]
                          ELSE threads[k]
  BY <1>1
<1>3. ASSUME NEW k \in 1 .. Len(threads)
      PROVE  /\ threads'[k].ID = threads[k].ID
             /\ threads'[k].PC = threads[k].PC
             /\ threads'[k].R = threads[k].R
             /\ threads'[k].state = IF k \in D THEN "DEAD" ELSE threads[k].state
  <2>1. threads[k] \in THREAD
    BY <1>1
  <2> QED
    BY <1>2, <2>1 DEF THREAD, Thread
<1>4. /\ \A id \in DOMAIN Contexts \ {current_thread.ID} : Contexts'[id] = Contexts[id]
      /\ DOMAIN Contexts' = DOMAIN Contexts
      /\ PC' = PC /\ R' = R => Contexts' = Contexts
  <2>1. Len(threads) <= Len(threads')
    BY <1>1, <1>2
  <2> QED
    BY <1>2, <1>3, <2>1, OthersKeep
<1>5. \A id : id \in AliveIds' <=>
         \E k \in 1 .. Len(threads) :
            threads[k].ID = id /\ threads[k].state # "DEAD" /\ k \notin D
  BY <1>2, <1>3, AliveNext
<1>6. CASE D = {1}
  <2>1. \A id : id \in AliveIds' <=> id \in AliveIds /\ id # current_thread.ID
    BY <1>5, <1>6, AliveLemma, ContextsLemma DEF ContextsInv, AliveInv
  <2>2. AliveIds' = AliveIds \ {current_thread.ID}
    BY <2>1
  <2> QED
    BY <1>4, <2>2 DEF Promise!Exit, Promise!OwnContext
<1>7. CASE D = 1 .. Len(threads) /\ PC' = PC /\ R' = R
  <2>1. AliveIds' = {}
    BY <1>5, <1>7
  <2> QED
    BY <1>4, <1>7, <2>1 DEF Promise!Shutdown
<1> QED
  BY <1>6, <1>7

\* A turn of the deque changes no context, and goes to a thread that is alive.
LEMMA SwitchPromise ==
    ASSUME SpimInv, SpimInv', SPIM_timerHandler
    PROVE  Promise!Switch \/ UNCHANGED Promise!vars
<1> PICK L \in {Len(threads)} : TRUE
  OBVIOUS
<1>1. /\ get_kernel_up /\ get_kernel_up' /\ who' = who /\ L = Len(threads)
      /\ UNCHANGED <<get_kernel_up, LO>>
  BY DEF SPIM_timerHandler, TimerSwitches
<1>2. CASE UNCHANGED <<threads, current_thread, PC, R>>
  BY <1>1, <1>2 DEF Promise!vars, Contexts, ContextOf, AliveIds, WithID
<1>3. ASSUME NEW g \in [1 .. L -> 1 .. L], Turned(g, L)
      PROVE  Promise!Switch
  <2>1. /\ Len(threads') = L
        /\ \A k \in 1 .. L :
              /\ g[k] \in 1 .. L
              /\ threads'[k].ID = threads[g[k]].ID
              /\ (IF k = 1 THEN PC' ELSE threads'[k].PC) = At(g[k])
              /\ (IF k = 1 THEN R' ELSE threads'[k].R) = RAt(g[k])
              /\ threads'[k].state = "RUN" <=> k = 1
              /\ threads'[k].state = "DEAD" <=> threads[g[k]].state = "DEAD"
        /\ \A m \in 1 .. L : \E k \in 1 .. L : g[k] = m
    <3>1. \A k \in 1 .. L : g[k] \in 1 .. L
      BY <1>3
    <3> QED
      BY <1>3, <3>1 DEF Turned, TurnedIn
  <2>2. DequeIds' = DequeIds
    <3>1. DequeIds' = {threads'[k].ID : k \in 1 .. L}
      BY <2>1 DEF DequeIds
    <3>2. DequeIds = {threads[k].ID : k \in 1 .. L}
      BY <1>1 DEF DequeIds
    <3>3. ASSUME NEW k \in 1 .. L PROVE threads'[k].ID \in DequeIds
      <4>1. g[k] \in 1 .. L /\ threads'[k].ID = threads[g[k]].ID
        BY <2>1
      <4> QED
        BY <3>2, <4>1
    <3>4. ASSUME NEW m \in 1 .. L PROVE threads[m].ID \in DequeIds'
      <4>1. PICK k \in 1 .. L : g[k] = m
        BY <2>1
      <4>2. threads'[k].ID = threads[m].ID
        BY <2>1, <4>1
      <4> QED
        BY <3>1, <4>2
    <3> QED
      BY <3>1, <3>2, <3>3, <3>4
  <2>3. \A id \in DequeIds : Contexts'[id] = Contexts[id]
    <3> SUFFICES ASSUME NEW m \in 1 .. L
                 PROVE  Contexts'[threads[m].ID] = Contexts[threads[m].ID]
      BY <1>1 DEF DequeIds
    <3>1. PICK k \in 1 .. L : g[k] = m
      BY <2>1
    <3>2. Contexts'[threads'[k].ID] = <<At(m), RAt(m)>>
      <4>1. Contexts'[threads'[k].ID] = <<IF k = 1 THEN PC' ELSE threads'[k].PC,
                                          IF k = 1 THEN R' ELSE threads'[k].R>>
        BY <1>1, <2>1, ContextsNext
      <4> QED
        BY <2>1, <3>1, <4>1
    <3>3. Contexts[threads[m].ID] = <<At(m), RAt(m)>>
      BY <1>1, ContextsLemma DEF ContextsInv
    <3> QED
      BY <2>1, <3>1, <3>2, <3>3
  <2>4. Contexts' = Contexts
    BY <1>1, <2>2, <2>3, ContextsLemma, ContextsNext DEF ContextsInv
  <2>5. \A id : id \in AliveIds' <=> id \in AliveIds
    <3>1. \A id : id \in AliveIds' <=>
             \E k \in 1 .. L : threads'[k].ID = id /\ threads'[k].state # "DEAD"
      BY <1>1, <2>1, AliveNext
    <3>2. \A id : id \in AliveIds <=>
             \E k \in 1 .. L : threads[k].ID = id /\ threads[k].state # "DEAD"
      BY <1>1, AliveLemma DEF AliveInv
    <3>3. ASSUME NEW id, id \in AliveIds' PROVE id \in AliveIds
      <4>1. PICK k \in 1 .. L : threads'[k].ID = id /\ threads'[k].state # "DEAD"
        BY <3>1, <3>3
      <4>2. g[k] \in 1 .. L /\ threads[g[k]].ID = id /\ threads[g[k]].state # "DEAD"
        BY <2>1, <4>1
      <4> QED
        BY <3>2, <4>2
    <3>4. ASSUME NEW id, id \in AliveIds PROVE id \in AliveIds'
      <4>1. PICK m \in 1 .. L : threads[m].ID = id /\ threads[m].state # "DEAD"
        BY <3>2, <3>4
      <4>2. PICK k \in 1 .. L : g[k] = m
        BY <2>1
      <4>3. threads'[k].ID = id /\ threads'[k].state # "DEAD"
        BY <2>1, <4>1, <4>2
      <4> QED
        BY <3>1, <4>3
    <3> QED
      BY <3>3, <3>4
  <2>6. AliveIds' = AliveIds
    BY <2>5
  <2>7. current_thread'.ID \in AliveIds
    <3>1. 1 \in 1 .. L
      BY <1>1, ContextsLemma DEF ContextsInv
    <3>2. threads'[1].state = "RUN" /\ current_thread'.ID = threads'[1].ID
      BY <1>1, <2>1, <3>1, ContextsNext
    <3>3. threads'[1].ID \in AliveIds'
      BY <1>1, <2>1, <3>1, <3>2, AliveNext
    <3> QED
      BY <2>6, <3>2, <3>3
  <2> QED
    BY <1>1, <2>4, <2>6, <2>7 DEF Promise!Switch
<1> QED
  BY <1>1, <1>2, <1>3, SwitchTurns

LEMMA InstructionPromise ==
    ASSUME SpimInv, SpimInv', Instruction
    PROVE  Promise!Next \/ UNCHANGED Promise!vars
<1>1. get_kernel_up /\ Running
  BY DEF Instruction, Running
<1>2. ASSUME UNCHANGED <<threads, current_thread, get_kernel_up, who>>
      PROVE  Promise!Work
  BY <1>1, <1>2, CallerPromise DEF Promise!Work
<1>3. CASE Compute
  BY <1>2, <1>3 DEF Compute, GoTo, Jump, Promise!Next
<1>4. CASE MUTEX_LOCK("in")
  <2>1. CASE who = NoOwner
    BY <1>1, <1>4, <2>1, CallerPromise DEF MUTEX_LOCK, Promise!Lock, Promise!Next
  <2>2. CASE who # NoOwner
    BY <1>2, <1>4, <2>2 DEF MUTEX_LOCK, Promise!Next
  <2> QED
    BY <2>1, <2>2
<1>5. CASE PTHREAD_JOIN("out")
  BY <1>2, <1>5 DEF PTHREAD_JOIN, Promise!Next
<1>6. CASE MUTEX_UNLOCK("out")
  <2>1. CASE who = current_thread.ID
    BY <1>1, <1>6, <2>1, CallerPromise DEF MUTEX_UNLOCK, Promise!Unlock, Promise!Next
  <2>2. CASE who # current_thread.ID
    BY <1>2, <1>6, <2>2 DEF MUTEX_UNLOCK, Promise!Next
  <2> QED
    BY <2>1, <2>2
<1>7. CASE PTHREAD_CREATE("out", PC)
  BY <1>1, <1>7, CreatePromise DEF Promise!Next
<1>8. DOMAIN threads = 1 .. Len(threads)
  BY TypeOKSeq DEF SpimInv
<1>9. CASE ExitAll("off")
  <2>1. /\ threads' = [k \in DOMAIN threads |->
                         IF k \in 1 .. Len(threads) THEN [threads[k] EXCEPT !.state = "DEAD"]
                         ELSE threads[k]]
        /\ UNCHANGED <<current_thread, who, get_kernel_up, PC, R, LO>>
    BY <1>8, <1>9 DEF ExitAll
  <2>2. Promise!Exit \/ Promise!Shutdown
    BY <1>1, <2>1, EndPromise
  <2> QED
    BY <2>2 DEF Promise!Next
<1>10. 1 \in 1 .. Len(threads) /\ WithID(current_thread.ID) = {1}
  <2>1. /\ 1 \in 1 .. Len(threads) /\ current_thread.ID = threads[1].ID
        /\ \A j, k \in 1 .. Len(threads) : threads[j].ID = threads[k].ID => j = k
    BY <1>1, ContextsLemma DEF ContextsInv
  <2> QED
    BY <2>1 DEF WithID
<1>11. CASE PTHREAD_EXIT(PC)
  <2>1. CASE current_thread.ID = 0
    BY <1>9, <1>11, <2>1 DEF PTHREAD_EXIT
  <2>2. CASE current_thread.ID # 0
    <3>1. /\ threads' = [k \in DOMAIN threads |->
                           IF k \in {1} THEN [threads[k] EXCEPT !.state = "DEAD"]
                           ELSE threads[k]]
          /\ UNCHANGED <<current_thread, who, get_kernel_up, LO>>
      BY <1>10, <1>11, <2>2 DEF PTHREAD_EXIT
    <3>2. Promise!Exit \/ Promise!Shutdown
      BY <1>1, <1>10, <3>1, EndPromise
    <3> QED
      BY <3>2 DEF Promise!Next
  <2> QED
    BY <2>1, <2>2
<1>12. CASE PTHREAD_RETURN("dummy")
  <2>1. /\ threads' = [threads EXCEPT ![1] = [threads[1] EXCEPT !.state = "DEAD"]]
        /\ current_thread' = [current_thread EXCEPT !.state = "DEAD"]
        /\ UNCHANGED <<who, get_kernel_up, LO>>
    BY <1>12 DEF PTHREAD_RETURN, SetState
  <2>2. current_thread'.ID = current_thread.ID
    BY <2>1 DEF SpimInv, TypeOK
  <2>3. threads' = [k \in DOMAIN threads |->
                      IF k \in {1} THEN [threads[k] EXCEPT !.state = "DEAD"]
                      ELSE threads[k]]
    BY <1>8, <2>1 DEF SpimInv, TypeOK
  <2>4. Promise!Exit \/ Promise!Shutdown
    BY <1>1, <1>10, <2>1, <2>2, <2>3, EndPromise
  <2> QED
    BY <2>4 DEF Promise!Next
<1> QED
  BY <1>3, <1>4, <1>5, <1>6, <1>7, <1>9, <1>11, <1>12 DEF Instruction, PROCESS_EXIT

LEMMA StepPromise ==
    SpimInv /\ SpimInv' /\ [Next]_vars => [Promise!Next]_(Promise!vars)
<1> SUFFICES ASSUME SpimInv, SpimInv', [Next]_vars
             PROVE  Promise!Next \/ UNCHANGED Promise!vars
  OBVIOUS
<1>1. CASE INIT_SYSCALL
  <2>1. /\ ~get_kernel_up /\ get_kernel_up'
        /\ Len(threads') = 1 /\ threads'[1].ID = 0 /\ threads'[1].state = "RUN"
        /\ current_thread'.ID = 0 /\ current_thread.ID = 0 /\ who' = who
    BY <1>1 DEF INIT_SYSCALL, SpimInv
  <2>2. DequeIds' = {0}
    BY <2>1 DEF DequeIds
  <2>3. DOMAIN Contexts' = {0} /\ DOMAIN Contexts = {0}
    BY <2>1, <2>2, ContextsNext DEF Contexts
  <2>4. AliveIds' = {0} /\ AliveIds = {0}
    <3>1. \A id : id \in AliveIds' <=> id = 0
      BY <2>1, AliveNext
    <3> QED
      BY <2>1, <3>1 DEF AliveIds
  <2>5. Promise!Work
    BY <2>1, <2>3, <2>4 DEF Promise!Work, Promise!OwnContext
  <2> QED
    BY <2>5 DEF Promise!Next
<1>2. CASE Instruction
  BY <1>2, InstructionPromise
<1>3. CASE SPIM_timerHandler
  BY <1>3, SwitchPromise DEF Promise!Next
<1>4. CASE UNCHANGED vars
  BY <1>4 DEF vars, Promise!vars, Contexts, ContextOf, AliveIds, WithID
<1> QED
  BY <1>1, <1>2, <1>3, <1>4 DEF Next

\* The thread library implements ThreadMachine for any number of threads: every
\* step of a system call or of the timer handler is one that the abstract machine
\* may take, in which each thread has a program counter and general registers of
\* its own, and the multiplier's and floating-point registers are one set for all.
THEOREM ContextsAreKept == Spec => ImplementsThreadMachine
<1>1. Init => Promise!Init
  BY InitPromise
<1>2. SpimInv /\ SpimInv' /\ [Next]_vars => [Promise!Next]_(Promise!vars)
  BY StepPromise
<1> QED
  BY <1>1, <1>2, SpimInvariant, PTL DEF Spec, Promise!Spec, ImplementsThreadMachine
=============================================================================
