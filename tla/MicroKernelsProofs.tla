--------------------------- MODULE MicroKernelsProofs ---------------------------
(***************************************************************************)
(* Proofs about the second microkernel, for any number of rounds and any   *)
(* ticks of the timer: no piece of another line gets into a line that is   *)
(* printed with the mutex, whatever is announced without it, and the main  *)
(* thread gets past its joins when both threads are done.  The first       *)
(* microkernel prints nothing on this console and does not get to the      *)
(* label where the second one exits.                                       *)
(***************************************************************************)
EXTENDS MicroKernels, SpimOSProofs, SequenceTheorems

AfterBoth == {"joined_consumer", "consumer_id", "consumer_endline", "micro_kernel_2_exit",
              "exit"}
AfterFirst == AfterBoth \cup
              {"joined_producer", "producer_id", "producer_endline", "load_consumer",
               "join_consumer"}
MainLabels == AfterFirst \cup
              {"out", "create_producer", "save_producer", "create_consumer",
               "save_consumer", "pthread_join_2", "join_producer"}
Entries == {"producer_thread", "consumer_thread"}
Critical == {"in", "number", "product", "unlock"}
InLoop == {"loop", "count_down", "lock"} \cup Critical
AtEnd == {"thread_return", "dummy"}
WorkerLabels == Entries \cup InLoop \cup AtEnd
SecondLabels == MainLabels \cup WorkerLabels
SecondRegisters == [v0 : Int, a0 : Int, a1 : Int, t0 : Int]

Part == {"message", "number", "product", "announcement"}
Piece == [by : Ids, part : Part, number : Int]
Made == [{1, 2} -> Int]

-----------------------------------------------------------------------------
(* The console *)

\* What the next piece is put behind.
Cut(c) == IF K2!Ended(c) THEN << >> ELSE c

\* The two parts of InOrder: that of the numbers depends on the products made.
Order(c, n) ==
    /\ K2!Held(c, n) /\ (\A m \in 1 .. n - 1 : ~K2!Held(c, m)) => c[n].part = "message"
    /\ \A m \in 1 .. n - 1 :
          K2!Held(c, n) /\ K2!Held(c, m) /\ (\A i \in m + 1 .. n - 1 : ~K2!Held(c, i)) =>
             /\ c[n].part = K2!After[c[m].part]
             /\ c[n].by = c[m].by
    /\ ~K2!Held(c, n) /\ c[n].by # 0 => \A m \in 1 .. n - 1 : c[m].by # c[n].by
Numbered(c, made, n) ==
    c[n].part = "number" => c[n].number = made[c[n].by] + IF K2!Ended(c) THEN 0 ELSE 1

Printed(c, made) ==
    /\ c \in Seq(Piece)
    /\ \A n \in 1 .. Len(c) : Order(c, n) /\ Numbered(c, made, n)

\* No line is begun in this stretch; or that of the thread `id` is, as far as `what`.
NoLine(c) == \A n \in 1 .. Len(c) : ~K2!Held(c, n)
LastHeld(c, id, what) ==
    \E n \in 1 .. Len(c) : /\ c[n].by = id /\ c[n].part = what
                           /\ \A m \in n + 1 .. Len(c) : ~K2!Held(c, m)
InLine(c, id, what) ==
    /\ ~K2!Ended(c)
    /\ LastHeld(c, id, what)
    /\ \A n \in 1 .. Len(c) : K2!Held(c, n) => c[n].by = id

\* The mutex may be free; the thread `id` may announce.
Complete(c) == K2!Ended(c) \/ NoLine(c)
Silent(c, id) == K2!Ended(c) \/ \A n \in 1 .. Len(c) : c[n].by # id

-----------------------------------------------------------------------------
(* The inductive invariant of the second microkernel *)

Gone(id) == \A k \in 1 .. Len(threads) : threads[k].ID = id => threads[k].state = "DEAD"

\* The main thread, at a label and with its registers.
MainRow(label, r) ==
    /\ label \in MainLabels
    /\ label \in {"out", "create_producer"} => Len(threads) = 1
    /\ label \in {"save_producer", "create_consumer"} => Len(threads) = 2
    /\ label \notin {"out", "create_producer", "save_producer", "create_consumer"} =>
          Len(threads) = 3
    /\ label = "save_producer" => r.v0 = 1
    /\ label = "save_consumer" => r.v0 = 2
    /\ label \notin {"out", "create_producer", "save_producer"} => thread_id_array[1] = 1
    /\ label \notin {"out", "create_producer", "save_producer", "create_consumer",
                     "save_consumer"} => thread_id_array[2] = 2
    /\ label = "join_producer" => r.a0 = 1
    /\ label = "join_consumer" => r.a0 = 2
    /\ label \in AfterFirst => Gone(1)
    /\ label \in AfterBoth => Gone(2)

\* A producer or consumer that has made made[id] products.
WorkerRow(label, r, id, c, made) ==
    /\ label \in WorkerLabels
    /\ label \in Entries => made[id] = 0
    /\ label \in InLoop => r.a1 = Rounds - r.t0 /\ r.t0 < Rounds /\ r.t0 >= 0
    /\ label \in {"loop", "count_down", "unlock"} => made[id] = r.t0
    /\ label \in {"lock", "in", "number", "product"} => made[id] = r.t0 - 1
    /\ label \in AtEnd => made[id] = Rounds - 1
    /\ label \in Entries \cup {"loop", "unlock"} => Silent(c, id)

\* The line that the thread `id` is in the middle of when it is at the label.
Phase(label, id, c) ==
    /\ label \in {"in", "unlock"} => Complete(c)
    /\ label = "number" => InLine(c, id, "message")
    /\ label = "product" => InLine(c, id, "number")

DequeIDs ==
    /\ current_thread.ID = threads[1].ID /\ Len(threads) <= 3
    /\ \A j, k \in 1 .. Len(threads) : threads[j].ID = threads[k].ID => j = k
    /\ \A k \in 1 .. Len(threads) : threads[k].ID < Len(threads)
    /\ \A id \in 0 .. Len(threads) - 1 : \E k \in 1 .. Len(threads) : threads[k].ID = id

Rows ==
    \A k \in 1 .. Len(threads) :
        IF threads[k].ID = 0 THEN MainRow(At(k), RAt(k))
        ELSE /\ WorkerRow(At(k), RAt(k), threads[k].ID, console, products)
             /\ threads[k].state = "DEAD" => At(k) = "dummy"

Owner ==
    /\ who \in {NoOwner} \cup 0 .. Len(threads) - 1
    /\ who = NoOwner => Complete(console)
    /\ \A k \in 1 .. Len(threads) : /\ At(k) \in Critical <=> who = threads[k].ID
                                    /\ Phase(At(k), threads[k].ID, console)

ConsoleInv ==
    /\ Printed(console, products) /\ products \in Made
    /\ \A n \in 1 .. Len(console) : console[n].by < Len(threads)
    /\ \A id \in {1, 2} : id >= Len(threads) => products[id] = 0

UpInv ==
    /\ DequeOK(SecondLabels, SecondRegisters)
    /\ current_thread \in [ID : Ids, state : {"READY", "RUN", "DEAD"}]
    /\ thread_id_array \in Seq(Int) /\ Len(thread_id_array) = 2
    /\ DequeIDs
    /\ Rows
    /\ Owner
    /\ ConsoleInv

DownInv ==
    /\ threads = << >> /\ who = NoOwner /\ PC = "out" /\ R \in SecondRegisters
    /\ thread_id_array = <<0, 0>> /\ K2!NothingPrinted

SecondInv == IF get_kernel_up THEN UpInv ELSE DownInv

-----------------------------------------------------------------------------
(* What a call that prints does to the console *)

\* d is b with e behind it.
OneMore(b, e, d) ==
    /\ d \in Seq(Piece) /\ Len(b) \in Nat
    /\ Len(d) = Len(b) + 1
    /\ d[Len(b) + 1] = e
    /\ \A k \in 1 .. Len(b) : d[k] = b[k]
    /\ K2!Ended(d) <=> e.part = "product"

LEMMA AppendLemma ==
    ASSUME NEW b \in Seq(Piece), NEW e \in Piece
    PROVE  OneMore(b, e, Append(b, e))
<1> DEFINE d == Append(b, e)
<1>1. /\ d \in Seq(Piece) /\ Len(b) \in Nat
      /\ Len(d) = Len(b) + 1
      /\ d[Len(b) + 1] = e
      /\ \A k \in 1 .. Len(b) : d[k] = b[k]
  OBVIOUS
<1>2. K2!Ended(d) <=> e.part = "product"
  BY <1>1 DEF K2!Ended
<1> QED
  BY <1>1, <1>2 DEF OneMore

\* The pieces that are there stay in order.
LEMMA OldOrder ==
    ASSUME NEW b, NEW e, NEW d, OneMore(b, e, d), NEW n \in 1 .. Len(b), Order(b, n)
    PROVE  Order(d, n)
<1>1. \A m \in 1 .. n : m \in 1 .. Len(b) /\ d[m] = b[m]
  BY DEF OneMore
<1>2. \A m \in 1 .. n : K2!Held(d, m) <=> K2!Held(b, m)
  BY <1>1 DEF K2!Held
<1>3. /\ n \in 1 .. n /\ \A m \in 1 .. n - 1 : m \in 1 .. n
      /\ \A m \in 1 .. n - 1 : \A i \in m + 1 .. n - 1 : i \in 1 .. n
  BY DEF OneMore
<1> QED
  BY <1>1, <1>2, <1>3 DEF Order

\* A whole line is cut off.
CutOf(c, made, b) ==
    /\ Printed(b, made) /\ ~K2!Ended(b)
    /\ \A k \in 1 .. Len(b) : k \in 1 .. Len(c) /\ b[k] = c[k]
    /\ Complete(c) => NoLine(b)
    /\ \A id : Silent(c, id) => \A n \in 1 .. Len(b) : b[n].by # id
    /\ \A id, what : InLine(c, id, what) => InLine(b, id, what)

LEMMA CutLemma ==
    ASSUME NEW c, NEW made, Printed(c, made)
    PROVE  CutOf(c, made, Cut(c))
<1>1. CASE K2!Ended(c)
  <2>1. Cut(c) = << >> /\ Len(<< >>) = 0 /\ << >> \in Seq(Piece)
    BY <1>1 DEF Cut
  <2>2. ~K2!Ended(<< >>)
    BY <2>1 DEF K2!Ended
  <2>3. NoLine(<< >>) /\ Printed(<< >>, made)
    BY <2>1 DEF NoLine, Printed
  <2> QED
    BY <1>1, <2>1, <2>2, <2>3 DEF CutOf, InLine
<1>2. CASE ~K2!Ended(c)
  <2>1. Cut(c) = c
    BY <1>2 DEF Cut
  <2> QED
    BY <1>2, <2>1 DEF CutOf, Complete, Silent
<1> QED
  BY <1>1, <1>2

\* What the others rely on when a thread announces.
Kept(c, d) ==
    /\ Complete(c) => Complete(d)
    /\ \A id, what : what \in {"message", "number"} /\ InLine(c, id, what) => InLine(d, id, what)

\* The announcement is printed; it splits a line, and breaks none.
Announced(c, made, e, d) ==
    /\ Printed(d, made)
    /\ Kept(c, d)
    /\ \A id : id # e.by /\ Silent(c, id) => Silent(d, id)
    /\ \A k \in 1 .. Len(d) : d[k] = e \/ \E j \in 1 .. Len(c) : d[k] = c[j]

LEMMA AnnounceLemma ==
    ASSUME NEW c, NEW made, Printed(c, made), NEW e \in Piece, e.part = "announcement",
           e.by = 0 \/ Silent(c, e.by)
    PROVE  Announced(c, made, e, Append(Cut(c), e))
<1> PICK b \in {Cut(c)}, d \in {Append(Cut(c), e)} : TRUE
  OBVIOUS
<1>1. /\ b = Cut(c) /\ d = Append(b, e) /\ b \in Seq(Piece) /\ CutOf(c, made, b)
      /\ OneMore(b, e, d)
  <2>1. CutOf(c, made, b)
    BY CutLemma
  <2>2. b \in Seq(Piece)
    BY <2>1 DEF CutOf, Printed
  <2> QED
    BY <2>1, <2>2, AppendLemma
<1>2. /\ ~K2!Ended(d) /\ ~K2!Ended(b) /\ Len(b) \in Nat
      /\ d \in Seq(Piece) /\ Len(d) = Len(b) + 1 /\ d[Len(b) + 1] = e
      /\ \A k \in 1 .. Len(b) : d[k] = b[k]
      /\ \A k \in 1 .. Len(d) : k \in 1 .. Len(b) \/ k = Len(b) + 1
      /\ \A k \in 1 .. Len(b) : k \in 1 .. Len(d)
  BY <1>1 DEF OneMore, CutOf
<1>3. /\ ~K2!Held(d, Len(b) + 1)
      /\ \A k \in 1 .. Len(b) : K2!Held(d, k) <=> K2!Held(b, k)
  BY <1>2 DEF K2!Held
<1>4. ASSUME NEW n \in 1 .. Len(d) PROVE Order(d, n) /\ Numbered(d, made, n)
  <2>1. CASE n \in 1 .. Len(b)
    <3>1. Order(b, n) /\ Numbered(b, made, n)
      BY <1>1, <2>1 DEF CutOf, Printed
    <3>2. Order(d, n)
      BY <1>1, <2>1, <3>1, OldOrder
    <3> QED
      BY <1>2, <2>1, <3>1, <3>2 DEF Numbered
  <2>2. CASE n = Len(b) + 1
    <3>1. e.by # 0 => \A m \in 1 .. n - 1 : d[m].by # e.by
      <4>1. n - 1 = Len(b)
        BY <1>2, <2>2
      <4> QED
        BY <1>1, <1>2, <4>1 DEF CutOf
    <3>2. Order(d, n)
      BY <1>2, <1>3, <2>2, <3>1 DEF Order
    <3> QED
      BY <1>2, <2>2, <3>2 DEF Numbered
  <2> QED
    BY <1>2, <2>1, <2>2
<1>5. Complete(c) => Complete(d)
  BY <1>1, <1>2, <1>3 DEF CutOf, Complete, NoLine
<1>6. ASSUME NEW id, NEW what, InLine(c, id, what) PROVE InLine(d, id, what)
  <2>1. InLine(b, id, what)
    BY <1>1, <1>6 DEF CutOf
  <2>2. PICK n \in 1 .. Len(b) : /\ b[n].by = id /\ b[n].part = what
                                 /\ \A m \in n + 1 .. Len(b) : ~K2!Held(b, m)
    BY <2>1 DEF InLine, LastHeld
  <2>3. \A m \in n + 1 .. Len(d) : m = Len(b) + 1 \/ (m \in n + 1 .. Len(b) /\ m \in 1 .. Len(b))
    BY <1>2
  <2>4. \A m \in n + 1 .. Len(d) : ~K2!Held(d, m)
    BY <1>3, <2>2, <2>3
  <2>5. LastHeld(d, id, what)
    BY <1>2, <2>2, <2>4 DEF LastHeld
  <2>6. \A k \in 1 .. Len(d) : K2!Held(d, k) => d[k].by = id
    BY <1>2, <1>3, <2>1 DEF InLine
  <2> QED
    BY <1>2, <2>5, <2>6 DEF InLine
<1>7. ASSUME NEW id, id # e.by, Silent(c, id) PROVE Silent(d, id)
  <2>1. \A n \in 1 .. Len(b) : b[n].by # id
    BY <1>1, <1>7 DEF CutOf
  <2> QED
    BY <1>2, <1>7, <2>1 DEF Silent
<1>8. \A k \in 1 .. Len(d) : d[k] = e \/ \E j \in 1 .. Len(c) : d[k] = c[j]
  BY <1>1, <1>2 DEF CutOf
<1> QED
  BY <1>1, <1>2, <1>4, <1>5, <1>6, <1>7, <1>8 DEF Announced, Printed, Kept

\* The owner of the mutex prints a piece of its line.
GoesOn(c, made, e, d, more) ==
    /\ Printed(d, more)
    /\ IF e.part = "product" THEN K2!Ended(d) ELSE InLine(d, e.by, e.part)
    /\ \A id : id # e.by /\ Silent(c, id) => Silent(d, id)
    /\ \A k \in 1 .. Len(d) : d[k] = e \/ \E j \in 1 .. Len(c) : d[k] = c[j]

LEMMA LineLemma ==
    ASSUME NEW c, NEW made, Printed(c, made), NEW e \in Piece, NEW more,
           \/ e.part = "message" /\ Complete(c) /\ more = made
           \/ /\ e.part = "number" /\ InLine(c, e.by, "message") /\ more = made
              /\ e.number = made[e.by] + 1
           \/ /\ e.part = "product" /\ InLine(c, e.by, "number")
              /\ made[e.by] \in Int /\ more[e.by] = made[e.by] + 1
    PROVE  GoesOn(c, made, e, Append(Cut(c), e), more)
<1> PICK b \in {Cut(c)}, d \in {Append(Cut(c), e)} : TRUE
  OBVIOUS
<1>1. /\ b = Cut(c) /\ d = Append(b, e) /\ b \in Seq(Piece) /\ CutOf(c, made, b)
      /\ OneMore(b, e, d)
  <2>1. CutOf(c, made, b)
    BY CutLemma
  <2>2. b \in Seq(Piece)
    BY <2>1 DEF CutOf, Printed
  <2> QED
    BY <2>1, <2>2, AppendLemma
<1>2. /\ ~K2!Ended(b) /\ Len(b) \in Nat
      /\ K2!Ended(d) <=> e.part = "product"
      /\ d \in Seq(Piece) /\ Len(d) = Len(b) + 1 /\ d[Len(b) + 1] = e
      /\ \A k \in 1 .. Len(b) : d[k] = b[k]
      /\ \A k \in 1 .. Len(d) : k \in 1 .. Len(b) \/ k = Len(b) + 1
      /\ Len(b) + 1 \in 1 .. Len(d)
  BY <1>1 DEF OneMore, CutOf
<1>3. /\ K2!Held(d, Len(b) + 1)
      /\ \A k \in 1 .. Len(b) : K2!Held(d, k) <=> K2!Held(b, k)
  BY <1>2 DEF K2!Held
<1>4. \/ e.part = "message" /\ NoLine(b) /\ more = made
      \/ /\ e.part = "number" /\ InLine(b, e.by, "message") /\ more = made
         /\ e.number = made[e.by] + 1
      \/ /\ e.part = "product" /\ InLine(b, e.by, "number")
         /\ made[e.by] \in Int /\ more[e.by] = made[e.by] + 1
  BY <1>1 DEF CutOf
\* The one piece that the new one can follow.
<1>5. ASSUME NEW what, InLine(b, e.by, what), NEW m \in 1 .. Len(b), K2!Held(b, m),
             \A i \in m + 1 .. Len(b) : ~K2!Held(b, i), what # "announcement"
      PROVE  b[m].part = what /\ b[m].by = e.by
  <2>1. PICK n \in 1 .. Len(b) : /\ b[n].by = e.by /\ b[n].part = what
                                 /\ \A i \in n + 1 .. Len(b) : ~K2!Held(b, i)
    BY <1>5 DEF InLine, LastHeld
  <2>2. K2!Held(b, n)
    BY <1>5, <2>1 DEF K2!Held
  <2>3. ~(n \in m + 1 .. Len(b)) /\ ~(m \in n + 1 .. Len(b))
    BY <1>5, <2>1, <2>2
  <2>4. n = m
    BY <1>2, <2>3
  <2> QED
    BY <2>1, <2>4
<1>6. Order(d, Len(b) + 1)
  <2>1. (Len(b) + 1) - 1 = Len(b)
    BY <1>2
  <2>2. \A m \in 1 .. Len(b) : \A i \in m + 1 .. Len(b) : i \in 1 .. Len(b)
    BY <1>2
  <2>3. CASE e.part = "message"
    <3>1. \A m \in 1 .. Len(b) : ~K2!Held(d, m)
      BY <1>3, <1>4, <2>3 DEF NoLine
    <3> QED
      BY <1>2, <1>3, <2>1, <2>3, <3>1 DEF Order
  <2>4. CASE e.part \in {"number", "product"}
    <3> PICK what \in {IF e.part = "number" THEN "message" ELSE "number"} : TRUE
      OBVIOUS
    <3>1. InLine(b, e.by, what) /\ what # "announcement" /\ K2!After[what] = e.part
      BY <1>4, <2>4 DEF K2!After
    <3>2. PICK n \in 1 .. Len(b) : b[n].part = what
      BY <3>1 DEF InLine, LastHeld
    <3>3. K2!Held(d, n)
      BY <1>3, <3>1, <3>2 DEF K2!Held
    <3>4. ASSUME NEW m \in 1 .. Len(b), K2!Held(d, m),
                 \A i \in m + 1 .. Len(b) : ~K2!Held(d, i)
          PROVE  e.part = K2!After[d[m].part] /\ e.by = d[m].by
      <4>1. K2!Held(b, m) /\ \A i \in m + 1 .. Len(b) : ~K2!Held(b, i)
        BY <1>3, <2>2, <3>4
      <4>2. b[m].part = what /\ b[m].by = e.by
        BY <1>5, <3>1, <4>1
      <4> QED
        BY <1>2, <3>1, <4>2
    <3> QED
      BY <1>2, <1>3, <2>1, <3>3, <3>4 DEF Order
  <2> QED
    BY <1>4, <2>3, <2>4
<1>7. ASSUME NEW n \in 1 .. Len(d) PROVE Order(d, n)
  <2>1. CASE n \in 1 .. Len(b)
    <3>1. Order(b, n)
      BY <1>1, <2>1 DEF CutOf, Printed
    <3> QED
      BY <1>1, <2>1, <3>1, OldOrder
  <2> QED
    BY <1>2, <1>6, <2>1
<1>8. ASSUME NEW n \in 1 .. Len(d) PROVE Numbered(d, more, n)
  <2>1. CASE n \in 1 .. Len(b)
    <3>1. Numbered(b, made, n) /\ d[n] = b[n]
      BY <1>1, <1>2, <2>1 DEF CutOf, Printed
    <3>2. CASE e.part # "product"
      BY <1>2, <1>4, <3>1, <3>2 DEF Numbered
    <3>3. CASE e.part = "product"
      <4>1. b[n].part = "number" => b[n].by = e.by
        BY <1>4, <2>1, <3>3 DEF InLine, K2!Held
      <4>2. b[n].part = "number" => b[n].number = made[e.by] + 1
        BY <1>2, <3>1, <4>1 DEF Numbered
      <4>3. made[e.by] + 1 = more[e.by] + 0
        BY <1>4, <3>3
      <4> QED
        BY <1>2, <3>1, <3>3, <4>1, <4>2, <4>3 DEF Numbered
    <3> QED
      BY <3>2, <3>3
  <2>2. CASE n = Len(b) + 1
    BY <1>2, <1>4, <2>2 DEF Numbered
  <2> QED
    BY <1>2, <2>1, <2>2
<1>9. IF e.part = "product" THEN K2!Ended(d) ELSE InLine(d, e.by, e.part)
  <2>1. CASE e.part # "product"
    <3>1. \A m \in Len(b) + 2 .. Len(d) : FALSE
      BY <1>2
    <3>2. LastHeld(d, e.by, e.part)
      <4>1. (Len(b) + 1) + 1 = Len(b) + 2
        BY <1>2
      <4> QED
        BY <1>2, <3>1, <4>1 DEF LastHeld
    <3>3. \A k \in 1 .. Len(b) : K2!Held(b, k) => b[k].by = e.by
      BY <1>4, <2>1 DEF NoLine, InLine
    <3>4. \A k \in 1 .. Len(d) : K2!Held(d, k) => d[k].by = e.by
      BY <1>2, <1>3, <3>3
    <3> QED
      BY <1>2, <2>1, <3>2, <3>4 DEF InLine
  <2> QED
    BY <1>2, <2>1
<1>10. ASSUME NEW id, id # e.by, Silent(c, id) PROVE Silent(d, id)
  <2>1. \A n \in 1 .. Len(b) : b[n].by # id
    BY <1>1, <1>10 DEF CutOf
  <2> QED
    BY <1>2, <1>10, <2>1 DEF Silent
<1>11. \A k \in 1 .. Len(d) : d[k] = e \/ \E j \in 1 .. Len(c) : d[k] = c[j]
  BY <1>1, <1>2 DEF CutOf
<1> QED
  BY <1>1, <1>2, <1>7, <1>8, <1>9, <1>10, <1>11 DEF GoesOn, Printed

-----------------------------------------------------------------------------
(* The steps of the second microkernel *)

\* The main thread and the other two have no label in common.
LEMMA LabelsLemma ==
    /\ \A l \in MainLabels : l \notin WorkerLabels /\ l \notin Critical /\ l # "dummy"
    /\ MainLabels \subseteq SecondLabels /\ WorkerLabels \subseteq SecondLabels
    /\ Critical \subseteq InLoop /\ InLoop \subseteq WorkerLabels
    /\ \A l \in Entries \cup AtEnd \cup {"loop", "lock"} : l \in WorkerLabels /\ l \notin Critical
  BY DEF MainLabels, AfterFirst, AfterBoth, WorkerLabels, SecondLabels, Entries, InLoop, AtEnd,
         Critical

\* What the invariant says of the thread that runs.
CallerInv ==
    /\ Len(threads) \in Nat /\ 1 \in 1 .. Len(threads)
    /\ \A k \in 1 .. Len(threads) : /\ threads[k].ID \in Ids
                                    /\ k # 1 => threads[k].ID # threads[1].ID
    /\ current_thread.ID = threads[1].ID /\ current_thread.ID \in Ids /\ 0 \in Ids
    /\ current_thread.ID < Len(threads)
    /\ PC \in SecondLabels /\ R \in SecondRegisters
    /\ IF current_thread.ID = 0 THEN MainRow(PC, R)
       ELSE /\ WorkerRow(PC, R, current_thread.ID, console, products)
            /\ threads[1].state = "DEAD" => PC = "dummy"
    /\ PC \in Critical <=> who = current_thread.ID
    /\ Phase(PC, current_thread.ID, console)

LEMMA CallerLemma == UpInv => CallerInv
<1> SUFFICES ASSUME UpInv PROVE CallerInv
  OBVIOUS
<1>1. /\ threads \in Seq(Thread(SecondLabels, SecondRegisters)) /\ threads # << >>
      /\ DequeIDs /\ Rows /\ Owner
      /\ PC \in SecondLabels /\ R \in SecondRegisters
  BY DEF UpInv, DequeOK
<1>2. Len(threads) \in Nat /\ 1 \in 1 .. Len(threads)
  BY <1>1
<1>3. \A k \in 1 .. Len(threads) : threads[k].ID \in Ids
  BY <1>1, EntryTypesOf
<1>4. /\ current_thread.ID = threads[1].ID
      /\ \A k \in 1 .. Len(threads) : k # 1 => threads[k].ID # threads[1].ID
      /\ threads[1].ID < Len(threads)
  BY <1>1, <1>2 DEF DequeIDs
<1>5. At(1) = PC /\ RAt(1) = R
  BY DEF At, RAt
<1>6. 0 \in Ids
  BY Constants DEF Ids
<1>7. IF current_thread.ID = 0 THEN MainRow(PC, R)
      ELSE /\ WorkerRow(PC, R, current_thread.ID, console, products)
           /\ threads[1].state = "DEAD" => PC = "dummy"
  BY <1>1, <1>2, <1>4, <1>5 DEF Rows
<1>8. /\ PC \in Critical <=> who = current_thread.ID
      /\ Phase(PC, current_thread.ID, console)
  BY <1>1, <1>2, <1>4, <1>5 DEF Owner
<1> QED
  BY <1>1, <1>2, <1>3, <1>4, <1>6, <1>7, <1>8 DEF CallerInv

\* A step of one thread leaves the deque alone, and what the invariant says of the
\* others: without the mutex it prints only what they can stand (Kept).
CallerStep ==
    /\ UNCHANGED <<threads, current_thread>>
    /\ PC' \in SecondLabels /\ R' \in SecondRegisters
    /\ thread_id_array' \in Seq(Int) /\ Len(thread_id_array') = 2
    /\ IF current_thread.ID = 0 THEN MainRow(PC, R)'
       ELSE /\ WorkerRow(PC', R', current_thread.ID, console', products')
            /\ threads[1].state = "DEAD" => PC' = "dummy"
            /\ UNCHANGED thread_id_array
    /\ \/ who' = who
       \/ who = NoOwner /\ who' = current_thread.ID
       \/ who = current_thread.ID /\ who' = NoOwner
    /\ PC' \in Critical <=> who' = current_thread.ID
    /\ who' = NoOwner => Complete(console')
    /\ Phase(PC', current_thread.ID, console')
    /\ Kept(console, console') \/ who = current_thread.ID
    /\ \A id \in Ids \ {current_thread.ID} :
          /\ products'[id] = products[id]
          /\ Silent(console, id) => Silent(console', id)
    /\ ConsoleInv'

LEMMA CallerKeeps == UpInv /\ CallerStep => UpInv'
<1> SUFFICES ASSUME UpInv, CallerStep PROVE UpInv'
  OBVIOUS
<1>1. CallerInv
  BY CallerLemma
<1>2. UNCHANGED <<threads, current_thread>>
  BY DEF CallerStep
<1>3. DequeOK(SecondLabels, SecondRegisters)'
  BY <1>2 DEF UpInv, CallerStep, DequeOK
<1>4. DequeIDs'
  BY <1>2 DEF UpInv, DequeIDs
<1>5. \A k \in 1 .. Len(threads) : k # 1 => At(k)' = At(k) /\ RAt(k)' = RAt(k)
  BY <1>2 DEF At, RAt
<1>6. At(1)' = PC' /\ RAt(1)' = R'
  BY DEF At, RAt
<1>7. Rows'
  <2> SUFFICES ASSUME NEW k \in 1 .. Len(threads)
               PROVE  IF threads[k].ID = 0 THEN MainRow(At(k), RAt(k))'
                      ELSE /\ WorkerRow(At(k)', RAt(k)', threads[k].ID, console', products')
                           /\ threads[k].state = "DEAD" => At(k)' = "dummy"
    BY <1>2 DEF Rows
  <2>1. CASE k = 1
    <3>1. MainRow(At(1), RAt(1))' <=> MainRow(PC, R)'
      BY <1>6 DEF MainRow, Gone
    <3> QED
      BY <1>1, <1>6, <2>1, <3>1 DEF CallerStep, CallerInv
  <2>2. CASE k # 1
    <3>1. At(k)' = At(k) /\ RAt(k)' = RAt(k) /\ threads[k].ID \in Ids \ {current_thread.ID}
      BY <1>1, <1>5, <2>2 DEF CallerInv
    <3>2. IF threads[k].ID = 0 THEN MainRow(At(k), RAt(k))
          ELSE /\ WorkerRow(At(k), RAt(k), threads[k].ID, console, products)
               /\ threads[k].state = "DEAD" => At(k) = "dummy"
      BY DEF UpInv, Rows
    <3>3. CASE threads[k].ID = 0
      <4>1. UNCHANGED thread_id_array
        BY <3>1, <3>3 DEF CallerStep
      <4> QED
        BY <1>2, <3>1, <3>2, <3>3, <4>1 DEF MainRow, Gone
    <3>4. CASE threads[k].ID # 0
      <4>1. /\ products'[threads[k].ID] = products[threads[k].ID]
            /\ Silent(console, threads[k].ID) => Silent(console', threads[k].ID)
        BY <3>1 DEF CallerStep
      <4>2. WorkerRow(At(k), RAt(k), threads[k].ID, console', products')
        BY <3>2, <3>4, <4>1 DEF WorkerRow
      <4> QED
        BY <3>1, <3>2, <3>4, <4>2
    <3> QED
      BY <3>3, <3>4
  <2> QED
    BY <2>1, <2>2
<1>8. Owner'
  <2>1. who' \in {NoOwner} \cup 0 .. Len(threads) - 1
    BY <1>1 DEF UpInv, Owner, CallerStep, CallerInv, Ids
  <2>2. ASSUME NEW k \in 1 .. Len(threads)
        PROVE  /\ At(k)' \in Critical <=> who' = threads[k].ID
               /\ Phase(At(k)', threads[k].ID, console')
    <3>1. CASE k = 1
      BY <1>1, <1>6, <3>1 DEF CallerStep, CallerInv
    <3>2. CASE k # 1
      <4>1. /\ At(k)' = At(k) /\ threads[k].ID \in Ids
            /\ threads[k].ID # current_thread.ID /\ threads[k].ID # NoOwner
        BY <1>1, <1>5, <3>2, Constants DEF CallerInv, Ids
      <4>2. /\ At(k) \in Critical <=> who = threads[k].ID
            /\ Phase(At(k), threads[k].ID, console)
        BY DEF UpInv, Owner
      <4>3. At(k)' \in Critical <=> who' = threads[k].ID
        BY <4>1, <4>2 DEF CallerStep
      <4>4. CASE Kept(console, console')
        <5>1. Phase(At(k)', threads[k].ID, console')
          BY <4>1, <4>2, <4>4 DEF Phase, Kept
        <5> QED
          BY <4>3, <5>1
      <4>5. CASE who = current_thread.ID
        <5>1. At(k) \notin Critical
          BY <4>1, <4>2, <4>5
        <5> QED
          BY <4>1, <4>3, <5>1 DEF Phase, Critical
      <4> QED
        BY <4>3, <4>4, <4>5 DEF CallerStep
    <3> QED
      BY <3>1, <3>2
  <2> QED
    BY <1>2, <2>1, <2>2 DEF Owner, CallerStep
<1> QED
  BY <1>2, <1>3, <1>4, <1>7, <1>8 DEF UpInv, CallerStep

\* The main thread creates a thread, with an ID that nothing was printed by.
LEMMA CreateKeeps ==
    ASSUME UpInv, NEW entry \in Entries, NEW next \in {"save_producer", "save_consumer"},
           \/ PC = "create_producer" /\ next = "save_producer"
           \/ PC = "create_consumer" /\ next = "save_consumer",
           PTHREAD_CREATE(entry, next),
           UNCHANGED <<thread_id_array, console, products>>
    PROVE  UpInv'
<1> PICK n \in {Len(threads)}, new \in {[ID |-> Len(threads), state |-> "READY",
            PC |-> entry, R |-> [[R EXCEPT !.a0 = EntryAddress] EXCEPT
                                    !.v0 = [R EXCEPT !.a0 = EntryAddress].a0]]} : TRUE
  OBVIOUS
<1>1. CallerInv
  BY CallerLemma
<1>2. /\ threads \in Seq(Thread(SecondLabels, SecondRegisters)) /\ threads # << >>
      /\ \A k \in 2 .. Len(threads) : threads[k].state # "RUN"
      /\ DequeIDs /\ Rows /\ Owner /\ ConsoleInv /\ console \in Seq(Piece)
  BY DEF UpInv, DequeOK, ConsoleInv, Printed
<1>3. n = Len(threads) /\ n \in Nat /\ n >= 1
  BY <1>2
<1>4. /\ n < MaxThreads
      /\ threads' = Append(threads, new)
      /\ R' = [[R EXCEPT !.a0 = EntryAddress] EXCEPT !.v0 = n]
      /\ PC' = next
      /\ UNCHANGED <<current_thread, who, get_kernel_up, machine>>
  BY DEF PTHREAD_CREATE
<1>5. new.ID = n /\ new.state = "READY" /\ new.PC = entry
  BY <1>3
<1>6. new \in Thread(SecondLabels, SecondRegisters) /\ R' \in SecondRegisters /\ R'.v0 = n
  <2>1. n \in Ids /\ n \in Int /\ EntryAddress \in Int
    BY <1>3, <1>4, Constants DEF Ids
  <2>2. entry \in SecondLabels
    BY LabelsLemma
  <2>3. R \in SecondRegisters
    BY <1>1 DEF CallerInv
  <2>4. /\ [[R EXCEPT !.a0 = EntryAddress] EXCEPT
                !.v0 = [R EXCEPT !.a0 = EntryAddress].a0] \in SecondRegisters
        /\ R' \in SecondRegisters /\ R'.v0 = n
    BY <1>4, <2>1, <2>3 DEF SecondRegisters
  <2> QED
    BY <1>3, <2>1, <2>2, <2>4 DEF Thread
<1>7. /\ threads' \in Seq(Thread(SecondLabels, SecondRegisters))
      /\ Len(threads') = n + 1
      /\ threads'[n + 1] = new
      /\ \A k \in 1 .. n : threads'[k] = threads[k]
      /\ \A k \in 1 .. n + 1 : k \in 1 .. n \/ k = n + 1
  BY <1>2, <1>3, <1>4, <1>6
<1>8. /\ At(n + 1)' = entry /\ At(1)' = next /\ RAt(1)' = R'
      /\ \A k \in 2 .. n : At(k)' = At(k) /\ RAt(k)' = RAt(k)
  BY <1>3, <1>4, <1>5, <1>7 DEF At, RAt
<1>9. /\ current_thread.ID = 0 /\ MainRow(PC, R) /\ next \notin Critical /\ next \in SecondLabels
      /\ n \in {1, 2}
  <2>1. PC \in MainLabels /\ next \in MainLabels
    BY DEF MainLabels
  <2>2. current_thread.ID = 0 /\ MainRow(PC, R)
    BY <1>1, <2>1, LabelsLemma DEF CallerInv, WorkerRow
  <2>3. n \in {1, 2}
    BY <1>3, <2>2 DEF MainRow
  <2> QED
    BY <2>1, <2>2, <2>3, LabelsLemma
<1>10. DequeOK(SecondLabels, SecondRegisters)'
  BY <1>2, <1>3, <1>4, <1>5, <1>6, <1>7, <1>9 DEF DequeOK
<1>11. /\ \A k \in 1 .. n : threads[k].ID \in Ids /\ threads[k].ID < n
       /\ \A k \in 2 .. n : threads[k].ID # 0
       /\ threads[1].ID = 0
  BY <1>1, <1>2, <1>3, <1>9 DEF CallerInv, DequeIDs
<1>12. DequeIDs'
  <2>1. \A j, k \in 1 .. n + 1 : threads'[j].ID = threads'[k].ID => j = k
    BY <1>2, <1>3, <1>5, <1>7, <1>11 DEF DequeIDs, Ids
  <2>2. \A k \in 1 .. n + 1 : threads'[k].ID < n + 1
    BY <1>3, <1>5, <1>7, <1>11 DEF Ids
  <2>3. ASSUME NEW id \in 0 .. n PROVE \E k \in 1 .. n + 1 : threads'[k].ID = id
    <3>1. CASE id = n
      BY <1>3, <1>5, <1>7, <3>1
    <3>2. CASE id # n
      <4>1. PICK k \in 1 .. n : threads[k].ID = id
        BY <1>2, <1>3, <3>2 DEF DequeIDs
      <4> QED
        BY <1>3, <1>7, <4>1
    <3> QED
      BY <3>1, <3>2
  <2>4. current_thread'.ID = threads'[1].ID
    BY <1>2, <1>3, <1>4, <1>7 DEF DequeIDs
  <2> QED
    BY <1>3, <1>7, <1>9, <2>1, <2>2, <2>3, <2>4 DEF DequeIDs
<1>13. Silent(console, n) /\ (n \in {1, 2} => products[n] = 0)
  <2>1. \A m \in 1 .. Len(console) : console[m].by # n
    BY <1>2, <1>3 DEF ConsoleInv, Piece, Ids
  <2> QED
    BY <1>2, <1>3, <2>1 DEF ConsoleInv, Silent
<1>14. Rows'
  <2>1. MainRow(PC, R)'
    <3>1. CASE PC = "create_producer"
      <4>1. Len(threads) = 1
        BY <1>9, <3>1 DEF MainRow
      <4>2. PC' = "save_producer" /\ R'.v0 = 1 /\ Len(threads') = 2
        BY <1>3, <1>4, <1>6, <1>7, <3>1, <4>1
      <4> QED
        BY <4>2 DEF MainRow, MainLabels, AfterFirst, AfterBoth
    <3>2. CASE PC = "create_consumer"
      <4>1. Len(threads) = 2 /\ thread_id_array[1] = 1
        BY <1>9, <3>2 DEF MainRow
      <4>2. PC' = "save_consumer" /\ R'.v0 = 2 /\ Len(threads') = 3
        BY <1>3, <1>4, <1>6, <1>7, <3>2, <4>1
      <4> QED
        BY <4>1, <4>2 DEF MainRow, MainLabels, AfterFirst, AfterBoth
    <3> QED
      BY <3>1, <3>2
  <2>2. WorkerRow(entry, RAt(n + 1)', n, console, products)
    BY <1>9, <1>13 DEF WorkerRow, Entries, WorkerLabels, InLoop, AtEnd, Critical
  <2> SUFFICES ASSUME NEW k \in 1 .. n + 1
               PROVE  IF threads'[k].ID = 0 THEN MainRow(At(k), RAt(k))'
                      ELSE /\ WorkerRow(At(k)', RAt(k)', threads'[k].ID, console, products)
                           /\ threads'[k].state = "DEAD" => At(k)' = "dummy"
    BY <1>7 DEF Rows
  <2>3. CASE k = 1
    <3>1. threads'[1].ID = 0
      BY <1>3, <1>7, <1>11
    <3>2. MainRow(At(1), RAt(1))'
      BY <2>1 DEF At, RAt
    <3> QED
      BY <2>3, <3>1, <3>2
  <2>4. CASE k \in 2 .. n
    <3>1. k \in 1 .. n /\ threads'[k] = threads[k] /\ threads[k].ID # 0
      BY <1>3, <1>7, <1>11, <2>4
    <3>2. At(k)' = At(k) /\ RAt(k)' = RAt(k)
      BY <1>8, <2>4
    <3> QED
      BY <1>2, <1>3, <3>1, <3>2 DEF Rows
  <2>5. CASE k = n + 1
    <3>1. threads'[k].ID = n /\ n # 0 /\ threads'[k].state = "READY"
      BY <1>3, <1>5, <1>7, <2>5
    <3> QED
      BY <1>8, <1>13, <2>2, <2>5, <3>1
  <2> QED
    BY <1>3, <2>3, <2>4, <2>5
<1>15. Owner'
  <2>1. who \in {NoOwner} \cup 0 .. n - 1 /\ who # n /\ who \in {NoOwner} \cup 0 .. n
    BY <1>2, <1>3, Constants DEF Owner
  <2>2. ASSUME NEW k \in 1 .. n + 1
        PROVE  /\ At(k)' \in Critical <=> who = threads'[k].ID
               /\ Phase(At(k)', threads'[k].ID, console)
    <3>1. CASE k = 1
      <4>1. threads'[1].ID = 0 /\ At(1)' = next
        BY <1>3, <1>7, <1>8, <1>11
      <4>2. who # 0
        BY <1>1, <1>9, LabelsLemma DEF CallerInv, MainRow
      <4> QED
        BY <1>9, <3>1, <4>1, <4>2 DEF Phase, Critical
    <3>2. CASE k \in 2 .. n
      <4>1. k \in 1 .. n /\ threads'[k] = threads[k] /\ At(k)' = At(k)
        BY <1>3, <1>7, <1>8, <3>2
      <4> QED
        BY <1>2, <1>3, <4>1 DEF Owner
    <3>3. CASE k = n + 1
      <4>1. threads'[k].ID = n /\ At(k)' = entry /\ entry \notin Critical
        BY <1>5, <1>7, <1>8, <3>3, LabelsLemma
      <4> QED
        BY <2>1, <4>1 DEF Phase, Critical
    <3> QED
      BY <1>3, <3>1, <3>2, <3>3
  <2> QED
    BY <1>2, <1>3, <1>4, <1>7, <2>1, <2>2 DEF Owner
<1>16. ConsoleInv'
  <2>1. ASSUME NEW m \in 1 .. Len(console) PROVE console[m].by < n + 1
    <3>1. console[m] \in Piece /\ console[m].by < n
      BY <1>2, <1>3 DEF ConsoleInv
    <3> QED
      BY <1>3, <3>1 DEF Piece, Ids
  <2>2. \A id \in {1, 2} : id >= n + 1 => products[id] = 0
    BY <1>2, <1>3 DEF ConsoleInv
  <2> QED
    BY <1>2, <1>4, <1>7, <2>1, <2>2 DEF ConsoleInv
<1> QED
  BY <1>4, <1>10, <1>12, <1>14, <1>15, <1>16 DEF UpInv

\* Calls that end threads: entries become DEAD, all at dummy but the main thread's.
Marked ==
    /\ threads' \in Seq(Thread(SecondLabels, SecondRegisters))
    /\ Len(threads') = Len(threads)
    /\ \A k \in 1 .. Len(threads) :
          /\ threads'[k].ID = threads[k].ID
          /\ threads'[k].PC = threads[k].PC
          /\ threads'[k].R = threads[k].R
          /\ threads'[k].state \in {threads[k].state, "DEAD"}
          /\ threads'[k].state = "DEAD" /\ threads[k].ID # 0 => At(k)' = "dummy"
    /\ current_thread' \in [ID : Ids, state : {"READY", "RUN", "DEAD"}]
    /\ current_thread'.ID = current_thread.ID
    /\ \/ PC' = PC
       \/ PC = "thread_return" /\ PC' = "dummy"
    /\ UNCHANGED <<R, who, thread_id_array, console, products>>

LEMMA MarkedKeeps == UpInv /\ Marked => UpInv'
<1> SUFFICES ASSUME UpInv, Marked PROVE UpInv'
  OBVIOUS
<1>1. CallerInv /\ Rows /\ Owner /\ DequeIDs /\ ConsoleInv
  BY CallerLemma DEF UpInv
<1>2. /\ Len(threads') = Len(threads) /\ UNCHANGED <<R, who, thread_id_array, console, products>>
      /\ \A k \in 1 .. Len(threads) : /\ threads'[k].ID = threads[k].ID
                                      /\ threads[k].state = "DEAD" => threads'[k].state = "DEAD"
  BY DEF Marked
<1>3. \A k \in 1 .. Len(threads) :
         /\ RAt(k)' = RAt(k)
         /\ \/ At(k)' = At(k)
            \/ At(k) = "thread_return" /\ At(k)' = "dummy"
  BY DEF Marked, At, RAt
<1>4. DequeOK(SecondLabels, SecondRegisters)'
  <2>1. threads' # << >>
    BY <1>1, <1>2 DEF CallerInv
  <2>2. PC' \in SecondLabels
    BY <1>1 DEF Marked, CallerInv, SecondLabels, WorkerLabels, AtEnd
  <2>3. ASSUME NEW k \in 2 .. Len(threads) PROVE threads'[k].state # "RUN"
    <3>1. k \in 1 .. Len(threads) /\ threads[k].state # "RUN"
      BY <1>1 DEF UpInv, DequeOK, CallerInv
    <3>2. threads'[k].state \in {threads[k].state, "DEAD"}
      BY <3>1 DEF Marked
    <3> QED
      BY <3>1, <3>2
  <2> QED
    BY <1>1, <1>2, <2>1, <2>2, <2>3 DEF DequeOK, Marked, CallerInv
<1>5. DequeIDs'
  <2>1. current_thread'.ID = threads'[1].ID
    BY <1>1, <1>2 DEF CallerInv, Marked
  <2>2. \A j, k \in 1 .. Len(threads) : threads'[j].ID = threads'[k].ID => j = k
    BY <1>1, <1>2 DEF DequeIDs
  <2>3. \A k \in 1 .. Len(threads) : threads'[k].ID < Len(threads)
    BY <1>1, <1>2 DEF DequeIDs
  <2>4. ASSUME NEW id \in 0 .. Len(threads) - 1
        PROVE  \E k \in 1 .. Len(threads) : threads'[k].ID = id
    <3>1. PICK k \in 1 .. Len(threads) : threads[k].ID = id
      BY <1>1 DEF DequeIDs
    <3> QED
      BY <1>2, <3>1
  <2>5. Len(threads) <= 3
    BY <1>1 DEF DequeIDs
  <2> QED
    BY <1>2, <2>1, <2>2, <2>3, <2>4, <2>5 DEF DequeIDs
<1>6. Rows'
  <2> SUFFICES ASSUME NEW k \in 1 .. Len(threads)
               PROVE  IF threads[k].ID = 0 THEN MainRow(At(k), RAt(k))'
                      ELSE /\ WorkerRow(At(k)', RAt(k)', threads[k].ID, console, products)
                           /\ threads'[k].state = "DEAD" => At(k)' = "dummy"
    BY <1>2 DEF Rows
  <2>1. CASE threads[k].ID = 0
    <3>1. MainRow(At(k), RAt(k))
      BY <1>1, <2>1 DEF Rows
    <3>2. At(k) \in MainLabels
      BY <3>1 DEF MainRow
    <3>3. At(k)' = At(k) /\ RAt(k)' = RAt(k)
      BY <1>3, <3>2 DEF MainLabels, AfterFirst, AfterBoth
    <3>4. \A id : Gone(id) => Gone(id)'
      BY <1>2 DEF Gone
    <3> QED
      BY <1>2, <2>1, <3>1, <3>3, <3>4 DEF MainRow
  <2>2. CASE threads[k].ID # 0
    <3>1. WorkerRow(At(k), RAt(k), threads[k].ID, console, products)
      BY <1>1, <2>2 DEF Rows
    <3>2. threads'[k].state = "DEAD" => At(k)' = "dummy"
      BY <2>2 DEF Marked
    <3>3. WorkerRow(At(k)', RAt(k)', threads[k].ID, console, products)
      <4>1. CASE At(k)' = At(k)
        BY <1>3, <3>1, <4>1
      <4>2. CASE At(k) = "thread_return" /\ At(k)' = "dummy"
        BY <3>1, <4>2 DEF WorkerRow, WorkerLabels, Entries, InLoop, Critical, AtEnd
      <4> QED
        BY <1>3, <4>1, <4>2
    <3> QED
      BY <2>2, <3>2, <3>3
  <2> QED
    BY <2>1, <2>2
<1>7. Owner'
  <2>1. ASSUME NEW k \in 1 .. Len(threads)
        PROVE  /\ At(k)' \in Critical <=> who = threads[k].ID
               /\ Phase(At(k)', threads[k].ID, console)
    <3>1. /\ At(k) \in Critical <=> who = threads[k].ID
          /\ Phase(At(k), threads[k].ID, console)
      BY <1>1 DEF Owner
    <3>2. CASE At(k)' = At(k)
      BY <3>1, <3>2
    <3>3. CASE At(k) = "thread_return" /\ At(k)' = "dummy"
      BY <3>1, <3>3 DEF Phase, Critical
    <3> QED
      BY <1>3, <3>2, <3>3
  <2> QED
    BY <1>1, <1>2, <2>1 DEF Owner
<1>8. ConsoleInv'
  BY <1>1, <1>2 DEF ConsoleInv
<1> QED
  BY <1>2, <1>4, <1>5, <1>6, <1>7, <1>8 DEF UpInv, Marked

\* A turn of the deque: every row is that of another place.
LEMMA TurnKeeps ==
    ASSUME UpInv, NEW g \in [1 .. Len(threads) -> 1 .. Len(threads)],
           TurnedIn(SecondLabels, SecondRegisters, g, Len(threads)),
           UNCHANGED <<who, thread_id_array, console, products>>
    PROVE  UpInv'
<1> PICK L \in {Len(threads)} : TRUE
  OBVIOUS
<1>1. CallerInv /\ Rows /\ Owner /\ DequeIDs /\ ConsoleInv /\ L = Len(threads)
  BY CallerLemma DEF UpInv
<1>2. /\ L \in Nat /\ 1 \in 1 .. L
      /\ Len(threads') = L /\ threads' \in Seq(Thread(SecondLabels, SecondRegisters))
      /\ PC' \in SecondLabels /\ R' \in SecondRegisters
      /\ current_thread' = [ID |-> threads'[1].ID, state |-> "RUN"]
      /\ \A j, k \in 1 .. L : g[j] = g[k] => j = k
      /\ \A m \in 1 .. L : \E k \in 1 .. L : g[k] = m
  BY <1>1 DEF TurnedIn, CallerInv
<1>3. \A k \in 1 .. L :
         /\ g[k] \in 1 .. L
         /\ threads'[k].ID = threads[g[k]].ID
         /\ At(k)' = At(g[k])
         /\ RAt(k)' = RAt(g[k])
         /\ threads'[k].state = "RUN" <=> k = 1
         /\ threads'[k].state = "DEAD" <=> threads[g[k]].state = "DEAD"
  <2>1. \A k \in 1 .. L : g[k] \in 1 .. L
    BY <1>1
  <2> QED
    BY <1>1, <2>1 DEF TurnedIn, At, RAt
<1>4. DequeOK(SecondLabels, SecondRegisters)'
  <2>1. threads' # << >>
    BY <1>2
  <2>2. \A k \in 2 .. L : threads'[k].state # "RUN"
    <3>1. \A k \in 2 .. L : k \in 1 .. L /\ k # 1
      BY <1>2
    <3> QED
      BY <1>3, <3>1
  <2> QED
    BY <1>2, <2>1, <2>2 DEF DequeOK
<1>5. /\ current_thread' \in [ID : Ids, state : {"READY", "RUN", "DEAD"}]
      /\ current_thread'.ID = threads'[1].ID
  <2>1. threads'[1].ID \in Ids
    <3>1. g[1] \in 1 .. L /\ threads'[1].ID = threads[g[1]].ID
      BY <1>2, <1>3
    <3> QED
      BY <1>1, <3>1 DEF CallerInv
  <2>2. current_thread' = [ID |-> threads'[1].ID, state |-> "RUN"]
    BY <1>2
  <2> QED
    BY <2>1, <2>2
<1>6. DequeIDs'
  <2>1. ASSUME NEW j \in 1 .. L, NEW k \in 1 .. L, threads'[j].ID = threads'[k].ID
        PROVE  j = k
    <3>1. /\ g[j] \in 1 .. L /\ g[k] \in 1 .. L
          /\ threads[g[j]].ID = threads[g[k]].ID
      BY <1>3, <2>1
    <3>2. g[j] = g[k]
      BY <1>1, <3>1 DEF DequeIDs
    <3> QED
      BY <1>2, <3>2
  <2>2. ASSUME NEW k \in 1 .. L PROVE threads'[k].ID < L
    <3>1. g[k] \in 1 .. L /\ threads'[k].ID = threads[g[k]].ID
      BY <1>3
    <3> QED
      BY <1>1, <3>1 DEF DequeIDs
  <2>3. ASSUME NEW id \in 0 .. L - 1 PROVE \E k \in 1 .. L : threads'[k].ID = id
    <3>1. PICK m \in 1 .. L : threads[m].ID = id
      BY <1>1 DEF DequeIDs
    <3>2. PICK k \in 1 .. L : g[k] = m
      BY <1>2
    <3> QED
      BY <1>3, <3>1, <3>2
  <2>4. Len(threads) <= 3
    BY <1>1 DEF DequeIDs
  <2> QED
    BY <1>2, <1>5, <2>1, <2>2, <2>3, <2>4 DEF DequeIDs
<1>7. Rows'
  <2> SUFFICES ASSUME NEW k \in 1 .. L
               PROVE  IF threads'[k].ID = 0 THEN MainRow(At(k), RAt(k))'
                      ELSE /\ WorkerRow(At(k)', RAt(k)', threads'[k].ID, console, products)
                           /\ threads'[k].state = "DEAD" => At(k)' = "dummy"
    BY <1>2 DEF Rows
  <2>1. /\ g[k] \in 1 .. L /\ threads'[k].ID = threads[g[k]].ID
        /\ At(k)' = At(g[k]) /\ RAt(k)' = RAt(g[k])
        /\ threads'[k].state = "DEAD" <=> threads[g[k]].state = "DEAD"
    BY <1>3
  <2>2. CASE threads[g[k]].ID = 0
    <3>1. MainRow(At(g[k]), RAt(g[k]))
      BY <1>1, <2>1, <2>2 DEF Rows
    <3>2. ASSUME NEW id, Gone(id) PROVE Gone(id)'
      <4>1. \A m \in 1 .. L : threads[m].ID = id => threads[m].state = "DEAD"
        BY <1>1, <3>2 DEF Gone
      <4>2. \A m \in 1 .. L : threads'[m].ID = id => threads'[m].state = "DEAD"
        BY <1>3, <4>1
      <4> QED
        BY <1>2, <4>2 DEF Gone
    <3>3. MainRow(At(k), RAt(k))'
      BY <1>1, <1>2, <2>1, <3>1, <3>2 DEF MainRow
    <3> QED
      BY <2>1, <2>2, <3>3
  <2>3. CASE threads[g[k]].ID # 0
    BY <1>1, <2>1, <2>3 DEF Rows
  <2> QED
    BY <2>2, <2>3
<1>8. Owner'
  <2>1. ASSUME NEW k \in 1 .. L
        PROVE  /\ At(k)' \in Critical <=> who = threads'[k].ID
               /\ Phase(At(k)', threads'[k].ID, console)
    <3>1. /\ g[k] \in 1 .. L /\ threads'[k].ID = threads[g[k]].ID
          /\ At(k)' = At(g[k])
      BY <1>3
    <3> QED
      BY <1>1, <3>1 DEF Owner
  <2> QED
    BY <1>1, <1>2, <2>1 DEF Owner
<1>9. ConsoleInv'
  BY <1>1, <1>2 DEF ConsoleInv
<1> QED
  BY <1>4, <1>5, <1>6, <1>7, <1>8, <1>9 DEF UpInv

LEMMA NothingKeeps ==
    UpInv /\ UNCHANGED <<threads, current_thread, who, PC, R, thread_id_array, console,
                         products>>
    => UpInv'
<1> SUFFICES ASSUME UpInv,
                    UNCHANGED <<threads, current_thread, who, PC, R, thread_id_array,
                                console, products>>
             PROVE  UpInv'
  OBVIOUS
<1>1. /\ DequeOK(SecondLabels, SecondRegisters)' /\ DequeIDs' /\ ConsoleInv'
      /\ thread_id_array' \in Seq(Int) /\ Len(thread_id_array') = 2
      /\ current_thread' \in [ID : Ids, state : {"READY", "RUN", "DEAD"}]
  BY DEF UpInv, DequeOK, DequeIDs, ConsoleInv
<1>2. \A k : At(k)' = At(k) /\ RAt(k)' = RAt(k)
  BY DEF At, RAt
<1>3. \A id : Gone(id)' <=> Gone(id)
  BY DEF Gone
<1>4. Rows'
  BY <1>2, <1>3 DEF UpInv, Rows, MainRow
<1>5. Owner'
  BY <1>2 DEF UpInv, Owner
<1> QED
  BY <1>1, <1>4, <1>5 DEF UpInv

\* The boot code's call makes the main thread.
LEMMA InitKeeps ==
    ASSUME DownInv, INIT_SYSCALL, UNCHANGED <<thread_id_array, console, products>>
    PROVE  UpInv'
<1> DEFINE r == [R EXCEPT !.v0 = R.a0]
           main == [ID |-> 0, state |-> "RUN", PC |-> "out", R |-> r]
<1>1. /\ threads' = << main >> /\ current_thread' = [ID |-> 0, state |-> "RUN"]
      /\ R' = r /\ PC' = "out" /\ who' = NoOwner
      /\ thread_id_array' = <<0, 0>> /\ console' = << >>
      /\ products' = [id \in {1, 2} |-> 0]
  BY DEF DownInv, INIT_SYSCALL, K2!NothingPrinted, K2!Producer, K2!Consumer
<1>2. 0 \in Ids /\ r \in SecondRegisters /\ "out" \in SecondLabels
  BY Constants DEF DownInv, Ids, SecondRegisters, SecondLabels, MainLabels
<1>3. Len(threads') = 1 /\ threads'[1] = main /\ Len(console') = 0 /\ console' \in Seq(Piece)
  BY <1>1
<1>4. DequeOK(SecondLabels, SecondRegisters)'
  <2>1. main \in Thread(SecondLabels, SecondRegisters)
    BY <1>2 DEF Thread
  <2> QED
    BY <1>1, <1>2, <1>3, <2>1 DEF DequeOK
<1>5. DequeIDs'
  BY <1>1, <1>3 DEF DequeIDs
<1>6. Rows'
  <2>1. MainRow(PC, R)'
    BY <1>1, <1>3 DEF MainRow, MainLabels, AfterFirst, AfterBoth
  <2> QED
    BY <1>3, <2>1 DEF Rows, At, RAt
<1>7. Complete(console')
  BY <1>3 DEF Complete, NoLine
<1>8. Owner'
  <2>1. At(1)' = "out"
    BY <1>1 DEF At
  <2> QED
    BY <1>1, <1>3, <1>7, <2>1, Constants DEF Owner, Critical, Phase
<1>9. ConsoleInv'
  BY <1>1, <1>3 DEF ConsoleInv, Printed, Made
<1> QED
  BY <1>1, <1>2, <1>4, <1>5, <1>6, <1>8, <1>9 DEF UpInv

-----------------------------------------------------------------------------
(* The instructions of the second microkernel *)

\* An instruction of the main thread that moves nothing but the main thread.
LEMMA MainKeeps ==
    ASSUME UpInv, UNCHANGED <<threads, current_thread, who, console, products>>,
           PC \in MainLabels, MainRow(PC, R)', R' \in SecondRegisters,
           thread_id_array' \in Seq(Int), Len(thread_id_array') = 2
    PROVE  UpInv'
<1>1. CallerInv /\ Owner /\ ConsoleInv
  BY CallerLemma DEF UpInv
<1>2. current_thread.ID = 0
  BY <1>1, LabelsLemma DEF CallerInv, WorkerRow
<1>3. PC' \in MainLabels
  BY DEF MainRow
<1>4. PC' \in SecondLabels /\ PC \notin Critical /\ PC' \notin Critical
  BY <1>3, LabelsLemma
<1>5. Phase(PC', current_thread.ID, console')
  BY <1>4 DEF Phase, Critical
<1>6. ConsoleInv'
  BY <1>1 DEF ConsoleInv
<1>7. who' = NoOwner => Complete(console')
  BY <1>1 DEF Owner
<1>8. who' # current_thread.ID
  BY <1>1, <1>4 DEF CallerInv
<1>9. CallerStep
  BY <1>2, <1>4, <1>5, <1>6, <1>7, <1>8 DEF CallerStep, Kept
<1> QED
  BY <1>9, CallerKeeps

\* An instruction of the producer or the consumer that leaves mutex and console alone.
LEMMA WorkerKeeps ==
    ASSUME UpInv, UNCHANGED <<threads, current_thread, who, console, products, thread_id_array>>,
           PC \in WorkerLabels, R' \in SecondRegisters,
           PC' \notin Critical, PC \notin Critical, PC # "dummy" \/ PC' = "dummy",
           WorkerRow(PC', R', current_thread.ID, console, products)
    PROVE  UpInv'
<1>1. CallerInv /\ Owner /\ ConsoleInv
  BY CallerLemma DEF UpInv
<1>2. current_thread.ID # 0
  BY <1>1, LabelsLemma DEF CallerInv, MainRow
<1>3. PC' \in SecondLabels
  BY LabelsLemma DEF WorkerRow
<1>4. Phase(PC', current_thread.ID, console')
  BY DEF Phase, Critical
<1>5. ConsoleInv'
  BY <1>1 DEF ConsoleInv
<1>6. who' = NoOwner => Complete(console')
  BY <1>1 DEF Owner
<1>7. who' # current_thread.ID
  BY <1>1 DEF CallerInv
<1>8. threads[1].state = "DEAD" => PC' = "dummy"
  BY <1>1, <1>2 DEF CallerInv
<1>9. CallerStep
  BY <1>2, <1>3, <1>4, <1>5, <1>6, <1>7, <1>8 DEF CallerStep, Kept, UpInv
<1> QED
  BY <1>9, CallerKeeps

\* An announcement: the announcer does not have the mutex, and has printed nothing else
\* in this stretch unless it is the main thread.
LEMMA AnnounceKeeps ==
    ASSUME UpInv, UNCHANGED <<threads, current_thread, who, thread_id_array, R, products>>,
           NEW e \in Piece, console' = Append(Cut(console), e),
           e.by = current_thread.ID, e.part = "announcement",
           PC \notin Critical, PC' \notin Critical,
           IF PC \in MainLabels THEN MainRow(PC, R)' ELSE PC = "loop" /\ PC' = "count_down"
    PROVE  UpInv'
<1> PICK c \in {console}, d \in {console'}, id \in {current_thread.ID} : TRUE
  OBVIOUS
<1>1. /\ CallerInv /\ Owner /\ ConsoleInv /\ Printed(c, products)
      /\ c = console /\ d = console' /\ id = current_thread.ID
      /\ thread_id_array \in Seq(Int) /\ Len(thread_id_array) = 2
  BY CallerLemma DEF UpInv, ConsoleInv
<1>2. IF id = 0 THEN PC \in MainLabels /\ MainRow(PC, R)'
      ELSE /\ PC = "loop" /\ PC' = "count_down"
           /\ WorkerRow(PC, R, id, c, products)
           /\ threads[1].state # "DEAD"
  BY <1>1, LabelsLemma DEF CallerInv, MainRow, WorkerRow
<1>3. e.by = 0 \/ Silent(c, e.by)
  BY <1>1, <1>2 DEF WorkerRow
<1>4. Announced(c, products, e, d)
  BY <1>1, <1>3, AnnounceLemma
<1>5. ConsoleInv'
  <2>1. \A k \in 1 .. Len(d) : d[k].by < Len(threads)
    BY <1>1, <1>4 DEF Announced, ConsoleInv, CallerInv
  <2> QED
    BY <1>1, <1>4, <2>1 DEF Announced, ConsoleInv
<1>6. IF id = 0 THEN MainRow(PC, R)'
      ELSE /\ WorkerRow(PC', R', id, console', products')
           /\ threads[1].state = "DEAD" => PC' = "dummy"
  <2>1. CASE id = 0
    BY <1>2, <2>1
  <2>2. CASE id # 0
    BY <1>2, <2>2 DEF WorkerRow, WorkerLabels, Entries, InLoop, AtEnd, Critical
  <2> QED
    BY <2>1, <2>2
<1>7. PC' \in SecondLabels /\ R' \in SecondRegisters
  BY <1>1, <1>6, LabelsLemma DEF CallerInv, MainRow, WorkerRow
<1>8. who' = NoOwner => Complete(d)
  BY <1>1, <1>4 DEF Owner, Announced, Kept
<1>9. who' # id
  BY <1>1 DEF CallerInv
<1>10. Phase(PC', id, d)
  BY DEF Phase, Critical
<1>11. \A x \in Ids \ {id} : Silent(c, x) => Silent(d, x)
  BY <1>1, <1>4 DEF Announced
<1>12. CallerStep
  BY <1>1, <1>4, <1>5, <1>6, <1>7, <1>8, <1>9, <1>10, <1>11 DEF CallerStep, Announced
<1> QED
  BY <1>12, CallerKeeps

\* The owner of the mutex prints a part of its product.
LEMMA PrintKeeps ==
    ASSUME UpInv, UNCHANGED <<threads, current_thread, who, thread_id_array, R>>,
           PC \in Critical, PC' \in Critical, NEW e \in Piece,
           console' = Append(Cut(console), e), e.by = current_thread.ID,
           products' = IF e.part = "product"
                       THEN [products EXCEPT ![current_thread.ID] = @ + 1] ELSE products,
           \/ PC = "in" /\ PC' = "number" /\ e.part = "message"
           \/ PC = "number" /\ PC' = "product" /\ e.part = "number" /\ e.number = R.t0
           \/ PC = "product" /\ PC' = "unlock" /\ e.part = "product"
    PROVE  UpInv'
<1> PICK c \in {console}, d \in {console'}, id \in {current_thread.ID}, more \in {products'} : TRUE
  OBVIOUS
<1>1. /\ CallerInv /\ Owner /\ ConsoleInv /\ Printed(c, products) /\ products \in Made
      /\ c = console /\ d = console' /\ id = current_thread.ID /\ more = products'
      /\ thread_id_array \in Seq(Int) /\ Len(thread_id_array) = 2
      /\ Len(threads) <= 3
  BY CallerLemma DEF UpInv, ConsoleInv, DequeIDs
<1>2. /\ id # 0 /\ id \in Ids /\ id < Len(threads) /\ who = id
      /\ WorkerRow(PC, R, id, c, products)
      /\ threads[1].state # "DEAD" /\ PC' \in SecondLabels
      /\ Phase(PC, id, c)
      /\ R \in SecondRegisters
  BY <1>1, LabelsLemma DEF CallerInv, MainRow, Critical
<1>3. id \in {1, 2} /\ products[id] \in Int
  <2>1. id \in {1, 2}
    BY <1>1, <1>2 DEF CallerInv, Ids
  <2> QED
    BY <1>1, <2>1 DEF Made
<1>4. /\ more \in Made
      /\ more[id] = products[id] + IF e.part = "product" THEN 1 ELSE 0
      /\ \A x : x # id => more[x] = products[x]
      /\ e.part # "product" => more = products
  <2>1. CASE e.part = "product"
    <3>1. more = [products EXCEPT ![id] = @ + 1] /\ products \in [{1, 2} -> Int]
      BY <1>1, <2>1 DEF Made
    <3>2. products[id] + 1 \in Int
      BY <1>3
    <3>3. more \in [{1, 2} -> Int]
      BY <1>3, <3>1, <3>2
    <3>4. more[id] = products[id] + 1 /\ \A x : x # id => more[x] = products[x]
      BY <1>3, <3>1
    <3> QED
      BY <2>1, <3>3, <3>4 DEF Made
  <2>2. CASE e.part # "product"
    BY <1>1, <1>3, <2>2
  <2> QED
    BY <2>1, <2>2
<1>5. GoesOn(c, products, e, d, more)
  <2>1. CASE PC = "in"
    <3>1. e.part = "message" /\ Complete(c) /\ more = products
      BY <1>2, <1>4, <2>1 DEF Phase
    <3> QED
      BY <1>1, <3>1, LineLemma
  <2>2. CASE PC = "number"
    <3>1. /\ e.part = "number" /\ InLine(c, e.by, "message") /\ more = products
          /\ e.number = products[e.by] + 1
      <4>1. R.t0 \in Int /\ products[id] = R.t0 - 1
        BY <1>2, <2>2 DEF WorkerRow, SecondRegisters
      <4>2. R.t0 = products[id] + 1
        BY <1>3, <4>1
      <4> QED
        BY <1>1, <1>2, <1>4, <2>2, <4>2 DEF Phase
    <3> QED
      BY <1>1, <3>1, LineLemma
  <2>3. CASE PC = "product"
    <3>1. /\ e.part = "product" /\ InLine(c, e.by, "number")
          /\ products[e.by] \in Int /\ more[e.by] = products[e.by] + 1
      BY <1>1, <1>2, <1>3, <1>4, <2>3 DEF Phase
    <3> QED
      BY <1>1, <3>1, LineLemma
  <2> QED
    BY <2>1, <2>2, <2>3
<1>6. ConsoleInv'
  <2>1. \A k \in 1 .. Len(d) : d[k].by < Len(threads)
    BY <1>1, <1>2, <1>5 DEF GoesOn, ConsoleInv
  <2>2. \A x \in {1, 2} : x >= Len(threads) => more[x] = 0
    <3>1. \A x \in {1, 2} : x >= Len(threads) => x # id
      BY <1>1, <1>2 DEF CallerInv, Ids
    <3> QED
      BY <1>1, <1>4, <3>1 DEF ConsoleInv
  <2> QED
    BY <1>1, <1>4, <1>5, <2>1, <2>2 DEF GoesOn, ConsoleInv
<1>7. Phase(PC', id, d)
  BY <1>1, <1>5 DEF GoesOn, Phase, Complete
<1>8. WorkerRow(PC', R', id, d, more)
  <2>1. CASE e.part = "product"
    <3>1. Silent(d, id)
      BY <1>5, <2>1 DEF GoesOn, Silent
    <3>2. PC = "product" /\ PC' = "unlock"
      BY <2>1
    <3>3. R.t0 \in Int /\ products[id] = R.t0 - 1
      BY <1>2, <3>2 DEF WorkerRow, SecondRegisters
    <3>4. more[id] = R.t0
      BY <1>3, <1>4, <2>1, <3>3
    <3> QED
      BY <1>2, <3>1, <3>2, <3>4 DEF WorkerRow, WorkerLabels, Entries, InLoop, Critical, AtEnd
  <2>2. CASE e.part # "product"
    <3>1. PC \in {"in", "number"} /\ PC' \in {"number", "product"} /\ more = products
      BY <1>4, <2>2
    <3> QED
      BY <1>2, <3>1 DEF WorkerRow, WorkerLabels, Entries, InLoop, Critical, AtEnd
  <2> QED
    BY <2>1, <2>2
<1>9. who' # NoOwner
  BY <1>2, Constants DEF Ids
<1>10. \A x \in Ids \ {id} : /\ more[x] = products[x]
                             /\ Silent(c, x) => Silent(d, x)
  BY <1>1, <1>4, <1>5 DEF GoesOn
<1>11. CallerStep
  BY <1>1, <1>2, <1>6, <1>7, <1>8, <1>9, <1>10 DEF CallerStep
<1> QED
  BY <1>11, CallerKeeps

\* The main thread waits for the thread with the ID that is in a0.
LEMMA JoinKeeps ==
    ASSUME UpInv, NEW next, K2!PTHREAD_JOIN(next),
           UNCHANGED <<thread_id_array, console, products>>,
           \/ PC = "join_producer" /\ next = "joined_producer"
           \/ PC = "join_consumer" /\ next = "joined_consumer"
    PROVE  UpInv'
<1>1. CallerInv /\ PC \in MainLabels
  BY CallerLemma DEF MainLabels, AfterFirst
<1>2. MainRow(PC, R) /\ R \in SecondRegisters
  BY <1>1, LabelsLemma DEF CallerInv, WorkerRow
<1>3. /\ UNCHANGED <<threads, current_thread, who, R>>
      /\ \/ PC' = PC
         \/ PC' = next /\ \A k \in 1 .. Len(threads) :
                              threads[k].ID = R.a0 => threads[k].state = "DEAD"
  BY DEF K2!PTHREAD_JOIN, K2!WithID
<1>4. MainRow(PC, R)'
  <2>1. CASE PC' = PC
    BY <1>2, <1>3, <2>1 DEF MainRow, Gone
  <2>2. CASE PC = "join_producer" /\ PC' = "joined_producer" /\ PC' # PC
    <3>1. Gone(1)'
      BY <1>2, <1>3, <2>2 DEF MainRow, Gone
    <3> QED
      BY <1>2, <1>3, <2>2, <3>1 DEF MainRow, MainLabels, AfterFirst, AfterBoth
  <2>3. CASE PC = "join_consumer" /\ PC' = "joined_consumer" /\ PC' # PC
    <3>1. Gone(1)' /\ Gone(2)'
      BY <1>2, <1>3, <2>3 DEF MainRow, Gone, AfterFirst
    <3> QED
      BY <1>2, <1>3, <2>3, <3>1 DEF MainRow, MainLabels, AfterFirst, AfterBoth
  <2> QED
    BY <1>3, <2>1, <2>2, <2>3
<1> QED
  BY <1>1, <1>2, <1>3, <1>4, MainKeeps DEF UpInv

\* The main thread ends the program when the other two are done.
LEMMA ExitKeeps ==
    ASSUME UpInv, PC = "exit", K2!PROCESS_EXIT,
           UNCHANGED <<thread_id_array, console, products>>
    PROVE  UpInv'
<1>1. CallerInv /\ PC \in MainLabels /\ Rows /\ DequeIDs
      /\ threads \in Seq(Thread(SecondLabels, SecondRegisters))
  BY CallerLemma DEF MainLabels, AfterFirst, AfterBoth, UpInv, DequeOK
<1>2. MainRow(PC, R)
  BY <1>1, LabelsLemma DEF CallerInv, WorkerRow
<1>3. Len(threads) = 3 /\ Gone(1) /\ Gone(2)
  BY <1>2 DEF MainRow, AfterFirst, AfterBoth
<1>4. /\ threads' = [k \in 1 .. Len(threads) |-> [threads[k] EXCEPT !.state = "DEAD"]]
      /\ UNCHANGED <<current_thread, who, PC, R>>
  BY <1>1 DEF K2!PROCESS_EXIT, K2!ExitAll
<1>5. ASSUME NEW k \in 1 .. Len(threads)
      PROVE  /\ threads'[k] \in Thread(SecondLabels, SecondRegisters)
             /\ threads'[k].ID = threads[k].ID
             /\ threads'[k].PC = threads[k].PC
             /\ threads'[k].R = threads[k].R
             /\ threads'[k].state = "DEAD"
  <2>1. threads[k] \in Thread(SecondLabels, SecondRegisters)
    BY <1>1
  <2> QED
    BY <1>4, <2>1 DEF Thread
<1>6. threads' \in Seq(Thread(SecondLabels, SecondRegisters)) /\ Len(threads') = Len(threads)
  <2>1. threads' = [k \in 1 .. 3 |-> threads'[k]] /\ 3 \in Nat
    BY <1>3, <1>4
  <2>2. \A k \in 1 .. 3 : threads'[k] \in Thread(SecondLabels, SecondRegisters)
    BY <1>3, <1>5
  <2>3. threads' \in Seq(Thread(SecondLabels, SecondRegisters)) /\ Len(threads') = 3
    BY <2>1, <2>2, SequenceLemma
  <2> QED
    BY <1>3, <2>3
<1>7. ASSUME NEW k \in 1 .. Len(threads), threads[k].ID # 0 PROVE At(k)' = "dummy"
  <2>1. threads[k].ID \in 0 .. 2
    BY <1>1, <1>3 DEF DequeIDs, CallerInv, Ids
  <2>2. threads[k].state = "DEAD"
    BY <1>3, <1>7, <2>1 DEF Gone
  <2>3. At(k) = "dummy"
    BY <1>1, <1>7, <2>2 DEF Rows
  <2> QED
    BY <1>4, <1>5, <2>3 DEF At
<1>8. Marked
  BY <1>1, <1>4, <1>5, <1>6, <1>7 DEF Marked, UpInv
<1> QED
  BY <1>8, MarkedKeeps

Saved(s, i, v, t) ==
    /\ t \in Seq(Int) /\ Len(t) = 2
    /\ t[i] = v
    /\ i = 2 => t[1] = s[1]

LEMMA SavedLemma ==
    ASSUME NEW s \in Seq(Int), Len(s) = 2, NEW i \in 1 .. 2, NEW v \in Int
    PROVE  Saved(s, i, v, [s EXCEPT ![i] = v])
<1>1. i \in 1 .. Len(s)
  OBVIOUS
<1>2. DOMAIN s = 1 .. 2 /\ \A k \in 1 .. 2 : s[k] \in Int
  OBVIOUS
<1> DEFINE t == [s EXCEPT ![i] = v]
<1>3. t = [k \in 1 .. 2 |-> t[k]] /\ 2 \in Nat
  BY <1>2
<1>4. \A k \in 1 .. 2 : t[k] \in Int
  BY <1>2
<1>5. t \in Seq(Int) /\ Len(t) = 2
  BY <1>3, <1>4, SequenceLemma
<1>6. t[i] = v /\ (i = 2 => t[1] = s[1])
  BY <1>2
<1> QED
  BY <1>5, <1>6 DEF Saved

LEMMA MainInstruction ==
    ASSUME UpInv, K2!micro_kernel_2
    PROVE  UpInv'
<1>1. CallerInv
  BY CallerLemma
<1>2. PC \in MainLabels => MainRow(PC, R)
  BY <1>1, LabelsLemma DEF CallerInv, WorkerRow
<1>3. /\ thread_id_array \in Seq(Int) /\ Len(thread_id_array) = 2
      /\ R \in SecondRegisters /\ R.v0 \in Int
      /\ thread_id_array[1] \in Int /\ thread_id_array[2] \in Int
  <2>1. thread_id_array \in Seq(Int) /\ Len(thread_id_array) = 2 /\ R \in SecondRegisters
    BY <1>1 DEF UpInv, CallerInv
  <2>2. R.v0 \in Int
    BY <2>1 DEF SecondRegisters
  <2>3. thread_id_array[1] \in Int /\ thread_id_array[2] \in Int
    BY <2>1
  <2> QED
    BY <2>1, <2>2, <2>3
<1>4. CASE K2!Syscall("create_producer", K2!PTHREAD_CREATE("producer_thread", "save_producer"))
  <2>1. /\ PC = "create_producer" /\ PTHREAD_CREATE("producer_thread", "save_producer")
        /\ UNCHANGED <<thread_id_array, console, products>>
    BY <1>4 DEF K2!Syscall, K2!Stays, K2!PTHREAD_CREATE, K2!EntryAddress, PTHREAD_CREATE,
                EntryAddress
  <2> QED
    BY <2>1, CreateKeeps DEF Entries
<1>5. CASE K2!Syscall("create_consumer", K2!PTHREAD_CREATE("consumer_thread", "save_consumer"))
  <2>1. /\ PC = "create_consumer" /\ PTHREAD_CREATE("consumer_thread", "save_consumer")
        /\ UNCHANGED <<thread_id_array, console, products>>
    BY <1>5 DEF K2!Syscall, K2!Stays, K2!PTHREAD_CREATE, K2!EntryAddress, PTHREAD_CREATE,
                EntryAddress
  <2> QED
    BY <2>1, CreateKeeps DEF Entries
<1>6. CASE K2!SaveID("save_producer", 1, "create_consumer")
  <2>1. /\ PC = "save_producer" /\ PC' = "create_consumer" /\ PC \in MainLabels
        /\ thread_id_array' = [thread_id_array EXCEPT ![1] = R.v0]
        /\ UNCHANGED <<threads, current_thread, who, R, console, products>>
    BY <1>6 DEF K2!SaveID, K2!GoTo, K2!Jump, MainLabels, AfterFirst, AfterBoth
  <2>2. /\ thread_id_array' \in Seq(Int) /\ Len(thread_id_array') = 2
        /\ thread_id_array'[1] = R.v0
    BY <1>3, <2>1, SavedLemma DEF Saved
  <2>3. R.v0 = 1 /\ Len(threads) = 2
    BY <1>2, <2>1 DEF MainRow
  <2>4. MainRow(PC, R)'
    BY <2>1, <2>2, <2>3 DEF MainRow, MainLabels, AfterFirst, AfterBoth
  <2> QED
    BY <1>3, <2>1, <2>2, <2>4, MainKeeps
<1>7. CASE K2!SaveID("save_consumer", 2, "pthread_join_2")
  <2>1. /\ PC = "save_consumer" /\ PC' = "pthread_join_2" /\ PC \in MainLabels
        /\ thread_id_array' = [thread_id_array EXCEPT ![2] = R.v0]
        /\ UNCHANGED <<threads, current_thread, who, R, console, products>>
    BY <1>7 DEF K2!SaveID, K2!GoTo, K2!Jump, MainLabels, AfterFirst, AfterBoth
  <2>2. /\ thread_id_array' \in Seq(Int) /\ Len(thread_id_array') = 2
        /\ thread_id_array'[2] = R.v0 /\ thread_id_array'[1] = thread_id_array[1]
    BY <1>3, <2>1, SavedLemma DEF Saved
  <2>3. R.v0 = 2 /\ Len(threads) = 3 /\ thread_id_array[1] = 1
    BY <1>2, <2>1 DEF MainRow
  <2>4. MainRow(PC, R)'
    BY <2>1, <2>2, <2>3 DEF MainRow, MainLabels, AfterFirst, AfterBoth
  <2> QED
    BY <1>3, <2>1, <2>2, <2>4, MainKeeps
<1>8. CASE K2!LoadID("pthread_join_2", 1, "join_producer")
  <2>1. /\ PC = "pthread_join_2" /\ PC' = "join_producer" /\ PC \in MainLabels
        /\ R' = [R EXCEPT !.a0 = thread_id_array[1]]
        /\ UNCHANGED <<threads, current_thread, who, thread_id_array, console, products>>
    BY <1>8 DEF K2!LoadID, K2!GoTo, K2!Jump, K2!Stays, MainLabels, AfterFirst, AfterBoth
  <2>2. R' \in SecondRegisters /\ R'.a0 = thread_id_array[1]
    BY <1>3, <2>1 DEF SecondRegisters
  <2>3. MainRow(PC, R)'
    BY <1>2, <2>1, <2>2 DEF MainRow, MainLabels, AfterFirst, AfterBoth
  <2> QED
    BY <1>3, <2>1, <2>2, <2>3, MainKeeps
<1>9. CASE K2!LoadID("load_consumer", 2, "join_consumer")
  <2>1. /\ PC = "load_consumer" /\ PC' = "join_consumer" /\ PC \in MainLabels
        /\ R' = [R EXCEPT !.a0 = thread_id_array[2]]
        /\ UNCHANGED <<threads, current_thread, who, thread_id_array, console, products>>
    BY <1>9 DEF K2!LoadID, K2!GoTo, K2!Jump, K2!Stays, MainLabels, AfterFirst, AfterBoth
  <2>2. R' \in SecondRegisters /\ R'.a0 = thread_id_array[2]
    BY <1>3, <2>1 DEF SecondRegisters
  <2>3. Gone(1) /\ Gone(1)'
    BY <1>2, <2>1 DEF MainRow, AfterFirst, Gone
  <2>4. MainRow(PC, R)'
    BY <1>2, <2>1, <2>2, <2>3 DEF MainRow, MainLabels, AfterFirst, AfterBoth
  <2> QED
    BY <1>3, <2>1, <2>2, <2>4, MainKeeps
<1>10. CASE K2!Syscall("join_producer", K2!PTHREAD_JOIN("joined_producer"))
  BY <1>10, JoinKeeps DEF K2!Syscall, K2!Stays
<1>11. CASE K2!Syscall("join_consumer", K2!PTHREAD_JOIN("joined_consumer"))
  BY <1>11, JoinKeeps DEF K2!Syscall, K2!Stays
<1>12. CASE K2!Syscall("exit", K2!PROCESS_EXIT)
  BY <1>12, ExitKeeps DEF K2!Syscall, K2!Stays
<1>13. ASSUME NEW label \in MainLabels, NEW next \in MainLabels, K2!Announce(label, next),
              PC = label => MainRow(PC, R)'
       PROVE  UpInv'
  <2> DEFINE e == [by |-> current_thread.ID, part |-> "announcement", number |-> 0]
  <2>1. e \in Piece /\ e.by = current_thread.ID /\ e.part = "announcement"
    BY <1>1 DEF Piece, Part, CallerInv
  <2>2. /\ PC = label /\ PC' = next
        /\ console' = Append(Cut(console), e)
        /\ UNCHANGED <<threads, current_thread, who, thread_id_array, R, products>>
    BY <1>13 DEF K2!Announce, K2!PrintPart, K2!GoTo, K2!Jump, Cut
  <2>3. PC \notin Critical /\ PC' \notin Critical /\ PC \in MainLabels /\ MainRow(PC, R)'
    BY <1>13, <2>2, LabelsLemma
  <2> HIDE DEF e
  <2> QED
    BY <2>1, <2>2, <2>3, AnnounceKeeps
<1>14. ASSUME NEW label, NEW next, K2!Announce(label, next),
              <<label, next>> \in
                  {<<"out", "create_producer">>, <<"joined_producer", "producer_id">>,
                   <<"producer_id", "producer_endline">>,
                   <<"producer_endline", "load_consumer">>,
                   <<"joined_consumer", "consumer_id">>,
                   <<"consumer_id", "consumer_endline">>,
                   <<"consumer_endline", "micro_kernel_2_exit">>,
                   <<"micro_kernel_2_exit", "exit">>}
       PROVE  UpInv'
  <2>1. PC = label /\ PC' = next /\ UNCHANGED <<threads, thread_id_array, R>>
    BY <1>14 DEF K2!Announce, K2!PrintPart, K2!GoTo, K2!Jump
  <2>2. label \in MainLabels /\ next \in MainLabels
    BY <1>14 DEF MainLabels, AfterFirst, AfterBoth
  <2>3. MainRow(PC, R) /\ (Gone(1)' <=> Gone(1)) /\ (Gone(2)' <=> Gone(2))
    BY <1>2, <2>1, <2>2 DEF Gone
  <2>4. MainRow(PC, R)'
    BY <1>14, <2>1, <2>2, <2>3 DEF MainRow, AfterFirst, AfterBoth
  <2> QED
    BY <1>13, <1>14, <2>2, <2>4
<1>15. CASE \/ K2!Announce("out", "create_producer")
            \/ K2!Announce("joined_producer", "producer_id")
            \/ K2!Announce("producer_id", "producer_endline")
            \/ K2!Announce("producer_endline", "load_consumer")
            \/ K2!Announce("joined_consumer", "consumer_id")
            \/ K2!Announce("consumer_id", "consumer_endline")
            \/ K2!Announce("consumer_endline", "micro_kernel_2_exit")
            \/ K2!Announce("micro_kernel_2_exit", "exit")
  BY <1>14, <1>15
<1> QED
  BY <1>4, <1>5, <1>6, <1>7, <1>8, <1>9, <1>10, <1>11, <1>12, <1>15 DEF K2!micro_kernel_2

\* The loops set two registers at once.
LoopRegisters(r, a1, t0) == r \in SecondRegisters /\ r.a1 = a1 /\ r.t0 = t0

LEMMA LoopLemma ==
    ASSUME NEW r \in SecondRegisters, NEW a1 \in Int, NEW t0 \in Int
    PROVE  LoopRegisters([r EXCEPT !.a1 = a1, !.t0 = t0], a1, t0)
  BY DEF LoopRegisters, SecondRegisters

\* Both threads take the mutex, print and give it back, and return in the end.
LEMMA LockKeeps ==
    ASSUME UpInv, PC = "lock", K2!MUTEX_LOCK("in"),
           UNCHANGED <<thread_id_array, console, products>>
    PROVE  UpInv'
<1>1. CallerInv /\ Owner /\ ConsoleInv
  BY CallerLemma DEF UpInv
<1>2. /\ current_thread.ID # 0 /\ PC \notin Critical
      /\ WorkerRow(PC, R, current_thread.ID, console, products)
      /\ threads[1].state # "DEAD" /\ R \in SecondRegisters
  BY <1>1, LabelsLemma DEF CallerInv, MainRow, WorkerLabels, InLoop, Critical
<1>3. UNCHANGED <<threads, current_thread, R>>
  BY DEF K2!MUTEX_LOCK
<1>4. CASE who = NoOwner
  <2>1. who' = current_thread.ID /\ PC' = "in"
    BY <1>4 DEF K2!MUTEX_LOCK, K2!NoOwner, NoOwner
  <2>2. PC' \in Critical /\ PC' \in SecondLabels
    BY <2>1 DEF Critical, SecondLabels, WorkerLabels, InLoop
  <2>3. WorkerRow(PC', R', current_thread.ID, console, products)
    BY <1>2, <1>3, <2>1 DEF WorkerRow, WorkerLabels, InLoop, Critical, Entries, AtEnd
  <2>4. Complete(console)
    BY <1>1, <1>4 DEF Owner
  <2>5. Phase(PC', current_thread.ID, console)
    BY <2>1, <2>4 DEF Phase
  <2>6. ConsoleInv'
    BY <1>1, <1>3 DEF ConsoleInv
  <2>7. CallerStep
    BY <1>2, <1>3, <1>4, <2>1, <2>2, <2>3, <2>4, <2>5, <2>6 DEF CallerStep, Kept, UpInv
  <2> QED
    BY <2>7, CallerKeeps
<1>5. CASE who # NoOwner
  <2>1. UNCHANGED <<who, PC>>
    BY <1>5 DEF K2!MUTEX_LOCK, K2!NoOwner, NoOwner
  <2> QED
    BY <1>2, <1>3, <2>1, WorkerKeeps, LabelsLemma
<1> QED
  BY <1>4, <1>5

LEMMA UnlockKeeps ==
    ASSUME UpInv, PC = "unlock", K2!MUTEX_UNLOCK("loop"),
           UNCHANGED <<thread_id_array, console, products>>
    PROVE  UpInv'
<1>1. CallerInv /\ Owner /\ ConsoleInv
  BY CallerLemma DEF UpInv
<1>2. /\ current_thread.ID # 0 /\ PC \in Critical /\ who = current_thread.ID
      /\ WorkerRow(PC, R, current_thread.ID, console, products)
      /\ threads[1].state # "DEAD" /\ R \in SecondRegisters
      /\ Complete(console)
  BY <1>1, LabelsLemma DEF CallerInv, MainRow, Critical, Phase
<1>3. /\ UNCHANGED <<threads, current_thread, R>>
      /\ who' = NoOwner /\ PC' = "loop"
  BY <1>2 DEF K2!MUTEX_UNLOCK, K2!NoOwner, NoOwner
<1>4. /\ PC' \notin Critical /\ PC' \in SecondLabels
      /\ WorkerRow(PC', R', current_thread.ID, console, products)
  BY <1>2, <1>3 DEF WorkerRow, WorkerLabels, InLoop, Critical, Entries, AtEnd, SecondLabels
<1>5. Phase(PC', current_thread.ID, console)
  BY <1>3 DEF Phase
<1>6. ConsoleInv'
  BY <1>1, <1>3 DEF ConsoleInv
<1>7. who' # current_thread.ID
  BY <1>1, <1>3, Constants DEF CallerInv, Ids
<1>8. CallerStep
  BY <1>2, <1>3, <1>4, <1>5, <1>6, <1>7 DEF CallerStep, Kept, UpInv
<1> QED
  BY <1>8, CallerKeeps

LEMMA ReturnKeeps ==
    ASSUME UpInv, PC = "thread_return", K2!PTHREAD_RETURN("dummy"),
           UNCHANGED <<thread_id_array, console, products>>
    PROVE  UpInv'
<1>1. /\ CallerInv /\ threads \in Seq(Thread(SecondLabels, SecondRegisters))
      /\ DOMAIN threads = 1 .. Len(threads) /\ Rows
      /\ current_thread \in [ID : Ids, state : {"READY", "RUN", "DEAD"}]
  <2>1. threads \in Seq(Thread(SecondLabels, SecondRegisters))
    BY DEF UpInv, DequeOK
  <2> QED
    BY <2>1, CallerLemma DEF UpInv
<1>2. /\ threads' = [threads EXCEPT ![1] = [threads[1] EXCEPT !.state = "DEAD"]]
      /\ current_thread' = [current_thread EXCEPT !.state = "DEAD"]
      /\ PC' = "dummy" /\ UNCHANGED <<who, R>>
  BY DEF K2!PTHREAD_RETURN, K2!SetState
<1> DEFINE front == [threads[1] EXCEPT !.state = "DEAD"]
<1>3. threads[1] \in Thread(SecondLabels, SecondRegisters) /\ 1 \in 1 .. Len(threads)
  BY <1>1 DEF CallerInv
<1>4. /\ front \in Thread(SecondLabels, SecondRegisters)
      /\ front.ID = threads[1].ID /\ front.PC = threads[1].PC /\ front.R = threads[1].R
      /\ front.state = "DEAD"
  BY <1>3 DEF Thread
<1>5. /\ threads' \in Seq(Thread(SecondLabels, SecondRegisters)) /\ Len(threads') = Len(threads)
      /\ threads'[1] = front
      /\ \A k \in 1 .. Len(threads) : k # 1 => threads'[k] = threads[k]
  <2>1. threads' = [threads EXCEPT ![1] = front]
    BY <1>2
  <2> HIDE DEF front
  <2> QED
    BY <1>1, <1>3, <1>4, <2>1, ExceptSeq
<1>6. /\ current_thread' \in [ID : Ids, state : {"READY", "RUN", "DEAD"}]
      /\ current_thread'.ID = current_thread.ID
  BY <1>1, <1>2
<1>7. \A k \in 1 .. Len(threads) :
         k # 1 => (threads[k].state = "DEAD" /\ threads[k].ID # 0 => At(k)' = "dummy")
  <2>1. \A k \in 1 .. Len(threads) : k # 1 => At(k)' = At(k)
    BY <1>5 DEF At
  <2> QED
    BY <1>1, <2>1 DEF Rows
<1>8. At(1)' = "dummy"
  BY <1>2 DEF At
<1>9. Marked
  <2> HIDE DEF front
  <2> QED
    BY <1>2, <1>4, <1>5, <1>6, <1>7, <1>8 DEF Marked
<1> QED
  BY <1>9, MarkedKeeps

LEMMA WorkerInstruction ==
    ASSUME UpInv, K2!worker_loop \/ K2!thread_return
    PROVE  UpInv'
<1>1. CallerInv
  BY CallerLemma
<1>2. PC \in WorkerLabels =>
         /\ current_thread.ID # 0
         /\ WorkerRow(PC, R, current_thread.ID, console, products)
  BY <1>1, LabelsLemma DEF CallerInv, MainRow
<1>3. R \in SecondRegisters /\ R.a1 \in Int /\ R.t0 \in Int /\ Rounds \in Nat \ {0}
  BY <1>1, RoundsAssumption DEF CallerInv, SecondRegisters
<1>4. CASE K2!Enter
  <2>1. /\ PC \in Entries /\ PC' = "loop"
        /\ R' = [R EXCEPT !.a1 = Rounds, !.t0 = 0]
        /\ UNCHANGED <<threads, current_thread, who, thread_id_array, console, products>>
    BY <1>4 DEF K2!Enter, K2!GoTo, K2!Jump, K2!Stays, Entries
  <2>2. PC \in WorkerLabels /\ PC \notin Critical /\ PC # "dummy"
    BY <2>1, LabelsLemma DEF Entries
  <2>3. R' \in SecondRegisters /\ R'.a1 = Rounds /\ R'.t0 = 0
    <3>1. Rounds \in Int /\ 0 \in Int
      BY <1>3
    <3>2. LoopRegisters([R EXCEPT !.a1 = Rounds, !.t0 = 0], Rounds, 0)
      BY <1>3, <3>1, LoopLemma
    <3>3. LoopRegisters(R', Rounds, 0)
      BY <2>1, <3>2
    <3> QED
      BY <3>3 DEF LoopRegisters
  <2>4. WorkerRow(PC', R', current_thread.ID, console, products)
    BY <1>2, <1>3, <2>1, <2>2, <2>3 DEF WorkerRow, WorkerLabels, InLoop, Critical, Entries, AtEnd
  <2> QED
    BY <2>1, <2>2, <2>3, <2>4, WorkerKeeps DEF Critical
<1>5. CASE K2!CountDown
  <2>1. /\ PC = "count_down" /\ PC' = IF R.a1 = 1 THEN "thread_return" ELSE "lock"
        /\ R' = [R EXCEPT !.a1 = @ - 1, !.t0 = @ + 1]
        /\ UNCHANGED <<threads, current_thread, who, thread_id_array, console, products>>
    BY <1>5 DEF K2!CountDown, K2!GoTo, K2!Jump, K2!Stays
  <2>2. PC \in WorkerLabels /\ PC \notin Critical /\ PC # "dummy" /\ PC' \notin Critical
    BY <2>1 DEF WorkerLabels, InLoop, Critical
  <2>3. R' \in SecondRegisters /\ R'.a1 = R.a1 - 1 /\ R'.t0 = R.t0 + 1
    <3>1. R.a1 - 1 \in Int /\ R.t0 + 1 \in Int
      BY <1>3
    <3>2. LoopRegisters([R EXCEPT !.a1 = @ - 1, !.t0 = @ + 1], R.a1 - 1, R.t0 + 1)
      BY <1>3, <3>1, LoopLemma
    <3>3. LoopRegisters(R', R.a1 - 1, R.t0 + 1)
      BY <2>1, <3>2
    <3> QED
      BY <3>3 DEF LoopRegisters
  <2>4. /\ R.a1 = Rounds - R.t0 /\ R.t0 < Rounds /\ R.t0 >= 0
        /\ products[current_thread.ID] = R.t0
    BY <1>2, <2>1, <2>2 DEF WorkerRow, InLoop
  <2>5. WorkerRow(PC', R', current_thread.ID, console, products)
    <3>1. CASE R.a1 = 1
      <4>1. PC' = "thread_return" /\ products[current_thread.ID] = Rounds - 1
        BY <1>3, <2>1, <2>4, <3>1
      <4> QED
        BY <4>1 DEF WorkerRow, WorkerLabels, InLoop, Critical, Entries, AtEnd
    <3>2. CASE R.a1 # 1
      <4>1. /\ PC' = "lock" /\ R'.a1 = Rounds - R'.t0 /\ R'.t0 < Rounds /\ R'.t0 >= 0
            /\ products[current_thread.ID] = R'.t0 - 1
        BY <1>3, <2>1, <2>3, <2>4, <3>2
      <4> QED
        BY <4>1 DEF WorkerRow, WorkerLabels, InLoop, Critical, Entries, AtEnd
    <3> QED
      BY <3>1, <3>2
  <2> QED
    BY <2>1, <2>2, <2>3, <2>5, WorkerKeeps
<1>6. CASE K2!Syscall("lock", K2!MUTEX_LOCK("in"))
  BY <1>6, LockKeeps DEF K2!Syscall, K2!Stays
<1>7. ASSUME NEW label \in Critical, NEW what \in Part, NEW n \in Int, NEW next \in Critical,
             K2!PrintPart(label, what, n, next),
             \/ label = "in" /\ what = "message" /\ next = "number"
             \/ label = "number" /\ what = "number" /\ n = R.t0 /\ next = "product"
             \/ label = "product" /\ what = "product" /\ next = "unlock"
      PROVE  UpInv'
  <2> DEFINE e == [by |-> current_thread.ID, part |-> what, number |-> n]
  <2>1. e \in Piece /\ e.by = current_thread.ID /\ e.part = what /\ e.number = n
    BY <1>1 DEF Piece, CallerInv
  <2>2. /\ PC = label /\ PC' = next /\ console' = Append(Cut(console), e)
        /\ products' = IF what = "product"
                       THEN [products EXCEPT ![current_thread.ID] = @ + 1] ELSE products
        /\ UNCHANGED <<threads, current_thread, who, thread_id_array, R>>
    BY <1>7 DEF K2!PrintPart, K2!GoTo, K2!Jump, Cut
  <2> HIDE DEF e
  <2> QED
    BY <1>7, <2>1, <2>2, PrintKeeps
<1>8. CASE K2!PrintPart("in", "message", 0, "number")
  BY <1>7, <1>8 DEF Critical, Part
<1>9. CASE K2!PrintPart("number", "number", R.t0, "product")
  BY <1>3, <1>7, <1>9 DEF Critical, Part
<1>10. CASE K2!PrintPart("product", "product", 0, "unlock")
  BY <1>7, <1>10 DEF Critical, Part
<1>11. CASE K2!Syscall("unlock", K2!MUTEX_UNLOCK("loop"))
  BY <1>11, UnlockKeeps DEF K2!Syscall, K2!Stays
<1>12. CASE K2!Syscall("thread_return", K2!PTHREAD_RETURN("dummy"))
  BY <1>12, ReturnKeeps DEF K2!Syscall, K2!Stays
<1>13. CASE K2!Syscall("dummy", K2!GoTo("dummy") /\ UNCHANGED R)
  <2>1. /\ PC = "dummy" /\ PC' = "dummy"
        /\ UNCHANGED <<threads, current_thread, who, thread_id_array, R, console, products>>
    BY <1>13 DEF K2!Syscall, K2!GoTo, K2!Jump, K2!Stays
  <2> QED
    BY <1>2, <1>3, <2>1, WorkerKeeps, LabelsLemma DEF AtEnd
<1>14. CASE K2!Announce("loop", "count_down")
  <2> DEFINE e == [by |-> current_thread.ID, part |-> "announcement", number |-> 0]
  <2>1. e \in Piece /\ e.by = current_thread.ID /\ e.part = "announcement"
    BY <1>1 DEF Piece, Part, CallerInv
  <2>2. /\ PC = "loop" /\ PC' = "count_down" /\ console' = Append(Cut(console), e)
        /\ UNCHANGED <<threads, current_thread, who, thread_id_array, R, products>>
    BY <1>14 DEF K2!Announce, K2!PrintPart, K2!GoTo, K2!Jump, Cut
  <2>3. PC \notin MainLabels /\ PC \notin Critical /\ PC' \notin Critical
    BY <2>2 DEF MainLabels, AfterFirst, AfterBoth, Critical
  <2> HIDE DEF e
  <2> QED
    BY <2>1, <2>2, <2>3, AnnounceKeeps
<1> QED
  BY <1>4, <1>5, <1>6, <1>8, <1>9, <1>10, <1>11, <1>12, <1>13, <1>14
     DEF K2!worker_loop, K2!thread_return

LEMMA SecondInit == microkernel = 2 /\ K2!KernelInit => SecondInv
<1> SUFFICES ASSUME K2!KernelInit PROVE SecondInv
  OBVIOUS
<1>1. /\ get_kernel_up = FALSE /\ threads = << >> /\ who = NoOwner /\ PC = "out"
      /\ R = [v0 |-> 0, a0 |-> 2, a1 |-> 0, t0 |-> 0]
      /\ thread_id_array = <<0, 0>> /\ K2!NothingPrinted
  BY DEF K2!KernelInit, K2!Boot, K2!NoOwner, NoOwner
<1>2. R \in SecondRegisters
  BY <1>1 DEF SecondRegisters
<1> QED
  BY <1>1, <1>2 DEF SecondInv, DownInv

LEMMA SecondKeeps ==
    ASSUME SecondInv, microkernel = 2, MainNext
    PROVE  SecondInv'
<1>1. CASE K2!KernelInstruction
  <2>1. get_kernel_up /\ UpInv
    BY <1>1 DEF K2!KernelInstruction, K2!Running, SecondInv
  <2>2. CASE K2!micro_kernel_2
    <3>1. get_kernel_up' = get_kernel_up
      BY <2>2 DEF K2!micro_kernel_2, K2!Syscall, K2!SaveID, K2!LoadID, K2!GoTo,
                  K2!Jump, K2!Announce, K2!PrintPart,
                  K2!PTHREAD_CREATE, K2!PTHREAD_JOIN, K2!PROCESS_EXIT, K2!ExitAll
    <3> QED
      BY <2>1, <2>2, <3>1, MainInstruction DEF SecondInv
  <2>3. CASE K2!worker_loop \/ K2!thread_return
    <3>1. get_kernel_up' = get_kernel_up
      BY <2>3 DEF K2!worker_loop, K2!thread_return, K2!Syscall, K2!Enter, K2!CountDown,
                  K2!PrintPart, K2!Announce, K2!GoTo, K2!Jump, K2!MUTEX_LOCK,
                  K2!MUTEX_UNLOCK, K2!PTHREAD_RETURN
    <3> QED
      BY <2>1, <2>3, <3>1, WorkerInstruction DEF SecondInv
  <2> QED
    BY <1>1, <2>2, <2>3 DEF K2!KernelInstruction
<1>2. CASE INIT_SYSCALL /\ K2!Stays
  <2>1. ~get_kernel_up /\ get_kernel_up' = TRUE /\ UNCHANGED <<thread_id_array, console, products>>
    BY <1>2 DEF INIT_SYSCALL, K2!Stays
  <2> QED
    BY <1>2, <2>1, InitKeeps DEF SecondInv
<1>3. CASE SPIM_timerHandler /\ K2!Stays
  <2>1. /\ get_kernel_up /\ get_kernel_up' = get_kernel_up /\ UpInv
        /\ UNCHANGED <<who, thread_id_array, console, products>>
    BY <1>3 DEF SPIM_timerHandler, TimerSwitches, K2!Stays, SecondInv
  <2>2. DequeOK(SecondLabels, SecondRegisters)
    BY <2>1 DEF UpInv
  <2>3. \/ UNCHANGED <<threads, current_thread, PC, R>>
        \/ \E g \in [1 .. Len(threads) -> 1 .. Len(threads)] :
              TurnedIn(SecondLabels, SecondRegisters, g, Len(threads))
    BY <1>3, <2>2, SwitchTurnsIn
  <2>4. CASE UNCHANGED <<threads, current_thread, PC, R>>
    <3>1. UpInv'
      BY <2>1, <2>4, NothingKeeps
    <3> QED
      BY <2>1, <3>1 DEF SecondInv
  <2>5. CASE \E g \in [1 .. Len(threads) -> 1 .. Len(threads)] :
                TurnedIn(SecondLabels, SecondRegisters, g, Len(threads))
    <3>1. UpInv'
      BY <2>1, <2>5, TurnKeeps
    <3> QED
      BY <2>1, <3>1 DEF SecondInv
  <2> QED
    BY <2>3, <2>4, <2>5
<1> QED
  BY <1>1, <1>2, <1>3 DEF MainNext, init_main, Initialize, MainTick, First, Second

-----------------------------------------------------------------------------
(* The first microkernel *)

FirstLabels == SortLabels \cup
    {"out", "create", "save", "loop_join", "join", "joined", "loop_join_end",
     "second_merge", "third_merge", "printArr_t", "print_ret", "printArr_m",
     "micro_kernel_1_exit", "thread", "sorted", "return", "dummy"}

\* The registers are anything; the main thread is somewhere in the deque.
FirstUp(G) ==
    /\ DequeOK(FirstLabels, G)
    /\ \E k \in 1 .. Len(threads) : threads[k].ID = 0

FirstInv ==
    /\ console = << >>
    /\ get_kernel_up => \E G : FirstUp(G)

\* All the instructions but two change registers and memory only.
LEMMA FirstInstruction ==
    ASSUME KernelInstruction, PC \in FirstLabels
    PROVE  /\ UNCHANGED get_kernel_up
           /\ \/ UNCHANGED threads /\ PC' \in FirstLabels
              \/ PTHREAD_CREATE("thread", "save")
              \/ PTHREAD_RETURN("dummy")
<1>1. ASSUME NEW next \in FirstLabels, GoTo(next)
      PROVE  UNCHANGED <<get_kernel_up, threads>> /\ PC' \in FirstLabels
  BY <1>1 DEF GoTo, Jump
<1>2. /\ \A label, regs, result : \A next \in FirstLabels :
            Divides(label, regs, result, next) =>
               UNCHANGED <<get_kernel_up, threads>> /\ PC' \in FirstLabels
      /\ \A label, regs : \A next \in FirstLabels :
            Block(label, regs, next) =>
               UNCHANGED <<get_kernel_up, threads>> /\ PC' \in FirstLabels
  BY DEF Divides, Block, Jump
<1>3. CASE Sort
  <2>1. \A i \in DOMAIN ReturnPoints : ReturnPoints[i] \in FirstLabels
    BY DEF ReturnPoints, FirstLabels, SortLabels
  <2>2. {"mergesort", "mergesort_return", "merge", "mergeloop", "mergeloop_out"}
           \subseteq FirstLabels
    BY DEF FirstLabels, SortLabels
  <2>3. CASE mergesort
    BY <1>2, <2>2, <2>3 DEF mergesort
  <2>4. CASE right_half
    BY <1>2, <2>2, <2>4 DEF right_half
  <2>5. CASE halves
    BY <1>2, <2>2, <2>5 DEF halves
  <2>6. CASE merge
    BY <1>2, <2>2, <2>6 DEF merge
  <2>7. ASSUME NEW label, Return(label)
        PROVE  UNCHANGED <<get_kernel_up, threads>> /\ PC' \in FirstLabels
    BY <1>2, <2>1, <2>7 DEF Return
  <2>8. CASE mergeloop
    BY <1>2, <2>2, <2>8 DEF mergeloop
  <2> QED
    BY <1>3, <2>3, <2>4, <2>5, <2>6, <2>7, <2>8 DEF Sort
<1>4. CASE Worker
  <2>1. {"mergesort", "thread_bounds", "return", "dummy"} \subseteq FirstLabels
    BY DEF FirstLabels, SortLabels
  <2>2. CASE thread \/ thread_bounds
    BY <1>2, <2>1, <2>2 DEF thread, thread_bounds
  <2>3. CASE PTHREAD_RETURN("dummy")
    BY <2>3 DEF PTHREAD_RETURN
  <2> QED
    BY <1>1, <1>2, <1>4, <2>1, <2>2, <2>3 DEF Worker, Syscall
<1>5. CASE micro_kernel_1
  <2>1. {"create", "out", "loop_join", "join", "joined", "loop_join_end", "merge",
         "print_ret", "mergesort", "micro_kernel_1_exit"} \subseteq FirstLabels
    BY DEF FirstLabels, SortLabels
  <2>2. CASE loop_create
    <3>1. CASE PTHREAD_CREATE("thread", "save")
      BY <3>1 DEF PTHREAD_CREATE
    <3> QED
      BY <1>2, <2>1, <2>2, <3>1 DEF loop_create, Syscall
  <2>3. CASE loop_join
    <3>1. CASE PTHREAD_JOIN("joined")
      BY <2>1, <3>1 DEF PTHREAD_JOIN
    <3> QED
      BY <1>2, <2>1, <2>3, <3>1 DEF loop_join, Syscall
  <2>4. ASSUME NEW label, NEW n, NEW end, NEW next, CallMerge(label, n, end, next)
        PROVE  UNCHANGED <<get_kernel_up, threads>> /\ PC' \in FirstLabels
    <3>1. PICK regs, result : Divides(label, regs, result, "merge")
      BY <2>4 DEF CallMerge
    <3> QED
      BY <1>2, <2>1, <3>1
  <2>5. ASSUME NEW label, NEW regs, NEW next \in FirstLabels, printArr(label, regs, next)
        PROVE  UNCHANGED <<get_kernel_up, threads>> /\ PC' \in FirstLabels
    BY <1>2, <2>5 DEF printArr
  <2>6. CASE EXIT_SYSCALL
    BY <2>6 DEF EXIT_SYSCALL
  <2> QED
    BY <1>2, <1>5, <2>1, <2>2, <2>3, <2>4, <2>5, <2>6 DEF micro_kernel_1, Syscall
<1> QED
  BY <1>3, <1>4, <1>5 DEF KernelInstruction

LEMMA MoreRegisters ==
    ASSUME NEW P, NEW G, NEW H, G \subseteq H
    PROVE  Seq(Thread(P, G)) \subseteq Seq(Thread(P, H))
<1>1. Thread(P, G) \subseteq Thread(P, H)
  BY DEF Thread
<1> QED
  BY <1>1

LEMMA FirstRuns ==
    ASSUME NEW G, FirstUp(G), KernelInstruction
    PROVE  \E H : FirstUp(H)'
<1> DEFINE called == [R EXCEPT !.a0 = EntryAddress]
           new == [ID |-> Len(threads), state |-> "READY", PC |-> "thread",
                   R |-> [called EXCEPT !.v0 = called.a0]]
<1> PICK H \in {G \cup {R', new.R}} : TRUE
  OBVIOUS
<1>1. /\ threads \in Seq(Thread(FirstLabels, G)) /\ threads # << >>
      /\ \A k \in 2 .. Len(threads) : threads[k].state # "RUN"
      /\ PC \in FirstLabels /\ R' \in H /\ new.R \in H /\ G \subseteq H
  BY DEF FirstUp, DequeOK
<1>2. threads \in Seq(Thread(FirstLabels, H)) /\ Len(threads) \in Nat /\ 1 \in 1 .. Len(threads)
  <2>1. threads \in Seq(Thread(FirstLabels, H))
    BY <1>1, MoreRegisters
  <2> QED
    BY <1>1, <2>1
<1>3. PICK m \in 1 .. Len(threads) : threads[m].ID = 0
  BY DEF FirstUp
<1>4. CASE UNCHANGED threads /\ PC' \in FirstLabels
  BY <1>1, <1>2, <1>3, <1>4 DEF FirstUp, DequeOK
<1>5. CASE PTHREAD_CREATE("thread", "save")
  <2>1. threads' = Append(threads, new) /\ PC' = "save" /\ Len(threads) < MaxThreads
    BY <1>5 DEF PTHREAD_CREATE
  <2>2. new \in Thread(FirstLabels, H) /\ new.state = "READY" /\ PC' \in FirstLabels
    <3>1. Len(threads) \in Ids
      BY <1>2, <2>1, Constants DEF Ids
    <3> QED
      BY <1>1, <2>1, <3>1 DEF Thread, FirstLabels
  <2> HIDE DEF new
  <2>3. /\ threads' \in Seq(Thread(FirstLabels, H)) /\ Len(threads') = Len(threads) + 1
        /\ threads'[Len(threads) + 1] = new
        /\ \A k \in 1 .. Len(threads) : threads'[k] = threads[k]
    BY <1>2, <2>1, <2>2
  <2>4. threads' # << >> /\ \A k \in 2 .. Len(threads') : threads'[k].state # "RUN"
    BY <1>1, <1>2, <2>2, <2>3
  <2>5. m \in 1 .. Len(threads') /\ threads'[m].ID = 0
    BY <1>2, <1>3, <2>3
  <2> QED
    BY <1>1, <2>2, <2>3, <2>4, <2>5 DEF FirstUp, DequeOK
<1>6. CASE PTHREAD_RETURN("dummy")
  <2> DEFINE front == [threads[1] EXCEPT !.state = "DEAD"]
  <2>1. threads' = [threads EXCEPT ![1] = front] /\ PC' = "dummy"
    BY <1>6 DEF PTHREAD_RETURN, SetState
  <2>2. /\ front \in Thread(FirstLabels, H) /\ front.ID = threads[1].ID
        /\ PC' \in FirstLabels
    <3>1. threads[1] \in Thread(FirstLabels, H)
      BY <1>2
    <3> QED
      BY <2>1, <3>1 DEF Thread, FirstLabels
  <2> HIDE DEF front
  <2>3. /\ threads' \in Seq(Thread(FirstLabels, H)) /\ Len(threads') = Len(threads)
        /\ threads'[1] = front
        /\ \A k \in 1 .. Len(threads) : k # 1 => threads'[k] = threads[k]
    BY <1>2, <2>1, <2>2, ExceptSeq
  <2>4. threads' # << >> /\ \A k \in 2 .. Len(threads') : threads'[k].state # "RUN"
    BY <1>1, <1>2, <2>3
  <2>5. m \in 1 .. Len(threads') /\ threads'[m].ID = 0
    BY <1>3, <2>2, <2>3
  <2> QED
    BY <1>1, <2>2, <2>3, <2>4, <2>5 DEF FirstUp, DequeOK
<1> QED
  BY <1>1, <1>4, <1>5, <1>6, FirstInstruction

LEMMA FirstKeeps ==
    ASSUME FirstInv, microkernel = 1, MainNext
    PROVE  FirstInv'
<1>1. console' = << >>
  BY DEF FirstInv, MainNext, init_main, Initialize, MainTick, First, Second
<1>2. CASE KernelInstruction
  <2>1. PICK G : FirstUp(G)
    BY <1>2 DEF KernelInstruction, Running, FirstInv
  <2>2. \E H : FirstUp(H)'
    BY <1>2, <2>1, FirstRuns
  <2> QED
    BY <1>1, <2>2 DEF FirstInv
<1>3. CASE INIT_SYSCALL
  <2> PICK r \in {[R EXCEPT !.v0 = R.a0]} : TRUE
    OBVIOUS
  <2> DEFINE main == [ID |-> 0, state |-> "RUN", PC |-> "out", R |-> r]
  <2>1. threads' = << main >> /\ R' = r /\ PC' = "out"
    BY <1>3 DEF INIT_SYSCALL
  <2>2. /\ main \in Thread(FirstLabels, {r}) /\ main.ID = 0 /\ "out" \in FirstLabels
    BY Constants DEF Thread, FirstLabels, Ids
  <2> HIDE DEF main
  <2>3. /\ threads' \in Seq(Thread(FirstLabels, {r})) /\ Len(threads') = 1
        /\ threads' # << >> /\ threads'[1] = main
    BY <2>1, <2>2
  <2>4. FirstUp({r})'
    BY <2>1, <2>2, <2>3 DEF FirstUp, DequeOK
  <2> QED
    BY <1>1, <2>4 DEF FirstInv
<1>4. CASE Tick
  <2>1. SPIM_timerHandler /\ get_kernel_up
    BY <1>4 DEF Tick, SPIM_timerHandler, TimerSwitches
  <2>2. PICK G : FirstUp(G)
    BY <2>1 DEF FirstInv
  <2>3. DequeOK(FirstLabels, G)
    BY <2>2 DEF FirstUp
  <2>4. PICK m \in 1 .. Len(threads) : threads[m].ID = 0
    BY <2>2 DEF FirstUp
  <2>5. \/ UNCHANGED <<threads, current_thread, PC, R>>
        \/ \E g \in [1 .. Len(threads) -> 1 .. Len(threads)] :
              TurnedIn(FirstLabels, G, g, Len(threads))
    BY <2>1, <2>3, SwitchTurnsIn
  <2>6. CASE UNCHANGED <<threads, current_thread, PC, R>>
    BY <1>1, <2>2, <2>6 DEF FirstInv, FirstUp, DequeOK
  <2>7. ASSUME NEW g \in [1 .. Len(threads) -> 1 .. Len(threads)],
               TurnedIn(FirstLabels, G, g, Len(threads))
        PROVE  FirstUp(G)'
    <3>1. /\ Len(threads') = Len(threads) /\ threads' \in Seq(Thread(FirstLabels, G))
          /\ PC' \in FirstLabels /\ R' \in G
          /\ \A k \in 1 .. Len(threads) : /\ threads'[k].ID = threads[g[k]].ID
                                          /\ threads'[k].state = "RUN" <=> k = 1
          /\ \A j \in 1 .. Len(threads) : \E k \in 1 .. Len(threads) : g[k] = j
      BY <2>7 DEF TurnedIn
    <3>2. PICK k \in 1 .. Len(threads) : g[k] = m
      BY <2>4, <3>1
    <3>3. threads'[k].ID = 0
      BY <2>4, <3>1, <3>2
    <3>4. threads # << >> /\ threads \in Seq(Thread(FirstLabels, G))
      BY <2>3 DEF DequeOK
    <3>5. \A j \in 2 .. Len(threads') : threads'[j].state # "RUN"
      <4>1. \A j \in 2 .. Len(threads') : j \in 1 .. Len(threads) /\ j # 1
        BY <3>1, <3>4
      <4> QED
        BY <3>1, <4>1
    <3>6. threads' # << >>
      BY <3>1, <3>4
    <3> QED
      BY <3>1, <3>2, <3>3, <3>5, <3>6 DEF FirstUp, DequeOK
  <2> QED
    BY <1>1, <2>5, <2>6, <2>7 DEF FirstInv
<1> QED
  BY <1>2, <1>3, <1>4 DEF MainNext, init_main, Initialize, MainTick, First, Second

-----------------------------------------------------------------------------
(* The whole of init.s *)

MainInv == \/ microkernel = 1 /\ FirstInv
           \/ microkernel = 2 /\ SecondInv

LEMMA MainInvariant == MainSpec => []MainInv
<1>1. MainInit => MainInv
  <2>1. microkernel = 1 /\ KernelInit /\ K2!NothingPrinted => FirstInv
    BY DEF KernelInit, Boot, FirstInv, K2!NothingPrinted
  <2> QED
    BY <2>1, SecondInit DEF MainInit, MainInv
<1>2. MainInv /\ [MainNext]_allVars => MainInv'
  <2> SUFFICES ASSUME MainInv, [MainNext]_allVars PROVE MainInv'
    OBVIOUS
  <2>1. CASE MainNext
    <3>1. microkernel' = microkernel
      BY <2>1 DEF MainNext, init_main, Initialize, MainTick, First, Second
    <3> QED
      BY <2>1, <3>1, FirstKeeps, SecondKeeps DEF MainInv
  <2>2. CASE UNCHANGED allVars
    BY <2>2, NothingKeeps DEF allVars, kernelVars, memory, vars, MainInv, FirstInv, FirstUp,
                              DequeOK, SecondInv, DownInv, K2!NothingPrinted
  <2> QED
    BY <2>1, <2>2
<1> QED
  BY <1>1, <1>2, PTL DEF MainSpec

LEMMA PrintedLines == Printed(console, products) => LinesApart
<1> SUFFICES ASSUME Printed(console, products), NEW n \in 1 .. Len(console)
             PROVE  K2!InOrder(console, products, n)
  BY DEF LinesApart, K2!LinesApart
<1>1. Order(console, n) /\ Numbered(console, products, n)
  BY DEF Printed
<1> QED
  BY <1>1 DEF K2!InOrder, K2!Main, Order, Numbered

\* A product is printed in three calls, and the timer may switch to another thread
\* between any two of them: no piece of another product gets between them, and the
\* number is that of the thread's own round.  What can get between them is what is
\* printed without the mutex, never by the thread that prints the line.
THEOREM LinesStayApart == MainSpec => []LinesApart
<1>1. MainInv => LinesApart
  <2>1. console = << >> => LinesApart
    <3>1. console = << >> => Len(console) = 0
      OBVIOUS
    <3> QED
      BY <3>1 DEF LinesApart, K2!LinesApart
  <2>2. SecondInv => LinesApart
    <3>1. CASE get_kernel_up
      BY <3>1, PrintedLines DEF SecondInv, UpInv, ConsoleInv
    <3>2. CASE ~get_kernel_up
      BY <2>1, <3>2 DEF SecondInv, DownInv, K2!NothingPrinted
    <3> QED
      BY <3>1, <3>2
  <2> QED
    BY <2>1, <2>2 DEF MainInv, FirstInv
<1> QED
  BY <1>1, MainInvariant, PTL

LEMMA SecondJoined == SecondInv => JoinedAtExit
<1> SUFFICES ASSUME SecondInv, get_kernel_up,
                    K2!At(CHOOSE k \in K2!WithID(K2!Main) : TRUE) = "exit"
             PROVE  /\ who = NoOwner
                    /\ \A id \in {1, 2} :
                          /\ \A k \in 1 .. Len(threads) :
                                threads[k].ID = id => threads[k].state = "DEAD"
                          /\ products[id] = Rounds - 1
  BY DEF JoinedAtExit, K2!JoinedAtExit, K2!NoOwner, NoOwner, K2!Producer, K2!Consumer,
         K2!WithID
<1>1. UpInv /\ CallerInv /\ Rows /\ Owner /\ DequeIDs
  BY CallerLemma DEF SecondInv, UpInv
<1>2. PICK m \in 1 .. Len(threads) : threads[m].ID = 0 /\ At(m) = "exit"
  <2>1. K2!WithID(K2!Main) = {k \in 1 .. Len(threads) : threads[k].ID = 0}
    BY DEF K2!WithID, K2!Main
  <2>2. 0 \in 0 .. Len(threads) - 1
    BY <1>1 DEF CallerInv
  <2>3. PICK j \in 1 .. Len(threads) : threads[j].ID = 0
    BY <1>1, <2>2 DEF DequeIDs
  <2>4. (CHOOSE k \in K2!WithID(K2!Main) : TRUE) \in K2!WithID(K2!Main)
    BY <2>1, <2>3
  <2> QED
    BY <2>1, <2>4 DEF K2!At, At
<1>3. Len(threads) = 3 /\ Gone(1) /\ Gone(2)
  BY <1>1, <1>2 DEF Rows, MainRow, AfterFirst, AfterBoth
<1>4. ASSUME NEW id \in {1, 2}
      PROVE  \E k \in 1 .. Len(threads) : /\ threads[k].ID = id /\ At(k) = "dummy"
                                          /\ products[id] = Rounds - 1
  <2>1. PICK k \in 1 .. Len(threads) : threads[k].ID = id
    BY <1>1, <1>3 DEF DequeIDs
  <2>2. threads[k].state = "DEAD"
    BY <1>3, <2>1 DEF Gone
  <2>3. /\ At(k) = "dummy"
        /\ WorkerRow(At(k), RAt(k), id, console, products)
    BY <1>1, <2>1, <2>2 DEF Rows
  <2> QED
    BY <2>1, <2>3 DEF WorkerRow, AtEnd
<1>5. who = NoOwner
  <2>1. who # 0
    BY <1>1, <1>2 DEF Owner, Critical
  <2>2. ASSUME NEW id \in {1, 2} PROVE who # id
    <3>1. PICK k \in 1 .. Len(threads) : threads[k].ID = id /\ At(k) = "dummy"
      BY <1>4
    <3> QED
      BY <1>1, <3>1 DEF Owner, Critical
  <2>3. who \in {NoOwner} \cup 0 .. 2
    BY <1>1, <1>3 DEF Owner
  <2> QED
    BY <2>1, <2>2, <2>3
<1> QED
  BY <1>3, <1>4, <1>5 DEF Gone

\* The main thread gets to its exit only when both joins have returned: then the
\* producer and the consumer are dead, each after its Rounds - 1 products, and
\* neither of them has kept the mutex.
THEOREM MainExitsLast == MainSpec => []JoinedAtExit
<1>1. FirstInv => JoinedAtExit
  <2> SUFFICES ASSUME FirstInv, get_kernel_up
               PROVE  K2!At(CHOOSE k \in K2!WithID(K2!Main) : TRUE) # "exit"
    BY DEF JoinedAtExit, K2!JoinedAtExit
  <2>1. PICK G : FirstUp(G)
    BY DEF FirstInv
  <2>2. PICK k \in 1 .. Len(threads) : k = CHOOSE j \in K2!WithID(K2!Main) : TRUE
    BY <2>1 DEF FirstUp, K2!WithID, K2!Main
  <2>3. PC \in FirstLabels /\ threads[k].PC \in FirstLabels
    BY <2>1, EntryTypesOf DEF FirstUp, DequeOK
  <2> QED
    BY <2>2, <2>3 DEF K2!At, FirstLabels, SortLabels
<1>2. MainInv => JoinedAtExit
  BY <1>1, SecondJoined DEF MainInv
<1> QED
  BY <1>2, MainInvariant, PTL
=============================================================================
