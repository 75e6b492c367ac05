# Verification of the two thread libraries

The repository holds two programs that have one subject, threads on one
processor with preemption:

* a small 32-bit x86 kernel (`x86/OS_Source`) with a round-robin scheduler,
  threads that can be created, terminated, yielded and joined, a Peterson lock,
  five test programs compiled into `kernelMain`, and, beside them, the classes
  of a small operating system: descriptor table, PCI, drivers, windows;
* an extension of the MIPS simulator SPIM (`MIPS`) by thread system calls, a
  mutex and a timer handler, with two microkernels in MIPS assembly.

The modules here model the schedulers, the locks, the programs on top of them,
the console they print on, and the classes from the interrupt controllers to the
window system. Paths below are relative to `src/Thread-Library-x86andMIPS/`;
`OS` stands for `x86/OS_Source/src`.

## 1. Inventory

| Component | State | Operations | What makes it correct |
|---|---|---|---|
| Thread library, `OS/multitasking.cpp` | run queue `threads[256]`, `thread_size`, `current_thread_idx`, the kernel's saved frame, per thread state, ID and saved frame | `CreateThread`/`AddThread`, `RemoveThread`, `RemoveCurrentThread`, `Schedule`, `TermniateThread`, `YieldThread`, `JoinThread` | no context lost or loaded twice; a live thread stays in the queue and runs again; a dead one never runs again; join returns only then |
| Interrupt dispatch, `OS/hardwarecommunication/interrupts.cpp`, `interruptstubs.s` | table of gates, handler table, the controllers' requests and lines in service, the stack pointer handed through | constructor, `DoHandleInterrupt`, `Activate` | saves through the right index; an unhandled interrupt is the end of a thread; every request is served and ended at both controllers |
| Peterson lock, `OS/kernel.cpp:43-65` | `turn`, `thread_flags` | lock, unlock | exclusion, entry, bounded overtaking |
| Test programs, `OS/kernel.cpp:67-266` | `itemSize`, the threads | five tests | each ends as its comments say |
| Console, `OS/kernel.cpp:268-364` | a static cursor | `printf`, `printfHex`, `itoa`, `printfInt` | the cursor comes back to the screen whoever is preempted, each call returns, a number is what is printed |
| GDT, `OS/gdt.cpp` | eight bytes a segment | constructor, `Base`, `Limit` | the decoded limit does not grow and loses less than a page |
| PCI, `OS/hardwarecommunication/pci.cpp` | none of its own; the walk's loop variables | `SelectDrivers`, `DeviceHasFunctions`, `GetBaseAddressRegister`, `GetDriver` | every function is described once, with its port |
| Drivers, `OS/drivers/driver.cpp`, `keyboard.cpp`, `mouse.cpp` | list of drivers; packet buffer, offset, buttons | `AddDriver`, `ActivateAll`, two `Activate`s, two interrupt handlers | packets stay whole; buttons are what the mouse reported |
| Desktop, `OS/gui/*.cpp`, `OS/drivers/vga.cpp` | mouse position, place and focus of each widget, dragging | mouse and key events, focus, `Draw`, `FillRectangle` | a press reaches what is seen; a window moves with the mouse; keys go to what was pressed |
| SPIM threads, `MIPS/syscall.cpp` | deque of threads, `current_thread`, mutex, simulator registers and `PC` | eight system calls, `SPIM_timerHandler` | every thread keeps its `PC` and general registers; the mutex has one owner; live threads run again |
| Microkernel 1, `MIPS/init.s:98-359, 542-626` | array, shared stack | four sorting threads, merges | sorted at the end |
| Microkernel 2, `MIPS/init.s:365-517` | IDs of the threads, console | producer, consumer, join | no two lines of products mixed, both joined, it ends |

How they interact. The x86 timer interrupt enters a stub that pushes the
registers on the interrupted thread's own stack and hands the stack pointer to
`DoHandleInterrupt`, which calls `Schedule`; the stub continues on the stack that
`Schedule` returns. Threads share the `Thread` objects (terminate writes a state
that join reads in a loop and `Schedule` tests), the program's globals and the
cursor of `printf`. A thread whose entry point returns runs into a fault, and the
handler for interrupts without a handler takes it out of the queue. Handlers of
devices are found in a table by the number of the interrupt; the mouse's calls
the desktop once for each move and each button, and the desktop passes the event
down the tree of windows. In SPIM the simulator calls `do_syscall` for every
system call and `SPIM_timerHandler` between two instructions; both work on the
deque, on the copy `current_thread` of its front, and on the simulator's registers.

What is hard. A tick may come between any two instructions of any thread; the
cleaning loop of `Schedule` changes the array it counts; the same index serves
to save one context and to choose the next; an unhandled interrupt, a
termination and a tick may come in any order; a failed lock or join is executed
again after any number of switches; a packet of the mouse comes in three
interrupts that share a buffer with the keyboard; windows move while an event is
passed to them. PROJECT.json lists these hazards line by line.

## 2. Modules

| Module | Stands for | Role |
|---|---|---|
| `Scheduler` | what the x86 library promises | abstract specification: live threads, one processor |
| `TaskManager` | `multitasking.cpp`, `DoHandleInterrupt` | core model |
| `MCTaskManager` | | symmetry for TLC |
| `TaskManagerProofs` | | contexts: the inductive invariant of `TaskManager` |
| `SchedulingProofs` | | who runs, who is removed, who stays listed; the steps of `Scheduler` |
| `Peterson`, `PetersonProofs` | the lock, used again and again | component model and proofs |
| `KernelTests` | `kernelMain` and its tests | composes `TaskManager` with the programs and the lock |
| `KernelTestsProofs` | | the tests are programs of `TaskManager`; the lock and the joins in them |
| `Console`, `ConsoleProofs` | `printf`, `printfInt`, `itoa` | component model; the cursor under preemption |
| `Gdt` | `gdt.cpp` | pure functions |
| `Pci` | `pci.cpp` | the walk over the bus |
| `Desktop` | `gui/*.cpp`, `FillRectangle` | state, events and drawing as operators |
| `Devices` | `interrupts.cpp`, `driver.cpp`, `keyboard.cpp`, `mouse.cpp` | composes `Gdt`, `Pci` and `Desktop` with controllers, drivers and devices |
| `MCDevices` | | a tree of windows, registers and segments for TLC |
| `DevicesProofs` | | the descriptors, the walk over the bus and the packets of the mouse, on any machine |
| `ThreadMachine` | what the SPIM extension promises | abstract specification: contexts that are kept, registers that are shared, a mutex |
| `SpimOS`, `SpimOSProofs` | `syscall.cpp` | core model; its invariant and refinement |
| `MicroKernel1` | `init.s:98-358, 539-714` | composes `SpimOS` with the program |
| `MCMicroKernel1` | `init.s:3-49` | the arrays for TLC, that of the program among them |
| `MicroKernel2` | `init.s:365-517` | composes `SpimOS` with the program |
| `MicroKernels` | `init_main`, `SPIMOS_GTU_1.s`, `SPIMOS_GTU_2.s` | the two programs behind their boot code |
| `MicroKernelsProofs` | | lines kept apart and finished threads, on the lemmas about the deque in `SpimOSProofs` |

### TaskManager

The variables carry the names of the code's. A saved `CPUState` is represented
by the context whose registers it holds: `cpustate[t] = u` says that the frame
of `t` holds the registers of `u`, which is right only for `u = t`. A frame lies on the
thread's stack and is popped by `iret`; it is `None` while its thread runs.
`cpu` is the context loaded in the processor.

`mode` says who runs. In `boot`, `kernelMain` creates and removes threads with
interrupts off. `Activate` leads to `user`, where the loaded context executes
instructions and any interrupt may come. The gates are interrupt gates, so the
handler is not interrupted, and in `schedule` and `clean` only its next step is
enabled: `ScheduleEmpty` or `SchedulePrologue` (lines 83-113), one `CleanRound`
for each round of the loop at 114-119, then `SwitchToKernel` or `SwitchThread`.
The loop is modelled round by round because what it does to the array between
the rounds is what matters. Entries beyond `thread_size` keep what they had, as
in the code.

`RemoveCurrentThread` before the first tick writes to `threads[-1]`; the model
goes to `wild` and stops, and the properties are silent there, unless they say when it
may happen.

`empty_cpustate` is a pointer that the code never sets. It is global, hence null, and
the first tick copies the kernel's frame to address 0. When the run queue is
empty, `Schedule` returns that address, the stub pops the frame, and the kernel goes
on in its loop with the stack pointer at 44 (`StackAtZero`). The next interrupt, of
any kind, fills the bytes 0 to 43 with its frame; the argument of `DoHandleInterrupt`
and its return address are pushed below address 0 and lost, and the handler does
not come back. `InterruptAtZero` therefore leads to `wild`. So the kernel gets the
processor back once, for the rest of one time slice. It makes no
difference whether threads have run before: a first tick over an empty queue does the same.

That a returning entry point faults is a property of the stack that
`CreateThread` builds (nothing lies above the frame) and of the processor; it is
what the comment in `interrupts.cpp:187` says. A tick may come between the return
and the fault. `-O0`, as in the makefile, is assumed: `JoinThread` and the
Peterson loop read memory in every round.

### Peterson and KernelTests

Every read or write of a shared variable is an action; `++itemSize` is a load
and a store. `Peterson` calls the lock again and again, with users terminated
at any point, and leaves the scheduler out. `KernelTests` has each test as
compiled, on the full `TaskManager`: an entry point is a sequence of
instructions, and one is executed only by the thread that is loaded.

### Console

Each access to the static `x` and `y` is a step, at `-O0`: a test of the loop, a
load and a store of an increment. In `80*y+x` the row is loaded first. A
`register` holds `y` while `x` is loaded, or what is being incremented. A printer
is a thread, switched at any step, or a handler, which is not interrupted.
The cursor is a pair of bytes and wraps at 256. A character is its distance from
`'0'`; what lies on the screen is not kept, only in which cell a character is stored.

### Devices, Desktop, Pci and Gdt

`kernelMain` uses `GlobalDescriptorTable`, `TaskManager` and `InterruptManager`
and creates none of the drivers, the PCI controller or the desktop. `Devices`
puts these classes together as their constructors and interfaces ask for:
drivers are created, which registers their handlers; the bus is walked;
`ActivateAll` runs; interrupts are switched on. Interrupts are off in a handler,
so that a handler is an action from the acknowledgement to the `iret`, and since
one handler calls the desktop several times, `Desktop` has its events as
operators from a state to the next.

External, from how the drivers use them: the two controllers (a request per line,
lines in service, priorities, the command 0x20), and the keyboard controller,
whose output buffer holds one byte of one of the devices. `Activate` of both
drivers sends a last command and does not wait for the answer 0xFA; so the buffer
may hold it when interrupts are switched on, and lines may ask with nothing
behind them. `mouse.clean` remembers whether that was so, because the first byte
in `buffer` is then not the first of a packet, and the driver never finds the
boundary again: `ButtonsInSync` claims nothing then, while the properties of the
desktop hold even so.

`Pci` has a step for each round of the loop over the functions and of the loop over
the registers. It chooses what is plugged into a slot when the walk gets there, and
forgets it afterwards, so that two slots stand for all. What `GetBaseAddressRegister` returns
without having written it is a nondeterministic choice.

`Gdt` and `itoa` are pure: they are evaluated over bounded inputs in the
initial states, and `Gdt` is proved for all 32-bit inputs (`DescriptorsFit`).

### SpimOS and the microkernels

The deque is a sequence whose first entry runs. A system call is an action; the
argument `next` is the label after it, and a call that the code repeats by
subtracting a word from `PC` leaves `PC` at its own label. Registers are those
that the calls on threads use. `SPIM_timerHandler` saves and switches in one
action, because the simulator calls it between two instructions.
The program of `SpimOS` is the most general one; `MicroKernel2` replaces it by
the producer and consumer program, whose counters live in registers (`a1`,
`t0`) and whose results are kept in `thread_id_array`.

What a switch keeps is `PC` and `R[]`. HI and LO, which `div` and `mult` write and
`mflo` reads, and the floating-point registers stay as they are, so the next thread
finds what the last one left there. `LO` stands for them all. It is outside the
records in the deque, any thread may write its own ID to it, pass it to a
call, and `ThreadMachine` has it as `shared`: no context is promised to include it.

In `MicroKernel2` all calls that print go to one `console`. The three calls of a
product are made with the mutex (a message, the number, a message); the announcement of
each round (`init.s:455-457`, `491-493`) and what the main thread reports are printed
without it, so an announcement can fall between two of the three calls. The console
is kept from one complete product to the next, and `products` counts what each
thread has made; both threads have the same code, and the thread that prints is named by
`current_thread.ID`, where the program has different messages. The simulator's own
reports on its switches, on the same screen, are left out.

`MicroKernel1` has the merge sort with its registers and its stack, because what
goes wrong there goes wrong in them: a new thread copies `$sp`, so that all
frames lie at the same addresses. A step is a block of instructions up to a
jump, a call or a return, except that the first block of a thread ends before it
reads its bounds back from the stack (`thread`, `thread_bounds`); one round of
`mergeloop` is a step, with the call of `shift_swap` in it. A tick falls between two
steps. A `div` or `mult` and the `mflo` after it lie in one block, so that a switch
between them, which loses the result, is in `SpimOS` and not here. Addresses count words, a
pointer into `array` is its index, and the return addresses on the stack are
negative numbers, so that a `jr` to anything else is seen: there the program
stops, as the simulator would with an exception. Of the registers those are
kept that a later block reads; `t0` is among them, since the merges of the main
thread divide by what `shift_swap` left in it. Messages are left out.

`init_main` dispatches on a number that each boot file sets; in `MicroKernels` it is the
constant of a behaviour (`microkernel`).

The simulator itself is not in the repository. That it calls the timer handler
regularly (every 100 ms in SPIM), never in the middle of an instruction, is assumed.

## 3. Runs

| Run | Question | Result |
|---|---|---|
| `scheduler_any` | any program, any interrupt: are contexts always saved under their own thread, is one thread RUNNING, does a removal by ID hit its own entry, is the invariant of the proofs right? | holds |
| `scheduler_one` | if at most one terminated thread waits for each tick: does the cleaning loop keep the live, do the dead stay dead, does every listed thread run again, is `Scheduler` implemented, liveness included? | holds |
| `scheduler_lost` | two terminated within one slice | **violated**: a live thread is dropped (`multitasking.cpp:114`) |
| `scheduler_irq` | an interrupt of a device that has no handler | **violated**: a thread that has not finished is ended (`interrupts.cpp:184-190`) |
| `peterson` | exclusion, stability of the consumer's test, overtaking, entry | holds |
| `kernel_tests` | do the threads of the five tests end as they say, wherever the ticks fall, and does the kernel's loop get the processor back; is no interrupt lost before? | holds |
| `console` | two threads and a handler print at once: is the cursor back on the screen afterwards, where may a character be stored, does every call return, is a number printed as it is? | holds |
| `devices` | keyboard, mouse and timer from start-up on: packets, dragging, focus, drawing, the walk over the bus, the descriptors, and is every interrupt served? | holds |
| `spim` | any program: are `PC` and the general registers kept, one mutex owner, `ThreadMachine` implemented; does every live thread run again, and does `context_switch` end? | holds, unless the first thread returns |
| `microkernels` | either program as it is meant (no tick while a thread sorts): every quarter sorted, joins that wait, the last array sorted with all its items; what may get into the line of a product, both joined; do they end? | holds |
| `microkernel1_merge` | do the three merges of the main thread sort the quarters? | **violated**: they leave the array of the program unsorted (`init.s:193`) |
| `microkernel1_race` | the same with ticks while a thread sorts | **violated**: a thread sorts another one's part (`init.s:287`, `syscall.cpp:315`) |

The two `scheduler_*` findings together delimit what the x86 library can be
used for: with at most one termination per time slice and no device without a
handler, it does what `Scheduler` says; beyond that, it loses threads. The
contexts themselves are never mixed up, whatever is terminated
(`scheduler_any`, and the theorems).

No test ends with a kernel that idles for ever. Four of the five end with an empty
queue, the kernel at its loop once more, and the loss of the next interrupt, because of
the null `empty_cpustate`. `TestsEnd` says as much: all threads end, the loop is
reached, and an interrupt is lost only after that. The fifth, the second join test,
never empties the queue.

`RemovesOnlyItsThread` is claimed of programs that create no thread twice. A
refused `CreateThread` leaves the ID at -1 (`multitasking.cpp:144`), and of two
threads that were both refused, `RemoveThread` takes the one that stands last;
with `Recreate = TRUE` in `scheduler_any` TLC shows it. `kernelMain` does not do that.

In SPIM the third guard of the timer handler (`syscall.cpp:274`) looks only at
the ID of the current thread: if thread 0 makes the call `PTHREAD_RETURN` while one
other thread lives, the handler never switches again, and if it was the last
one, `context_switch` never ends. No program of the repository does that;
`NoStarvation` and `SwitchEnds` name the exception (`MainReturned`, the label
`dummy`); both microkernels end (`KernelEnds`).

The two `microkernel1_*` findings are independent. The merges are wrong even
if the threads are never interrupted; what the program prints "For Main" is right in
spite of them, since it sorts the whole array once more (`MainSorted`). The race
needs a time slice to end inside a sort; with five items in a quarter and 100 ms
a slice that is seldom seen, which is why `TickInSort` separates the two
questions.

What the console does under preemption is limited. Two threads can lose or
double increments and drive `x` through all its values before one of them tests
it, and then a character goes up to 255 cells behind its row; `StoresNear`
therefore speaks of one thread with handlers, where the distance is bounded.
`CursorOnScreen` holds for all of them, because the last access to the cursor is
always followed by a test. `itoa` is right for every int but the least.

Exceptions that `devices` names rather than hides: a window that straddles the
left or the upper edge is not drawn, because `FillRectangle` is called with
unsigned numbers that wrap (`SeenIsHit`); a covered window whose button is
released above it goes on being dragged (`DragFollowsMouse` speaks of the one on
top); PCI headers of another type than 0 (`EnumerationRight`).

In the fifth test (`WITHOUT_PETERSON_TEST`) nothing is claimed of `itemSize`:
the program is there to show the race. In `CREATE_TERMINATE_JOIN_TEST_2` the
expected end is that Main waits for ever for the running Consumer.

Deadlock is not checked where the model really stops: in `wild`, which a kernel with
an empty queue always reaches (`scheduler_*`, `kernel_tests`), when both
users of the Peterson lock are terminated, when all printers have returned, when
a MIPS program has ended. It is checked in `devices`, which never stops. In the other
runs a system that stops too early violates a liveness property (`StarvationFree`,
`TestsEnd`, `EntersCriticalSection`, `PrintfReturns`, `NoStarvation`, `KernelEnds`).

### Bounds

* `scheduler_any` has four threads and a `Capacity` of three, so that the queue is
  full; `scheduler_one` has three: the loop's errors need a removed entry, its
  neighbour and a third. `MaxID` bounds the calls of `CreateThread`, so that IDs
  are finite. `MaxDead` is not a bound but the discipline of the program, and is
  what distinguishes the runs.
* `Recreate` (calls of `CreateThread` on a thread that is listed) is on in
  `scheduler_one`; `DeviceIrq` in `scheduler_any` and `scheduler_irq`.
* `MaxItems = 3`: the lock's state does not depend on the count; three items
  let both users pass several times.
* `Console`: a screen of 2 by 2 and strings of two characters, one of them a
  newline, so that a line wraps and both threads can clear the screen at once; the
  cursor begins anywhere. The bytes wrap at 256 as in the code. `MaxInt = 127`: every
  number of one, two and three digits that 8 bits hold, the least one included.
* `Devices`: a screen of 2 by 2 with two windows that overlap, each with a plain
  widget, so that the focus goes from one widget to the other and keys have to follow
  it; windows can be dragged off the screen.
  `Flags` and `Deltas` have a press, a release, no move, and a move by one to
  either side; a shifted packet takes any of them for the flags. `Slots = 2` and
  `Functions = 2`: a slot is forgotten when the walk goes on, and a device differs
  in whether function 0 and another one are there. `SomeLayouts` are no port, a
  port before and after memory, a last register that is 0. `SomeLimits` lie around
  the change to pages and around the ends of a page.
* `MaxThreads = 3` in `spim`: the thread that runs, one alive, one dead between
  them in the deque. `JoinedIds` are the IDs a program may join; 0 makes the
  machine panic, and one other is enough, since a join only waits.
* `microkernels`: five threads, as in the first program; `Arrays` holds its array,
  20 items in four quarters of odd length, so that the halves differ; for the
  race eight items suffice, one call of `merge` a quarter.
  `StackWords = 40` is more than the deepest stack: three words of the main
  thread, four of `thread`, and four for each call, of which at most six are open.
  `Rounds = 3` of 31: the loops do the same in every round; three make two products
  for each thread, so that a line follows another one of the same thread or of the
  other, with the announcements of either in between. `LinesStayApart` is proved for
  any number.

### Fairness

* `TaskManager`: weak fairness of the timer (at the kernel's lost stack as well), of
  the handler, and of `Activate`. The timer interrupt is periodic and is never disabled for ever; the
  handler runs with interrupts off and has no loop but the bounded one.
  Nothing is assumed of the threads, which may loop.
* `KernelTests`, `MicroKernels`: strong fairness of each thread's steps. They
  are enabled only while the thread has the processor; a time slice is long
  compared with an instruction, so a thread that is dispatched again and again
  makes steps. That it is dispatched again and again is not assumed: it follows
  from the scheduler.
* `Peterson`: weak fairness of each user once it has raised its flag; the
  scheduler gives it (`StarvationFree`).
* `Console`: weak fairness of each printer, for the same reason; a handler is not
  interrupted. Nothing is assumed of the order in which printers take turns.
* `Devices`: weak fairness of the timer's acknowledgement, the line of highest
  rank; strong fairness of the keyboard's and the mouse's, which a line of higher
  rank can put off, but not for ever, since a handler takes less time than passes
  between two requests of one device. `InterruptsServed` fails when a handler
  does not end its request, whatever the fairness.
* `SpimOS`: weak fairness of the boot code's first call and of the timer handler.
* `Scheduler`: strong fairness of each dispatch is part of the promise, and
  `scheduler_one` shows that the code keeps it.

## 4. Proofs

The theorems hold for every number of threads, every capacity and every
program, from the assumptions on the constants and the hypotheses in their
statements.

**Contexts** (`TaskManagerProofs`: `OwnershipInvariant`, `TypeCorrect`,
`ContextsAreOwned`). `ContextOwnership` speaks of the moments at which interrupts
are on, and is not inductive: between two of them the handler takes the queue
apart. `OwnershipInv` adds what holds inside: the queue has no duplicates
(`QueueOK`); before the tick is handled, the loaded context is the one at the
index, or the kernel's (`OwnerInv`); once it is saved, or once an unhandled
interrupt has removed the entry of the running thread, every entry holds its own
registers (`SavedInv`); the loop only reads entries that were in the queue when
it began (`LoopInv`); the kernel's frame is saved at the first tick
(`FirstTickInv`). There is one lemma for each action; that of `CleanRound` rests
on `RemoveAtLemma`, that a removal keeps the queue free of duplicates.
The loop's error does not break this invariant, which is why it can be proved for any
number of terminated threads: the loop may drop a live thread, but it never
mixes up frames.

**Scheduling** (`SchedulingProofs`), on top of that invariant:

* `OneThreadRuns`: `RunningInv` says that only the loaded thread is RUNNING, and
  that nobody is from the moment at which `Schedule` has yielded it, or a fault
  has ended it. It needs `OwnershipInv` for the step in which `Schedule` yields
  the thread at the index: that is the loaded one.
* `RemovalIsExact`, for programs that create no thread twice: `IDInv` says that
  positive IDs are distinct and that every entry has one while threads are
  created.
* `LiveStayListed` and `DeadAreNotRevived`, if at most one terminated thread
  waits for each tick (`MaxDead <= 1`): `CleaningInv` says where the one dead
  entry can be at every round of the loop. Before the removal there is at most
  one, and not before `i`; after it there is none in the queue, and the entry just
  behind it, which the loop still visits, is a copy of a live one. The second dead
  thread of `scheduler_lost` breaks exactly this.
* `KeepsPromise`, under the same hypothesis: every step of the library is a step of
  `Scheduler`, or a stutter. The live threads are read off the states, so that the
  handler's work on the queue and the frames is a stutter, and its last step a
  dispatch. That it dispatches a live thread needs all the invariants: the loop has
  left no dead entry (`CleaningInv`), what is in the queue was given its state
  by `AddThread` (`ListedNotNew`), and the frame that is loaded is that thread's
  own (`SavedInv`). If the queue is empty nobody is live (`LiveListed`), and the frame that
  is loaded is the kernel's (`FirstTickInv`). `Promise!Steps` is what
  `ImplementsScheduler` says without fairness.

**Peterson** (`PetersonProofs`): `PetersonExcludes`, `TestIsStable`,
`NobodyOvertakesTwice`, from the invariant that a live user's flag is up from
lock to unlock, and that while one is inside, the turn holds the other back.

**Test programs** (`KernelTestsProofs`):

* `TestsAreRuns`: a behaviour of `TestSpec` is one of `Spec`: an instruction of a
  test is an operation of the library or leaves its variables alone. So all
  invariants of `TaskManager` hold of the tests, and the rest builds on them.
* `ItemIsProtected` carries the argument of `PetersonProofs` over to the compiled
  program on the scheduler. `LockInv` says at which instructions a flag is up, and
  that while one is inside, the turn holds the other back, read off the
  programs as sequences (`CodeLemma`);
  `FoundInv` says what the consumer's test found.
  In this test there is no Main (`MainAbsent`), hence nobody is terminated inside the lock.
* `JoinedStay` needs more than the theorems about `DeadStaysDead`, because the test
  terminates two threads within one time slice if the ticks fall so, and
  then `Schedule` leaves one of them in the queue. What saves the
  test is its size. `CreatedInv` says that Producer, Consumer and Main stand in the queue in
  that order; from the first termination on, either Main is the last of at
  most three entries and the only one that is not dead, or all have gone
  (`MainLast`, `AllGone`); the index after the loop, taken modulo the new size,
  is then Main's whatever the loop has left before it. With a fourth
  thread the argument fails, and so does the library (`scheduler_lost`).

**Console** (`ConsoleProofs`), for every size of the screen below a byte's, any number of printers and
any strings:

* `CursorReturns`: `CursorInv` says that while `x` is beyond the line, some printer
  is on its way to the test of `x`, and the same of `y`.
* `PrintsNear`: one thread is `Alone`, handlers come between its steps and run to
  their end (`Interrupts`), so that each begins with a cursor that the thread left
  behind at one of its steps. `Near` gives, for each label of `printf`, how
  far `x` and `y` may be beyond the screen there: a slack that a handler inherits and
  gives back (`Within`); `Holds` says what a half-done increment has in its register.

**SPIM** (`SpimOSProofs`): `SpimInv` joins `TypeOK`, `FrontRuns` and `MutexSafety`
with what makes them inductive: every ID is below the length of the deque, from
which a new thread gets an ID that nobody has and the mutex's owner is never a
thread to come. `RotateLemma` says what turning a deque does, and `SwitchTurns`
what the timer handler does to it, whatever the number of dead threads it turns
past: every thread is still there, at its label and with its general registers, and the
front runs. From it follow the step of the invariant (`SwitchSpim`) and that of
the refinement (`SwitchPromise`). `ContextsAreKept` is the
refinement of `ThreadMachine`, which promises `PC` and the general registers and says of
the shared ones only that no call and no switch writes them: the mapping (`Contexts`, `AliveIds`) reads the
simulator's registers for the thread at the front and the deque for the others,
`ContextsLemma` says that it is well defined, and one lemma per group of calls
shows that the step is one of `ThreadMachine`'s, or a stutter. `SwitchesEnd`:
`EndInv` says that thread 0 stays in the deque and is dead only after its
`PTHREAD_RETURN` (any other end of it ends the program), and that the loop of
`context_switch` is caught only in a deque of dead threads.

**Microkernel 2** (`MicroKernelsProofs`): `LinesStayApart` and `MainExitsLast`, for any
number of rounds and wherever the timer switches. The labels of this program are not
those of the most general one, so `SpimInv` says nothing of it; the lemmas on the
deque hold for any labels and registers (`DequeOK`, `TurnedIn`) and are used again.
The inductive invariant, `SecondInv`, has a row for each entry of the deque and one
for the registers at the front. `MainRow` says at which label the main thread has created
which thread, has its ID in `v0`, in `thread_id_array` or in `a0`, and which thread is
`Gone` by then. `WorkerRow` relates the label of a producer or consumer and its
`a1` and `t0` to the number of `products` it has made; the number printed is right because
`t0` is one more than that from the countdown to the last call of the line. It also says where the thread
is `Silent`, that is, has printed nothing since the last product: it may announce there.
`Owner` says that the threads inside (`Critical`) are the mutex's owner, and `Phase`
how far the line is at each of its labels (`InLine`); with nobody inside, no line is
begun (`Complete`). An instruction changes the row of its own thread only (`CallerKeeps`), and a
switch permutes the rows (`TurnKeeps`). A dead thread is one at `dummy`, hence one that
has finished its products and is not inside: from that and the two joins follows
`JoinedAtExit`. `Printed` is `LinesApart` as a property of a stretch of the console, in two parts
(`Order`, `Numbered`). `CutLemma` is about a stretch that begins anew after a product;
`AnnounceLemma` says that an announcement leaves the line of another thread where it
is (`Kept`), `LineLemma` that the owner's next piece continues it. Of the first microkernel it is enough that its labels are its own and that
the main thread stays in the deque (`FirstInv`).

**Devices** (`DevicesProofs`), for any tree of widgets, any bytes, and any number of
slots, functions and contents of registers:

* `ButtonsStayInSync`: a packet is spread over the mouse, the output buffer and
  the driver, and `ButtonsInSync` speaks only of the moments between two packets.
  `Taken` says how many bytes the driver has in between, with one in the output
  buffer or none, `FlagsAt` where the flags are that the mouse sent last.
  It is `KeyboardOK` that keeps a byte of the mouse from the keyboard's driver, which
  does not look at the status: a request of the keyboard is outstanding only while
  the byte is its own. That holds after a clean start only. `Registrations`
  says that each driver has the interrupt of its line once interrupts are on.
* `DescriptorsFit`, for all bases and limits of 32 bits; `SegmentsAlwaysFit` says so of
  those that the run evaluates.
* `EnumerationIsRight`: `ReportedOK` says that the functions passed are those
  reported, each once, `PortsOK` that the port is the last one read so far
  (`LastPortStep`), whatever an unset register returns (`RegisterLemma`). A device
  without function 0 is no exception, because `NextWalk` needs only that the loop
  reaches every function that is there.

Only model-checked:

* liveness (`StarvationFree`, `EntersCriticalSection`, `TestsEnd`,
  `PrintfReturns`, `InterruptsServed`, `NoStarvation`, `KernelEnds`) and the fairness
  in `ImplementsScheduler`: the prover has no rules for fairness;
* `ItoaRight` and the sorting of `MicroKernel1` (`SortsItsPart`, `QuartersBeforeMerge`,
  `MainSorted`): induction over the digits, and over the calls of `mergesort`;
* the properties of `Desktop` and `DragFollowsMouse`: events go down a tree of windows by
  recursive functions, and what these do to every tree needs induction over it.

## 5. Not modelled, and the plan

Left out for good: the instructions behind `Port`, the boot code, the table of
scan codes, VGA's mode registers and palette, the lines on `Deactivate` and the
destructors, which nothing reaches (I/O, tables without state, dead code);
`printfHex`, which writes two digits into a literal; SPIM's own system calls
and the simulator.

What remains, in order:

1. **`CreateThread` and `RemoveThread` by a running thread**, statement by
   statement, against `Schedule`: `TaskManager` with a module for the
   operations that are then not atomic. The repository calls them with
   interrupts off only.
2. **Error codes**: the exception stubs and the layout of `CPUState`, byte by
   byte, so that an exception with an error code differs from one without.
