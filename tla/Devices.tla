-------------------------------- MODULE Devices --------------------------------
(***************************************************************************)
(* The devices of the x86 kernel as its classes are meant to be put        *)
(* together: the interrupt manager (interrupts.cpp) with the drivers of    *)
(* keyboard and mouse (keyboard.cpp, mouse.cpp, driver.cpp), the desktop   *)
(* behind them (Desktop.tla), and the walk over the PCI bus (Pci.tla)      *)
(* before interrupts are on.                                               *)
(*                                                                         *)
(* A handler runs with interrupts off and is one action.  What it does to  *)
(* threads is in TaskManager.tla.  Interrupt lines are numbered 0 to 15,   *)
(* interrupts 0 to 255.  External: the two interrupt controllers and the   *)
(* keyboard controller, whose output buffer holds one byte, of the         *)
(* keyboard or of the mouse.                                               *)
(***************************************************************************)
EXTENDS Desktop, Pci, Gdt

CONSTANTS
    Flags,      \* first bytes of the packets that the mouse sends
    Deltas,     \* second and third bytes
    Keys,       \* scan codes
    Bases,      \* bases and limits of segments
    Limits

Keyboard == 1           \* interrupt lines
Mouse == 12

ASSUME DevicesAssumption ==
    /\ Flags \cup Deltas \cup Keys \subseteq 0 .. 255
    /\ Bases \cup Limits \subseteq Nat
    /\ None \notin {Keyboard, Mouse}

VARIABLES
    boot,       \* "create", "enumerate", "activate", "run"
    drivers,    \* of the driver manager
    handlers,   \* by interrupt
    irr,        \* lines that ask for an interrupt
    isr,        \* lines in service: the controllers wait for their end
    output,     \* the output buffer: None, or whose byte
    packet,     \* buffer[0 .. offset - 1]; what lies behind is written before it is read
    buttons,
    mouse       \* the device: flags of the last packet, bytes of it that it has
                \* sent, and whether nothing was outstanding when interrupts
                \* were switched on (history)

controllers == <<irr, isr>>
driver == <<packet, buttons, desktop>>
vars == <<walk, boot, drivers, handlers, controllers, output, driver, mouse>>

Empty == [from |-> None, byte |-> 0]

-----------------------------------------------------------------------------
(* InterruptManager *)

hardwareInterruptOffset == 32

\* The stub behind an entry of the interrupt descriptor table.
Gate(interrupt) ==
    IF interrupt < 20 THEN "HandleException"
    ELSE IF interrupt - hardwareInterruptOffset \in 0 .. 15 THEN "HandleInterruptRequest"
    ELSE "InterruptIgnore"

\* The interrupt that a line causes, as the controllers are programmed.
Remapped(line) == hardwareInterruptOffset + line

Master == 0 .. 7
Slave == 8 .. 15

\* The second controller asks through line 2 of the first.
Rank(line) == IF line \in Master THEN 10 * line ELSE 20 + line - 8
InService(line) == IF line \in Master THEN {line} ELSE {2, line}

\* The processor gets the first line in rank that no line in service blocks.
Delivers(line) ==
    /\ line \in irr
    /\ \A l \in irr : Rank(line) <= Rank(l)
    /\ \A l \in isr : Rank(line) < Rank(l)

\* The processor asks the controllers which interrupt it is.
Acknowledges(line) ==
    /\ boot = "run"
    /\ Delivers(line)
    /\ irr' = irr \ {line}

\* The command 0x20 at a controller ends the first of its lines in service.
Ended(s, lines) == s \ {l \in s \cap lines : \A m \in s \cap lines : l <= m}

EndOfInterrupt_Master(interrupt, s) ==  \* mutant: the second controller is forgotten
    Ended(s, Master)

\* The commands at the end of DoHandleInterrupt.
EndOfInterrupt(interrupt, s) ==
    IF interrupt >= hardwareInterruptOffset + 8 THEN Ended(Ended(s, Master), Slave)
    ELSE Ended(s, Master)

-----------------------------------------------------------------------------
(* The drivers *)

Bit(byte, i) == (byte \div 2 ^ i) % 2
Int8(byte) == IF byte < 128 THEN byte ELSE byte - 256

\* A packet: the move first, then each button whose bit has changed.
OnPacket(b) ==
    LET moved == IF b[2] # 0 \/ b[3] # 0
                 THEN OnMouseMove(desktop, Int8(b[2]), -Int8(b[3])) ELSE desktop
        Button(d, i) == IF Bit(b[1], i) = Bit(buttons, i) THEN d
                        ELSE IF Bit(buttons, i) = 1 THEN OnMouseUp(d, i + 1)
                        ELSE OnMouseDown(d, i + 1)
    IN  /\ desktop' = FoldLeft(Button, moved, <<0, 1, 2>>)
        /\ buttons' = b[1]
        /\ packet' = << >>

HasMouseByte_Any == TRUE        \* mutant: the status is not tested

\* Bit 0x20 of the status.
HasMouseByte == output.from = Mouse

\* MouseDriver::HandleInterrupt.
MouseInterrupt ==
    IF ~HasMouseByte THEN UNCHANGED <<driver, output>>
    ELSE /\ output' = Empty
         /\ IF Len(packet) = 2 THEN OnPacket(Append(packet, output.byte))
            ELSE packet' = Append(packet, output.byte) /\ UNCHANGED <<buttons, desktop>>

\* KeyboardDriver::HandleInterrupt reads the byte, whoever sent it.  Plain widgets
\* ignore keys and the driver prints the code of an unknown one: the state stays.
KeyboardInterrupt == output' = Empty /\ UNCHANGED driver

DoHandleInterrupt(interrupt) ==
    CASE handlers[interrupt] = Keyboard -> KeyboardInterrupt
      [] handlers[interrupt] = Mouse -> MouseInterrupt
      [] OTHER -> UNCHANGED <<driver, output>>      \* TaskManager

\* The line's interrupt, from its acknowledgement to the return of the stub.
Interrupt(line) ==
    LET interrupt == Remapped(line)
        served == isr \cup InService(line)
    IN  /\ Acknowledges(line)
        /\ IF Gate(interrupt) = "InterruptIgnore"
           THEN isr' = served /\ UNCHANGED <<driver, output>>
           ELSE isr' = EndOfInterrupt(interrupt, served) /\ DoHandleInterrupt(interrupt)
        /\ UNCHANGED <<walk, boot, drivers, handlers, mouse>>

-----------------------------------------------------------------------------
(* Start-up *)

Init ==
    /\ DesktopInit /\ PciInit
    /\ boot = "create"
    /\ drivers = << >>
    /\ handlers = [n \in 0 .. 255 |-> None]
    /\ irr = {} /\ isr = {} /\ output = Empty
    /\ packet = << >> /\ buttons = 0
    /\ mouse = [flags |-> 0, sent |-> 0, clean |-> FALSE]

\* The constructor of InterruptHandler, the base of both drivers.
Registered(interrupt, handler) == [handlers EXCEPT ![interrupt] = handler]

AddDriver(drv) == drivers' = Append(drivers, drv)

CreateKeyboard ==
    /\ boot = "create" /\ drivers = << >>
    /\ handlers' = Registered(33, Keyboard)
    /\ AddDriver(Keyboard)
    /\ UNCHANGED <<walk, boot, controllers, output, driver, mouse>>

CreateMouse ==
    /\ boot = "create" /\ drivers # << >>
    /\ handlers' = Registered(44, Mouse)
    /\ AddDriver(Mouse)
    /\ boot' = "enumerate"
    /\ UNCHANGED <<walk, controllers, output, driver, mouse>>

Enumerate ==
    /\ boot = "enumerate"
    /\ SelectDrivers
    /\ boot' = IF slot' = Slots THEN "activate" ELSE boot
    /\ UNCHANGED <<drivers, handlers, controllers, output, driver, mouse>>

\* KeyboardDriver::Activate drains the buffer and configures the keyboard, whose
\* answer 0xFA to the last command it does not wait for.
KeyboardAnswers == {None, Keyboard}

\* MouseDriver::Activate: it reads once, not waiting for the answer either.
MouseAnswers == {None, Mouse}
MouseActivate == packet' = << >> /\ buttons' = 0

\* DriverManager::ActivateAll, then InterruptManager::Activate.  At that time an answer
\* is in the buffer or has been read, and its line asks or not.
ActivateAll ==
    /\ boot = "activate"
    /\ IF Mouse \in ToSet(drivers) THEN MouseActivate ELSE UNCHANGED <<packet, buttons>>
    /\ \E from \in KeyboardAnswers \cup MouseAnswers, lines \in SUBSET {Keyboard, Mouse} :
          /\ from # None => from \in lines
          /\ output' = [from |-> from, byte |-> IF from = None THEN 0 ELSE 250]
          /\ irr' = lines
          /\ mouse' = [mouse EXCEPT !.clean = (from = None /\ Keyboard \notin lines)]
    /\ boot' = "run"
    /\ UNCHANGED <<walk, drivers, handlers, isr, desktop>>

-----------------------------------------------------------------------------
(* The devices: external *)

Sends(from, byte) ==
    /\ boot = "run"
    /\ output = Empty
    /\ output' = [from |-> from, byte |-> byte]
    /\ irr' = irr \cup {from}
    /\ UNCHANGED <<walk, boot, drivers, handlers, isr, driver>>

KeyPressed == \E key \in Keys : Sends(Keyboard, key) /\ UNCHANGED mouse

MouseSends ==
    \E byte \in IF mouse.sent = 0 THEN Flags ELSE Deltas :
        /\ Sends(Mouse, byte)
        /\ mouse' = [mouse EXCEPT !.sent = (@ + 1) % 3,
                                  !.flags = IF mouse.sent = 0 THEN byte ELSE @]

TimerTicks ==
    /\ boot = "run"
    /\ irr' = irr \cup {0}
    /\ UNCHANGED <<walk, boot, drivers, handlers, isr, output, driver, mouse>>

-----------------------------------------------------------------------------

Next == \/ CreateKeyboard \/ CreateMouse \/ Enumerate \/ ActivateAll
        \/ \E line \in {0, Keyboard, Mouse} : Interrupt(line)
        \/ KeyPressed \/ MouseSends \/ TimerTicks

Spec == Init /\ [][Next]_vars

\* A handler takes less time than passes between two interrupts of one device: again
\* and again no line of a higher rank asks.  Only Interrupt(line) acknowledges.
FairSpec ==
    /\ Spec
    /\ WF_irr(Acknowledges(0))
    /\ SF_irr(Acknowledges(Keyboard)) /\ SF_irr(Acknowledges(Mouse))

-----------------------------------------------------------------------------
(* What the devices should guarantee; see also Desktop and Pci *)

\* Between packets the driver knows the buttons that the mouse last reported: of a
\* packet that comes in three interrupts no byte is lost, taken twice or taken by
\* the keyboard's driver, if nothing was outstanding when interrupts were switched
\* on; a left-over interrupt of the mouse without a byte does no harm.
ButtonsInSync ==
    boot = "run" /\ mouse.clean /\ mouse.sent = 0 /\ output.from # Mouse =>
        packet = << >> /\ buttons = mouse.flags

\* The window on top is dragged only while the first button is down, and the mouse
\* is then in it: it cannot be left dragging, as a window that is covered
\* when the button is released can.  Also after a shifted packet.
DragFollowsMouse ==
    LET top == children[Root][1]
    IN  desktop.Dragging[top] =>
            Bit(buttons, 0) = 1 /\ ContainsCoordinate(desktop, top, desktop.Mouse)

\* Every interrupt that a device asks for is delivered: each handler's commands end
\* what is in service at both controllers, the chained one's line too.
InterruptsServed == \A line \in {0, Keyboard, Mouse} : []<>(line \notin irr)

\* See Gdt: the descriptors of all segments, before anything else runs.
SegmentsFit ==
    boot = "create" => \A base \in Bases, limit \in Limits : DescriptorFits(base, limit)
=============================================================================
