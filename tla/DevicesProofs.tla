----------------------------- MODULE DevicesProofs -----------------------------
(***************************************************************************)
(* Proofs about Devices, for any tree of widgets, any machine on the PCI   *)
(* bus and any bytes that the devices send: the walk over the bus, the     *)
(* packets of the mouse, and the descriptors of all segments.              *)
(***************************************************************************)
EXTENDS Devices, TLAPS, FiniteSetTheorems, SequenceTheorems

-----------------------------------------------------------------------------
(* The walk over the bus *)

Layout == [Bars -> Nat \cup {MemoryRegister}]
Descriptor == [headertype : 0 .. 2, layout : Layout, portBase : Int]
Report == [function : Nat, headertype : 0 .. 2, layout : Layout, portBase : Int]

\* What portBase is once the first n registers have been read.
Ports(layout, n) == {b \in 0 .. n - 1 : layout[b] > 0}
LastPort(layout, n) == IF Ports(layout, n) = {} THEN Uninitialized
                       ELSE layout[Max(Ports(layout, n))]

\* The functions that the loop has passed.
Passed == {f \in present : f < function}

LoopsOK ==
    /\ function \in Nat /\ numFunctions \in Nat /\ barNum \in 0 .. 6
    /\ function <= numFunctions
    /\ present \subseteq 0 .. numFunctions - 1
    /\ barNum < 6 => function \in present

\* The functions passed have each been reported once.
ReportedOK ==
    /\ reported \in Seq(Report)
    /\ {reported[k].function : k \in DOMAIN reported} = Passed
    /\ Len(reported) = Cardinality(Passed)

\* The port is the last one read so far.
PortsOK ==
    /\ dev \in Descriptor
    /\ barNum < 6 /\ dev.headertype = 0 => dev.portBase = LastPort(dev.layout, barNum)
    /\ \A k \in DOMAIN reported :
          reported[k].headertype = 0 =>
              reported[k].portBase = LastPort(reported[k].layout, 6)

WalkInv == LoopsOK /\ ReportedOK /\ PortsOK

LEMMA NoDeviceLemma == NoDevice \in Descriptor
  BY DEF NoDevice, Descriptor, Layout, MemoryRegister, Uninitialized

\* One register more: a port replaces the one that was found before it.
LEMMA LastPortStep ==
    ASSUME NEW layout \in Layout, NEW b \in Bars
    PROVE  LastPort(layout, b + 1) =
              IF layout[b] > 0 THEN layout[b] ELSE LastPort(layout, b)
<1>1. b \in 0 .. 5 /\ b \in Int
  BY DEF Bars
<1>2. CASE layout[b] > 0
  <2> DEFINE io == Ports(layout, b + 1)
  <2>1. b \in io /\ \A c \in io : c \in Int /\ b >= c
    BY <1>1, <1>2 DEF Ports
  <2>2. Max(io) = b
    <3> HIDE DEF io
    <3>1. b \in io /\ (\A y \in io : b >= y)
      BY <2>1
    <3>2. \A x \in io : (\A y \in io : x >= y) => x = b
      BY <1>1, <2>1
    <3>3. (CHOOSE x \in io : \A y \in io : x >= y) = b
      <4> DEFINE P(x) == \A y \in io : x >= y
      <4>1. \E x \in io : P(x)
        BY <3>1
      <4>2. (CHOOSE x \in io : P(x)) \in io /\ P(CHOOSE x \in io : P(x))
        BY <4>1, Zenon
      <4> QED
        BY <3>2, <4>2
    <3> QED
      BY <3>3, Zenon DEF Max
  <2> QED
    BY <1>2, <2>1, <2>2 DEF LastPort
<1>3. CASE ~(layout[b] > 0)
  <2>1. Ports(layout, b + 1) = Ports(layout, b)
    BY <1>1, <1>3 DEF Ports
  <2> QED
    BY <1>3, <2>1 DEF LastPort
<1> QED
  BY <1>2, <1>3

\* A register of an ordinary device sets the port only if it holds one, though the
\* address of any other is returned as it was on the stack.
LEMMA RegisterLemma ==
    ASSUME NEW headertype \in 0 .. 2, NEW layout \in Layout, NEW b \in Bars,
           NEW portBase \in Int,
           NEW register \in GetBaseAddressRegister(headertype, layout, b)
    PROVE  /\ KeepsPort(portBase, register) \in Int
           /\ headertype = 0 => KeepsPort(portBase, register) =
                                   IF layout[b] > 0 THEN layout[b] ELSE portBase
<1>1. b \in 0 .. 5 /\ layout[b] \in Nat \cup {-1}
  BY DEF Layout, Bars, MemoryRegister
<1>2. CASE b >= 6 - 4 * headertype
  BY <1>1, <1>2 DEF GetBaseAddressRegister, KeepsPort, Uninitialized
<1>3. CASE ~(b >= 6 - 4 * headertype) /\ layout[b] = MemoryRegister
  <2>1. register.type = "MemoryMapping"
    BY <1>3 DEF GetBaseAddressRegister
  <2> QED
    BY <1>3, <2>1 DEF KeepsPort, MemoryRegister
<1>4. CASE ~(b >= 6 - 4 * headertype) /\ layout[b] # MemoryRegister
  <2>1. register.type = "InputOutput" /\ register.address = layout[b]
    BY <1>4 DEF GetBaseAddressRegister
  <2>2. layout[b] \in Nat
    BY <1>1, <1>4 DEF MemoryRegister
  <2> QED
    BY <2>1, <2>2 DEF KeepsPort
<1> QED
  BY <1>2, <1>3, <1>4

LEMMA PassedFinite == LoopsOK => IsFiniteSet(Passed)
<1> SUFFICES ASSUME LoopsOK PROVE IsFiniteSet(Passed)
  OBVIOUS
<1>1. IsFiniteSet(0 .. numFunctions - 1)
  BY FS_Interval DEF LoopsOK
<1>2. Passed \in SUBSET (0 .. numFunctions - 1)
  BY DEF LoopsOK, Passed
<1> QED
  BY <1>1, <1>2, FS_Subset

LEMMA VisitWalk == ASSUME WalkInv, VisitFunction PROVE WalkInv'
<1>1. LoopsOK /\ ReportedOK /\ PortsOK
  BY DEF WalkInv
<1>2. /\ barNum = 6 /\ function < numFunctions
      /\ UNCHANGED <<slot, numFunctions, present, reported>>
  BY DEF VisitFunction
<1>3. CASE function \in present
  <2>1. /\ barNum' = 0 /\ function' = function
        /\ \E headertype \in 0 .. 2, layout \in Layouts :
              dev' = [headertype |-> headertype, layout |-> layout,
                      portBase |-> Uninitialized]
    BY <1>3 DEF VisitFunction, GetDeviceDescriptor
  <2>2. dev' \in Descriptor /\ dev'.portBase = Uninitialized
    BY <2>1, PciAssumption DEF Descriptor, Layout, Uninitialized
  <2>3. LastPort(dev'.layout, 0) = Uninitialized
    BY DEF LastPort, Ports
  <2>4. PortsOK'
    BY <1>1, <1>2, <2>1, <2>2, <2>3 DEF PortsOK
  <2>5. LoopsOK'
    BY <1>1, <1>2, <1>3, <2>1 DEF LoopsOK
  <2>6. ReportedOK'
    BY <1>1, <1>2, <2>1 DEF ReportedOK, Passed
  <2> QED
    BY <2>4, <2>5, <2>6 DEF WalkInv
<1>4. CASE function \notin present
  <2>1. function' = function + 1 /\ UNCHANGED <<barNum, dev>>
    BY <1>4 DEF VisitFunction
  <2>2. Passed' = Passed
    <3>1. \A f \in present : f \in Int /\ f # function /\ function \in Nat
      BY <1>1, <1>4 DEF LoopsOK
    <3>2. \A f \in present : f < function + 1 <=> f < function
      BY <3>1
    <3> QED
      BY <1>2, <2>1, <3>2 DEF Passed
  <2>3. LoopsOK'
    BY <1>1, <1>2, <2>1 DEF LoopsOK
  <2>4. ReportedOK' /\ PortsOK'
    BY <1>1, <1>2, <2>1, <2>2 DEF ReportedOK, PortsOK
  <2> QED
    BY <2>3, <2>4 DEF WalkInv
<1> QED
  BY <1>3, <1>4

LEMMA ReadWalk == ASSUME WalkInv, ReadRegister PROVE WalkInv'
<1>1. LoopsOK /\ ReportedOK /\ PortsOK /\ barNum \in Bars /\ function \in present
      /\ function \in Nat
  BY DEF WalkInv, LoopsOK, ReadRegister, Bars
<1>2. dev.headertype \in 0 .. 2 /\ dev.layout \in Layout /\ dev.portBase \in Int
  BY <1>1 DEF PortsOK, Descriptor
<1>3. PICK register \in GetBaseAddressRegister(dev.headertype, dev.layout, barNum) :
        LET portBase == KeepsPort(dev.portBase, register)
        IN  IF barNum < 5
            THEN /\ dev' = [dev EXCEPT !.portBase = portBase]
                 /\ UNCHANGED <<function, reported>>
            ELSE /\ dev' = NoDevice
                 /\ function' = function + 1
                 /\ reported' = Append(reported, [function |-> function,
                                                 headertype |-> dev.headertype,
                                                 layout |-> dev.layout,
                                                 portBase |-> portBase])
  BY DEF ReadRegister
<1> DEFINE port == KeepsPort(dev.portBase, register)
<1>4. /\ barNum < 6 /\ barNum' = barNum + 1
      /\ UNCHANGED <<slot, numFunctions, present>>
  BY DEF ReadRegister
<1>5. port \in Int
      /\ (dev.headertype = 0 => port = LastPort(dev.layout, barNum + 1))
  BY <1>1, <1>2, <1>4, RegisterLemma, LastPortStep DEF PortsOK
<1>6. CASE barNum < 5
  <2>1. dev' = [dev EXCEPT !.portBase = port] /\ UNCHANGED <<function, reported>>
    BY <1>3, <1>6
  <2> HIDE DEF port
  <2>2. dev' \in Descriptor /\ dev'.headertype = dev.headertype
        /\ dev'.layout = dev.layout /\ dev'.portBase = port
    BY <1>1, <1>5, <2>1 DEF PortsOK, Descriptor
  <2>3. PortsOK'
    BY <1>1, <1>4, <1>5, <2>1, <2>2 DEF PortsOK
  <2>4. LoopsOK' /\ ReportedOK'
    BY <1>1, <1>4, <1>6, <2>1 DEF LoopsOK, ReportedOK, Passed
  <2> QED
    BY <2>3, <2>4 DEF WalkInv
<1>7. CASE ~(barNum < 5)
  <2> DEFINE r == [function |-> function, headertype |-> dev.headertype,
                   layout |-> dev.layout, portBase |-> port]
  <2>1. dev' = NoDevice /\ function' = function + 1 /\ reported' = Append(reported, r)
    BY <1>3, <1>7
  <2>2. barNum = 5 /\ barNum' = 6
    BY <1>1, <1>4, <1>7 DEF Bars
  <2>3. r \in Report /\ r.function = function
        /\ (r.headertype = 0 => r.portBase = LastPort(r.layout, 6))
    <3> HIDE DEF port
    <3> QED
      BY <1>1, <1>2, <1>5, <2>2 DEF Report
  <2> HIDE DEF r
  <2>4. /\ reported' \in Seq(Report)
        /\ Len(reported') = Len(reported) + 1
        /\ \A k \in 1 .. Len(reported) : reported'[k] = reported[k]
        /\ reported'[Len(reported) + 1] = r
    BY <1>1, <2>1, <2>3, AppendProperties DEF ReportedOK
  <2>5. /\ Len(reported) \in Nat
        /\ DOMAIN reported = 1 .. Len(reported)
        /\ DOMAIN reported' = 1 .. Len(reported) + 1
    BY <1>1, <2>4, LenProperties DEF ReportedOK
  <2>6. Passed' = Passed \cup {function} /\ function \notin Passed
    <3>1. \A f \in present : f \in Int
      BY <1>1 DEF LoopsOK
    <3>2. \A f \in present : f < function + 1 <=> f < function \/ f = function
      BY <1>1, <3>1
    <3>3. Passed' = {f \in present : f < function + 1}
      BY <1>4, <2>1 DEF Passed
    <3>4. ~(function < function)
      BY <1>1
    <3> QED
      BY <1>1, <3>2, <3>3, <3>4, Zenon DEF Passed
  <2>7. Cardinality(Passed') = Cardinality(Passed) + 1
    BY <1>1, <2>6, PassedFinite, FS_AddElement
  <2>8. {reported'[k].function : k \in DOMAIN reported'} = Passed'
    <3>1. {reported'[k].function : k \in DOMAIN reported'} =
            {reported[k].function : k \in DOMAIN reported} \cup {function}
      BY <2>3, <2>4, <2>5
    <3> QED
      BY <1>1, <2>6, <3>1 DEF ReportedOK
  <2>9. ReportedOK'
    BY <1>1, <2>4, <2>7, <2>8 DEF ReportedOK
  <2>10. LoopsOK'
    BY <1>1, <1>4, <2>1, <2>2 DEF LoopsOK
  <2>11. PortsOK'
    BY <1>1, <2>1, <2>2, <2>3, <2>4, <2>5, NoDeviceLemma DEF PortsOK
  <2> QED
    BY <2>9, <2>10, <2>11 DEF WalkInv
<1> QED
  BY <1>6, <1>7

\* A device is reached with nothing reported, and has no function behind the last
\* that is looked at: a missing function 0 reads as a device of many functions.
LEMMA NextWalk == ASSUME WalkInv, NextSlot PROVE WalkInv'
<1>1. /\ barNum' = 6 /\ dev' = dev /\ function' = 0 /\ reported' = << >>
      /\ dev \in Descriptor
  BY DEF NextSlot, Arrive, WalkInv, PortsOK
<1>2. numFunctions' \in Nat /\ present' \subseteq 0 .. numFunctions' - 1
  <2>1. CASE slot + 1 < Slots
    <3>1. PICK d \in Plugged :
            /\ present' = d.present
            /\ numFunctions' = IF DeviceHasFunctions(d) THEN Functions ELSE 1
      BY <2>1 DEF NextSlot, Arrive
    <3>2. d.present \subseteq 0 .. Functions - 1
          /\ (~DeviceHasFunctions(d) => d.present = {0})
      BY DEF Plugged, DeviceHasFunctions
    <3> QED
      BY <3>1, <3>2, PciAssumption
  <2>2. CASE ~(slot + 1 < Slots)
    BY <2>2 DEF NextSlot
  <2> QED
    BY <2>1, <2>2
<1>3. LoopsOK'
  <2>1. function' \in Nat /\ function' <= numFunctions' /\ barNum' \in 0 .. 6
        /\ ~(barNum' < 6)
    BY <1>1, <1>2
  <2> QED
    BY <1>2, <2>1 DEF LoopsOK
<1>4. ReportedOK'
  <2>1. Passed' = {}
    <3>1. ASSUME NEW f \in present' PROVE ~(f < 0)
      <4>1. f \in 0 .. numFunctions' - 1
        BY <1>2, Zenon
      <4> QED
        BY <1>2, <4>1
    <3> QED
      BY <1>1, <3>1 DEF Passed
  <2>2. Cardinality({}) = 0
    BY FS_EmptySet
  <2> QED
    BY <1>1, <2>1, <2>2 DEF ReportedOK
<1>5. PortsOK'
  BY <1>1 DEF PortsOK
<1> QED
  BY <1>3, <1>4, <1>5 DEF WalkInv

LEMMA InitWalk == Init => WalkInv
<1> SUFFICES ASSUME Init PROVE WalkInv
  OBVIOUS
<1>1. /\ function = 0 /\ numFunctions = 0 /\ barNum = 6 /\ present = {}
      /\ dev = NoDevice /\ reported = << >>
  BY DEF Init, PciInit
<1>2. Passed = {} /\ Cardinality({}) = 0
  BY <1>1, FS_EmptySet DEF Passed
<1> QED
  BY <1>1, <1>2, NoDeviceLemma DEF WalkInv, LoopsOK, ReportedOK, PortsOK

LEMMA WalkInductive == WalkInv /\ [Next]_vars => WalkInv'
<1> SUFFICES ASSUME WalkInv, [Next]_vars PROVE WalkInv'
  OBVIOUS
<1>1. CASE UNCHANGED walk
  BY <1>1 DEF walk, WalkInv, LoopsOK, ReportedOK, PortsOK, Passed
<1>2. CASE SelectDrivers
  BY <1>2, VisitWalk, ReadWalk, NextWalk DEF SelectDrivers
<1>3. UNCHANGED walk \/ SelectDrivers
  BY DEF Next, CreateKeyboard, CreateMouse, Enumerate, ActivateAll, Interrupt, KeyPressed,
         MouseSends, Sends, TimerTicks, vars
<1> QED
  BY <1>1, <1>2, <1>3

\* The walk describes every function of every device once, whatever is plugged in,
\* and gives an ordinary one the last port that its registers hold, although
\* GetBaseAddressRegister returns fields that it has not set.
THEOREM EnumerationIsRight == Spec => []EnumerationRight
<1>1. Spec => []WalkInv
  BY InitWalk, WalkInductive, PTL DEF Spec
<1>2. WalkInv => EnumerationRight
  <2> SUFFICES ASSUME WalkInv PROVE EnumerationRight
    OBVIOUS
  <2>1. function = numFunctions => Passed = present
    <3>1. \A f \in present : f < numFunctions
      BY DEF WalkInv, LoopsOK
    <3> QED
      BY <3>1 DEF Passed
  <2>2. Bars = 0 .. 6 - 1
    BY DEF Bars
  <2> QED
    BY <2>1, <2>2 DEF WalkInv, ReportedOK, PortsOK, LastPort, Ports, EnumerationRight
<1> QED
  BY <1>1, <1>2, PTL

-----------------------------------------------------------------------------
(* The packets of the mouse *)

Byte == 0 .. 255            \* and the numbers of interrupts
Handler == {None, Keyboard, Mouse}

SyncTypes ==
    /\ output \in [from : {None, Keyboard, Mouse}, byte : Byte]
    /\ packet \in Seq(Byte)
    /\ mouse \in [flags : Byte, sent : 0 .. 2, clean : BOOLEAN]

\* Each driver is registered for the interrupt of its line, and no packet has begun
\* before interrupts are on.
Registrations ==
    /\ boot \in {"create", "enumerate", "activate", "run"}
    /\ handlers \in [Byte -> Handler]
    /\ handlers[32] = None
    /\ drivers # << >> => handlers[33] = Keyboard
    /\ boot # "create" => handlers[33] = Keyboard /\ handlers[44] = Mouse
    /\ boot # "run" => /\ packet = << >> /\ buttons = 0
                       /\ mouse.flags = 0 /\ mouse.sent = 0 /\ mouse.clean = FALSE

\* The driver has each byte that the mouse has sent, but for one in the output buffer.
Taken == /\ output.from # Mouse => Len(packet) = mouse.sent
         /\ output.from = Mouse /\ mouse.sent = 1 => Len(packet) = 0
         /\ output.from = Mouse /\ mouse.sent = 2 => Len(packet) = 1
         /\ output.from = Mouse /\ mouse.sent = 0 => Len(packet) = 2

\* Where the flags that the mouse last sent are.
FlagsAt == /\ Len(packet) > 0 => packet[1] = mouse.flags
           /\ Len(packet) = 0 /\ output.from = Mouse => output.byte = mouse.flags
           /\ Len(packet) = 0 /\ output.from # Mouse => buttons = mouse.flags

\* The keyboard's driver runs only for a byte of the keyboard.
KeyboardOK == Keyboard \in irr => output.from = Keyboard

PacketOK == boot = "run" /\ mouse.clean => Taken /\ FlagsAt /\ KeyboardOK

SyncInv == SyncTypes /\ Registrations /\ PacketOK

LEMMA LinesDiffer == None # Keyboard /\ None # Mouse /\ Keyboard # Mouse
  BY DevicesAssumption DEF Keyboard, Mouse

LEMMA EmptyLemma ==
    /\ Empty \in [from : {None, Keyboard, Mouse}, byte : Byte]
    /\ Empty.from = None
    /\ << >> \in Seq(Byte) /\ Len(<< >>) = 0
  BY DEF Empty, Byte

\* What the prover must know of the two records, field by field.
LEMMA SyncFields ==
    SyncTypes => /\ mouse.flags \in Byte /\ mouse.sent \in {0, 1, 2} /\ mouse.clean \in BOOLEAN
                 /\ output.byte \in Byte /\ Len(packet) \in Nat
<1> SUFFICES ASSUME SyncTypes
             PROVE  /\ mouse.flags \in Byte /\ mouse.sent \in {0, 1, 2}
                    /\ mouse.clean \in BOOLEAN
                    /\ output.byte \in Byte /\ Len(packet) \in Nat
  OBVIOUS
<1>1. mouse.flags \in Byte /\ mouse.sent \in 0 .. 2 /\ mouse.clean \in BOOLEAN
  BY DEF SyncTypes
<1>2. output.byte \in Byte
  BY DEF SyncTypes
<1>3. Len(packet) \in Nat
  BY LenProperties DEF SyncTypes
<1>4. mouse.sent \in {0, 1, 2}
  BY <1>1
<1> QED
  BY <1>1, <1>2, <1>3, <1>4

LEMMA InterruptNumbers ==
    /\ 32 \in Byte /\ 33 \in Byte /\ 44 \in Byte /\ 32 # 33 /\ 32 # 44 /\ 33 # 44
    /\ Keyboard \in Handler /\ Mouse \in Handler
  BY DEF Byte, Handler

LEMMA InitSync == Init => SyncInv
  BY EmptyLemma, InterruptNumbers
  DEF Init, SyncInv, SyncTypes, Registrations, PacketOK, Byte, Handler

\* No packet is touched before the kernel runs.
LEMMA BootSync ==
    ASSUME SyncInv, CreateKeyboard \/ CreateMouse \/ Enumerate
    PROVE  SyncInv'
<1>1. SyncTypes /\ Registrations
  BY DEF SyncInv
<1>2. /\ UNCHANGED <<output, packet, buttons, mouse>>
      /\ boot # "run" /\ boot' \in {"create", "enumerate", "activate"}
  BY DEF CreateKeyboard, CreateMouse, Enumerate, driver
<1>3. SyncTypes'
  BY <1>1, <1>2 DEF SyncTypes
<1>4. PacketOK'
  BY <1>2 DEF PacketOK
<1>5. CASE CreateKeyboard
  <2>1. /\ boot = "create" /\ boot' = boot
        /\ handlers' = Registered(33, Keyboard)
    BY <1>5 DEF CreateKeyboard
  <2>2. Registrations'
    <3>1. handlers \in [Byte -> Handler]
      BY <1>1 DEF Registrations
    <3>2. /\ handlers' \in [Byte -> Handler]
          /\ handlers'[32] = handlers[32]
          /\ handlers'[33] = Keyboard
      BY <2>1, <3>1, InterruptNumbers DEF Registered
    <3> QED
      BY <1>1, <1>2, <2>1, <3>2 DEF Registrations
  <2> QED
    BY <1>3, <1>4, <2>2 DEF SyncInv
<1>6. CASE CreateMouse
  <2>1. /\ drivers # << >> /\ boot' = "enumerate"
        /\ handlers' = Registered(44, Mouse)
    BY <1>6 DEF CreateMouse
  <2>2. Registrations'
    <3>1. handlers \in [Byte -> Handler]
      BY <1>1 DEF Registrations
    <3>2. /\ handlers' \in [Byte -> Handler]
          /\ handlers'[32] = handlers[32]
          /\ handlers'[44] = Mouse /\ handlers'[33] = handlers[33]
      BY <2>1, <3>1, InterruptNumbers DEF Registered
    <3> QED
      BY <1>1, <1>2, <2>1, <3>2 DEF Registrations
  <2> QED
    BY <1>3, <1>4, <2>2 DEF SyncInv
<1>7. CASE Enumerate
  <2>1. boot = "enumerate" /\ UNCHANGED <<drivers, handlers>>
    BY <1>7 DEF Enumerate
  <2>2. Registrations'
    BY <1>1, <1>2, <2>1 DEF Registrations
  <2> QED
    BY <1>3, <1>4, <2>2 DEF SyncInv
<1> QED
  BY <1>5, <1>6, <1>7

\* Nothing is outstanding at a clean start.
LEMMA ActivateSync == ASSUME SyncInv, ActivateAll PROVE SyncInv'
<1>1. SyncTypes /\ Registrations /\ boot = "activate"
  BY DEF SyncInv, ActivateAll
<1>2. /\ packet = << >> /\ buttons = 0 /\ packet' = << >> /\ buttons' = 0
      /\ boot' = "run" /\ UNCHANGED <<drivers, handlers>>
  BY <1>1 DEF ActivateAll, MouseActivate, Registrations
<1>3. PICK from \in {None, Keyboard, Mouse}, lines \in SUBSET {Keyboard, Mouse} :
        /\ output' = [from |-> from, byte |-> IF from = None THEN 0 ELSE 250]
        /\ irr' = lines
        /\ mouse' = [mouse EXCEPT !.clean = (from = None /\ Keyboard \notin lines)]
  BY DEF ActivateAll, KeyboardAnswers, MouseAnswers
<1>4. /\ output'.from = from
      /\ mouse'.flags = 0 /\ mouse'.sent = 0
      /\ mouse'.clean = (from = None /\ Keyboard \notin lines)
  BY <1>1, <1>3 DEF SyncTypes, Registrations
<1>5. SyncTypes'
  <2>1. (IF from = None THEN 0 ELSE 250) \in Byte
    BY DEF Byte
  <2>2. output' \in [from : {None, Keyboard, Mouse}, byte : Byte]
    BY <1>3, <2>1, Zenon
  <2>3. mouse' \in [flags : Byte, sent : 0 .. 2, clean : BOOLEAN]
    <3> DEFINE clean == (from = None /\ Keyboard \notin lines)
    <3>1. clean \in BOOLEAN /\ mouse' = [mouse EXCEPT !.clean = clean]
      BY <1>3
    <3> HIDE DEF clean
    <3> QED
      BY <1>1, <3>1 DEF SyncTypes
  <2> QED
    BY <1>2, <2>2, <2>3, EmptyLemma DEF SyncTypes
<1>6. Registrations'
  BY <1>1, <1>2 DEF Registrations
<1>7. PacketOK'
  <2> SUFFICES ASSUME mouse'.clean PROVE (Taken /\ FlagsAt /\ KeyboardOK)'
    BY DEF PacketOK
  <2>1. output'.from = None /\ Keyboard \notin irr'
    BY <1>3, <1>4
  <2>2. Len(packet') = 0
    BY <1>2, EmptyLemma
  <2> QED
    BY <1>2, <1>4, <2>1, <2>2, LinesDiffer DEF Taken, FlagsAt, KeyboardOK
<1> QED
  BY <1>5, <1>6, <1>7 DEF SyncInv

\* The mouse's interrupt takes the byte that is in the buffer, if it is the mouse's.
LEMMA MouseSync ==
    ASSUME SyncInv, boot = "run", MouseInterrupt, irr' = irr \ {Mouse},
           UNCHANGED <<boot, drivers, handlers, mouse>>
    PROVE  SyncInv'
<1>1. SyncTypes /\ Registrations /\ PacketOK
  BY DEF SyncInv
<1>2. Registrations'
  BY <1>1 DEF Registrations
<1>3. CASE output.from # Mouse
  <2>1. UNCHANGED <<packet, buttons, output>>
    BY <1>3 DEF MouseInterrupt, HasMouseByte, driver
  <2>2. SyncTypes'
    BY <1>1, <2>1 DEF SyncTypes
  <2>3. PacketOK'
    BY <1>1, <2>1 DEF PacketOK, Taken, FlagsAt, KeyboardOK
  <2> QED
    BY <1>2, <2>2, <2>3 DEF SyncInv
<1>4. CASE output.from = Mouse
  <2>1. output' = Empty /\ output'.from # Mouse
    BY <1>4, EmptyLemma, LinesDiffer DEF MouseInterrupt, HasMouseByte
  <2> DEFINE b == Append(packet, output.byte)
  <2>2. /\ b \in Seq(Byte) /\ Len(packet) \in Nat
        /\ Len(b) = Len(packet) + 1
        /\ Len(packet) > 0 => b[1] = packet[1]
        /\ Len(packet) = 0 => b[1] = output.byte
    BY <1>1, AppendProperties, LenProperties DEF SyncTypes
  <2>3. CASE Len(packet) = 2
    <3>1. packet' = << >> /\ buttons' = b[1]
      BY <1>4, <2>3 DEF MouseInterrupt, HasMouseByte, OnPacket
    <3>2. SyncTypes'
      BY <1>1, <2>1, <3>1, EmptyLemma DEF SyncTypes
    <3>3. PacketOK'
      <4> HIDE DEF b
      <4> SUFFICES ASSUME boot' = "run", mouse'.clean
                   PROVE  (Taken /\ FlagsAt /\ KeyboardOK)'
        BY DEF PacketOK
      <4>1. Taken /\ FlagsAt /\ KeyboardOK
        BY <1>1 DEF PacketOK
      <4>2. mouse.sent = 0 /\ buttons' = mouse.flags
        BY <1>1, <1>4, <2>2, <2>3, <3>1, <4>1 DEF Taken, FlagsAt, SyncTypes
      <4>3. Keyboard \notin irr'
        BY <1>4, <4>1, LinesDiffer DEF KeyboardOK
      <4> QED
        BY <2>1, <3>1, <4>2, <4>3, EmptyLemma DEF Taken, FlagsAt, KeyboardOK
    <3> QED
      BY <1>2, <3>2, <3>3 DEF SyncInv
  <2>4. CASE Len(packet) # 2
    <3>1. packet' = b /\ buttons' = buttons
      BY <1>4, <2>4 DEF MouseInterrupt, HasMouseByte
    <3>2. SyncTypes'
      BY <1>1, <2>1, <2>2, <3>1, EmptyLemma DEF SyncTypes
    <3>3. PacketOK'
      <4> HIDE DEF b
      <4> SUFFICES ASSUME boot' = "run", mouse'.clean
                   PROVE  (Taken /\ FlagsAt /\ KeyboardOK)'
        BY DEF PacketOK
      <4>1. Taken /\ FlagsAt /\ KeyboardOK
        BY <1>1 DEF PacketOK
      <4>2. Len(b) = mouse.sent /\ Len(b) > 0 /\ b[1] = mouse.flags
        <5> DEFINE n == Len(packet)
                   sent == mouse.sent
        <5>0. /\ n # 2 /\ sent \in {0, 1, 2}
              /\ (sent = 1 => n = 0) /\ (sent = 2 => n = 1) /\ (sent = 0 => n = 2)
          BY <1>1, <1>4, <2>4, <4>1, SyncFields, Zenon DEF Taken
        <5> HIDE DEF n, sent
        <5>1. sent \in {1, 2} /\ n = sent - 1
          BY <5>0
        <5>2. b[1] = mouse.flags
          BY <1>4, <2>2, <4>1 DEF FlagsAt
        <5> QED
          BY <2>2, <5>1, <5>2 DEF n, sent
      <4>3. Keyboard \notin irr'
        BY <1>4, <4>1, LinesDiffer DEF KeyboardOK
      <4> QED
        BY <2>1, <2>2, <3>1, <4>2, <4>3 DEF Taken, FlagsAt, KeyboardOK
    <3> QED
      BY <1>2, <3>2, <3>3 DEF SyncInv
  <2> QED
    BY <2>3, <2>4
<1> QED
  BY <1>3, <1>4

\* The tick leaves the drivers alone; the keyboard's driver takes a byte of the keyboard.
LEMMA InterruptSync ==
    ASSUME SyncInv, NEW line \in {0, Keyboard, Mouse}, Interrupt(line)
    PROVE  SyncInv'
<1>1. SyncTypes /\ Registrations /\ PacketOK
  BY DEF SyncInv
<1>2. /\ boot = "run" /\ line \in irr /\ irr' = irr \ {line}
      /\ UNCHANGED <<boot, drivers, handlers, mouse>>
  BY DEF Interrupt, Acknowledges, Delivers
<1>3. handlers[32] = None /\ handlers[33] = Keyboard /\ handlers[44] = Mouse
  BY <1>1, <1>2 DEF Registrations
<1>4. Remapped(0) = 32 /\ Remapped(Keyboard) = 33 /\ Remapped(Mouse) = 44
  BY DEF Remapped, Keyboard, Mouse, hardwareInterruptOffset
<1>5. \A n \in {32, 33, 44} : Gate(n) = "HandleInterruptRequest"
  BY DEF Gate, hardwareInterruptOffset
<1>6. DoHandleInterrupt(Remapped(line))
  BY <1>4, <1>5 DEF Interrupt
<1>7. Registrations'
  BY <1>1, <1>2 DEF Registrations
<1>8. CASE line = 0
  <2>1. UNCHANGED <<output, packet, buttons>>
    BY <1>3, <1>4, <1>6, <1>8, LinesDiffer DEF DoHandleInterrupt, driver
  <2>2. SyncTypes'
    BY <1>1, <1>2, <2>1 DEF SyncTypes
  <2>3. PacketOK'
    BY <1>1, <1>2, <2>1 DEF PacketOK, Taken, FlagsAt, KeyboardOK
  <2> QED
    BY <1>7, <2>2, <2>3 DEF SyncInv
<1>9. CASE line = Keyboard
  <2>1. output' = Empty /\ UNCHANGED <<packet, buttons>>
    BY <1>3, <1>4, <1>6, <1>9, LinesDiffer
       DEF DoHandleInterrupt, KeyboardInterrupt, driver
  <2>2. SyncTypes'
    BY <1>1, <1>2, <2>1, EmptyLemma DEF SyncTypes
  <2>3. PacketOK'
    BY <1>1, <1>2, <1>9, <2>1, EmptyLemma, LinesDiffer
       DEF PacketOK, Taken, FlagsAt, KeyboardOK
  <2> QED
    BY <1>7, <2>2, <2>3 DEF SyncInv
<1>10. CASE line = Mouse
  <2>1. MouseInterrupt
    BY <1>3, <1>4, <1>6, <1>10, LinesDiffer DEF DoHandleInterrupt
  <2> QED
    BY <1>2, <1>10, <2>1, MouseSync
<1> QED
  BY <1>8, <1>9, <1>10

\* A device sends when the buffer is empty: the driver has all bytes before.
LEMMA SendSync ==
    ASSUME SyncInv, KeyPressed \/ MouseSends \/ TimerTicks
    PROVE  SyncInv'
<1>1. SyncTypes /\ Registrations /\ PacketOK
  BY DEF SyncInv
<1>2. boot = "run" /\ UNCHANGED <<boot, drivers, handlers, packet, buttons>>
  BY DEF KeyPressed, MouseSends, TimerTicks, Sends, driver
<1>3. Registrations'
  BY <1>1, <1>2 DEF Registrations
<1>4. CASE TimerTicks
  <2>1. irr' = irr \cup {0} /\ UNCHANGED <<output, mouse>>
    BY <1>4 DEF TimerTicks
  <2>2. Keyboard \in irr' <=> Keyboard \in irr
    BY <2>1 DEF Keyboard
  <2>3. SyncTypes'
    BY <1>1, <1>2, <2>1 DEF SyncTypes
  <2>4. PacketOK'
    BY <1>1, <1>2, <2>1, <2>2 DEF PacketOK, Taken, FlagsAt, KeyboardOK
  <2> QED
    BY <1>3, <2>3, <2>4 DEF SyncInv
<1>5. CASE KeyPressed
  <2>1. PICK key \in Keys : Sends(Keyboard, key) /\ UNCHANGED mouse
    BY <1>5 DEF KeyPressed
  <2>2. /\ output = Empty /\ output' = [from |-> Keyboard, byte |-> key]
        /\ UNCHANGED mouse
    BY <2>1 DEF Sends
  <2>3. output.from # Mouse /\ output'.from = Keyboard /\ key \in Byte
    BY <2>2, EmptyLemma, LinesDiffer, DevicesAssumption DEF Byte
  <2>4. SyncTypes'
    BY <1>1, <1>2, <2>2, <2>3 DEF SyncTypes
  <2>5. PacketOK'
    BY <1>1, <1>2, <2>2, <2>3, LinesDiffer DEF PacketOK, Taken, FlagsAt, KeyboardOK
  <2> QED
    BY <1>3, <2>4, <2>5 DEF SyncInv
<1>6. CASE MouseSends
  <2>1. PICK byte \in IF mouse.sent = 0 THEN Flags ELSE Deltas :
          /\ Sends(Mouse, byte)
          /\ mouse' = [mouse EXCEPT !.sent = (@ + 1) % 3,
                                    !.flags = IF mouse.sent = 0 THEN byte ELSE @]
    BY <1>6 DEF MouseSends
  <2>2. /\ output = Empty /\ output' = [from |-> Mouse, byte |-> byte]
        /\ irr' = irr \cup {Mouse}
    BY <2>1 DEF Sends
  <2>3. output.from = None /\ output'.from = Mouse /\ output'.byte = byte /\ byte \in Byte
    BY <2>1, <2>2, EmptyLemma, DevicesAssumption DEF Byte
  <2>4. /\ mouse.sent \in 0 .. 2
        /\ mouse'.sent = (mouse.sent + 1) % 3
        /\ mouse'.flags = (IF mouse.sent = 0 THEN byte ELSE mouse.flags)
        /\ mouse'.clean = mouse.clean
    BY <1>1, <2>1 DEF SyncTypes
  <2>5. mouse'.sent = IF mouse.sent = 0 THEN 1 ELSE IF mouse.sent = 1 THEN 2 ELSE 0
    BY <2>4
  <2>6. SyncTypes'
    <3>1. mouse' \in [flags : Byte, sent : 0 .. 2, clean : BOOLEAN]
      <4> DEFINE sent == (mouse.sent + 1) % 3
                 flags == IF mouse.sent = 0 THEN byte ELSE mouse.flags
      <4>1. sent \in 0 .. 2 /\ flags \in Byte
        BY <1>1, <2>3, <2>4, SyncFields
      <4>2. mouse' = [mouse EXCEPT !.sent = sent, !.flags = flags]
        BY <2>1
      <4> HIDE DEF sent, flags
      <4> QED
        BY <1>1, <4>1, <4>2 DEF SyncTypes
    <3>2. output' \in [from : {None, Keyboard, Mouse}, byte : Byte]
      BY <2>2, <2>3
    <3> QED
      BY <1>1, <1>2, <3>1, <3>2 DEF SyncTypes
  <2>7. PacketOK'
    <3> SUFFICES ASSUME boot' = "run", mouse'.clean
                 PROVE  (Taken /\ FlagsAt /\ KeyboardOK)'
      BY DEF PacketOK
    <3>1. Taken /\ FlagsAt /\ KeyboardOK
      BY <1>1, <1>2, <2>4 DEF PacketOK
    <3>2. Len(packet) = mouse.sent
      BY <2>3, <3>1, LinesDiffer DEF Taken
    <3>3. Keyboard \notin irr'
      BY <2>2, <2>3, <3>1, LinesDiffer DEF KeyboardOK
    <3> QED
      BY <1>2, <2>3, <2>4, <2>5, <3>1, <3>2, <3>3 DEF Taken, FlagsAt, KeyboardOK
  <2> QED
    BY <1>3, <2>6, <2>7 DEF SyncInv
<1> QED
  BY <1>4, <1>5, <1>6

LEMMA SyncInductive == SyncInv /\ [Next]_vars => SyncInv'
<1> SUFFICES ASSUME SyncInv, [Next]_vars PROVE SyncInv'
  OBVIOUS
<1>1. CASE UNCHANGED vars
  BY <1>1 DEF vars, driver, controllers, SyncInv, SyncTypes, Registrations, PacketOK,
              Taken, FlagsAt, KeyboardOK
<1>2. CASE Next
  BY <1>2, BootSync, ActivateSync, InterruptSync, SendSync DEF Next
<1> QED
  BY <1>1, <1>2

\* After a clean start the driver and the mouse never get out of step, whatever bytes
\* are sent and however the interrupts of keyboard, mouse and timer fall.
THEOREM ButtonsStayInSync == Spec => []ButtonsInSync
<1>1. Spec => []SyncInv
  BY InitSync, SyncInductive, PTL DEF Spec
<1>2. SyncInv => ButtonsInSync
  <2> SUFFICES ASSUME SyncInv, boot = "run", mouse.clean, mouse.sent = 0,
                      output.from # Mouse
               PROVE  packet = << >> /\ buttons = mouse.flags
    BY DEF ButtonsInSync
  <2>1. Taken /\ FlagsAt /\ packet \in Seq(Byte)
    BY DEF SyncInv, SyncTypes, PacketOK
  <2>2. Len(packet) = 0 /\ buttons = mouse.flags
    BY <2>1 DEF Taken, FlagsAt
  <2> QED
    BY <2>1, <2>2, EmptySeq
<1> QED
  BY <1>1, <1>2, PTL

-----------------------------------------------------------------------------
(* Segments: the encoding, for every base and limit of 32 bits *)

Word32 == 4096 * Word20         \* what 32 bits hold

\* Twenty bits are put together again from two bytes and four bits.
LEMMA Twenty ==
    ASSUME NEW e \in Nat, e < Word20
    PROVE  (((e \div 65536) % 16) * 256 + Byte1(e)) * 256 + Byte0(e) = e
  BY DEF Word20, Byte0, Byte1

\* Thirty-two bits are put together again from four bytes.
LEMMA ThirtyTwo ==
    ASSUME NEW n \in Nat, n < Word32
    PROVE  ((Byte3(n) * 256 + Byte2(n)) * 256 + Byte1(n)) * 256 + Byte0(n) = n
  BY DEF Word32, Word20, Byte0, Byte1, Byte2, Byte3

\* The encoded limit has 20 bits.
LEMMA EncodedLimitFits ==
    ASSUME NEW limit \in Nat, limit < Word32
    PROVE  EncodedLimit(limit) \in Nat /\ EncodedLimit(limit) < Word20
  BY DEF EncodedLimit, Word32, Word20, Page

\* A segment descriptor never covers more than was asked for, wastes at most 4095
\* bytes, and keeps the base: gdt.cpp, for every base and limit of 32 bits.
THEOREM DescriptorsFit ==
    ASSUME NEW base \in Nat, base < Word32, NEW limit \in Nat, limit < Word32
    PROVE  DescriptorFits(base, limit)
<1> DEFINE d == SegmentDescriptor(base, limit)
           e == EncodedLimit(limit)
<1>1. Base(d) = base
  BY ThirtyTwo DEF Base, SegmentDescriptor
<1>2. (d.high * 256 + d.limit1) * 256 + d.limit0 = e
  BY EncodedLimitFits, Twenty DEF SegmentDescriptor
<1>3. Limit(d) <= limit /\ limit - Limit(d) <= 4095
  <2>1. CASE limit <= 65536
    BY <1>2, <2>1 DEF Limit, SegmentDescriptor, EncodedLimit
  <2>2. CASE limit > 65536
    BY <1>2, <2>2 DEF Limit, SegmentDescriptor, EncodedLimit, Page
  <2>3. QED
    BY <2>1, <2>2
<1>4. QED
  BY <1>1, <1>3 DEF DescriptorFits

\* The descriptors of all segments of 32 bits keep their base and waste less than a page.
THEOREM SegmentsAlwaysFit ==
    (\A n \in Bases \cup Limits : n < Word32) => (Spec => []SegmentsFit)
<1> SUFFICES ASSUME \A n \in Bases \cup Limits : n < Word32
             PROVE  Spec => []SegmentsFit
  OBVIOUS
<1>1. SegmentsFit
  BY DescriptorsFit, DevicesAssumption DEF SegmentsFit
<1> QED
  BY <1>1, PTL
=============================================================================
