---------------------------------- MODULE Pci ----------------------------------
(***************************************************************************)
(* Enumeration of the PCI bus (pci.cpp, pci.h): SelectDrivers visits every *)
(* function of every device and reads its base address registers.          *)
(*                                                                         *)
(* What is plugged in is chosen when the walk comes to a device, and       *)
(* forgotten when it goes on: the machine is any machine, and a device may *)
(* also be one without a function 0.                                       *)
(***************************************************************************)
EXTENDS Integers, SequencesExt

CONSTANTS
    Slots,          \* devices on all buses (8 * 32)
    Functions,      \* functions of a device (8)
    Layouts         \* what six base address registers may hold: an I/O port, or
                    \* MemoryRegister

Bars == 0 .. 5
MemoryRegister == -1    \* a register without the I/O bit, whatever its address

ASSUME PciAssumption ==
    /\ Slots \in Nat
    /\ Functions \in Nat \ {0}
    /\ Layouts \subseteq [Bars -> Nat \cup {MemoryRegister}]

VARIABLES
    slot, function, numFunctions, barNum,   \* of the loops; no register is due at 6
    present,    \* the functions that are there (environment)
    dev,        \* the descriptor whose registers are being read
    reported    \* the descriptors made for this slot

walk == <<slot, function, numFunctions, barNum, present, dev, reported>>

\* Which functions a slot has, and bit 7 of its header type.  A device whose
\* function 0 lacks the bit has no other function (PCI specification).
Plugged == {d \in [present : SUBSET (0 .. Functions - 1), multi : BOOLEAN] :
              0 \in d.present /\ ~d.multi => d.present = {0}}

DeviceHasFunctions_Zero(d) ==       \* mutant: nothing there counts as one function
    0 \in d.present /\ d.multi

\* Bit 7 at 0x0E of function 0; if it is not there, all ones are read.
DeviceHasFunctions(d) == 0 \in d.present => d.multi

Arrive(next) ==
    \E d \in Plugged :
        /\ slot' = next
        /\ function' = 0
        /\ present' = d.present
        /\ numFunctions' = IF DeviceHasFunctions(d) THEN Functions ELSE 1

Uninitialized == -1     \* what the code never set

NoDevice == [headertype |-> 0, layout |-> [b \in Bars |-> MemoryRegister],
             portBase |-> Uninitialized]

PciInit ==
    /\ slot = -1 /\ function = 0 /\ numFunctions = 0 /\ barNum = 6
    /\ present = {} /\ dev = NoDevice /\ reported = << >>

-----------------------------------------------------------------------------
\* What GetBaseAddressRegister may return.  `result` has no initial value: the
\* address of a memory register is not set, and with another header type than
\* 0 the last registers are returned without being read.
GetBaseAddressRegister(headertype, layout, bar) ==
    IF bar >= 6 - 4 * headertype
    THEN [type : {"InputOutput", "MemoryMapping"}, address : {0, Uninitialized}]
    ELSE IF layout[bar] = MemoryRegister
    THEN [type : {"MemoryMapping"}, address : {0, Uninitialized}]
    ELSE {[type |-> "InputOutput", address |-> layout[bar]]}

KeepsPort(portBase, register) ==
    IF register.address # 0 /\ register.type = "InputOutput"
    THEN register.address ELSE portBase

GetDeviceDescriptor ==
    \E headertype \in 0 .. 2, layout \in Layouts :
        dev' = [headertype |-> headertype, layout |-> layout, portBase |-> Uninitialized]

\* One round of the loop over the functions: vendor 0xFFFF is an absent one.
VisitFunction ==
    /\ barNum = 6
    /\ function < numFunctions
    /\ IF function \in present
       THEN GetDeviceDescriptor /\ barNum' = 0 /\ UNCHANGED function
       ELSE function' = function + 1 /\ UNCHANGED <<barNum, dev>>
    /\ UNCHANGED <<slot, numFunctions, present, reported>>

\* One round of the loop over the registers.  GetDriver has no driver for any device;
\* behind the loop the device is printed.
ReadRegister ==
    /\ barNum < 6
    /\ barNum' = barNum + 1
    /\ \E register \in GetBaseAddressRegister(dev.headertype, dev.layout, barNum) :
          LET portBase == KeepsPort(dev.portBase, register)
          IN  IF barNum < 5
              THEN /\ dev' = [dev EXCEPT !.portBase = portBase]
                   /\ UNCHANGED <<function, reported>>
              ELSE /\ dev' = NoDevice
                   /\ function' = function + 1
                   /\ reported' = Append(reported, [function |-> function,
                                                   headertype |-> dev.headertype,
                                                   layout |-> dev.layout,
                                                   portBase |-> portBase])
    /\ UNCHANGED <<slot, numFunctions, present>>

\* The loops over the buses and the devices.
NextSlot ==
    /\ slot < Slots
    /\ barNum = 6
    /\ function >= numFunctions
    /\ IF slot + 1 < Slots THEN Arrive(slot + 1)
       ELSE slot' = Slots /\ function' = 0 /\ numFunctions' = 0 /\ present' = {}
    /\ reported' = << >>
    /\ UNCHANGED <<barNum, dev>>

SelectDrivers == VisitFunction \/ ReadRegister \/ NextSlot

-----------------------------------------------------------------------------

\* When the walk leaves a device, it has described each of its functions once,
\* also where function 0 is missing; and the port of an ordinary device is the
\* last I/O register that is not 0, whatever the registers that are returned
\* without an address held before.
EnumerationRight ==
    /\ function = numFunctions =>
          /\ {reported[k].function : k \in DOMAIN reported} = present
          /\ Len(reported) = Cardinality(present)
    /\ \A k \in DOMAIN reported :
          LET r == reported[k]
              io == {b \in Bars : r.layout[b] > 0}
          IN  r.headertype = 0 =>
                  r.portBase = IF io = {} THEN Uninitialized ELSE r.layout[Max(io)]
=============================================================================
