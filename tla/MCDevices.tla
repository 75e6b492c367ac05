------------------------------- MODULE MCDevices -------------------------------
(* TLC instance of Devices: a small screen with two windows that overlap, each   *)
(* with a plain widget; a few register layouts.                                 *)
EXTENDS Devices

Tree == [screen |-> <<"upper", "lower">>, upper |-> <<"button">>, lower |-> <<"field">>]
Sizes == [screen |-> <<2, 2>>, upper |-> <<2, 1>>, lower |-> <<1, 1>>, button |-> <<1, 1>>,
          field |-> <<1, 1>>]
Places == [screen |-> <<0, 0>>, upper |-> <<0, 0>>, lower |-> <<1, 0>>, button |-> <<1, 0>>,
           field |-> <<0, 0>>]

\* The registers of a device, from the first on; the rest is memory.
Registers(s) == [b \in 0 .. 5 |-> IF b < Len(s) THEN s[b + 1] ELSE MemoryRegister]

SomeLayouts == {Registers(<< >>), Registers(<<16, MemoryRegister, 32>>),
                Registers(<<MemoryRegister, 16, 0>>)}

\* Around the change from bytes to pages, and the limit of kernelMain's segments.
SomeLimits == {0, 1, 255, 65535, 65536, 65537, 69630, 69631, 69632, 69633,
               67108864, 2147483647}
SomeBases == {0, 65536, 1194684, 2147483647}
=============================================================================
