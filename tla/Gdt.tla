---------------------------------- MODULE Gdt ----------------------------------
(***************************************************************************)
(* Segment descriptors (gdt.cpp): eight bytes that hold a base and a limit *)
(* of 20 bits, in bytes or in pages of 4096.                               *)
(*                                                                         *)
(* A descriptor is a function from the numbers of its bytes to bytes; byte *)
(* 6 is kept in halves, flags (0x4 or 0xC) and high, and the type, byte 5, *)
(* is left out.                                                            *)
(***************************************************************************)
EXTENDS Integers

Page == 4096
Word20 == 256 * 256 * 16        \* what 20 bits hold

\* Byte k of n, from the right.
Byte0(n) == n % 256
Byte1(n) == (n \div 256) % 256
Byte2(n) == (n \div 65536) % 256
Byte3(n) == (n \div 16777216) % 256

EncodedLimit_RoundedUp(limit) ==    \* mutant: the last page is always kept
    IF limit <= 65536 THEN limit ELSE limit \div Page

\* The 20 bits: a page less, unless the limit ends with a page.
EncodedLimit(limit) ==
    IF limit <= 65536 THEN limit
    ELSE IF limit % Page # Page - 1 THEN (limit \div Page) - 1
    ELSE limit \div Page

\* The constructor.
SegmentDescriptor(base, limit) ==
    LET e == EncodedLimit(limit)
    IN  [limit0 |-> Byte0(e), limit1 |-> Byte1(e), high |-> (e \div 65536) % 16,
         flags |-> IF limit <= 65536 THEN 4 ELSE 12,
         base0 |-> Byte0(base), base1 |-> Byte1(base),
         base2 |-> Byte2(base), base3 |-> Byte3(base)]

Base(d) == ((d.base3 * 256 + d.base2) * 256 + d.base1) * 256 + d.base0

\* In pages, all ones are appended.
Limit(d) ==
    LET l == (d.high * 256 + d.limit1) * 256 + d.limit0
    IN  IF d.flags = 12 THEN l * Page + (Page - 1) ELSE l

\* The comments in the constructor: the limit must not increase, and "up to 4095
\* wasted bytes" may lie behind it.  The base is kept.
DescriptorFits(base, limit) ==
    LET d == SegmentDescriptor(base, limit)
    IN  /\ Limit(d) <= limit
        /\ limit - Limit(d) <= 4095
        /\ Base(d) = base
=============================================================================
