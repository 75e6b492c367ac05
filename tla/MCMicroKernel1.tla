---------------------------- MODULE MCMicroKernel1 ----------------------------
(* TLC instance of MicroKernel1: the array of init.s, and small ones.         *)
EXTENDS MicroKernel1

OfSequence(s) == [k \in 0 .. Len(s) - 1 |-> s[k + 1]]

\* The item pool of init.s.
ItemPool == OfSequence(<<50, 5, 4, 10, 23, 6, 12, 86, 77, 17,
                         11, 41, 7, 19, 14, 98, 37, 76, 2, 40>>)

PoolOnly == {ItemPool}

\* Two items in a quarter, two of the quarters out of order.
EightItems == {OfSequence(<<3, 2,  5, 4,  7, 8,  9, 10>>)}
=============================================================================
