---------------------------- MODULE UdpstNumbers ----------------------------
(* The number formats the accounting and the rate search share.            *)
EXTENDS Integers

CONSTANT Word    \* 2^width of counters and sequence numbers, uint32 in the code

ASSUME WordAssumption == Word \in Nat \ {0}

NoDelay == -1    \* statusNoDelay

\* The mean of cnt delays, rounded to the nearest, in tenths and in the width.
RoundedMean(sum, cnt) == (((((sum * 10) % Word) \div cnt) + 5) % Word) \div 10
=============================================================================
