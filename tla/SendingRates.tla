----------------------------- MODULE SendingRates -----------------------------
(***************************************************************************)
(* The sending rate table of internal/udpst/srates.go and what sendLoop    *)
(* makes of a row.  The nested loops of BuildRateTable append jmax + 1     *)
(* rows for each pair of k and i, so the loop counters of row n are the    *)
(* digits of n.                                                            *)
(***************************************************************************)
EXTENDS Naturals

maxSendingRates == 1153
baseSendTimer1 == 100       \* microseconds
baseSendTimer2 == 1000
maxL3Packet == 1250
maxJL3Packet == 9000
maxTL3Packet == 1500
l3Overhead == 28
ipv6AddSize == 20
maxBurstSize == 100
maxJPayloadSize == maxJL3Packet - l3Overhead
minPayloadSize == 32 + ipv6AddSize

jmax(trad) == IF trad THEN 11 ELSE 9
kmax(trad) == IF trad THEN 8 ELSE 10
payload(trad) == (IF trad THEN maxTL3Packet ELSE maxL3Packet) - l3Overhead

\* rand: the add-on's rateRandBit, a size drawn anew for every datagram.
NoRate == [TxInterval1 |-> 0, UDPPayload1 |-> 0, BurstSize1 |-> 0,
           TxInterval2 |-> 0, UDPPayload2 |-> 0, BurstSize2 |-> 0,
           UDPAddon2 |-> 0, rand |-> FALSE]

Row0(trad) == [NoRate EXCEPT !.TxInterval2 = 50000, !.UDPAddon2 = payload(trad),
                             !.rand = TRUE]

Base(trad, k, i) ==
    [NoRate EXCEPT !.TxInterval1 = IF k > 0 THEN baseSendTimer1 ELSE 0,
                   !.UDPPayload1 = IF k > 0 THEN payload(trad) ELSE 0,
                   !.BurstSize1 = k,
                   !.TxInterval2 = IF i > 0 THEN baseSendTimer2 ELSE 0,
                   !.UDPPayload2 = IF i > 0 THEN payload(trad) ELSE 0,
                   !.BurstSize2 = i]

AddonSize(j) == (j * 1000) \div 8 - l3Overhead

\* The first row's add-ons start from row 0, whose own add-on they replace.
Region1Row(trad, n) ==
    LET j == n % (jmax(trad) + 1)
        b == n \div (jmax(trad) + 1)
        sr == Base(trad, b \div 10, b % 10)
    IN  IF n = 0 THEN Row0(trad)
        ELSE IF j = 0 THEN sr
        ELSE [sr EXCEPT !.TxInterval2 = baseSendTimer2, !.UDPAddon2 = AddonSize(j)]

\* The loops stop at the first row of k = kmax, or for the traditional MTU at
\* the first add-on that makes more than 1000 rows.
Region1Len(trad) ==
    IF ~trad THEN kmax(trad) * 10 * (jmax(trad) + 1) + 1
    ELSE IF 1000 % (jmax(trad) + 1) = 0 THEN 1002 ELSE 1001
HighSpeedThreshOf(trad) == Region1Len(trad) - 1

JumboLen(jumbo) == IF jumbo THEN (maxJL3Packet - maxL3Packet) \div 125 ELSE 0

Row2(size, burst) == [NoRate EXCEPT !.TxInterval1 = baseSendTimer1,
                                    !.UDPPayload1 = size, !.BurstSize1 = burst]

\* Fault: the burst is not held at maxBurstSize.
Burst_Uncapped(j) == j

Burst(j) == IF j >= maxBurstSize THEN maxBurstSize ELSE j

\* Region 2: larger datagrams if jumbo ones are allowed, then larger bursts.
Region2Row(jumbo, trad, m) ==
    IF m < JumboLen(jumbo)
    THEN Row2(maxL3Packet + 125 * (m + 1) - l3Overhead, 10)
    ELSE Row2(IF jumbo THEN maxJPayloadSize ELSE payload(trad),
              Burst((IF trad /\ ~jumbo THEN 9 ELSE 11) + m - JumboLen(jumbo)))

\* BuildRateTable(jumbo, trad).Rows[n], for n < maxSendingRates
Row(jumbo, trad, n) ==
    IF n < Region1Len(trad) THEN Region1Row(trad, n)
    ELSE Region2Row(jumbo, trad, n - Region1Len(trad))

-----------------------------------------------------------------------------
(* sendLoop's use of a row.                                                *)

minSize(ipv6) == IF ipv6 THEN minPayloadSize - ipv6AddSize ELSE minPayloadSize

\* Fault: IPv6 datagrams are not made smaller.
PayloadSize_SameForIPv6(size, ipv6) == size

PayloadSize(size, ipv6) ==
    IF ipv6 /\ size > ipv6AddSize THEN size - ipv6AddSize ELSE size

\* The IP-layer size of the datagram that add builds; a size of random rows is
\* taken at its mean.
L3Size(size, rand, ipv6) ==
    LET v == PayloadSize(size, ipv6)
        drawn == IF rand /\ v > minSize(ipv6) THEN (minSize(ipv6) + v) \div 2 ELSE v
        low == IF drawn < minSize(ipv6) THEN minSize(ipv6) ELSE drawn
        sized == IF low > maxJPayloadSize THEN maxJPayloadSize ELSE low
    IN  sized + l3Overhead + (IF ipv6 THEN ipv6AddSize ELSE 0)

t1Active(r) == r.TxInterval1 > 0 /\ r.BurstSize1 > 0
t2Active(r) == r.TxInterval2 > 0 /\ (r.BurstSize2 > 0 \/ r.UDPAddon2 > 0)

\* IP-layer bytes a row puts on the wire in 50 ms, the longest interval.
Sent(r, ipv6) ==
    (IF t1Active(r)
     THEN (50000 \div r.TxInterval1) * r.BurstSize1
            * L3Size(r.UDPPayload1, FALSE, ipv6)
     ELSE 0)
    + (IF t2Active(r)
       THEN (50000 \div r.TxInterval2)
              * (r.BurstSize2 * L3Size(r.UDPPayload2, FALSE, ipv6)
                 + IF r.UDPAddon2 > 0 THEN L3Size(r.UDPAddon2, r.rand, ipv6) ELSE 0)
       ELSE 0)

\* Bytes in 50 ms of a rate in Mbps.
PerMbps == 6250
=============================================================================
