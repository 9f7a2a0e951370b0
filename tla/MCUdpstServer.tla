---------------------------- MODULE MCUdpstServer ----------------------------
(* Small instances of UdpstServer.                                         *)
EXTENDS UdpstServer, TLC

SessionSymmetry == Permutations(Sessions)

Good == [ver |-> 20, mcIndex |-> 0, mcCount |-> 1, maxBandwidth |-> 2,
         modifiers |-> 0, authMode |-> 0, keyId |-> 0, signedBy |-> 0,
         skew |-> 0]
Up(m) == bwUpstreamBit + m

\* The same test asked for in both directions.
TwoWayRequests == {Good, [Good EXCEPT !.maxBandwidth = Up(2)]}

\* A server with key 7: a test of two Mbps in either direction and one of one,
\* and requests handleSetup rejects, before and after the reservation.
Signed == [Good EXCEPT !.authMode = 1, !.keyId = 7, !.signedBy = 7]
KeyedRequests ==
    {Signed, [Signed EXCEPT !.maxBandwidth = Up(2), !.skew = 5],
     [Signed EXCEPT !.maxBandwidth = Up(1)],
     [Signed EXCEPT !.keyId = 8], [Signed EXCEPT !.signedBy = 8],
     [Signed EXCEPT !.skew = 6], [Signed EXCEPT !.skew = -6],
     [Signed EXCEPT !.ver = 10], [Signed EXCEPT !.mcIndex = 1],
     [Signed EXCEPT !.modifiers = 1],
     [Signed EXCEPT !.maxBandwidth = Up(4)],
     Good, [Good EXCEPT !.authMode = 2]}
=============================================================================
