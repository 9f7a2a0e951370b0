------------------------------ MODULE Activation ------------------------------
(***************************************************************************)
(* The life of a session from its first Test Activation Request            *)
(* (session.awaitActivation and the watchdog of the test loops), with the  *)
(* client that repeats its request until a response arrives, over a        *)
(* network that loses and duplicates.  s, chosen once, is the session and  *)
(* the request; the datagrams of the test itself are UpstreamTest's and    *)
(* DownstreamTest's, here one action.                                      *)
(***************************************************************************)
EXTENDS Policing, SendingRates

CONSTANTS Scenarios,        \* sessions and their requests
          WatchdogTimeout   \* seconds

ASSUME ActivationAssumption ==
    /\ Rows = maxSendingRates
    /\ WatchdogTimeout \in Nat \ {0}
    /\ \A t \in Scenarios :
          /\ t.req \in TestAct /\ t.tries \in Nat
          /\ {t.upstream, t.jumbo, t.trad, t.marks, t.short} \subseteq BOOLEAN
          /\ t.pver \in Nat /\ t.MaxTestSeconds \in Int

VARIABLES
    s,        \* the scenario
    phase,    \* of the session: "await", "test" or "ended"
    left,     \* seconds to the read deadline or the watchdog
    p,        \* the policed parameters, None before the activation
    reqs,     \* requests in flight
    noise,    \* is a datagram that is no valid activation in flight?
    resp,     \* the response in flight, or None
    client,   \* "asking", "testing" or "gone"
    sends,    \* requests sent
    view      \* the client's reading of the response, or None

vars == <<s, phase, left, p, reqs, noise, resp, client, sends, view>>

None == <<>>

\* The request as the session parses it.
Request(t) == Carried(t.req, t.short)

\* The row of the response: upstream the client sends what it says.
AnnouncedRow(q) ==
    IF s.upstream THEN Row(s.jumbo, s.trad, initialIndex(q)) ELSE NoRate

Init ==
    /\ s \in Scenarios
    /\ phase = "await" /\ left = WatchdogTimeout /\ p = None
    /\ reqs = 0 /\ noise = FALSE /\ resp = None
    /\ client = "asking" /\ sends = 0 /\ view = None

-----------------------------------------------------------------------------
(* The client and the network (external).                                  *)

Send ==
    /\ client = "asking" /\ sends < s.tries
    /\ sends' = sends + 1
    /\ reqs' \in {reqs, reqs + 1, reqs + 2}    \* lost, sent, duplicated
    /\ UNCHANGED <<s, phase, left, p, noise, resp, client, view>>

ReceiveResponse ==
    /\ resp # None
    /\ resp' = None
    /\ IF client = "asking"
       THEN /\ client' = "testing"
            /\ view' = [params |-> Reading(Carried(resp.pdu, s.short), s),
                        row |-> resp.row]
       ELSE UNCHANGED <<client, view>>
    /\ UNCHANGED <<s, phase, left, p, reqs, noise, sends>>

LoseResponse ==
    /\ resp # None /\ resp' = None
    /\ UNCHANGED <<s, phase, left, p, reqs, noise, client, sends, view>>

GiveUp ==
    /\ client \in {"asking", "testing"} /\ client' = "gone"
    /\ UNCHANGED <<s, phase, left, p, reqs, noise, resp, sends, view>>

\* Another host's datagram, a malformed one, or one whose digest is wrong.
Noise ==
    /\ ~noise /\ noise' = TRUE
    /\ UNCHANGED <<s, phase, left, p, reqs, resp, client, sends, view>>

\* One second of the session's clock.
Tick ==
    /\ left > 0 /\ phase # "ended" /\ left' = left - 1
    /\ UNCHANGED <<s, phase, p, reqs, noise, resp, client, sends, view>>

-----------------------------------------------------------------------------
(* The session.                                                            *)

Activate ==
    /\ phase = "await" /\ left > 0 /\ reqs > 0
    /\ LET q == police(Request(s), s)
       IN  /\ p' = q
           /\ resp' = [pdu |-> Response(Request(s), q, s), row |-> AnnouncedRow(q)]
    /\ phase' = "test" /\ left' = WatchdogTimeout
    /\ reqs' = reqs - 1
    /\ UNCHANGED <<s, noise, client, sends, view>>

\* Fault: every datagram read gives the client the full time again.
Ignore_MovesDeadline ==
    /\ phase # "ended" /\ left > 0 /\ noise /\ noise' = FALSE
    /\ left' = WatchdogTimeout
    /\ UNCHANGED <<s, phase, p, reqs, resp, client, sends, view>>

\* awaitActivation's continue, and the test loops' skipping of what does not
\* parse: the deadline stays where it was.
Ignore ==
    /\ phase # "ended" /\ left > 0 /\ noise /\ noise' = FALSE
    /\ UNCHANGED <<s, phase, left, p, reqs, resp, client, sends, view>>

\* A repeated request finds the test running: it is neither load nor status, so
\* it is not answered and does not feed the watchdog.
IgnoreRepeat ==
    /\ phase = "test" /\ left > 0 /\ reqs > 0 /\ reqs' = reqs - 1
    /\ UNCHANGED <<s, phase, left, p, noise, resp, client, sends, view>>

\* A load or status datagram of the test.
Traffic ==
    /\ phase = "test" /\ left > 0 /\ client = "testing"
    /\ left' = WatchdogTimeout
    /\ UNCHANGED <<s, phase, p, reqs, noise, resp, client, sends, view>>

\* The test's duration has passed and the client confirms the stop.
Finish ==
    /\ phase = "test" /\ client = "testing" /\ phase' = "ended"
    /\ UNCHANGED <<s, left, p, reqs, noise, resp, client, sends, view>>

\* The read deadline of awaitActivation, or the watchdog of the test.
TimeOut ==
    /\ phase # "ended" /\ left = 0 /\ phase' = "ended"
    /\ UNCHANGED <<s, left, p, reqs, noise, resp, client, sends, view>>

Next ==
    \/ Send \/ ReceiveResponse \/ LoseResponse \/ GiveUp \/ Noise \/ Tick
    \/ Activate \/ Ignore \/ IgnoreRepeat \/ Traffic \/ Finish \/ TimeOut

\* The clock runs and the session's loops read it.  Nothing makes the client
\* confirm the stop, or fall silent.
Spec == Init /\ [][Next]_vars /\ WF_vars(Tick) /\ WF_vars(TimeOut)

-----------------------------------------------------------------------------
(* Properties.                                                             *)

Search == INSTANCE RateControl
    WITH Word <- 65536, HighSpeedThresh <- HighSpeedThreshOf(FALSE),
         MaxIdx <- Rows - 1, Params <- {}, p <- SearchParams(p),
         index <- initialIndex(p), slowAdjCount <- 0, retryCount <- 0,
         retryThresh <- 0, update <- FALSE

\* Whatever is asked for, police leaves a test the rest of the session is built
\* for: parameters newRateController's search assumes, a low threshold not above
\* the upper one, sub-intervals that fit in the duration, a suppression of rate
\* changes that ends before the test does, and a duration within MaxTestSeconds.
PolicedFits ==
    p # None =>
        /\ SearchParams(p) \in Search!ParamType
        /\ HighSpeedThreshOf(s.trad) = HighSpeedThreshOf(FALSE)
        /\ p.lowThresh <= p.upperThresh
        /\ 100 <= p.subInt /\ p.subInt <= p.duration * 1000
        /\ p.srAdjSupp * p.subInt < p.duration * 1000
        /\ s.MaxTestSeconds > 0 => p.duration <= s.MaxTestSeconds

\* A client that received the response and the session that sent it run the same
\* test, although awaitActivation converts units and widths on the way, the short
\* form of the PDU leaves a field out and the session answers only one of the
\* client's requests.
EndsAgree ==
    client = "testing" => view = [params |-> p, row |-> AnnouncedRow(p)]

\* Policing is a fixpoint: a client that asks again with the values it was
\* answered gets the same test.  The one exception is a CE threshold on a host
\* that refuses the marking, which police keeps while it clears the marking.
PolicingIsStable ==
    (p # None /\ (s.marks \/ p.ecnCEThresh = 0))
        => police(Carried(Response(Request(s), p, s), s.short), s) = p

\* The row a test starts at sends, IP headers included and in either address
\* family, as many Mbps as its index says up to the threshold, less than one at
\* row 0, and above the threshold more than the row before unless the burst is
\* already the largest.
RowIsItsRate ==
    p # None => \A ipv6 \in BOOLEAN :
        LET n == initialIndex(p)
            sent(k) == Sent(Row(s.jumbo, s.trad, k), ipv6)
        IN  /\ n = 0 => sent(0) < PerMbps
            /\ n \in 1..HighSpeedThreshOf(s.trad) => sent(n) = PerMbps * n
            /\ n > HighSpeedThreshOf(s.trad) =>
                  \/ sent(n) > sent(n - 1)
                  \/ sent(n) = sent(n - 1)
                     /\ Row(s.jumbo, s.trad, n).BurstSize1 = maxBurstSize

\* No row asks sendBurst for more datagrams than the maxBurstSize + 1 buffers
\* sendLoop allocates, nor for larger ones than the buffers are.
RowsFitBuffers ==
    p # None =>
        LET r == Row(s.jumbo, s.trad, initialIndex(p))
        IN  /\ t1Active(r) \/ t2Active(r)
            /\ r.BurstSize1 <= maxBurstSize + 1
            /\ r.BurstSize2 + (IF r.UDPAddon2 > 0 THEN 1 ELSE 0) <= maxBurstSize + 1
            /\ {r.UDPPayload1, r.UDPPayload2, r.UDPAddon2} \subseteq 0..maxJPayloadSize

\* A session ends unless load or status datagrams of its own client go on
\* arriving for ever: nothing else puts its end off, neither requests repeated
\* because the response was lost nor whatever other hosts keep sending.
SessionEnds == <>[](phase = "ended") \/ []<><<Traffic>>_vars
=============================================================================
