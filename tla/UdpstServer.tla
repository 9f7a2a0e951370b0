----------------------------- MODULE UdpstServer -----------------------------
(***************************************************************************)
(* The TR-471 server of internal/udpst: the control goroutine (Serve and   *)
(* handleSetup), one goroutine per test connection (session.run) and the   *)
(* goroutine that calls Close.  Every critical section of Server.mu, every *)
(* socket operation and every WaitGroup operation is a step of its own;    *)
(* what a test does between its start and its end is abstracted to one     *)
(* state.                                                                  *)
(***************************************************************************)
EXTENDS SetupRequest, FiniteSets

CONSTANTS Sessions,        \* names for session goroutines, reused
          Requests,        \* the Setup Requests clients send
          MaxSessions,     \* Config.MaxSessions after NewServer's default
          TestPortMin, TestPortMax,
          EphemeralPorts,  \* kernel ports for a server without a port range
          MaxRequests      \* bound: requests handled in one behaviour

VARIABLES
    used,          \* usedUS and usedDS, by direction
    sessions, nextPort, closed, wg,
    setupAccepts, setupRejects,
    tests,         \* testsUpstream and testsDownstream, by direction
    listening,     \* the control socket is open
    bound,         \* ports of the open test sockets
    pc,            \* control goroutine: where handleSetup is
    req, mbw, code, port,      \* its locals: mbw is what it has reserved
    probe, tried,  \* port scan: the loop index and the ports it has asked for
    spc,           \* session goroutines: where session.run is
    sess,          \* their immutable part: bwUpstream, bwMbps, socket
    testDir,       \* the direction the Test Activation asked for
    closer         \* the goroutine calling Close

resources == <<used, sessions, nextPort, wg, bound>>
counters == <<setupAccepts, setupRejects, tests>>
locals == <<req, mbw, code, port, probe, tried>>
control == <<pc, locals>>
goroutines == <<spc, sess, testDir>>
vars == <<resources, closed, counters, listening, control, goroutines, closer>>

ControlPC == {"recv", "reserve", "slot", "bind", "unslot", "release",
              "reject", "accept", "spawn", "stopped"}
SessionPC == {"free", "await", "test", "close", "release", "done", "exit"}

HasPortRange == TestPortMin > 0 /\ TestPortMax >= TestPortMin
Span == TestPortMax - TestPortMin + 1
Ports == IF HasPortRange THEN TestPortMin..TestPortMax ELSE EphemeralPorts
NoSession == [dir |-> "down", mbw |-> 0, port |-> 0]

ASSUME ServerAssumption ==
    /\ IsFiniteSet(Sessions)
    /\ Requests \subseteq SetupPDU
    /\ MaxSessions \in Nat /\ MaxRequests \in Nat
    /\ TestPortMin \in Nat /\ TestPortMax \in Nat
    /\ EphemeralPorts \subseteq Nat \ {0}

Init ==
    /\ used = [d \in Dir |-> 0]
    /\ sessions = 0 /\ nextPort = TestPortMin /\ wg = 0 /\ bound = {}
    /\ closed = FALSE /\ listening = TRUE /\ closer = "running"
    /\ setupAccepts = 0 /\ setupRejects = 0 /\ tests = [d \in Dir |-> 0]
    /\ pc = "recv" /\ req = ZeroPDU /\ mbw = 0 /\ code = "ACKOK"
    /\ port = 0 /\ probe = 0 /\ tried = {}
    /\ spc = [s \in Sessions |-> "free"]
    /\ sess = [s \in Sessions |-> NoSession]
    /\ testDir = [s \in Sessions |-> "none"]

-----------------------------------------------------------------------------
(* Serve and handleSetup.  Datagrams from sources outside the allow list,  *)
(* and ones that are not Setup Requests, change nothing.                   *)

\* Without admission control mbw stays 0 and the mode switch follows at once.
RecvSetup(r) ==
    /\ pc = "recv" /\ listening
    /\ setupAccepts + setupRejects < MaxRequests
    /\ req' = r
    /\ code' = IF BeforeReserve(r) = "ACKOK" /\ MaxBandwidthMbps = 0
               THEN AfterReserve(r) ELSE BeforeReserve(r)
    /\ pc' = IF code' # "ACKOK" THEN "reject"
             ELSE IF MaxBandwidthMbps > 0 THEN "reserve" ELSE "slot"
    /\ UNCHANGED <<resources, closed, counters, listening, mbw, port, probe,
                   tried, goroutines, closer>>

\* Fault: any headroom is taken to be enough.
BandwidthFits_AnyHeadroom == used[Direction(req)] < MaxBandwidthMbps

BandwidthFits == used[Direction(req)] + Mbps(req) <= MaxBandwidthMbps

ReserveRefused ==
    /\ pc = "reserve" /\ ~BandwidthFits
    /\ code' = "CapExc" /\ pc' = "reject"
    /\ UNCHANGED <<resources, closed, counters, listening, req, mbw, port,
                   probe, tried, goroutines, closer>>

\* reserveBandwidth succeeds and the authentication-mode switch is taken.
ReserveGranted ==
    /\ pc = "reserve" /\ BandwidthFits
    /\ used' = [used EXCEPT ![Direction(req)] = @ + Mbps(req)]
    /\ mbw' = Mbps(req)
    /\ code' = AfterReserve(req)
    /\ pc' = IF code' = "ACKOK" THEN "slot" ELSE "release"
    /\ UNCHANGED <<sessions, nextPort, wg, bound, closed, counters, listening,
                   req, port, probe, tried, goroutines, closer>>

\* Faults: off by one at the limit; Close not looked at.
SlotAvailable_OffByOne == ~closed /\ sessions <= MaxSessions
SlotAvailable_IgnoresClose == sessions < MaxSessions

\* newSessionSocket, first critical section.
SlotAvailable == ~closed /\ sessions < MaxSessions

SlotRefused ==
    /\ pc = "slot" /\ ~SlotAvailable
    /\ code' = "ConnFail" /\ pc' = "release"
    /\ UNCHANGED <<resources, closed, counters, listening, req, mbw, port,
                   probe, tried, goroutines, closer>>

SlotTaken ==
    /\ pc = "slot" /\ SlotAvailable
    /\ sessions' = sessions + 1
    /\ pc' = "bind"
    /\ UNCHANGED <<used, nextPort, wg, bound, closed, counters, listening,
                   locals, goroutines, closer>>

\* Fault: the scan does not wrap around at the end of the range.
ScanPort_NoWrap == nextPort + probe

\* The port the scan asks for next; only this goroutine writes nextPort.
ScanPort == TestPortMin + ((nextPort - TestPortMin + probe) % Span)
AskedPorts == IF HasPortRange THEN {ScanPort} ELSE EphemeralPorts

\* net.ListenUDP succeeds: the port must be free.
Bind(p) ==
    /\ pc = "bind" /\ p \in AskedPorts \ bound
    /\ bound' = bound \cup {p}
    /\ nextPort' = IF ~HasPortRange THEN nextPort
                   ELSE IF p + 1 > TestPortMax THEN TestPortMin ELSE p + 1
    /\ port' = p /\ probe' = 0 /\ tried' = {}
    /\ pc' = "accept"
    /\ UNCHANGED <<used, sessions, wg, closed, counters, listening, req, mbw,
                   code, goroutines, closer>>

\* Fault: the scan leaves out the last port.
BindFails_StopsEarly ==
    /\ pc = "bind"
    /\ IF HasPortRange /\ probe + 2 < Span
       THEN probe' = probe + 1 /\ pc' = "bind"
       ELSE probe' = 0 /\ pc' = "unslot"
    /\ tried' = tried \cup AskedPorts
    /\ UNCHANGED <<resources, closed, counters, listening, req, mbw, code, port,
                   goroutines, closer>>

\* net.ListenUDP fails: the port is taken here or by another process, or the
\* kernel has no socket to give.  The scan goes on until the range is used up.
BindFails ==
    /\ pc = "bind"
    /\ IF HasPortRange /\ probe + 1 < Span
       THEN probe' = probe + 1 /\ pc' = "bind"
       ELSE probe' = 0 /\ pc' = "unslot"
    /\ tried' = tried \cup AskedPorts
    /\ UNCHANGED <<resources, closed, counters, listening, req, mbw, code, port,
                   goroutines, closer>>

\* Fault: a bind that fails keeps its slot.
Unslot_KeepsSlot ==
    /\ pc = "unslot"
    /\ code' = "ConnFail" /\ pc' = "release" /\ tried' = {}
    /\ UNCHANGED <<resources, closed, counters, listening, req, mbw, port, probe,
                   goroutines, closer>>

\* sessionDone on newSessionSocket's error paths.
Unslot ==
    /\ pc = "unslot"
    /\ sessions' = sessions - 1
    /\ code' = "ConnFail" /\ pc' = "release" /\ tried' = {}
    /\ UNCHANGED <<used, nextPort, wg, bound, closed, counters, listening, req,
                   mbw, port, probe, goroutines, closer>>

\* Fault: a request rejected after its reservation keeps it.
ReleasedOnErr_Leak == used

ReleasedOnErr ==
    IF mbw > 0 THEN [used EXCEPT ![Direction(req)] = @ - mbw] ELSE used

\* releaseOnErr
ReleaseOnErr ==
    /\ pc = "release"
    /\ used' = ReleasedOnErr
    /\ mbw' = 0 /\ pc' = "reject"
    /\ UNCHANGED <<sessions, nextPort, wg, bound, closed, counters, listening,
                   req, code, port, probe, tried, goroutines, closer>>

\* sendSetupResponse with a rejection code; Serve reads the next datagram.
SendReject ==
    /\ pc = "reject"
    /\ setupRejects' = setupRejects + 1
    /\ pc' = "recv" /\ req' = ZeroPDU /\ code' = "ACKOK"
    /\ UNCHANGED <<resources, closed, setupAccepts, tests, listening, mbw, port,
                   probe, tried, goroutines, closer>>

\* The Null Request from the new socket, then the accepting Setup Response.
SendAccept ==
    /\ pc = "accept"
    /\ setupAccepts' = setupAccepts + 1
    /\ pc' = "spawn"
    /\ UNCHANGED <<resources, closed, setupRejects, tests, listening, locals,
                   goroutines, closer>>

AddToGroup == wg + 1

\* wg.Add(1) and the go statement: the session owns the reservation from here.
Spawn(s) ==
    /\ pc = "spawn" /\ spc[s] = "free"
    /\ wg' = AddToGroup
    /\ spc' = [spc EXCEPT ![s] = "await"]
    /\ sess' = [sess EXCEPT ![s] = [dir |-> Direction(req), mbw |-> mbw,
                                    port |-> port]]
    /\ pc' = "recv" /\ req' = ZeroPDU /\ mbw' = 0 /\ port' = 0
    /\ UNCHANGED <<used, sessions, nextPort, bound, closed, counters, listening,
                   code, probe, tried, testDir, closer>>

\* ReadFromUDPAddrPort returns net.ErrClosed and Serve returns nil.
ServeReturns ==
    /\ pc = "recv" /\ ~listening
    /\ pc' = "stopped"
    /\ UNCHANGED <<resources, closed, counters, listening, locals, goroutines,
                   closer>>

-----------------------------------------------------------------------------
(* session.run                                                             *)

\* awaitActivation accepts a Test Activation; its command chooses d.
Activate(s, d) ==
    /\ spc[s] = "await"
    /\ spc' = [spc EXCEPT ![s] = "test"]
    /\ testDir' = [testDir EXCEPT ![s] = d]
    /\ UNCHANGED <<resources, closed, counters, listening, control, sess, closer>>

\* No valid Test Activation before the watchdog deadline.
ActivationTimeout(s) ==
    /\ spc[s] = "await"
    /\ spc' = [spc EXCEPT ![s] = "close"]
    /\ UNCHANGED <<resources, closed, counters, listening, control, sess,
                   testDir, closer>>

\* runUpstream or runDownstream leaves its loop and logSummary counts the test.
TestEnds(s) ==
    /\ spc[s] = "test"
    /\ tests' = [tests EXCEPT ![testDir[s]] = @ + 1]
    /\ spc' = [spc EXCEPT ![s] = "close"]
    /\ UNCHANGED <<resources, closed, setupAccepts, setupRejects, listening,
                   control, sess, testDir, closer>>

\* The deferred function of run, one step for each of its three calls.
CloseSocket(s) ==
    /\ spc[s] = "close"
    /\ bound' = bound \ {sess[s].port}
    /\ spc' = [spc EXCEPT ![s] = IF sess[s].mbw > 0 THEN "release" ELSE "done"]
    /\ UNCHANGED <<used, sessions, nextPort, wg, closed, counters, listening,
                   control, sess, testDir, closer>>

Released(s) == [used EXCEPT ![sess[s].dir] = @ - sess[s].mbw]

ReleaseBandwidth(s) ==
    /\ spc[s] = "release"
    /\ used' = Released(s)
    /\ spc' = [spc EXCEPT ![s] = "done"]
    /\ UNCHANGED <<sessions, nextPort, wg, bound, closed, counters, listening,
                   control, sess, testDir, closer>>

SessionDone(s) ==
    /\ spc[s] = "done"
    /\ sessions' = sessions - 1
    /\ spc' = [spc EXCEPT ![s] = "exit"]
    /\ UNCHANGED <<used, nextPort, wg, bound, closed, counters, listening,
                   control, sess, testDir, closer>>

LeaveGroup == wg - 1

\* The deferred wg.Done of the goroutine.
WgDone(s) ==
    /\ spc[s] = "exit"
    /\ wg' = LeaveGroup
    /\ spc' = [spc EXCEPT ![s] = "free"]
    /\ sess' = [sess EXCEPT ![s] = NoSession]
    /\ testDir' = [testDir EXCEPT ![s] = "none"]
    /\ UNCHANGED <<used, sessions, nextPort, bound, closed, counters, listening,
                   control, closer>>

-----------------------------------------------------------------------------
(* Close                                                                   *)

CloseFlag ==
    /\ closer = "running"
    /\ closed' = TRUE /\ closer' = "flagged"
    /\ UNCHANGED <<resources, counters, listening, control, goroutines>>

CloseConn ==
    /\ closer = "flagged"
    /\ listening' = FALSE /\ closer' = "waiting"
    /\ UNCHANGED <<resources, closed, counters, control, goroutines>>

\* Fault: the sessions are not waited for.
CloseReturns_NoWait ==
    /\ closer = "waiting" /\ closer' = "returned"
    /\ UNCHANGED <<resources, closed, counters, listening, control, goroutines>>

\* wg.Wait returns when the counter is zero.
CloseReturns ==
    /\ closer = "waiting" /\ wg = 0
    /\ closer' = "returned"
    /\ UNCHANGED <<resources, closed, counters, listening, control, goroutines>>

\* Close has returned, Serve has returned and no session is left.
Terminated ==
    /\ closer = "returned" /\ pc = "stopped"
    /\ \A s \in Sessions : spc[s] = "free"
    /\ UNCHANGED vars

HandleSetup ==
    \/ ReserveRefused \/ ReserveGranted \/ SlotRefused \/ SlotTaken
    \/ \E p \in AskedPorts : Bind(p)
    \/ BindFails \/ Unslot \/ ReleaseOnErr \/ SendReject \/ SendAccept
    \/ \E s \in Sessions : Spawn(s)

Cleanup(s) ==
    CloseSocket(s) \/ ReleaseBandwidth(s) \/ SessionDone(s) \/ WgDone(s)

Next ==
    \/ \E r \in Requests : RecvSetup(r)
    \/ HandleSetup
    \/ ServeReturns
    \/ \E s \in Sessions : \/ \E d \in Dir : Activate(s, d)
                           \/ ActivationTimeout(s)
                           \/ TestEnds(s)
                           \/ Cleanup(s)
    \/ CloseFlag \/ CloseConn \/ CloseReturns
    \/ Terminated

Spec == Init /\ [][Next]_vars

-----------------------------------------------------------------------------
(* Properties                                                              *)

\* The values the server's, the goroutines' and the closer's state takes.
TypeOK ==
    /\ used \in [Dir -> Int] /\ sessions \in Int /\ wg \in Int
    /\ nextPort \in Nat /\ bound \in SUBSET Nat
    /\ closed \in BOOLEAN /\ listening \in BOOLEAN
    /\ closer \in {"running", "flagged", "waiting", "returned"}
    /\ setupAccepts \in Nat /\ setupRejects \in Nat /\ tests \in [Dir -> Nat]
    /\ pc \in ControlPC /\ req \in SetupPDU /\ mbw \in Nat /\ code \in Codes
    /\ port \in Nat /\ probe \in Nat /\ tried \in SUBSET Nat
    /\ spc \in [Sessions -> SessionPC]
    /\ sess \in [Sessions -> [dir : Dir, mbw : Nat, port : Nat]]
    /\ testDir \in [Sessions -> Dir \cup {"none"}]

\* Who holds what.  A reservation of m Mbps is m units, so that the total a
\* set of sessions holds is the cardinality of the set of their units.
HoldsBandwidth(s) == spc[s] \in {"await", "test", "close", "release"}
HoldsSlot(s) == spc[s] \in {"await", "test", "close", "release", "done"}
HoldsSocket(s) == spc[s] \in {"await", "test", "close"}
Live(s) == spc[s] # "free"

Units(S, h) == {u \in S \X (1..MaxBandwidthMbps) : u[2] <= h[u[1]].mbw}
Holders(d) == {s \in Sessions : HoldsBandwidth(s) /\ sess[s].dir = d}
Reserved(d) == Cardinality(Units(Holders(d), sess))
Pending(d) == IF Direction(req) = d THEN mbw ELSE 0
SlotPending == IF pc \in {"bind", "unslot", "accept", "spawn"} THEN 1 ELSE 0

\* usedUS and usedDS are exactly what the setup in progress and the sessions
\* that have not released yet have reserved: no path of handleSetup or of
\* session.run loses a reservation or returns one twice.
BandwidthLedger ==
    \A d \in Dir : used[d] = Reserved(d) + Pending(d)

\* Config.MaxBandwidthMbps: the summed bandwidth requirement of the accepted
\* tests of a direction never exceeds the budget.
AdmittedWithinBudget ==
    \A d \in Dir : Reserved(d) <= MaxBandwidthMbps

\* Server.sessions counts the slots held, through every error path of
\* newSessionSocket, and never passes Config.MaxSessions.
SlotLedger ==
    /\ sessions = Cardinality({s \in Sessions : HoldsSlot(s)}) + SlotPending
    /\ sessions <= MaxSessions

\* Every session has a test socket of its own until it closes it, inside the
\* configured range, and no socket outlives its owner.
SocketOwnership ==
    /\ \A s, t \in Sessions :
          HoldsSocket(s) /\ HoldsSocket(t) /\ s # t => sess[s].port # sess[t].port
    /\ bound = {sess[s].port : s \in {x \in Sessions : HoldsSocket(x)}}
                 \cup (IF pc \in {"accept", "spawn"} THEN {port} ELSE {})
    /\ bound \subseteq Ports

\* newSessionSocket gives up only after it has asked for every port of the
\* range, wherever the rotating nextPort made it start.
ScanIsExhaustive == pc = "unslot" => tried = Ports

\* The WaitGroup counts the running session goroutines.
GroupLedger == wg = Cardinality({s \in Sessions : Live(s)})

\* Close can miss the one setup that had taken its slot before closed was set.
\* Once Close has returned, that setup still in progress and the sessions still
\* running are together at most one: while the setup goes on no session runs,
\* and the session it starts is the only one.
AtMostOneLateSession ==
    closer = "returned" =>
        Cardinality({s \in Sessions : Live(s)}) + SlotPending <= 1

\* The server seen as Admission: a session's lease is what it has not released
\* yet, a request is being decided from its slot to its spawn, and the phase is
\* where Close is.
LeaseOf ==
    [s \in Sessions |-> IF HoldsBandwidth(s)
                        THEN [dir |-> sess[s].dir, mbps |-> sess[s].mbw]
                        ELSE [dir |-> "none", mbps |-> 0]]
Deciding == IF SlotPending = 1 THEN [dir |-> Direction(req), mbps |-> mbw]
            ELSE [dir |-> "none", mbps |-> 0]
ClosePhase == CASE closer = "running" -> "open"
                [] closer \in {"flagged", "waiting"} -> "closing"
                [] closer = "returned" -> "closed"

Promise == INSTANCE Admission
           WITH Tests <- Sessions, Dirs <- Dir, Budget <- MaxBandwidthMbps,
                MaxTests <- MaxSessions, lease <- LeaseOf,
                asking <- Deciding, phase <- ClosePhase

\* handleSetup, session.run and Close, with all their error paths and in every
\* interleaving, do what Admission allows: a request is let in only while the
\* server is open, with a slot free and its bandwidth beside the leases; a test
\* keeps its lease unchanged until it returns it, once; Close returns only
\* when no lease is out and can miss only the request then being decided.
ImplementsAdmission == Promise!ASpec

\* Config.Keys: non-empty requires authentication.  A session is only created
\* for a request whose digest verifies and whose time stamp is in the window,
\* although the mode is looked at twice, before and after the reservation.
SessionsAreAuthenticated ==
    pc \in {"bind", "accept", "spawn"} /\ Keys # {} =>
        Authenticated(req) /\ req.skew \in -authTimeWindow..authTimeWindow

\* Close's comment: it waits for active sessions to finish.
CloseWaitsForSessions ==
    closer = "returned" => \A s \in Sessions : ~Live(s)

\* The budget read as a bound on the load of a direction: the tests that run
\* in direction d were together granted no more than the budget.
RunningWithinBudget ==
    \A d \in Dir :
        LET running == {s \in Sessions : spc[s] = "test" /\ testDir[s] = d}
        IN  Cardinality(Units(running, sess)) <= MaxBandwidthMbps
=============================================================================
