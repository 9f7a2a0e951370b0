-------------------------------- MODULE Daemon --------------------------------
(***************************************************************************)
(* diagd serve (cmd/diagd/serve.go): the main goroutine starts the enabled *)
(* listeners one after the other, waits for a signal or for the first      *)
(* failure, and shuts down in order.  The TR-471 server is UdpstServer,    *)
(* whose Close the main goroutine calls; of the HTTP server the daemon     *)
(* sees its transfers, of the echo responder and the ops server that they  *)
(* run.  When the process exits everything in it stops where it is.        *)
(***************************************************************************)
EXTENDS UdpstServer

CONSTANTS Settings,       \* the sets of listeners the flags enable
          MaxTransfers    \* bound: HTTP transfers at a time

Listeners == {"http", "echo", "tr471", "ops"}

ASSUME DaemonAssumption ==
    Settings \subseteq SUBSET Listeners /\ MaxTransfers \in Nat

VARIABLES
    main,        \* where cmdServe is
    exit,        \* its return value, NoExit before
    enabled,     \* the listeners whose address is not empty
    st,          \* per listener: "off", "starting", "up", "closed" or "failed"
    errc,        \* errors in the channel, of capacity errcCap
    signalled,   \* ctx is done
    transfers,   \* HTTP transfers on accepted connections
    graceOver    \* Shutdown's context has expired

dvars == <<main, exit, enabled, st, errc, signalled, transfers, graceOver>>
allVars == <<vars, dvars>>

errcCap == 2
NoExit == -1
Running == main # "exited"

DInit ==
    /\ Init
    /\ main = "http" /\ exit = NoExit /\ enabled \in Settings
    /\ st = [l \in Listeners |-> "off"]
    /\ errc = 0 /\ signalled = FALSE /\ transfers = 0 /\ graceOver = FALSE

Goto(l) == main' = l /\ UNCHANGED exit
Return(code_) == main' = "exited" /\ exit' = code_

-----------------------------------------------------------------------------
(* Start.  The HTTP and ops servers bind in their own goroutines, the two  *)
(* UDP sockets are bound by main, which gives up when that fails.          *)

StartHttp ==
    /\ main = "http" /\ Goto("echo")
    /\ st' = [st EXCEPT !["http"] = IF "http" \in enabled THEN "starting" ELSE @]
    /\ UNCHANGED <<vars, enabled, errc, signalled, transfers, graceOver>>

BindUDP(l, next) ==
    /\ main = l
    /\ \/ l \in enabled /\ st' = [st EXCEPT ![l] = "up"] /\ Goto(next)
       \/ l \in enabled /\ UNCHANGED st /\ Return(2)
       \/ l \notin enabled /\ UNCHANGED st /\ Goto(next)
    /\ UNCHANGED <<vars, enabled, errc, signalled, transfers, graceOver>>

StartOps ==
    /\ main = "ops"
    /\ IF enabled \cap {"http", "echo", "tr471"} = {}
       THEN Return(2) /\ UNCHANGED st
       ELSE /\ st' = [st EXCEPT !["ops"] = IF "ops" \in enabled THEN "starting" ELSE @]
            /\ Goto("select")
    /\ UNCHANGED <<vars, enabled, errc, signalled, transfers, graceOver>>

Startup ==
    StartHttp \/ BindUDP("echo", "tr471") \/ BindUDP("tr471", "ops") \/ StartOps

\* ListenAndServe binds.
Listen(l) ==
    /\ Running /\ l \in {"http", "ops"} /\ st[l] = "starting"
    /\ st' = [st EXCEPT ![l] = "up"]
    /\ UNCHANGED <<vars, main, exit, enabled, errc, signalled, transfers, graceOver>>

\* A sender that finds the channel full blocks for ever.
Reported == IF errc < errcCap THEN errc + 1 ELSE errc

\* ListenAndServe or the echo responder's Serve returns an error other than
\* closed.
ListenerFails(l) ==
    /\ Running /\ l # "tr471" /\ st[l] \in {"starting", "up"}
    /\ st' = [st EXCEPT ![l] = "failed"] /\ errc' = Reported
    /\ UNCHANGED <<vars, main, exit, enabled, signalled, transfers, graceOver>>

\* Server.Serve returns an error of its read; the sessions go on.
ServeFails ==
    /\ Running /\ st["tr471"] = "up" /\ pc = "recv" /\ listening
    /\ pc' = "stopped" /\ st' = [st EXCEPT !["tr471"] = "failed"]
    /\ errc' = Reported
    /\ UNCHANGED <<resources, closed, counters, listening, locals, goroutines, closer,
                   main, exit, enabled, signalled, transfers, graceOver>>

-----------------------------------------------------------------------------
(* The environment and the goroutines.                                     *)

Signal ==
    /\ Running /\ ~signalled /\ signalled' = TRUE
    /\ UNCHANGED <<vars, main, exit, enabled, st, errc, transfers, graceOver>>

TransferStarts ==
    /\ Running /\ st["http"] = "up" /\ transfers < MaxTransfers
    /\ transfers' = transfers + 1
    /\ UNCHANGED <<vars, main, exit, enabled, st, errc, signalled, graceOver>>

TransferEnds ==
    /\ Running /\ transfers > 0 /\ transfers' = transfers - 1
    /\ UNCHANGED <<vars, main, exit, enabled, st, errc, signalled, graceOver>>

\* Steps of the control goroutine and of the sessions.
Serves(step) == Running /\ st["tr471"] \in {"up", "failed", "closed"} /\ step /\ UNCHANGED dvars

ServerStep ==
    \/ \E r \in Requests : RecvSetup(r)
    \/ HandleSetup \/ ServeReturns
    \/ \E s \in Sessions : \/ \E d \in Dir : Activate(s, d)
                           \/ ActivationTimeout(s) \/ TestEnds(s) \/ Cleanup(s)

-----------------------------------------------------------------------------
(* Stop.                                                                   *)

\* The select takes either branch when both are ready.
Select ==
    /\ main = "select"
    /\ \/ signalled /\ Goto("shutHttp")
       \/ errc > 0 /\ Return(1)
    /\ UNCHANGED <<vars, enabled, st, errc, signalled, transfers, graceOver>>

\* Shutdown closes the listener at once, also one that is not yet bound.
BeginShutdown ==
    /\ main = "shutHttp"
    /\ IF "http" \in enabled
       THEN /\ st' = [st EXCEPT !["http"] = IF @ = "failed" THEN @ ELSE "closed"]
            /\ Goto("waitHttp")
       ELSE UNCHANGED st /\ Goto("closeEcho")
    /\ UNCHANGED <<vars, enabled, errc, signalled, transfers, graceOver>>

\* The five seconds of shutdownCtx.
GraceExpires ==
    /\ main = "waitHttp" /\ ~graceOver /\ graceOver' = TRUE
    /\ UNCHANGED <<vars, main, exit, enabled, st, errc, signalled, transfers>>

\* Fault: Shutdown is given no deadline.
ShutdownDone_NoDeadline == transfers = 0

ShutdownDone == transfers = 0 \/ graceOver

ShutdownReturns ==
    /\ main = "waitHttp" /\ ShutdownDone /\ Goto("closeEcho")
    /\ UNCHANGED <<vars, enabled, st, errc, signalled, transfers, graceOver>>

\* Fault: the ops server is closed with the other light listeners.
CloseEcho_AndOps ==
    /\ main = "closeEcho" /\ Goto("closeTr471")
    /\ st' = [l \in Listeners |-> IF l \in {"echo", "ops"} /\ st[l] = "up"
                                 THEN "closed" ELSE st[l]]
    /\ UNCHANGED <<vars, enabled, errc, signalled, transfers, graceOver>>

CloseEcho ==
    /\ main = "closeEcho" /\ Goto("closeTr471")
    /\ st' = [st EXCEPT !["echo"] = IF @ = "up" THEN "closed" ELSE @]
    /\ UNCHANGED <<vars, enabled, errc, signalled, transfers, graceOver>>

\* tr471Srv.Close: the steps of UdpstServer's closer are main's.
CloseTr471 ==
    /\ main = "closeTr471"
    /\ \/ "tr471" \notin enabled /\ Goto("closeOps") /\ UNCHANGED <<vars, st>>
       \/ "tr471" \in enabled /\ CloseFlag /\ UNCHANGED <<main, exit, st>>
       \/ /\ CloseConn /\ UNCHANGED <<main, exit>>
          /\ st' = [st EXCEPT !["tr471"] = IF @ = "up" THEN "closed" ELSE @]
       \/ CloseReturns /\ Goto("closeOps") /\ UNCHANGED st
    /\ UNCHANGED <<enabled, errc, signalled, transfers, graceOver>>

CloseOps ==
    /\ main = "closeOps" /\ Return(0)
    /\ st' = [st EXCEPT !["ops"] = IF @ \in {"starting", "up"} THEN "closed" ELSE @]
    /\ UNCHANGED <<vars, enabled, errc, signalled, transfers, graceOver>>

Stopping ==
    \/ Select \/ BeginShutdown \/ GraceExpires \/ ShutdownReturns \/ CloseEcho
    \/ CloseTr471 \/ CloseOps

Exited == ~Running /\ UNCHANGED allVars

DNext ==
    \/ Startup \/ Stopping \/ Signal \/ TransferStarts \/ TransferEnds \/ ServeFails
    \/ \E l \in Listeners : Listen(l) \/ ListenerFails(l)
    \/ Serves(ServerStep)
    \/ Exited

(***************************************************************************)
(* Goroutines that can run do run, Shutdown's timer expires and the read   *)
(* deadline ends awaitActivation.  A test has no such end: its client's    *)
(* load and statuses put the watchdog off without limit, so TestEnds is    *)
(* not fair.  Transfers need not end either, and nobody need send a signal *)
(* or a request.                                                           *)
(***************************************************************************)
DFairness ==
    /\ WF_allVars(Startup \/ Stopping)
    /\ WF_allVars(Serves(HandleSetup \/ ServeReturns))
    /\ \A s \in Sessions : WF_allVars(Serves(ActivationTimeout(s) \/ Cleanup(s)))

DSpec == DInit /\ [][DNext]_allVars /\ DFairness

-----------------------------------------------------------------------------
(* Properties                                                              *)

LiveSessions == {s \in Sessions : Live(s)}
InTest == {s \in Sessions : spc[s] = "test"}

\* A signal, or the failure of a listener, ends the process, or else Close waits
\* for ever for one test that its client never lets end.  Nothing else holds a
\* shutdown up: not HTTP clients, not sessions that await their activation or
\* clean up, not a setup in progress, not a listener that fails meanwhile.
StopsWhenTold ==
    \/ \E s \in Sessions : <>[](closer = "waiting" /\ s \in InTest)
    \/ (signalled \/ errc > 0) ~> ~Running

\* cmdServe returns 0 only after a signal and with no listener left open.  What
\* it cuts off is HTTP transfers that outlast Shutdown's five seconds, and of
\* TR-471 the one session, running or still to be started, whose setup Close
\* can miss.
CleanExit ==
    exit = 0 =>
        /\ signalled /\ \A l \in Listeners : st[l] \in {"off", "closed", "failed"}
        /\ transfers > 0 => graceOver
        /\ Cardinality(LiveSessions) + SlotPending <= 1

\* The ops server is closed last: as long as shutdown waits for tests, /metrics
\* still shows them.
OpsOutlivesTests ==
    st["ops"] = "closed" => closer = "returned" \/ "tr471" \notin enabled

\* When the requests stop coming, what the running process still holds is what
\* tests in progress hold: the slot counter, the WaitGroup, the reserved
\* bandwidth of each direction and the open sockets come down to theirs, the
\* server being closed, or its Serve having failed, in the meantime or not.
OnlyTestsHoldOn ==
    <>[](Running =>
            /\ sessions = Cardinality(InTest) /\ wg = Cardinality(InTest)
            /\ bound = {sess[s].port : s \in InTest}
            /\ \A d \in Dir : used[d] =
                  Cardinality(Units({s \in InTest : sess[s].dir = d}, sess)))
=============================================================================
