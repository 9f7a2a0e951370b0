---------------------------- MODULE UpstreamTest ----------------------------
(***************************************************************************)
(* session.runUpstream: the receive loop that accounts the client's load   *)
(* (RxAccounting), steers its rate (RateControl) and sends a status every  *)
(* trial interval, with a client and a network that may lose or reorder    *)
(* everything.  Time is counted in ticks; deadlines are kept as distances  *)
(* from now, which saturate where the code no longer tells them apart.     *)
(***************************************************************************)
EXTENDS RxAccounting, RateControl

CONSTANTS TrialInt, SubInt, Duration, Watchdog,   \* in ticks
          MaxSeq,      \* bound: load datagrams the client sends
          Deltas, Rtts \* what a datagram can show, as in RxStream

VARIABLES pc, quiet,   \* quiet: now - lastRx; the watchdog is lastRx + Watchdog
          elapsed,     \* now - testStart
          due,         \* nextStatus - now
          sinceRoll,   \* now - subStart
          stopping, clientDone, readFailed, statusSeq, action,
          net, cseq, cpc   \* load in flight; the client's counter and state

clock == <<quiet, elapsed, due, sinceRoll>>
client == <<net, cseq, cpc>>
engine == <<pc, stopping, clientDone, readFailed, statusSeq, action>>
vars == <<rxVars, rcVars, clock, engine, client>>

ASSUME TimeAssumption ==
    /\ TrialInt \in Nat \ {0} /\ SubInt \in Nat /\ Watchdog \in Nat
    /\ Duration \in Nat /\ MaxSeq \in Nat
    /\ Deltas \subseteq Int /\ Rtts \subseteq Int

\* session.police replaces thresholds that are out of order (PolicedFits).
ASSUME ThresholdAssumption == \A q \in Params : q.lowThresh <= q.upperThresh

\* Elapsed time is kept up to a watchdog interval after the latest stop.
Horizon == Duration + 2 * Watchdog + 1

Init ==
    /\ RxInit /\ RcInit
    /\ quiet = 0 /\ elapsed = 0 /\ due = TrialInt /\ sinceRoll = 0
    /\ pc = "top" /\ stopping = FALSE /\ clientDone = FALSE /\ readFailed = FALSE
    /\ statusSeq = 0 /\ action = "none"
    /\ net = {} /\ cseq = 0 /\ cpc = "sending"

-----------------------------------------------------------------------------
(* The loop                                                                *)

\* trialInput
TrialInput ==
    [loss |-> trial.loss, ooo |-> trial.ooo, dup |-> trial.dup,
     dvSum |-> trial.dvSum, dvCnt |-> trial.dvCnt, rtt |-> rttVarSample,
     rx |-> trial.rx, ce |-> 0]

WatchdogExpired == quiet > Watchdog
StopDue == stopping \/ elapsed > Duration

\* Within half a trial interval, in integers.
RollDue == 2 * sinceRoll > 2 * SubInt - TrialInt

\* A late status is not made up for: the cadence restarts from now.
NextStatus == IF due + TrialInt < 0 THEN TrialInt ELSE due + TrialInt

ActionNow == IF StopDue THEN "stop2" ELSE "test"

SendStatus ==
    /\ Adjust(TrialInput, subIntSeq)
    /\ MaybeRoll(RollDue) /\ ResetTrial
    /\ sinceRoll' = IF RollDue THEN 0 ELSE sinceRoll
    /\ action' = ActionNow /\ statusSeq' = statusSeq + 1
    /\ due' = NextStatus

WatchdogBreak ==
    /\ pc = "top" /\ WatchdogExpired
    /\ pc' = "fold"
    /\ UNCHANGED <<rxVars, rcVars, clock, client>>
    /\ UNCHANGED <<stopping, clientDone, readFailed, statusSeq, action>>

LoopStatus ==
    /\ pc = "top" /\ ~WatchdogExpired /\ due <= 0
    /\ SendStatus
    /\ pc' = "read" /\ stopping' = StopDue
    /\ UNCHANGED <<streamVars, delayVars, quiet, elapsed, client>>
    /\ UNCHANGED <<clientDone, readFailed>>

LoopNoStatus ==
    /\ pc = "top" /\ ~WatchdogExpired /\ due > 0
    /\ pc' = "read" /\ stopping' = StopDue
    /\ UNCHANGED <<rxVars, rcVars, clock, client>>
    /\ UNCHANGED <<clientDone, readFailed, statusSeq, action>>

\* Fault: the confirmation of a stop is waited for without a deadline.
ReadDeadline_NotWhileStopping ==
    /\ pc = "read" /\ ~stopping /\ (due <= 0 \/ quiet >= Watchdog)
    /\ pc' = "top"
    /\ UNCHANGED <<rxVars, rcVars, clock, client>>
    /\ UNCHANGED <<stopping, clientDone, readFailed, statusSeq, action>>

\* ReadBatch returns at the earlier of nextStatus and the watchdog.
ReadDeadline ==
    /\ pc = "read" /\ (due <= 0 \/ quiet >= Watchdog)
    /\ pc' = "top"
    /\ UNCHANGED <<rxVars, rcVars, clock, client>>
    /\ UNCHANGED <<stopping, clientDone, readFailed, statusSeq, action>>

ReadError ==
    /\ pc = "read"
    /\ pc' = "fold" /\ readFailed' = TRUE
    /\ UNCHANGED <<rxVars, rcVars, clock, client>>
    /\ UNCHANGED <<stopping, clientDone, statusSeq, action>>

\* One datagram of a batch that passes the address and header checks.  It echoes
\* no status (NoEcho) or, being late, any of those sent so far.
RecvLoad(m) ==
    /\ pc \in {"read", "batch"} /\ m \in net
    /\ \E d \in [seq : {m.seq}, delta : Deltas, echo : 0..statusSeq,
                 rtt : Rtts] : RecordLoad(d)
    /\ net' = net \ {m}
    /\ quiet' = 0
    /\ clientDone' = (clientDone \/ m.action # "test")
    /\ pc' = "batch"
    /\ UNCHANGED <<rcVars, elapsed, due, sinceRoll, cseq, cpc>>
    /\ UNCHANGED <<stopping, readFailed, statusSeq, action>>

\* A datagram of another host, or one that is not a load PDU.
RecvOther ==
    /\ pc = "read" /\ pc' = "batch"
    /\ UNCHANGED <<rxVars, rcVars, clock, client>>
    /\ UNCHANGED <<stopping, clientDone, readFailed, statusSeq, action>>

EndBatch ==
    /\ pc = "batch" /\ pc' = IF clientDone THEN "fold" ELSE "top"
    /\ UNCHANGED <<rxVars, rcVars, clock, client>>
    /\ UNCHANGED <<stopping, clientDone, readFailed, statusSeq, action>>

\* Fold in the final partial sub-interval and log the summary.
Fold ==
    /\ pc = "fold" /\ pc' = "done"
    /\ FinalRoll
    /\ UNCHANGED <<streamVars, delayVars, delayMinUpd, trial>>
    /\ UNCHANGED <<rcVars, clock, client, stopping, clientDone, readFailed>>
    /\ UNCHANGED <<statusSeq, action>>

-----------------------------------------------------------------------------
(* Time and the client                                                     *)

Tick ==
    /\ pc # "done"
    /\ quiet' = SmallerOf(quiet + 1, Watchdog + 1)
    /\ elapsed' = SmallerOf(elapsed + 1, Horizon)
    /\ due' = IF due + TrialInt < 0 THEN due ELSE due - 1
    /\ sinceRoll' = SmallerOf(sinceRoll + 1, SubInt + 1)
    /\ UNCHANGED <<rxVars, rcVars, engine, client>>

ClientSends ==
    /\ cpc \in {"sending", "stopping"} /\ cseq < MaxSeq
    /\ cseq' = cseq + 1
    /\ net' = net \cup {[seq |-> cseq + 1,
                         action |-> IF cpc = "sending" THEN "test" ELSE "stop2"]}
    /\ UNCHANGED <<rxVars, rcVars, clock, engine, cpc>>

\* The client has received a status that tells it to stop.
ClientStops ==
    /\ cpc = "sending" /\ action = "stop2" /\ cpc' = "stopping"
    /\ UNCHANGED <<rxVars, rcVars, clock, engine, net, cseq>>

Next ==
    \/ WatchdogBreak \/ LoopStatus \/ LoopNoStatus \/ ReadDeadline \/ ReadError
    \/ (\E m \in net : RecvLoad(m)) \/ RecvOther \/ EndBatch \/ Fold
    \/ Tick \/ ClientSends \/ ClientStops
    \/ (pc = "done" /\ UNCHANGED vars)

Spec == Init /\ [][Next]_vars

\* The goroutine is scheduled and time passes; nothing is asked of the client.
LoopStep == \/ WatchdogBreak \/ LoopStatus \/ LoopNoStatus \/ ReadDeadline
            \/ EndBatch \/ Fold
FairSpec == Spec /\ WF_vars(LoopStep) /\ WF_vars(Tick)

-----------------------------------------------------------------------------
\* A client that falls silent for good, with or without a confirmation, leaves
\* no session behind: the loop ends.
TestEnds == <>(pc = "done")

SampleKept == ~p.useOwDelVar /\ rttVarSample # NoDelay

\* A trial in which nothing arrived is judged by the last round-trip sample, which
\* outlives its trial, and by nothing else: on one-way delays, or before the first
\* sample, it leaves the rate where it is ("no data means no change"), and after
\* it the rate moves only as the sample by itself says.  What was lost, late or
\* repeated before the trial has no part in it.
EmptyTrialsFollowSample ==
    [][statusSeq' # statusSeq /\ trial.rx = 0 /\ ~Static =>
         /\ index' > index => SampleKept /\ rttVarSample < p.lowThresh
         /\ index' < index => SampleKept /\ rttVarSample > p.upperThresh]_vars
=============================================================================
