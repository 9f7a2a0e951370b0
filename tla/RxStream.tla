------------------------------ MODULE RxStream ------------------------------
(***************************************************************************)
(* RxAccounting fed by a network that loses, delays and duplicates the     *)
(* datagrams 1..MaxSeq of one load stream.  A copy that arrives when the    *)
(* ring no longer remembers the first is taken for a late datagram; the    *)
(* ghost forgotten counts these.                                           *)
(***************************************************************************)
EXTENDS RxAccounting, FiniteSets

CONSTANTS MaxSeq,      \* bound: datagrams sent
          MaxArrivals, \* bound: datagrams received, copies included
          MaxStatus,   \* bound: status messages
          Deltas,      \* receive time minus send time, clock offset included
          Rtts         \* round trips an echo can show

VARIABLES delivered,   \* ghost: sequence numbers that have arrived
          reported,    \* ghost: sums over the status messages sent
          rolledLoss,  \* ghost: loss summed over the closed sub-intervals
          forgotten,   \* ghost: copies that came after the ring forgot
          statusSeq

vars == <<rxVars, delivered, reported, rolledLoss, forgotten, statusSeq>>

ASSUME StreamAssumption ==
    /\ MaxSeq \in Nat /\ MaxSeq + 1 < Word   \* no wrap within the stream
    /\ MaxArrivals \in Nat /\ MaxStatus \in Nat
    /\ Deltas \subseteq Int /\ Rtts \subseteq Int

\* It echoes no status (NoEcho) or, being late, any of those sent so far.
Datagram(n) ==
    [seq : {n}, delta : Deltas, echo : 0..statusSeq, rtt : Rtts]

Init ==
    /\ RxInit
    /\ delivered = {} /\ statusSeq = 0 /\ rolledLoss = 0 /\ forgotten = 0
    /\ reported = [rx |-> 0, loss |-> 0, dup |-> 0]

Arrive(d) ==
    /\ reported.rx + trial.rx < MaxArrivals
    /\ RecordLoad(d)
    /\ delivered' = delivered \cup {d.seq}
    /\ forgotten' = IF d.seq \in delivered /\ ~InHistory(d.seq)
                    THEN forgotten + 1 ELSE forgotten
    /\ UNCHANGED <<reported, rolledLoss, statusSeq>>

\* The counters' part of a status message: roll if due, report, reset.
Status(due) ==
    /\ statusSeq < MaxStatus
    /\ MaybeRoll(due) /\ ResetTrial
    /\ statusSeq' = statusSeq + 1
    /\ reported' = [rx |-> reported.rx + trial.rx,
                    loss |-> reported.loss + trial.loss,
                    dup |-> reported.dup + trial.dup]
    /\ rolledLoss' = IF due THEN rolledLoss + sub.loss ELSE rolledLoss
    /\ UNCHANGED <<streamVars, delayVars, delivered, forgotten>>

Next ==
    \/ \E n \in 1..MaxSeq : \E d \in Datagram(n) : Arrive(d)
    \/ \E due \in BOOLEAN : Status(due)

Spec == Init /\ [][Next]_vars

-----------------------------------------------------------------------------
\* The counters of recordSeq never go negative and the ring stays in bounds.
StreamTypeOK ==
    /\ seq \in Nat /\ histIdx \in 0..HistorySize - 1
    /\ history \in [0..HistorySize - 1 -> Nat]
    /\ trial \in StatsType /\ sub \in StatsType /\ saved \in StatsType
    /\ subIntSeq \in Nat /\ statusSeq \in Nat /\ rolledLoss \in Nat
    /\ delivered \subseteq 1..MaxSeq
    /\ reported \in [rx : Nat, loss : Nat, dup : Nat] /\ forgotten \in Nat

Missing == seq - Cardinality(delivered)

\* The loss reported in status messages, with the current trial, is at least the
\* number of datagrams that are really missing, less one for each copy that came
\* too late for the ring: recordSeq takes a loss back for nothing else.
LossNeverUnderstated == reported.loss + trial.loss + forgotten >= Missing

\* Until a sub-interval has closed, its loss is exact up to these copies: every
\* late datagram found its loss still there to be taken back.
LossIsExactUntilRoll ==
    subIntSeq = 0 => sub.loss <= Missing /\ Missing <= sub.loss + forgotten

\* Received minus duplicates is the number of distinct datagrams and of copies
\* the ring had forgotten: a duplicate is never counted for a new datagram.
DuplicatesAreExact ==
    reported.rx + trial.rx - (reported.dup + trial.dup)
        = Cardinality(delivered) + forgotten

\* The trial lies within the sub-interval, and the loss of the sub-intervals,
\* where corrections have more time to arrive, never exceeds the trials'.
SubCoversTrial ==
    /\ trial.rx <= sub.rx /\ trial.loss <= sub.loss /\ trial.ooo <= sub.ooo
    /\ trial.dup <= sub.dup /\ trial.dvCnt <= sub.dvCnt /\ trial.dvMax <= sub.dvMax
    /\ rolledLoss + sub.loss <= reported.loss + trial.loss

\* The samples cannot have made the sum overflow; nor, in adjust, ten times it.
SumFits(c) == c.dvMax * c.dvCnt < Word
MeanFits(c) == SumFits(c) /\ 10 * c.dvSum + 5 < Word

DelayConsistent(c) ==
    IF c.dvCnt = 0 THEN c = [c EXCEPT !.dvMin = NoDelay, !.dvMax = 0, !.dvSum = 0]
    ELSE SumFits(c) => c.dvMin * c.dvCnt <= c.dvSum /\ c.dvSum <= c.dvMax * c.dvCnt

\* Delay variation is measured against the smallest delta so far, this sample's
\* included: a trial that reports a new minimum has a sample of variation zero,
\* and an RTT sample lies above the smallest RTT, clock offsets notwithstanding.
\* Until a sum overflows, minimum, mean and maximum of a trial and of a
\* sub-interval are in order; until ten times the trial's sum does, the rounded
\* mean adjust judges by is a delay the trial has.  Beyond that it may be any.
DelaysAreOrdered ==
    /\ DelayConsistent(trial) /\ DelayConsistent(sub)
    /\ trial.dvCnt > 0 => trial.dvMin >= sub.dvMin /\ sub.dvMin >= 0
    /\ delayMinUpd => trial.dvMin = 0
    /\ rttMin # NoDelay => rttMin >= 0 /\ rttVarSample >= 0
    /\ trial.dvCnt > 0 /\ MeanFits(trial) =>
          RoundedMean(trial.dvSum, trial.dvCnt) \in trial.dvMin..trial.dvMax
=============================================================================
