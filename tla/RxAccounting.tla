---------------------------- MODULE RxAccounting ----------------------------
(***************************************************************************)
(* The receiver's accounting of internal/udpst/accounting.go.  The trial   *)
(* counters are reset by every status message, the sub-interval counters   *)
(* when the sub-interval rolls; recordLoad updates both in the same way,   *)
(* so both are the same kind of record.  A load datagram d carries its     *)
(* sequence number, delta (receive time minus send time), the identity of  *)
(* the status message it echoes and the round trip measured from it.       *)
(*                                                                         *)
(* Not modelled: the CE counters, which no statement increments, and the   *)
(* reported byte counts, durations and sub-interval RTT range.             *)
(***************************************************************************)
EXTENDS UdpstNumbers

CONSTANT HistorySize   \* loadHistorySize

VARIABLES seq, history, histIdx,
          haveClockDelta, clockDeltaMin,
          rttMin, rttVarSample, lastEcho,
          delayMinUpd,
          trial, sub, saved, subIntSeq

streamVars == <<seq, history, histIdx>>
delayVars == <<haveClockDelta, clockDeltaMin, rttMin, rttVarSample, lastEcho>>
subVars == <<sub, saved, subIntSeq>>
rxVars == <<streamVars, delayVars, delayMinUpd, trial, subVars>>

ASSUME RingAssumption == HistorySize \in Nat \ {0}

NoEcho == 0        \* the zero timestamp: no status message received yet

ZeroStats == [rx |-> 0, loss |-> 0, ooo |-> 0, dup |-> 0,
              dvMin |-> NoDelay, dvMax |-> 0, dvSum |-> 0, dvCnt |-> 0]
StatsType == [rx : Nat, loss : Nat, ooo : Nat, dup : Nat,
              dvMin : Nat \cup {NoDelay}, dvMax : Nat, dvSum : Nat,
              dvCnt : Nat]

\* newRxAccounting
RxInit ==
    /\ seq = 0 /\ histIdx = 0
    /\ history = [i \in 0..HistorySize - 1 |-> 0]
    /\ haveClockDelta = FALSE /\ clockDeltaMin = 0
    /\ rttMin = NoDelay /\ rttVarSample = NoDelay
    /\ lastEcho = NoEcho /\ delayMinUpd = FALSE
    /\ trial = ZeroStats /\ sub = ZeroStats /\ saved = ZeroStats
    /\ subIntSeq = 0

-----------------------------------------------------------------------------
(* recordSeq                                                               *)

Advances(n) == n >= (seq + 1) % Word
Gap(n) == (n - seq - 1) % Word

InHistory(n) == \E i \in 0..HistorySize - 1 : history[i] = n

PushHistory(n) ==
    /\ history' = [history EXCEPT ![histIdx] = n]
    /\ histIdx' = (histIdx + 1) % HistorySize

RecordSeq(n) ==
    \/ Advances(n) /\ seq' = n /\ PushHistory(n)
    \/ ~Advances(n) /\ InHistory(n) /\ UNCHANGED streamVars
    \/ ~Advances(n) /\ ~InHistory(n) /\ PushHistory(n) /\ UNCHANGED seq

\* Fault: a late datagram stays lost.
TakeBack_Never(loss) == loss

TakeBack(loss) == IF loss > 0 THEN loss - 1 ELSE 0

\* Faults: a duplicate takes back a loss too; it is not counted.
SeqCounted_DupTakesBack(c, n) ==
    IF Advances(n) THEN [c EXCEPT !.rx = @ + 1, !.loss = (@ + Gap(n)) % Word]
    ELSE IF InHistory(n)
    THEN [c EXCEPT !.rx = @ + 1, !.dup = @ + 1, !.loss = TakeBack(@)]
    ELSE [c EXCEPT !.rx = @ + 1, !.ooo = @ + 1, !.loss = TakeBack(@)]

SeqCounted_DupUncounted(c, n) ==
    IF Advances(n) THEN [c EXCEPT !.rx = @ + 1, !.loss = (@ + Gap(n)) % Word]
    ELSE IF InHistory(n) THEN [c EXCEPT !.rx = @ + 1]
    ELSE [c EXCEPT !.rx = @ + 1, !.ooo = @ + 1, !.loss = TakeBack(@)]

\* The counters of c after recordSeq(n).
SeqCounted(c, n) ==
    IF Advances(n) THEN [c EXCEPT !.rx = @ + 1, !.loss = (@ + Gap(n)) % Word]
    ELSE IF InHistory(n) THEN [c EXCEPT !.rx = @ + 1, !.dup = @ + 1]
    ELSE [c EXCEPT !.rx = @ + 1, !.ooo = @ + 1, !.loss = TakeBack(@)]

-----------------------------------------------------------------------------
(* recordLoad                                                              *)

\* The running minimum of delta approximates the clock offset.
NewClockMin(delta) ==
    IF ~haveClockDelta \/ delta < clockDeltaMin THEN delta ELSE clockDeltaMin

\* Fault: the variation is taken against the minimum before this sample.
DelayVar_OldMin(delta) == (delta - clockDeltaMin) % Word

DelayVar(delta) == (delta - NewClockMin(delta)) % Word

DelayCounted(c, dv) ==
    [c EXCEPT !.dvMin = IF @ = NoDelay \/ dv < @ THEN dv ELSE @,
              !.dvMax = IF dv > @ THEN dv ELSE @,
              !.dvSum = (@ + dv) % Word, !.dvCnt = @ + 1]

\* Late datagrams carry no usable delay information.
Counted(c, d) ==
    IF Advances(d.seq) THEN DelayCounted(SeqCounted(c, d.seq), DelayVar(d.delta))
                       ELSE SeqCounted(c, d.seq)

RecordDelay(d) ==
    /\ haveClockDelta' = TRUE
    /\ clockDeltaMin' = NewClockMin(d.delta)
    /\ delayMinUpd' = (delayMinUpd \/ ~haveClockDelta \/ d.delta < clockDeltaMin)

\* Sampled once per echoed status message.
RecordRTT(d) ==
    IF d.echo # NoEcho /\ d.echo # lastEcho
    THEN LET r == IF d.rtt < 0 THEN 0 ELSE d.rtt
         IN  /\ lastEcho' = d.echo
             /\ rttMin' = IF rttMin = NoDelay \/ r < rttMin THEN r ELSE rttMin
             /\ rttVarSample' = r - rttMin'
    ELSE UNCHANGED <<lastEcho, rttMin, rttVarSample>>

RecordLoad(d) ==
    /\ RecordSeq(d.seq)
    /\ trial' = Counted(trial, d) /\ sub' = Counted(sub, d)
    /\ IF Advances(d.seq) THEN RecordDelay(d) /\ RecordRTT(d)
                          ELSE UNCHANGED <<delayVars, delayMinUpd>>
    /\ UNCHANGED <<saved, subIntSeq>>

-----------------------------------------------------------------------------
(* What a status message does to the counters.                             *)

\* maybeRoll: due is the test of the elapsed time against the sub-interval.
MaybeRoll(due) ==
    IF due THEN /\ saved' = sub /\ subIntSeq' = subIntSeq + 1
                /\ sub' = ZeroStats
           ELSE UNCHANGED subVars

\* maybeRoll with a zero interval, at the end of the test.
FinalRoll == MaybeRoll(sub.rx # 0)

\* Fault: the late datagrams of a trial are not cleared.
ResetTrial_KeepsLoss ==
    trial' = [ZeroStats EXCEPT !.loss = trial.loss] /\ delayMinUpd' = FALSE

ResetTrial == trial' = ZeroStats /\ delayMinUpd' = FALSE
=============================================================================
