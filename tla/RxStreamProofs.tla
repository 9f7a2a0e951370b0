--------------------------- MODULE RxStreamProofs ---------------------------
(* Proofs about the receiver's loss and duplicate counters, for streams,   *)
(* rings and arrival orders of any size.                                   *)
EXTENDS RxStream, FiniteSetTheorems, TLAPS

ClockInv == clockDeltaMin \in Int
ShortLoss == trial.loss <= seq /\ sub.loss <= seq

\* The ring holds only what has arrived, and nothing above seq has.
RingInv ==
    /\ seq \in 0..MaxSeq
    /\ delivered \subseteq 1..seq
    /\ \A i \in 0..HistorySize - 1 : history[i] \in delivered \cup {0}

CountInv ==
    /\ StreamTypeOK /\ ClockInv /\ RingInv /\ ShortLoss
    /\ LossNeverUnderstated /\ DuplicatesAreExact

-----------------------------------------------------------------------------
(* What recordLoad adds to a set of counters.                              *)

\* The numbers that have arrived are finitely many.
LEMMA FiniteDelivered ==
    ASSUME NEW S \in SUBSET (1..MaxSeq)
    PROVE  /\ IsFiniteSet(S) /\ Cardinality(S) \in Nat
           /\ \A n : n \notin S => Cardinality(S \cup {n}) = Cardinality(S) + 1
<1>1. IsFiniteSet(1..MaxSeq)
  BY StreamAssumption, FS_Interval
<1>2. IsFiniteSet(S)
  BY <1>1, FS_Subset, Zenon
<1> QED
  BY <1>2, FS_CardinalityType, FS_AddElement, Zenon

\* The variation of a delay is a natural number.
LEMMA DelayVarType ==
    ASSUME ClockInv, NEW delta \in Int PROVE DelayVar(delta) \in Nat
<1>1. NewClockMin(delta) \in Int
  BY Zenon DEF NewClockMin, ClockInv
<1>2. \A x \in Int : x % Word \in Nat
  BY WordAssumption
<1> QED
  BY <1>1, <1>2 DEF DelayVar

\* recordSeq: no number of the stream wraps, so the gap is the plain difference.
LEMMA GapOf ==
    ASSUME RingInv, NEW n \in 1..MaxSeq
    PROVE  /\ Advances(n) <=> n > seq
           /\ n > seq => Gap(n) = n - seq - 1
<1>1. (seq + 1) % Word = seq + 1
  BY StreamAssumption, WordAssumption DEF RingInv
<1>2. n > seq => (n - seq - 1) % Word = n - seq - 1
  BY StreamAssumption, WordAssumption DEF RingInv
<1> QED
  BY <1>1, <1>2, StreamAssumption DEF RingInv, Advances, Gap

\* A counter may be replaced by any natural number.
LEMMA SetCounter ==
    ASSUME NEW c \in StatsType, NEW v \in Nat
    PROVE  /\ [c EXCEPT !.rx = v] \in StatsType
           /\ [c EXCEPT !.loss = v] \in StatsType
           /\ [c EXCEPT !.ooo = v] \in StatsType
           /\ [c EXCEPT !.dup = v] \in StatsType
           /\ [c EXCEPT !.dvMin = v] \in StatsType
           /\ [c EXCEPT !.dvMax = v] \in StatsType
           /\ [c EXCEPT !.dvSum = v] \in StatsType
           /\ [c EXCEPT !.dvCnt = v] \in StatsType
BY Zenon DEF StatsType

\* The updates recordLoad makes, named so that they can be reasoned about whole.
WithLoss(c, r, l) == [c EXCEPT !.rx = r, !.loss = l]
WithDup(c, r, u) == [c EXCEPT !.rx = r, !.dup = u]
WithLate(c, r, o, l) == [c EXCEPT !.rx = r, !.ooo = o, !.loss = l]
WithDelay(c, a, b, s, k) ==
    [c EXCEPT !.dvMin = a, !.dvMax = b, !.dvSum = s, !.dvCnt = k]

\* recordSeq: the counters after an arrival, typed.
LEMMA SetSeqCounters ==
    ASSUME NEW c \in StatsType, NEW r \in Nat, NEW l \in Nat, NEW o \in Nat
    PROVE  /\ WithLoss(c, r, l) \in StatsType
           /\ WithDup(c, r, l) \in StatsType
           /\ WithLate(c, r, o, l) \in StatsType
<1> DEFINE x == [c EXCEPT !.rx = r]
<1>1. x \in StatsType
  BY SetCounter, Zenon
<1> DEFINE y == [x EXCEPT !.ooo = o]
<1> HIDE DEF x
<1>2. [x EXCEPT !.loss = l] \in StatsType /\ [x EXCEPT !.dup = l] \in StatsType
      /\ y \in StatsType
  BY <1>1, SetCounter, Zenon
<1> HIDE DEF y
<1>3. [y EXCEPT !.loss = l] \in StatsType
  BY <1>2, SetCounter, Zenon
<1>4. /\ [c EXCEPT !.rx = r, !.loss = l] = [[c EXCEPT !.rx = r] EXCEPT !.loss = l]
      /\ [c EXCEPT !.rx = r, !.dup = l] = [[c EXCEPT !.rx = r] EXCEPT !.dup = l]
      /\ [c EXCEPT !.rx = r, !.ooo = o, !.loss = l]
            = [[[c EXCEPT !.rx = r] EXCEPT !.ooo = o] EXCEPT !.loss = l]
  BY Zenon
<1> QED
  BY <1>2, <1>3, <1>4, Zenon DEF x, y, WithLoss, WithDup, WithLate

\* recordLoad: the delay counters after an arrival, typed.
LEMMA SetDelayCounters ==
    ASSUME NEW c \in StatsType, NEW a \in Nat, NEW b \in Nat, NEW s \in Nat,
           NEW k \in Nat
    PROVE  /\ WithDelay(c, a, b, s, k) \in StatsType
           /\ WithDelay(c, a, b, s, k).rx = c.rx
           /\ WithDelay(c, a, b, s, k).loss = c.loss
           /\ WithDelay(c, a, b, s, k).dup = c.dup
<1> DEFINE x == [c EXCEPT !.dvMin = a]
           y == [x EXCEPT !.dvMax = b]
           z == [y EXCEPT !.dvSum = s]
<1>1. x \in StatsType
  BY SetCounter, Zenon
<1> HIDE DEF x
<1>2. y \in StatsType
  BY <1>1, SetCounter, Zenon
<1> HIDE DEF y
<1>3. z \in StatsType
  BY <1>2, SetCounter, Zenon
<1> HIDE DEF z
<1>4. [z EXCEPT !.dvCnt = k] \in StatsType
  BY <1>3, SetCounter, Zenon
<1>5. [c EXCEPT !.dvMin = a, !.dvMax = b, !.dvSum = s, !.dvCnt = k]
        = [[[[c EXCEPT !.dvMin = a] EXCEPT !.dvMax = b] EXCEPT !.dvSum = s]
              EXCEPT !.dvCnt = k]
  BY Zenon
<1>6. LET r == [c EXCEPT !.dvMin = a, !.dvMax = b, !.dvSum = s, !.dvCnt = k]
      IN  r.rx = c.rx /\ r.loss = c.loss /\ r.dup = c.dup
  BY Zenon DEF StatsType
<1> QED
  BY <1>4, <1>5, <1>6, Zenon DEF x, y, z, WithDelay

\* The three outcomes of recordSeq, on either set of counters.
LEMMA CountedLoss ==
    ASSUME RingInv, ClockInv, NEW c \in StatsType, c.loss <= seq,
           NEW n \in 1..MaxSeq, NEW d \in Datagram(n)
    PROVE  /\ Counted(c, d) \in StatsType
           /\ Counted(c, d).rx = c.rx + 1
           /\ n > seq => /\ Counted(c, d).loss = c.loss + (n - seq - 1)
                         /\ Counted(c, d).dup = c.dup
           /\ n <= seq /\ InHistory(n) => /\ Counted(c, d).loss = c.loss
                                          /\ Counted(c, d).dup = c.dup + 1
           /\ n <= seq /\ ~InHistory(n) =>
                 /\ Counted(c, d).loss = IF c.loss > 0 THEN c.loss - 1 ELSE 0
                 /\ Counted(c, d).dup = c.dup
<1>0. d.seq = n /\ d.delta \in Int
  BY StreamAssumption, Zenon DEF Datagram
<1>a. seq \in Int /\ n \in Int /\ c.loss \in Nat /\ c.rx \in Nat /\ c.dup \in Nat
      /\ c.ooo \in Nat /\ c.rx + 1 \in Nat /\ c.dup + 1 \in Nat /\ c.ooo + 1 \in Nat
  BY StreamAssumption DEF RingInv, StatsType
<1>1. CASE n > seq
  <2>1. Advances(n) /\ Gap(n) = n - seq - 1
    BY <1>1, GapOf, Zenon
  <2>2. c.loss + (n - seq - 1) \in 0..Word - 1
    BY <1>a, <1>1, StreamAssumption, WordAssumption DEF RingInv
  <2>3. (c.loss + Gap(n)) % Word = c.loss + (n - seq - 1)
    BY <2>1, <2>2, WordAssumption
  <2> DEFINE l == c.loss + (n - seq - 1)
             c1 == SeqCounted(c, n)
             dv == DelayVar(d.delta)
  <2>4. c1 = WithLoss(c, c.rx + 1, l)
    BY <2>1, <2>3, Zenon DEF SeqCounted, WithLoss
  <2>5. c1 \in StatsType
    <3>1. l \in Nat
      BY <2>2, WordAssumption
    <3> HIDE DEF l
    <3> QED
      BY <1>a, <2>4, <3>1, SetSeqCounters, Zenon
  <2>6. c1.rx = c.rx + 1 /\ c1.dup = c.dup /\ c1.loss = l
    BY <2>4, Zenon DEF StatsType, WithLoss
  <2>7. dv \in Nat
    BY <1>0, DelayVarType, Zenon
  <2>8. Counted(c, d) = DelayCounted(c1, dv)
    BY <1>0, <2>1, Zenon DEF Counted
  <2> HIDE DEF c1, dv
  <2>9. /\ (c1.dvSum + dv) % Word \in Nat
        /\ (IF c1.dvMin = NoDelay \/ dv < c1.dvMin THEN dv ELSE c1.dvMin) \in Nat
        /\ (IF dv > c1.dvMax THEN dv ELSE c1.dvMax) \in Nat
        /\ c1.dvCnt + 1 \in Nat
    BY <2>5, <2>7, WordAssumption DEF StatsType, NoDelay
  <2>10. /\ Counted(c, d) \in StatsType
         /\ Counted(c, d).rx = c1.rx /\ Counted(c, d).loss = c1.loss
         /\ Counted(c, d).dup = c1.dup
    <3> DEFINE mn == IF c1.dvMin = NoDelay \/ dv < c1.dvMin THEN dv ELSE c1.dvMin
               mx == IF dv > c1.dvMax THEN dv ELSE c1.dvMax
               sm == (c1.dvSum + dv) % Word
               ct == c1.dvCnt + 1
    <3>1. Counted(c, d) = WithDelay(c1, mn, mx, sm, ct)
      BY <2>8, Zenon DEF DelayCounted, WithDelay
    <3>2. mn \in Nat /\ mx \in Nat /\ sm \in Nat /\ ct \in Nat
      BY <2>9, Zenon
    <3> HIDE DEF mn, mx, sm, ct
    <3>3. \A x \in StatsType, a \in Nat, b \in Nat, s \in Nat, k \in Nat :
             /\ WithDelay(x, a, b, s, k) \in StatsType
             /\ WithDelay(x, a, b, s, k).rx = x.rx
             /\ WithDelay(x, a, b, s, k).loss = x.loss
             /\ WithDelay(x, a, b, s, k).dup = x.dup
      BY SetDelayCounters, Zenon
    <3>4. WithDelay(c1, mn, mx, sm, ct) \in StatsType
      BY ONLY <2>5, <3>2, <3>3, Zenon
    <3>5. WithDelay(c1, mn, mx, sm, ct).rx = c1.rx
      BY ONLY <2>5, <3>2, <3>3
    <3>6. WithDelay(c1, mn, mx, sm, ct).loss = c1.loss
      BY ONLY <2>5, <3>2, <3>3
    <3>7. WithDelay(c1, mn, mx, sm, ct).dup = c1.dup
      BY ONLY <2>5, <3>2, <3>3
    <3> QED
      BY ONLY <3>1, <3>4, <3>5, <3>6, <3>7, Zenon
  <2> QED
    BY <1>a, <1>1, <2>6, <2>10
<1>2. CASE n <= seq /\ InHistory(n)
  <2>1. Counted(c, d) = WithDup(c, c.rx + 1, c.dup + 1)
    BY <1>0, <1>a, <1>2, GapOf DEF Counted, SeqCounted, WithDup
  <2>2. Counted(c, d) \in StatsType
    BY <1>a, <2>1, SetSeqCounters, Zenon
  <2> QED
    BY <1>a, <1>2, <2>1, <2>2 DEF StatsType, WithDup
<1>3. CASE n <= seq /\ ~InHistory(n)
  <2> DEFINE t == IF c.loss > 0 THEN c.loss - 1 ELSE 0
  <2>1. Counted(c, d) = WithLate(c, c.rx + 1, c.ooo + 1, t)
    BY <1>0, <1>a, <1>3, GapOf DEF Counted, SeqCounted, TakeBack, WithLate
  <2>2. t \in Nat
    BY <1>a
  <2> HIDE DEF t
  <2>3. Counted(c, d) \in StatsType
    <3> DEFINE r == c.rx + 1
               o == c.ooo + 1
    <3>1. r \in Nat /\ o \in Nat
      BY <1>a, Zenon
    <3> HIDE DEF r, o
    <3>2. WithLate(c, r, o, t) \in StatsType
      BY <2>2, <3>1, SetSeqCounters, Zenon
    <3> QED
      BY <2>1, <3>2, Zenon DEF r, o
  <2>4. Counted(c, d).rx = c.rx + 1 /\ Counted(c, d).loss = t
        /\ Counted(c, d).dup = c.dup
    BY <2>1, Zenon DEF StatsType, WithLate
  <2> QED
    BY <1>a, <1>3, <2>3, <2>4 DEF t
<1> QED
  BY <1>a, <1>1, <1>2, <1>3

-----------------------------------------------------------------------------
(* The invariant                                                           *)

\* newRxAccounting: nothing arrived, nothing counted.
LEMMA InitCountInv == Init => CountInv
<1> SUFFICES ASSUME Init PROVE CountInv
  BY Zenon
<1>1. ZeroStats \in StatsType /\ ZeroStats.loss = 0 /\ ZeroStats.rx = 0
      /\ ZeroStats.dup = 0
  BY Zenon DEF ZeroStats, StatsType
<1>2. Cardinality(delivered) = 0
  BY FS_EmptySet, Zenon DEF Init
<1>3. StreamTypeOK /\ ClockInv /\ RingInv
  BY <1>1, StreamAssumption, RingAssumption
     DEF Init, RxInit, StreamTypeOK, ClockInv, RingInv
<1>4. ShortLoss /\ LossNeverUnderstated /\ DuplicatesAreExact
  BY <1>1, <1>2 DEF Init, RxInit, ShortLoss, LossNeverUnderstated,
     DuplicatesAreExact, Missing
<1> QED
  BY <1>3, <1>4, Zenon DEF CountInv

\* The ring after a datagram n that was pushed.
LEMMA RingPushed ==
    ASSUME StreamTypeOK, RingInv, NEW n \in 1..MaxSeq, PushHistory(n),
           delivered' = delivered \cup {n}
    PROVE  /\ histIdx' \in 0..HistorySize - 1
           /\ history' \in [0..HistorySize - 1 -> Nat]
           /\ \A i \in 0..HistorySize - 1 : history'[i] \in delivered' \cup {0}
<1>1. histIdx' \in 0..HistorySize - 1
  BY RingAssumption DEF StreamTypeOK, PushHistory
<1> QED
  BY <1>1, RingAssumption, StreamAssumption DEF StreamTypeOK, PushHistory, RingInv

\* recordLoad keeps the counters in step with what arrived.
LEMMA ArriveCountInv ==
    ASSUME CountInv, NEW n \in 1..MaxSeq, NEW d \in Datagram(n), Arrive(d)
    PROVE  CountInv'
<1>0. StreamTypeOK /\ ClockInv /\ RingInv /\ ShortLoss /\ LossNeverUnderstated
      /\ DuplicatesAreExact
  BY Zenon DEF CountInv
<1>1. d.seq = n /\ d.delta \in Int
  BY StreamAssumption, Zenon DEF Datagram
<1>2. /\ RecordSeq(n) /\ trial' = Counted(trial, d) /\ sub' = Counted(sub, d)
      /\ delivered' = delivered \cup {n}
      /\ forgotten' = IF n \in delivered /\ ~InHistory(n) THEN forgotten + 1 ELSE forgotten
      /\ UNCHANGED <<saved, subIntSeq, reported, rolledLoss, statusSeq>>
  BY <1>1, Zenon DEF Arrive, RecordLoad
<1>3. trial \in StatsType /\ sub \in StatsType /\ trial.loss <= seq
      /\ sub.loss <= seq /\ seq \in Nat /\ delivered \in SUBSET (1..MaxSeq)
      /\ reported \in [rx : Nat, loss : Nat, dup : Nat]
      /\ forgotten \in Nat /\ forgotten' \in Nat
  BY <1>0, <1>2 DEF StreamTypeOK, ShortLoss
<1>4. ClockInv'
  <2>1. NewClockMin(d.delta) \in Int
    BY <1>0, <1>1, Zenon DEF NewClockMin, ClockInv
  <2> QED
    BY <1>0, <2>1, Zenon DEF Arrive, RecordLoad, RecordDelay, delayVars, ClockInv
<1>5. trial' \in StatsType /\ sub' \in StatsType
  BY <1>0, <1>2, <1>3, CountedLoss, Zenon
<1>6. /\ Cardinality(delivered) \in Nat
      /\ n \notin delivered => Cardinality(delivered') = Cardinality(delivered) + 1
      /\ n \in delivered => delivered' = delivered
  BY <1>2, <1>3, FiniteDelivered, Zenon
<1>7. CASE n > seq
  <2>1. seq' = n /\ PushHistory(n)
    BY <1>0, <1>2, <1>7, GapOf, Zenon DEF RecordSeq
  <2>2. n \notin delivered /\ forgotten' = forgotten
    BY <1>0, <1>2, <1>3, <1>7 DEF RingInv
  <2>3. StreamTypeOK' /\ RingInv'
    BY <1>0, <1>2, <1>3, <1>5, <1>7, <2>1, RingPushed, SMTT(30) DEF StreamTypeOK, RingInv
  <2>4. /\ trial'.rx = trial.rx + 1 /\ trial'.loss = trial.loss + (n - seq - 1)
        /\ trial'.dup = trial.dup /\ sub'.loss = sub.loss + (n - seq - 1)
    BY <1>0, <1>2, <1>3, <1>7, CountedLoss, Zenon
  <2>5. ShortLoss' /\ LossNeverUnderstated' /\ DuplicatesAreExact'
    BY <1>0, <1>2, <1>3, <1>6, <1>7, <2>1, <2>2, <2>4
       DEF ShortLoss, LossNeverUnderstated, DuplicatesAreExact, Missing, StatsType
  <2> QED
    BY <1>4, <2>3, <2>5, Zenon DEF CountInv
<1>8. CASE n <= seq /\ InHistory(n)
  <2>1. UNCHANGED streamVars
    BY <1>0, <1>2, <1>3, <1>8, GapOf DEF RecordSeq
  <2>2. delivered' = delivered /\ forgotten' = forgotten
    BY <1>0, <1>2, <1>8 DEF InHistory, RingInv
  <2>3. StreamTypeOK' /\ RingInv'
    BY <1>0, <1>2, <1>3, <1>5, <2>1, <2>2, Zenon DEF StreamTypeOK, RingInv, streamVars
  <2>4. /\ trial'.rx = trial.rx + 1 /\ trial'.loss = trial.loss
        /\ trial'.dup = trial.dup + 1 /\ sub'.loss = sub.loss
    BY <1>0, <1>2, <1>3, <1>8, CountedLoss, Zenon
  <2>5. /\ trial.loss \in Nat /\ trial.rx \in Nat /\ trial.dup \in Nat
        /\ sub.loss \in Nat /\ reported.rx \in Nat /\ reported.loss \in Nat
        /\ reported.dup \in Nat /\ reported' = reported /\ seq' = seq
    BY <1>2, <1>3, <2>1, Zenon DEF StatsType, streamVars
  <2>6. ShortLoss' /\ LossNeverUnderstated'
    BY <1>0, <1>3, <1>6, <2>2, <2>4, <2>5, Zenon DEF ShortLoss, LossNeverUnderstated,
       Missing
  <2>7. DuplicatesAreExact'
    BY <1>0, <1>3, <1>6, <2>2, <2>4, <2>5 DEF DuplicatesAreExact
  <2> QED
    BY <1>4, <2>3, <2>6, <2>7, Zenon DEF CountInv
<1>9. CASE n <= seq /\ ~InHistory(n)
  <2>1. PushHistory(n) /\ seq' = seq
    BY <1>0, <1>2, <1>3, <1>9, GapOf DEF RecordSeq
  <2>2. \/ n \notin delivered /\ forgotten' = forgotten
        \/ n \in delivered /\ forgotten' = forgotten + 1
    BY <1>2, <1>9, Zenon
  <2>3. StreamTypeOK' /\ RingInv'
    BY <1>0, <1>2, <1>3, <1>5, <1>9, <2>1, RingPushed, SMTT(30) DEF StreamTypeOK, RingInv
  <2>4. /\ trial'.rx = trial.rx + 1 /\ trial'.dup = trial.dup
        /\ trial'.loss = IF trial.loss > 0 THEN trial.loss - 1 ELSE 0
        /\ sub'.loss = IF sub.loss > 0 THEN sub.loss - 1 ELSE 0
    BY <1>0, <1>2, <1>3, <1>9, CountedLoss, Zenon
  <2>5. /\ trial.loss \in Nat /\ trial.rx \in Nat /\ trial.dup \in Nat
        /\ sub.loss \in Nat /\ reported.rx \in Nat /\ reported.loss \in Nat
        /\ reported.dup \in Nat /\ reported' = reported
    BY <1>2, <1>3, Zenon DEF StatsType
  <2>6. ShortLoss'
    BY <1>3, <2>1, <2>4, <2>5 DEF ShortLoss
  <2>7. Cardinality(delivered') + forgotten' = Cardinality(delivered) + forgotten + 1
    BY <1>3, <1>6, <2>2
  <2>8. Cardinality(delivered') \in Nat
    BY <1>6, <2>2
  <2>9. LossNeverUnderstated'
    BY <1>0, <1>3, <1>6, <2>1, <2>4, <2>5, <2>7, <2>8 DEF LossNeverUnderstated, Missing
  <2>10. DuplicatesAreExact'
    BY <1>0, <1>3, <1>6, <2>4, <2>5, <2>7, <2>8 DEF DuplicatesAreExact
  <2> QED
    BY <1>4, <2>3, <2>6, <2>9, <2>10, Zenon DEF CountInv
<1> QED
  BY <1>3, <1>7, <1>8, <1>9

\* A status moves counts from the trial to the reports, and loses none.
LEMMA StatusCountInv ==
    ASSUME CountInv, NEW due \in BOOLEAN, Status(due) PROVE CountInv'
<1>0. StreamTypeOK /\ ClockInv /\ RingInv /\ ShortLoss /\ LossNeverUnderstated
      /\ DuplicatesAreExact
  BY Zenon DEF CountInv
<1>1. ZeroStats \in StatsType /\ ZeroStats.loss = 0 /\ ZeroStats.rx = 0
      /\ ZeroStats.dup = 0
  BY Zenon DEF ZeroStats, StatsType
<1>2. trial \in StatsType /\ sub \in StatsType /\ saved \in StatsType /\ seq \in Nat
      /\ rolledLoss \in Nat /\ reported \in [rx : Nat, loss : Nat, dup : Nat]
  BY <1>0, Zenon DEF StreamTypeOK
<1>3. /\ trial' = ZeroStats /\ (sub' = sub \/ sub' = ZeroStats)
      /\ (saved' = saved \/ saved' = sub) /\ statusSeq' \in Nat
      /\ (subIntSeq' = subIntSeq \/ subIntSeq' = subIntSeq + 1)
      /\ (rolledLoss' = rolledLoss \/ rolledLoss' = rolledLoss + sub.loss)
      /\ UNCHANGED <<streamVars, delayVars, delivered, forgotten>>
  BY <1>0 DEF Status, MaybeRoll, ResetTrial, subVars, StreamTypeOK
<1>4. reported' = [rx |-> reported.rx + trial.rx,
                   loss |-> reported.loss + trial.loss,
                   dup |-> reported.dup + trial.dup]
  BY Zenon DEF Status
<1>5. /\ reported' \in [rx : Nat, loss : Nat, dup : Nat]
      /\ reported'.rx = reported.rx + trial.rx
      /\ reported'.loss = reported.loss + trial.loss
      /\ reported'.dup = reported.dup + trial.dup
  BY <1>2, <1>4 DEF StatsType
<1>6. StreamTypeOK' /\ ClockInv' /\ RingInv'
  <2>1. rolledLoss' \in Nat /\ subIntSeq' \in Nat
    <3>1. sub.loss \in Nat /\ rolledLoss \in Nat /\ subIntSeq \in Nat
      BY <1>0, <1>2, Zenon DEF StatsType, StreamTypeOK
    <3>2. /\ (subIntSeq' = subIntSeq \/ subIntSeq' = subIntSeq + 1)
          /\ (rolledLoss' = rolledLoss \/ rolledLoss' = rolledLoss + sub.loss)
      BY <1>3, Zenon
    <3> QED
      BY ONLY <3>1, <3>2
  <2>2. trial' \in StatsType /\ sub' \in StatsType /\ saved' \in StatsType
    BY <1>1, <1>2, <1>3, Zenon
  <2>3. StreamTypeOK'
    BY <1>0, <1>3, <1>5, <2>1, <2>2, Zenon DEF StreamTypeOK, streamVars
  <2>4. ClockInv' /\ RingInv'
    BY <1>0, <1>3, Zenon DEF ClockInv, RingInv, streamVars, delayVars
  <2> QED
    BY <2>3, <2>4, Zenon
<1>7. Cardinality(delivered) \in Nat
  BY <1>0, FiniteDelivered, Zenon DEF StreamTypeOK
<1>8. ShortLoss' /\ LossNeverUnderstated' /\ DuplicatesAreExact'
  BY <1>0, <1>1, <1>2, <1>3, <1>5, <1>7 DEF ShortLoss, LossNeverUnderstated,
     DuplicatesAreExact, Missing, streamVars, StatsType
<1> QED
  BY <1>6, <1>8, Zenon DEF CountInv

\* The invariant of the counters.
LEMMA CountInvariant == Spec => []CountInv
<1>1. CountInv /\ [Next]_vars => CountInv'
  <2> SUFFICES ASSUME CountInv, [Next]_vars PROVE CountInv'
    BY Zenon
  <2>1. CASE UNCHANGED vars
    BY <2>1, Zenon DEF vars, rxVars, streamVars, delayVars, subVars, CountInv,
       StreamTypeOK, ClockInv, RingInv, ShortLoss, LossNeverUnderstated,
       DuplicatesAreExact, Missing
  <2> QED
    BY <2>1, ArriveCountInv, StatusCountInv, Zenon DEF Next
<1> QED
  BY <1>1, InitCountInv, PTL DEF Spec

\* The counters keep their types.
THEOREM StreamTypeCorrect == Spec => []StreamTypeOK
BY CountInvariant, PTL DEF CountInv

\* However datagrams are lost, delayed, reordered or duplicated, the loss reported
\* is at least the loss there is, less the copies the ring had forgotten.
THEOREM LossIsCovered == Spec => []LossNeverUnderstated
BY CountInvariant, PTL DEF CountInv

\* What is received and not counted as a duplicate is distinct, or a copy the
\* ring had forgotten.
THEOREM DuplicatesAreTold == Spec => []DuplicatesAreExact
BY CountInvariant, PTL DEF CountInv

-----------------------------------------------------------------------------
(* Late datagrams and delays                                               *)

\* The fields of the counters that recordLoad's other half sets: the late
\* datagrams, and the delay variation of those that advance.
LEMMA CountedDelay ==
    ASSUME RingInv, ClockInv, NEW c \in StatsType, NEW n \in 1..MaxSeq,
           NEW d \in Datagram(n)
    PROVE  LET x == Counted(c, d)
               dv == DelayVar(d.delta)
           IN  /\ n > seq =>
                     /\ x.ooo = c.ooo /\ x.dvCnt = c.dvCnt + 1
                     /\ x.dvMin = IF c.dvMin = NoDelay \/ dv < c.dvMin THEN dv ELSE c.dvMin
                     /\ x.dvMax = IF dv > c.dvMax THEN dv ELSE c.dvMax
                     /\ x.dvSum = (c.dvSum + dv) % Word
               /\ n <= seq =>
                     /\ x.ooo = IF InHistory(n) THEN c.ooo ELSE c.ooo + 1
                     /\ x.dvCnt = c.dvCnt /\ x.dvMin = c.dvMin
                     /\ x.dvMax = c.dvMax /\ x.dvSum = c.dvSum
<1>0. d.seq = n /\ seq \in Int /\ n \in Int
  BY StreamAssumption DEF Datagram, RingInv
<1>1. CASE n > seq
  <2>1. Counted(c, d) = DelayCounted(WithLoss(c, c.rx + 1, (c.loss + Gap(n)) % Word),
                                     DelayVar(d.delta))
    BY <1>0, <1>1, GapOf, Zenon DEF Counted, SeqCounted, WithLoss
  <2> DEFINE w == WithLoss(c, c.rx + 1, (c.loss + Gap(n)) % Word)
  <2>2. /\ w.ooo = c.ooo /\ w.dvCnt = c.dvCnt /\ w.dvMin = c.dvMin
        /\ w.dvMax = c.dvMax /\ w.dvSum = c.dvSum
        /\ DOMAIN w = DOMAIN c
    BY Zenon DEF WithLoss, StatsType
  <2> HIDE DEF w
  <2>3. DOMAIN w = {"rx", "loss", "ooo", "dup", "dvMin", "dvMax", "dvSum", "dvCnt"}
    BY <2>2, Zenon DEF StatsType
  <2>4. Counted(c, d) = DelayCounted(w, DelayVar(d.delta))
    BY <2>1, Zenon DEF w
  <2> QED
    BY <1>0, <1>1, <2>2, <2>3, <2>4 DEF DelayCounted
<1>2. CASE n <= seq /\ InHistory(n)
  <2>1. Counted(c, d) = WithDup(c, c.rx + 1, c.dup + 1)
    BY <1>0, <1>2, GapOf DEF Counted, SeqCounted, WithDup
  <2> QED
    BY <1>0, <1>2, <2>1 DEF WithDup, StatsType
<1>3. CASE n <= seq /\ ~InHistory(n)
  <2>1. Counted(c, d) = WithLate(c, c.rx + 1, c.ooo + 1, TakeBack(c.loss))
    BY <1>0, <1>3, GapOf DEF Counted, SeqCounted, WithLate
  <2> QED
    BY <1>0, <1>3, <2>1 DEF WithLate, StatsType
<1> QED
  BY <1>0, <1>1, <1>2, <1>3, Zenon

\* What has arrived lies below seq, so no more datagrams than seq have.
LEMMA MissingIsNatural ==
    ASSUME RingInv
    PROVE  /\ Missing \in Nat /\ Cardinality(delivered) \in Nat
           /\ \A n \in 1..seq : n \notin delivered => Missing >= 1
<1>1. seq \in Nat /\ IsFiniteSet(1..seq) /\ Cardinality(1..seq) = seq
  BY FS_Interval, StreamAssumption DEF RingInv
<1>2. IsFiniteSet(delivered) /\ Cardinality(delivered) <= seq
  BY <1>1, FS_Subset, Zenon DEF RingInv
<1>3. Cardinality(delivered) \in Nat
  BY <1>2, FS_CardinalityType, Zenon
<1>4. ASSUME NEW n \in 1..seq, n \notin delivered PROVE Missing >= 1
  <2>1. Cardinality(delivered \cup {n}) = Cardinality(delivered) + 1
    BY <1>2, <1>4, FS_AddElement, Zenon
  <2>2. Cardinality(delivered \cup {n}) <= seq
    <3>1. delivered \cup {n} \in SUBSET (1..seq)
      BY <1>4, Zenon DEF RingInv
    <3> QED
      BY <1>1, <3>1, FS_Subset, Zenon
  <2> QED
    BY <1>1, <1>3, <2>1, <2>2 DEF Missing
<1> QED
  BY <1>1, <1>2, <1>3, <1>4 DEF Missing

\* The three ways an arrival changes the loss and the ghosts, for the proofs below.
ArrivalOf(n) ==
    /\ UNCHANGED <<subIntSeq, reported, rolledLoss, statusSeq>>
    /\ trial'.rx = trial.rx + 1 /\ sub'.rx = sub.rx + 1
    /\ \/ /\ n > seq /\ Missing' = Missing + (n - seq - 1) /\ forgotten' = forgotten
          /\ trial'.loss = trial.loss + (n - seq - 1)
          /\ sub'.loss = sub.loss + (n - seq - 1)
          /\ trial'.dup = trial.dup /\ sub'.dup = sub.dup
       \/ /\ n <= seq /\ InHistory(n) /\ Missing' = Missing /\ forgotten' = forgotten
          /\ trial'.loss = trial.loss /\ sub'.loss = sub.loss
          /\ trial'.dup = trial.dup + 1 /\ sub'.dup = sub.dup + 1
       \/ /\ n <= seq /\ ~InHistory(n)
          /\ \/ Missing >= 1 /\ Missing' = Missing - 1 /\ forgotten' = forgotten
             \/ Missing' = Missing /\ forgotten' = forgotten + 1
          /\ trial'.loss = TakeBack(trial.loss) /\ sub'.loss = TakeBack(sub.loss)
          /\ trial'.dup = trial.dup /\ sub'.dup = sub.dup

\* recordSeq does to the counters what the datagram's number calls for.
LEMMA ArrivalChanges ==
    ASSUME CountInv, NEW n \in 1..MaxSeq, NEW d \in Datagram(n), Arrive(d)
    PROVE  ArrivalOf(n)
<1>0. StreamTypeOK /\ ClockInv /\ RingInv /\ ShortLoss
  BY Zenon DEF CountInv
<1>1. d.seq = n
  BY Zenon DEF Datagram
<1>2. /\ RecordSeq(n) /\ trial' = Counted(trial, d) /\ sub' = Counted(sub, d)
      /\ delivered' = delivered \cup {n}
      /\ forgotten' = IF n \in delivered /\ ~InHistory(n) THEN forgotten + 1 ELSE forgotten
      /\ UNCHANGED <<saved, subIntSeq, reported, rolledLoss, statusSeq>>
  BY <1>1, Zenon DEF Arrive, RecordLoad
<1>3. trial \in StatsType /\ sub \in StatsType /\ trial.loss <= seq
      /\ sub.loss <= seq /\ seq \in Nat /\ delivered \in SUBSET (1..MaxSeq)
  BY <1>0, Zenon DEF StreamTypeOK, ShortLoss
<1>4. /\ Cardinality(delivered) \in Nat
      /\ n \notin delivered => Cardinality(delivered') = Cardinality(delivered) + 1
      /\ n \in delivered => delivered' = delivered
  BY <1>2, <1>3, FiniteDelivered, Zenon
<1>5. trial'.rx = trial.rx + 1 /\ sub'.rx = sub.rx + 1
  BY <1>0, <1>2, <1>3, CountedLoss, Zenon
<1>6. CASE n > seq
  <2>1. seq' = n
    BY <1>0, <1>2, <1>6, GapOf, Zenon DEF RecordSeq
  <2>2. n \notin delivered /\ forgotten' = forgotten
    BY <1>0, <1>2, <1>3, <1>6 DEF RingInv
  <2>3. /\ trial'.loss = trial.loss + (n - seq - 1) /\ sub'.loss = sub.loss + (n - seq - 1)
        /\ trial'.dup = trial.dup /\ sub'.dup = sub.dup
    BY <1>0, <1>2, <1>3, <1>6, CountedLoss, Zenon
  <2>4. Missing' = Missing + (n - seq - 1)
    BY <1>3, <1>4, <2>1, <2>2 DEF Missing
  <2> QED
    BY <1>2, <1>5, <1>6, <2>2, <2>3, <2>4, Zenon DEF ArrivalOf
<1>7. CASE n <= seq /\ InHistory(n)
  <2>1. seq' = seq
    BY <1>0, <1>2, <1>3, <1>7, GapOf DEF RecordSeq, streamVars
  <2>2. delivered' = delivered /\ forgotten' = forgotten
    BY <1>0, <1>2, <1>7 DEF InHistory, RingInv
  <2>3. /\ trial'.loss = trial.loss /\ sub'.loss = sub.loss
        /\ trial'.dup = trial.dup + 1 /\ sub'.dup = sub.dup + 1
    BY <1>0, <1>2, <1>3, <1>7, CountedLoss, Zenon
  <2>4. Missing' = Missing
    BY <2>1, <2>2, Zenon DEF Missing
  <2> QED
    BY <1>2, <1>5, <1>7, <2>2, <2>3, <2>4, Zenon DEF ArrivalOf
<1>8. CASE n <= seq /\ ~InHistory(n)
  <2>1. seq' = seq
    BY <1>0, <1>2, <1>3, <1>8, GapOf DEF RecordSeq
  <2>2. \/ Missing >= 1 /\ Missing' = Missing - 1 /\ forgotten' = forgotten
        \/ Missing' = Missing /\ forgotten' = forgotten + 1
    <3>1. CASE n \in delivered
      BY <1>2, <1>4, <1>8, <2>1, <3>1, Zenon DEF Missing
    <3>2. CASE n \notin delivered
      <4>1. Missing >= 1
        BY <1>0, <1>3, <1>8, <3>2, MissingIsNatural
      <4>2. Missing' = Missing - 1
        BY <1>3, <1>4, <2>1, <3>2 DEF Missing
      <4> QED
        BY <1>2, <3>2, <4>1, <4>2, Zenon
    <3> QED
      BY <3>1, <3>2, Zenon
  <2>3. /\ trial'.loss = TakeBack(trial.loss) /\ sub'.loss = TakeBack(sub.loss)
        /\ trial'.dup = trial.dup /\ sub'.dup = sub.dup
    BY <1>0, <1>2, <1>3, <1>8, CountedLoss, Zenon DEF TakeBack
  <2> QED
    BY <1>2, <1>5, <1>8, <2>2, <2>3, Zenon DEF ArrivalOf
<1> QED
  BY <1>3, <1>6, <1>7, <1>8

\* Until a sub-interval closes, its loss is the number of missing datagrams, up to
\* the copies the ring had forgotten.
THEOREM LossIsExact == Spec => []LossIsExactUntilRoll
<1>1. Init => LossIsExactUntilRoll
  <2> SUFFICES ASSUME Init PROVE LossIsExactUntilRoll
    OBVIOUS
  <2>1. Cardinality(delivered) = 0 /\ sub.loss = 0
    BY FS_EmptySet, Zenon DEF Init, RxInit, ZeroStats
  <2> QED
    BY <2>1 DEF Init, RxInit, LossIsExactUntilRoll, Missing
<1>2. LossIsExactUntilRoll /\ CountInv /\ [Next]_vars => LossIsExactUntilRoll'
  <2> SUFFICES ASSUME LossIsExactUntilRoll, CountInv, [Next]_vars
               PROVE  LossIsExactUntilRoll'
    BY Zenon
  <2>0. /\ Missing \in Nat /\ sub.loss \in Nat /\ forgotten \in Nat /\ subIntSeq \in Nat
        /\ seq \in Nat
    BY MissingIsNatural, Zenon DEF CountInv, StreamTypeOK, StatsType
  <2>1. ASSUME NEW n \in 1..MaxSeq, NEW d \in Datagram(n), Arrive(d)
        PROVE  LossIsExactUntilRoll'
    <3>1. ArrivalOf(n)
      BY <2>1, ArrivalChanges, Zenon
    <3>2. \A l \in Nat : TakeBack(l) \in Nat /\ TakeBack(l) <= l /\ l <= TakeBack(l) + 1
      BY DEF TakeBack
    <3>3. \A l \in Nat, m \in Nat : l <= m /\ m >= 1 => TakeBack(l) <= m - 1
      BY DEF TakeBack
    <3>4. \A l \in Nat, m \in Nat, f \in Nat :
             m <= l + f /\ l <= m => m - 1 <= TakeBack(l) + f
      BY DEF TakeBack
    <3>5. SUFFICES ASSUME subIntSeq' = 0
                   PROVE  sub'.loss <= Missing' /\ Missing' <= sub'.loss + forgotten'
      BY Zenon DEF LossIsExactUntilRoll
    <3>6. sub.loss <= Missing /\ Missing <= sub.loss + forgotten
      BY <3>1, <3>5, Zenon DEF LossIsExactUntilRoll, ArrivalOf
    <3>7. CASE n > seq
      BY <2>0, <3>1, <3>6, <3>7 DEF ArrivalOf
    <3>8. CASE n <= seq /\ InHistory(n)
      BY <2>0, <3>1, <3>6, <3>8 DEF ArrivalOf
    <3>9. CASE n <= seq /\ ~InHistory(n)
      BY <2>0, <3>1, <3>2, <3>3, <3>4, <3>6, <3>9 DEF ArrivalOf
    <3> QED
      BY <2>0, <3>7, <3>8, <3>9
  <2>2. ASSUME NEW due \in BOOLEAN, Status(due) PROVE LossIsExactUntilRoll'
    BY <2>0, <2>2 DEF Status, MaybeRoll, LossIsExactUntilRoll, Missing, subVars, streamVars
  <2>3. CASE UNCHANGED vars
    BY <2>3, Zenon DEF vars, rxVars, streamVars, subVars, LossIsExactUntilRoll, Missing
  <2> QED
    BY <2>1, <2>2, <2>3, Zenon DEF Next
<1> QED
  BY <1>1, <1>2, CountInvariant, PTL DEF Spec

\* A trial lies within its sub-interval, and the loss of the sub-intervals never
\* exceeds that of the trials.
THEOREM SubIntervalsCover == Spec => []SubCoversTrial
<1>1. Init => SubCoversTrial
  BY DEF Init, RxInit, ZeroStats, SubCoversTrial
<1>2. SubCoversTrial /\ CountInv /\ [Next]_vars => SubCoversTrial'
  <2> SUFFICES ASSUME SubCoversTrial, CountInv, [Next]_vars PROVE SubCoversTrial'
    OBVIOUS
  <2>0. trial \in StatsType /\ sub \in StatsType /\ rolledLoss \in Nat
        /\ reported.loss \in Nat /\ seq \in Nat /\ RingInv /\ ClockInv
    BY Zenon DEF CountInv, StreamTypeOK
  <2>a. /\ trial.rx \in Nat /\ trial.loss \in Nat /\ trial.ooo \in Nat /\ trial.dup \in Nat
        /\ trial.dvCnt \in Nat /\ trial.dvMax \in Nat
        /\ sub.rx \in Nat /\ sub.loss \in Nat /\ sub.ooo \in Nat /\ sub.dup \in Nat
        /\ sub.dvCnt \in Nat /\ sub.dvMax \in Nat
    BY <2>0, Zenon DEF StatsType
  <2>1. ASSUME NEW n \in 1..MaxSeq, NEW d \in Datagram(n), Arrive(d)
        PROVE  SubCoversTrial'
    <3>1. ArrivalOf(n)
      BY <2>1, ArrivalChanges
    <3>2. /\ trial'.rx <= sub'.rx /\ trial'.loss <= sub'.loss /\ trial'.dup <= sub'.dup
          /\ rolledLoss' + sub'.loss <= reported'.loss + trial'.loss
      BY <2>0, <2>a, <3>1 DEF ArrivalOf, SubCoversTrial, TakeBack
    <3>3. trial' = Counted(trial, d) /\ sub' = Counted(sub, d)
      BY <2>1, Zenon DEF Arrive, RecordLoad
    <3>4. DelayVar(d.delta) \in Nat
      BY <2>0, DelayVarType, StreamAssumption, Zenon DEF Datagram
    <3>5. trial'.ooo <= sub'.ooo /\ trial'.dvCnt <= sub'.dvCnt
      BY <2>0, <2>a, <3>3, CountedDelay DEF SubCoversTrial
    <3>6. trial'.dvMax <= sub'.dvMax
      BY <2>0, <2>a, <3>3, <3>4, CountedDelay DEF SubCoversTrial
    <3> QED
      BY <3>2, <3>5, <3>6, Zenon DEF SubCoversTrial
  <2>2. ASSUME NEW due \in BOOLEAN, Status(due) PROVE SubCoversTrial'
    <3>1. /\ trial' = ZeroStats /\ reported'.loss = reported.loss + trial.loss
          /\ \/ sub' = ZeroStats /\ rolledLoss' = rolledLoss + sub.loss
             \/ sub' = sub /\ rolledLoss' = rolledLoss
      BY <2>2, Zenon DEF Status, MaybeRoll, ResetTrial, subVars
    <3>2. /\ ZeroStats.rx = 0 /\ ZeroStats.loss = 0 /\ ZeroStats.ooo = 0 /\ ZeroStats.dup = 0
          /\ ZeroStats.dvCnt = 0 /\ ZeroStats.dvMax = 0
      BY Zenon DEF ZeroStats
    <3> QED
      BY <2>0, <2>a, <3>1, <3>2 DEF SubCoversTrial
  <2>3. CASE UNCHANGED vars
    BY <2>3, Zenon DEF vars, rxVars, subVars, SubCoversTrial
  <2> QED
    BY <2>1, <2>2, <2>3 DEF Next
<1> QED
  BY <1>1, <1>2, CountInvariant, PTL DEF Spec

-----------------------------------------------------------------------------
(* Delay variation and round trips                                         *)

\* What a set of counters holds of its delays.
DelayOrder(c) ==
    IF c.dvCnt = 0 THEN c.dvMin = NoDelay /\ c.dvMax = 0 /\ c.dvSum = 0
    ELSE /\ c.dvMin \in Nat
         /\ SumFits(c) => /\ c.dvMin * c.dvCnt <= c.dvSum
                          /\ c.dvSum <= c.dvMax * c.dvCnt

\* The clock minimum is the delta of a datagram, a new one has variation zero in
\* its trial, and the trial's delays are the sub-interval's.
DelayInv ==
    /\ haveClockDelta \in BOOLEAN /\ delayMinUpd \in BOOLEAN
    /\ haveClockDelta = TRUE => clockDeltaMin \in Deltas
    /\ DelayOrder(trial) /\ DelayOrder(sub)
    /\ trial.dvCnt <= sub.dvCnt
    /\ trial.dvCnt > 0 => sub.dvMin <= trial.dvMin
    /\ delayMinUpd = TRUE => trial.dvMin = 0
    /\ rttMin \in Nat \cup {NoDelay}
    /\ rttMin # NoDelay => rttVarSample \in Nat

\* Products are monotone in either factor.
LEMMA Monotone ==
    ASSUME NEW a \in Nat, NEW b \in Nat, NEW k \in Nat, a <= b
    PROVE  a * k <= b * k /\ k * a <= k * b
<1>1. (b - a) * k \in Nat /\ k * (b - a) \in Nat
  OBVIOUS
<1>2. (b - a) * k = b * k - a * k /\ k * (b - a) = k * b - k * a
  OBVIOUS
<1>3. a * k \in Nat /\ b * k \in Nat /\ k * a \in Nat /\ k * b \in Nat
  OBVIOUS
<1> QED
  BY <1>1, <1>2, <1>3

\* A mean stays between minimum and maximum when a sample is added.
LEMMA SampleAdded ==
    ASSUME NEW m \in Nat, NEW x \in Nat, NEW s \in Nat, NEW k \in Nat, NEW v \in Nat,
           m * k <= s, s <= x * k
    PROVE  /\ (IF v < m THEN v ELSE m) * (k + 1) <= s + v
           /\ s + v <= (IF v > x THEN v ELSE x) * (k + 1)
<1> DEFINE a == IF v < m THEN v ELSE m
           b == IF v > x THEN v ELSE x
<1>1. a \in Nat /\ b \in Nat /\ a <= m /\ a <= v /\ x <= b /\ v <= b
  OBVIOUS
<1> HIDE DEF a, b
<1>2. a * k <= m * k /\ x * k <= b * k
  BY <1>1, Monotone, Zenon
<1>3. a * (k + 1) = a * k + a /\ b * (k + 1) = b * k + b
  BY <1>1
<1>4. a * k \in Nat /\ b * k \in Nat /\ m * k \in Nat /\ x * k \in Nat
  BY <1>1
<1>5. a * (k + 1) <= s + v /\ s + v <= b * (k + 1)
  BY <1>1, <1>2, <1>3, <1>4
<1> QED
  BY <1>5, Zenon DEF a, b

\* The variation of a delay is a number of the width, and zero for a new minimum.
LEMMA DelayVarRange ==
    ASSUME NEW delta \in Deltas, haveClockDelta \in BOOLEAN,
           haveClockDelta = TRUE => clockDeltaMin \in Deltas
    PROVE  /\ DelayVar(delta) \in Nat /\ NewClockMin(delta) \in Deltas
           /\ ~haveClockDelta \/ delta < clockDeltaMin => DelayVar(delta) = 0
<1>1. NewClockMin(delta) \in Deltas /\ delta \in Int /\ Deltas \subseteq Int
  BY StreamAssumption, Zenon DEF NewClockMin
<1>2. NewClockMin(delta) \in Int
  BY <1>1, Zenon
<1>3. DelayVar(delta) \in Nat
  BY <1>1, <1>2, WordAssumption DEF DelayVar
<1>4. ASSUME ~haveClockDelta \/ delta < clockDeltaMin PROVE DelayVar(delta) = 0
  <2>1. NewClockMin(delta) = delta
    BY <1>4, Zenon DEF NewClockMin
  <2>2. (delta - delta) % Word = 0
    BY <1>1, WordAssumption
  <2> QED
    BY <2>1, <2>2, Zenon DEF DelayVar
<1> QED
  BY <1>1, <1>3, <1>4, Zenon

\* One more datagram that advances, on either set of counters: as long as the sum
\* fits after it, it fitted before.
LEMMA DelayOrderCounted ==
    ASSUME NEW c \in StatsType, NEW x \in StatsType, NEW dv \in Nat, DelayOrder(c),
           x.dvCnt = c.dvCnt + 1,
           x.dvMin = (IF c.dvMin = NoDelay \/ dv < c.dvMin THEN dv ELSE c.dvMin),
           x.dvMax = (IF dv > c.dvMax THEN dv ELSE c.dvMax),
           x.dvSum = (c.dvSum + dv) % Word
    PROVE  DelayOrder(x) /\ x.dvMin \in Nat /\ x.dvMin <= dv
<1>0. /\ c.dvCnt \in Nat /\ c.dvMax \in Nat /\ c.dvSum \in Nat
      /\ c.dvMin \in Nat \cup {NoDelay} /\ NoDelay \notin Nat
  BY DEF StatsType, NoDelay
<1> DEFINE k == c.dvCnt
           s == c.dvSum
           y == c.dvMax
           b == IF dv > y THEN dv ELSE y
           a == x.dvMin
<1>1. /\ a \in Nat /\ b \in Nat /\ y \in Nat /\ k \in Nat /\ s \in Nat /\ k + 1 \in Nat
      /\ a <= dv /\ y <= b /\ x.dvCnt = k + 1 /\ x.dvCnt # 0 /\ x.dvMax = b
  BY <1>0
<1>2. ASSUME SumFits(x)
      PROVE  x.dvMin * x.dvCnt <= x.dvSum /\ x.dvSum <= x.dvMax * x.dvCnt
  <2>1. b * (k + 1) < Word
    BY <1>1, <1>2, Zenon DEF SumFits
  <2>2. a * (k + 1) <= s + dv /\ s + dv <= b * (k + 1)
    <3>1. CASE c.dvCnt = 0
      <4>1. a = dv /\ s = 0 /\ b = dv
        BY <1>0, <3>1 DEF DelayOrder
      <4> QED
        BY <1>0, <3>1, <4>1
    <3>2. CASE c.dvCnt # 0
      <4> DEFINE m == c.dvMin
      <4>1. m \in Nat /\ a = (IF dv < m THEN dv ELSE m)
        BY <1>0, <3>2, Zenon DEF DelayOrder
      <4>2. y * k < Word
        <5> HIDE DEF k, y, b
        <5>1. y * k <= b * k /\ b * k <= b * (k + 1)
          <6>1. k <= k + 1
            BY <1>1
          <6> QED
            BY <1>1, <6>1, Monotone, Zenon
        <5>2. y * k \in Nat /\ b * k \in Nat /\ b * (k + 1) \in Nat
          BY <1>1
        <5> QED
          BY <2>1, <5>1, <5>2, WordAssumption
      <4>3. m * k <= s /\ s <= y * k
        BY <3>2, <4>2, Zenon DEF DelayOrder, SumFits
      <4>4. b = (IF dv > y THEN dv ELSE y)
        OBVIOUS
      <4> HIDE DEF m, y, k, s, a, b
      <4> QED
        BY <1>1, <4>1, <4>3, <4>4, SampleAdded, Zenon
    <3> QED
      BY <3>1, <3>2, Zenon
  <2> HIDE DEF k, y, a, b
  <2>3. b * (k + 1) \in Nat
    BY <1>1
  <2>4. x.dvSum = s + dv
    BY <1>1, <2>1, <2>2, <2>3, WordAssumption
  <2> QED
    BY <1>1, <2>2, <2>4, Zenon DEF a
<1> QED
  BY <1>1, <1>2, Zenon DEF DelayOrder, a

\* newRxAccounting: no delay and no round trip has been measured.
LEMMA InitDelayInv == Init => DelayInv
<1> SUFFICES ASSUME Init PROVE DelayInv
  BY Zenon
<1>1. /\ ZeroStats.dvCnt = 0 /\ ZeroStats.dvMin = NoDelay
      /\ ZeroStats.dvMax = 0 /\ ZeroStats.dvSum = 0
  BY Zenon DEF ZeroStats
<1>2. DelayOrder(ZeroStats)
  BY <1>1, Zenon DEF DelayOrder
<1>3. haveClockDelta = FALSE /\ trial = ZeroStats /\ sub = ZeroStats /\ rttMin = NoDelay
      /\ delayMinUpd = FALSE
  BY Zenon DEF Init, RxInit
<1>4. /\ haveClockDelta \in BOOLEAN /\ ~(haveClockDelta = TRUE)
      /\ delayMinUpd \in BOOLEAN /\ ~(delayMinUpd = TRUE)
  BY <1>3, Zenon
<1>5. trial.dvCnt <= sub.dvCnt /\ ~(trial.dvCnt > 0)
  BY <1>1, <1>3
<1> QED
  BY <1>2, <1>3, <1>4, <1>5, Zenon DEF DelayInv

\* recordLoad: a datagram that advances adds a sample, a late one none.
LEMMA ArriveDelayInv ==
    ASSUME CountInv, DelayInv, NEW n \in 1..MaxSeq, NEW d \in Datagram(n), Arrive(d)
    PROVE  DelayInv'
<1>0. /\ RingInv /\ ClockInv /\ trial \in StatsType /\ sub \in StatsType
      /\ seq \in Nat /\ trial.loss <= seq /\ sub.loss <= seq
  BY Zenon DEF CountInv, StreamTypeOK, ShortLoss
<1>a. /\ trial.dvCnt \in Nat /\ sub.dvCnt \in Nat
      /\ trial.dvMin \in Nat \cup {NoDelay} /\ sub.dvMin \in Nat \cup {NoDelay}
      /\ NoDelay \in Int
  BY <1>0 DEF StatsType, NoDelay
<1>1. d.seq = n /\ d.delta \in Deltas /\ d.rtt \in Int
  BY StreamAssumption, Zenon DEF Datagram
<1>2. trial' = Counted(trial, d) /\ sub' = Counted(sub, d)
  BY Zenon DEF Arrive, RecordLoad
<1>3. trial' \in StatsType /\ sub' \in StatsType
  BY <1>0, <1>2, CountedLoss, Zenon
<1>5. CASE n > seq
  <2> DEFINE dv == DelayVar(d.delta)
  <2>2. /\ haveClockDelta \in BOOLEAN /\ delayMinUpd \in BOOLEAN
        /\ haveClockDelta = TRUE => clockDeltaMin \in Deltas
    BY Zenon DEF DelayInv
  <2>3. /\ dv \in Nat /\ NewClockMin(d.delta) \in Deltas
        /\ ~haveClockDelta \/ d.delta < clockDeltaMin => dv = 0
    BY <1>1, <2>2, DelayVarRange, Zenon
  <2>4. RecordDelay(d) /\ RecordRTT(d)
    BY <1>0, <1>1, <1>5, GapOf, Zenon DEF Arrive, RecordLoad
  <2>5. haveClockDelta' = TRUE /\ clockDeltaMin' \in Deltas
    BY <2>3, <2>4, Zenon DEF RecordDelay
  <2>6. /\ trial'.dvCnt = trial.dvCnt + 1 /\ sub'.dvCnt = sub.dvCnt + 1
        /\ trial'.dvMin = (IF trial.dvMin = NoDelay \/ dv < trial.dvMin THEN dv ELSE trial.dvMin)
        /\ sub'.dvMin = (IF sub.dvMin = NoDelay \/ dv < sub.dvMin THEN dv ELSE sub.dvMin)
        /\ trial'.dvMax = (IF dv > trial.dvMax THEN dv ELSE trial.dvMax)
        /\ sub'.dvMax = (IF dv > sub.dvMax THEN dv ELSE sub.dvMax)
        /\ trial'.dvSum = (trial.dvSum + dv) % Word
        /\ sub'.dvSum = (sub.dvSum + dv) % Word
    BY <1>0, <1>2, <1>5, CountedDelay, ZenonT(30)
  <2> HIDE DEF dv
  <2>8. DelayOrder(trial') /\ trial'.dvMin \in Nat /\ trial'.dvMin <= dv
    BY <1>0, <1>3, <2>3, <2>6, DelayOrderCounted, Zenon DEF DelayInv
  <2>9. DelayOrder(sub') /\ sub'.dvMin \in Nat /\ sub'.dvMin <= dv
    BY <1>0, <1>3, <2>3, <2>6, DelayOrderCounted, Zenon DEF DelayInv
  <2>10. trial'.dvCnt <= sub'.dvCnt
    BY <1>a, <2>6 DEF DelayInv
  <2>11. sub'.dvMin <= trial'.dvMin
    <3>1. trial.dvCnt = 0 => trial.dvMin = NoDelay
      BY Zenon DEF DelayInv, DelayOrder
    <3>2. trial.dvCnt # 0 => /\ trial.dvMin \in Nat /\ sub.dvMin \in Nat
                             /\ sub.dvMin <= trial.dvMin
      BY <1>a DEF DelayInv, DelayOrder
    <3> QED
      BY <1>a, <2>3, <2>6, <2>9, <3>1, <3>2 DEF NoDelay
  <2>12. rttMin' \in Nat \cup {NoDelay} /\ (rttMin' # NoDelay => rttVarSample' \in Nat)
    <3>1. rttMin \in Nat \cup {NoDelay} /\ (rttMin # NoDelay => rttVarSample \in Nat)
      BY Zenon DEF DelayInv
    <3>2. CASE d.echo # NoEcho /\ d.echo # lastEcho
      BY <1>1, <2>4, <3>1, <3>2 DEF RecordRTT, NoDelay
    <3>3. CASE ~(d.echo # NoEcho /\ d.echo # lastEcho)
      BY <2>4, <3>1, <3>3, Zenon DEF RecordRTT
    <3> QED
      BY <3>2, <3>3, Zenon
  <2>13. (haveClockDelta' \in BOOLEAN) /\ (haveClockDelta' = TRUE => clockDeltaMin' \in Deltas)
    BY <2>5, Zenon
  <2>14. /\ delayMinUpd' = (delayMinUpd \/ ~haveClockDelta \/ d.delta < clockDeltaMin)
         /\ delayMinUpd' \in BOOLEAN
    BY <2>2, <2>4, Zenon DEF RecordDelay
  <2>15. ASSUME delayMinUpd' = TRUE PROVE trial'.dvMin = 0
    <3>1. CASE delayMinUpd = TRUE
      <4>1. trial.dvMin = 0
        BY <3>1, Zenon DEF DelayInv
      <4> QED
        BY <2>3, <2>6, <4>1 DEF NoDelay
    <3>2. CASE dv = 0
      BY <2>3, <2>8, <3>2
    <3> QED
      BY <2>2, <2>3, <2>14, <2>15, <3>1, <3>2, Zenon
  <2> QED
    BY <2>8, <2>9, <2>10, <2>11, <2>12, <2>13, <2>14, <2>15, Zenon DEF DelayInv, DelayOrder,
       SumFits
<1>6. CASE n <= seq
  <2>1. UNCHANGED <<delayVars, delayMinUpd>>
    BY <1>0, <1>1, <1>6, GapOf DEF Arrive, RecordLoad
  <2>2. /\ trial'.dvCnt = trial.dvCnt /\ trial'.dvMin = trial.dvMin
        /\ trial'.dvMax = trial.dvMax /\ trial'.dvSum = trial.dvSum
        /\ sub'.dvCnt = sub.dvCnt /\ sub'.dvMin = sub.dvMin
        /\ sub'.dvMax = sub.dvMax /\ sub'.dvSum = sub.dvSum
    BY <1>0, <1>2, <1>6, CountedDelay, ZenonT(30)
  <2>3. DelayOrder(trial') /\ DelayOrder(sub')
    BY <2>2, Zenon DEF DelayInv, DelayOrder, SumFits
  <2>4. /\ haveClockDelta' = haveClockDelta /\ clockDeltaMin' = clockDeltaMin
        /\ rttMin' = rttMin /\ rttVarSample' = rttVarSample
        /\ delayMinUpd' = delayMinUpd
    BY <2>1, Zenon DEF delayVars
  <2> QED
    BY <2>2, <2>3, <2>4, Zenon DEF DelayInv, DelayOrder, SumFits
<1> QED
  BY <1>0, <1>5, <1>6

\* A status empties the trial, and the sub-interval when it rolls.
LEMMA StatusDelayInv ==
    ASSUME CountInv, DelayInv, NEW due \in BOOLEAN, Status(due)
    PROVE  DelayInv'
<1>1. /\ ZeroStats.dvCnt = 0 /\ ZeroStats.dvMin = NoDelay
      /\ ZeroStats.dvMax = 0 /\ ZeroStats.dvSum = 0
  BY Zenon DEF ZeroStats
<1>2. DelayOrder(ZeroStats)
  BY <1>1, Zenon DEF DelayOrder
<1>3. /\ trial' = ZeroStats /\ (sub' = sub \/ sub' = ZeroStats)
      /\ delayMinUpd' = FALSE /\ UNCHANGED delayVars
  BY Zenon DEF Status, MaybeRoll, ResetTrial, subVars
<1>4. sub.dvCnt \in Nat
  BY Zenon DEF CountInv, StreamTypeOK, StatsType
<1>5. DelayOrder(trial') /\ DelayOrder(sub')
  BY <1>2, <1>3, Zenon DEF DelayInv
<1>6. trial'.dvCnt <= sub'.dvCnt /\ ~(trial'.dvCnt > 0)
  BY <1>1, <1>3, <1>4
<1>7. /\ haveClockDelta' = haveClockDelta /\ clockDeltaMin' = clockDeltaMin
      /\ rttMin' = rttMin /\ rttVarSample' = rttVarSample
  BY <1>3, Zenon DEF delayVars
<1>8. delayMinUpd' \in BOOLEAN /\ ~(delayMinUpd' = TRUE)
  BY <1>3, Zenon
<1> QED
  BY <1>5, <1>6, <1>7, <1>8, Zenon DEF DelayInv, DelayOrder, SumFits

\* What the counters hold of the delays is kept by every step.
LEMMA DelayInvariant == Spec => [](CountInv /\ DelayInv)
<1>1. CountInv /\ DelayInv /\ [Next]_vars => DelayInv'
  <2> SUFFICES ASSUME CountInv, DelayInv, [Next]_vars PROVE DelayInv'
    BY Zenon
  <2>1. CASE UNCHANGED vars
    <3>1. UNCHANGED <<haveClockDelta, clockDeltaMin, delayMinUpd, trial, sub, rttMin, rttVarSample>>
      BY <2>1, Zenon DEF vars, rxVars, delayVars, subVars
    <3> QED
      BY <3>1, Zenon DEF DelayInv, DelayOrder, SumFits
  <2> QED
    BY <2>1, ArriveDelayInv, StatusDelayInv, Zenon DEF Next
<1> QED
  BY <1>1, InitDelayInv, CountInvariant, PTL DEF Spec

-----------------------------------------------------------------------------
(* The mean the rate search judges by                                      *)

\* A quotient lies between two bounds whose products enclose the dividend.
LEMMA QuotientBetween ==
    ASSUME NEW a \in Nat, NEW b \in Nat, NEW s \in Nat, NEW k \in Nat \ {0},
           a * k <= s, s <= b * k
    PROVE  s \div k \in a..b
<1> DEFINE q == s \div k
<1>1. q \in Nat /\ k * q <= s /\ s < k * (q + 1)
  OBVIOUS
<1> HIDE DEF q
<1>2. a <= q
  <2> SUFFICES ASSUME q + 1 <= a PROVE FALSE
    BY <1>1
  <2>1. k * (q + 1) <= k * a
    BY <1>1, Monotone
  <2>2. k * a = a * k /\ k * a \in Nat /\ k * (q + 1) \in Nat
    BY <1>1
  <2> QED
    BY <1>1, <2>1, <2>2
<1>3. q <= b
  <2> SUFFICES ASSUME b + 1 <= q PROVE FALSE
    BY <1>1
  <2>1. k * (b + 1) <= k * q
    BY <1>1, Monotone
  <2>2. k * (b + 1) = b * k + k /\ b * k \in Nat /\ k * q \in Nat
    BY <1>1
  <2> QED
    BY <1>1, <2>1, <2>2
<1> QED
  BY <1>1, <1>2, <1>3 DEF q

\* The mean of delays between a and b is one of a..b, as long as ten times their
\* sum, rounded, stays within the width.
LEMMA MeanBetween ==
    ASSUME NEW a \in Nat, NEW b \in Nat, NEW s \in Nat, NEW k \in Nat \ {0},
           a * k <= s, s <= b * k, 10 * s + 5 < Word
    PROVE  RoundedMean(s, k) \in a..b
<1>1. s * 10 \in Nat /\ (s * 10) % Word = s * 10
  BY WordAssumption
<1>2. (a * 10) * k <= s * 10 /\ s * 10 <= (b * 10) * k
  <2>1. (a * 10) * k = (a * k) * 10 /\ (b * 10) * k = (b * k) * 10
    OBVIOUS
  <2>2. a * k \in Nat /\ b * k \in Nat
    OBVIOUS
  <2> QED
    BY <2>1, <2>2
<1> DEFINE q == (s * 10) \div k
<1>3. q \in (a * 10)..(b * 10)
  <2>1. a * 10 \in Nat /\ b * 10 \in Nat
    OBVIOUS
  <2> QED
    BY <1>1, <1>2, <2>1, QuotientBetween, Zenon
<1>4. q \in 0..(s * 10)
  <2>1. 0 * k <= s * 10 /\ (s * 10) * 1 <= (s * 10) * k /\ (s * 10) * 1 = s * 10
    <3>1. 1 <= k /\ 0 * k = 0
      OBVIOUS
    <3> QED
      BY <1>1, <3>1, Monotone
  <2> QED
    BY <1>1, <2>1, QuotientBetween
<1>5. RoundedMean(s, k) = ((q + 5) % Word) \div 10
  BY <1>1, Zenon DEF RoundedMean
<1> HIDE DEF q
<1>6. (q + 5) % Word = q + 5
  BY <1>1, <1>4, WordAssumption
<1>7. (q + 5) \div 10 \in a..b
  BY <1>3
<1> QED
  BY <1>5, <1>6, <1>7, Zenon

\* What the counters say of the delays is in order, whatever the delays, the
\* clocks and the width: of the sums until they overflow, and of the mean adjust
\* judges a trial by until ten times the sum does.
THEOREM DelaysInOrder == Spec => []DelaysAreOrdered
<1>1. CountInv /\ DelayInv => DelaysAreOrdered
  <2> SUFFICES ASSUME CountInv, DelayInv PROVE DelaysAreOrdered
    BY Zenon
  <2>1. trial \in StatsType /\ sub \in StatsType
    BY Zenon DEF CountInv, StreamTypeOK
  <2>2. ASSUME NEW c \in StatsType, DelayOrder(c) PROVE DelayConsistent(c)
    <3>1. CASE c.dvCnt = 0
      <4>1. c.dvMin = NoDelay /\ c.dvMax = 0 /\ c.dvSum = 0
        BY <2>2, <3>1, Zenon DEF DelayOrder
      <4>2. c = [c EXCEPT !.dvMin = NoDelay, !.dvMax = 0, !.dvSum = 0]
        BY <4>1, Zenon DEF StatsType
      <4> QED
        BY <3>1, <4>2, Zenon DEF DelayConsistent
    <3>2. CASE c.dvCnt # 0
      BY <2>2, <3>2, Zenon DEF DelayOrder, DelayConsistent
    <3> QED
      BY <3>1, <3>2, Zenon
  <2>3. DelayConsistent(trial) /\ DelayConsistent(sub)
    BY <2>1, <2>2, Zenon DEF DelayInv
  <2>4. trial.dvCnt > 0 => trial.dvMin >= sub.dvMin /\ sub.dvMin >= 0
    BY <2>1 DEF DelayInv, DelayOrder, StatsType
  <2>5. rttMin # NoDelay => rttMin >= 0 /\ rttVarSample >= 0
    BY DEF DelayInv
  <2>6. delayMinUpd => trial.dvMin = 0
    BY Zenon DEF DelayInv
  <2>7. ASSUME trial.dvCnt > 0, MeanFits(trial)
        PROVE  RoundedMean(trial.dvSum, trial.dvCnt) \in trial.dvMin..trial.dvMax
    <3>1. /\ trial.dvSum \in Nat /\ trial.dvCnt \in Nat \ {0} /\ trial.dvMax \in Nat
      BY <2>1, <2>7 DEF StatsType
    <3>2. /\ trial.dvMin \in Nat /\ trial.dvMin * trial.dvCnt <= trial.dvSum
          /\ trial.dvSum <= trial.dvMax * trial.dvCnt /\ 10 * trial.dvSum + 5 < Word
      BY <2>7, <3>1, Zenon DEF DelayInv, DelayOrder, MeanFits
    <3> QED
      BY <3>1, <3>2, MeanBetween, Zenon
  <2> QED
    BY <2>3, <2>4, <2>5, <2>6, <2>7, Zenon DEF DelaysAreOrdered
<1> QED
  BY <1>1, DelayInvariant, PTL
=============================================================================
