--------------------------- MODULE ActivationProofs ---------------------------
(***************************************************************************)
(* Policing for every request a TestActPDU can carry and every session:    *)
(* the runs of Activation sample the boundaries, the lemmas here take the  *)
(* fields' whole ranges.                                                   *)
(***************************************************************************)
EXTENDS Activation, TLAPS

\* A scenario as police sees it.
Polices(req, c) ==
    /\ req \in TestAct
    /\ c.pver \in Nat /\ c.MaxTestSeconds \in Int /\ c.marks \in BOOLEAN

Between(v, a, b) == v \in Int /\ a <= v /\ v <= b
USE DEF Between

\* The limits of the duration and of the sub-interval, which is never zero: the
\* division that counts sub-intervals is safe.
LEMMA TimesInRange ==
    ASSUME NEW req, NEW c, Polices(req, c)
    PROVE  /\ Between(dur(req, c), 1, 3600)
           /\ c.MaxTestSeconds > 0 => dur(req, c) <= c.MaxTestSeconds
           /\ Between(subMs(req, c), 100, 10000)
           /\ subMs(req, c) <= dur(req, c) * 1000
<1>1. Between(req.TestIntTime, 0, 65535) /\ Between(req.SubIntPeriod, 0, 65535)
      /\ Between(req.LegacySubIntSec, 0, 255)
  BY DEF Polices, TestAct, uint16, uint8, width16, width8
<1>2. c.MaxTestSeconds \in Int
  BY DEF Polices
<1>3. /\ Between(dur(req, c), 1, 3600)
      /\ c.MaxTestSeconds > 0 => dur(req, c) <= c.MaxTestSeconds
  BY <1>1, <1>2 DEF dur, AtMost, Within
<1>4. Between(subMs(req, c), 100, 10000) /\ subMs(req, c) <= dur(req, c) * 1000
  <2> DEFINE asked == IF c.pver >= ProtocolVer THEN req.SubIntPeriod
                      ELSE req.LegacySubIntSec * 1000
             d == dur(req, c) * 1000
  <2>1. asked \in Int
    BY <1>1
  <2>2. d \in Int /\ d >= 1000
    BY <1>3
  <2>3. subMs(req, c) = AtMost(Within(asked, 100, 10000, 1000), d)
    BY DEF subMs
  <2> HIDE DEF asked, d
  <2>4. Between(subMs(req, c), 100, 10000) /\ subMs(req, c) <= d
    BY <2>1, <2>2, <2>3 DEF AtMost, Within
  <2> QED
    BY <2>4 DEF d
<1> QED
  BY <1>3, <1>4

\* Fewer sub-intervals than fit leave time for another.
LEMMA FewerThanFit ==
    ASSUME NEW a \in Nat, NEW b \in Nat, b > 0, NEW n \in Nat, n < a \div b
    PROVE  n * b < a
<1> DEFINE q == a \div b
           r == a % b
<1>1. q \in Int /\ r \in Int /\ r >= 0 /\ a = b * q + r
  OBVIOUS
<1>2. n + 1 <= q
  BY <1>1
<1> HIDE DEF q, r
<1>3. (n + 1) * b <= q * b
  BY <1>1, <1>2
<1>4. (n + 1) * b = n * b + b /\ n * b \in Int /\ q * b = b * q
  BY <1>1
<1>5. q * b \in Int
  BY <1>1
<1> QED
  BY <1>1, <1>3, <1>4, <1>5

\* police: the suppressed sub-intervals end before the test does.
LEMMA SuppressionEnds ==
    ASSUME NEW req, NEW c, Polices(req, c)
    PROVE  /\ Between(Suppression(req, c), 0, 65535)
           /\ Suppression(req, c) * subMs(req, c) < dur(req, c) * 1000
<1>1. Between(req.SRAdjSuppCount, 0, 65535)
  BY DEF Polices, TestAct, uint16, width16
<1>2. Between(dur(req, c), 1, 3600) /\ Between(subMs(req, c), 100, 10000)
  BY TimesInRange
<1>3. Between(Suppression(req, c), 0, 65535)
  BY <1>1 DEF Suppression
<1>4. CASE Suppression(req, c) = 0
  BY <1>2, <1>4
<1>5. CASE Suppression(req, c) # 0
  <2> DEFINE d == dur(req, c) * 1000
             m == subMs(req, c)
             n == Suppression(req, c)
  <2>1. n < d \div m
    BY <1>5 DEF Suppression
  <2>2. d \in Nat /\ m \in Nat /\ m > 0 /\ n \in Nat
    BY <1>2, <1>3
  <2> HIDE DEF d, m, n
  <2>3. n * m < d
    BY <2>1, <2>2, FewerThanFit
  <2> QED
    BY <1>3, <2>3 DEF d, m, n
<1> QED
  BY <1>3, <1>4, <1>5

\* police: the thresholds are in range and in order.
LEMMA Thresholds ==
    ASSUME NEW req, NEW c, Polices(req, c)
    PROVE  /\ Between(police(req, c).lowThresh, 1, 10000)
           /\ Between(police(req, c).upperThresh, 1, 10000)
           /\ police(req, c).lowThresh <= police(req, c).upperThresh
<1>1. Between(req.LowThresh, 0, 65535) /\ Between(req.UpperThresh, 0, 65535)
  BY DEF Polices, TestAct, uint16, width16
<1>2. Between(low(req), 1, 10000) /\ Between(upper(req), 1, 10000)
  BY <1>1 DEF low, upper, Within
<1>3. /\ police(req, c).lowThresh = IF Crossed(req) THEN 30 ELSE low(req)
      /\ police(req, c).upperThresh = IF Crossed(req) THEN 90 ELSE upper(req)
  BY DEF police
<1> QED
  BY <1>2, <1>3 DEF Crossed

\* A legacy session's sub-interval is a whole number of seconds that fits uint8.
LEMMA LegacyWhole ==
    ASSUME NEW req, NEW c, Polices(req, c), ~(c.pver >= ProtocolVer)
    PROVE  \E k \in Int : 1 <= k /\ k <= 10 /\ subMs(req, c) = k * 1000
<1>1. req.LegacySubIntSec \in Int
  BY DEF Polices, TestAct, uint8, width8
<1>2. Between(dur(req, c), 1, 3600)
  BY TimesInRange
<1>3. subMs(req, c) = AtMost(Within(req.LegacySubIntSec * 1000, 100, 10000, 1000),
                             dur(req, c) * 1000)
  BY DEF subMs
<1>4. CASE req.LegacySubIntSec < 1 \/ req.LegacySubIntSec > 10
  <2>1. subMs(req, c) = 1 * 1000
    BY <1>1, <1>2, <1>3, <1>4 DEF AtMost, Within
  <2> QED
    BY <2>1
<1>5. CASE 1 <= req.LegacySubIntSec /\ req.LegacySubIntSec <= 10
  <2>1. \/ subMs(req, c) = req.LegacySubIntSec * 1000
        \/ subMs(req, c) = dur(req, c) * 1000 /\ dur(req, c) <= req.LegacySubIntSec
    BY <1>1, <1>2, <1>3, <1>5 DEF AtMost, Within
  <2> QED
    BY <1>1, <1>2, <1>5, <2>1
<1> QED
  BY <1>1, <1>4, <1>5

\* What the widths of the response's fields have to hold.
LEMMA PolicedRanges ==
    ASSUME NEW req, NEW c, Polices(req, c)
    PROVE  LET q == police(req, c)
           IN  /\ Between(q.trialInt, 5, 250)
               /\ Between(q.srIndexConf, -1, Rows - 1)
               /\ Between(q.highSpeedDelta, 1, 255)
               /\ Between(q.slowAdjThresh, 1, 65535)
               /\ Between(q.seqErrThresh, 0, 65535)
               /\ Between(q.ecnCEThresh, 0, 255)
               /\ q.algo \in {0, 1}
               /\ {q.indexIsStart, q.useOwDelVar, q.ignoreOooDup} \subseteq BOOLEAN
<1> DEFINE q == police(req, c)
<1>1. /\ Between(req.TrialInt, 0, 65535) /\ Between(req.SRIndexConf, 0, 65535)
      /\ Between(req.HighSpeedDelta, 0, 255) /\ Between(req.SlowAdjThresh, 0, 65535)
      /\ Between(req.SeqErrThresh, 0, 65535) /\ Between(req.ECNCEThresh, 0, 255)
      /\ Between(req.RateAdjAlgo, 0, 255) /\ req.startIndex \in BOOLEAN
  BY DEF Polices, TestAct, uint16, uint8, width16, width8
<1>2. Between(q.trialInt, 5, 250)
  BY <1>1 DEF police, Within
<1>3. Between(q.srIndexConf, -1, Rows - 1)
  BY <1>1, RowsAssumption DEF police, Index
<1>4. Between(q.highSpeedDelta, 1, 255) /\ Between(q.slowAdjThresh, 1, 65535)
  BY <1>1 DEF police, AtLeastOne
<1>5. Between(q.seqErrThresh, 0, 65535) /\ Between(q.ecnCEThresh, 0, 255)
  BY <1>1 DEF police
<1>6. q.algo \in {0, 1}
  BY <1>1 DEF police
<1>7. {q.indexIsStart, q.useOwDelVar, q.ignoreOooDup} \subseteq BOOLEAN
  BY <1>1 DEF police
<1> QED
  BY <1>2, <1>3, <1>4, <1>5, <1>6, <1>7

-----------------------------------------------------------------------------
(* Records of parameters are compared argument by argument.                *)

Test(lt, ut, ti, d, si, ix, st, ow, hs, sa, se, ig, al, ce, su, ds) ==
    [lowThresh |-> lt, upperThresh |-> ut, trialInt |-> ti, duration |-> d,
     subInt |-> si, srIndexConf |-> ix, indexIsStart |-> st, useOwDelVar |-> ow,
     highSpeedDelta |-> hs, slowAdjThresh |-> sa, seqErrThresh |-> se,
     ignoreOooDup |-> ig, algo |-> al, ecnCEThresh |-> ce, srAdjSupp |-> su,
     dscpEcn |-> ds]

\* police, field by field.
LEMMA PolicedFields ==
    ASSUME NEW req, NEW c
    PROVE  LET q == police(req, c)
           IN  /\ q.lowThresh = IF Crossed(req) THEN 30 ELSE low(req)
               /\ q.upperThresh = IF Crossed(req) THEN 90 ELSE upper(req)
               /\ q.trialInt = Within(req.TrialInt, 5, 250, 50)
               /\ q.duration = dur(req, c) /\ q.subInt = subMs(req, c)
               /\ q.srIndexConf = Index(req) /\ q.indexIsStart = req.startIndex
               /\ q.useOwDelVar = (req.UseOwDelVar = 1)
               /\ q.highSpeedDelta = AtLeastOne(req.HighSpeedDelta, 10)
               /\ q.slowAdjThresh = AtLeastOne(req.SlowAdjThresh, 3)
               /\ q.seqErrThresh = req.SeqErrThresh
               /\ q.ignoreOooDup = (req.IgnoreOooDup # 0)
               /\ q.algo = IF req.RateAdjAlgo > 1 THEN 0 ELSE req.RateAdjAlgo
               /\ q.ecnCEThresh = IF req.DSCPECN % 4 \in {1, 2} THEN req.ECNCEThresh ELSE 0
               /\ q.srAdjSupp = Suppression(req, c)
               /\ q.dscpEcn = IF c.marks THEN req.DSCPECN ELSE 0
  BY Zenon DEF police

\* A policed record is the record of its fields.
LEMMA PolicedRecord ==
    ASSUME NEW req, NEW c
    PROVE  LET q == police(req, c)
           IN  q = Test(q.lowThresh, q.upperThresh, q.trialInt, q.duration, q.subInt,
                        q.srIndexConf, q.indexIsStart, q.useOwDelVar,
                        q.highSpeedDelta, q.slowAdjThresh, q.seqErrThresh,
                        q.ignoreOooDup, q.algo, q.ecnCEThresh, q.srAdjSupp,
                        q.dscpEcn)
  BY Zenon DEF police, Test

\* The client's reading, as a record of the same fields.
LEMMA ReadRecord ==
    ASSUME NEW e, NEW c
    PROVE  Reading(e, c) =
             Test(e.LowThresh, e.UpperThresh, e.TrialInt, e.TestIntTime,
                  IF c.pver >= ProtocolVer THEN e.SubIntPeriod
                  ELSE e.LegacySubIntSec * 1000,
                  IF e.SRIndexConf = srIndexAuto THEN -1 ELSE e.SRIndexConf,
                  e.startIndex, e.UseOwDelVar = 1, e.HighSpeedDelta,
                  e.SlowAdjThresh, e.SeqErrThresh, e.IgnoreOooDup = 1,
                  e.RateAdjAlgo, e.ECNCEThresh, e.SRAdjSuppCount, e.DSCPECN)
  BY Zenon DEF Reading, Test

\* awaitActivation's response, field by field.
LEMMA ResponseFields ==
    ASSUME NEW req, NEW q, NEW c
    PROVE  LET e == Response(req, q, c)
           IN  /\ e.LowThresh = q.lowThresh % width16
               /\ e.UpperThresh = q.upperThresh % width16
               /\ e.TrialInt = q.trialInt % width16
               /\ e.TestIntTime = q.duration % width16
               /\ e.LegacySubIntSec = EchoedSub(req, q, c).LegacySubIntSec
               /\ e.SubIntPeriod = EchoedSub(req, q, c).SubIntPeriod
               /\ e.DSCPECN = q.dscpEcn
               /\ e.SRIndexConf = IF q.srIndexConf < 0 THEN srIndexAuto
                                  ELSE q.srIndexConf % width16
               /\ e.UseOwDelVar = boolByte(q.useOwDelVar)
               /\ e.HighSpeedDelta = q.highSpeedDelta % width8
               /\ e.SlowAdjThresh = q.slowAdjThresh % width16
               /\ e.SeqErrThresh = q.seqErrThresh % width16
               /\ e.IgnoreOooDup = boolByte(q.ignoreOooDup)
               /\ e.startIndex = req.startIndex /\ e.RateAdjAlgo = q.algo
               /\ e.ECNCEThresh = q.ecnCEThresh % width8
               /\ e.SRAdjSuppCount = q.srAdjSupp
  BY Zenon DEF Response

\* The response's fields are the policed parameters: no width is exceeded.
LEMMA ResponseIsExact ==
    ASSUME NEW req, NEW c, Polices(req, c)
    PROVE  LET q == police(req, c)
               e == Response(req, q, c)
           IN  /\ e.LowThresh = q.lowThresh /\ e.UpperThresh = q.upperThresh
               /\ e.TrialInt = q.trialInt /\ e.TestIntTime = q.duration
               /\ e.HighSpeedDelta = q.highSpeedDelta
               /\ e.SlowAdjThresh = q.slowAdjThresh
               /\ e.SeqErrThresh = q.seqErrThresh
               /\ e.ECNCEThresh = q.ecnCEThresh
               /\ e.SRAdjSuppCount = q.srAdjSupp
               /\ e.RateAdjAlgo = q.algo /\ e.DSCPECN = q.dscpEcn
               /\ e.startIndex = q.indexIsStart
<1> DEFINE q == police(req, c)
           e == Response(req, q, c)
<1>1. /\ e.LowThresh = q.lowThresh % width16
      /\ e.UpperThresh = q.upperThresh % width16
      /\ e.TrialInt = q.trialInt % width16
      /\ e.TestIntTime = q.duration % width16
      /\ e.HighSpeedDelta = q.highSpeedDelta % width8
      /\ e.SlowAdjThresh = q.slowAdjThresh % width16
      /\ e.SeqErrThresh = q.seqErrThresh % width16
      /\ e.ECNCEThresh = q.ecnCEThresh % width8
  BY ResponseFields
<1>2. e.SRAdjSuppCount = q.srAdjSupp /\ e.RateAdjAlgo = q.algo
      /\ e.DSCPECN = q.dscpEcn /\ e.startIndex = req.startIndex
  BY ResponseFields
<1>3. q.indexIsStart = req.startIndex /\ q.duration = dur(req, c)
  BY PolicedFields
<1>4. Between(q.lowThresh, 1, 10000) /\ Between(q.upperThresh, 1, 10000)
  BY Thresholds
<1>5. /\ Between(q.trialInt, 5, 250) /\ Between(q.highSpeedDelta, 1, 255)
      /\ Between(q.slowAdjThresh, 1, 65535) /\ Between(q.seqErrThresh, 0, 65535)
      /\ Between(q.ecnCEThresh, 0, 255)
  BY PolicedRanges
<1> HIDE DEF q, e
<1>6. Between(q.duration, 1, 3600)
  BY <1>3, TimesInRange
<1>7. \A v \in Int : 0 <= v /\ v <= 65535 => v % width16 = v
  BY DEF width16
<1>8. \A v \in Int : 0 <= v /\ v <= 255 => v % width8 = v
  BY DEF width8
<1>9. /\ e.LowThresh = q.lowThresh /\ e.UpperThresh = q.upperThresh
      /\ e.TrialInt = q.trialInt /\ e.TestIntTime = q.duration
  BY <1>1, <1>4, <1>5, <1>6, <1>7
<1>10. /\ e.SlowAdjThresh = q.slowAdjThresh /\ e.SeqErrThresh = q.seqErrThresh
  BY <1>1, <1>5, <1>7
<1>11. e.HighSpeedDelta = q.highSpeedDelta /\ e.ECNCEThresh = q.ecnCEThresh
  BY <1>1, <1>5, <1>8
<1> QED
  BY <1>2, <1>3, <1>9, <1>10, <1>11, Zenon DEF q, e

\* The sub-interval survives its conversion to either version's field.
LEMMA SubIntIsExact ==
    ASSUME NEW req, NEW c, Polices(req, c)
    PROVE  LET e == Response(req, police(req, c), c)
           IN  (IF c.pver >= ProtocolVer THEN e.SubIntPeriod
                ELSE e.LegacySubIntSec * 1000) = subMs(req, c)
<1> DEFINE q == police(req, c)
           e == Response(req, q, c)
           u == EchoedSub(req, q, c)
<1>1. e.SubIntPeriod = u.SubIntPeriod /\ e.LegacySubIntSec = u.LegacySubIntSec
  BY ResponseFields
<1>2. q.subInt = subMs(req, c)
  BY PolicedFields
<1> HIDE DEF q, e
<1>3. CASE c.pver >= ProtocolVer
  <2>1. u.SubIntPeriod = q.subInt % width16
    BY <1>3, Zenon DEF EchoedSub
  <2>2. Between(subMs(req, c), 100, 10000)
    BY TimesInRange
  <2> HIDE DEF u
  <2>3. e.SubIntPeriod = subMs(req, c)
    BY <1>1, <1>2, <2>1, <2>2 DEF width16
  <2> QED
    BY <1>3, <2>3, ZenonT(30) DEF e, q
<1>4. CASE ~(c.pver >= ProtocolVer)
  <2>1. u.LegacySubIntSec = (q.subInt \div 1000) % width8
    BY <1>4 DEF EchoedSub
  <2>2. PICK k \in Int : 1 <= k /\ k <= 10 /\ subMs(req, c) = k * 1000
    BY <1>4, LegacyWhole
  <2> HIDE DEF u
  <2>3. subMs(req, c) \div 1000 = k
    BY <2>2
  <2>4. e.LegacySubIntSec = k
    BY <1>1, <1>2, <2>1, <2>2, <2>3 DEF width8
  <2>5. e.LegacySubIntSec * 1000 = subMs(req, c)
    BY <2>2, <2>4
  <2> QED
    BY <1>4, <2>5 DEF e, q
<1> QED
  BY <1>3, <1>4 DEF e, q

\* The index survives its conversion, and srIndexAuto is never taken for a row.
LEMMA IndexIsExact ==
    ASSUME NEW req, NEW c, Polices(req, c)
    PROVE  LET e == Response(req, police(req, c), c)
           IN  /\ (IF e.SRIndexConf = srIndexAuto THEN -1 ELSE e.SRIndexConf) = Index(req)
               /\ Index(e) = Index(req)
<1> DEFINE q == police(req, c)
           e == Response(req, q, c)
<1>1. e.SRIndexConf = IF q.srIndexConf < 0 THEN srIndexAuto ELSE q.srIndexConf % width16
  BY ResponseFields
<1>2. q.srIndexConf = Index(req)
  BY PolicedFields
<1>3. Between(q.srIndexConf, -1, Rows - 1)
  BY PolicedRanges
<1> HIDE DEF q, e
<1>4. \/ Index(req) = -1 /\ e.SRIndexConf = srIndexAuto
      \/ /\ Index(req) \in Nat /\ Index(req) < Rows
         /\ e.SRIndexConf = Index(req)
  BY <1>1, <1>2, <1>3, RowsAssumption DEF width16
<1>5. (IF e.SRIndexConf = srIndexAuto THEN -1 ELSE e.SRIndexConf) = Index(req)
  BY <1>4, RowsAssumption DEF srIndexAuto
<1>6. Index(e) = IF e.SRIndexConf # srIndexAuto /\ e.SRIndexConf < Rows
                 THEN e.SRIndexConf ELSE -1
  BY DEF Index
<1>7. Index(e) = Index(req)
  BY <1>4, <1>6, RowsAssumption DEF srIndexAuto
<1> QED
  BY <1>5, <1>7, Zenon DEF e, q

\* Flags survive boolByte.
LEMMA FlagsAreExact ==
    ASSUME NEW req, NEW c
    PROVE  LET q == police(req, c)
               e == Response(req, q, c)
           IN  /\ (e.UseOwDelVar = 1) = q.useOwDelVar
               /\ (e.IgnoreOooDup = 1) = q.ignoreOooDup
               /\ (e.IgnoreOooDup # 0) = q.ignoreOooDup
<1> DEFINE q == police(req, c)
           e == Response(req, q, c)
<1>1. e.UseOwDelVar = boolByte(q.useOwDelVar)
      /\ e.IgnoreOooDup = boolByte(q.ignoreOooDup)
  BY ResponseFields
<1>2. q.useOwDelVar = (req.UseOwDelVar = 1) /\ q.ignoreOooDup = (req.IgnoreOooDup # 0)
  BY PolicedFields
<1>3. 0 # 1
  OBVIOUS
<1> HIDE DEF q, e
<1>4. (e.UseOwDelVar = 1) = q.useOwDelVar
  BY <1>1, <1>2, <1>3, Zenon DEF boolByte
<1>5. /\ (e.IgnoreOooDup = 1) = q.ignoreOooDup
      /\ (e.IgnoreOooDup # 0) = q.ignoreOooDup
  BY <1>1, <1>2, <1>3, Zenon DEF boolByte
<1> QED
  BY <1>4, <1>5, Zenon DEF e, q

\* A client that reads the response reads the parameters the session policed.
LEMMA ReadingIsExact ==
    ASSUME NEW req, NEW c, Polices(req, c)
    PROVE  Reading(Response(req, police(req, c), c), c) = police(req, c)
<1> DEFINE q == police(req, c)
           e == Response(req, q, c)
<1>1. /\ e.LowThresh = q.lowThresh /\ e.UpperThresh = q.upperThresh
      /\ e.TrialInt = q.trialInt /\ e.TestIntTime = q.duration
      /\ e.HighSpeedDelta = q.highSpeedDelta /\ e.SlowAdjThresh = q.slowAdjThresh
      /\ e.SeqErrThresh = q.seqErrThresh /\ e.ECNCEThresh = q.ecnCEThresh
      /\ e.SRAdjSuppCount = q.srAdjSupp /\ e.RateAdjAlgo = q.algo
      /\ e.DSCPECN = q.dscpEcn /\ e.startIndex = q.indexIsStart
  BY ResponseIsExact
<1>2. q.subInt = subMs(req, c) /\ q.srIndexConf = Index(req)
  BY PolicedFields
<1> DEFINE sub == IF c.pver >= ProtocolVer THEN e.SubIntPeriod
                  ELSE e.LegacySubIntSec * 1000
           ix == IF e.SRIndexConf = srIndexAuto THEN -1 ELSE e.SRIndexConf
<1>3. sub = q.subInt
  BY <1>2, SubIntIsExact
<1>4. ix = q.srIndexConf
  BY <1>2, IndexIsExact
<1>5. (e.UseOwDelVar = 1) = q.useOwDelVar /\ (e.IgnoreOooDup = 1) = q.ignoreOooDup
  BY FlagsAreExact
<1>6. Reading(e, c) =
        Test(e.LowThresh, e.UpperThresh, e.TrialInt, e.TestIntTime, sub, ix,
             e.startIndex, e.UseOwDelVar = 1, e.HighSpeedDelta, e.SlowAdjThresh,
             e.SeqErrThresh, e.IgnoreOooDup = 1, e.RateAdjAlgo, e.ECNCEThresh,
             e.SRAdjSuppCount, e.DSCPECN)
  BY ReadRecord
<1>7. q = Test(q.lowThresh, q.upperThresh, q.trialInt, q.duration, q.subInt,
               q.srIndexConf, q.indexIsStart, q.useOwDelVar, q.highSpeedDelta,
               q.slowAdjThresh, q.seqErrThresh, q.ignoreOooDup, q.algo,
               q.ecnCEThresh, q.srAdjSupp, q.dscpEcn)
  BY PolicedRecord
<1> HIDE DEF q, e, sub, ix
<1>8. Reading(e, c) = q
  BY <1>1, <1>3, <1>4, <1>5, <1>6, <1>7
<1> QED
  BY <1>8 DEF q, e

\* The times of a response are what policing it again leaves.
LEMMA TimesAreStable ==
    ASSUME NEW req, NEW c, Polices(req, c)
    PROVE  LET e == Response(req, police(req, c), c)
           IN  /\ dur(e, c) = dur(req, c)
               /\ subMs(e, c) = subMs(req, c)
               /\ Suppression(e, c) = Suppression(req, c)
<1> DEFINE q == police(req, c)
           e == Response(req, q, c)
           M == Within(c.MaxTestSeconds, 1, 3600, 3600)
           W == Within(req.TestIntTime, 5, 3600, 10)
<1>1. e.TestIntTime = dur(req, c) /\ e.SRAdjSuppCount = Suppression(req, c)
  BY ResponseIsExact, PolicedFields
<1>2. (IF c.pver >= ProtocolVer THEN e.SubIntPeriod
       ELSE e.LegacySubIntSec * 1000) = subMs(req, c)
  BY SubIntIsExact
<1> HIDE DEF q, e
<1>3. M \in Int /\ W \in Int /\ 5 <= W
  BY DEF Polices, TestAct, uint16, width16, Within
<1>4. dur(req, c) = AtMost(W, M)
  BY DEF dur
<1>5. dur(e, c) = AtMost(Within(dur(req, c), 5, 3600, 10), M)
  BY <1>1 DEF dur
<1>6. Between(dur(req, c), 1, 3600)
  BY TimesInRange
<1> HIDE DEF M, W
<1>7. dur(e, c) = dur(req, c)
  BY <1>3, <1>4, <1>5, <1>6 DEF AtMost, Within
<1>8. subMs(e, c) = AtMost(Within(subMs(req, c), 100, 10000, 1000), dur(req, c) * 1000)
  BY <1>2, <1>7 DEF subMs
<1>9. Between(subMs(req, c), 100, 10000) /\ subMs(req, c) <= dur(req, c) * 1000
  BY TimesInRange
<1>10. subMs(e, c) = subMs(req, c)
  BY <1>6, <1>8, <1>9 DEF AtMost, Within
<1>11. Suppression(e, c) = Suppression(req, c)
  <2> DEFINE n == (dur(req, c) * 1000) \div subMs(req, c)
  <2>1. Suppression(e, c) =
          IF c.pver >= ProtocolVer /\ Suppression(req, c) < n
          THEN Suppression(req, c) ELSE 0
    BY <1>1, <1>7, <1>10 DEF Suppression
  <2>2. \/ Suppression(req, c) = 0
        \/ c.pver >= ProtocolVer /\ Suppression(req, c) < n
    BY DEF Suppression
  <2> HIDE DEF n
  <2> QED
    BY <2>1, <2>2, Zenon
<1> QED
  BY <1>7, <1>10, <1>11, Zenon DEF q, e

\* Policing a response changes nothing, unless a CE threshold was kept although
\* the host refused the marking.
LEMMA ResponseIsStable ==
    ASSUME NEW req, NEW c, Polices(req, c),
           c.marks \/ police(req, c).ecnCEThresh = 0
    PROVE  police(Response(req, police(req, c), c), c) = police(req, c)
<1> DEFINE q == police(req, c)
           e == Response(req, q, c)
           r == police(e, c)
<1>1. /\ e.LowThresh = q.lowThresh /\ e.UpperThresh = q.upperThresh
      /\ e.TrialInt = q.trialInt
      /\ e.HighSpeedDelta = q.highSpeedDelta /\ e.SlowAdjThresh = q.slowAdjThresh
      /\ e.SeqErrThresh = q.seqErrThresh /\ e.ECNCEThresh = q.ecnCEThresh
      /\ e.RateAdjAlgo = q.algo
      /\ e.DSCPECN = q.dscpEcn /\ e.startIndex = q.indexIsStart
  BY ResponseIsExact, SMTT(30)
<1> HIDE DEF e
<1>2. /\ r.lowThresh = IF Crossed(e) THEN 30 ELSE low(e)
      /\ r.upperThresh = IF Crossed(e) THEN 90 ELSE upper(e)
      /\ r.trialInt = Within(e.TrialInt, 5, 250, 50)
      /\ r.duration = dur(e, c) /\ r.subInt = subMs(e, c)
      /\ r.srIndexConf = Index(e) /\ r.indexIsStart = e.startIndex
      /\ r.useOwDelVar = (e.UseOwDelVar = 1)
      /\ r.highSpeedDelta = AtLeastOne(e.HighSpeedDelta, 10)
      /\ r.slowAdjThresh = AtLeastOne(e.SlowAdjThresh, 3)
      /\ r.seqErrThresh = e.SeqErrThresh
      /\ r.ignoreOooDup = (e.IgnoreOooDup # 0)
      /\ r.algo = IF e.RateAdjAlgo > 1 THEN 0 ELSE e.RateAdjAlgo
      /\ r.ecnCEThresh = IF e.DSCPECN % 4 \in {1, 2} THEN e.ECNCEThresh ELSE 0
      /\ r.srAdjSupp = Suppression(e, c)
      /\ r.dscpEcn = IF c.marks THEN e.DSCPECN ELSE 0
  BY PolicedFields, SMT
<1> USE DEF e
<1>3. /\ q.duration = dur(req, c) /\ q.subInt = subMs(req, c)
      /\ q.srIndexConf = Index(req) /\ q.srAdjSupp = Suppression(req, c)
      /\ q.ecnCEThresh = (IF req.DSCPECN % 4 \in {1, 2} THEN req.ECNCEThresh ELSE 0)
      /\ q.dscpEcn = IF c.marks THEN req.DSCPECN ELSE 0
  BY PolicedFields
<1>4. dur(e, c) = dur(req, c) /\ subMs(e, c) = subMs(req, c)
      /\ Suppression(e, c) = Suppression(req, c)
  BY TimesAreStable, Zenon
<1>5. Index(e) = Index(req)
  BY IndexIsExact, Zenon
<1>6. (e.UseOwDelVar = 1) = q.useOwDelVar /\ (e.IgnoreOooDup # 0) = q.ignoreOooDup
  BY FlagsAreExact, Zenon
<1>7. /\ Between(q.lowThresh, 1, 10000) /\ Between(q.upperThresh, 1, 10000)
      /\ q.lowThresh <= q.upperThresh
  BY Thresholds
<1>8. /\ Between(q.trialInt, 5, 250) /\ Between(q.highSpeedDelta, 1, 255)
      /\ Between(q.slowAdjThresh, 1, 65535) /\ q.algo \in {0, 1}
  BY PolicedRanges
<1>9. c.marks \/ q.ecnCEThresh = 0
  BY Zenon
<1>10. q = Test(q.lowThresh, q.upperThresh, q.trialInt, q.duration, q.subInt,
                q.srIndexConf, q.indexIsStart, q.useOwDelVar, q.highSpeedDelta,
                q.slowAdjThresh, q.seqErrThresh, q.ignoreOooDup, q.algo,
                q.ecnCEThresh, q.srAdjSupp, q.dscpEcn)
  BY PolicedRecord, Zenon
<1>11. r = Test(r.lowThresh, r.upperThresh, r.trialInt, r.duration, r.subInt,
                r.srIndexConf, r.indexIsStart, r.useOwDelVar, r.highSpeedDelta,
                r.slowAdjThresh, r.seqErrThresh, r.ignoreOooDup, r.algo,
                r.ecnCEThresh, r.srAdjSupp, r.dscpEcn)
  BY PolicedRecord, Zenon
<1> HIDE DEF q, e, r
<1>12. r.lowThresh = q.lowThresh /\ r.upperThresh = q.upperThresh
  <2>1. low(e) = q.lowThresh /\ upper(e) = q.upperThresh
    BY <1>1, <1>7 DEF low, upper, Within
  <2>2. ~Crossed(e)
    BY <1>7, <2>1 DEF Crossed
  <2> QED
    BY <1>2, <2>1, <2>2
<1>13. r.trialInt = q.trialInt
  BY <1>1, <1>2, <1>8 DEF Within
<1>14. r.highSpeedDelta = q.highSpeedDelta /\ r.slowAdjThresh = q.slowAdjThresh
  BY <1>1, <1>2, <1>8 DEF AtLeastOne
<1>15. r.algo = q.algo
  BY <1>1, <1>2, <1>8
<1>16. r.ecnCEThresh = q.ecnCEThresh
  <2>1. CASE c.marks
    BY <1>1, <1>2, <1>3, <2>1, Zenon
  <2>2. CASE q.ecnCEThresh = 0
    BY <1>1, <1>2, <2>2, Zenon
  <2> QED
    BY <1>9, <2>1, <2>2, Zenon
<1>17. r.dscpEcn = q.dscpEcn
  BY <1>1, <1>2, <1>3, Zenon
<1>18. /\ r.duration = q.duration /\ r.subInt = q.subInt
       /\ r.srIndexConf = q.srIndexConf /\ r.srAdjSupp = q.srAdjSupp
       /\ r.indexIsStart = q.indexIsStart /\ r.seqErrThresh = q.seqErrThresh
       /\ r.useOwDelVar = q.useOwDelVar /\ r.ignoreOooDup = q.ignoreOooDup
  BY <1>1, <1>2, <1>3, <1>4, <1>5, <1>6
<1>19. r = q
  BY <1>10, <1>11, <1>12, <1>13, <1>14, <1>15, <1>16, <1>17, <1>18, Zenon
<1> QED
  BY <1>19, Zenon DEF q, e, r

-----------------------------------------------------------------------------
(* The session and its client.                                             *)

\* Parameters and response are those of the one activation, and the client has
\* nothing before it: without the last conjunct Activate could change the
\* parameters under a client that already reads them.
AInv ==
    /\ s \in Scenarios
    /\ p # None => p = police(Request(s), s)
    /\ resp # None =>
          resp = [pdu |-> Response(Request(s), p, s), row |-> AnnouncedRow(p)]
          /\ p = police(Request(s), s)
    /\ client = "testing" => view = [params |-> p, row |-> AnnouncedRow(p)]
    /\ phase = "await" => resp = None /\ client # "testing"

\* Every scenario's request, as parsed, is one the lemmas speak of.
LEMMA ScenariosPolice ==
    ASSUME NEW t \in Scenarios
    PROVE  Polices(Request(t), t)
<1>1. t.req \in TestAct /\ t.short \in BOOLEAN
  BY ActivationAssumption, Zenon
<1>2. Request(t) \in TestAct
  BY <1>1 DEF Request, Carried, TestAct, uint16, width16
<1> QED
  BY <1>2, ActivationAssumption, Zenon DEF Polices

\* The short form of the response leaves out a count that is 0.
LEMMA ShortIsExact ==
    ASSUME NEW t \in Scenarios
    PROVE  LET r == Response(Request(t), police(Request(t), t), t)
           IN  Carried(r, t.short) = r
<1> DEFINE q == police(Request(t), t)
           r == Response(Request(t), q, t)
<1>1. CASE t.short
  <2>1. t.req \in TestAct
    BY ActivationAssumption, Zenon
  <2>2. Request(t).SRAdjSuppCount = 0
    BY <1>1, <2>1, Zenon DEF Request, Carried, TestAct
  <2>3. q.srAdjSupp = 0
    BY <2>2, PolicedFields DEF Suppression
  <2>4. r.SRAdjSuppCount = 0
    BY <2>3, Zenon DEF Response
  <2>5. [r EXCEPT !.SRAdjSuppCount = 0] = r
    BY <2>4 DEF Response
  <2> QED
    BY <1>1, <2>5, Zenon DEF Carried
<1>2. CASE ~t.short
  BY <1>2, Zenon DEF Carried
<1> QED
  BY <1>1, <1>2, Zenon

\* Before the activation nothing is answered and nobody tests.
LEMMA InitAInv == Init => AInv
  BY Zenon DEF Init, AInv

\* What is in flight, and what the client has read, stays the response to the
\* parameters police left.
LEMMA StepAInv == AInv /\ [Next]_vars => AInv'
<1> SUFFICES ASSUME AInv, [Next]_vars PROVE AInv'
  BY Zenon
<1> USE DEF AInv
<1>1. CASE Send
  BY <1>1, Zenon DEF Send, AnnouncedRow
<1>2. CASE ReceiveResponse
  <2>1. p' = p /\ s' = s /\ phase' = phase /\ resp' = None
    BY <1>2, Zenon DEF ReceiveResponse
  <2>2. ASSUME client = "asking"
        PROVE  view' = [params |-> p, row |-> AnnouncedRow(p)]
    <3>1. resp # None /\ view' = [params |-> Reading(Carried(resp.pdu, s.short), s), row |-> resp.row]
      BY <1>2, <2>2, Zenon DEF ReceiveResponse
    <3>2. resp.pdu = Response(Request(s), p, s) /\ resp.row = AnnouncedRow(p)
      BY <3>1
    <3>3. Reading(Carried(resp.pdu, s.short), s) = p
      BY <3>1, <3>2, ScenariosPolice, ReadingIsExact, ShortIsExact, Zenon
    <3> QED
      BY <3>1, <3>2, <3>3, Zenon
  <2>3. client' = "testing" => view' = [params |-> p, row |-> AnnouncedRow(p)]
    BY <1>2, <2>2, Zenon DEF ReceiveResponse
  <2>4. AnnouncedRow(p)' = AnnouncedRow(p)
    BY <2>1, Zenon DEF AnnouncedRow
  <2>5. phase # "await"
    BY <1>2, Zenon DEF ReceiveResponse
  <2> QED
    BY <2>1, <2>3, <2>4, <2>5, Zenon
<1>3. CASE LoseResponse
  BY <1>3, Zenon DEF LoseResponse, AnnouncedRow
<1>4. CASE GiveUp
  BY <1>4, Zenon DEF GiveUp, AnnouncedRow
<1>5. CASE Noise
  BY <1>5, Zenon DEF Noise, AnnouncedRow
<1>6. CASE Tick
  BY <1>6, Zenon DEF Tick, AnnouncedRow
<1>7. CASE Activate
  <2>1. /\ p' = police(Request(s), s) /\ s' = s /\ client' = client
        /\ resp' = [pdu |-> Response(Request(s), p', s), row |-> AnnouncedRow(p')]
        /\ phase = "await" /\ phase' = "test"
    BY <1>7, Zenon DEF Activate
  <2>2. AnnouncedRow(p)' = AnnouncedRow(p')
    BY <2>1, Zenon DEF AnnouncedRow
  <2> QED
    BY <2>1, <2>2, Zenon
<1>8. CASE Ignore
  BY <1>8, Zenon DEF Ignore, AnnouncedRow
<1>9. CASE IgnoreRepeat
  BY <1>9, Zenon DEF IgnoreRepeat, AnnouncedRow
<1>10. CASE Traffic
  BY <1>10, Zenon DEF Traffic, AnnouncedRow
<1>11. CASE Finish
  BY <1>11, Zenon DEF Finish, AnnouncedRow
<1>12. CASE TimeOut
  BY <1>12, Zenon DEF TimeOut, AnnouncedRow
<1>13. CASE UNCHANGED vars
  BY <1>13, Zenon DEF vars, AnnouncedRow
<1> QED
  BY <1>1, <1>2, <1>3, <1>4, <1>5, <1>6, <1>7, <1>8, <1>9, <1>10, <1>11, <1>12,
     <1>13, Zenon DEF Next

\* awaitActivation: for every request, session and table, whatever is lost,
\* repeated or injected, a client that tests runs the test the session policed.
THEOREM ClientAndSessionAgree == Spec => []EndsAgree
<1>1. AInv => EndsAgree
  BY Zenon DEF AInv, EndsAgree
<1> QED
  BY <1>1, InitAInv, StepAInv, PTL DEF Spec

\* police: for every request, asking again with the answered values changes
\* nothing.
THEOREM PolicingFixpoint == Spec => []PolicingIsStable
<1>1. AInv => PolicingIsStable
  BY ScenariosPolice, ResponseIsStable, ShortIsExact DEF AInv, PolicingIsStable
<1> QED
  BY <1>1, InitAInv, StepAInv, PTL DEF Spec

\* police: for every request, the parameters are those the rate search and the
\* test loops are built for.
THEOREM PolicingFits == Spec => []PolicedFits
<1>1. ASSUME NEW t \in Scenarios
      PROVE  LET q == police(Request(t), t)
             IN  /\ SearchParams(q) \in Search!ParamType
                 /\ q.lowThresh <= q.upperThresh
                 /\ 100 <= q.subInt /\ q.subInt <= q.duration * 1000
                 /\ q.srAdjSupp * q.subInt < q.duration * 1000
                 /\ t.MaxTestSeconds > 0 => q.duration <= t.MaxTestSeconds
  <2> DEFINE q == police(Request(t), t)
  <2>1. Polices(Request(t), t)
    BY ScenariosPolice, Zenon
  <2>2. /\ q.duration = dur(Request(t), t) /\ q.subInt = subMs(Request(t), t)
        /\ q.srAdjSupp = Suppression(Request(t), t)
    BY PolicedFields
  <2>3. /\ Between(q.lowThresh, 1, 10000) /\ Between(q.upperThresh, 1, 10000)
        /\ q.lowThresh <= q.upperThresh
    BY <2>1, Thresholds
  <2>4. /\ Between(q.srIndexConf, -1, Rows - 1)
        /\ Between(q.highSpeedDelta, 1, 255)
        /\ Between(q.slowAdjThresh, 1, 65535)
        /\ Between(q.seqErrThresh, 0, 65535)
        /\ Between(q.ecnCEThresh, 0, 255)
        /\ q.indexIsStart \in BOOLEAN /\ q.useOwDelVar \in BOOLEAN
        /\ q.ignoreOooDup \in BOOLEAN
    BY <2>1, PolicedRanges
  <2> HIDE DEF q
  <2>5. /\ 100 <= q.subInt /\ q.subInt <= q.duration * 1000
        /\ t.MaxTestSeconds > 0 => q.duration <= t.MaxTestSeconds
    BY <2>1, <2>2, TimesInRange
  <2>6. q.srAdjSupp * q.subInt < q.duration * 1000 /\ q.srAdjSupp \in Nat
    BY <2>1, <2>2, SuppressionEnds
  <2>7. SearchParams(q) \in Search!ParamType
    BY <2>3, <2>4, <2>6, RowsAssumption DEF SearchParams, Search!ParamType
  <2> QED
    BY <2>3, <2>5, <2>6, <2>7 DEF q
<1>2. ASSUME NEW b \in BOOLEAN
      PROVE  HighSpeedThreshOf(b) = HighSpeedThreshOf(FALSE)
  BY <1>2 DEF HighSpeedThreshOf, Region1Len, jmax, kmax
<1>3. AInv => PolicedFits
  <2> SUFFICES ASSUME AInv, p # None PROVE PolicedFits
    BY Zenon DEF PolicedFits
  <2>1. p = police(Request(s), s) /\ s \in Scenarios
    BY Zenon DEF AInv
  <2>2. s.trad \in BOOLEAN
    BY <2>1, ActivationAssumption, Zenon
  <2>3. HighSpeedThreshOf(s.trad) = HighSpeedThreshOf(FALSE)
    BY <1>2, <2>2, Zenon
  <2> QED
    BY <1>1, <2>1, <2>3 DEF PolicedFits
<1> QED
  BY <1>3, InitAInv, StepAInv, PTL DEF Spec

-----------------------------------------------------------------------------
(* The rate table                                                          *)

\* add: a datagram of a fixed size fills the same IP packet in either address
\* family.
Filled(size, ipv6) == L3Size(size, FALSE, ipv6)

\* The packet a datagram of add fills is the size it was made for, in either family.
LEMMA PacketSize ==
    ASSUME NEW x \in Int, 80 <= x, x <= 9000, NEW ipv6
    PROVE  Filled(x - 28, ipv6) = x
BY DEF Filled, L3Size, PayloadSize, minSize, minPayloadSize, maxJPayloadSize, maxJL3Packet,
   l3Overhead, ipv6AddSize

\* The digits of a row's index are the loop counters of BuildRateTable, where c
\* rows follow each other with the same bursts.
Cycle(trad) == IF trad THEN 12 ELSE 10
Packet(trad) == IF trad THEN 1500 ELSE 1250
DigitJ(c, n) == n % c
DigitI(c, n) == (n \div c) % 10
DigitK(c, n) == (n \div c) \div 10

\* Rows up to the threshold and their digits.
LEMMA Digits ==
    ASSUME NEW c \in Int, c = 10 \/ c = 12, NEW n \in Int, 1 <= n, n <= 1000
    PROVE  /\ DigitJ(c, n) \in 0..11 /\ DigitI(c, n) \in 0..9 /\ DigitK(c, n) \in 0..10
           /\ n = c * (10 * DigitK(c, n) + DigitI(c, n)) + DigitJ(c, n)
<1>1. CASE c = 10
  BY <1>1 DEF DigitJ, DigitI, DigitK
<1>2. CASE c = 12
  BY <1>2 DEF DigitJ, DigitI, DigitK
<1> QED
  BY <1>1, <1>2

\* A row of region 1: bursts of k on the first timer, of i on the second, and an
\* add-on of j Mbps.
IsRow(r, k, i, j, P) ==
    /\ r.TxInterval1 = (IF k > 0 THEN 100 ELSE 0) /\ r.BurstSize1 = k
    /\ r.UDPPayload1 = (IF k > 0 THEN P - 28 ELSE 0)
    /\ r.TxInterval2 = (IF i > 0 \/ j > 0 THEN 1000 ELSE 0)
    /\ r.BurstSize2 = i /\ r.UDPPayload2 = (IF i > 0 THEN P - 28 ELSE 0)
    /\ r.UDPAddon2 = (IF j = 0 THEN 0 ELSE 125 * j - 28)
    /\ r.rand = FALSE

\* BuildRateTable: what the loops append at row n.
LEMMA Region1Fields ==
    ASSUME NEW trad, NEW n \in Int, 1 <= n, n <= 1000, NEW c, c = Cycle(trad),
           NEW P, P = Packet(trad)
    PROVE  IsRow(Region1Row(trad, n), DigitK(c, n), DigitI(c, n), DigitJ(c, n), P)
<1> DEFINE j == DigitJ(c, n)
           k == DigitK(c, n)
           i == DigitI(c, n)
           sr == Base(trad, k, i)
<1>1. jmax(trad) + 1 = c /\ payload(trad) = P - 28 /\ c \in Int /\ (c = 10 \/ c = 12)
  BY DEF jmax, Cycle, payload, Packet, maxTL3Packet, maxL3Packet, l3Overhead
<1>2. j \in 0..11 /\ i \in 0..9 /\ k \in 0..10
  BY <1>1, Digits, Zenon
<1>3. Region1Row(trad, n) =
        IF j = 0 THEN sr
        ELSE [sr EXCEPT !.TxInterval2 = baseSendTimer2, !.UDPAddon2 = AddonSize(j)]
  <2>1. n # 0
    OBVIOUS
  <2> QED
    BY <1>1, <2>1, ZenonT(30) DEF Region1Row, DigitJ, DigitI, DigitK
<1> HIDE DEF i, j, k
<1>4. AddonSize(j) = 125 * j - 28
  BY <1>2 DEF AddonSize, l3Overhead
<1>5. /\ sr.TxInterval1 = (IF k > 0 THEN 100 ELSE 0) /\ sr.BurstSize1 = k
      /\ sr.UDPPayload1 = (IF k > 0 THEN P - 28 ELSE 0)
      /\ sr.TxInterval2 = (IF i > 0 THEN 1000 ELSE 0)
      /\ sr.BurstSize2 = i /\ sr.UDPPayload2 = (IF i > 0 THEN P - 28 ELSE 0)
      /\ sr.UDPAddon2 = 0 /\ sr.rand = FALSE
      /\ DOMAIN sr = {"TxInterval1", "UDPPayload1", "BurstSize1", "TxInterval2",
                      "UDPPayload2", "BurstSize2", "UDPAddon2", "rand"}
  BY <1>1 DEF Base, NoRate, baseSendTimer1, baseSendTimer2
<1> HIDE DEF sr
<1>6. IsRow(Region1Row(trad, n), k, i, j, P)
  <2>1. CASE j = 0
    BY <1>2, <1>3, <1>5, <2>1 DEF IsRow
  <2>2. CASE j # 0
    <3> DEFINE r == [sr EXCEPT !.TxInterval2 = baseSendTimer2, !.UDPAddon2 = AddonSize(j)]
    <3>1. /\ r.TxInterval1 = sr.TxInterval1 /\ r.BurstSize1 = sr.BurstSize1
          /\ r.UDPPayload1 = sr.UDPPayload1 /\ r.TxInterval2 = 1000
          /\ r.BurstSize2 = sr.BurstSize2 /\ r.UDPPayload2 = sr.UDPPayload2
          /\ r.UDPAddon2 = 125 * j - 28 /\ r.rand = sr.rand
      BY <1>4, <1>5 DEF baseSendTimer2
    <3> HIDE DEF r
    <3>2. Region1Row(trad, n) = r
      BY <1>3, <2>2 DEF r
    <3>3. j > 0
      BY <1>2, <2>2
    <3> QED
      BY <1>5, <2>2, <3>1, <3>2, <3>3 DEF IsRow
  <2> QED
    BY <2>1, <2>2
<1> QED
  BY <1>6 DEF i, j, k

\* What the two timers of a row put on the wire.
SentBy1(r, ipv6) ==
    IF t1Active(r)
    THEN (50000 \div r.TxInterval1) * r.BurstSize1 * Filled(r.UDPPayload1, ipv6)
    ELSE 0
SentBy2(r, ipv6) ==
    IF t2Active(r)
    THEN (50000 \div r.TxInterval2)
           * (r.BurstSize2 * Filled(r.UDPPayload2, ipv6)
              + IF r.UDPAddon2 > 0 THEN L3Size(r.UDPAddon2, r.rand, ipv6) ELSE 0)
    ELSE 0

RowBytes(k, i, j, P) == 500 * (k * P) + 50 * (i * P + 125 * j)

\* A row of these fields sends 500 bursts of k and 50 of i and an add-on.
LEMMA RowSends ==
    ASSUME NEW r, NEW P \in Int, P = 1250 \/ P = 1500, NEW k \in Nat, NEW i \in Nat, NEW j \in Nat,
           k <= 10, i <= 9, j <= 11, IsRow(r, k, i, j, P), NEW ipv6
    PROVE  Sent(r, ipv6) = RowBytes(k, i, j, P)
<1>3. Filled(P - 28, ipv6) = P
  BY PacketSize
<1>4. j # 0 => Filled(125 * j - 28, ipv6) = 125 * j
  <2>1. j # 0 => 125 * j \in Int /\ 80 <= 125 * j /\ 125 * j <= 9000
    OBVIOUS
  <2> QED
    BY <2>1, PacketSize
<1>5. SentBy1(r, ipv6) = 500 * (k * P)
  <2>1. CASE k = 0
    BY <2>1 DEF IsRow, t1Active, SentBy1
  <2>2. CASE k # 0
    <3>1. r.TxInterval1 = 100 /\ r.BurstSize1 = k /\ r.UDPPayload1 = P - 28 /\ k > 0
      BY <2>2 DEF IsRow
    <3>2. t1Active(r) /\ 50000 \div r.TxInterval1 = 500
      BY <3>1 DEF t1Active
    <3>3. (500 * k) * P = 500 * (k * P)
      OBVIOUS
    <3>4. SentBy1(r, ipv6) = (500 * k) * P
      BY <1>3, <3>1, <3>2 DEF SentBy1
    <3> QED
      BY <3>3, <3>4
  <2> QED
    BY <2>1, <2>2
<1>6. SentBy2(r, ipv6) = 50 * (i * P + 125 * j)
  <2>0. r.BurstSize2 = i /\ r.UDPAddon2 = (IF j = 0 THEN 0 ELSE 125 * j - 28)
        /\ r.rand = FALSE
    BY DEF IsRow
  <2>r. r.rand = FALSE
    BY DEF IsRow
  <2>1. CASE i = 0 /\ j = 0
    <3>1. ~t2Active(r)
      BY <2>0, <2>1 DEF IsRow, t2Active
    <3>2. 50 * (i * P + 125 * j) = 0
      BY <2>1
    <3> QED
      BY <3>1, <3>2 DEF SentBy2
  <2>2. CASE ~(i = 0 /\ j = 0)
    <3>1. r.TxInterval2 = 1000
      BY <2>2 DEF IsRow
    <3>2. t2Active(r) /\ 50000 \div r.TxInterval2 = 50
      BY <2>0, <2>2, <3>1 DEF t2Active
    <3>3. r.BurstSize2 * Filled(r.UDPPayload2, ipv6) = i * P
      <4>1. CASE i = 0
        <5>1. r.UDPPayload2 = 0
          BY <4>1 DEF IsRow
        <5>2. Filled(0, ipv6) \in Int
          BY DEF Filled, L3Size, PayloadSize, minSize, minPayloadSize, maxJPayloadSize,
             maxJL3Packet, l3Overhead, ipv6AddSize
        <5>3. \A y \in Int : 0 * y = 0 * P
          OBVIOUS
        <5> QED
          BY <2>0, <4>1, <5>1, <5>2, <5>3
      <4>2. CASE i # 0
        <5>1. r.UDPPayload2 = P - 28
          BY <4>2 DEF IsRow
        <5> QED
          BY <1>3, <2>0, <5>1
      <4> QED
        BY <4>1, <4>2
    <3>4. (IF r.UDPAddon2 > 0 THEN L3Size(r.UDPAddon2, r.rand, ipv6) ELSE 0) = 125 * j
      <4>1. CASE j = 0
        BY <2>0, <4>1
      <4>2. CASE j # 0
        <5>1. r.UDPAddon2 = 125 * j - 28 /\ r.UDPAddon2 > 0
          BY <2>0, <4>2
        <5>2. L3Size(r.UDPAddon2, r.rand, ipv6) = Filled(r.UDPAddon2, ipv6)
          BY ONLY <2>r, Zenon DEF Filled
        <5> QED
          BY <1>4, <4>2, <5>1, <5>2
      <4> QED
        BY <4>1, <4>2
    <3> QED
      BY <3>2, <3>3, <3>4 DEF SentBy2
  <2> QED
    BY <2>1, <2>2
<1>7. Sent(r, ipv6) = SentBy1(r, ipv6) + SentBy2(r, ipv6)
  BY DEF Sent, SentBy1, SentBy2, Filled
<1> QED
  BY <1>5, <1>6, <1>7 DEF RowBytes

\* A row up to the threshold sends as many Mbps as its index.
LEMMA RateOfRow ==
    ASSUME NEW jumbo, NEW trad, NEW n \in Int, 1 <= n, n <= 1000, NEW ipv6
    PROVE  Sent(Row(jumbo, trad, n), ipv6) = 6250 * n
<1> DEFINE c == Cycle(trad)
           P == Packet(trad)
           k == DigitK(c, n)
           i == DigitI(c, n)
           j == DigitJ(c, n)
<1>1. Row(jumbo, trad, n) = Region1Row(trad, n)
  BY DEF Row, Region1Len, jmax, kmax
<1>2. c \in Int /\ P \in Int
  BY DEF Cycle, Packet
<1>a. (c = 10 /\ P = 1250) \/ (c = 12 /\ P = 1500)
  BY DEF Cycle, Packet
<1>3. IsRow(Region1Row(trad, n), k, i, j, P)
  BY Region1Fields
<1> HIDE DEF c, P
<1>4. j \in 0..11 /\ i \in 0..9 /\ k \in 0..10 /\ n = c * (10 * k + i) + j
  BY <1>2, <1>a, Digits
<1> HIDE DEF k, i, j
<1> DEFINE r == Region1Row(trad, n)
<1>r. IsRow(r, k, i, j, P)
  BY <1>3
<1> HIDE DEF r
<1>5. Sent(r, ipv6) = RowBytes(k, i, j, P)
  <2>1. k \in Nat /\ i \in Nat /\ j \in Nat /\ k <= 10 /\ i <= 9 /\ j <= 11
    BY <1>4
  <2>2. P \in Int /\ (P = 1250 \/ P = 1500)
    BY <1>2, <1>a
  <2> QED
    BY ONLY <2>1, <2>2, <1>r, RowSends
<1>6. RowBytes(k, i, j, P) = 6250 * n
  BY <1>a, <1>4 DEF RowBytes
<1> QED
  BY <1>1, <1>5, <1>6 DEF r

\* A row of region 2 sends 500 bursts of datagrams that fill their packets.
LEMMA Row2Sends ==
    ASSUME NEW x \in Int, 52 <= x, x <= 8972, NEW b \in Nat, b > 0, NEW ipv6
    PROVE  /\ Sent(Row2(x, b), ipv6) = 500 * (b * (x + 28))
           /\ Row2(x, b).BurstSize1 = b
<1> DEFINE r == Row2(x, b)
<1>1. /\ r.TxInterval1 = 100 /\ r.UDPPayload1 = x /\ r.BurstSize1 = b
      /\ r.TxInterval2 = 0
  BY SMT DEF Row2, NoRate, baseSendTimer1
<1> HIDE DEF r
<1>2. Filled(x, ipv6) = x + 28
  <2>1. (x + 28) - 28 = x
    BY SMT
  <2>2. Filled((x + 28) - 28, ipv6) = x + 28
    <3> DEFINE y == x + 28
    <3>1. y \in Int /\ 80 <= y /\ y <= 9000
      BY SMT
    <3> HIDE DEF y
    <3>2. Filled(y - 28, ipv6) = y
      BY <3>1, PacketSize, SMT
    <3> QED
      BY <3>2, SMT DEF y
  <2> QED
    BY <2>1, <2>2, SMT
<1>3. SentBy1(r, ipv6) = 500 * (b * (x + 28))
  <2>1. t1Active(r) /\ 50000 \div r.TxInterval1 = 500
    BY <1>1, SMT DEF t1Active
  <2> QED
    BY <1>1, <1>2, <2>1, SMT DEF SentBy1
<1>4. SentBy2(r, ipv6) = 0
  BY <1>1, SMT DEF SentBy2, t2Active
<1>5. Sent(r, ipv6) = SentBy1(r, ipv6) + SentBy2(r, ipv6)
  BY SMT DEF Sent, SentBy1, SentBy2, Filled
<1> QED
  BY <1>1, <1>3, <1>4, <1>5, SMT DEF r

\* Above the threshold: the size and the burst of row n.
SizeAt(jumbo, trad, n) ==
    IF jumbo THEN IF n < 1063 THEN 125 * (n - 1000) + 1222 ELSE 8972
    ELSE IF trad THEN 1472 ELSE 1222
BurstAt(jumbo, trad, n) ==
    IF jumbo THEN IF n < 1063 THEN 10 ELSE Burst(n - 1052)
    ELSE IF trad THEN Burst(n - 992) ELSE Burst(n - 990)

\* Every row above the threshold is one burst of SizeAt and BurstAt.
LEMMA Region2Row2 ==
    ASSUME NEW jumbo, NEW trad, NEW n \in Int, 1001 <= n, n <= 1152
    PROVE  /\ Row(jumbo, trad, n) = Row2(SizeAt(jumbo, trad, n), BurstAt(jumbo, trad, n))
           /\ Between(SizeAt(jumbo, trad, n), 52, 8972)
           /\ Between(BurstAt(jumbo, trad, n), 9, 100)
<1> DEFINE m == n - 1001
<1>1. Row(jumbo, trad, n) = Region2Row(jumbo, trad, m)
  <2>1. Region1Len(trad) = 1001
    BY SMT DEF Region1Len, jmax, kmax
  <2> QED
    BY <2>1, SMT DEF Row
<1>2. /\ maxJPayloadSize = 8972 /\ payload(trad) = (IF trad THEN 1472 ELSE 1222)
      /\ JumboLen(jumbo) = (IF jumbo THEN 62 ELSE 0)
  BY SMT DEF maxJPayloadSize, payload, JumboLen, maxJL3Packet, maxL3Packet, maxTL3Packet,
     l3Overhead
<1>3. /\ Between(SizeAt(jumbo, trad, n), 52, 8972) /\ Between(BurstAt(jumbo, trad, n), 9, 100)
  BY SMT DEF SizeAt, BurstAt, Burst, maxBurstSize
<1>4. CASE jumbo
  <2>1. CASE n < 1063
    <3>1. maxL3Packet + 125 * (m + 1) - l3Overhead = 125 * (n - 1000) + 1222
      BY SMT DEF maxL3Packet, l3Overhead
    <3>2. Region2Row(jumbo, trad, m) = Row2(125 * (n - 1000) + 1222, 10)
      BY <1>2, <1>4, <2>1, <3>1, SMT DEF Region2Row
    <3>3. SizeAt(jumbo, trad, n) = 125 * (n - 1000) + 1222 /\ BurstAt(jumbo, trad, n) = 10
      BY <1>4, <2>1, SMT DEF SizeAt, BurstAt
    <3> QED
      BY <1>1, <1>3, <3>2, <3>3, SMT
  <2>2. CASE n >= 1063
    <3>1. 11 + m - 62 = n - 1052 /\ ~(m < 62)
      BY <2>2, SMT
    <3>2. Region2Row(jumbo, trad, m) = Row2(8972, Burst(n - 1052))
      BY <1>2, <1>4, <3>1, SMT DEF Region2Row
    <3>3. SizeAt(jumbo, trad, n) = 8972 /\ BurstAt(jumbo, trad, n) = Burst(n - 1052)
      BY <1>4, <2>2, SMT DEF SizeAt, BurstAt
    <3> QED
      BY <1>1, <1>3, <3>2, <3>3, SMT
  <2> QED
    BY <2>1, <2>2, SMT
<1>5. CASE ~jumbo /\ trad
  <2>1. 9 + m - 0 = n - 992 /\ ~(m < 0)
    BY SMT
  <2>2. Region2Row(jumbo, trad, m) = Row2(1472, Burst(n - 992))
    BY <1>2, <1>5, <2>1, SMT DEF Region2Row
  <2>3. SizeAt(jumbo, trad, n) = 1472 /\ BurstAt(jumbo, trad, n) = Burst(n - 992)
    BY <1>5, SMT DEF SizeAt, BurstAt
  <2> QED
    BY <1>1, <1>3, <2>2, <2>3, SMT
<1>6. CASE ~jumbo /\ ~trad
  <2>1. 11 + m - 0 = n - 990 /\ ~(m < 0)
    BY SMT
  <2>2. Region2Row(jumbo, trad, m) = Row2(1222, Burst(n - 990))
    BY <1>2, <1>6, <2>1, SMT DEF Region2Row
  <2>3. SizeAt(jumbo, trad, n) = 1222 /\ BurstAt(jumbo, trad, n) = Burst(n - 990)
    BY <1>6, SMT DEF SizeAt, BurstAt
  <2> QED
    BY <1>1, <1>3, <2>2, <2>3, SMT
<1> QED
  BY <1>4, <1>5, <1>6, SMT

\* Above the threshold each row sends more than the one before, until the burst is
\* the largest.
LEMMA Region2Grows ==
    ASSUME NEW jumbo, NEW trad, NEW n \in Int, 1001 <= n, n <= 1152, NEW ipv6
    PROVE  LET now == Sent(Row(jumbo, trad, n), ipv6)
               before == Sent(Row(jumbo, trad, n - 1), ipv6)
           IN  \/ now > before
               \/ now = before /\ Row(jumbo, trad, n).BurstSize1 = maxBurstSize
<1> DEFINE x == SizeAt(jumbo, trad, n)
           b == BurstAt(jumbo, trad, n)
           now == Sent(Row(jumbo, trad, n), ipv6)
           before == Sent(Row(jumbo, trad, n - 1), ipv6)
<1>1. /\ Row(jumbo, trad, n) = Row2(x, b) /\ Between(x, 52, 8972) /\ Between(b, 9, 100)
  BY Region2Row2, SMT
<1>2. now = 500 * (b * (x + 28)) /\ Row(jumbo, trad, n).BurstSize1 = b
  <2> HIDE DEF x, b
  <2>1. x \in Int /\ 52 <= x /\ x <= 8972 /\ b \in Nat /\ b > 0
    BY <1>1, SMT
  <2> QED
    BY <1>1, <2>1, Row2Sends, SMT
<1>3. CASE n = 1001
  <2>1. before = 6250 * 1000
    <3>1. n - 1 = 1000
      BY <1>3, SMT
    <3>2. Sent(Row(jumbo, trad, 1000), ipv6) = 6250 * 1000
      BY RateOfRow, SMT
    <3> QED
      BY <3>1, <3>2, SMT
  <2>2. now > 6250 * 1000
    BY <1>2, <1>3, SMT DEF SizeAt, BurstAt, Burst, maxBurstSize
  <2> HIDE DEF now, before
  <2>3. now > before
    BY <2>1, <2>2, SMT
  <2> QED
    BY <2>3, SMT DEF now, before
<1>4. CASE n > 1001
  <2> DEFINE l == n - 1
             y == SizeAt(jumbo, trad, l)
             c == BurstAt(jumbo, trad, l)
  <2>0. l \in Int /\ 1001 <= l /\ l <= 1152
    BY <1>4, SMT
  <2>1. Row(jumbo, trad, l) = Row2(y, c) /\ Between(y, 52, 8972) /\ Between(c, 9, 100)
    <3> HIDE DEF l
    <3> QED
      BY <2>0, Region2Row2, SMT
  <2>2. before = 500 * (c * (y + 28))
    <3>1. y \in Int /\ 52 <= y /\ y <= 8972 /\ c \in Nat /\ c > 0
      BY <2>1, SMT
    <3>2. Sent(Row2(y, c), ipv6) = 500 * (c * (y + 28))
      <4> HIDE DEF y, c
      <4> QED
        BY <3>1, Row2Sends, SMTT(30)
    <3> QED
      BY <2>1, <3>2, SMT
  <2>3. \/ b * (x + 28) > c * (y + 28)
        \/ b * (x + 28) = c * (y + 28) /\ b = 100
    <3>1. CASE jumbo /\ n < 1063
      BY <1>4, <3>1, SMT DEF SizeAt, BurstAt
    <3>2. CASE jumbo /\ n = 1063
      BY <3>2, SMT DEF SizeAt, BurstAt, Burst, maxBurstSize
    <3>3. CASE jumbo /\ n > 1063
      BY <3>3, SMT DEF SizeAt, BurstAt, Burst, maxBurstSize
    <3>4. CASE ~jumbo /\ trad
      BY <1>4, <3>4, SMT DEF SizeAt, BurstAt, Burst, maxBurstSize
    <3>5. CASE ~jumbo /\ ~trad
      BY <1>4, <3>5, SMT DEF SizeAt, BurstAt, Burst, maxBurstSize
    <3> QED
      BY <3>1, <3>2, <3>3, <3>4, <3>5, SMTT(30)
  <2> HIDE DEF x, b, y, c
  <2>4. \/ 500 * (b * (x + 28)) > 500 * (c * (y + 28))
        \/ 500 * (b * (x + 28)) = 500 * (c * (y + 28)) /\ b = 100
    <3>1. b * (x + 28) \in Int /\ c * (y + 28) \in Int
      BY <1>1, <2>1, SMT
    <3> QED
      BY <2>3, <3>1, SMT
  <2> QED
    BY <1>2, <2>2, <2>4, SMT DEF maxBurstSize
<1> QED
  BY <1>3, <1>4, SMT

\* Row 0 sends one datagram of a random size every 50 ms.
LEMMA RateOfRow0 ==
    ASSUME NEW jumbo, NEW trad, NEW ipv6 PROVE Sent(Row(jumbo, trad, 0), ipv6) < 6250
<1> DEFINE r == Row0(trad)
<1>1. Row(jumbo, trad, 0) = r
  BY SMT DEF Row, Region1Len, jmax, kmax, Region1Row
<1>2. /\ r.TxInterval1 = 0 /\ r.TxInterval2 = 50000 /\ r.BurstSize2 = 0
      /\ r.UDPPayload2 = 0 /\ r.UDPAddon2 = (IF trad THEN 1472 ELSE 1222)
  BY SMTT(30) DEF Row0, NoRate, payload, maxTL3Packet, maxL3Packet, l3Overhead
<1> HIDE DEF r
<1>3. ASSUME NEW rand PROVE Between(L3Size(r.UDPAddon2, rand, ipv6), 0, 1500)
  BY <1>2, SMTT(30) DEF L3Size, PayloadSize, minSize, minPayloadSize, maxJPayloadSize,
     maxJL3Packet, l3Overhead, ipv6AddSize
<1>4. Filled(0, ipv6) \in Int
  BY SMT DEF Filled, L3Size, PayloadSize, minSize, minPayloadSize, maxJPayloadSize,
     maxJL3Packet, l3Overhead, ipv6AddSize
<1>5. SentBy1(r, ipv6) = 0
  BY <1>2, SMT DEF SentBy1, t1Active
<1>6. Between(SentBy2(r, ipv6), 0, 1500)
  <2> DEFINE a == L3Size(r.UDPAddon2, r.rand, ipv6)
  <2>1. Between(a, 0, 1500)
    BY <1>3, SMT
  <2> HIDE DEF a
  <2>2. SentBy2(r, ipv6) = (50000 \div 50000) * (0 * Filled(0, ipv6) + a)
    BY <1>2, SMT DEF SentBy2, t2Active, a
  <2> QED
    BY <1>4, <2>1, <2>2, SMT
<1>7. Sent(r, ipv6) = SentBy1(r, ipv6) + SentBy2(r, ipv6)
  BY SMTT(30) DEF Sent, SentBy1, SentBy2, Filled
<1> QED
  BY <1>1, <1>5, <1>6, <1>7, SMT

\* No row asks for more or larger datagrams than there are buffers for, and every
\* row sends something.
LEMMA RowFits ==
    ASSUME NEW jumbo, NEW trad, NEW n \in Int, 0 <= n, n <= 1152
    PROVE  LET r == Row(jumbo, trad, n)
           IN  /\ t1Active(r) \/ t2Active(r)
               /\ r.BurstSize1 <= 101
               /\ r.BurstSize2 + (IF r.UDPAddon2 > 0 THEN 1 ELSE 0) <= 101
               /\ Between(r.UDPPayload1, 0, 8972) /\ Between(r.UDPPayload2, 0, 8972)
               /\ Between(r.UDPAddon2, 0, 8972)
<1>1. CASE n = 0
  <2> DEFINE r == Row0(trad)
  <2>1. Row(jumbo, trad, n) = r
    BY <1>1, SMT DEF Row, Region1Len, jmax, kmax, Region1Row
  <2>2. /\ r.TxInterval2 = 50000 /\ r.BurstSize2 = 0 /\ r.BurstSize1 = 0
        /\ r.UDPPayload1 = 0
        /\ r.UDPPayload2 = 0 /\ r.UDPAddon2 = (IF trad THEN 1472 ELSE 1222)
    BY SMT DEF Row0, NoRate, payload, maxTL3Packet, maxL3Packet, l3Overhead
  <2> HIDE DEF r
  <2> QED
    BY <2>1, <2>2, SMT DEF t2Active
<1>2. CASE 1 <= n /\ n <= 1000
  <2> DEFINE c == Cycle(trad)
             P == Packet(trad)
             k == DigitK(c, n)
             i == DigitI(c, n)
             j == DigitJ(c, n)
             r == Row(jumbo, trad, n)
  <2>1. r = Region1Row(trad, n)
    BY <1>2, SMT DEF Row, Region1Len, jmax, kmax
  <2>2. c \in Int /\ P \in Int /\ (c = 10 \/ c = 12) /\ (P = 1250 \/ P = 1500)
    BY SMT DEF Cycle, Packet
  <2>3. IsRow(Region1Row(trad, n), k, i, j, P)
    BY <1>2, Region1Fields, SMT
  <2> HIDE DEF c, P
  <2>4. j \in 0..11 /\ i \in 0..9 /\ k \in 0..10 /\ n = c * (10 * k + i) + j
    BY <1>2, <2>2, Digits, SMT
  <2> HIDE DEF k, i, j, r
  <2>5. k > 0 \/ i > 0 \/ j > 0
    BY <1>2, <2>2, <2>4, SMT
  <2>6. IsRow(r, k, i, j, P)
    BY <2>1, <2>3, SMT
  <2>7. /\ t1Active(r) \/ t2Active(r)
        /\ r.BurstSize1 <= 101
        /\ r.BurstSize2 + (IF r.UDPAddon2 > 0 THEN 1 ELSE 0) <= 101
    BY <2>4, <2>5, <2>6, SMT DEF IsRow, t1Active, t2Active
  <2>8. /\ Between(r.UDPPayload1, 0, 8972) /\ Between(r.UDPPayload2, 0, 8972)
        /\ Between(r.UDPAddon2, 0, 8972)
    BY <2>2, <2>4, <2>6, SMT DEF IsRow
  <2> QED
    BY <2>7, <2>8, SMT DEF r
<1>3. CASE 1001 <= n
  <2> DEFINE x == SizeAt(jumbo, trad, n)
             b == BurstAt(jumbo, trad, n)
             r == Row2(x, b)
  <2>1. Row(jumbo, trad, n) = r /\ Between(x, 52, 8972) /\ Between(b, 9, 100)
    BY <1>3, Region2Row2, SMT
  <2> HIDE DEF x, b
  <2>2. /\ r.TxInterval1 = 100 /\ r.UDPPayload1 = x /\ r.BurstSize1 = b
        /\ r.UDPPayload2 = 0 /\ r.BurstSize2 = 0 /\ r.UDPAddon2 = 0
    BY SMT DEF Row2, NoRate, baseSendTimer1
  <2> HIDE DEF r
  <2> QED
    BY <2>1, <2>2, SMT DEF t1Active
<1> QED
  BY <1>1, <1>2, <1>3, SMTT(30)

\* police: a test starts at a row of the table.
LEMMA StartIsARow ==
    ASSUME AInv, p # None
    PROVE  initialIndex(p) \in Int /\ 0 <= initialIndex(p) /\ initialIndex(p) <= 1152
<1>1. p = police(Request(s), s) /\ s \in Scenarios
  BY DEF AInv
<1>2. Between(p.srIndexConf, -1, Rows - 1)
  BY <1>1, ScenariosPolice, PolicedRanges
<1>3. Rows = 1153
  BY ActivationAssumption, Zenon DEF maxSendingRates
<1> QED
  BY <1>2, <1>3, SMT DEF initialIndex

\* BuildRateTable and sendLoop: whatever is asked for, the row a test starts at
\* sends what its index says, and above the threshold more than the row before.
THEOREM RowsAreTheirRates == Spec => []RowIsItsRate
<1>1. AInv => RowIsItsRate
  <2> SUFFICES ASSUME AInv, p # None, NEW ipv6 \in BOOLEAN
               PROVE  LET n == initialIndex(p)
                          sent(k) == Sent(Row(s.jumbo, s.trad, k), ipv6)
                      IN  /\ n = 0 => sent(0) < PerMbps
                          /\ n \in 1..HighSpeedThreshOf(s.trad) => sent(n) = PerMbps * n
                          /\ n > HighSpeedThreshOf(s.trad) =>
                                \/ sent(n) > sent(n - 1)
                                \/ sent(n) = sent(n - 1)
                                   /\ Row(s.jumbo, s.trad, n).BurstSize1 = maxBurstSize
    BY DEF RowIsItsRate
  <2> DEFINE n == initialIndex(p)
             jumbo == s.jumbo
             trad == s.trad
             v == ipv6
  <2>1. n \in Int /\ 0 <= n /\ n <= 1152
    BY StartIsARow
  <2>2. HighSpeedThreshOf(trad) = 1000 /\ PerMbps = 6250
    BY SMT DEF HighSpeedThreshOf, Region1Len, jmax, kmax, PerMbps
  <2> HIDE DEF n, jumbo, trad, v
  <2>3. Sent(Row(jumbo, trad, 0), v) < 6250
    BY RateOfRow0
  <2>4. n \in 1..1000 => Sent(Row(jumbo, trad, n), v) = 6250 * n
    BY RateOfRow, SMT
  <2>5. n > 1000 =>
          \/ Sent(Row(jumbo, trad, n), v) > Sent(Row(jumbo, trad, n - 1), v)
          \/ Sent(Row(jumbo, trad, n), v) = Sent(Row(jumbo, trad, n - 1), v)
             /\ Row(jumbo, trad, n).BurstSize1 = maxBurstSize
    BY <2>1, Region2Grows, SMT
  <2> QED
    BY ONLY <2>2, <2>3, <2>4, <2>5, SMTT(30) DEF n, jumbo, trad, v
<1> QED
  BY <1>1, InitAInv, StepAInv, PTL DEF Spec

\* sendBurst: no row of a test outgrows the buffers of sendLoop.
THEOREM RowsAreBuffered == Spec => []RowsFitBuffers
<1>1. AInv => RowsFitBuffers
  <2> SUFFICES ASSUME AInv, p # None PROVE RowsFitBuffers
    BY DEF RowsFitBuffers
  <2> DEFINE n == initialIndex(p)
             jumbo == s.jumbo
             trad == s.trad
             r == Row(jumbo, trad, n)
  <2>1. n \in Int /\ 0 <= n /\ n <= 1152
    BY StartIsARow
  <2> HIDE DEF n, jumbo, trad
  <2>2. /\ t1Active(r) \/ t2Active(r)
        /\ r.BurstSize1 <= 101
        /\ r.BurstSize2 + (IF r.UDPAddon2 > 0 THEN 1 ELSE 0) <= 101
        /\ Between(r.UDPPayload1, 0, 8972) /\ Between(r.UDPPayload2, 0, 8972)
        /\ Between(r.UDPAddon2, 0, 8972)
    BY <2>1, RowFits, SMT
  <2>3. maxBurstSize + 1 = 101 /\ maxJPayloadSize = 8972
    BY ONLY SMT DEF maxBurstSize, maxJPayloadSize, maxJL3Packet, l3Overhead
  <2> HIDE DEF r
  <2>4. /\ r.UDPPayload1 \in 0..maxJPayloadSize /\ r.UDPPayload2 \in 0..maxJPayloadSize
        /\ r.UDPAddon2 \in 0..maxJPayloadSize
    <3>1. \A v, top \in Int : 0 <= v /\ v <= top => v \in 0..top
      BY ONLY SMT
    <3>2. maxJPayloadSize \in Int
      BY ONLY <2>3, SMT
    <3>3. \A v : Between(v, 0, 8972) => v \in Int /\ 0 <= v /\ v <= maxJPayloadSize
      BY ONLY <2>3, SMT DEF Between
    <3>4. /\ Between(r.UDPPayload1, 0, 8972) /\ Between(r.UDPPayload2, 0, 8972)
          /\ Between(r.UDPAddon2, 0, 8972)
      BY <2>2
    <3> HIDE DEF Between
    <3> QED
      BY ONLY <3>1, <3>2, <3>3, <3>4, SMT
  <2>5. /\ t1Active(r) \/ t2Active(r)
        /\ r.BurstSize1 <= maxBurstSize + 1
        /\ r.BurstSize2 + (IF r.UDPAddon2 > 0 THEN 1 ELSE 0) <= maxBurstSize + 1
    BY <2>2, <2>3, SMT
  <2>6. {r.UDPPayload1, r.UDPPayload2, r.UDPAddon2} \subseteq 0..maxJPayloadSize
    BY ONLY <2>4, Zenon
  <2> QED
    BY ONLY <2>5, <2>6, Zenon DEF RowsFitBuffers, r, n, jumbo, trad
<1> QED
  BY <1>1, InitAInv, StepAInv, PTL DEF Spec
=============================================================================
