------------------------------- MODULE Policing -------------------------------
(***************************************************************************)
(* What a session makes of a Test Activation Request: session.police, the  *)
(* values its response echoes and the rate search they parameterise        *)
(* (internal/udpst/session.go).  A request is a record of TestActPDU's     *)
(* fields; its session c has the protocol version c.pver, the server's     *)
(* MaxTestSeconds and c.marks, whether the kernel takes the traffic class. *)
(***************************************************************************)
EXTENDS Integers

CONSTANT Rows    \* len(table.Rows)

ASSUME RowsAssumption == Rows \in Nat /\ 1 <= Rows /\ Rows < 65535

ProtocolVer == 20
srIndexAuto == 65535

\* Conversions to uint8 and uint16 are modulo these.
width8 == 256
width16 == 65536

uint8 == {n \in Nat : n < width8}
uint16 == {n \in Nat : n < width16}

TestAct ==
    [LowThresh : uint16, UpperThresh : uint16, TrialInt : uint16,
     TestIntTime : uint16, LegacySubIntSec : uint8, DSCPECN : uint8,
     SRIndexConf : uint16, UseOwDelVar : uint8, HighSpeedDelta : uint8,
     SlowAdjThresh : uint16, SeqErrThresh : uint16, IgnoreOooDup : uint8,
     startIndex : BOOLEAN, RateAdjAlgo : uint8, ECNCEThresh : uint8,
     SubIntPeriod : uint16, SRAdjSuppCount : uint16]

\* What marshal and parseTestAct carry of a PDU: the short form of the older
\* versions ends before the suppression count, and is answered in kind.
Carried(pdu, short) == IF short THEN [pdu EXCEPT !.SRAdjSuppCount = 0] ELSE pdu

Within(v, lo, hi, default) == IF v < lo \/ v > hi THEN default ELSE v
AtMost(v, cap) == IF v > cap THEN cap ELSE v
AtLeastOne(v, default) == IF v < 1 THEN default ELSE v

low(req) == Within(req.LowThresh, 1, 10000, 30)
upper(req) == Within(req.UpperThresh, 1, 10000, 90)

\* Fault: each threshold is checked by itself only.
Crossed_Never(req) == FALSE

Crossed(req) == low(req) > upper(req)

dur(req, c) ==
    AtMost(Within(req.TestIntTime, 5, 3600, 10),
           Within(c.MaxTestSeconds, 1, 3600, 3600))

subMs(req, c) ==
    AtMost(Within(IF c.pver >= ProtocolVer THEN req.SubIntPeriod
                  ELSE req.LegacySubIntSec * 1000, 100, 10000, 1000),
           dur(req, c) * 1000)

\* Fault: the sub-intervals are counted with the period that was asked for.
Suppression_AskedPeriod(req, c) ==
    IF c.pver >= ProtocolVer /\ req.SRAdjSuppCount * req.SubIntPeriod < dur(req, c) * 1000
    THEN req.SRAdjSuppCount ELSE 0

Suppression(req, c) ==
    IF c.pver >= ProtocolVer /\ req.SRAdjSuppCount < (dur(req, c) * 1000) \div subMs(req, c)
    THEN req.SRAdjSuppCount ELSE 0

Index(req) ==
    IF req.SRIndexConf # srIndexAuto /\ req.SRIndexConf < Rows
    THEN req.SRIndexConf ELSE -1

police(req, c) ==
    [lowThresh |-> IF Crossed(req) THEN 30 ELSE low(req),
     upperThresh |-> IF Crossed(req) THEN 90 ELSE upper(req),
     trialInt |-> Within(req.TrialInt, 5, 250, 50),
     duration |-> dur(req, c),
     subInt |-> subMs(req, c),
     srIndexConf |-> Index(req),
     indexIsStart |-> req.startIndex,
     useOwDelVar |-> req.UseOwDelVar = 1,
     highSpeedDelta |-> AtLeastOne(req.HighSpeedDelta, 10),
     slowAdjThresh |-> AtLeastOne(req.SlowAdjThresh, 3),
     seqErrThresh |-> req.SeqErrThresh,
     ignoreOooDup |-> req.IgnoreOooDup # 0,
     algo |-> IF req.RateAdjAlgo > 1 THEN 0 ELSE req.RateAdjAlgo,
     ecnCEThresh |-> IF req.DSCPECN % 4 \in {1, 2} THEN req.ECNCEThresh ELSE 0,
     srAdjSupp |-> Suppression(req, c),
     dscpEcn |-> IF c.marks THEN req.DSCPECN ELSE 0]

boolByte(b) == IF b THEN 1 ELSE 0

\* Fault: the response repeats the period that was asked for.
EchoedSub_AsAsked(req, q, c) ==
    [SubIntPeriod |-> req.SubIntPeriod, LegacySubIntSec |-> req.LegacySubIntSec]

EchoedSub(req, q, c) ==
    IF c.pver >= ProtocolVer
    THEN [SubIntPeriod |-> q.subInt % width16, LegacySubIntSec |-> req.LegacySubIntSec]
    ELSE [SubIntPeriod |-> req.SubIntPeriod,
          LegacySubIntSec |-> (q.subInt \div 1000) % width8]

\* The response to req: the policed parameters q as the PDU's fields, with
\* their conversions.
Response(req, q, c) ==
    [LowThresh |-> q.lowThresh % width16, UpperThresh |-> q.upperThresh % width16,
     TrialInt |-> q.trialInt % width16, TestIntTime |-> q.duration % width16,
     LegacySubIntSec |-> EchoedSub(req, q, c).LegacySubIntSec,
     DSCPECN |-> q.dscpEcn,
     SRIndexConf |-> IF q.srIndexConf < 0 THEN srIndexAuto ELSE q.srIndexConf % width16,
     UseOwDelVar |-> boolByte(q.useOwDelVar),
     HighSpeedDelta |-> q.highSpeedDelta % width8,
     SlowAdjThresh |-> q.slowAdjThresh % width16,
     SeqErrThresh |-> q.seqErrThresh % width16,
     IgnoreOooDup |-> boolByte(q.ignoreOooDup),
     startIndex |-> req.startIndex,
     RateAdjAlgo |-> q.algo, ECNCEThresh |-> q.ecnCEThresh % width8,
     SubIntPeriod |-> EchoedSub(req, q, c).SubIntPeriod,
     SRAdjSuppCount |-> q.srAdjSupp]

\* session.initialIndex: the row a test starts at, which an upstream response
\* carries.
initialIndex(q) == IF q.srIndexConf >= 0 THEN q.srIndexConf ELSE 0

\* How a client reads the response (external): the test it will run.
Reading(resp, c) ==
    [lowThresh |-> resp.LowThresh, upperThresh |-> resp.UpperThresh,
     trialInt |-> resp.TrialInt, duration |-> resp.TestIntTime,
     subInt |-> IF c.pver >= ProtocolVer THEN resp.SubIntPeriod
                ELSE resp.LegacySubIntSec * 1000,
     srIndexConf |-> IF resp.SRIndexConf = srIndexAuto THEN -1 ELSE resp.SRIndexConf,
     indexIsStart |-> resp.startIndex, useOwDelVar |-> resp.UseOwDelVar = 1,
     highSpeedDelta |-> resp.HighSpeedDelta, slowAdjThresh |-> resp.SlowAdjThresh,
     seqErrThresh |-> resp.SeqErrThresh, ignoreOooDup |-> resp.IgnoreOooDup = 1,
     algo |-> resp.RateAdjAlgo, ecnCEThresh |-> resp.ECNCEThresh,
     srAdjSupp |-> resp.SRAdjSuppCount, dscpEcn |-> resp.DSCPECN]

\* newRateController's fields, as RateControl's ParamType has them.
SearchParams(q) ==
    [algo |-> IF q.algo = 1 THEN "C" ELSE "B", srIndexConf |-> q.srIndexConf,
     indexIsStart |-> q.indexIsStart, highSpeedDelta |-> q.highSpeedDelta,
     slowAdjThresh |-> q.slowAdjThresh, seqErrThresh |-> q.seqErrThresh,
     lowThresh |-> q.lowThresh, upperThresh |-> q.upperThresh,
     useOwDelVar |-> q.useOwDelVar, ignoreOooDup |-> q.ignoreOooDup,
     ecnCEThresh |-> q.ecnCEThresh, srAdjSupp |-> q.srAdjSupp]
=============================================================================
