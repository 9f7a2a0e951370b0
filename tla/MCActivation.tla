----------------------------- MODULE MCActivation -----------------------------
(* Activation on rows all along every rate table, and on requests at and     *)
(* beside the boundaries of what police accepts.                             *)
EXTENDS Activation

Plain == [LowThresh |-> 30, UpperThresh |-> 90, TrialInt |-> 50, TestIntTime |-> 10,
          LegacySubIntSec |-> 1, DSCPECN |-> 0, SRIndexConf |-> srIndexAuto,
          UseOwDelVar |-> 0, HighSpeedDelta |-> 10, SlowAdjThresh |-> 3,
          SeqErrThresh |-> 10, IgnoreOooDup |-> 1, startIndex |-> FALSE,
          RateAdjAlgo |-> 0, ECNCEThresh |-> 0, SubIntPeriod |-> 1000,
          SRAdjSuppCount |-> 0]

Of(r) == [req |-> r, upstream |-> TRUE, jumbo |-> TRUE, trad |-> FALSE,
          pver |-> 20, MaxTestSeconds |-> 0, marks |-> TRUE, short |-> FALSE,
          tries |-> 1]

\* Three rows of every ten, the ends of the table and the first index without
\* a row.
SampledRows == {n \in 0..maxSendingRates : n % 10 \in {0, 1, 9}}
               \cup maxSendingRates - 3..maxSendingRates
RowScenarios ==
    {[Of([Plain EXCEPT !.SRIndexConf = n]) EXCEPT !.jumbo = j, !.trad = t]
        : n \in SampledRows, j, t \in BOOLEAN}

Thresholds ==
    {Of([Plain EXCEPT !.LowThresh = l, !.UpperThresh = u])
        : l, u \in {0, 1, 29, 31, 90, 91, 10000, 10001}}

Times ==
    {[Of([Plain EXCEPT !.TestIntTime = d, !.SubIntPeriod = i, !.LegacySubIntSec = l,
                       !.SRAdjSuppCount = n])
        EXCEPT !.pver = v, !.MaxTestSeconds = m, !.short = b]
        : d \in {4, 5, 3600, 3601}, i \in {99, 100, 10000, 10001}, l \in {0, 10, 11},
          n \in {0, 1, 9, 10}, v \in {11, 20}, m \in {0, 3}, b \in BOOLEAN}

Marks ==
    {[Of([Plain EXCEPT !.DSCPECN = d, !.ECNCEThresh = e]) EXCEPT !.marks = m]
        : d \in {0, 1, 2, 3, 184}, e \in {0, 1, 255}, m \in BOOLEAN}

Tuning ==
    {Of([Plain EXCEPT !.HighSpeedDelta = h, !.SlowAdjThresh = a, !.RateAdjAlgo = g,
                      !.UseOwDelVar = w, !.IgnoreOooDup = w, !.TrialInt = t])
        : h \in {0, 1, 255}, a \in {0, 1, 65535}, g \in {0, 1, 2}, w \in {0, 1, 2},
          t \in {4, 5, 250, 251}}

\* Sessions whose client repeats its request.
Repeating == {[Of(Plain) EXCEPT !.tries = 3, !.upstream = u] : u \in BOOLEAN}

MCScenarios ==
    RowScenarios \cup Thresholds \cup Times \cup Marks \cup Tuning \cup Repeating
=============================================================================
