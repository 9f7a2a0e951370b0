------------------------- MODULE UdpstServerProofs --------------------------
(* Proofs about the TR-471 server, for every value of its constants: types, *)
(* reservations, sockets and which requests become sessions.                *)
EXTENDS UdpstServer, FiniteSetTheorems, TLAPS

USE DEF Dir

\* What the checks read of a request is typed.
LEMMA RequestFields ==
    ASSUME NEW r \in SetupPDU
    PROVE  /\ Direction(r) \in Dir
           /\ Mbps(r) \in Nat
           /\ BeforeReserve(r) \in Codes
           /\ AfterReserve(r) \in Codes
<1>1. Direction(r) \in Dir
  BY DEF Direction
<1>2. Mbps(r) \in Nat
  BY DEF Mbps, SetupPDU, bwUpstreamBit
<1>3. BeforeReserve(r) \in Codes
  BY Zenon DEF BeforeReserve, Codes, AuthCodes
<1>4. AfterReserve(r) \in Codes
  BY Zenon DEF AfterReserve, Codes, AuthCodes
<1> QED
  BY <1>1, <1>2, <1>3, <1>4, Zenon

\* The request before the first one is typed.
LEMMA ZeroPDUType == ZeroPDU \in SetupPDU
BY DEF ZeroPDU, SetupPDU

-----------------------------------------------------------------------------
(* Type correctness                                                        *)

\* newSessionSocket asks for ports of the range, or for ephemeral ones.
LEMMA AskedPortsType ==
    ASSUME nextPort \in Nat, probe \in Nat, nextPort >= TestPortMin
    PROVE  AskedPorts \subseteq Ports /\ Ports \subseteq Nat
<1>1. CASE ~HasPortRange
  BY <1>1, ServerAssumption, Zenon DEF AskedPorts, Ports
<1>2. CASE HasPortRange
  <2>1. Span \in Nat /\ Span > 0
    BY <1>2, ServerAssumption DEF Span, HasPortRange
  <2> DEFINE n == nextPort - TestPortMin + probe
  <2>2. n \in Nat
    BY ServerAssumption
  <2>3. n % Span \in 0..(Span - 1)
    BY <2>1, <2>2
  <2>4. ScanPort \in TestPortMin..TestPortMax
    BY <2>3, <1>2, ServerAssumption DEF ScanPort, Span, HasPortRange
  <2> QED
    BY <2>4, <1>2, ServerAssumption DEF AskedPorts, Ports
<1> QED
  BY <1>1, <1>2, Zenon

\* nextPort never falls below the range, and a running test has a direction.
RangeInv == nextPort >= TestPortMin
TestDirInv == \A s \in Sessions : spc[s] = "test" => testDir[s] \in Dir

TypeInv == TypeOK /\ RangeInv /\ TestDirInv

\* NewServer: the initial state is typed.
LEMMA InitTypeInv == Init => TypeInv
<1> SUFFICES ASSUME Init PROVE TypeInv
  BY Zenon
<1>1. sess \in [Sessions -> [dir : Dir, mbw : Nat, port : Nat]]
  BY Zenon DEF Init, NoSession
<1>2. spc \in [Sessions -> SessionPC] /\ testDir \in [Sessions -> Dir \cup {"none"}]
  BY Zenon DEF Init, SessionPC
<1>3. used \in [Dir -> Int] /\ tests \in [Dir -> Nat]
  BY DEF Init
<1>4. closed \in BOOLEAN /\ listening \in BOOLEAN
  BY Zenon DEF Init
<1>5. req \in SetupPDU /\ code \in Codes /\ pc \in ControlPC
  BY ZeroPDUType, Zenon DEF Init, Codes, ControlPC
<1>6. nextPort \in Nat /\ nextPort >= TestPortMin
  BY ServerAssumption DEF Init
<1> QED
  BY <1>1, <1>2, <1>3, <1>4, <1>5, <1>6, Zenon DEF Init, TypeInv, TypeOK, RangeInv,
     TestDirInv

\* Every step keeps the types.
LEMMA StepTypeInv == TypeInv /\ [Next]_vars => TypeInv'
<1> SUFFICES ASSUME TypeInv, [Next]_vars PROVE TypeInv'
  BY Zenon
<1> USE DEF TypeInv, TypeOK, RangeInv, TestDirInv, resources, counters, locals, control,
            goroutines
<1>1. ASSUME NEW r \in Requests, RecvSetup(r) PROVE TypeInv'
  <2>1. r \in SetupPDU
    BY ServerAssumption, Zenon
  <2>2. code' \in Codes /\ pc' \in ControlPC
    BY <1>1, <2>1, RequestFields, Zenon DEF RecvSetup, ControlPC
  <2> QED
    BY <1>1, <2>1, <2>2, Zenon DEF RecvSetup
<1>2. CASE ReserveRefused
  BY <1>2, Zenon DEF ReserveRefused, ControlPC, Codes
<1>3. CASE ReserveGranted
  <2>1. code' \in Codes /\ pc' \in ControlPC
    BY <1>3, RequestFields, Zenon DEF ReserveGranted, ControlPC
  <2>2. used' \in [Dir -> Int] /\ mbw' \in Nat
    BY <1>3, RequestFields DEF ReserveGranted
  <2> QED
    BY <1>3, <2>1, <2>2, Zenon DEF ReserveGranted
<1>4. CASE SlotRefused
  BY <1>4, Zenon DEF SlotRefused, ControlPC, Codes
<1>5. CASE SlotTaken
  BY <1>5 DEF SlotTaken, ControlPC
<1>6. ASSUME NEW p \in AskedPorts, Bind(p) PROVE TypeInv'
  <2>0. p \in Ports /\ p \in Nat
    BY AskedPortsType, Zenon
  <2>1. p \in Nat /\ (HasPortRange => p >= TestPortMin)
    BY <2>0, ServerAssumption DEF Ports
  <2>2. nextPort' \in Nat /\ nextPort' >= TestPortMin
    BY <1>6, <2>1, ServerAssumption DEF Bind
  <2> QED
    BY <1>6, <2>1, <2>2, Zenon DEF Bind, ControlPC
<1>7. CASE BindFails
  <2>1. AskedPorts \subseteq Nat
    BY AskedPortsType, Zenon
  <2>2. probe' \in Nat /\ pc' \in ControlPC
    BY <1>7 DEF BindFails, ControlPC
  <2> QED
    BY <1>7, <2>1, <2>2, Zenon DEF BindFails
<1>8. CASE Unslot
  BY <1>8 DEF Unslot, ControlPC, Codes
<1>9. CASE ReleaseOnErr
  <2>1. used' \in [Dir -> Int]
    BY <1>9, RequestFields DEF ReleaseOnErr, ReleasedOnErr
  <2> QED
    BY <1>9, <2>1, Zenon DEF ReleaseOnErr, ControlPC
<1>10. CASE SendReject
  BY <1>10, ZeroPDUType DEF SendReject, ControlPC, Codes
<1>11. CASE SendAccept
  BY <1>11 DEF SendAccept, ControlPC
<1>12. ASSUME NEW s \in Sessions, Spawn(s) PROVE TypeInv'
  <2>1. sess' \in [Sessions -> [dir : Dir, mbw : Nat, port : Nat]]
    BY <1>12, RequestFields, Zenon DEF Spawn
  <2>2. spc' \in [Sessions -> SessionPC]
    BY <1>12, Zenon DEF Spawn, SessionPC
  <2> QED
    BY <1>12, <2>1, <2>2, ZeroPDUType DEF Spawn, AddToGroup, ControlPC
<1>13. CASE ServeReturns
  BY <1>13, Zenon DEF ServeReturns, ControlPC
<1>14. ASSUME NEW s \in Sessions, NEW d \in Dir, Activate(s, d) PROVE TypeInv'
  <2>1. spc' \in [Sessions -> SessionPC] /\ testDir' \in [Sessions -> Dir \cup {"none"}]
    BY <1>14, Zenon DEF Activate, SessionPC
  <2> QED
    BY <1>14, <2>1, Zenon DEF Activate
<1>15. ASSUME NEW s \in Sessions, ActivationTimeout(s) PROVE TypeInv'
  BY <1>15, Zenon DEF ActivationTimeout, SessionPC
<1>16. ASSUME NEW s \in Sessions, TestEnds(s) PROVE TypeInv'
  <2>1. tests' \in [Dir -> Nat] /\ spc' \in [Sessions -> SessionPC]
    BY <1>16 DEF TestEnds, SessionPC
  <2> QED
    BY <1>16, <2>1, Zenon DEF TestEnds
<1>17. ASSUME NEW s \in Sessions, CloseSocket(s) PROVE TypeInv'
  <2>1. spc' \in [Sessions -> SessionPC] /\ bound' \in SUBSET Nat
    BY <1>17, Zenon DEF CloseSocket, SessionPC
  <2> QED
    BY <1>17, <2>1, Zenon DEF CloseSocket
<1>18. ASSUME NEW s \in Sessions, ReleaseBandwidth(s) PROVE TypeInv'
  <2>1. used' \in [Dir -> Int] /\ spc' \in [Sessions -> SessionPC]
    BY <1>18 DEF ReleaseBandwidth, Released, SessionPC
  <2> QED
    BY <1>18, <2>1, Zenon DEF ReleaseBandwidth
<1>19. ASSUME NEW s \in Sessions, SessionDone(s) PROVE TypeInv'
  BY <1>19 DEF SessionDone, SessionPC
<1>20. ASSUME NEW s \in Sessions, WgDone(s) PROVE TypeInv'
  <2>1. sess' \in [Sessions -> [dir : Dir, mbw : Nat, port : Nat]]
    BY <1>20, Zenon DEF WgDone, NoSession
  <2>2. spc' \in [Sessions -> SessionPC] /\ testDir' \in [Sessions -> Dir \cup {"none"}]
    BY <1>20, Zenon DEF WgDone, SessionPC
  <2> QED
    BY <1>20, <2>1, <2>2 DEF WgDone, LeaveGroup
<1>21. CASE CloseFlag
  BY <1>21, Zenon DEF CloseFlag
<1>22. CASE CloseConn
  BY <1>22, Zenon DEF CloseConn
<1>23. CASE CloseReturns
  BY <1>23, Zenon DEF CloseReturns
<1>24. CASE UNCHANGED vars
  BY <1>24, Zenon DEF vars
<1> QED
  BY <1>1, <1>2, <1>3, <1>4, <1>5, <1>6, <1>7, <1>8, <1>9, <1>10, <1>11, <1>12,
     <1>13, <1>14, <1>15, <1>16, <1>17, <1>18, <1>19, <1>20, <1>21, <1>22,
     <1>23, <1>24, Zenon DEF Next, HandleSetup, Cleanup, Terminated

\* Every variable of the server keeps its type.
THEOREM TypeCorrect == Spec => []TypeOK
<1>1. Init => TypeInv
  BY InitTypeInv, Zenon
<1>2. TypeInv /\ [Next]_vars => TypeInv'
  BY StepTypeInv, Zenon
<1>3. TypeInv => TypeOK
  BY Zenon DEF TypeInv
<1> QED
  BY <1>1, <1>2, <1>3, PTL DEF Spec

-----------------------------------------------------------------------------
(* Bandwidth.  Lemmas on the units a set of sessions holds.                *)

\* The units of bandwidth held by a set of sessions are finitely many.
LEMMA UnitsFinite ==
    ASSUME NEW S \in SUBSET Sessions, NEW h
    PROVE  IsFiniteSet(Units(S, h)) /\ Cardinality(Units(S, h)) \in Nat
<1>1. IsFiniteSet(S)
  BY ServerAssumption, FS_Subset, Zenon
<1>2. IsFiniteSet(1..MaxBandwidthMbps)
  BY BudgetAssumption, FS_Interval
<1>3. IsFiniteSet(S \X (1..MaxBandwidthMbps))
  BY <1>1, <1>2, FS_Product, Zenon
<1>4. Units(S, h) \in SUBSET (S \X (1..MaxBandwidthMbps))
  BY Zenon DEF Units
<1> QED
  BY <1>3, <1>4, FS_Subset, FS_CardinalityType, Zenon

\* A session that joins adds as many units as Mbps were reserved for it.
LEMMA UnitsAdd ==
    ASSUME NEW S \in SUBSET Sessions, NEW s \in Sessions, s \notin S, NEW h,
           h[s].mbw \in 0..MaxBandwidthMbps
    PROVE  Cardinality(Units(S \cup {s}, h)) = Cardinality(Units(S, h)) + h[s].mbw
<1> DEFINE m == h[s].mbw
           J == 1..m
           own == {s} \X J
<1>1. Units(S \cup {s}, h) = Units(S, h) \cup own
  BY BudgetAssumption DEF Units
<1>2. Units(S, h) \cap own = {}
  BY Zenon DEF Units
<1>3. m \in Nat
  BY BudgetAssumption
<1>4. IsFiniteSet(J) /\ Cardinality(J) = m
  <2> HIDE DEF m
  <2>1. m \in Int /\ 1 \in Int
    BY <1>3
  <2>2. IsFiniteSet(1..m) /\ Cardinality(1..m) = IF 1 > m THEN 0 ELSE m - 1 + 1
    BY ONLY <2>1, FS_Interval, Zenon
  <2> QED
    BY <1>3, <2>2
<1>5. IsFiniteSet({s}) /\ Cardinality({s}) = 1
  BY FS_Singleton, Zenon
<1>6. IsFiniteSet(own) /\ Cardinality(own) = m
  <2> HIDE DEF J, m
  <2>1. IsFiniteSet({s} \X J)
        /\ Cardinality({s} \X J) = Cardinality({s}) * Cardinality(J)
    BY ONLY <1>4, <1>5, FS_Product, Zenon
  <2> QED
    BY <1>3, <1>4, <1>5, <2>1
<1>7. IsFiniteSet(Units(S, h)) /\ Cardinality(Units(S, h)) \in Nat
  BY UnitsFinite, Zenon
<1> HIDE DEF own, m
<1>8. Cardinality(Units(S, h) \cup own)
        = Cardinality(Units(S, h)) + Cardinality(own)
          - Cardinality(Units(S, h) \cap own)
  BY ONLY <1>6, <1>7, FS_Union, Zenon
<1>9. Cardinality(Units(S, h) \cap own) = 0
  BY <1>2, FS_EmptySet, Zenon
<1>10. Cardinality(Units(S, h) \cup own) = Cardinality(Units(S, h)) + m
  BY <1>3, <1>6, <1>7, <1>8, <1>9
<1> QED
  BY <1>1, <1>10, Zenon DEF m

\* Units depend on the reservations only.
LEMMA UnitsSame ==
    ASSUME NEW S, NEW h, NEW g, \A s \in S : h[s].mbw = g[s].mbw
    PROVE  Units(S, h) = Units(S, g)
BY Zenon DEF Units

\* What is reserved in a direction is a natural number.
LEMMA ReservedNat == \A d \in Dir : Reserved(d) \in Nat
BY UnitsFinite, Zenon DEF Reserved, Holders

(***************************************************************************)
(* BandwidthLedger alone is not inductive: that a reservation fits in the  *)
(* budget is what lets it be counted in units, and that the control        *)
(* goroutine holds nothing outside handleSetup's reserved part is what     *)
(* lets it overwrite req.                                                  *)
(***************************************************************************)
LedgerInv ==
    /\ BandwidthLedger
    /\ \A d \in Dir : used[d] <= MaxBandwidthMbps
    /\ mbw <= MaxBandwidthMbps
    /\ \A s \in Sessions : sess[s].mbw <= MaxBandwidthMbps
    /\ pc \in {"recv", "reserve", "reject", "stopped"} => mbw = 0

\* NewServer: nothing reserved, nothing used.
LEMMA InitLedgerInv == Init => LedgerInv
<1> SUFFICES ASSUME Init PROVE LedgerInv
  OBVIOUS
<1>1. ASSUME NEW d \in Dir PROVE Reserved(d) = 0
  <2>1. Holders(d) = {}
    BY Zenon DEF Init, Holders, HoldsBandwidth
  <2>2. Units({}, sess) = {}
    BY Zenon DEF Units
  <2> QED
    BY <2>1, <2>2, FS_EmptySet, Zenon DEF Reserved
<1> QED
  BY <1>1, BudgetAssumption DEF Init, LedgerInv, BandwidthLedger, Pending, NoSession

\* Every step moves a reservation between its holders and changes used only with
\* it.
LEMMA StepLedgerInv == TypeInv /\ LedgerInv /\ [Next]_vars => LedgerInv'
<1> SUFFICES ASSUME TypeInv, LedgerInv, [Next]_vars PROVE LedgerInv'
  BY Zenon
<1>a. /\ used \in [Dir -> Int] /\ mbw \in Nat /\ req \in SetupPDU
      /\ sess \in [Sessions -> [dir : Dir, mbw : Nat, port : Nat]]
      /\ spc \in [Sessions -> SessionPC]
  BY Zenon DEF TypeInv, TypeOK
<1>b. \A d \in Dir : Reserved(d) \in Nat
  BY ReservedNat, Zenon
<1>c. Direction(req) \in Dir /\ Mbps(req) \in Nat
  BY <1>a, RequestFields, Zenon
<1> USE DEF LedgerInv, BandwidthLedger, Pending
<1>d. ASSUME spc' = spc, sess' = sess
      PROVE  \A d \in Dir : Reserved(d)' = Reserved(d)
  BY <1>d, Zenon DEF Reserved, Holders, HoldsBandwidth
\* Session steps that keep the reservation.
<1>e. ASSUME NEW s \in Sessions, HoldsBandwidth(s), HoldsBandwidth(s)',
             sess' = sess, \A t \in Sessions \ {s} : spc'[t] = spc[t]
      PROVE  \A d \in Dir : Reserved(d)' = Reserved(d)
  <2>1. \A d \in Dir : Holders(d)' = Holders(d)
    BY <1>e, Zenon DEF Holders, HoldsBandwidth
  <2> QED
    BY <1>e, <2>1, Zenon DEF Reserved
\* Session steps that no longer hold one.
<1>f. ASSUME NEW s \in Sessions, ~HoldsBandwidth(s), ~HoldsBandwidth(s)',
             \A t \in Sessions \ {s} : spc'[t] = spc[t] /\ sess'[t] = sess[t]
      PROVE  \A d \in Dir : Reserved(d)' = Reserved(d)
  <2> TAKE d \in Dir
  <2>1. Holders(d)' = Holders(d)
    BY <1>f, Zenon DEF Holders, HoldsBandwidth
  <2>2. \A t \in Holders(d) : sess'[t].mbw = sess[t].mbw
    BY <1>f, Zenon DEF Holders
  <2>3. Units(Holders(d), sess') = Units(Holders(d), sess)
    BY <2>2, UnitsSame, Zenon
  <2> QED
    BY <2>1, <2>3, Zenon DEF Reserved
\* A session stops holding its reservation.
<1>g. ASSUME NEW s \in Sessions, HoldsBandwidth(s), ~HoldsBandwidth(s)',
             sess' = sess, \A t \in Sessions \ {s} : spc'[t] = spc[t]
      PROVE  \A d \in Dir : Reserved(d)' =
                 Reserved(d) - (IF d = sess[s].dir THEN sess[s].mbw ELSE 0)
  <2> TAKE d \in Dir
  <2>1. CASE d = sess[s].dir
    <3>1. Holders(d) = Holders(d)' \cup {s} /\ s \notin Holders(d)'
      BY <1>g, <2>1, Zenon DEF Holders, HoldsBandwidth
    <3>2. Holders(d)' \in SUBSET Sessions
      BY Zenon DEF Holders
    <3>3. sess[s].mbw \in 0..MaxBandwidthMbps
      BY <1>a, BudgetAssumption
    <3>4. Cardinality(Units(Holders(d)' \cup {s}, sess))
            = Cardinality(Units(Holders(d)', sess)) + sess[s].mbw
      BY <3>1, <3>2, <3>3, UnitsAdd, Zenon
    <3>5. Cardinality(Units(Holders(d)', sess)) \in Nat
      BY <3>2, UnitsFinite, Zenon
    <3> QED
      BY <1>g, <2>1, <3>1, <3>3, <3>4, <3>5 DEF Reserved
  <2>2. CASE d # sess[s].dir
    <3>1. Holders(d)' = Holders(d)
      BY <1>g, <2>2, Zenon DEF Holders, HoldsBandwidth
    <3> QED
      BY <1>g, <1>b, <2>2, <3>1 DEF Reserved
  <2> QED
    BY <2>1, <2>2, Zenon
<1> USE DEF resources, counters, locals, control, goroutines
<1>1. ASSUME NEW r \in Requests, RecvSetup(r) PROVE LedgerInv'
  BY <1>1, <1>a, <1>b, <1>d, BudgetAssumption, Zenon DEF RecvSetup
<1>2. CASE ReserveRefused
  BY <1>2, <1>a, <1>b, <1>d, Zenon DEF ReserveRefused
<1>3. CASE ReserveGranted
  BY <1>3, <1>a, <1>b, <1>c, <1>d, BudgetAssumption DEF ReserveGranted, BandwidthFits
<1>4. CASE SlotRefused
  BY <1>4, <1>a, <1>b, <1>d, Zenon DEF SlotRefused
<1>5. CASE SlotTaken
  BY <1>5, <1>a, <1>b, <1>d, Zenon DEF SlotTaken
<1>6. ASSUME NEW p \in AskedPorts, Bind(p) PROVE LedgerInv'
  BY <1>6, <1>a, <1>b, <1>d, Zenon DEF Bind
<1>7. CASE BindFails
  BY <1>7, <1>a, <1>b, <1>d, Zenon DEF BindFails
<1>8. CASE Unslot
  BY <1>8, <1>a, <1>b, <1>d, Zenon DEF Unslot
<1>9. CASE ReleaseOnErr
  BY <1>9, <1>a, <1>b, <1>c, <1>d, BudgetAssumption DEF ReleaseOnErr, ReleasedOnErr
<1>10. CASE SendReject
  BY <1>10, <1>a, <1>b, <1>d, Zenon DEF SendReject
<1>11. CASE SendAccept
  BY <1>11, <1>a, <1>b, <1>d, Zenon DEF SendAccept
<1>12. ASSUME NEW s \in Sessions, Spawn(s) PROVE LedgerInv'
  <2>1. spc[s] = "free" /\ spc' = [spc EXCEPT ![s] = "await"]
        /\ sess' = [sess EXCEPT ![s] = [dir |-> Direction(req), mbw |-> mbw,
                                        port |-> port]]
        /\ mbw' = 0 /\ used' = used /\ pc' = "recv"
    BY <1>12, Zenon DEF Spawn
  <2>2. sess'[s].dir = Direction(req) /\ sess'[s].mbw = mbw
    BY <1>a, <2>1, Zenon
  <2>3. mbw \in 0..MaxBandwidthMbps
    BY <1>a, BudgetAssumption
  <2>4. ASSUME NEW d \in Dir
        PROVE  Reserved(d)' = Reserved(d) + Pending(d)
    <3>1. Holders(d) \in SUBSET Sessions /\ s \notin Holders(d)
      BY <2>1, Zenon DEF Holders, HoldsBandwidth
    <3>2. \A t \in Holders(d) : sess'[t].mbw = sess[t].mbw
      BY <1>a, <2>1, <3>1, Zenon
    <3>3. Units(Holders(d), sess') = Units(Holders(d), sess)
      BY <3>2, UnitsSame
    <3>4. CASE d = Direction(req)
      <4>1. Holders(d)' = Holders(d) \cup {s}
        BY <1>a, <2>1, <2>2, <3>4, Zenon DEF Holders, HoldsBandwidth
      <4>2. sess'[s].mbw \in 0..MaxBandwidthMbps
        BY <2>2, <2>3, Zenon
      <4>3. Cardinality(Units(Holders(d) \cup {s}, sess'))
              = Cardinality(Units(Holders(d), sess')) + sess'[s].mbw
        BY <3>1, <4>2, UnitsAdd, Zenon
      <4> QED
        BY <2>2, <3>3, <3>4, <4>1, <4>3, Zenon DEF Reserved
    <3>5. CASE d # Direction(req)
      <4>1. Holders(d)' = Holders(d)
        BY <1>a, <2>1, <2>2, <3>5, Zenon DEF Holders, HoldsBandwidth
      <4> QED
        BY <1>b, <3>3, <3>5, <4>1 DEF Reserved
    <3> QED
      BY <3>4, <3>5, Zenon
  <2>5. \A t \in Sessions : sess'[t].mbw <= MaxBandwidthMbps
    BY <1>a, <2>1, <2>2, <2>3, Zenon
  <2> QED
    BY <1>a, <1>b, <2>1, <2>4, <2>5, BudgetAssumption
<1>13. CASE ServeReturns
  BY <1>13, <1>a, <1>b, <1>d, Zenon DEF ServeReturns
<1>14. ASSUME NEW s \in Sessions, NEW d \in Dir, Activate(s, d) PROVE LedgerInv'
  BY <1>14, <1>a, <1>b, <1>e, Zenon DEF Activate, HoldsBandwidth
<1>15. ASSUME NEW s \in Sessions, ActivationTimeout(s) PROVE LedgerInv'
  BY <1>15, <1>a, <1>b, <1>e, Zenon DEF ActivationTimeout, HoldsBandwidth
<1>16. ASSUME NEW s \in Sessions, TestEnds(s) PROVE LedgerInv'
  BY <1>16, <1>a, <1>b, <1>e, Zenon DEF TestEnds, HoldsBandwidth
<1>17. ASSUME NEW s \in Sessions, CloseSocket(s) PROVE LedgerInv'
  <2>1. CASE sess[s].mbw > 0
    BY <1>17, <2>1, <1>a, <1>b, <1>e, Zenon DEF CloseSocket, HoldsBandwidth
  <2>2. CASE ~(sess[s].mbw > 0)
    <3>1. \A d \in Dir : Reserved(d)' = Reserved(d)
      BY <1>17, <2>2, <1>a, <1>b, <1>g DEF CloseSocket, HoldsBandwidth
    <3> QED
      BY <1>17, <3>1, Zenon DEF CloseSocket
  <2> QED
    BY <2>1, <2>2, Zenon
<1>18. ASSUME NEW s \in Sessions, ReleaseBandwidth(s) PROVE LedgerInv'
  <2>1. \A d \in Dir : Reserved(d)' =
            Reserved(d) - (IF d = sess[s].dir THEN sess[s].mbw ELSE 0)
    BY <1>18, <1>a, <1>g, Zenon DEF ReleaseBandwidth, HoldsBandwidth
  <2>2. sess[s].dir \in Dir /\ sess[s].mbw \in Nat
    BY <1>a, Zenon
  <2>3. \A d \in Dir : used'[d] =
            used[d] - (IF d = sess[s].dir THEN sess[s].mbw ELSE 0)
    BY <1>18, <1>a, <2>2 DEF ReleaseBandwidth, Released
  <2> QED
    BY <1>18, <1>a, <1>b, <2>1, <2>2, <2>3, BudgetAssumption DEF ReleaseBandwidth
<1>19. ASSUME NEW s \in Sessions, SessionDone(s) PROVE LedgerInv'
  BY <1>19, <1>a, <1>b, <1>f, Zenon DEF SessionDone, HoldsBandwidth
<1>20. ASSUME NEW s \in Sessions, WgDone(s) PROVE LedgerInv'
  <2>1. \A d \in Dir : Reserved(d)' = Reserved(d)
    BY <1>20, <1>a, <1>f, Zenon DEF WgDone, HoldsBandwidth
  <2>2. \A t \in Sessions : sess'[t].mbw <= MaxBandwidthMbps
    BY <1>20, <1>a, BudgetAssumption DEF WgDone, NoSession
  <2> QED
    BY <1>20, <2>1, <2>2, Zenon DEF WgDone
<1>21. CASE CloseFlag
  BY <1>21, <1>d, Zenon DEF CloseFlag
<1>22. CASE CloseConn
  BY <1>22, <1>d, Zenon DEF CloseConn
<1>23. CASE CloseReturns
  BY <1>23, <1>d, Zenon DEF CloseReturns
<1>24. CASE UNCHANGED vars
  BY <1>24, <1>d, Zenon DEF vars
<1> QED
  BY <1>1, <1>2, <1>3, <1>4, <1>5, <1>6, <1>7, <1>8, <1>9, <1>10, <1>11, <1>12,
     <1>13, <1>14, <1>15, <1>16, <1>17, <1>18, <1>19, <1>20, <1>21, <1>22,
     <1>23, <1>24, Zenon DEF Next, HandleSetup, Cleanup, Terminated

\* The usedUS and usedDS counters of reserveBandwidth and releaseBandwidth
\* always equal what the setup in progress and the sessions hold.
THEOREM BandwidthIsConserved == Spec => []BandwidthLedger
<1>1. Init => TypeInv /\ LedgerInv
  BY InitTypeInv, InitLedgerInv, Zenon
<1>2. TypeInv /\ LedgerInv /\ [Next]_vars => (TypeInv /\ LedgerInv)'
  BY StepTypeInv, StepLedgerInv, Zenon
<1>3. LedgerInv => BandwidthLedger
  BY Zenon DEF LedgerInv
<1> QED
  BY <1>1, <1>2, <1>3, PTL DEF Spec

\* Admission control: the accepted tests of a direction never add up to more
\* than Config.MaxBandwidthMbps.
THEOREM BudgetIsRespected == Spec => []AdmittedWithinBudget
<1>1. Init => TypeInv /\ LedgerInv
  BY InitTypeInv, InitLedgerInv
<1>2. TypeInv /\ LedgerInv /\ [Next]_vars => (TypeInv /\ LedgerInv)'
  BY StepTypeInv, StepLedgerInv
<1>3. TypeInv /\ LedgerInv => AdmittedWithinBudget
  BY ReservedNat, BudgetAssumption
     DEF TypeInv, TypeOK, LedgerInv, BandwidthLedger, Pending, AdmittedWithinBudget
<1> QED
  BY <1>1, <1>2, <1>3, PTL DEF Spec

HIDE DEF Dir

-----------------------------------------------------------------------------
(* Sockets, and which requests become sessions                             *)

HeldPorts == {sess[s].port : s \in {x \in Sessions : HoldsSocket(x)}}
PendingSocket == pc \in {"accept", "spawn"}

\* The socket handleSetup has bound and not yet handed over is nobody else's.
SocketInv ==
    /\ SocketOwnership
    /\ PendingSocket => \A s \in Sessions : HoldsSocket(s) => sess[s].port # port

\* NewServer: no test socket is open.
LEMMA InitSocketInv == Init => SocketInv
BY Zenon DEF Init, SocketInv, SocketOwnership, HoldsSocket, PendingSocket

\* Every step keeps each open socket with its one owner.
LEMMA StepSocketInv == TypeInv /\ SocketInv /\ [Next]_vars => SocketInv'
<1> SUFFICES ASSUME TypeInv, SocketInv, [Next]_vars PROVE SocketInv'
  OBVIOUS
<1>a. /\ spc \in [Sessions -> SessionPC]
      /\ sess \in [Sessions -> [dir : Dir, mbw : Nat, port : Nat]]
      /\ nextPort \in Nat /\ probe \in Nat /\ nextPort >= TestPortMin
  BY Zenon DEF TypeInv, TypeOK, RangeInv
<1> USE DEF SocketInv, SocketOwnership, PendingSocket
<1> USE DEF resources, counters, locals, control, goroutines
\* Steps that move no socket.
<1>d. ASSUME bound' = bound, port' = port, PendingSocket' = PendingSocket,
             \A s \in Sessions : /\ HoldsSocket(s)' = HoldsSocket(s)
                                 /\ HoldsSocket(s) => sess'[s] = sess[s]
      PROVE  SocketInv'
  <2>1. {x \in Sessions : HoldsSocket(x)}' = {x \in Sessions : HoldsSocket(x)}
    BY <1>d, Zenon
  <2>2. HeldPorts' = HeldPorts
    BY <1>d, <2>1, Zenon DEF HeldPorts
  <2> QED
    BY <1>d, <2>2, Zenon DEF HeldPorts, Ports
<1>1. ASSUME NEW r \in Requests, RecvSetup(r) PROVE SocketInv'
  BY <1>1, <1>d, Zenon DEF RecvSetup, HoldsSocket
<1>2. CASE ReserveRefused \/ ReserveGranted \/ SlotRefused \/ SlotTaken
  BY <1>2, <1>d, Zenon DEF ReserveRefused, ReserveGranted, SlotRefused, SlotTaken,
     HoldsSocket
<1>3. ASSUME NEW p \in AskedPorts, Bind(p) PROVE SocketInv'
  <2>1. p \in Ports /\ p \notin bound
    BY <1>3, <1>a, AskedPortsType, Zenon DEF Bind
  <2>2. /\ spc' = spc /\ sess' = sess /\ port' = p /\ pc = "bind" /\ pc' = "accept"
        /\ bound' = bound \cup {p}
    BY <1>3, Zenon DEF Bind
  <2>3. bound = HeldPorts
    BY <2>2, Zenon DEF HeldPorts
  <2>4. \A s \in Sessions : HoldsSocket(s) => sess[s].port \in bound
    BY <2>3, Zenon DEF HeldPorts
  <2>5. HeldPorts' = HeldPorts
    BY <2>2, Zenon DEF HeldPorts, HoldsSocket
  <2> QED
    BY <2>1, <2>2, <2>3, <2>4, <2>5, Zenon DEF HeldPorts, HoldsSocket, Ports
<1>4. CASE BindFails \/ Unslot \/ ReleaseOnErr \/ SendReject \/ SendAccept
  BY <1>4, <1>d, Zenon DEF BindFails, Unslot, ReleaseOnErr, SendReject, SendAccept,
     HoldsSocket
<1>5. ASSUME NEW s \in Sessions, Spawn(s) PROVE SocketInv'
  <2>1. /\ spc[s] = "free" /\ spc' = [spc EXCEPT ![s] = "await"]
        /\ sess'[s].port = port /\ \A t \in Sessions \ {s} : sess'[t] = sess[t]
        /\ pc = "spawn" /\ pc' = "recv" /\ bound' = bound
    BY <1>5, <1>a, Zenon DEF Spawn
  <2>2. /\ HoldsSocket(s)' /\ ~HoldsSocket(s)
        /\ \A t \in Sessions \ {s} : HoldsSocket(t)' = HoldsSocket(t)
    BY <1>a, <2>1, Zenon DEF HoldsSocket
  <2>3. HeldPorts' = HeldPorts \cup {port}
    BY <2>1, <2>2, SMTT(30) DEF HeldPorts
  <2>4. bound' = HeldPorts'
    BY <2>1, <2>3, Zenon DEF HeldPorts
  <2> QED
    BY <2>1, <2>2, <2>4, Zenon DEF HeldPorts, Ports
<1>6. CASE ServeReturns
  BY <1>6, <1>d, Zenon DEF ServeReturns, HoldsSocket
<1>7. ASSUME NEW s \in Sessions, NEW d \in Dir, Activate(s, d) PROVE SocketInv'
  BY <1>7, <1>a, <1>d, SMTT(30) DEF Activate, HoldsSocket
<1>8. ASSUME NEW s \in Sessions, ActivationTimeout(s) \/ TestEnds(s) PROVE SocketInv'
  <2>1. /\ bound' = bound /\ port' = port /\ pc' = pc /\ sess' = sess
        /\ spc[s] \in {"await", "test"} /\ spc' = [spc EXCEPT ![s] = "close"]
    BY <1>8, Zenon DEF ActivationTimeout, TestEnds
  <2>2. \A t \in Sessions : HoldsSocket(t)' = HoldsSocket(t)
    BY <1>a, <2>1 DEF HoldsSocket
  <2> QED
    BY <1>d, <2>1, <2>2, Zenon
<1>9. ASSUME NEW s \in Sessions, CloseSocket(s) PROVE SocketInv'
  <2>1. /\ spc[s] = "close" /\ sess' = sess /\ pc' = pc /\ port' = port
        /\ bound' = bound \ {sess[s].port}
    BY <1>9, Zenon DEF CloseSocket
  <2>2. /\ HoldsSocket(s) /\ ~HoldsSocket(s)'
        /\ \A t \in Sessions \ {s} : HoldsSocket(t)' = HoldsSocket(t)
    BY <1>9, <1>a, Zenon DEF CloseSocket, HoldsSocket
  <2>3. HeldPorts' = HeldPorts \ {sess[s].port}
    BY <2>1, <2>2, Zenon DEF HeldPorts
  <2>4. bound = HeldPorts \cup (IF PendingSocket THEN {port} ELSE {})
    BY Zenon DEF HeldPorts
  <2>5. PendingSocket => port # sess[s].port
    BY <2>2, Zenon
  <2>6. bound' = HeldPorts' \cup (IF PendingSocket THEN {port} ELSE {})
    BY <2>1, <2>3, <2>4, <2>5, Zenon
  <2> QED
    BY <2>1, <2>2, <2>6, Zenon DEF HeldPorts, Ports
<1>10. ASSUME NEW s \in Sessions, ReleaseBandwidth(s) \/ SessionDone(s) \/ WgDone(s)
       PROVE  SocketInv'
  <2>1. /\ bound' = bound /\ port' = port /\ pc' = pc
        /\ spc[s] \in {"release", "done", "exit"}
        /\ \E x \in {"done", "exit", "free"} : spc' = [spc EXCEPT ![s] = x]
    BY <1>10, Zenon DEF ReleaseBandwidth, SessionDone, WgDone
  <2>2. \A t \in Sessions \ {s} : sess'[t] = sess[t]
    BY <1>10, <1>a, Zenon DEF ReleaseBandwidth, SessionDone, WgDone
  <2>3. ~HoldsSocket(s) /\ \A t \in Sessions : HoldsSocket(t)' = HoldsSocket(t)
    BY <1>a, <2>1 DEF HoldsSocket
  <2> QED
    BY <1>d, <2>1, <2>2, <2>3, Zenon
<1>11. CASE CloseFlag \/ CloseConn \/ CloseReturns
  BY <1>11, <1>d, Zenon DEF CloseFlag, CloseConn, CloseReturns, HoldsSocket
<1>12. CASE UNCHANGED vars
  BY <1>12, <1>d, Zenon DEF vars, HoldsSocket
<1> QED
  BY <1>1, <1>2, <1>3, <1>4, <1>5, <1>6, <1>7, <1>8, <1>9, <1>10, <1>11, <1>12, Zenon
     DEF Next, HandleSetup, Cleanup, Terminated

\* newSessionSocket and session.run: no two sessions ever share a test socket,
\* every socket is in the configured range, and none outlives its session.
THEOREM SocketsAreOwned == Spec => []SocketOwnership
<1>1. Init => TypeInv /\ SocketInv
  BY InitTypeInv, InitSocketInv
<1>2. TypeInv /\ SocketInv /\ [Next]_vars => (TypeInv /\ SocketInv)'
  BY StepTypeInv, StepSocketInv
<1>3. SocketInv => SocketOwnership
  BY Zenon DEF SocketInv
<1> QED
  BY <1>1, <1>2, <1>3, PTL DEF Spec

-----------------------------------------------------------------------------
(* The port scan                                                           *)

\* The ports the first n probes of a scan that starts at nextPort ask for.
Scanned(n) ==
    {TestPortMin + ((nextPort - TestPortMin + j) % Span) : j \in 0..(n - 1)}

\* Span steps from anywhere in the range, wrapping at its end, meet every port.
LEMMA FullCycle ==
    ASSUME HasPortRange, nextPort \in TestPortMin..TestPortMax
    PROVE  Scanned(Span) = TestPortMin..TestPortMax
<1>1. Span \in Nat /\ Span > 0 /\ Span = TestPortMax - TestPortMin + 1
  BY ServerAssumption DEF Span, HasPortRange
<1>2. nextPort \in Int /\ TestPortMin \in Int /\ TestPortMax \in Int
  BY ServerAssumption
<1>3. ASSUME NEW j \in 0..(Span - 1)
      PROVE  TestPortMin + ((nextPort - TestPortMin + j) % Span)
                \in TestPortMin..TestPortMax
  <2>1. (nextPort - TestPortMin + j) % Span \in 0..(Span - 1)
    BY <1>1, <1>2, <1>3
  <2> QED
    BY <1>1, <1>2, <2>1
<1>4. ASSUME NEW p \in TestPortMin..TestPortMax
      PROVE  \E j \in 0..(Span - 1) :
                p = TestPortMin + ((nextPort - TestPortMin + j) % Span)
  <2> DEFINE q == p - TestPortMin
  <2>1. q \in 0..(Span - 1)
    BY <1>1, <1>2
  <2>2. q % Span = q /\ (q + Span) % Span = q
    <3> HIDE DEF q
    <3> QED
      BY <1>1, <2>1
  <2>3. CASE p >= nextPort
    <3>1. p - nextPort \in 0..(Span - 1)
      BY <1>1, <1>2, <2>3
    <3>2. nextPort - TestPortMin + (p - nextPort) = q
      BY <1>2
    <3> QED
      BY <1>2, <2>2, <3>1, <3>2
  <2>4. CASE ~(p >= nextPort)
    <3>1. p - nextPort + Span \in 0..(Span - 1)
      BY <1>1, <1>2, <2>4
    <3>2. nextPort - TestPortMin + (p - nextPort + Span) = q + Span
      BY <1>1, <1>2
    <3> QED
      BY <1>2, <2>2, <3>1, <3>2
  <2> QED
    BY <2>3, <2>4, Zenon
<1> QED
  BY <1>3, <1>4, Zenon DEF Scanned

(***************************************************************************)
(* Inside the scan the ports tried are those of the probes made so far;    *)
(* outside it there are none.                                              *)
(***************************************************************************)
ScanInv ==
    /\ HasPortRange => nextPort \in TestPortMin..TestPortMax
    /\ pc = "bind" => /\ HasPortRange => probe \in 0..(Span - 1) /\ tried = Scanned(probe)
                      /\ ~HasPortRange => tried = {}
    /\ pc # "bind" => probe = 0
    /\ pc \notin {"bind", "unslot"} => tried = {}
    /\ ScanIsExhaustive

\* No scan has begun.
LEMMA InitScanInv == Init => ScanInv
BY ServerAssumption DEF Init, ScanInv, ScanIsExhaustive, HasPortRange

\* The ports tried are those at the offsets the scan has passed.
LEMMA StepScanInv == TypeInv /\ ScanInv /\ [Next]_vars => ScanInv'
<1> SUFFICES ASSUME TypeInv, ScanInv, [Next]_vars PROVE ScanInv'
  OBVIOUS
<1>a. nextPort \in Nat /\ probe \in Nat /\ nextPort >= TestPortMin
  BY Zenon DEF TypeInv, TypeOK, RangeInv
<1>b. HasPortRange => Span \in Nat /\ Span > 0 /\ Span = TestPortMax - TestPortMin + 1
  BY ServerAssumption DEF Span, HasPortRange
<1>c. Scanned(0) = {}
  BY DEF Scanned
<1> USE DEF ScanInv, ScanIsExhaustive
<1> USE DEF resources, counters, locals, control, goroutines
<1>d. ASSUME nextPort' = nextPort, probe' = probe, tried' = tried,
             pc' = pc \/ (pc \notin {"bind", "unslot"} /\ pc' \notin {"bind", "unslot"})
      PROVE  ScanInv'
  BY <1>d, Zenon DEF Scanned, Ports
<1>1. ASSUME NEW r \in Requests, RecvSetup(r) PROVE ScanInv'
  BY <1>1, <1>d, Zenon DEF RecvSetup
<1>2. CASE ReserveRefused \/ ReserveGranted \/ SlotRefused
  BY <1>2, <1>d, Zenon DEF ReserveRefused, ReserveGranted, SlotRefused
<1>3. CASE SlotTaken
  <2>1. /\ nextPort' = nextPort /\ probe' = probe /\ tried' = tried
        /\ pc = "slot" /\ pc' = "bind"
    BY <1>3, Zenon DEF SlotTaken
  <2>2. probe' = 0 /\ tried' = {}
    BY <2>1, Zenon
  <2>3. Scanned(probe)' = {}
    BY <2>2 DEF Scanned
  <2>4. HasPortRange => probe' \in 0..(Span - 1)
    BY <1>b, <2>2
  <2> QED
    BY <2>1, <2>2, <2>3, <2>4, Zenon
<1>4. ASSUME NEW p \in AskedPorts, Bind(p) PROVE ScanInv'
  <2>1. p \in Ports /\ p \in Nat
    BY <1>a, AskedPortsType, Zenon
  <2>2. HasPortRange => nextPort' \in TestPortMin..TestPortMax
    BY <1>4, <2>1, ServerAssumption DEF Bind, Ports, HasPortRange
  <2> QED
    BY <1>4, <2>2, Zenon DEF Bind
<1>5. CASE BindFails
  <2>1. nextPort' = nextPort /\ tried' = tried \cup AskedPorts /\ pc = "bind"
    BY <1>5, Zenon DEF BindFails
  <2>2. CASE HasPortRange
    <3>1. Scanned(probe + 1) = Scanned(probe) \cup {ScanPort}
      <4>1. 0..probe = (0..(probe - 1)) \cup {probe}
        BY <1>a
      <4> QED
        BY <1>a, <4>1 DEF Scanned, ScanPort
    <3>2. tried' = Scanned(probe + 1)
      BY <2>1, <2>2, <3>1, Zenon DEF AskedPorts
    <3>3. CASE probe + 1 < Span
      <4>1. probe' = probe + 1 /\ pc' = "bind"
        BY <1>5, <2>2, <3>3, Zenon DEF BindFails
      <4>2. Scanned(probe)' = Scanned(probe + 1)
        BY <2>1, <4>1, Zenon DEF Scanned
      <4> QED
        BY <1>a, <1>b, <2>1, <2>2, <3>2, <3>3, <4>1, <4>2
    <3>4. CASE ~(probe + 1 < Span)
      <4>1. probe' = 0 /\ pc' = "unslot"
        BY <1>5, <3>4, Zenon DEF BindFails
      <4>2. probe + 1 = Span
        BY <1>a, <1>b, <2>1, <2>2, <3>4
      <4>3. tried' = TestPortMin..TestPortMax
        BY <2>2, <3>2, <4>2, FullCycle, Zenon
      <4> QED
        BY <2>1, <2>2, <4>1, <4>3, Zenon DEF Ports
    <3> QED
      BY <3>3, <3>4, Zenon
  <2>3. CASE ~HasPortRange
    BY <1>5, <2>1, <2>3, Zenon DEF BindFails, AskedPorts, Ports
  <2> QED
    BY <2>2, <2>3, Zenon
<1>6. CASE Unslot
  <2>1. probe' = 0 /\ tried' = {} /\ pc' = "release" /\ nextPort' = nextPort
    BY <1>6, Zenon DEF Unslot
  <2> QED
    BY <2>1, Zenon
<1>7. CASE ReleaseOnErr \/ SendReject \/ SendAccept
  BY <1>7, <1>d, Zenon DEF ReleaseOnErr, SendReject, SendAccept
<1>8. ASSUME NEW s \in Sessions, Spawn(s) PROVE ScanInv'
  BY <1>8, <1>d, Zenon DEF Spawn
<1>9. CASE ServeReturns
  BY <1>9, <1>d, Zenon DEF ServeReturns
<1>10. ASSUME NEW s \in Sessions, NEW d \in Dir, Activate(s, d) PROVE ScanInv'
  BY <1>10, <1>d, Zenon DEF Activate
<1>11. ASSUME NEW s \in Sessions, ActivationTimeout(s) \/ TestEnds(s) \/ Cleanup(s)
       PROVE  ScanInv'
  BY <1>11, <1>d, Zenon DEF ActivationTimeout, TestEnds, Cleanup, CloseSocket,
     ReleaseBandwidth, SessionDone, WgDone
<1>12. CASE CloseFlag \/ CloseConn \/ CloseReturns
  BY <1>12, <1>d, Zenon DEF CloseFlag, CloseConn, CloseReturns
<1>13. CASE UNCHANGED vars
  BY <1>13, <1>d, Zenon DEF vars
<1> QED
  BY <1>1, <1>2, <1>3, <1>4, <1>5, <1>6, <1>7, <1>8, <1>9, <1>10, <1>11, <1>12,
     <1>13, Zenon DEF Next, HandleSetup, Terminated

\* newSessionSocket's rotating scan asks for every port of the range before it
\* gives up, whatever the range and wherever nextPort stands.
THEOREM ScanCoversRange == Spec => []ScanIsExhaustive
<1>1. Init => TypeInv /\ ScanInv
  BY InitTypeInv, InitScanInv
<1>2. TypeInv /\ ScanInv /\ [Next]_vars => (TypeInv /\ ScanInv)'
  BY StepTypeInv, StepScanInv
<1>3. ScanInv => ScanIsExhaustive
  BY Zenon DEF ScanInv
<1> QED
  BY <1>1, <1>2, <1>3, PTL DEF Spec

-----------------------------------------------------------------------------
(* Authentication                                                          *)

\* A request that passes both of handleSetup's checks is authenticated.
LEMMA ChecksAuthenticate ==
    ASSUME NEW r \in SetupPDU, BeforeReserve(r) = "ACKOK",
           AfterReserve(r) = "ACKOK", Keys # {}
    PROVE  Authenticated(r) /\ r.skew \in -authTimeWindow..authTimeWindow
<1>1. r.authMode \in Nat
  BY Zenon DEF SetupPDU
<1>2. r.authMode = authModeControl
  BY <1>1 DEF AfterReserve, authModeNone, authModeControl
<1> QED
  BY <1>2, Zenon DEF BeforeReserve

\* Where handleSetup is tells which of its checks the request has passed.
AuthInv ==
    /\ pc \in {"reserve", "slot", "bind", "accept", "spawn"} =>
          BeforeReserve(req) = "ACKOK"
    /\ pc \in {"slot", "bind", "accept", "spawn"} => AfterReserve(req) = "ACKOK"

\* Every step keeps what the checks established of the request in hand.
LEMMA StepAuthInv == TypeInv /\ AuthInv /\ [Next]_vars => AuthInv'
<1> SUFFICES ASSUME TypeInv, AuthInv, [Next]_vars PROVE AuthInv'
  OBVIOUS
<1> USE DEF AuthInv
<1> USE DEF resources, counters, locals, control, goroutines
<1>1. ASSUME NEW r \in Requests, RecvSetup(r) PROVE AuthInv'
  BY <1>1, BudgetAssumption DEF RecvSetup
<1>2. CASE ReserveRefused \/ ReserveGranted \/ SlotRefused \/ SlotTaken
  BY <1>2, Zenon DEF ReserveRefused, ReserveGranted, SlotRefused, SlotTaken
<1>3. ASSUME NEW p \in AskedPorts, Bind(p) PROVE AuthInv'
  BY <1>3, Zenon DEF Bind
<1>4. CASE BindFails \/ Unslot \/ ReleaseOnErr \/ SendReject \/ SendAccept
  BY <1>4, Zenon DEF BindFails, Unslot, ReleaseOnErr, SendReject, SendAccept
<1>5. ASSUME NEW s \in Sessions, Spawn(s) PROVE AuthInv'
  BY <1>5, Zenon DEF Spawn
<1>6. CASE ServeReturns
  BY <1>6, Zenon DEF ServeReturns
<1>7. ASSUME NEW s \in Sessions, NEW d \in Dir, Activate(s, d) PROVE AuthInv'
  BY <1>7, Zenon DEF Activate
<1>8. ASSUME NEW s \in Sessions, ActivationTimeout(s) \/ TestEnds(s) \/ Cleanup(s)
      PROVE  AuthInv'
  BY <1>8, Zenon DEF ActivationTimeout, TestEnds, Cleanup, CloseSocket,
     ReleaseBandwidth, SessionDone, WgDone
<1>9. CASE CloseFlag \/ CloseConn \/ CloseReturns
  BY <1>9, Zenon DEF CloseFlag, CloseConn, CloseReturns
<1>10. CASE UNCHANGED vars
  BY <1>10, Zenon DEF vars
<1> QED
  BY <1>1, <1>2, <1>3, <1>4, <1>5, <1>6, <1>7, <1>8, <1>9, <1>10, Zenon
     DEF Next, HandleSetup, Terminated

\* handleSetup looks at the authentication mode before and after it reserves
\* bandwidth; together the two make every session of a server with keys an
\* authenticated one.
THEOREM OnlyAuthenticatedSessions == Spec => []SessionsAreAuthenticated
<1>1. Init => TypeInv /\ AuthInv
  BY InitTypeInv, Zenon DEF Init, AuthInv
<1>2. TypeInv /\ AuthInv /\ [Next]_vars => (TypeInv /\ AuthInv)'
  BY StepTypeInv, StepAuthInv
<1>3. TypeInv /\ AuthInv => SessionsAreAuthenticated
  BY ChecksAuthenticate, Zenon DEF TypeInv, TypeOK, AuthInv, SessionsAreAuthenticated
<1> QED
  BY <1>1, <1>2, <1>3, PTL DEF Spec

-----------------------------------------------------------------------------
(***************************************************************************)
(* Progress.  That slots come back and that Close returns are liveness     *)
(* (OnlyTestsHoldOn and StopsWhenTold of Daemon); what they rest on is a   *)
(* safety property.  The steps handleSetup and a session still have to     *)
(* take are counted, the ports the scan has left to ask for among them.    *)
(***************************************************************************)
Probes == IF HasPortRange THEN Span ELSE 1
ProbesLeft == IF HasPortRange THEN Span - probe ELSE 1

SetupSteps ==
    CASE pc = "reserve" -> Probes + 6
      [] pc = "slot" -> Probes + 5
      [] pc = "bind" -> ProbesLeft + 4
      [] pc = "unslot" -> 3
      [] pc \in {"release", "accept"} -> 2
      [] pc \in {"reject", "spawn"} -> 1
      [] OTHER -> 0

StepsOf(c) ==
    CASE c = "await" -> 6
      [] c = "test" -> 5
      [] c = "close" -> 4
      [] c = "release" -> 3
      [] c = "done" -> 2
      [] c = "exit" -> 1
      [] OTHER -> 0

SessionStep(s) ==
    (\E d \in Dir : Activate(s, d)) \/ ActivationTimeout(s) \/ TestEnds(s) \/ Cleanup(s)

\* Every step of handleSetup leaves it fewer steps, so a port scan cannot hold
\* the control goroutine for ever; every step of session.run leaves the session
\* fewer, and no other session any more.  Once closed is set and no setup holds
\* a slot, none takes one again and no session has more to do than before: what
\* Close waits for can only shrink.
WindsDown ==
    /\ HandleSetup => SetupSteps' \in 0..(SetupSteps - 1)
    /\ \A s \in Sessions : SessionStep(s) =>
          /\ StepsOf(spc[s])' \in 0..(StepsOf(spc[s]) - 1)
          /\ \A t \in Sessions \ {s} : spc[t]' = spc[t]
    /\ closed /\ SlotPending = 0 =>
          /\ closed' /\ SlotPending' = 0
          /\ \A s \in Sessions : StepsOf(spc[s])' <= StepsOf(spc[s])

ServerWindsDown == [][WindsDown]_vars

\* Each of handleSetup's steps takes it nearer to its response.
LEMMA SetupStepsFall ==
    TypeInv /\ ScanInv /\ HandleSetup => SetupSteps' \in 0..(SetupSteps - 1)
<1> SUFFICES ASSUME TypeInv, ScanInv, HandleSetup
             PROVE  SetupSteps' \in 0..(SetupSteps - 1)
  BY Zenon
<1>1. Probes \in Nat /\ Probes > 0 /\ Probes' = Probes
  BY ServerAssumption DEF Probes, Span, HasPortRange
<1>2. pc = "bind" => ProbesLeft \in 1..Probes
  BY ServerAssumption DEF ScanInv, Probes, ProbesLeft, Span, HasPortRange
<1>3. probe \in Nat /\ (pc # "bind" => probe = 0)
  BY Zenon DEF TypeInv, TypeOK, ScanInv
<1>4. CASE ReserveRefused \/ ReserveGranted
  BY <1>1, <1>4 DEF SetupSteps, ReserveRefused, ReserveGranted
<1>5. CASE SlotRefused \/ SlotTaken
  <2>1. probe = 0 /\ pc = "slot"
    BY <1>3, <1>5, Zenon DEF SlotRefused, SlotTaken
  <2>2. pc' = "bind" => ProbesLeft' = Probes
    BY <1>5, <2>1, ServerAssumption
       DEF SlotRefused, SlotTaken, locals, Probes, ProbesLeft, Span, HasPortRange
  <2> QED
    BY <1>1, <1>5, <2>1, <2>2 DEF SetupSteps, SlotRefused, SlotTaken
<1>6. ASSUME NEW p \in AskedPorts, Bind(p) PROVE SetupSteps' \in 0..(SetupSteps - 1)
  BY <1>1, <1>2, <1>6 DEF SetupSteps, Bind
<1>7. CASE BindFails
  <2>1. pc = "bind" /\ pc' \in {"bind", "unslot"}
    BY <1>7, Zenon DEF BindFails
  <2>2. pc' = "bind" => ProbesLeft' = ProbesLeft - 1 /\ ProbesLeft' > 0
    BY <1>3, <1>7, ServerAssumption DEF BindFails, ProbesLeft, Span, HasPortRange
  <2> QED
    BY <1>1, <1>2, <2>1, <2>2 DEF SetupSteps
<1>8. CASE Unslot \/ ReleaseOnErr \/ SendReject \/ SendAccept
  BY <1>8 DEF SetupSteps, Unslot, ReleaseOnErr, SendReject, SendAccept
<1>9. ASSUME NEW s \in Sessions, Spawn(s) PROVE SetupSteps' \in 0..(SetupSteps - 1)
  BY <1>9 DEF SetupSteps, Spawn
<1> QED
  BY <1>4, <1>5, <1>6, <1>7, <1>8, <1>9, Zenon DEF HandleSetup

\* Each of session.run's steps takes it nearer to its end, and is its own.
LEMMA SessionStepsFall ==
    ASSUME TypeInv, NEW s \in Sessions, SessionStep(s)
    PROVE  /\ StepsOf(spc[s])' \in 0..(StepsOf(spc[s]) - 1)
           /\ \A t \in Sessions \ {s} : spc[t]' = spc[t]
<1>0. spc \in [Sessions -> SessionPC]
  BY Zenon DEF TypeInv, TypeOK
<1>1. PICK c \in SessionPC : /\ spc' = [spc EXCEPT ![s] = c]
                             /\ StepsOf(c) \in 0..(StepsOf(spc[s]) - 1)
  <2>1. ASSUME NEW d \in Dir, Activate(s, d)
        PROVE  spc[s] = "await" /\ spc' = [spc EXCEPT ![s] = "test"]
    BY <2>1, Zenon DEF Activate
  <2>2. CASE ActivationTimeout(s) \/ TestEnds(s)
    BY <2>2 DEF ActivationTimeout, TestEnds, StepsOf, SessionPC
  <2>3. CASE CloseSocket(s)
    <3>1. PICK c \in {"release", "done"} : spc' = [spc EXCEPT ![s] = c]
      BY <2>3, Zenon DEF CloseSocket
    <3>2. spc[s] = "close" /\ c \in SessionPC
      BY <2>3, Zenon DEF CloseSocket, SessionPC
    <3>3. StepsOf(c) \in 0..(StepsOf(spc[s]) - 1)
      BY <3>2 DEF StepsOf
    <3> QED
      BY <3>1, <3>2, <3>3, Zenon
  <2>4. CASE ReleaseBandwidth(s) \/ SessionDone(s) \/ WgDone(s)
    BY <2>4 DEF ReleaseBandwidth, SessionDone, WgDone, StepsOf, SessionPC
  <2>5. CASE \E d \in Dir : Activate(s, d)
    BY <2>1, <2>5 DEF StepsOf, SessionPC
  <2> QED
    BY <2>2, <2>3, <2>4, <2>5, Zenon DEF SessionStep, Cleanup
<1>2. spc[s]' = c /\ \A t \in Sessions \ {s} : spc[t]' = spc[t]
  BY <1>0, <1>1, Zenon
<1> QED
  BY <1>1, <1>2, Zenon DEF StepsOf

\* A closed server takes no slot it does not hold already, and spawns nothing.
LEMMA ClosedShrinks ==
    ASSUME TypeInv, [Next]_vars, closed, SlotPending = 0
    PROVE  /\ closed' /\ SlotPending' = 0
           /\ \A s \in Sessions : StepsOf(spc[s])' <= StepsOf(spc[s])
<1> USE DEF resources, counters, locals, control, goroutines
<1>0. \A s \in Sessions : StepsOf(spc[s]) \in Nat
  BY Zenon DEF StepsOf
<1>1. ASSUME spc' = spc PROVE \A s \in Sessions : StepsOf(spc[s])' <= StepsOf(spc[s])
  BY <1>0, <1>1 DEF StepsOf
<1>2. pc \notin {"bind", "unslot", "accept", "spawn"}
  BY DEF SlotPending
<1>3. ASSUME NEW r \in Requests, RecvSetup(r)
      PROVE  closed' /\ SlotPending' = 0 /\ spc' = spc
  BY <1>3, Zenon DEF RecvSetup, SlotPending
<1>4. CASE HandleSetup
  <2>1. CASE ReserveRefused \/ ReserveGranted \/ SlotRefused \/ ReleaseOnErr \/ SendReject
    <3>1. closed' /\ SlotPending' = 0 /\ spc' = spc
      BY <2>1, Zenon DEF ReserveRefused, ReserveGranted, SlotRefused, ReleaseOnErr,
         SendReject, SlotPending
    <3> QED
      BY <1>1, <3>1, Zenon
  <2> QED
    BY <1>2, <1>4, <2>1, Zenon DEF HandleSetup, SlotTaken, SlotAvailable, Bind, BindFails,
                            Unslot, SendAccept, Spawn
<1>5. CASE ServeReturns \/ CloseFlag \/ CloseConn \/ CloseReturns \/ UNCHANGED vars
  <2>1. closed' /\ SlotPending' = 0 /\ spc' = spc
    BY <1>5, Zenon DEF ServeReturns, CloseFlag, CloseConn, CloseReturns, vars, SlotPending
  <2> QED
    BY <1>1, <2>1
<1>6. ASSUME NEW s \in Sessions, SessionStep(s)
      PROVE  /\ closed' /\ SlotPending' = 0
             /\ \A t \in Sessions : StepsOf(spc[t])' <= StepsOf(spc[t])
  <2>1. closed' = closed /\ pc' = pc
    BY <1>6, Zenon DEF SessionStep, Activate, ActivationTimeout, TestEnds, Cleanup,
       CloseSocket, ReleaseBandwidth, SessionDone, WgDone
  <2>2. StepsOf(spc[s])' <= StepsOf(spc[s])
    BY <1>0, <1>6, SessionStepsFall
  <2>3. \A t \in Sessions \ {s} : StepsOf(spc[t])' <= StepsOf(spc[t])
    <3> SUFFICES ASSUME NEW t \in Sessions \ {s} PROVE StepsOf(spc[t])' <= StepsOf(spc[t])
      BY Zenon
    <3>1. spc[t]' = spc[t]
      BY <1>6, SessionStepsFall, Zenon
    <3>2. StepsOf(spc[t])' = StepsOf(spc[t])
      BY <3>1, Zenon DEF StepsOf
    <3> QED
      BY <1>0, <3>2
  <2> QED
    BY <2>1, <2>2, <2>3, Zenon DEF SlotPending
<1> QED
  BY <1>1, <1>3, <1>4, <1>5, <1>6, Zenon DEF Next, SessionStep, Terminated

\* What one step of the server does to the work that is left.
LEMMA StepWindsDown == TypeInv /\ ScanInv /\ [Next]_vars => WindsDown
BY SetupStepsFall, SessionStepsFall, ClosedShrinks, Zenon DEF WindsDown

\* What the return of the slots and of Close rests on, for any number of
\* sessions and any port range: handleSetup and session.run only go forward, and
\* a closed server has ever less left to do.
THEOREM ServerIsBounded == Spec => ServerWindsDown
<1>1. Init => TypeInv /\ ScanInv
  BY InitTypeInv, InitScanInv, Zenon
<1>2. TypeInv /\ ScanInv /\ [Next]_vars => (TypeInv /\ ScanInv)'
  BY StepTypeInv, StepScanInv, Zenon
<1> QED
  BY <1>1, <1>2, StepWindsDown, PTL DEF Spec, ServerWindsDown
=============================================================================
