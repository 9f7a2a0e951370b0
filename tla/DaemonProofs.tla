---------------------------- MODULE DaemonProofs ----------------------------
(* Proofs about the session slots, the WaitGroup and Close of the TR-471    *)
(* server, about the abstract server it implements, and about diagd serve,  *)
(* which runs it beside the other listeners and calls its Close.            *)
EXTENDS Daemon, UdpstServerProofs

SlotHolders == {s \in Sessions : HoldsSlot(s)}

\* A set of sessions is finite.
LEMMA FiniteSessions ==
    ASSUME NEW S \in SUBSET Sessions
    PROVE  IsFiniteSet(S) /\ Cardinality(S) \in Nat
BY ServerAssumption, FS_Subset, FS_CardinalityType, Zenon

\* Counting a session that joins.
LEMMA SessionAdded ==
    ASSUME NEW S \in SUBSET Sessions, NEW s, s \notin S
    PROVE  Cardinality(S \cup {s}) = Cardinality(S) + 1
BY FiniteSessions, FS_AddElement, Zenon

\* Counting a session that leaves.
LEMMA SessionRemoved ==
    ASSUME NEW S \in SUBSET Sessions, NEW s, s \in S
    PROVE  Cardinality(S \ {s}) = Cardinality(S) - 1
BY FiniteSessions, FS_RemoveElement, Zenon

\* SlotLedger and GroupLedger are inductive together with the types.
CountInv == SlotLedger /\ GroupLedger

\* NewServer: no slot is taken and no goroutine counted.
LEMMA InitCountInv == Init => CountInv
<1> SUFFICES ASSUME Init PROVE CountInv
  BY Zenon
<1>1. {s \in Sessions : HoldsSlot(s)} = {} /\ {s \in Sessions : Live(s)} = {}
  BY Zenon DEF Init, HoldsSlot, Live
<1> QED
  BY <1>1, FS_EmptySet, ServerAssumption
     DEF Init, CountInv, SlotLedger, GroupLedger, SlotPending

\* Every step keeps slots and WaitGroup equal to their holders.
LEMMA StepCountInv == TypeInv /\ CountInv /\ [Next]_vars => CountInv'
<1> SUFFICES ASSUME TypeInv, CountInv, [Next]_vars PROVE CountInv'
  BY Zenon
<1>a. spc \in [Sessions -> SessionPC]
  BY Zenon DEF TypeInv, TypeOK
<1>b. SlotHolders \in SUBSET Sessions /\ LiveSessions \in SUBSET Sessions
  BY Zenon DEF SlotHolders, LiveSessions
<1>c. Cardinality(SlotHolders) \in Nat /\ Cardinality(LiveSessions) \in Nat
  BY <1>b, FiniteSessions, Zenon
<1>i. /\ sessions = Cardinality(SlotHolders) + SlotPending
      /\ sessions <= MaxSessions
      /\ wg = Cardinality(LiveSessions)
  BY Zenon DEF CountInv, SlotLedger, GroupLedger, SlotHolders, LiveSessions
<1> DEFINE Goal == /\ sessions' = Cardinality(SlotHolders') + SlotPending'
                   /\ sessions' <= MaxSessions
                   /\ wg' = Cardinality(LiveSessions')
<1> SUFFICES Goal
  BY Zenon DEF CountInv, SlotLedger, GroupLedger, SlotHolders, LiveSessions
<1>d. ASSUME spc' = spc
      PROVE  SlotHolders' = SlotHolders /\ LiveSessions' = LiveSessions
  BY <1>d, Zenon DEF SlotHolders, LiveSessions, HoldsSlot, Live
\* Session steps that keep the slot.
<1>e. ASSUME NEW s \in Sessions, HoldsSlot(s), HoldsSlot(s)',
             \A t \in Sessions \ {s} : spc'[t] = spc[t]
      PROVE  SlotHolders' = SlotHolders /\ LiveSessions' = LiveSessions
  BY <1>e, Zenon DEF SlotHolders, LiveSessions, HoldsSlot, Live
<1> USE DEF resources, counters, locals, control, goroutines, SlotPending
<1>1. ASSUME NEW r \in Requests, RecvSetup(r) PROVE Goal
  BY <1>1, <1>c, <1>d, <1>i, ServerAssumption, Zenon DEF RecvSetup
<1>2. CASE ReserveRefused
  BY <1>2, <1>c, <1>d, <1>i, ServerAssumption, Zenon DEF ReserveRefused
<1>3. CASE ReserveGranted
  BY <1>3, <1>c, <1>d, <1>i, ServerAssumption, Zenon DEF ReserveGranted
<1>4. CASE SlotRefused
  BY <1>4, <1>c, <1>d, <1>i, ServerAssumption, Zenon DEF SlotRefused
<1>5. CASE SlotTaken
  BY <1>5, <1>c, <1>d, <1>i, ServerAssumption DEF SlotTaken, SlotAvailable
<1>6. ASSUME NEW p \in AskedPorts, Bind(p) PROVE Goal
  BY <1>6, <1>c, <1>d, <1>i, ServerAssumption, Zenon DEF Bind
<1>7. CASE BindFails
  BY <1>7, <1>c, <1>d, <1>i, ServerAssumption, Zenon DEF BindFails
<1>8. CASE Unslot
  BY <1>8, <1>c, <1>d, <1>i, ServerAssumption DEF Unslot
<1>9. CASE ReleaseOnErr
  BY <1>9, <1>c, <1>d, <1>i, ServerAssumption, Zenon DEF ReleaseOnErr
<1>10. CASE SendReject
  BY <1>10, <1>c, <1>d, <1>i, ServerAssumption, Zenon DEF SendReject
<1>11. CASE SendAccept
  BY <1>11, <1>c, <1>d, <1>i, ServerAssumption, Zenon DEF SendAccept
<1>12. ASSUME NEW s \in Sessions, Spawn(s) PROVE Goal
  <2>1. spc[s] = "free" /\ spc' = [spc EXCEPT ![s] = "await"]
    BY <1>12, Zenon DEF Spawn
  <2>2. /\ SlotHolders' = SlotHolders \cup {s} /\ s \notin SlotHolders
        /\ LiveSessions' = LiveSessions \cup {s} /\ s \notin LiveSessions
    BY <1>a, <2>1, Zenon DEF SlotHolders, LiveSessions, HoldsSlot, Live
  <2>3. /\ Cardinality(SlotHolders') = Cardinality(SlotHolders) + 1
        /\ Cardinality(LiveSessions') = Cardinality(LiveSessions) + 1
    BY <1>b, <2>2, SessionAdded, Zenon
  <2> QED
    BY <1>12, <1>c, <1>i, <2>3 DEF Spawn, AddToGroup
<1>13. CASE ServeReturns
  BY <1>13, <1>c, <1>d, <1>i, Zenon DEF ServeReturns
<1>14. ASSUME NEW s \in Sessions, NEW d \in Dir, Activate(s, d) PROVE Goal
  BY <1>14, <1>a, <1>c, <1>e, <1>i, Zenon DEF Activate, HoldsSlot
<1>15. ASSUME NEW s \in Sessions, ActivationTimeout(s) PROVE Goal
  BY <1>15, <1>a, <1>c, <1>e, <1>i, Zenon DEF ActivationTimeout, HoldsSlot
<1>16. ASSUME NEW s \in Sessions, TestEnds(s) PROVE Goal
  BY <1>16, <1>a, <1>c, <1>e, <1>i, Zenon DEF TestEnds, HoldsSlot
<1>17. ASSUME NEW s \in Sessions, CloseSocket(s) PROVE Goal
  BY <1>17, <1>a, <1>c, <1>e, <1>i, Zenon DEF CloseSocket, HoldsSlot
<1>18. ASSUME NEW s \in Sessions, ReleaseBandwidth(s) PROVE Goal
  BY <1>18, <1>a, <1>c, <1>e, <1>i, Zenon DEF ReleaseBandwidth, HoldsSlot
<1>19. ASSUME NEW s \in Sessions, SessionDone(s) PROVE Goal
  <2>1. spc[s] = "done" /\ spc' = [spc EXCEPT ![s] = "exit"]
    BY <1>19, Zenon DEF SessionDone
  <2>2. /\ SlotHolders' = SlotHolders \ {s} /\ s \in SlotHolders
        /\ LiveSessions' = LiveSessions
    BY <1>a, <2>1, Zenon DEF SlotHolders, LiveSessions, HoldsSlot, Live
  <2>3. Cardinality(SlotHolders') = Cardinality(SlotHolders) - 1
    BY <1>b, <2>2, SessionRemoved, Zenon
  <2> QED
    BY <1>19, <1>c, <1>i, <2>2, <2>3, ServerAssumption DEF SessionDone
<1>20. ASSUME NEW s \in Sessions, WgDone(s) PROVE Goal
  <2>1. spc[s] = "exit" /\ spc' = [spc EXCEPT ![s] = "free"]
    BY <1>20, Zenon DEF WgDone
  <2>2. /\ SlotHolders' = SlotHolders
        /\ LiveSessions' = LiveSessions \ {s} /\ s \in LiveSessions
    BY <1>a, <2>1, Zenon DEF SlotHolders, LiveSessions, HoldsSlot, Live
  <2>3. Cardinality(LiveSessions') = Cardinality(LiveSessions) - 1
    BY <1>b, <2>2, SessionRemoved, Zenon
  <2> QED
    BY <1>20, <1>c, <1>i, <2>2, <2>3, Zenon DEF WgDone, LeaveGroup
<1>21. CASE CloseFlag
  BY <1>21, <1>d, <1>i, Zenon DEF CloseFlag
<1>22. CASE CloseConn
  BY <1>22, <1>d, <1>i, Zenon DEF CloseConn
<1>23. CASE CloseReturns
  BY <1>23, <1>d, <1>i, Zenon DEF CloseReturns
<1>24. CASE UNCHANGED vars
  BY <1>24, <1>d, <1>i, Zenon DEF vars
<1> QED
  BY <1>1, <1>2, <1>3, <1>4, <1>5, <1>6, <1>7, <1>8, <1>9, <1>10, <1>11, <1>12,
     <1>13, <1>14, <1>15, <1>16, <1>17, <1>18, <1>19, <1>20, <1>21, <1>22,
     <1>23, <1>24, Zenon DEF Next, HandleSetup, Cleanup, Terminated

\* The invariant of slots and WaitGroup.
LEMMA CountInvariant == Spec => [](TypeInv /\ CountInv)
<1>1. Init => TypeInv /\ CountInv
  BY InitTypeInv, InitCountInv, Zenon
<1>2. TypeInv /\ CountInv /\ [Next]_vars => (TypeInv /\ CountInv)'
  BY StepTypeInv, StepCountInv, Zenon
<1> QED
  BY <1>1, <1>2, PTL DEF Spec

\* Server.sessions is the number of slots held and never passes MaxSessions.
THEOREM SlotsAreConserved == Spec => []SlotLedger
<1>1. CountInv => SlotLedger
  BY Zenon DEF CountInv
<1> QED
  BY <1>1, CountInvariant, PTL

\* The WaitGroup counter is the number of running session goroutines.
THEOREM GroupIsConserved == Spec => []GroupLedger
<1>1. CountInv => GroupLedger
  BY Zenon DEF CountInv
<1> QED
  BY <1>1, CountInvariant, PTL

-----------------------------------------------------------------------------
(* Close                                                                   *)

(***************************************************************************)
(* wg.Wait returned when no session was live, and with the control socket  *)
(* closed only the setup then in progress can add one: after that the      *)
(* control goroutine is back in its read, for good.                        *)
(***************************************************************************)
LateInv ==
    /\ closer \in {"waiting", "returned"} => ~listening
    /\ closer = "returned" =>
          \/ LiveSessions = {}
          \/ pc \in {"recv", "stopped"} /\ \E s \in Sessions : LiveSessions = {s}

\* Every step keeps the bound on what Close can miss.
LEMMA StepLateInv == TypeInv /\ CountInv /\ LateInv /\ [Next]_vars => LateInv'
<1> SUFFICES ASSUME TypeInv, CountInv, LateInv, [Next]_vars PROVE LateInv'
  BY Zenon
<1>a. spc \in [Sessions -> SessionPC]
  BY Zenon DEF TypeInv, TypeOK
<1>b. wg = 0 => LiveSessions = {}
  BY FiniteSessions, FS_EmptySet, Zenon DEF CountInv, GroupLedger, LiveSessions
<1> USE DEF LateInv
<1>d. ASSUME spc' = spc PROVE LiveSessions' = LiveSessions
  BY <1>d, Zenon DEF LiveSessions, Live
<1>e. ASSUME NEW s \in Sessions, Live(s), \A t \in Sessions \ {s} : spc'[t] = spc[t],
             pc' = pc, closer' = closer, listening' = listening
      PROVE  LateInv'
  <2>1. LiveSessions' \subseteq LiveSessions
    BY <1>e, Zenon DEF LiveSessions, Live
  <2>2. LiveSessions # {}
    BY <1>e, Zenon DEF LiveSessions
  <2>3. CASE closer = "returned"
    <3>1. PICK t \in Sessions : LiveSessions = {t}
      BY <2>2, <2>3, Zenon
    <3>2. LiveSessions' = {} \/ LiveSessions' = {t}
      BY <2>1, <3>1, Zenon
    <3> QED
      BY <1>e, <2>2, <2>3, <3>1, <3>2, Zenon
  <2> QED
    BY <1>e, <2>3, Zenon
<1> USE DEF resources, counters, locals, control, goroutines
<1>1. ASSUME NEW r \in Requests, RecvSetup(r) PROVE LateInv'
  BY <1>1, <1>d, Zenon DEF RecvSetup
<1>2. CASE ReserveRefused \/ ReserveGranted \/ SlotRefused \/ SlotTaken
  BY <1>2, <1>d DEF ReserveRefused, ReserveGranted, SlotRefused, SlotTaken
<1>3. ASSUME NEW p \in AskedPorts, Bind(p) PROVE LateInv'
  BY <1>3, <1>d, Zenon DEF Bind
<1>4. CASE BindFails \/ Unslot \/ ReleaseOnErr \/ SendReject \/ SendAccept
  BY <1>4, <1>d DEF BindFails, Unslot, ReleaseOnErr, SendReject, SendAccept
<1>5. ASSUME NEW s \in Sessions, Spawn(s) PROVE LateInv'
  <2>1. LiveSessions' = LiveSessions \cup {s}
    BY <1>5, <1>a, Zenon DEF Spawn, LiveSessions, Live
  <2> QED
    BY <1>5, <2>1, Zenon DEF Spawn
<1>6. CASE ServeReturns
  BY <1>6, <1>d, Zenon DEF ServeReturns
<1>7. ASSUME NEW s \in Sessions, NEW d \in Dir, Activate(s, d) PROVE LateInv'
  BY <1>7, <1>a, <1>e, Zenon DEF Activate, Live
<1>8. ASSUME NEW s \in Sessions, ActivationTimeout(s) \/ TestEnds(s) \/ Cleanup(s)
      PROVE  LateInv'
  <2>1. Live(s) /\ pc' = pc /\ closer' = closer /\ listening' = listening
    BY <1>8, Zenon DEF ActivationTimeout, TestEnds, Cleanup, CloseSocket,
                ReleaseBandwidth, SessionDone, WgDone, Live
  <2>2. \A t \in Sessions \ {s} : spc'[t] = spc[t]
    BY <1>8, <1>a, Zenon DEF ActivationTimeout, TestEnds, Cleanup, CloseSocket,
                ReleaseBandwidth, SessionDone, WgDone
  <2> QED
    BY <2>1, <2>2, <1>e, Zenon
<1>9. CASE CloseFlag
  BY <1>9, <1>d, Zenon DEF CloseFlag
<1>10. CASE CloseConn
  BY <1>10, <1>d, Zenon DEF CloseConn
<1>11. CASE CloseReturns
  BY <1>11, <1>b, <1>d, Zenon DEF CloseReturns
<1>12. CASE UNCHANGED vars
  BY <1>12, <1>d, Zenon DEF vars
<1> QED
  BY <1>1, <1>2, <1>3, <1>4, <1>5, <1>6, <1>7, <1>8, <1>9, <1>10, <1>11, <1>12, Zenon
     DEF Next, HandleSetup, Terminated

\* Counting what Close has missed: the setup in progress or the one session.
LEMMA LateCount ==
    ASSUME \/ LiveSessions = {}
           \/ pc \in {"recv", "stopped"} /\ \E s \in Sessions : LiveSessions = {s}
    PROVE  Cardinality(LiveSessions) + SlotPending <= 1
<1>1. LiveSessions = {} => Cardinality(LiveSessions) = 0
  BY FS_EmptySet, Zenon
<1>2. \A s \in Sessions : LiveSessions = {s} => Cardinality(LiveSessions) = 1
  BY FS_Singleton, Zenon
<1>3. SlotPending \in {0, 1} /\ (pc \in {"recv", "stopped"} => SlotPending = 0)
  BY DEF SlotPending
<1> QED
  BY <1>1, <1>2, <1>3

\* Close may return while one session is about to start or is running, and
\* never while two are: the closed flag bounds the race of wg.Add with wg.Wait.
THEOREM LateSessionsAreBounded == Spec => []AtMostOneLateSession
<1>1. Init => TypeInv /\ CountInv /\ LateInv
  BY InitTypeInv, InitCountInv, Zenon DEF Init, LateInv
<1>2. TypeInv /\ CountInv /\ LateInv /\ [Next]_vars => (TypeInv /\ CountInv /\ LateInv)'
  BY StepTypeInv, StepCountInv, StepLateInv, Zenon
<1>3. LateInv => AtMostOneLateSession
  BY LateCount, Zenon DEF LateInv, AtMostOneLateSession, LiveSessions
<1> QED
  BY <1>1, <1>2, <1>3, PTL DEF Spec

-----------------------------------------------------------------------------
(* The server implements Admission.                                        *)

\* Close's flag and its goroutine move together.
FlagInv == closer # "running" => closed

\* Once Close has begun, closed is set and stays set.
LEMMA StepFlagInv == FlagInv /\ [Next]_vars => FlagInv'
<1> SUFFICES ASSUME FlagInv, [Next]_vars PROVE FlagInv'
  BY Zenon
<1> USE DEF FlagInv, resources, counters, locals, control, goroutines
<1>1. CASE HandleSetup
  BY <1>1, Zenon DEF HandleSetup, ReserveRefused, ReserveGranted, SlotRefused, SlotTaken,
     Bind, BindFails, Unslot, ReleaseOnErr, SendReject, SendAccept, Spawn
<1>2. ASSUME NEW s \in Sessions, Cleanup(s) PROVE FlagInv'
  BY <1>2, Zenon DEF Cleanup, CloseSocket, ReleaseBandwidth, SessionDone, WgDone
<1>3. CASE UNCHANGED vars
  BY <1>3, Zenon DEF vars
<1>4. CASE CloseFlag
  BY <1>4, Zenon DEF CloseFlag
<1>5. CASE CloseConn \/ CloseReturns
  <2>1. closed' = closed /\ closer # "running"
    BY <1>5, Zenon DEF CloseConn, CloseReturns
  <2> QED
    BY <2>1, Zenon
<1>6. ASSUME NEW r \in Requests, RecvSetup(r) PROVE FlagInv'
  BY <1>6, Zenon DEF RecvSetup
<1>7. ASSUME NEW s \in Sessions,
             (\E d \in Dir : Activate(s, d)) \/ ActivationTimeout(s) \/ TestEnds(s)
      PROVE  FlagInv'
  BY <1>7, Zenon DEF Activate, ActivationTimeout, TestEnds
<1>8. CASE ServeReturns \/ Terminated
  BY <1>8, Zenon DEF ServeReturns, Terminated, vars
<1> QED
  BY <1>1, <1>2, <1>3, <1>4, <1>5, <1>6, <1>7, <1>8, Zenon DEF Next

\* The module instantiated as Promise has its own copy of the operator.
LEMMA SameCardinality == ASSUME NEW S PROVE Promise!Cardinality(S) = Cardinality(S)
BY Zenon DEF Cardinality, Promise!Cardinality

\* What is out on lease in a direction is what its sessions have reserved.
LEMMA LoadIsReserved ==
    ASSUME TypeInv, NEW d \in Dir
    PROVE  Promise!Load(d) = Reserved(d)
<1>1. \A t \in Sessions : LeaseOf[t].dir = d <=> HoldsBandwidth(t) /\ sess[t].dir = d
  <2> SUFFICES ASSUME NEW t \in Sessions
               PROVE  LeaseOf[t].dir = d <=> HoldsBandwidth(t) /\ sess[t].dir = d
    BY Zenon
  <2>1. CASE HoldsBandwidth(t)
    BY <2>1, Zenon DEF LeaseOf
  <2>2. CASE ~HoldsBandwidth(t)
    <3>1. LeaseOf[t] = [dir |-> "none", mbps |-> 0]
      BY <2>2, Zenon DEF LeaseOf
    <3> QED
      BY <2>2, <3>1 DEF Dir
  <2> QED
    BY <2>1, <2>2, Zenon
<1>a. Promise!Leased(d) = Holders(d)
  BY <1>1, Zenon DEF Promise!Leased, Holders
<1>2. \A s \in Holders(d) : LeaseOf[s].mbps = sess[s].mbw
  BY Zenon DEF LeaseOf, Holders
<1>3. Promise!LeasedUnits(d) = Units(Holders(d), sess)
  BY <1>a, <1>2, Zenon DEF Promise!LeasedUnits, Units
<1> QED
  BY <1>3, SameCardinality, Zenon DEF Promise!Load, Reserved

\* A test with a lease has a slot, so a free slot is a free lease.
LEMMA LeasesWithinSlots ==
    ASSUME TypeInv, CountInv, sessions < MaxSessions
    PROVE  Promise!Cardinality({t \in Sessions : LeaseOf[t] # Promise!NoLease})
             < MaxSessions
<1> DEFINE L == {t \in Sessions : LeaseOf[t] # Promise!NoLease}
<1>1. L \subseteq SlotHolders
  BY Zenon DEF LeaseOf, Promise!NoLease, SlotHolders, HoldsSlot, HoldsBandwidth
<1>2. IsFiniteSet(SlotHolders) /\ Cardinality(SlotHolders) \in Nat
  BY FiniteSessions, Zenon DEF SlotHolders
<1>3. Cardinality(L) <= Cardinality(SlotHolders) /\ Cardinality(L) \in Nat
  BY <1>1, <1>2, FS_Subset, FS_CardinalityType, Zenon
<1>4. sessions = Cardinality(SlotHolders) + SlotPending /\ SlotPending \in {0, 1}
  BY Zenon DEF CountInv, SlotLedger, SlotHolders, SlotPending
<1>5. Cardinality(L) < MaxSessions
  <2> HIDE DEF L
  <2> QED
    BY <1>2, <1>3, <1>4, ServerAssumption
<1> QED
  BY <1>5, SameCardinality, Zenon

\* Every step of the server is a step of Admission, or a stutter.
LEMMA StepImplements ==
    TypeInv /\ LedgerInv /\ CountInv /\ FlagInv /\ [Next]_vars
        => [Promise!ANext]_(Promise!avars)
<1> SUFFICES ASSUME TypeInv, LedgerInv, CountInv, FlagInv, [Next]_vars
             PROVE  Promise!ANext \/ UNCHANGED Promise!avars
  BY Zenon
<1>a. /\ mbw \in Nat /\ req \in SetupPDU /\ used \in [Dir -> Int]
      /\ sess \in [Sessions -> [dir : Dir, mbw : Nat, port : Nat]]
      /\ spc \in [Sessions -> SessionPC]
      /\ Direction(req) \in Dir
  BY RequestFields, Zenon DEF TypeInv, TypeOK
<1> DEFINE None == [dir |-> "none", mbps |-> 0]
           Same == LeaseOf' = LeaseOf /\ Deciding' = Deciding /\ ClosePhase' = ClosePhase
<1>s. ASSUME Same PROVE UNCHANGED Promise!avars
  BY <1>s, Zenon DEF Promise!avars
<1>c. ASSUME closer' = closer PROVE ClosePhase' = ClosePhase
  BY <1>c, Zenon DEF ClosePhase
<1>l. ASSUME \A t \in Sessions : /\ HoldsBandwidth(t)' <=> HoldsBandwidth(t)
                                 /\ HoldsBandwidth(t) => sess'[t] = sess[t]
      PROVE  LeaseOf' = LeaseOf
  BY <1>l, Zenon DEF LeaseOf
<1>m. ASSUME spc' = spc, sess' = sess PROVE LeaseOf' = LeaseOf
  BY <1>m, Zenon DEF LeaseOf, HoldsBandwidth
<1>d. ASSUME pc' = pc, req' = req, mbw' = mbw PROVE Deciding' = Deciding
  BY <1>d, Zenon DEF Deciding, SlotPending
\* Steps of the control goroutine that keep the request where it is.
<1>q. ASSUME spc' = spc, sess' = sess, closer' = closer, SlotPending' = SlotPending,
             SlotPending = 1 => req' = req /\ mbw' = mbw
      PROVE  Same
  BY <1>q, <1>c, <1>m, Zenon DEF Deciding
\* Session steps that keep the lease, and those that return it.
<1>k. ASSUME NEW s \in Sessions, \A t \in Sessions \ {s} : spc'[t] = spc[t],
             sess' = sess, HoldsBandwidth(s)' <=> HoldsBandwidth(s),
             closer' = closer, pc' = pc, req' = req, mbw' = mbw
      PROVE  Same
  <2>1. \A t \in Sessions : HoldsBandwidth(t)' <=> HoldsBandwidth(t)
    BY <1>k, Zenon DEF HoldsBandwidth
  <2> QED
    BY <1>k, <1>c, <1>d, <1>l, <2>1, Zenon
<1>r. ASSUME NEW s \in Sessions, \A t \in Sessions \ {s} : spc'[t] = spc[t],
             sess' = sess, HoldsBandwidth(s), ~HoldsBandwidth(s)',
             closer' = closer, pc' = pc, req' = req, mbw' = mbw
      PROVE  Promise!Return(s)
  <2>1. \A t \in Sessions \ {s} : LeaseOf'[t] = LeaseOf[t]
    BY <1>r, Zenon DEF LeaseOf, HoldsBandwidth
  <2>2. LeaseOf'[s] = None
    BY <1>r, Zenon DEF LeaseOf
  <2>3. LeaseOf[s].dir \in Dir
    BY <1>a, <1>r, Zenon DEF LeaseOf
  <2>4. LeaseOf[s] # None
    BY <2>3 DEF Dir
  <2>5. LeaseOf' = [LeaseOf EXCEPT ![s] = None]
    BY <2>1, <2>2, Zenon DEF LeaseOf
  <2> QED
    BY <1>r, <1>c, <1>d, <2>4, <2>5, Zenon DEF Promise!Return, Promise!NoLease
<1> HIDE DEF Same
<1> USE DEF resources, counters, locals, control, goroutines
<1>1. ASSUME NEW r \in Requests, RecvSetup(r) PROVE Same
  BY <1>1, <1>q DEF RecvSetup, SlotPending
<1>2. ASSUME ReserveRefused \/ ReserveGranted \/ SlotRefused PROVE Same
  <2>1. ASSUME ReserveRefused PROVE Same
    BY <2>1, <1>q, Zenon DEF ReserveRefused, SlotPending
  <2>2. ASSUME ReserveGranted PROVE Same
    BY <2>2, <1>q DEF ReserveGranted, SlotPending
  <2>3. ASSUME SlotRefused PROVE Same
    BY <2>3, <1>q, Zenon DEF SlotRefused, SlotPending
  <2> QED
    BY <1>2, <2>1, <2>2, <2>3, Zenon
<1>3. CASE SlotTaken
  <2>1. ~closed /\ sessions < MaxSessions /\ pc = "slot"
    BY <1>3, Zenon DEF SlotTaken, SlotAvailable
  <2>2. closer = "running"
    BY <2>1, Zenon DEF FlagInv
  <2>3. ClosePhase = "open" /\ ClosePhase' = ClosePhase
    BY <1>3, <1>c, <2>2, Zenon DEF SlotTaken, ClosePhase
  <2>4. LeaseOf' = LeaseOf
    BY <1>3, <1>m, Zenon DEF SlotTaken
  <2> DEFINE r == [dir |-> Direction(req), mbps |-> mbw]
  <2>5. Deciding = None /\ Deciding' = r
    BY <1>3, <2>1 DEF SlotTaken, Deciding, SlotPending
  <2>6. r \in Promise!Amount
    BY <1>a, BudgetAssumption DEF Promise!Amount, LedgerInv
  <2>7. Promise!Load(r.dir) + r.mbps <= MaxBandwidthMbps
    <3>1. Promise!Load(Direction(req)) = Reserved(Direction(req))
      BY <1>a, LoadIsReserved, Zenon
    <3>2. Reserved(Direction(req)) + mbw <= MaxBandwidthMbps
      BY <1>a, Zenon DEF LedgerInv, BandwidthLedger, Pending
    <3> QED
      BY <3>1, <3>2, Zenon
  <2>8. Promise!Ask(r)
    <3> HIDE DEF r
    <3> QED
      BY <2>1, <2>3, <2>4, <2>5, <2>7, LeasesWithinSlots, Zenon
         DEF Promise!Ask, Promise!NoLease
  <2> QED
    BY <2>6, <2>8, Zenon DEF Promise!ANext
<1>4. ASSUME NEW p \in AskedPorts, Bind(p) PROVE Same
  BY <1>4, <1>q, Zenon DEF Bind, SlotPending
<1>5. ASSUME BindFails \/ ReleaseOnErr \/ SendReject \/ SendAccept PROVE Same
  <2>1. ASSUME BindFails PROVE Same
    BY <2>1, <1>q, Zenon DEF BindFails, SlotPending
  <2>2. ASSUME ReleaseOnErr PROVE Same
    BY <2>2, <1>q DEF ReleaseOnErr, SlotPending
  <2>3. ASSUME SendReject PROVE Same
    BY <2>3, <1>q DEF SendReject, SlotPending
  <2>4. ASSUME SendAccept PROVE Same
    BY <2>4, <1>q, Zenon DEF SendAccept, SlotPending
  <2> QED
    BY <1>5, <2>1, <2>2, <2>3, <2>4, Zenon
<1>6. CASE Unslot
  <2>1. LeaseOf' = LeaseOf /\ ClosePhase' = ClosePhase
    BY <1>6, <1>m, <1>c, Zenon DEF Unslot
  <2>2. Deciding.dir \in Dir /\ Deciding' = None
    BY <1>6, <1>a DEF Unslot, Deciding, SlotPending
  <2>3. Deciding # None
    BY <2>2 DEF Dir
  <2>4. Promise!Withdraw
    BY <2>1, <2>2, <2>3, Zenon DEF Promise!Withdraw, Promise!NoLease
  <2> QED
    BY <2>4, Zenon DEF Promise!ANext
<1>7. ASSUME NEW s \in Sessions, Spawn(s) PROVE Promise!ANext
  <2>1. /\ Deciding = [dir |-> Direction(req), mbps |-> mbw] /\ Deciding' = None
        /\ ClosePhase' = ClosePhase
    BY <1>7, <1>c, SMTT(30) DEF Spawn, Deciding, SlotPending
  <2>2. Deciding # None
    <3>1. Deciding.dir \in Dir
      BY <1>a, <2>1, Zenon
    <3> QED
      BY <3>1 DEF Dir
  <2>3. LeaseOf[s] = None
    BY <1>7, Zenon DEF Spawn, LeaseOf, HoldsBandwidth
  <2>4. LeaseOf'[s] = Deciding
    <3>1. HoldsBandwidth(s)'
      BY <1>7, <1>a, Zenon DEF Spawn, HoldsBandwidth
    <3>2. sess'[s].dir = Direction(req) /\ sess'[s].mbw = mbw
      BY <1>7, <1>a, Zenon DEF Spawn
    <3> QED
      BY <2>1, <3>1, <3>2, Zenon DEF LeaseOf
  <2>5. \A t \in Sessions \ {s} : LeaseOf'[t] = LeaseOf[t]
    BY <1>7, <1>a, Zenon DEF Spawn, LeaseOf, HoldsBandwidth
  <2>6. LeaseOf' = [LeaseOf EXCEPT ![s] = Deciding]
    BY <2>4, <2>5, Zenon DEF LeaseOf
  <2>7. Promise!Grant(s)
    BY <2>1, <2>2, <2>3, <2>6, Zenon DEF Promise!Grant, Promise!NoLease
  <2> QED
    BY <2>7, Zenon DEF Promise!ANext
<1>8. ASSUME ServeReturns PROVE Same
  BY <1>8, <1>q, Zenon DEF ServeReturns, SlotPending
<1>9. ASSUME NEW s \in Sessions,
             (\E d \in Dir : Activate(s, d)) \/ ActivationTimeout(s) \/ TestEnds(s)
      PROVE  Same
  <2>1. /\ sess' = sess /\ closer' = closer /\ pc' = pc /\ req' = req /\ mbw' = mbw
        /\ \A t \in Sessions \ {s} : spc'[t] = spc[t]
    BY <1>9, <1>a, Zenon DEF Activate, ActivationTimeout, TestEnds
  <2>2. HoldsBandwidth(s) /\ HoldsBandwidth(s)'
    BY <1>9, <1>a, Zenon DEF Activate, ActivationTimeout, TestEnds, HoldsBandwidth
  <2> QED
    BY <2>1, <2>2, <1>k, Zenon
<1>10. ASSUME NEW s \in Sessions, CloseSocket(s) PROVE Promise!ANext \/ Same
  <2>1. CASE sess[s].mbw > 0
    BY <1>10, <1>a, <1>k, <2>1, Zenon DEF CloseSocket, HoldsBandwidth
  <2>2. CASE ~(sess[s].mbw > 0)
    <3>1. Promise!Return(s)
      BY <1>10, <1>a, <1>r, <2>2, Zenon DEF CloseSocket, HoldsBandwidth
    <3> QED
      BY <3>1, Zenon DEF Promise!ANext
  <2> QED
    BY <2>1, <2>2, Zenon
<1>11. ASSUME NEW s \in Sessions, ReleaseBandwidth(s) PROVE Promise!ANext
  <2>1. Promise!Return(s)
    BY <1>11, <1>a, <1>r, Zenon DEF ReleaseBandwidth, HoldsBandwidth
  <2> QED
    BY <2>1, Zenon DEF Promise!ANext
<1>12. ASSUME NEW s \in Sessions, SessionDone(s) PROVE Same
  BY <1>12, <1>a, <1>k, Zenon DEF SessionDone, HoldsBandwidth
<1>13. ASSUME NEW s \in Sessions, WgDone(s) PROVE Same
  <2>1. \A t \in Sessions : /\ HoldsBandwidth(t)' <=> HoldsBandwidth(t)
                            /\ HoldsBandwidth(t) => sess'[t] = sess[t]
    BY <1>13, <1>a, Zenon DEF WgDone, HoldsBandwidth
  <2> QED
    BY <1>13, <1>c, <1>d, <1>l, <2>1, Zenon DEF WgDone, Same
<1>14. CASE CloseFlag
  <2>1. LeaseOf' = LeaseOf /\ Deciding' = Deciding
    BY <1>14, <1>m, <1>d, Zenon DEF CloseFlag
  <2>2. Promise!Closing
    BY <1>14, <2>1, Zenon DEF CloseFlag, ClosePhase, Promise!Closing
  <2> QED
    BY <2>2, Zenon DEF Promise!ANext
<1>15. ASSUME CloseConn PROVE Same
  <2>1. LeaseOf' = LeaseOf /\ Deciding' = Deciding
    BY <1>15, <1>m, <1>d, Zenon DEF CloseConn
  <2> QED
    BY <1>15, <2>1, Zenon DEF CloseConn, ClosePhase, Same
<1>16. CASE CloseReturns
  <2>1. LeaseOf' = LeaseOf /\ Deciding' = Deciding
    BY <1>16, <1>m, <1>d, Zenon DEF CloseReturns
  <2>2. LiveSessions = {}
    BY <1>16, FiniteSessions, FS_EmptySet, Zenon
       DEF CloseReturns, CountInv, GroupLedger, LiveSessions
  <2>3. Promise!Idle
    <3>1. \A t \in Sessions : spc[t] = "free"
      BY <2>2, Zenon DEF LiveSessions, Live
    <3>2. \A t \in Sessions : ~HoldsBandwidth(t)
      BY <3>1, Zenon DEF HoldsBandwidth
    <3> QED
      BY <3>2, Zenon DEF Promise!Idle, Promise!NoLease, LeaseOf
  <2>4. Promise!Closed
    BY <1>16, <2>1, <2>3, Zenon DEF CloseReturns, ClosePhase, Promise!Closed
  <2> QED
    BY <2>4, Zenon DEF Promise!ANext
<1>17. ASSUME UNCHANGED vars PROVE Same
  BY <1>17, <1>q, Zenon DEF vars, SlotPending
<1>18. CASE HandleSetup
  BY <1>18, <1>2, <1>3, <1>4, <1>5, <1>6, <1>7, <1>s, Zenon DEF HandleSetup
<1>19. ASSUME NEW s \in Sessions, Cleanup(s)
       PROVE  Promise!ANext \/ UNCHANGED Promise!avars
  BY <1>19, <1>10, <1>11, <1>12, <1>13, <1>s, Zenon DEF Cleanup
<1> QED
  BY <1>1, <1>8, <1>9, <1>14, <1>15, <1>16, <1>17, <1>18, <1>19, <1>s, Zenon
     DEF Next, Terminated

\* The TR-471 server implements Admission: whatever the interleaving of
\* handleSetup, the sessions and Close, and whichever socket cannot be bound,
\* what the outside sees is leases granted within the budget and the slots,
\* returned once each, and none let in after Close has begun.
THEOREM ServerImplementsAdmission == Spec => ImplementsAdmission
<1> DEFINE Inv == TypeInv /\ LedgerInv /\ CountInv /\ FlagInv
<1>1. Init => Inv
  BY InitTypeInv, InitLedgerInv, InitCountInv, Zenon DEF Init, FlagInv
<1>2. Inv /\ [Next]_vars => Inv'
  BY StepTypeInv, StepLedgerInv, StepCountInv, StepFlagInv, Zenon
<1>3. Init => Promise!AInit
  BY DEF Init, Promise!AInit, Promise!NoLease, LeaseOf, Deciding, ClosePhase,
         HoldsBandwidth, SlotPending
<1>4. Inv /\ [Next]_vars => [Promise!ANext]_(Promise!avars)
  BY StepImplements, Zenon
<1> QED
  BY <1>1, <1>2, <1>3, <1>4, PTL DEF Spec, ImplementsAdmission, Promise!ASpec

-----------------------------------------------------------------------------
(* The daemon.  Every step of diagd serve leaves the TR-471 server alone,  *)
(* is a step of it, or is the failure of its Serve, which the server on    *)
(* its own does not have.                                                  *)

\* What the daemon's steps are to the server.
LEMMA DaemonStep == [DNext]_allVars => [Next]_vars \/ ServeFails
<1> SUFFICES ASSUME [DNext]_allVars, ~ServeFails PROVE [Next]_vars
  BY Zenon
<1>1. CASE Startup
  BY <1>1, Zenon DEF Startup, StartHttp, BindUDP, StartOps
<1>2. CASE CloseTr471
  BY <1>2, Zenon DEF CloseTr471, Next
<1>3. CASE Stopping /\ ~CloseTr471
  BY <1>3, Zenon DEF Stopping, Select, BeginShutdown, GraceExpires, ShutdownReturns,
              CloseEcho, CloseOps
<1>4. CASE Signal \/ TransferStarts \/ TransferEnds
  BY <1>4, Zenon DEF Signal, TransferStarts, TransferEnds
<1>5. ASSUME NEW l \in Listeners, Listen(l) \/ ListenerFails(l) PROVE [Next]_vars
  BY <1>5, Zenon DEF Listen, ListenerFails
<1>6. CASE Serves(ServerStep)
  BY <1>6, Zenon DEF Serves, ServerStep, Next
<1>7. CASE UNCHANGED allVars
  BY <1>7, Zenon DEF allVars
<1> QED
  BY <1>1, <1>2, <1>3, <1>4, <1>5, <1>6, <1>7, Zenon DEF DNext, Exited

\* The invariant of the server, all parts together.
ServerInv == TypeInv /\ LedgerInv /\ CountInv /\ LateInv /\ FlagInv

\* When Serve gives up, the control goroutine holds nothing: no session, slot
\* or reservation changes hands.
LEMMA FailingServe == ServerInv /\ ServeFails => ServerInv'
<1> SUFFICES ASSUME ServerInv, ServeFails PROVE ServerInv'
  BY Zenon
<1>0. TypeInv /\ LedgerInv /\ CountInv /\ LateInv /\ FlagInv
  BY Zenon DEF ServerInv
<1>1. pc = "recv" /\ pc' = "stopped" /\ listening
      /\ UNCHANGED <<resources, closed, counters, listening, locals, goroutines, closer>>
  BY Zenon DEF ServeFails
<1> USE DEF resources, counters, locals, goroutines
<1>2. TypeInv'
  BY <1>0, <1>1, Zenon DEF TypeInv, TypeOK, RangeInv, TestDirInv, ControlPC
<1>3. \A d \in Dir : Reserved(d)' = Reserved(d) /\ Pending(d)' = Pending(d)
  BY <1>1, Zenon DEF Reserved, Holders, HoldsBandwidth, Pending
<1>4. LedgerInv'
  BY <1>0, <1>1, <1>3, Zenon DEF LedgerInv, BandwidthLedger
<1>5. /\ {s \in Sessions : HoldsSlot(s)}' = {s \in Sessions : HoldsSlot(s)}
      /\ {s \in Sessions : Live(s)}' = {s \in Sessions : Live(s)}
  BY <1>1, Zenon DEF HoldsSlot, Live
<1>6. CountInv'
  BY <1>0, <1>1, <1>5, Zenon DEF CountInv, SlotLedger, GroupLedger, SlotPending
<1>7. LateInv'
  BY <1>0, <1>1, Zenon DEF LateInv
<1>8. FlagInv'
  BY <1>0, <1>1, Zenon DEF FlagInv
<1> QED
  BY <1>2, <1>4, <1>6, <1>7, <1>8, Zenon DEF ServerInv

\* The server's invariant survives inside the daemon.
LEMMA StepServerInv == ServerInv /\ [DNext]_allVars => ServerInv'
<1> SUFFICES ASSUME ServerInv, [DNext]_allVars PROVE ServerInv'
  OBVIOUS
<1>1. CASE [Next]_vars
  BY <1>1, StepTypeInv, StepLedgerInv, StepCountInv, StepLateInv, StepFlagInv, Zenon
     DEF ServerInv
<1>2. CASE ServeFails
  BY <1>2, FailingServe, Zenon
<1> QED
  BY <1>1, <1>2, DaemonStep, Zenon

-----------------------------------------------------------------------------
\* The stages of shutdown, in order.
ShutPC == {"shutHttp", "waitHttp", "closeEcho", "closeTr471", "closeOps"}
MainPC == {"http", "echo", "tr471", "ops", "select", "exited"} \cup ShutPC
ListenerState == {"off", "starting", "up", "closed", "failed"}
Down(l) == st[l] \in {"off", "closed", "failed"}

(***************************************************************************)
(* cmdServe has been through each stage when it is past it: a listener     *)
(* that is disabled was never started, one whose stage is over is down     *)
(* and cannot come up again, and only main moves Close on.                 *)
(***************************************************************************)
MainTypeOK ==
    /\ main \in MainPC /\ exit \in Int /\ enabled \in SUBSET Listeners
    /\ st \in [Listeners -> ListenerState]
    /\ \A l \in Listeners \ enabled : st[l] = "off"
    /\ st["echo"] # "starting" /\ st["tr471"] # "starting"

StageInv ==
    /\ exit = 0 => main = "exited" /\ Down("ops")
    /\ main \in ShutPC \ {"shutHttp"} \/ exit = 0 => Down("http")
    /\ main \in {"closeTr471", "closeOps"} \/ exit = 0 => Down("echo")
    /\ main = "closeOps" \/ exit = 0 => closer = "returned" \/ "tr471" \notin enabled
    /\ st["ops"] = "closed" => exit = 0

CloserInv ==
    /\ closer # "running" => main \in {"closeTr471", "closeOps", "exited"}
    /\ closer \in {"waiting", "returned"} => st["tr471"] # "up"
    /\ "tr471" \notin enabled => LiveSessions = {} /\ pc = "recv"

\* Shutdown returned with no transfer left or at the end of its grace, and none
\* starts on a listener that is down.
GraceInv ==
    main \in {"closeEcho", "closeTr471", "closeOps"} \/ exit = 0 =>
        ShutdownDone
TransferInv ==
    /\ transfers \in Nat /\ graceOver \in BOOLEAN
    /\ "http" \notin enabled => transfers = 0

SignalInv == main \in ShutPC \/ exit = 0 => signalled

\* No step of the server's goroutines is a step of Close.
LEMMA ServerStepKeepsCloser == ServerStep => closer' = closer
<1> USE DEF resources, counters, locals, control, goroutines
<1>1. HandleSetup => closer' = closer
  BY Zenon DEF HandleSetup, ReserveRefused, ReserveGranted, SlotRefused, SlotTaken,
     Bind, BindFails, Unslot, ReleaseOnErr, SendReject, SendAccept, Spawn
<1> QED
  BY <1>1, Zenon DEF ServerStep, RecvSetup, ServeReturns, Activate, ActivationTimeout,
     TestEnds, Cleanup, CloseSocket, ReleaseBandwidth, SessionDone, WgDone

\* Whatever the listeners, the clients and the signals do, main's order holds.
LEMMA StepMainInv ==
    MainTypeOK /\ StageInv /\ CloserInv /\ [DNext]_allVars
       => MainTypeOK' /\ StageInv' /\ CloserInv'
<1> SUFFICES ASSUME MainTypeOK, StageInv, CloserInv, [DNext]_allVars
             PROVE  MainTypeOK' /\ StageInv' /\ CloserInv'
  BY Zenon
<1> DEFINE Goal == MainTypeOK' /\ StageInv' /\ CloserInv'
<1>a. ASSUME spc' = spc PROVE LiveSessions' = LiveSessions
  BY <1>a, Zenon DEF LiveSessions, Live
<1> USE DEF MainTypeOK, StageInv, CloserInv, MainPC, ShutPC, ListenerState, Down,
            Listeners, Goto, Return, NoExit, Running
<1>1. CASE StartHttp
  BY <1>1, <1>a, SMTT(30) DEF StartHttp, vars, control, goroutines
<1>2. CASE BindUDP("echo", "tr471")
  BY <1>2, <1>a, SMTT(30) DEF BindUDP, vars, control, goroutines
<1>3. CASE BindUDP("tr471", "ops")
  BY <1>3, <1>a, SMTT(30) DEF BindUDP, vars, control, goroutines
<1>4. CASE StartOps
  BY <1>4, <1>a, SMTT(30) DEF StartOps, vars, control, goroutines
<1>5. ASSUME NEW l \in Listeners, Listen(l) PROVE Goal
  BY <1>5, <1>a, Zenon DEF Listen, vars, control, goroutines
<1>6. ASSUME NEW l \in Listeners, ListenerFails(l) PROVE Goal
  BY <1>6, <1>a DEF ListenerFails, vars, control, goroutines
<1>7. CASE ServeFails
  BY <1>7, <1>a, Zenon DEF ServeFails, goroutines
<1>8. CASE Signal \/ TransferStarts \/ TransferEnds
  BY <1>8, <1>a, ZenonT(30) DEF Signal, TransferStarts, TransferEnds, vars, control, goroutines
<1>9. CASE Serves(ServerStep)
  BY <1>9, ServerStepKeepsCloser, Zenon DEF Serves, dvars
<1>10. CASE Select
  BY <1>10, <1>a, SMTT(30) DEF Select, vars, control, goroutines
<1>11. CASE BeginShutdown
  BY <1>11, <1>a, SMTT(30) DEF BeginShutdown, vars, control, goroutines
<1>12. CASE GraceExpires \/ ShutdownReturns
  BY <1>12, <1>a, Zenon DEF GraceExpires, ShutdownReturns, vars, control, goroutines
<1>13. CASE CloseEcho
  BY <1>13, <1>a, Zenon DEF CloseEcho, vars, control, goroutines
<1>14. CASE CloseTr471
  BY <1>14, <1>a, SMTT(30)
     DEF CloseTr471, CloseFlag, CloseConn, CloseReturns, vars, control, goroutines
<1>15. CASE CloseOps
  BY <1>15, <1>a, SMTT(30) DEF CloseOps, vars, control, goroutines
<1>16. CASE UNCHANGED allVars
  BY <1>16, <1>a, SMTT(30) DEF allVars, vars, dvars, control, goroutines
<1> QED
  BY <1>1, <1>2, <1>3, <1>4, <1>5, <1>6, <1>7, <1>8, <1>9, <1>10, <1>11, <1>12,
     <1>13, <1>14, <1>15, <1>16, Zenon DEF DNext, Startup, Stopping, Exited

\* Shutdown is entered on a signal, and a signal is not taken back.
LEMMA StepSignalInv == StageInv /\ SignalInv /\ [DNext]_allVars => SignalInv'
<1> SUFFICES ASSUME StageInv, SignalInv, [DNext]_allVars PROVE SignalInv'
  OBVIOUS
<1>a. ASSUME signalled' = signalled, exit' = exit,
             main' \in ShutPC => main \in ShutPC
      PROVE  SignalInv'
  BY <1>a, Zenon DEF SignalInv
<1>1. CASE Signal
  BY <1>1, Zenon DEF Signal, SignalInv
<1>2. CASE Select
  <2>1. CASE signalled /\ main' = "shutHttp"
    BY <1>2, <2>1, Zenon DEF Select, SignalInv
  <2>2. CASE main' = "exited" /\ exit' = 1
    <3>1. main' \notin ShutPC /\ exit' # 0
      BY <2>2 DEF ShutPC
    <3> QED
      BY <3>1, Zenon DEF SignalInv
  <2> QED
    BY <1>2, <2>1, <2>2, Zenon DEF Select, Goto, Return
<1>3. CASE Startup
  <2>1. main' \notin ShutPC
    BY <1>3, Zenon DEF Startup, StartHttp, BindUDP, StartOps, Goto, Return, ShutPC
  <2>2. exit' # 0
    BY <1>3 DEF Startup, StartHttp, BindUDP, StartOps, Goto, Return, StageInv
  <2> QED
    BY <2>1, <2>2, Zenon DEF SignalInv
<1>4. CASE Stopping /\ ~Select
  <2>1. main \in ShutPC
    BY <1>4, Zenon DEF Stopping, BeginShutdown, GraceExpires, ShutdownReturns, CloseEcho,
                CloseTr471, CloseOps, ShutPC
  <2>2. signalled' = signalled
    BY <1>4, Zenon DEF Stopping, BeginShutdown, GraceExpires, ShutdownReturns,
                CloseEcho, CloseTr471, CloseOps
  <2> QED
    BY <2>1, <2>2, Zenon DEF SignalInv
<1>5. CASE TransferStarts \/ TransferEnds \/ ServeFails
  BY <1>5, <1>a, Zenon DEF TransferStarts, TransferEnds, ServeFails
<1>6. ASSUME NEW l \in Listeners, Listen(l) \/ ListenerFails(l) PROVE SignalInv'
  BY <1>6, <1>a, Zenon DEF Listen, ListenerFails
<1>7. CASE Serves(ServerStep)
  BY <1>7, <1>a, Zenon DEF Serves, dvars
<1>8. CASE UNCHANGED allVars
  BY <1>8, <1>a, Zenon DEF allVars, dvars
<1> QED
  BY <1>1, <1>2, <1>3, <1>4, <1>5, <1>6, <1>7, <1>8, Zenon DEF DNext, Exited

\* Transfers start only while the HTTP listener is up, and the grace, once over,
\* stays over.
LEMMA StepGraceInv ==
    MainTypeOK /\ StageInv /\ TransferInv /\ GraceInv /\ [DNext]_allVars
       => TransferInv' /\ GraceInv'
<1> SUFFICES ASSUME MainTypeOK, StageInv, TransferInv, GraceInv, [DNext]_allVars
             PROVE  TransferInv' /\ GraceInv'
  BY Zenon
<1>0. exit = 0 => main = "exited"
  BY Zenon DEF StageInv
<1>a. ASSUME transfers' = transfers, graceOver' = graceOver, enabled' = enabled,
             exit' = exit \/ exit' # 0,
             main' \in {"closeEcho", "closeTr471", "closeOps"} =>
                main \in {"closeEcho", "closeTr471", "closeOps"}
      PROVE  TransferInv' /\ GraceInv'
  BY <1>a, Zenon DEF TransferInv, GraceInv, ShutdownDone
<1>1. CASE Startup
  <2>1. UNCHANGED <<transfers, graceOver, enabled>>
    BY <1>1, Zenon DEF Startup, StartHttp, BindUDP, StartOps
  <2>2. main' \notin {"closeEcho", "closeTr471", "closeOps"} /\ (exit' = exit \/ exit' # 0)
    BY <1>1 DEF Startup, StartHttp, BindUDP, StartOps, Goto, Return
  <2> QED
    BY <2>1, <2>2, <1>a, Zenon
<1>2. CASE Select
  <2>1. UNCHANGED <<transfers, graceOver, enabled>>
    BY <1>2, Zenon DEF Select
  <2>2. main' \notin {"closeEcho", "closeTr471", "closeOps"} /\ (exit' = exit \/ exit' # 0)
    BY <1>2 DEF Select, Goto, Return
  <2> QED
    BY <2>1, <2>2, <1>a, Zenon
<1>3. CASE BeginShutdown
  <2>1. CASE "http" \in enabled
    BY <1>3, <2>1, <1>a, Zenon DEF BeginShutdown, Goto
  <2>2. CASE "http" \notin enabled
    BY <1>3, <2>2, Zenon DEF BeginShutdown, TransferInv, GraceInv, ShutdownDone
  <2> QED
    BY <2>1, <2>2
<1>4. CASE GraceExpires \/ ShutdownReturns
  BY <1>4, Zenon DEF GraceExpires, ShutdownReturns, TransferInv, GraceInv, ShutdownDone
<1>5. CASE CloseEcho \/ CloseTr471 \/ CloseOps
  <2>1. main \in {"closeEcho", "closeTr471", "closeOps"}
    BY <1>5, Zenon DEF CloseEcho, CloseTr471, CloseOps
  <2>2. UNCHANGED <<transfers, graceOver, enabled>>
    BY <1>5, Zenon DEF CloseEcho, CloseTr471, CloseOps
  <2> QED
    BY <2>1, <2>2, Zenon DEF TransferInv, GraceInv, ShutdownDone
<1>6. CASE TransferStarts
  <2>1. st["http"] = "up" /\ transfers' = transfers + 1
        /\ UNCHANGED <<main, exit, enabled, graceOver>>
    BY <1>6, Zenon DEF TransferStarts
  <2>2. "http" \in enabled /\ ~Down("http")
    BY <2>1 DEF MainTypeOK, Down, Listeners
  <2>3. ~(main \in {"closeEcho", "closeTr471", "closeOps"} \/ exit = 0)
    BY <2>2, Zenon DEF StageInv, ShutPC
  <2>4. transfers' \in Nat
    BY <2>1 DEF TransferInv
  <2> QED
    BY <2>1, <2>2, <2>3, <2>4, Zenon DEF TransferInv, GraceInv
<1>7. CASE TransferEnds
  <2>1. transfers > 0 /\ transfers' = transfers - 1
        /\ UNCHANGED <<main, exit, enabled, graceOver>>
    BY <1>7, Zenon DEF TransferEnds
  <2>2. transfers' \in Nat /\ transfers # 0
    BY <2>1 DEF TransferInv
  <2> QED
    BY <2>1, <2>2, Zenon DEF TransferInv, GraceInv, ShutdownDone
<1>8. CASE Signal \/ ServeFails
  BY <1>8, <1>a, Zenon DEF Signal, ServeFails
<1>9. ASSUME NEW l \in Listeners, Listen(l) \/ ListenerFails(l)
      PROVE  TransferInv' /\ GraceInv'
  BY <1>9, <1>a, Zenon DEF Listen, ListenerFails
<1>10. CASE Serves(ServerStep)
  BY <1>10, <1>a, Zenon DEF Serves, dvars
<1>11. CASE UNCHANGED allVars
  BY <1>11, <1>a, Zenon DEF allVars, dvars
<1> QED
  BY <1>1, <1>2, <1>3, <1>4, <1>5, <1>6, <1>7, <1>8, <1>9, <1>10, <1>11, Zenon
     DEF DNext, Stopping, Exited

DaemonInv == /\ ServerInv /\ MainTypeOK /\ StageInv /\ CloserInv /\ SignalInv
             /\ TransferInv /\ GraceInv

\* The invariant of the daemon.
LEMMA DaemonInvariant == DSpec => []DaemonInv
<1>1. DInit => DaemonInv
  <2> SUFFICES ASSUME DInit PROVE DaemonInv
    OBVIOUS
  <2>1. Init
    BY Zenon DEF DInit
  <2>2. LateInv /\ LiveSessions = {} /\ pc = "recv"
    BY <2>1, Zenon DEF Init, LateInv, LiveSessions, Live
  <2>3. FlagInv
    BY <2>1, Zenon DEF Init, FlagInv
  <2>4. ServerInv
    BY <2>1, <2>2, <2>3, InitTypeInv, InitLedgerInv, InitCountInv, Zenon DEF ServerInv
  <2>5. MainTypeOK /\ StageInv /\ CloserInv
    BY <2>1, <2>2, DaemonAssumption, SMTT(30)
       DEF DInit, Init, MainTypeOK, StageInv, CloserInv,
       MainPC, ShutPC, ListenerState, Down, Listeners, NoExit
  <2>6. main \notin ShutPC /\ exit # 0
    BY DEF DInit, ShutPC, NoExit
  <2>7. SignalInv
    BY <2>6, Zenon DEF SignalInv
  <2>8. main \notin {"closeEcho", "closeTr471", "closeOps"}
    BY <2>6, Zenon DEF ShutPC
  <2>9. TransferInv
    BY DEF DInit, TransferInv
  <2>10. GraceInv
    BY <2>6, <2>8, Zenon DEF GraceInv
  <2> QED
    BY <2>4, <2>5, <2>7, <2>9, <2>10, Zenon DEF DaemonInv
<1>2. DaemonInv /\ [DNext]_allVars => DaemonInv'
  BY StepServerInv, StepMainInv, StepSignalInv, StepGraceInv, Zenon DEF DaemonInv
<1> QED
  BY <1>1, <1>2, PTL DEF DSpec

\* cmdServe returns 0 only after a signal and with every listener down, and cuts
\* off only transfers that outlast the grace of Shutdown and the one session
\* whose setup Close can miss: whichever listeners are enabled, whichever of
\* them fail on the way and whenever the signal comes.
THEOREM ExitIsClean == DSpec => []CleanExit
<1>1. DaemonInv => CleanExit
  <2> SUFFICES ASSUME DaemonInv, exit = 0 PROVE CleanExit
    BY Zenon DEF CleanExit
  <2>1. signalled
    BY Zenon DEF DaemonInv, SignalInv
  <2>2. \A l \in Listeners : st[l] \in {"off", "closed", "failed"}
    BY Zenon DEF DaemonInv, MainTypeOK, StageInv, CloserInv, Down, Listeners,
       ListenerState
  <2>3. transfers > 0 => graceOver
    BY DEF DaemonInv, TransferInv, GraceInv, ShutdownDone
  <2>4. \/ LiveSessions = {} /\ pc = "recv"
        \/ closer = "returned" /\ LateInv
    BY Zenon DEF DaemonInv, StageInv, CloserInv, ServerInv
  <2>5. \/ LiveSessions = {}
        \/ pc \in {"recv", "stopped"} /\ \E s \in Sessions : LiveSessions = {s}
    BY <2>4, Zenon DEF LateInv
  <2>6. Cardinality(LiveSessions) + SlotPending <= 1
    BY <2>5, LateCount, Zenon
  <2> QED
    BY <2>1, <2>2, <2>3, <2>6, Zenon DEF CleanExit
<1> QED
  BY <1>1, DaemonInvariant, PTL

\* The ops server, and with it /metrics, is closed only when Close has returned.
THEOREM OpsIsClosedLast == DSpec => []OpsOutlivesTests
<1>1. DaemonInv => OpsOutlivesTests
  BY Zenon DEF DaemonInv, StageInv, OpsOutlivesTests
<1> QED
  BY <1>1, DaemonInvariant, PTL

\* Inside the daemon, where its Serve can fail and Close is called at most once
\* and only by main, the server still implements Admission.
THEOREM DaemonKeepsThePromise == DSpec => ImplementsAdmission
<1>1. DInit => Promise!AInit
  BY DEF DInit, Init, Promise!AInit, Promise!NoLease, LeaseOf, Deciding, ClosePhase,
         HoldsBandwidth, SlotPending
<1>2. DaemonInv /\ [DNext]_allVars => [Promise!ANext]_(Promise!avars)
  <2> SUFFICES ASSUME DaemonInv, [DNext]_allVars
               PROVE  [Promise!ANext]_(Promise!avars)
    BY Zenon
  <2>1. CASE [Next]_vars
    BY <2>1, StepImplements, Zenon DEF DaemonInv, ServerInv
  <2>2. CASE ServeFails
    BY <2>2, Zenon DEF ServeFails, Promise!avars, LeaseOf, Deciding, ClosePhase,
       HoldsBandwidth, SlotPending, goroutines, locals
  <2> QED
    BY <2>1, <2>2, DaemonStep, Zenon
<1> QED
  BY <1>1, <1>2, DaemonInvariant, PTL DEF DSpec, ImplementsAdmission, Promise!ASpec

-----------------------------------------------------------------------------
(***************************************************************************)
(* How far main is from its return.  StopsWhenTold needs fairness; that    *)
(* the way to the exit is short, and what main can wait for on it, do not. *)
(***************************************************************************)
CloserSteps ==
    CASE closer = "running" -> 3
      [] closer = "flagged" -> 2
      [] closer = "waiting" -> 1
      [] OTHER -> 0

MainSteps ==
    CASE main = "http" -> 14
      [] main = "echo" -> 13
      [] main = "tr471" -> 12
      [] main = "ops" -> 11
      [] main = "select" -> 10
      [] main = "shutHttp" -> 9
      [] main = "waitHttp" -> IF graceOver THEN 7 ELSE 8
      [] main = "closeEcho" -> 6
      [] main = "closeTr471" -> 2 + CloserSteps
      [] main = "closeOps" -> 1
      [] OTHER -> 0

\* Every step main takes, the end of the grace of Shutdown and the steps of Close
\* included, brings it nearer to its return, and nothing a listener, a client, a
\* session or a signal does takes it back.
MainGoesOn ==
    IF Startup \/ Stopping THEN MainSteps' \in 0..(MainSteps - 1)
                           ELSE MainSteps' = MainSteps

\* Close can go on, or a session it waits for is running.
WaitsForSessions ==
    \/ closer \in {"running", "flagged"}
    \/ closer = "waiting" /\ (wg = 0 \/ LiveSessions # {})

\* In its shutdown main waits for nothing but sessions that are running, and
\* these, like the setup in progress, wind down as they do in the server alone.
ShutdownWindsDown ==
    /\ [][MainGoesOn]_allVars
    /\ ServerWindsDown
    /\ [](main = "closeTr471" => WaitsForSessions)

\* Close has not returned while main is in it.
InClose == main = "closeTr471" => closer # "returned"

\* Only main's own steps change where main is, the grace and Close.
LEMMA OthersLeaveMain ==
    [DNext]_allVars /\ ~(Startup \/ Stopping) => UNCHANGED <<main, graceOver, closer>>
<1> SUFFICES ASSUME [DNext]_allVars, ~(Startup \/ Stopping)
             PROVE  UNCHANGED <<main, graceOver, closer>>
  BY Zenon
<1>1. CASE Signal \/ TransferStarts \/ TransferEnds
  BY <1>1, Zenon DEF Signal, TransferStarts, TransferEnds, vars
<1>2. CASE ServeFails
  BY <1>2, Zenon DEF ServeFails
<1>3. ASSUME NEW l \in Listeners, Listen(l) \/ ListenerFails(l)
      PROVE  UNCHANGED <<main, graceOver, closer>>
  BY <1>3, Zenon DEF Listen, ListenerFails, vars
<1>4. CASE Serves(ServerStep)
  BY <1>4, ServerStepKeepsCloser, Zenon DEF Serves, dvars
<1>5. CASE UNCHANGED allVars
  BY <1>5, Zenon DEF allVars, vars, dvars
<1> QED
  BY <1>1, <1>2, <1>3, <1>4, <1>5, Zenon DEF DNext, Exited

\* Each stage of main is followed by a later one.
LEMMA MainStepsFall ==
    ASSUME MainTypeOK, CloserInv, InClose, Startup \/ Stopping
    PROVE  MainSteps' \in 0..(MainSteps - 1) /\ InClose'
<1> USE DEF MainSteps, CloserSteps, InClose, Goto, Return
<1>1. CASE StartHttp
  BY <1>1 DEF StartHttp
<1>2. CASE BindUDP("echo", "tr471") \/ BindUDP("tr471", "ops")
  BY <1>2 DEF BindUDP
<1>3. CASE StartOps
  BY <1>3 DEF StartOps
<1>4. CASE Select \/ ShutdownReturns
  BY <1>4 DEF Select, ShutdownReturns
<1>5. CASE BeginShutdown \/ CloseOps
  BY <1>5 DEF BeginShutdown, CloseOps
<1>6. CASE GraceExpires
  BY <1>6 DEF GraceExpires
<1>7. CASE CloseEcho
  <2>1. main = "closeEcho" /\ main' = "closeTr471" /\ closer' = closer /\ closer = "running"
    BY <1>7 DEF CloseEcho, CloserInv, vars
  <2> QED
    BY <2>1
<1>8. CASE CloseTr471
  BY <1>8 DEF CloseTr471, CloseFlag, CloseConn, CloseReturns, vars
<1> QED
  BY <1>1, <1>2, <1>3, <1>4, <1>5, <1>6, <1>7, <1>8, Zenon DEF Startup, Stopping

\* The port scan is not disturbed by the daemon around the server.
LEMMA DaemonScan == TypeInv /\ ScanInv /\ [DNext]_allVars => ScanInv'
<1> SUFFICES ASSUME TypeInv, ScanInv, ServeFails PROVE ScanInv'
  BY DaemonStep, StepScanInv, Zenon
<1>1. /\ pc = "recv" /\ pc' = "stopped" /\ nextPort' = nextPort
      /\ probe' = probe /\ tried' = tried
  BY Zenon DEF ServeFails, resources, locals
<1> QED
  BY <1>1 DEF ScanInv, ScanIsExhaustive

\* When Serve fails no goroutine of the server has more to do than before.
LEMMA FailingServeWindsDown == ServeFails => WindsDown
<1> SUFFICES ASSUME ServeFails PROVE WindsDown
  OBVIOUS
<1>1. pc = "recv" /\ pc' = "stopped" /\ spc' = spc /\ closed' = closed
  BY Zenon DEF ServeFails, goroutines
<1>2. ~HandleSetup
  BY <1>1 DEF HandleSetup, ReserveRefused, ReserveGranted, SlotRefused, SlotTaken, Bind,
              BindFails, Unslot, ReleaseOnErr, SendReject, SendAccept, Spawn
<1>3. \A s \in Sessions : ~SessionStep(s)
  BY <1>1, Zenon DEF SessionStep, Activate, ActivationTimeout, TestEnds, Cleanup,
     CloseSocket, ReleaseBandwidth, SessionDone, WgDone, control
<1>4. SlotPending' = 0
  BY <1>1 DEF SlotPending
<1>5. \A s \in Sessions : StepsOf(spc[s])' <= StepsOf(spc[s])
  BY <1>1 DEF StepsOf
<1> QED
  BY <1>1, <1>2, <1>3, <1>4, <1>5, Zenon DEF WindsDown

\* What StopsWhenTold rests on, for every set of listeners and any number of
\* sessions and transfers: main's way to its return is bounded, and it waits in
\* Close only for sessions, each of which has a bounded number of steps left.
THEOREM ShutdownIsBounded == DSpec => ShutdownWindsDown
<1> DEFINE SInv == ScanInv /\ InClose
<1>1. DInit => SInv
  BY InitScanInv, Zenon DEF DInit, Init, InClose
<1>2. DaemonInv /\ SInv /\ [DNext]_allVars => SInv' /\ [MainGoesOn]_allVars
  <2> SUFFICES ASSUME DaemonInv, SInv, [DNext]_allVars PROVE SInv' /\ MainGoesOn
    BY Zenon
  <2>1. ScanInv'
    BY DaemonScan, Zenon DEF DaemonInv, ServerInv
  <2>2. CASE Startup \/ Stopping
    BY <2>1, <2>2, MainStepsFall, Zenon DEF DaemonInv, MainGoesOn
  <2>3. CASE ~(Startup \/ Stopping)
    <3>1. main' = main /\ graceOver' = graceOver /\ closer' = closer
      BY <2>3, OthersLeaveMain, Zenon
    <3>2. MainSteps' = MainSteps /\ InClose'
      BY <3>1, Zenon DEF MainSteps, CloserSteps, InClose
    <3> QED
      BY <2>1, <2>3, <3>2, Zenon DEF MainGoesOn
  <2> QED
    BY <2>2, <2>3
<1>3. DaemonInv /\ SInv /\ [DNext]_allVars => [WindsDown]_vars
  BY DaemonStep, StepWindsDown, FailingServeWindsDown, Zenon DEF DaemonInv, ServerInv
<1>4. DaemonInv /\ SInv => (main = "closeTr471" => WaitsForSessions)
  <2> SUFFICES ASSUME DaemonInv, wg # 0 PROVE LiveSessions # {}
    BY DEF DaemonInv, ServerInv, TypeInv, TypeOK, InClose, WaitsForSessions
  <2>1. wg = Cardinality(LiveSessions)
    BY Zenon DEF DaemonInv, ServerInv, CountInv, GroupLedger, LiveSessions
  <2> QED
    BY <2>1, FS_EmptySet, Zenon
<1> QED
  BY <1>1, <1>2, <1>3, <1>4, DaemonInvariant, PTL
     DEF DSpec, ShutdownWindsDown, ServerWindsDown
=============================================================================
