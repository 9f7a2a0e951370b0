------------------------------ MODULE Admission ------------------------------
(***************************************************************************)
(* What the TR-471 server promises about admission, with the sockets, the  *)
(* counters and the error paths left out: tests hold leases on a budget    *)
(* per direction, at most one request is being decided at a time, and      *)
(* closing stops new decisions, waits for the leases it sees and can miss  *)
(* the one request that was already being decided.                         *)
(***************************************************************************)
EXTENDS Naturals, FiniteSets

CONSTANTS Tests,      \* names for tests
          Dirs,       \* directions
          Budget,     \* Mbps of a direction
          MaxTests    \* tests admitted at the same time

VARIABLES lease,      \* what each test has been granted
          asking,     \* the request that has been let in and not answered yet
          phase       \* "open", then "closing", then "closed"

avars == <<lease, asking, phase>>

Amount == [dir : Dirs, mbps : 0..Budget]
NoLease == [dir |-> "none", mbps |-> 0]

\* A lease of m Mbps is m units; a direction's load is the number of its units.
Leased(d) == {t \in Tests : lease[t].dir = d}
LeasedUnits(d) ==
    {u \in Leased(d) \X (1..Budget) : u[2] <= lease[u[1]].mbps}
Load(d) == Cardinality(LeasedUnits(d))
Idle == \A t \in Tests : lease[t] = NoLease

AInit == lease = [t \in Tests |-> NoLease] /\ asking = NoLease /\ phase = "open"

\* A request is let in: the server is open, a slot is free and what it asks
\* for fits beside the leases.
Ask(r) ==
    /\ asking = NoLease /\ asking' = r
    /\ phase = "open"
    /\ Cardinality({t \in Tests : lease[t] # NoLease}) < MaxTests
    /\ Load(r.dir) + r.mbps <= Budget
    /\ UNCHANGED <<lease, phase>>

\* No port for its test: the request is turned away after all.
Withdraw ==
    /\ asking # NoLease
    /\ asking' = NoLease
    /\ UNCHANGED <<lease, phase>>

Grant(t) ==
    /\ asking # NoLease /\ lease[t] = NoLease
    /\ lease' = [lease EXCEPT ![t] = asking]
    /\ asking' = NoLease
    /\ UNCHANGED phase

Return(t) ==
    /\ lease[t] # NoLease
    /\ lease' = [lease EXCEPT ![t] = NoLease]
    /\ UNCHANGED <<asking, phase>>

Closing == phase = "open" /\ phase' = "closing" /\ UNCHANGED <<lease, asking>>

\* Closing is over when no lease is out.
Closed ==
    /\ phase = "closing" /\ Idle
    /\ phase' = "closed"
    /\ UNCHANGED <<lease, asking>>

ANext ==
    \/ \E r \in Amount : Ask(r)
    \/ Withdraw
    \/ \E t \in Tests : Grant(t) \/ Return(t)
    \/ Closing \/ Closed

ASpec == AInit /\ [][ANext]_avars
=============================================================================
