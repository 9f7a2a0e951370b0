---------------------------- MODULE HttpTransfers ----------------------------
(***************************************************************************)
(* The TR-143 HTTP endpoints of internal/tr143/http.go with the registry   *)
(* behind /live of live.go.  Every request is a goroutine; they share the  *)
(* slots, the counters and the registry with each other and with a poller. *)
(* A request r is [kind, n, unit]: a download of n units, a download of n  *)
(* ticks, or an upload; head marks a HEAD request.                         *)
(***************************************************************************)
EXTENDS Integers, FiniteSets

CONSTANTS Transfers,         \* the requests of a behaviour
          Requests,          \* what they may ask for
          MaxConcurrent, MaxDownloadBytes, MaxDuration,   \* HTTPConfig, 0: none
          Multiplier,        \* the decimal units of sizeNameRE
          SizeWord,          \* 2^width of the signed size, int64 in the code
          Block,             \* len(payloadBlock)
          Grace,             \* liveGrace, in ticks
          PollGap,           \* the poller's longest gap between two polls
          MaxBody, MaxNow    \* bounds: bytes of an upload, and
                             \* of a timed download; ticks

VARIABLES pc, req, sent, complete, deadline,   \* the goroutines
          sem, active, rejects, tests,         \* HTTPHandler
          entries, bytes, ended,               \* liveRegistry; ended = -1: not done
          now, lastPoll, seen                  \* time; ghost: seen with done set

locals == <<req, complete, deadline>>
counts == <<sem, active, rejects, tests>>
registry == <<entries, bytes, ended>>
clock == <<now, lastPoll, seen>>
vars == <<pc, locals, sent, counts, registry, clock>>

Kinds == {"sized", "timed", "upload"}
RequestType == [kind : Kinds, n : Nat, unit : DOMAIN Multiplier, head : BOOLEAN]

ASSUME HttpAssumption ==
    /\ IsFiniteSet(Transfers) /\ Requests \subseteq RequestType
    /\ MaxConcurrent \in Nat /\ MaxDownloadBytes \in Nat /\ MaxDuration \in Nat
    /\ Multiplier \in [DOMAIN Multiplier -> Nat]
    /\ SizeWord \in Nat \ {0} /\ Block \in Nat \ {0}
    /\ Grace \in Nat /\ PollGap \in Nat /\ MaxBody \in Nat /\ MaxNow \in Nat

NotDone == -1
NoRequest == [kind |-> "none", n |-> 0, unit |-> "none", head |-> FALSE]

\* parseSizeName: the product is taken in the width of the size.
Size(r) ==
    LET x == (r.n * Multiplier[r.unit]) % SizeWord
    IN  IF 2 * x >= SizeWord THEN x - SizeWord ELSE x

Init ==
    /\ pc = [t \in Transfers |-> "new"]
    /\ req = [t \in Transfers |-> NoRequest]
    /\ sent = [t \in Transfers |-> 0] /\ complete = [t \in Transfers |-> FALSE]
    /\ deadline = [t \in Transfers |-> 0]
    /\ sem = 0 /\ active = 0 /\ rejects = 0
    /\ tests = [downloads |-> 0, uploads |-> 0, bytesSent |-> 0, bytesReceived |-> 0]
    /\ entries = {} /\ bytes = [t \in Transfers |-> 0]
    /\ ended = [t \in Transfers |-> NotDone]
    /\ now = 0 /\ lastPoll = 0 /\ seen = {}

Goto(t, l) == pc' = [pc EXCEPT ![t] = l]

-----------------------------------------------------------------------------
(* Admission                                                               *)

OverLimit(r) ==
    \/ r.kind = "sized" /\ MaxDownloadBytes > 0 /\ Size(r) > MaxDownloadBytes
    \/ r.kind = "timed" /\ MaxDuration > 0 /\ r.n > MaxDuration

\* Fault: the semaphore has room for one more.
SlotFree_OffByOne == MaxConcurrent = 0 \/ sem <= MaxConcurrent

SlotFree == MaxConcurrent = 0 \/ sem < MaxConcurrent

\* 403: no slot is taken, nothing is counted.
Refuse(t, r) ==
    /\ pc[t] = "new" /\ OverLimit(r)
    /\ req' = [req EXCEPT ![t] = r] /\ Goto(t, "closed")
    /\ UNCHANGED <<complete, deadline, sent, counts, registry, clock>>

\* acquire's default case: 503.
Reject(t, r) ==
    /\ pc[t] = "new" /\ ~OverLimit(r) /\ ~SlotFree
    /\ req' = [req EXCEPT ![t] = r] /\ rejects' = rejects + 1 /\ Goto(t, "closed")
    /\ UNCHANGED <<complete, deadline, sent, sem, active, tests, registry, clock>>

Acquire(t, r) ==
    /\ pc[t] = "new" /\ ~OverLimit(r) /\ SlotFree
    /\ req' = [req EXCEPT ![t] = r]
    /\ sem' = IF MaxConcurrent = 0 THEN sem ELSE sem + 1
    /\ Goto(t, "slot")
    /\ UNCHANGED <<complete, deadline, sent, active, rejects, tests, registry, clock>>

\* A HEAD request goes straight to the deferred release.
AddActive(t) ==
    /\ pc[t] = "slot" /\ active' = active + 1
    /\ Goto(t, IF req[t].head THEN "release" ELSE "begin")
    /\ UNCHANGED <<locals, sent, sem, rejects, tests, registry, clock>>

-----------------------------------------------------------------------------
(* The transfer                                                            *)

\* liveReg.begin, after the deadline of a timed download has been set.
Begin(t) ==
    /\ pc[t] = "begin"
    /\ deadline' = [deadline EXCEPT ![t] = now + req[t].n]
    /\ entries' = entries \cup {t}
    /\ Goto(t, "run")
    /\ UNCHANGED <<req, complete, sent, counts, bytes, ended, clock>>

\* Fault: the last block of a sized download is sent whole.
Chunk_Whole(t) == Block

\* What the next Write or Read may move at most.
Chunk(t) ==
    IF req[t].kind = "sized" /\ Size(req[t]) - sent[t] < Block
    THEN Size(req[t]) - sent[t] ELSE Block

\* Fault: off by one at the size, so that the last block is never the last.
More_AtSize(t) ==
    CASE req[t].kind = "sized" -> sent[t] <= Size(req[t])
      [] req[t].kind = "timed" -> now < deadline[t]
      [] OTHER -> sent[t] < MaxBody

\* The loop condition; an upload goes on until its body ends.
More(t) ==
    CASE req[t].kind = "sized" -> sent[t] < Size(req[t])
      [] req[t].kind = "timed" -> now < deadline[t]
      [] OTHER -> sent[t] < MaxBody

\* One Write, or one Read of an upload, and the client still there.  How fast a
\* timed download goes is bounded.
Move(t) ==
    /\ pc[t] = "run" /\ More(t)
    /\ req[t].kind = "timed" => sent[t] < MaxBody
    /\ sent' = [sent EXCEPT ![t] = @ + Chunk(t)]
    /\ Goto(t, "store")
    /\ UNCHANGED <<locals, counts, registry, clock>>

\* A Write or Read fails: the client has gone away.  Some bytes may still have
\* moved, and a sized download whose last bytes did is complete all the same.
Torn(t) ==
    /\ pc[t] = "run" /\ More(t)
    /\ \E n \in 0..Chunk(t) : sent' = [sent EXCEPT ![t] = @ + n]
    /\ complete' = [complete EXCEPT ![t] =
                       req[t].kind = "sized" /\ sent'[t] = Size(req[t])]
    /\ Goto(t, "last")
    /\ UNCHANGED <<req, deadline, counts, registry, clock>>

\* Fault: the counter is stored only while the transfer goes on.
Store_NotLast(t) ==
    /\ pc[t] \in {"store", "last"}
    /\ bytes' = IF pc[t] = "store" THEN [bytes EXCEPT ![t] = sent[t]] ELSE bytes
    /\ Goto(t, IF pc[t] = "store" THEN "run" ELSE "count")
    /\ UNCHANGED <<locals, sent, counts, entries, ended, clock>>

\* lt.bytes.Store, also after a failed Write.
Store(t) ==
    /\ pc[t] \in {"store", "last"}
    /\ bytes' = [bytes EXCEPT ![t] = sent[t]]
    /\ Goto(t, IF pc[t] = "store" THEN "run" ELSE "count")
    /\ UNCHANGED <<locals, sent, counts, entries, ended, clock>>

\* The loop ends by itself; the body of an upload may end anywhere.
Complete(t) ==
    /\ pc[t] = "run" /\ (~More(t) \/ req[t].kind = "upload")
    /\ complete' = [complete EXCEPT ![t] =
                       req[t].kind = "sized" => sent[t] = Size(req[t])]
    /\ Goto(t, "count")
    /\ UNCHANGED <<req, deadline, sent, counts, registry, clock>>

\* downloads or uploads and the byte totals; the completion event.
Count(t) ==
    /\ pc[t] = "count" /\ Goto(t, "done")
    /\ tests' = IF req[t].kind = "upload"
                THEN [tests EXCEPT !.uploads = @ + 1, !.bytesReceived = @ + sent[t]]
                ELSE [tests EXCEPT !.downloads = @ + 1, !.bytesSent = @ + sent[t]]
    /\ UNCHANGED <<locals, sent, sem, active, rejects, registry, clock>>

\* The deregistration hook.
Done(t) ==
    /\ pc[t] = "done" /\ ended' = [ended EXCEPT ![t] = now] /\ Goto(t, "release")
    /\ UNCHANGED <<locals, sent, counts, entries, bytes, clock>>

SubActive(t) ==
    /\ pc[t] = "release" /\ active' = active - 1 /\ Goto(t, "free")
    /\ UNCHANGED <<locals, sent, sem, rejects, tests, registry, clock>>

FreeSlot(t) ==
    /\ pc[t] = "free" /\ sem' = (IF MaxConcurrent = 0 THEN sem ELSE sem - 1)
    /\ Goto(t, "closed")
    /\ UNCHANGED <<locals, sent, active, rejects, tests, registry, clock>>

-----------------------------------------------------------------------------
(* /live                                                                   *)

\* Fault: an entry is dropped at the end of its grace, not after it.
Expired_AtGrace(t) == ended[t] # NotDone /\ now - ended[t] >= Grace

Expired(t) == ended[t] # NotDone /\ now - ended[t] > Grace

\* snapshot: drop what has expired, show the rest.
Poll ==
    /\ entries' = {t \in entries : ~Expired(t)}
    /\ seen' = seen \cup {t \in entries' : ended[t] # NotDone}
    /\ lastPoll' = now
    /\ UNCHANGED <<pc, locals, sent, counts, bytes, ended, now>>

Tick ==
    /\ now < MaxNow /\ now - lastPoll < PollGap
    /\ now' = now + 1
    /\ UNCHANGED <<pc, locals, sent, counts, registry, lastPoll, seen>>

Handle(t) ==
    \/ AddActive(t) \/ Begin(t) \/ Move(t) \/ Torn(t) \/ Store(t) \/ Complete(t)
    \/ Count(t) \/ Done(t) \/ SubActive(t) \/ FreeSlot(t)

Next ==
    \/ \E t \in Transfers, r \in Requests :
          Refuse(t, r) \/ Reject(t, r) \/ Acquire(t, r)
    \/ \E t \in Transfers : Handle(t)
    \/ Poll \/ Tick

Spec == Init /\ [][Next]_vars

\* What a handler does by itself.  When a Write or a Read returns is the client's
\* affair, and a timed download looks at its deadline only after one.
OwnStep(t) ==
    \/ AddActive(t) \/ Begin(t) \/ Store(t) \/ Count(t) \/ Done(t) \/ SubActive(t)
    \/ FreeSlot(t) \/ (req[t].kind = "sized" /\ Complete(t))

\* The goroutines are scheduled; nothing is asked of the clients.
FairSpec == Spec /\ \A t \in Transfers : WF_vars(OwnStep(t))

-----------------------------------------------------------------------------
(* Properties                                                              *)

Counted == {"begin", "run", "store", "last", "count", "done", "release"}
Holding == Counted \cup {"slot", "free"}
Holders == {t \in Transfers : pc[t] \in Holding}
CountedIn == {t \in Transfers : pc[t] \in Counted}

\* Every way through a handler, HEAD and a torn connection included, keeps
\* exactly one slot while it runs: acquire never lets more than MaxConcurrent
\* transfers in, and what release returns is what acquire took.  The active
\* gauge is raised after the slot is taken and lowered before it is returned,
\* so a scrape of /metrics at any moment reads no more than the slots.
SlotsMatchHolders ==
    /\ active = Cardinality(CountedIn)
    /\ MaxConcurrent > 0 => /\ sem = Cardinality(Holders)
                            /\ active <= sem /\ sem <= MaxConcurrent

\* What /live shows of a finished transfer is final: every byte the transfer
\* counted, those of a failed Write included, was stored before done was set.
FinalBytesShown == \A t \in entries : ended[t] # NotDone => bytes[t] = sent[t]

\* A poller that never waits longer than liveGrace sees the final figures of
\* every transfer before snapshot drops it, wherever its polls fall.
NoFinalLost ==
    \A t \in Transfers : ended[t] # NotDone /\ t \notin entries => t \in seen

\* A sized download never sends more than its Content-Length and is reported
\* complete exactly when it sent all of it; a time-based one is reported complete
\* only after it ran for the duration asked for.  The Content-Length is the size
\* as its width holds it: a size that overflows never gets around the operator's
\* limit on a download, and nothing is said of the name it was asked by.
DownloadsAsAsked ==
    \A t \in Transfers :
        /\ req[t].kind = "sized" /\ MaxDownloadBytes > 0 =>
              sent[t] <= MaxDownloadBytes
        /\ req[t].kind = "sized" /\ pc[t] \in Holding \ {"slot", "begin"} =>
              sent[t] = 0 \/ sent[t] <= Size(req[t])
        /\ pc[t] \in {"count", "done"} =>
              /\ req[t].kind = "sized" => (complete[t] <=> sent[t] = Size(req[t]))
              /\ req[t].kind = "timed" /\ complete[t] => now >= deadline[t]

AtClient ==
    {t \in Transfers : pc[t] = "run" /\ (req[t].kind = "sized" => sent[t] < Size(req[t]))}

\* Once the requests stop coming, the slots and the active count are those of the
\* transfers whose Write or Read has not returned: no path through a handler
\* keeps one, and what the clients do not hold has come back.
SlotsComeBack ==
    <>[](/\ active = Cardinality(AtClient)
         /\ MaxConcurrent > 0 => sem = Cardinality(AtClient))

\* README.md of the entries of /live: "dropped 15 seconds after they end, so
\* nothing survives beyond that".
NothingSurvivesGrace ==
    \A t \in entries : ended[t] # NotDone => now - ended[t] <= Grace + 1
=============================================================================
