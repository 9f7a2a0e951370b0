# diagd in TLA+

diagd is a daemon that answers broadband diagnostics: TR-143 HTTP downloads and
uploads, TR-143 UDP Echo Plus, and TR-471 capacity tests (the OB-UDPST
protocol). This directory holds TLA+ models of its stateful parts, the TLC
configurations that check them, and TLAPS proofs of the results that matter
most. `PROJECT.json` maps every definition to the Go lines it stands for and
lists the runs, the mutants, the hazards and the theorems.

## The system

| Part | Source | Module | Modelled |
|---|---|---|---|
| TR-471 control plane, admission, sessions, Close | `internal/udpst/server.go`, `session.go` (`run`) | `SetupRequest`, `UdpstServer`, `Admission` | yes |
| TR-471 activation and policing | `session.go` (`awaitActivation`, `police`) | `Policing`, `Activation` | yes |
| TR-471 sending rate table | `internal/udpst/srates.go`, `session.go` (`sendBurst`) | `SendingRates` | yes |
| TR-471 rate search | `internal/udpst/algo.go` | `RateControl`, `RateSearch` | yes |
| TR-471 receive accounting | `internal/udpst/accounting.go` | `RxAccounting`, `RxStream` | yes |
| TR-471 upstream test | `session.go` (`runUpstream`) | `UpstreamTest` | yes |
| TR-471 downstream test | `session.go` (`runDownstream`, `sendLoop`) | `DownstreamTest` | yes, without real time |
| TR-143 HTTP transfers and `/live` | `internal/tr143/http.go`, `live.go` | `HttpTransfers` | yes |
| TR-143 UDP Echo Plus | `internal/tr143/echo.go`, `echo_linux.go` | `EchoResponder` | yes |
| Start and shutdown | `cmd/diagd/serve.go` | `Daemon` | yes, without flags |
| PDU layouts, digests | `protocol.go`, `auth.go` | `SetupRequest`, `Policing` (what the code reads) | partly |
| `/metrics`, `/healthz`, `/live` | `cmd/diagd/ops.go` | `HttpTransfers` (`/live`) | partly |

One control goroutine reads Setup Requests. It checks each, reserves bandwidth
in the requested direction, takes a session slot, binds a test socket, answers
and starts a session goroutine. The session waits for a Test Activation and
runs the test: upstream it accounts the client's load and steers its rate with
status messages, downstream it sends load at a rate steered by the client's
status messages. Either way it ends by giving back socket, bandwidth and slot.
The HTTP handlers and the echo loop are independent of it; `/live` and
`/metrics` read the state of all three. `cmdServe` starts them one by one, waits
for a signal or the first failure and shuts them down in order.

## Modules

`UdpstNumbers` holds the width of the counters, the "no delay" value and the
rounded mean `adjust` takes of the delays of a trial.

`SetupRequest` - the fields `handleSetup` reads and its checks in the order of
the code: `BeforeReserve` up to the reservation, `AfterReserve` the switch on
the authentication mode behind it. A digest is represented by the key it was
made with, so `verifyDigest` holds exactly for the named key.

`UdpstServer` - `pc` is where `handleSetup` is, `spc[s]` where the goroutine of
session `s` is, `closer` where `Close` is. Each critical section of `Server.mu`,
each socket call and each WaitGroup call is one action, so everything that can
run in between does. `wg.Wait` may return whenever the counter is zero, which is
how a late `wg.Add` is seen.

`Admission` - what the server promises, without sockets, counters and error
paths: tests hold leases within a budget per direction and a number of slots, at
most one request is being decided, closing stops new requests and waits for the
leases it sees. `ImplementsAdmission` in `UdpstServer` maps the reservation a
session has not released yet to its lease, `handleSetup` from its slot to the
start of the session to the request being decided, and `closer` to the phase of
closing; every other step is a stutter.

`Policing` - `police`, the fields of the response with their conversions, and
the parameters handed to the rate search, as operators over a request record.
`Carried` is what `marshal` and `parseTestAct` keep of a PDU in its long and in
its short form. `Reading`, the client's half, is external.

`SendingRates` - `BuildRateTable` as a formula for row `n`, whose digits are the
counters of the nested loops, and the sizes `sendBurst` makes of a row.

`Activation` - one session and its client from the first Test Activation Request
to the end, over a network that loses and repeats. `s` is chosen once from
`Scenarios` (version, flags, server limit, request).

`Daemon` extends `UdpstServer` with the main goroutine: `main` is where
`cmdServe` is, `st` the state of each listener, `errc` the errors in its channel.
`Close` of the TR-471 server is executed step by step as main's own. When main
returns the process is gone and nothing moves any more.

`RateControl` - `adjust` and `adjustAlgoC` with their integer arithmetic; one
operator per outcome. `SearchRuns` is what a test may do to its search: start it
and call `adjust`, nothing else. `RateSearch` drives it with arbitrary trials.

`RxAccounting` - `recordLoad` and what it calls, `maybeRoll`, `resetTrial`.
`RxStream` feeds it from a network that loses, delays and copies datagrams, and
keeps what really arrived to compare with. The ghost `forgotten` counts the
copies that arrive after the ring has lost their number: the reports may be wrong
by these and by nothing else.

`UpstreamTest` composes `RxAccounting` and `RateControl` with the receive loop.
Deadlines are kept as distances from now. `Duration` stands for
`p.duration + 500 ms`, `Watchdog` for `watchdogTimeout`. One step takes one
datagram of a batch, as the loop does.

`DownstreamTest` composes `RateControl` with receiver, `sendLoop` and stop timer.
Pacing is left out: a transmitter may find any number of bursts due, up to
`CatchUp`. `WriteBatch` accepts any part of a burst or fails.

`HttpTransfers` - each request is a goroutine. The steps between which a scrape
or a poll can fall (slot, gauge, byte counter, done flag) are separate actions.

`EchoResponder` - the read loop against a bounded kernel queue that stamps each
request with the drops so far (`SO_RXQ_OVFL`).

Operators with a suffix (`SlotAvailable_OffByOne`) are faults: each is the form
a plausible bug would give the definition behind it, and makes the property
`PROJECT.json` pairs it with fail.

## Runs

| Run | Shows |
|---|---|
| `server_load` | two slots, two ports, a budget of 3, a key, three requests and Close: the ledgers of bandwidth, slots and sockets hold on every path, no session starts unauthenticated, Close misses at most one session, and the server implements `Admission` |
| `daemon` | the process with its listeners in pairs and threes: a signal or a failed listener ends it, whatever HTTP clients do, unless Close waits for ever for a test its client keeps going; exit 0 means that every listener is down, that HTTP transfers were cut off only after the grace of Shutdown, and of TR-471 at most the session Close can miss; the ops server is closed last; while the process lives, in the long run only tests under way hold slots, ports, bandwidth and the WaitGroup |
| `activation` | requests at and beside each boundary of `police`, the short and the long PDU, lost responses, repeated requests and strays: the policed parameters fit together, client and session agree on them, asking again changes nothing, and the session ends unless load or statuses of its own client keep arriving. Rows all along every table: row n sends n Mbps with either IP version, and fits the sender's buffers |
| `rate_search` | index in the table, one fast back-off; lasting good (bad) trials lead to the top (bottom) row from any history |
| `rx_stream` | loss is never understated and exact until a sub-interval closes, duplicates are exact, each up to the forgotten copies; a sub-interval covers its trials; delay and RTT samples are consistent, and the mean the search judges by lies among the samples until the sum overflows |
| `upstream` | the loop ends once the client is silent, and a trial without data moves the rate only as a round-trip sample kept from an earlier one says |
| `downstream` | gap-free numbering, the last datagrams are stops, and a test the receiver has left finishes |
| `http_transfers` | slots and gauge are exact and come back but for those of a transfer blocked on its client, final bytes are shown to a poller, downloads are as asked and within the limit, also when a size overflows |
| `echo` | replies are numbered without gaps; each valid request is answered or accounted for |

Three further runs state what a comment or a document says and show by a
counterexample that the code does otherwise; `PROJECT.json` quotes the lines
under `findings`:

| Run | The code |
|---|---|
| `server_close_waits` | `Close` may return before the session of a setup in progress has joined the WaitGroup |
| `server_direction` | the direction of the activation is not compared with the one reserved |
| `http_live_grace` | finished transfers leave the registry only when somebody polls |

Other disagreements between code and documents were met while modelling. The
models follow the code, and the property concerned says so:

* "Stops cleanly on SIGTERM" (`docs/deployment.md:177`,
  `docs/guides/quickstart.md:43`). `Close` waits for tests without a limit, and
  every datagram the test accepts refreshes its watchdog, after the stop as well
  (`session.go:398`, `session.go:467`): a client that keeps sending keeps the
  process. `StopsWhenTold` makes this wait its one exception. And a transfer that
  outlives the 5 s of Shutdown (`serve.go:189`) is cut off with exit 0, which
  `CleanExit` states.
* "The CE threshold parameter is accepted and echoed but never triggers a rate
  reduction" (`README.md:103`). Upstream that is so, as nothing counts CE marks;
  downstream the count of the client's status goes to `adjust`
  (`session.go:489`), which treats a trial over the threshold as bad
  (`algo.go:57`). `FallsToBottom` and the proofs about the search count it so.
* "No data means no change" (`algo.go:48`). `resetTrial` does not clear
  `rttVarSample`, so on round-trip delays a trial in which nothing arrived is
  judged by the sample of an earlier one, once there is one, and can move the rate
  either way. `EmptyTrialsFollowSample` says exactly when, and that nothing else
  of earlier trials matters.
* `parseSizeName` "parses filenames [...] into a byte count" (`http.go:227`). The
  product with the unit has no overflow check, so a name beyond int64 is served
  as another size, or as none. `DownloadsAsAsked` is about the size served: what
  is sent, what is complete, and the operator's limit.

`PolicingIsStable` leaves out a CE threshold on a host that refuses the marking:
`police` keeps the threshold and clears the marking, and a client that asked again
without the marking would lose the threshold as well.

While Close waits for tests the ops server goes on answering `/healthz`;
`OpsOutlivesTests` states this order, which keeps `/metrics` readable.

## Bounds

Bounds are constants named in the modules (`MaxRequests`, `MaxSeq`,
`MaxArrivals`, `MaxStatus`, `MaxSub`, `RetryBound`, `MaxBody`, `MaxNow`). They
were chosen so that each limit is met from both sides: requests that exceed the
budget together but not alone, one request more than slots, a port range that
wraps and is exhausted, a ring smaller than the stream, a receive queue that
overflows repeatedly, a reply number that wraps (`Word` 5 in `echo`), rate
tables with rows on both sides of the high-speed threshold and steps larger than
it, a download that is not a multiple of the block, sizes that overflow to a small
and to a negative one (`SizeWord` 256 in `http_transfers`). Symmetry is used for session
names in `server_load`, which has no liveness property. It has as many session
names as slots, so a session that has given back its slot and not yet left the
WaitGroup keeps its name from the next one; the theorems are not limited so.

`activation` uses the real table (`Rows` 1153), of which it starts tests at three
rows of every ten and at the last ones, and the real limits of `police`;
its requests vary one group of fields that interact at a time (thresholds,
times, marking, tuning), each at, just inside and just outside its limits. Two
seconds of `WatchdogTimeout` are enough to tell a deadline that moves from one
that does not. `daemon` enables listeners in sets in which every pair meets with
what it has to wait for; the HTTP server shows only whether a transfer is under
way (`MaxTransfers`), and the budget is the one of two sessions of the one kind of
request: how requests of different sizes compete for it is what `server_load`
checks. `upstream` has two datagrams, each early or late enough to be good or bad on
either kind of delay, so that trials with and without data and both verdicts follow
each other. In `rx_stream` the deltas span more than a third of `Word`, so that three
long samples overflow the sum, one overflows ten times it, and short ones neither.

Deadlock checking is off where the system stops: a client that sends no more
(`rx_stream`), an echo loop whose socket is closed, a session that has ended
(`activation`). In `UpstreamTest`,
`DownstreamTest`, `UdpstServer` and `Daemon` the final state has a stuttering disjunct, so
any other stop would be reported.

`RetryBound` only cuts off bad trials once algorithm C's threshold has grown
past it; `CountBad` keeps a count up to the threshold above which the code no
longer tells values apart.

## Fairness

* `Daemon`: goroutines that can run do run (weak fairness of each as a whole: main,
  Serve, and each session outside its test), Shutdown's timer expires and the read
  deadline ends `awaitActivation`. Nothing is assumed of a test: as long as its
  client goes on sending, nothing ends it. `StopsWhenTold` excuses a Close that
  waits for one such test for ever, and `OnlyTestsHoldOn` says that what is held in
  the long run is what the tests under way hold. HTTP transfers need not end, no
  request and no signal need come.
* `Activation`: the clock runs and the loops read it. Nothing is asked of the
  network or of the client, and that a test is told to end (`Finish`) is not
  assumed: `SessionEnds` has the alternative that accepted traffic goes on for ever.
* `UpstreamTest`: the loop is scheduled and time passes. The client sends at
  most `MaxSeq` datagrams, so it falls silent. A client that does not is outside
  `TestEnds`: load refreshes the watchdog after the stop as well.
* `DownstreamTest`: both goroutines are scheduled. When the receiver leaves its loop
  is up to the client and not assumed; `TestFinishes` starts there.
* `RateSearch`: sub-intervals end; that trials of the lasting kind go on is a
  premise of the two properties.
* `HttpTransfers`: a handler takes its own steps (`OwnStep`). That a `Write` or a
  `Read` returns is not assumed, since the server sets no timeout for it:
  `SlotsComeBack` says that only a transfer waiting in one keeps its slot.

## Proofs

All theorems hold for every value of the constants that the named assumptions
allow; TLC evaluates these on the runs. They are `BudgetAssumption`,
`OptionAssumption`, `ServerAssumption`, `DaemonAssumption`, `TableAssumption`,
`SearchAssumption`, `RingAssumption`, `StreamAssumption`, `TimeAssumption`,
`ThresholdAssumption`, `SenderAssumption`, `WordAssumption`, `RowsAssumption`,
`ActivationAssumption`, `HttpAssumption` and `EchoAssumption`. Every safety
property of a passing run has a theorem. Bounds such as `MaxRequests` are
constants like any other and may be as large as one likes; only the receive
accounting needs them below the width of its counters.

* `UdpstServerProofs`: `TypeCorrect`; `BandwidthIsConserved` and
  `BudgetIsRespected`. The ledger is not inductive alone: one has to know that
  `handleSetup` holds a reservation only in certain steps, that a session
  without one skips its release, and that reservations fit the budget, so that
  the set of units a session holds has as many members as Mbps were reserved.
  A reservation moves between control goroutine, session and counter, and the
  cardinality lemmas follow the units. `SocketsAreOwned`; `ScanCoversRange`,
  whose invariant is that the ports tried are those at offsets below `probe` from
  `nextPort`, modulo the span; `OnlyAuthenticatedSessions`. `ServerIsBounded`
  counts the steps `handleSetup` (with the ports left to its scan) and each
  session have left.
* `DaemonProofs`, first part: slots and WaitGroup by the same argument with one
  unit per session; `LateSessionsAreBounded` from the invariant that once Close
  has returned the sessions that run and the setup that may still become one are
  at most one together. `ServerImplementsAdmission` is the refinement: under those
  invariants every step of the server maps to one step of `Admission` or to a
  stutter. The delicate steps are the slot (the abstract `Ask` needs budget and
  slots free in terms of leases, the code checks two counters) and the return of
  Close (abstract `Closed` needs that no lease is out, the code reads a
  WaitGroup).
* `DaemonProofs`, second part: every step of `diagd serve` leaves the server
  alone, is one of its steps or is the failure of its Serve (`DaemonStep`), and
  when Serve fails the control goroutine holds nothing (`FailingServe`). So the
  server's invariants carry over, and with them the refinement
  (`DaemonKeepsThePromise`). `ExitIsClean` and `OpsIsClosedLast` add what main
  has been through: a listener that is disabled was never started, one whose
  stage of the shutdown is over is down and cannot come up again, shutdown is
  entered on a signal, only main moves Close on, and Shutdown returns with transfers
  under way only after its grace. `ShutdownIsBounded` counts main's
  steps to its return.
* `RateControlProofs` has a lemma per outcome of `adjust` and the theorems about
  the search over a whole test. `RunsAreDisciplined` is about `SearchRuns`, any
  sequence of calls of `adjust`: the index stays in the table, jumps up only before
  the first congestion and down only at the bad trial that reaches the threshold.
  `SearchIsARun`, `UpstreamDrivesSearch` and `DownstreamDrivesSearch` show that the
  search alone and both tests are such sequences, every other step being a stutter;
  so it holds in both (`UpstreamIsDisciplined`, `DownstreamIsDisciplined`, the latter
  with the index `sendLoop` reads). For the upstream test one has to know that what
  the accounting hands over are counters `adjust` is specified for (`InputInv`).
  The module extends `RateSearch`, whose names
  (`SearchSpec`, `subNo`, `Measurements`) are its own for that reason.
* `UpstreamProofs`: `EmptyTrialsMoveBySample` needs that the counters of a trial
  without datagrams are those of a new trial, which `resetTrial` and every
  `recordLoad` keep, and that the thresholds are in order
  (`ThresholdAssumption`). Then the delay is the kept sample or else `lowThresh`,
  which is neither good nor bad (`EmptyTrialVerdict`), and the index rises only on
  a good verdict and falls only on a bad one (`VerdictMoves`).
* `DownstreamProofs`: `NumberingIsGapFree` with the invariant that no burst is
  pending outside the write step; `StreamEndsWithStop` with the invariant that
  after a stop datagram the flag is set and no test burst is prepared.
* `RxStreamProofs`: the invariant relates what was delivered, the ring and the
  counters: every number in the ring has arrived, and those that have arrived
  are at most `seq`. `LossIsCovered` follows since a loss is taken back only for
  a number that had not arrived or whose copy is counted as forgotten.
  `ArrivalChanges` says what one datagram does to loss, duplicates and the number
  really missing; `LossIsExact` and `SubIntervalsCover` are read off it.
  `DelaysInOrder` has no premise on delays or on the number of datagrams. The sum of
  delays is a `uint32` in the code, so the property itself names the bounds: up to
  `SumFits` the sum lies between count times the smallest and the largest sample;
  `adjust` multiplies it by ten before it divides, so that the mean it judges by lies
  among the samples holds up to `MeanFits`, ten times as early.
* `ActivationProofs`: for every request 16- and 8-bit fields can hold, every
  version, server limit and table. Lemmas bound each policed field
  (`PolicedRanges`, `TimesInRange`, `SuppressionEnds`), show that each conversion
  of the response is exact on those bounds (`ResponseIsExact`, `SubIntIsExact`,
  `ShortIsExact`), and that policing leaves answered values alone
  (`ResponseIsStable`). `ClientAndSessionAgree`, `PolicingFixpoint` and
  `PolicingFits` follow from the invariant that what is in flight and what the
  client read are the response to the session's parameters. `PolicingFits`
  discharges `TableAssumption` for the parameters of `RateControl` and
  `ThresholdAssumption`. `RowsAreTheirRates` and `RowsAreBuffered` take the
  rate table apart: below the threshold row n is written in its digits (`IsRow`),
  whose two transmitters add up to n Mbps (`RowSends`); above it a row is one
  burst, whose size or length grows (`Region2Grows`).
* `Tr143Proofs`, echo: `RepliesNumbered` from the invariant that the counter of
  responses is the number of replies modulo its width; `RequestsAccounted` with
  the invariant that the drop counts in the receive queue grow and lie between
  the last one reported and the kernel's.
* `Tr143Proofs`, HTTP: one invariant per transfer, of its request, its bytes and
  its entry of the registry, gives `DownloadsKept` and `FinalBytesAreFinal`; the
  limit on downloads is checked against the size after its overflow, so it holds
  for what is sent. `SizedDownloadsEnd` counts the steps of a download.
  `SlotsAreHeld` counts holders as the server's slots are counted.
  `FinalsAreSeen` has the premise `PollGap <= Grace`: its invariant is that an
  ended transfer has been seen, or is still registered and ended after the last
  poll.

A leaf that needs no arithmetic names the prover Zenon; the others are left to the
SMT solver, whose translation of large contexts takes much longer.

`TypeCorrect`, `GroupIsConserved`, `RetryIsBounded`, `SearchReacts`,
`StreamTypeCorrect`, `SharedRateIsARow` and `SocketOutlivesSender`, the results about
`SearchRuns` and the ranks below are proved and need no run of their own.

Only model-checked: liveness, since the prover does not reason about fairness
(`StopsWhenTold`, `OnlyTestsHoldOn`, `SessionEnds`, `ClimbsToTop`, `FallsToBottom`,
`TestEnds`, `TestFinishes`, `SlotsComeBack`). For most of these the argument that
does not need fairness is proved, a natural number that a goroutine's own steps
lower and no other step raises:

| Theorem | Rank | Behind |
|---|---|---|
| `TrialsCount` | good trials left to the top row (algorithm C moves on every second one), bad trials left to the bottom | `ClimbsToTop`, `FallsToBottom` |
| `SenderIsBounded` | steps `sendLoop` has left in its pass once `done` is closed | `TestFinishes` |
| `SizedDownloadsEnd` | steps of the handler, bytes left included | `SlotsComeBack`, for sized downloads |
| `ServerIsBounded` | steps of `handleSetup` and of a session; nothing new once `closed` is set and no setup is in progress | `OnlyTestsHoldOn` |
| `ShutdownIsBounded` | steps of main to its return, those of Close among them; it waits in Close only while a session runs | `StopsWhenTold` |

What remains for TLC is that the goroutine goes on taking steps. `TestEnds` and
`SessionEnds` depend on the clock and have no such rank.

## Not modelled

Byte offsets of PDUs and text formats; the HMAC; the pacing clock of `sendLoop`;
byte counts and rates of reports; the CE counters of the receiver, which nothing in
the code increments (the CE count a client reports is an input of the search); flag
parsing; `BitsPerSecond`, which only displays; `/metrics` and
`/healthz`, which read counters and change nothing. These are layout,
cryptography and formatting: they hold no state that an interleaving or a fault
could spoil, and their unit tests reach them.

The overflow of the delay sum and that of the size product in a file name are
modelled with their width. What the search makes of a sum beyond it is arbitrary, and
a name beyond it is served as another size than the one it spells: the properties say
up to where the mean is right, and that the limit on downloads holds all the same.
`EveryRequestAccounted` is stated up to the wrap of the kernel's
32-bit drop counter.
