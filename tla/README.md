# atlas-agent in TLA+

A model of atlas-agent, the Go program in `src/`: a measurement agent that keeps
one WebSocket connection to a *center*, receives jobs (ping, traceroute, dns,
http, tls, ntp), runs them in a pool of workers and sends the results back.
The modules are written from the code; the repository has no documentation
and no tests besides `src/config.example.yaml`.

## 1. Inventory

| Part | Code | State | Operations |
|---|---|---|---|
| Job handler | `internal/handler/handler.go` | job channel, worker goroutines, limits of the policy, `runningJobs`, `droppedJobs`, notification slot, `lastError` | `HandleMessage`, `handleAuthAck`, `applyPolicy`, `worker`, `notifyWorkers`, `handleJob`, `Status` |
| Job budget and result | same file | none | `jobTimeout`, `sendResult`, `classifyError`, `agentStatus` |
| Runners | `internal/runner/*.go` | a command, a socket or a query; two timers | `Run` of each type, name lookups, error types |
| WebSocket client | `internal/ws/client.go` | the connection, its mutex, `sendCh`, per connection a context, an error channel and three pumps | `Run`, `connectAndServe`, `sendAuth`, `readPump`, `writePump`, `heartbeatLoop`, `Send`, `Close`, `exponentialBackoff` |
| Store | `internal/store/store.go` | `probe_id` in a bolt file | `GetProbeID`, `SetProbeID` |
| Process | `cmd/agent/main.go` | the context a signal cancels | startup checks, signal handler |
| Configuration | `internal/config/config.go` | none | `Load`, `Validate` |
| Capabilities | `internal/runner/common.go` | none | `DetectCapabilities` at startup |

How they interact:

- The read pump of a connection calls `HandleMessage` synchronously; a job goes
  through the channel to a worker. The pump of a connection that was replaced
  may still be in `HandleMessage`, so two readers can be in it at once.
- A worker, or a reader that refuses a job, calls `h.send`, which is
  `client.Send`: it puts the result in `sendCh`, or drops it when the queue is
  full. The write pump of the current connection takes it from there. The
  write pump of an older one may still take one.
- `handleAuthAck` writes the store, applies the policy, or calls `client.Close`
  (`SetAuthFailedFunc`), which closes whatever connection is the newest.
- The heartbeat reads the handler's counters (`Status`).
- A signal cancels the context `Run` and all pumps watch.

What is hard here: tests and updates of atomics that are not one step; pumps
of two connections that share the queue, the mutex and `c.conn`; errors that
arrive late; two timers of a run that race with each other and with its
completion; a write that fails after its result left the queue; waits that end
only by a timeout. `PROJECT.json` lists these hazards at their lines.

What makes each part correct:

- Handler: a job is refused at once or answered once, and an admitted job is
  settled; the limits hold as far as the code can hold them; the counters the
  center sees are true; no policy before a stored probe id.
- Job run: every run ends, within a bound; the status fields of its result
  agree; a timer that ended a run is reported as a timeout.
- Client: results keep their order and are never written twice; every lost
  result has one of three causes; authentication precedes everything on a
  connection; no socket or goroutine is left behind; errors of stale pumps do not
  end the next connection; a dead link and a signal are noticed. Stale pumps are not
  harmless altogether: one that handles a late rejection closes the connection that has
  replaced its own (`client.go:263`), and no property says otherwise.
- The agent as a whole: a job is reported at most once, across connections and
  restarts; what the center hears of the identity follows the store, never going back
  to one that was overwritten or to none; the store goes back to the id of an older
  auth_ack only by the reader of a connection that was replaced (`handler.go:190`); the
  pool goes on while no connection is up.
- Lookups: the DN42 fallback hides neither an address nor the system resolver's
  error, and keeps within the timeout of the run.
- NTP: the offset is right within half of the network delay.

## 2. Modules

| Module | What it is |
|---|---|
| `JobService` | abstract specification: what happens to a job, as the center sees it |
| `Handler` | `handler.go` with one action per step of a goroutine that touches shared state |
| `HandlerProofs`, `HandlerAnswersProofs` | theorems about `Handler`: limits and policy; answers, counters and the refinement of `JobService` |
| `ResultService` | abstract specification: a queue of results with one server |
| `Client` | `client.go`: `Run`, the pumps of each connection, the network |
| `ClientProofs`, `ClientResultsProofs` | theorems about `Client`: connections and the mutex; results, types and the refinement of `ResultService` |
| `ReportService` | abstract specification: `JobService` and `ResultService` joined, the answer to a job enters the queue in the step that settles it |
| `JobPipeline` | `Handler` and `Client` as `main.go` joins them: the read pump calls `HandleMessage`, `h.send` is `client.Send` |
| `JobPipelineProofs` | theorems about `JobPipeline`: what is proved of the parts holds of the whole; the refinement of `ReportService` |
| `Agent` | `main.go`: store, handler and client in a process that crashes and restarts; instantiates `JobService` and `ResultService` |
| `AgentProofs` | theorems about `Agent` |
| `JobRun` | one run of a job: budget, lookups, runner, timers, status fields |
| `JobRunProofs` | theorems about `JobRun` |
| `NtpTime`, `NtpTimeProofs` | the timestamps of an NTP packet and what `ntp.go` computes from them |
| `MCHandler`, `MCClient`, `MCJobPipeline`, `MCAgent`, `MCJobRun` | instances for TLC |

A definition `BrokenX` stands before `X` and is `X` with a plausible mistake.
Nothing refers to it; substituted for `X` it makes TLC find a named property
violated (`PROJECT.json`, "mutants"), which shows that the property can fail.

### Handler

`rpc[r]` is where reader *r* is in `HandleMessage`: `CheckDepth` (the test of
`len(h.jobs)`), `Enqueue` (the `select` with its default), `Refuse` (the answer
to a refused job, after the counter was incremented), `HandleAuthAck`, and the
four stores of `applyPolicy`. `wpc[w]` is where worker *w* is in its loop:
`Receive`, `CheckSlot` (the loop condition), `Wake` (the token or the 100 ms
timer), `Start` (the increment), `HandleJob`, `Leave` (the decrement),
`NotifyWorkers`. `inbox` holds the jobs the center has yet to send; the
channel is the sequence `jobs`; `answers[j]` collects the results passed to
`h.send` for job *j*, reduced to the verdicts *queue full*, *unknown type* and
*measured*. The store is `probeID`; its write may fail. Numbers the code
clamps are clamped (`Clamp`), and `job_timeout_seconds` is multiplied in
64 bits (`Int64`), with `MaxInt64` as a constant.

Abstracted: what a runner does (`JobRun`), the contents of results, `lastError`,
`SetClockStatus` and `Status`, which only read.

### Client

`main` is where `Run` is, from `dial` through `install` (`c.conn = conn`),
`fetch` (the address lookups of `sendAuth`), `auth` (the write under the
mutex), `serve` (waiting for an error of a pump), `abandon` (cancel and close)
to `backoff`. `pump[k][c]` is the pump of kind *k* of connection *c*. `link[c]`
is its socket: *up*; *dead* (the peer vanished, writes still succeed); *dying*
(something was written to a dead peer, so TCP will give up); *broken*; or
*closed*. `connMu` is the mutex across a write; `carried[c]` is the result the
write pump has taken from `sendCh`; `delivered` and `fate` record what became of
each result, and `failedOn` on which connection its write failed. A `select` with
several ready cases takes any of them, so a pump whose context is cancelled may still take a result.

Abstracted: the frames' contents except whether an auth_ack rejects; ids of
results (the *n*-th `Send` is result *n*); lookups before the auth frame, of
which only the end matters.

### ResultService

The promise of `Client` about results, without connections, pumps or locks:
`Put` (queued, or lost to a full queue), `Take`, `Waste` (taken by a pump whose
connection is gone), `Deliver`, `Lose`. In `Client` the refinement mapping makes the
abstract `hand` what the pump of a connection whose link is up carries; what any
other pump carries is lost already.

### JobPipeline

Two instances: `C` of `Client`, and `H` of `Handler` with the connections of `C` for its
readers, since the reader of a message is the read pump of the same number. A joint
step has three forms. `ClientStep` is a step of the client alone; its `ReadPump`
reads on only when `HandleMessage` has returned. `HandleMessage(c)` is a step of the
reader; it begins only while the read pump is in its loop, and calls `Send` where a refused
job is answered. `Work(w)` is a step of the worker, which calls `Send` where a job with a payload
is settled. `Send` is one step of both: the last statement of `handleJob` calls
`client.Send`, which never waits, and the counter is decremented in a later step.
A reader may be in `HandleMessage` while its connection ends, is given up, and is
followed by the next.

`Client` numbers the results, `Handler` names the jobs. `passed` is the sequence of the jobs
passed to `Send`, so `passed[r]` is the job of result *r*; it is a history variable, on which
no guard depends. `Client` bounds the calls of `Send` by `MaxResults`, which the code does not;
here `MaxResults` is the number of jobs, and `SendNeverWaits` proves that the bound is
never met by a goroutine about to send.

### ReportService

The promise of the two together: `Refuse` and `Settle` of `JobService` each with the `Put` of
`ResultService` in the same step (a job without a payload is settled without one),
`Proceed` for the steps of a job that send nothing, `Report` for those of a result. In
`JobPipeline` the abstract results are jobs: the mapping is that of `Handler` and that of
`Client`, with `passed` applied to the latter.

### Agent

`main` is where `main` and `Run` are, from `down` (no process) through `dial`, `fetch`
(`sendAuth` has yet to read the store), `auth` (it has, and has yet to write) and
`serve` to `closing` (`Run` has returned, the store is open) and `exiting` (the deferred
`s.Close()` is done, other goroutines still run). `Crash` may happen anywhere;
`End` empties everything but the file. `disk` is the sequence of all ids
`SetProbeID` committed, whose last is in the file. A frame carries an id as the number
of commits it is the last of: `authAs` and `beat[c]` hold it between the read of the store
and the write of the frame, and `seen` is what the center heard last. `writers` is a
history variable: which connection's reader made each commit. `inbox[c]` are the
auth_acks on connection *c* not yet read, numbered in the order the center sent them.

The job handler is `JobService` and the client's queue is `ResultService`, the two
specifications that the runs of `Handler` and `Client` show to be implemented: a
worker that settles a job is one step of both, which is what `JobPipeline` shows of the
detailed ones (`PipelineImplementsReports`). What is
detailed here is what those modules leave out, the goroutines that read and write
the store.

Abstracted: each job is sent once, so a job not yet sent and one not yet read are
the same; the mutex and the error channels (`Client`); policies (`Handler`); a link is
*up* or *down*, whether closed, broken or silently dead, for what is written on it
reaches the center or does not.

### JobRun

`job` holds the options as the center sent them. `Begin` computes the budget as
`jobTimeout` does and runs the runner's checks; then the run waits in one
*phase* after another: `command` (ping, traceroute), `resolve`, `exchange`,
`connect` and `answer` (dns: the dial over udp, which waits only for a resolver given by
name to be looked up, and the reply; then the dial over tcp, where that look-up happens again,
and the reply: a truncated reply is asked for again over tcp),
`request` (http), `dial` and `talk` (tls, ntp). Before `command` and `dial` a name is
looked up: `lookup` is the system's resolver, and for a DN42 name `fallback` is
`lookupDN42DNS`, four queries one after the other, of which `query` is the current
one, `queryEnd` its 3 s and `found` whether any had an address; `sysErr` keeps the error of
the system's resolver. `Timers` says which of
`budget` (the context of `handleJob`), `own` (the runner's context, client or
socket deadline) and `query` end each wait. `own` is a command's latest natural end while a
command runs. `ended` records which timers were due when one of them ended a
wait. Every order of the timers and of the natural end is explored. Errors are
reduced to what the code tests: the words *invalid* and *timeout* in the text,
and whether `context.DeadlineExceeded` is wrapped in it. `result` holds the four
status fields of `sendResult`.

Abstracted: targets (plain, a name, a DN42 name, refused), answers (which status the
runner derives from them), the parsing of output, all descriptive fields. The
programs ping and traceroute are external: a ping lasts at most one second per
probe but the last, plus `-W`; traceroute at most `TraceLength`.

### NtpTime

`writeNTPTime` and `readNTPTime` as functions on integers, with the units of the code
(10^9, 2^32, 2^32, 2208988800) as parameters: both conversions round down, and seconds
wrap around after an era. `Delay`, `TwiceOffset` (the code divides by two) and
`ReplyError` (mode, stratum, origin time, in the code's order) are `NTPRunner.Run` after
the read. `Measured` is its result for a server that works as the protocol says, for
any clock offset and any delays. The module has no variables: it is a pure
algorithm, in which no step can go wrong between two others.

## 3. What TLC checks

| Run | Instance | Shows |
|---|---|---|
| `MCHandler` | 2 readers, 2 workers, 3 jobs, one malformed and one of unknown type; a channel of 2 that can fill up between the depth test and the send; policies above each cap, with an overflowing timeout, and partial | `TypeOK`, `OnePlacePerJob`, `OneAnswerPerJob`, `CountersAccurate`, `PolicyNeedsProbe`, `ImplementsService` (refinement of `JobService`), `EveryJobSettles` |
| `MCHandlerRace` | 3 workers, `max_concurrency` 1 | **violated**: `ConcurrencyRespected` |
| `MCClient` | 2 connections, 2 results, queue of 1 | `OneWriter`, `AuthFirst`, `OneSocket`, `ResultsAccounted`, `InOrder`, `FailuresBounded`, `RejectedLinkCloses`, `HealthyLinkKept`, `ImplementsResults` (refinement of `ResultService`) |
| `MCClientPumps` | 2 connections, no results | `DeadLinkNoticed`, `ShutdownCompletes`, `PumpsEnd` |
| `MCClientLive` | 2 connections, 1 result | `SteadyLinkDrains` |
| `MCClientBackoff` | 1 connection | **violated**: `BackoffGrows` |
| `MCJobPipeline` | 1 connection, 1 worker, 2 jobs, one malformed, a send queue of 1, no policies | `SentOnce`, `JobsAccounted`, `OvershootBounded` (exact with one reader), `ImplementsReports` (refinement of `ReportService`), `EveryJobSettles` whatever the client does |
| `MCAgent` | 1 job, 2 connections, 2 auth_acks, 2 lives, a pool and a queue of 1 | `OneReportPerJob`, `IdentityFollowsStore`, `OnlyStaleReadersGoBack`, `PoolNeverBlocks`, `SteadyAgentReports` |
| `MCJobRun` | 4881 jobs: all types, targets, a job timeout that overflowed and one that did not, options on both sides of each check and default, and lookups cut off anywhere | `StatusesAgree`, `RunBounded`, `OwnTimerFirst`, `TimerMeansTimeout`, `FallbackHidesNothing`, `EveryRunEnds`; its assumption `NtpMeasures` checks `NtpTime` |
| `MCJobRunHttp` | the same | **violated**: `HttpDeadlineIsTimeout` |
| `MCJobRunPing` | `timeout_ms` of 1 s, nothing else | **violated**: `PingNotKilled` |
| `MCJobRunReject` | as `MCJobRun` | **violated**: `RejectedIsNoTimeout` |

### Bounds, and why they are enough

- Two readers: `readPump`s of two successive connections. A third adds no new
  kind of interleaving; the theorems hold for any number.
- Two workers: the races are between two of them. The readers of `MCHandler` are
  interchangeable, hence the symmetry. It is sound for `EveryJobSettles` too: neither
  that property nor the fairness it rests on names a reader, so a behaviour is fair and
  violates it exactly if the one with the readers exchanged does. The workers, to each of which
  the specification is fair, are not declared symmetric.
- Three jobs against a queue and a channel of up to 2: jobs are refused
  by the depth test, by the full channel, queued, held without a slot and run
  at the same time.
- `MCClientPumps` has no results, so that its liveness can be checked with two
  connections: there the write pump ends by its context only. That it reports its error and
  ends is in `MCClient` (safety) and in `MCClientLive`.
- `MCJobPipeline` joins two components whose own interleavings `MCHandler` and `MCClient`
  cover with two readers, two workers and two connections; it needs only what is new in their
  product: an answer sent before, during and after the connection, by the read pump
  and by the worker, to a queue with room and to a full one. A job
  that is handled on a connection that was replaced is not in the instance; the theorems,
  which hold for any number of connections, include it. For two readers `OvershootBounded` would
  take four jobs to violate, more than `MCHandler` has; that case is proved too (`Overshoot`).
- Two connections: one whose pumps are stale and one that is current. The
  pumps of a third meet those of the second as the second's met the first's.
  `MaxConns` bounds successful dials; failed dials are not bounded.
- Two results and a queue of one: order, overtaking and overflow.
- `MCAgent`: two auth_acks are what it takes for one to be stored over a newer
  one, two lives for one to follow a crash, two connections as above, shared by
  the lives; either both in one life or one in each. One job suffices for what
  `Agent` adds: order and overflow between results are `Client`'s. The
  counters bounded by `MaxAcks`, `MaxConns` and `MaxLives` end the behaviour, which is
  why its liveness is about jobs already admitted.
- Lookups: with timeouts of 3 and 28 ticks, the defaults, and deadlines of 9 and 60 ticks,
  a lookup is cut off in the system's resolver, in each of the four queries of 6 ticks, or not
  at all.
- `NtpMeasures`: seconds of 5 units against 8 steps of the fraction, so that both
  roundings lose something, and an era of 8 seconds, so that the clocks reach its end.
- `MaxInt64` is small in both modules so that overflow happens: in `JobRun` a
  count of 60 makes a budget negative. It also bounds `JobRun`'s clock, which no
  wait exceeds in the instance.
- A tick of `JobRun` is 500 ms, the smallest timeout a runner accepts; the
  relations between the timers are multiples of it. A deadline in the past is
  0 ticks (1 ms in the code).

### Fairness

- `Handler`: weak fairness of each worker. The Go scheduler runs every
  goroutine, `Wake` has a timer of 100 ms, and a run ends (`EveryRunEnds` of
  `JobRun`). Readers and the center owe nothing.
- `JobPipeline`: weak fairness of each worker, and nothing else: with a client that never
  connects, or one that stopped, every job admitted is still settled.
- `Client`: weak fairness of `Run` (dials, lookups and writes time out), strong
  fairness of each pump, because a pump may be enabled only now and then
  while others hold the mutex; `sync.Mutex` hands itself to a goroutine that has
  waited for a millisecond. TCP gives up on a peer that does not acknowledge
  data, weakly fair. A link on which nothing is sent may stay dead for ever:
  `DeadLinkNoticed` holds because the heartbeat writes.
- `Agent`: weak fairness of the workers, as in `Handler`, and of each connection's
  write pump, whose writes have a deadline. Dials, the center and the heartbeat owe
  nothing: `SteadyAgentReports` speaks only of a connection that stays up.
- `JobRun`: time passes, a due timer fires, a killed or finished command ends.
  The network owes nothing: no reply need ever come.

`CHECK_DEADLOCK FALSE` appears in the runs of `JobRun`, where a finished
run stops, and in `MCAgent`, where the process stops for good after its last life.
In `Client` the end of `Run` with all pumps ended is the action
`Terminated`; in `Handler` the workers never stop.

## 4. What is proved

`HandlerProofs`, for any finite sets of readers, workers and jobs, any policies
and any sizes allowed by `HandlerAssumption`:

- `TypeCorrect`: `Spec => [](TypeOK /\ RunningAccurate)`. Neither part is inductive
  alone: `Leave` decrements `runningJobs`, which stays a natural number only
  because it equals the number of workers between the increment and the
  decrement; and counting these needs the types. `Int64Fits` bounds the wrapped
  product.
- `Overshoot`: `Spec => []OvershootBounded`. Inductive given the types, with the
  readers between test and send counted as if they had sent: a reader enters
  that set only while the channel is below a `queue_size`, so with the others,
  fewer than the number of readers, the sum stays below the bound. `SetQueueSize`
  may lower the limit below the current depth; this is why the bound speaks
  of the largest size a policy can set.
- `PolicyAfterProbe`: `Spec => []PolicyNeedsProbe`, strengthened by
  `ApplyingNeedsProbe`: a reader in the middle of `applyPolicy` implies a stored
  probe id, which no step removes.

`HandlerAnswersProofs`, under the same assumption:

- `JobsHaveOnePlace` and `JobsHaveOneAnswer`: `OnePlacePerJob` and `OneAnswerPerJob`,
  which are one invariant, `PlaceInv`. It says point by point what the property says
  with sets: no two goroutines and no two places of the channel hold the same job, the kinds
  of places are disjoint, and a job that is in one of them has no answer while any other
  has one, or no payload, and its answer is one of `Answers(j)`: the refusal, or what its
  payload and its type call for. The step lemma has one part per move of a job (from the center to a
  reader, into the channel, to a worker, to its answer), and each action is one of these
  moves or none.
- `CountersTrue`: `CountersAccurate`. A job that is refused moves from the readers about to
  refuse to those answered *queue full*, so the sum of the two sets' sizes changes only
  where `droppedJobs` is incremented. That no job is refused twice comes from `PlaceInv`.
- `HandlerImplementsService`: `Spec => ImplementsService`. The abstract status of a job is
  read off its place: with the center or a reader that has not sent it (*offered*), held by a
  worker between the increment and the end of the run (*running*), otherwise on its way
  (*pending*), or the outcome of its answer. Each move of a job is then one abstract step.
  `Start` needs that fewer than `Capacity` jobs are run: they are held by different
  workers, and the one about to start is not among these.

`ClientProofs`, for any numbers of connections and results and any queue, as
`ClientAssumption` says. One invariant, `ConnInv`, says what `Run` holds at each point
(`RunHolds`: from `fetch` on `c.conn` is its connection, and no pump of that
connection has started before the auth frame is out), that connections are numbered in the order
they are dialled (`Numbered`), and that a pump reports only errors of a socket that works no
more (`ErrorsAreReal`); with `OneSocket` and `AuthFirst` it is inductive.

- `SocketsClosed` and `AuthComesFirst`: `Spec => []OneSocket` and `Spec => []AuthFirst`.
- `HealthyKept`: `Spec => HealthyLinkKept`. `Run` leaves `serve` for an error in the channel of
  its own connection, and by `ErrorsAreReal` such an error is no stale one.
- `RejectionCloses`: `Spec => RejectedLinkCloses`. `Close` closes `c.conn`, which need not be
  the connection that was rejected; but if it is not, `OneSocket` says the rejected one is closed.
- `OneWriterAtATime`: `Spec => []OneWriter`, from `MutexInv`: two writers are one, and
  there is one exactly while the mutex is held.

`ClientResultsProofs`, under the same assumption:

- `ResultsInOrder` and `ResultsAreSomewhere`: `InOrder` and `ResultsAccounted`, from one
  invariant, `ResultInv`. Results in the queue, delivered ones and those of pumps are ordered
  between each other, but a pump whose link is not up may be anywhere in that order: it
  will not deliver what it carries. That needs `StepIsOneWay`: a link that is not up
  never comes up again while a pump of it runs.
- `OneFailurePerLink`: `Spec => []FailuresBounded`. The pump that loses a result to a failed
  write ends with it: each such result is blamed on a connection whose link is useless and whose
  write pump has ended, and on which no other result failed (`Blamed`). A pump about to fail has
  not ended, so no result has yet been blamed on its connection.
- `TypeCorrect`: `Spec => []TypeOK`.
- `ClientImplementsQueue`: `Spec => ImplementsResults`. A step that moves no result can still be
  a step of the queue: when the link of the pump that carries the hand stops being up, the
  hand is lost, before the pump knows. Taking a result is `Take` for the pump of the one
  link that is up and `Waste` for any other.

`JobPipelineProofs`, for any constants that satisfy the assumptions of both parts:

- `HandlerRuns` and `ClientRuns`: `Spec => H!Spec` and `Spec => C!Spec`. Every joint step
  is a step or a stutter of each part, so the invariants and refinements proved of the parts
  hold here; the proofs below cite them (`HandlerFacts`, `ClientFacts`) and prove again nothing
  of what is in them.
- `TypeCorrect` and `EveryAnswerSent`: `TypeOK` and `SentOnce`, one invariant (`PassedInv`) that
  couples the parts: the jobs in `passed` are different, and are exactly those with an
  answer. It is inductive because a joint step is one of three kinds (`JointStep`):
  `Serving` moves results, `Proceeding` moves jobs without an answer, `Answering(j)` answers
  a job that had no answer and calls `Send` for it.
- `Overshoot`: `Spec => []OvershootBounded`, from the theorem of that name about `Handler`.
- `SendNeverWaits`: `Spec => []SendIsFree`. Whoever is about to answer job *j* has a job
  with no answer yet, so `passed` is an injection into the other jobs and shorter than their
  number: the bound `MaxResults` disables no step.
- `NoJobVanishes`: `Spec => []JobsAccounted`. A job under way has no answer (`Handler`'s
  `PlaceInv`), so it is not in `passed` and nothing in the client is of it; one that is answered
  is in `passed` once, at *n*, and `Client`'s `ResultsAccounted` says where result *n* is.
- `PipelineImplementsReports`: `Spec => ImplementsReports`. `Serving` is a `Report` once the
  results of the queue are renamed to jobs: renaming commutes with `Head`, `Tail` and
  `Append` (`NamedTail`, `NamedAppend`) and a longer `passed` renames old results as
  before (`NamedAgain`). `Answering(j)` is `Refuse` or `Settle` with the `Put` of `j`, which is new to the
  queue by `PassedInv`. No theorem about one part says this: `Handler` alone may
  settle a job whose result is never queued, and `Client` alone may be sent anything.

`AgentProofs`, for any numbers of connections, lives, auth_acks and jobs:

- `IdentityKept`: `Spec => IdentityFollowsStore`. The invariant `FramesFresh` says that only
  the newest connection can be up, and only while `Run` holds it, and that a frame which may still
  reach the center carries no id that was overwritten before the one the center has heard. The
  frames of older connections may, but are written to nobody. That is an order of commits,
  not of auth_acks: the reader of a replaced connection may commit the id of an older auth_ack
  last, and the center then hears it after the newer one. `Written`, which rests on the
  invariant of `AcksInOrder`, says that nothing else can bring this about: what a
  reader commits is newer than all that it and the readers of older connections have
  committed.
- `ReportedOnce`: `Spec => []OneReportPerJob`. `OnePlace` keeps the queue, the hand and what was
  delivered apart, and `ReportInv` adds that only jobs that are answered are among
  them, so `Put` never meets a job that is there already.
- `AcksInOrder`: `Spec => OnlyStaleReadersGoBack`. `AcksOrdered` says that what a connection
  has yet to read is newer than what was sent on earlier connections, and than
  what its readers have stored.
- `TypeCorrect`: `Spec => []TypeOK`, which needs `FramesFresh` and `ReportInv`.

`JobRunProofs`, for any sets of option values:

- `StatusesConsistent`: `Spec => []StatusesAgree`. By the cases of what a runner can
  return (an error, a failed measurement, a map with the status ok or none):
  `SendResult` maps each of them to fields that agree.
- `RunsAreBounded`: `Spec => []RunBounded`. The invariant `InTime` says for each wait
  which runner is in it, that the clock is not past its timers, and how late its
  own timer can be: a wait that hands over to the next does so before both
  timers, so each socket deadline adds at most one timeout to the time already
  bounded. A budget that overflowed below zero (or a job timeout that did) is the one case of a timer
  in the past, and then the clock is still 0. A dns run has three waits with a timeout of its own,
  or four if its resolver is given by name.

- `FallbackSound`: `Spec => []FallbackHidesNothing`. The invariant follows the
  queries: in `fallback` the system's error is kept and `query` is at most `Queries`; the phase
  is left only after the last one, with the error cleared exactly when an address is
  used.
- `TimersAreReported`: `Spec => []TimerMeansTimeout`. A timer ends a dns, tls or ntp
  wait only with an error that `errorType` calls a timeout; the exception the
  property names is the answer of the system's resolver.
- `OwnTimerFires`: `Spec => []OwnTimerFirst`, if `MaxInt64 >= 1204`: the largest
  `timeout_ms` times 20 probes, and two seconds, do not overflow (in the code 2^63 ns
  are 292 years). For a job the property speaks of, the lemma on the budget gives
  `budget > Timeout`; the invariant keeps `own < budget` in the waits before `talk`, and by
  `InTime` the deadline of `talk` is set early enough that it comes before the budget or with it.

- `TypeCorrect`: `Spec => []TypeOK`, from the types and timers of the theorems above and
  `RestTypes`: the clock stops at its bound, only timers of contexts are blamed, and a result is
  one of those `SendResult` makes of what a runner returns.

`NtpTimeProofs`, for any units that satisfy `Units` (the code's do):

- `OffsetAccurate`: `GoodMeasurement` for all clocks and delays within one era. From
  the lemma that `Wire(t)` is `t` or `t - 1`: as there are at least as many fractions as
  nanoseconds in a second, two roundings lose at most one nanosecond.
- `EraEnds`: `RolledOver` for all times of era 1.

Only model-checked are the liveness properties, which are out of the prover's reach:
`EveryJobSettles`, `SteadyLinkDrains`, `DeadLinkNoticed`, `ShutdownCompletes`, `PumpsEnd`,
`PoolNeverBlocks`, `SteadyAgentReports` and `EveryRunEnds`. Every safety property and every
refinement of a passing run is proved.

## 5. Disagreements found

1. `handler.go:147`: the test of `runningJobs` and its increment are two steps;
   more jobs than `max_concurrency` may run (`MCHandlerRace`).
2. `client.go:391`: `attempt` is a local variable; the backoff never grows
   (`MCClientBackoff`).
3. `http.go:197`: `client.Do` wraps its errors, so `err == context.DeadlineExceeded`
   never holds; a run ended by the job's deadline is an *error*
   (`MCJobRunHttp`).
4. `handler.go:456`: without a count, `timeout_ms` is budgeted for one probe while
   ping sends four (`MCJobRunPing`).
5. `handler.go:496`: *invalid ... timeout_ms* contains the word timeout, so an
   option out of range is reported as a *timeout* (`MCJobRunReject`).

## 6. Not modelled, and why

- Parsing of the output of ping and traceroute, the sections of DNS replies,
  certificates, redirects, the descriptive fields of results: data without control.
- `config.go` and the startup checks of `main.go`: sequential, no state afterwards. The
  bounds `Validate` enforces are assumptions of the modules.
- Data races, of which the outcome is unbounded: `sendAuth` and an old heartbeat on
  the address strings (the frames' contents are abstracted, and the old heartbeat's
  socket is closed), and the timings map of `http.go`, which a dial goroutine may write
  while the result is encoded. The worst outcome of the latter is that the process
  ends, which is `Agent`'s `Crash`.
- `applyPolicy` is three stores, and the policies of two readers may mix: the
  interleavings are in `Handler`, but the code promises nothing about them.
- A peer whose TCP answers but whose application hangs is never noticed
  (`client.go:178`, no read deadline): nothing in the code says it should be.
- Partial measurements: a killed ping and an HTTP body that was cut off are in `JobRun`;
  the code does not say how they are to be reported.
- Steps of the wall clock between `t1` and `t4` of an NTP exchange, and the lock of the
  bolt file, for which `bolt.Open` waits without a timeout while an older process
  lives.
- `runner.go` is an interface; `DetectCapabilities` runs once before the first
  connection.

## 7. Plan

Everything planned is in place: the core of the handler and of the client, the run of
a job, the process that holds them together, and the proof of every safety property that
a run checks. What would extend it:

- The redirects and trace callbacks of `http.go` as a module of their own, if a property
  of them comes up.
- `Agent` over `JobPipeline` instead of `ReportService`'s parts, to carry its theorems down to the
  goroutines of handler and client.
- A second job in `MCAgent`, which needs a larger share of its run's time.
