------------------------------ MODULE Handler ------------------------------
(***************************************************************************)
(* The job handler of internal/handler/handler.go: the messages the        *)
(* WebSocket readers hand to HandleMessage, the bounded job channel, the   *)
(* pool of worker goroutines that New starts, the limits the center's      *)
(* policy sets, and the results passed to h.send.                          *)
(*                                                                         *)
(* Every goroutine step that touches shared state (an atomic, the channel, *)
(* the store) is an action of its own, so the model has the interleavings  *)
(* the Go scheduler has.  A condition that compares two atomics is one     *)
(* step.  lastError and the contents of a result are data no property here *)
(* tells apart.                                                            *)
(***************************************************************************)
EXTENDS Integers, Sequences, FiniteSets

CONSTANTS
  Readers,             \* readPump goroutines that can be in HandleMessage at once
  Workers,             \* the goroutines running worker(); maxConcurrency = 64 of them
  Jobs,                \* the job messages the center may send, each sent once
  Malformed,           \* the jobs without a payload object
  Unknown,             \* the jobs whose type has no runner
  Probes,              \* probe ids an auth_ack may carry
  Policies,            \* policies an auth_ack may carry; 0 is a missing field
  MaxQueueSize,        \* capacity of the job channel and cap on queue_size
  DefaultConcurrency,
  DefaultQueueSize,
  DefaultJobTimeout,   \* in nanoseconds
  Second,              \* in nanoseconds
  MaxInt64,
  None

MaxConcurrency == Cardinality(Workers)

Policy == [max_concurrency : Nat, queue_size : Nat, job_timeout_seconds : Nat]

ASSUME HandlerAssumption ==
  /\ IsFiniteSet(Readers)
  /\ IsFiniteSet(Workers)
  /\ IsFiniteSet(Jobs)
  /\ Malformed \subseteq Jobs
  /\ Unknown \subseteq Jobs
  /\ Policies \subseteq Policy
  /\ MaxQueueSize \in Nat \ {0}
  /\ DefaultConcurrency \in 1..MaxConcurrency
  /\ DefaultQueueSize \in 1..MaxQueueSize
  /\ MaxInt64 \in Nat \ {0}
  /\ DefaultJobTimeout \in 1..MaxInt64
  /\ Second \in 1..MaxInt64
  /\ None \notin Jobs \cup Probes \cup Policies

VARIABLES
  inbox,           \* jobs no reader has taken off a connection yet
  rpc,             \* where each reader is in HandleMessage
  taken,           \* the job a reader is sending to the channel or refusing
  applying,        \* the policy a reader is applying
  probeID,         \* probe_id in the store
  maxConcurrency,
  queueSize,
  jobTimeoutNanos,
  jobs,            \* the channel
  wpc,             \* where each worker is in worker()
  held,            \* the message each worker took from the channel
  runningJobs,
  workerNotify,    \* is there a token in the one-slot channel?
  droppedJobs,
  answers          \* for each job, the verdicts of the results passed to h.send

readerVars == <<inbox, rpc, taken, applying>>
limitVars  == <<maxConcurrency, queueSize, jobTimeoutNanos>>
workerVars == <<wpc, held, runningJobs>>
replyVars  == <<droppedJobs, answers>>
vars == <<readerVars, probeID, limitVars, jobs, workerVars, workerNotify, replyVars>>

Init ==
  /\ inbox = Jobs
  /\ rpc = [r \in Readers |-> "idle"]
  /\ taken = [r \in Readers |-> None]
  /\ applying = [r \in Readers |-> None]
  /\ probeID \in Probes \cup {None}
  /\ maxConcurrency = DefaultConcurrency
  /\ queueSize = DefaultQueueSize
  /\ jobTimeoutNanos = DefaultJobTimeout
  /\ jobs = <<>>
  /\ wpc = [w \in Workers |-> "recv"]
  /\ held = [w \in Workers |-> None]
  /\ runningJobs = 0
  /\ workerNotify = FALSE
  /\ droppedJobs = 0
  /\ answers = [j \in Jobs |-> <<>>]

-----------------------------------------------------------------------------
(* HandleMessage, run by a reader *)

(* BrokenX is a mutation of the definition X, the code with a plausible    *)
(* mistake in it: it shows that a property can fail.  Nothing refers to it.*)

(* > for >= *)
BrokenCheckDepth(r) ==
  /\ rpc[r] = "idle"
  /\ \E j \in inbox :
       /\ inbox' = inbox \ {j}
       /\ taken' = [taken EXCEPT ![r] = j]
  /\ \/ /\ Len(jobs) > queueSize
        /\ rpc' = [rpc EXCEPT ![r] = "refuse"]
        /\ droppedJobs' = droppedJobs + 1
     \/ /\ Len(jobs) <= queueSize
        /\ rpc' = [rpc EXCEPT ![r] = "send"]
        /\ UNCHANGED droppedJobs
  /\ UNCHANGED <<applying, probeID, limitVars, jobs, workerVars, workerNotify, answers>>

(* The depth test; the channel operation that follows is a later step.    *)
CheckDepth(r) ==
  /\ rpc[r] = "idle"
  /\ \E j \in inbox :
       /\ inbox' = inbox \ {j}
       /\ taken' = [taken EXCEPT ![r] = j]
  /\ \/ /\ Len(jobs) >= queueSize
        /\ rpc' = [rpc EXCEPT ![r] = "refuse"]
        /\ droppedJobs' = droppedJobs + 1
     \/ /\ Len(jobs) < queueSize
        /\ rpc' = [rpc EXCEPT ![r] = "send"]
        /\ UNCHANGED droppedJobs
  /\ UNCHANGED <<applying, probeID, limitVars, jobs, workerVars, workerNotify, answers>>

(* An empty default case: the job is neither counted nor answered. *)
BrokenEnqueue(r) ==
  /\ rpc[r] = "send"
  /\ jobs' = IF Len(jobs) < MaxQueueSize THEN Append(jobs, taken[r]) ELSE jobs
  /\ rpc' = [rpc EXCEPT ![r] = "idle"]
  /\ taken' = [taken EXCEPT ![r] = None]
  /\ UNCHANGED <<inbox, applying, probeID, limitVars, workerVars, workerNotify, replyVars>>

(* The default case answers without counting. *)
BrokenEnqueueCount(r) ==
  /\ rpc[r] = "send"
  /\ \/ /\ Len(jobs) < MaxQueueSize
        /\ jobs' = Append(jobs, taken[r])
        /\ rpc' = [rpc EXCEPT ![r] = "idle"]
        /\ taken' = [taken EXCEPT ![r] = None]
     \/ /\ Len(jobs) >= MaxQueueSize
        /\ rpc' = [rpc EXCEPT ![r] = "refuse"]
        /\ UNCHANGED <<taken, jobs>>
  /\ UNCHANGED <<inbox, applying, probeID, limitVars, workerVars, workerNotify, replyVars>>

(* select { case h.jobs <- msg: default: } *)
Enqueue(r) ==
  /\ rpc[r] = "send"
  /\ \/ /\ Len(jobs) < MaxQueueSize
        /\ jobs' = Append(jobs, taken[r])
        /\ rpc' = [rpc EXCEPT ![r] = "idle"]
        /\ taken' = [taken EXCEPT ![r] = None]
        /\ UNCHANGED droppedJobs
     \/ /\ Len(jobs) >= MaxQueueSize
        /\ rpc' = [rpc EXCEPT ![r] = "refuse"]
        /\ droppedJobs' = droppedJobs + 1
        /\ UNCHANGED <<taken, jobs>>
  /\ UNCHANGED <<inbox, applying, probeID, limitVars, workerVars, workerNotify, answers>>

(* The return after the answer is missing: the job is queued as well. *)
BrokenRefuse(r) ==
  /\ rpc[r] = "refuse"
  /\ answers' = [answers EXCEPT ![taken[r]] = Append(@, "queue full")]
  /\ rpc' = [rpc EXCEPT ![r] = "send"]
  /\ UNCHANGED <<inbox, taken, applying, probeID, limitVars, jobs, workerVars,
                 workerNotify, droppedJobs>>

(* A counted job is answered with the error "job queue full". *)
Refuse(r) ==
  /\ rpc[r] = "refuse"
  /\ answers' = [answers EXCEPT ![taken[r]] = Append(@, "queue full")]
  /\ rpc' = [rpc EXCEPT ![r] = "idle"]
  /\ taken' = [taken EXCEPT ![r] = None]
  /\ UNCHANGED <<inbox, applying, probeID, limitVars, jobs, workerVars, workerNotify,
                 droppedJobs>>

(* The error of SetProbeID is ignored. *)
BrokenHandleAuthAck(r) ==
  /\ rpc[r] = "idle"
  /\ \E p \in Policies \cup {None} :
       /\ applying' = [applying EXCEPT ![r] = p]
       /\ rpc' = [rpc EXCEPT ![r] = IF p = None THEN "idle" ELSE "concurrency"]
  /\ UNCHANGED <<inbox, taken, probeID, limitVars, jobs, workerVars, workerNotify, replyVars>>

(* A successful auth_ack: SetProbeID commits, then the policy, if any, is  *)
(* applied.  The early returns (no payload, rejected, no probe id, store   *)
(* error) change nothing of the handler's.                                 *)
HandleAuthAck(r) ==
  /\ rpc[r] = "idle"
  /\ probeID' \in Probes
  /\ \E p \in Policies \cup {None} :
       /\ applying' = [applying EXCEPT ![r] = p]
       /\ rpc' = [rpc EXCEPT ![r] = IF p = None THEN "idle" ELSE "concurrency"]
  /\ UNCHANGED <<inbox, taken, limitVars, jobs, workerVars, workerNotify, replyVars>>

Clamp(n, cap) == IF n > cap THEN cap ELSE n

(* n > 0 is not tested. *)
BrokenSetConcurrency(r) ==
  /\ rpc[r] = "concurrency"
  /\ maxConcurrency' = Clamp(applying[r].max_concurrency, MaxConcurrency)
  /\ rpc' = [rpc EXCEPT ![r] = "queue"]
  /\ UNCHANGED <<inbox, taken, applying, probeID, queueSize, jobTimeoutNanos, jobs,
                 workerVars, workerNotify, replyVars>>

(* applyPolicy: three atomic stores, then the notification. *)
SetConcurrency(r) ==
  /\ rpc[r] = "concurrency"
  /\ LET n == applying[r].max_concurrency
     IN  maxConcurrency' = IF n > 0 THEN Clamp(n, MaxConcurrency) ELSE maxConcurrency
  /\ rpc' = [rpc EXCEPT ![r] = "queue"]
  /\ UNCHANGED <<inbox, taken, applying, probeID, queueSize, jobTimeoutNanos, jobs,
                 workerVars, workerNotify, replyVars>>

SetQueueSize(r) ==
  /\ rpc[r] = "queue"
  /\ LET n == applying[r].queue_size
     IN  queueSize' = IF n > 0 THEN Clamp(n, MaxQueueSize) ELSE queueSize
  /\ rpc' = [rpc EXCEPT ![r] = "timeout"]
  /\ UNCHANGED <<inbox, taken, applying, probeID, maxConcurrency, jobTimeoutNanos, jobs,
                 workerVars, workerNotify, replyVars>>

(* Two's complement: the product is not capped and may wrap around.        *)
Int64(n) == ((n + MaxInt64 + 1) % (2 * (MaxInt64 + 1))) - (MaxInt64 + 1)

SetJobTimeout(r) ==
  /\ rpc[r] = "timeout"
  /\ LET n == applying[r].job_timeout_seconds
     IN  jobTimeoutNanos' = IF n > 0 THEN Int64(n * Second) ELSE jobTimeoutNanos
  /\ rpc' = [rpc EXCEPT ![r] = "notify"]
  /\ UNCHANGED <<inbox, taken, applying, probeID, maxConcurrency, queueSize, jobs,
                 workerVars, workerNotify, replyVars>>

(* notifyWorkers drops the token when the slot is full. *)
PolicyNotify(r) ==
  /\ rpc[r] = "notify"
  /\ workerNotify' = TRUE
  /\ rpc' = [rpc EXCEPT ![r] = "idle"]
  /\ applying' = [applying EXCEPT ![r] = None]
  /\ UNCHANGED <<inbox, taken, probeID, limitVars, jobs, workerVars, replyVars>>

Reader(r) ==
  \/ CheckDepth(r) \/ Enqueue(r) \/ Refuse(r) \/ HandleAuthAck(r)
  \/ SetConcurrency(r) \/ SetQueueSize(r) \/ SetJobTimeout(r) \/ PolicyNotify(r)

-----------------------------------------------------------------------------
(* worker() *)

(* The job leaves the channel before the worker knows it may run it. *)
Receive(w) ==
  /\ wpc[w] = "recv"
  /\ jobs # <<>>
  /\ held' = [held EXCEPT ![w] = Head(jobs)]
  /\ jobs' = Tail(jobs)
  /\ wpc' = [wpc EXCEPT ![w] = "check"]
  /\ UNCHANGED <<readerVars, probeID, limitVars, runningJobs, workerNotify, replyVars>>

(* The loop condition; the increment that follows is a later step. *)
CheckSlot(w) ==
  /\ wpc[w] = "check"
  /\ wpc' = [wpc EXCEPT ![w] = IF runningJobs >= maxConcurrency THEN "wait" ELSE "start"]
  /\ UNCHANGED <<readerVars, probeID, limitVars, jobs, held, runningJobs, workerNotify,
                 replyVars>>

(* select { case <-h.workerNotify: case <-time.After(100ms): } *)
Wake(w) ==
  /\ wpc[w] = "wait"
  /\ wpc' = [wpc EXCEPT ![w] = "check"]
  /\ \/ workerNotify /\ workerNotify' = FALSE
     \/ UNCHANGED workerNotify
  /\ UNCHANGED <<readerVars, probeID, limitVars, jobs, held, runningJobs, replyVars>>

Start(w) ==
  /\ wpc[w] = "start"
  /\ runningJobs' = runningJobs + 1
  /\ wpc' = [wpc EXCEPT ![w] = "run"]
  /\ UNCHANGED <<readerVars, probeID, limitVars, jobs, held, workerNotify, replyVars>>

(* The payload is not tested. *)
BrokenVerdict(j) == IF j \in Unknown THEN <<"unknown type">> ELSE <<"measured">>

(* The result handleJob sends; a job without a payload gets none. *)
Verdict(j) == IF j \in Malformed THEN <<>>
              ELSE IF j \in Unknown THEN <<"unknown type">>
              ELSE <<"measured">>

HandleJob(w) ==
  /\ wpc[w] = "run"
  /\ answers' = [answers EXCEPT ![held[w]] = @ \o Verdict(held[w])]
  /\ held' = [held EXCEPT ![w] = None]
  /\ wpc' = [wpc EXCEPT ![w] = "leave"]
  /\ UNCHANGED <<readerVars, probeID, limitVars, jobs, runningJobs, workerNotify,
                 droppedJobs>>

Leave(w) ==
  /\ wpc[w] = "leave"
  /\ runningJobs' = runningJobs - 1
  /\ wpc' = [wpc EXCEPT ![w] = "notify"]
  /\ UNCHANGED <<readerVars, probeID, limitVars, jobs, held, workerNotify, replyVars>>

NotifyWorkers(w) ==
  /\ wpc[w] = "notify"
  /\ workerNotify' = TRUE
  /\ wpc' = [wpc EXCEPT ![w] = "recv"]
  /\ UNCHANGED <<readerVars, probeID, limitVars, jobs, held, runningJobs, replyVars>>

Worker(w) ==
  \/ Receive(w) \/ CheckSlot(w) \/ Wake(w) \/ Start(w)
  \/ HandleJob(w) \/ Leave(w) \/ NotifyWorkers(w)

-----------------------------------------------------------------------------

Next == (\E r \in Readers : Reader(r)) \/ (\E w \in Workers : Worker(w))

Spec == Init /\ [][Next]_vars

(* Goroutines are scheduled, the wait of Wake times out, and every runner  *)
(* returns: its context has a deadline.  The center owes nothing.          *)
FairSpec == Spec /\ \A w \in Workers : WF_vars(Worker(w))
-----------------------------------------------------------------------------
(* Where a job can be *)

Admitted == {r \in Readers : rpc[r] = "send"}
Refusing == {r \in Readers : rpc[r] = "refuse"}
Busy     == Admitted \cup Refusing
Queued   == {jobs[i] : i \in DOMAIN jobs}
Holding  == {w \in Workers : wpc[w] \in {"check", "wait", "start", "run"}}
Running  == {w \in Workers : wpc[w] \in {"run", "leave"}}

InFlight == {taken[r] : r \in Busy} \cup Queued \cup {held[w] : w \in Holding}

(* The values queue_size can be brought to; only the greatest matters. *)
QueueSizes ==
  {n \in 1..MaxQueueSize : n = DefaultQueueSize \/ \E p \in Policies : n <= p.queue_size}

Verdicts == {"queue full", "unknown type", "measured"}

(* Each variable has its type.  The two limits are positive whatever the   *)
(* policy says: a policy cannot pause the pool (applyPolicy skips n <= 0). *)
(* The job timeout only fits in 64 bits.                                   *)
TypeOK ==
  /\ inbox \subseteq Jobs
  /\ rpc \in [Readers -> {"idle", "send", "refuse", "concurrency", "queue", "timeout", "notify"}]
  /\ taken \in [Readers -> Jobs \cup {None}]
  /\ \A r \in Readers : r \in Busy <=> taken[r] # None
  /\ applying \in [Readers -> Policies \cup {None}]
  /\ \A r \in Readers : rpc[r] \in {"concurrency", "queue", "timeout", "notify"} => applying[r] \in Policies
  /\ probeID \in Probes \cup {None}
  /\ maxConcurrency \in 1..MaxConcurrency
  /\ queueSize \in QueueSizes
  /\ jobTimeoutNanos \in -MaxInt64 - 1 .. MaxInt64
  /\ jobs \in Seq(Jobs)
  /\ wpc \in [Workers -> {"recv", "check", "wait", "start", "run", "leave", "notify"}]
  /\ held \in [Workers -> Jobs \cup {None}]
  /\ \A w \in Workers : w \in Holding <=> held[w] # None
  /\ runningJobs \in Nat
  /\ workerNotify \in BOOLEAN
  /\ droppedJobs \in Nat
  /\ answers \in [Jobs -> Seq(Verdicts)]

(* A job is in one place: two goroutines never hold the same job, and a    *)
(* job on its way through the handler has not been answered.               *)
OnePlacePerJob ==
  /\ \A j \in inbox \cup InFlight : answers[j] = <<>>
  /\ inbox \cap InFlight = {}
  /\ \A r1, r2 \in Busy : taken[r1] = taken[r2] => r1 = r2
  /\ \A i1, i2 \in DOMAIN jobs : jobs[i1] = jobs[i2] => i1 = i2
  /\ \A w1, w2 \in Holding : held[w1] = held[w2] => w1 = w2
  /\ {taken[r] : r \in Busy} \cap Queued = {}
  /\ {taken[r] : r \in Busy} \cap {held[w] : w \in Holding} = {}
  /\ Queued \cap {held[w] : w \in Holding} = {}

(* What a job may be answered: the queue was full, or what its payload and *)
(* its type call for.                                                      *)
Answers(j) ==
  {<<>>, <<"queue full">>}
    \cup (IF j \in Malformed THEN {}
          ELSE IF j \in Unknown THEN {<<"unknown type">>} ELSE {<<"measured">>})

(* No job is answered twice, and none disappears: once a job is neither    *)
(* with the center nor in flight it has exactly one answer, unless it had  *)
(* no payload, which handleJob only logs.  The answer is the refusal of    *)
(* HandleMessage or what handleJob does with such a job: one with a runner *)
(* is measured and one without is said to be unknown.                      *)
OneAnswerPerJob ==
  \A j \in Jobs :
    /\ Len(answers[j]) <= 1
    /\ answers[j] \in Answers(j)
    /\ j \in inbox \cup InFlight \/ j \in Malformed \/ answers[j] # <<>>

(* running_jobs counts the workers between the increment and the decrement *)
RunningAccurate == runningJobs = Cardinality(Running)

(* and dropped_jobs the jobs answered "queue full" or about to be.         *)
DroppedAccurate ==
  droppedJobs = Cardinality({j \in Jobs : answers[j] = <<"queue full">>})
                + Cardinality(Refusing)

(* The counters Status reports are true at every step of every             *)
(* interleaving of readers and workers.                                    *)
CountersAccurate == RunningAccurate /\ DroppedAccurate

(* HandleMessage tests the depth in one step and sends in another, so      *)
(* queue_size is exceeded, but by less than one job for each other reader  *)
(* that can be between the two.  With one reader the limit is exact.       *)
OvershootBounded ==
  \E q \in QueueSizes :
    Len(jobs) + Cardinality(Admitted) < q + Cardinality(Readers)

(* A limit differs from its default only when some auth_ack was accepted   *)
(* and its probe id is in the store: handleAuthAck returns before          *)
(* applyPolicy otherwise.                                                  *)
PolicyNeedsProbe ==
  \/ probeID # None
  \/ /\ maxConcurrency = DefaultConcurrency
     /\ queueSize = DefaultQueueSize
     /\ jobTimeoutNanos = DefaultJobTimeout

(* What the worker loop is there to keep: no more jobs run at once than    *)
(* max_concurrency.  The test and the increment are two steps, and this    *)
(* fails.                                                                  *)
ConcurrencyRespected == runningJobs <= maxConcurrency

(* The place of a job in the terms of JobService. *)
StatusOf(j) ==
  IF j \in inbox \cup {taken[r] : r \in Busy} THEN "offered"
  ELSE IF \E w \in Running : held[w] = j THEN "running"
  ELSE IF j \in InFlight THEN "pending"
  ELSE IF answers[j] = <<>> THEN "discarded"
  ELSE IF answers[j] = <<"queue full">> THEN "refused"
  ELSE "answered"

Service == INSTANCE JobService
  WITH status   <- [j \in Jobs |-> StatusOf(j)],
       Silent   <- Malformed,
       Capacity <- MaxConcurrency

(* The handler implements JobService: whatever the goroutines interleave,  *)
(* each step of the handler admits, refuses, starts or settles one job, or *)
(* is invisible to the center.                                             *)
ImplementsService == Service!Spec

(* Every job admitted to the channel is settled, whatever the policies do  *)
(* meanwhile.                                                              *)
EveryJobSettles == Service!EveryJobSettles
=============================================================================
