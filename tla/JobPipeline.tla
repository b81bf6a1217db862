----------------------------- MODULE JobPipeline -----------------------------
(***************************************************************************)
(* Handler and Client as cmd/agent/main.go joins them, in one life of the  *)
(* process: the read pump of a connection calls HandleMessage and waits    *)
(* for it, and h.send is client.Send, called by the worker or the read     *)
(* pump that answers a job.                                                *)
(*                                                                         *)
(* Client numbers the results in the order of the calls of Send; passed    *)
(* remembers which job each was of.                                        *)
(***************************************************************************)
EXTENDS Integers, Sequences, FiniteSets

CONSTANTS
  MaxConns, SendCap, ReconnectMax,                                      \* see Client
  Workers, Jobs, Malformed, Unknown, Probes, Policies, MaxQueueSize,    \* see Handler
  DefaultConcurrency, DefaultQueueSize, DefaultJobTimeout, Second, MaxInt64,
  None

VARIABLES
  inbox, rpc, taken, applying, probeID, maxConcurrency, queueSize, jobTimeoutNanos,
  jobs, wpc, held, runningJobs, workerNotify, droppedJobs, answers,
  shutdown, main, cur, conn, wait, link, rejections, first, cancelled, errCh, pump,
  connMu, sendCh, sent, carried, delivered, fate, failedOn,
  passed       \* the jobs whose results were passed to Send, in that order

handlerVars == <<inbox, rpc, taken, applying, probeID, maxConcurrency, queueSize,
                 jobTimeoutNanos, jobs, wpc, held, runningJobs, workerNotify, droppedJobs, answers>>
clientVars  == <<shutdown, main, cur, conn, wait, link, rejections, first, cancelled, errCh, pump,
                 connMu, sendCh, sent, carried, delivered, fate, failedOn>>
vars == <<handlerVars, clientVars, passed>>

(* No more results than jobs: SentOnce is why Send can always be called.   *)
C == INSTANCE Client WITH MaxResults <- Cardinality(Jobs)

(* The reader of a message is the read pump of the same number.            *)
H == INSTANCE Handler WITH Readers <- C!Conns

ASSUME PipelineAssumption == H!HandlerAssumption /\ C!ClientAssumption

Init ==
  /\ H!Init
  /\ C!Init
  /\ passed = <<>>

(* BrokenX is a mutation of the definition X, the code with a plausible    *)
(* mistake in it: it shows that a property can fail.  Nothing refers to it.*)

-----------------------------------------------------------------------------
(* The handler's steps *)

KeepsClient == UNCHANGED <<clientVars, passed>>

(* A full queue blocks the caller. *)
BrokenSendWaits(j) ==
  /\ Len(sendCh) < SendCap
  /\ C!Send
  /\ passed' = Append(passed, j)

(* Nothing is sent after the signal. *)
BrokenSend(j) ==
  \/ shutdown /\ KeepsClient
  \/ /\ ~shutdown
     /\ C!Send
     /\ passed' = Append(passed, j)

(* h.send, called with the result of a job. *)
Send(j) ==
  /\ C!Send
  /\ passed' = Append(passed, j)

(* The job is let go of before its answer is made. *)
BrokenHandleMessage(c) ==
  /\ H!Reader(c)
  /\ rpc[c] = "idle" => pump["read"][c] = "read"
  /\ IF rpc[c] = "refuse" THEN Send(taken'[c]) ELSE KeepsClient

(* A message is handled after ReadMessage has returned it, which it may do *)
(* while buffered data is left, whatever has become of the socket.         *)
HandleMessage(c) ==
  /\ H!Reader(c)
  /\ rpc[c] = "idle" => pump["read"][c] = "read"
  /\ IF rpc[c] = "refuse" THEN Send(taken[c]) ELSE KeepsClient

Work(w) ==
  /\ H!Worker(w)
  /\ IF wpc[w] = "run" /\ held[w] \notin Malformed THEN Send(held[w]) ELSE KeepsClient

-----------------------------------------------------------------------------
(* The client's steps *)

(* The pump reads on when HandleMessage has returned. *)
ReadPump(c) == rpc[c] = "idle" /\ C!ReadPump(c)

ClientStep ==
  /\ \/ C!Shutdown \/ C!Run \/ C!Terminated
     \/ \E c \in C!Conns :
          C!Network(c) \/ ReadPump(c) \/ C!WritePump(c) \/ C!HeartbeatLoop(c)
  /\ UNCHANGED <<handlerVars, passed>>

Next ==
  \/ ClientStep
  \/ \E c \in C!Conns : HandleMessage(c)
  \/ \E w \in Workers : Work(w)

Spec == Init /\ [][Next]_vars

(* Goroutines are scheduled, the wait for a slot times out, and every      *)
(* runner returns: its context has a deadline.  Nothing is assumed of the  *)
(* client, nor of the center.                                              *)
FairSpec == Spec /\ \A w \in Workers : WF_vars(Work(w))

-----------------------------------------------------------------------------
(* Properties *)

TypeOK ==
  /\ passed \in Seq(Jobs)
  /\ Len(passed) = sent

(* Send is called once for each job that is answered, whichever readers    *)
(* and workers it passed through, also after Run has returned.             *)
SentOnce ==
  /\ \A i, k \in DOMAIN passed : passed[i] = passed[k] => i = k
  /\ \A j \in Jobs : answers[j] # <<>> <=> \E i \in DOMAIN passed : passed[i] = j

Underway(j) == j \in inbox \cup H!InFlight

(* In how many places of the client the result of a job is. *)
Copies(j) ==
    Cardinality({i \in DOMAIN sendCh : passed[sendCh[i]] = j})
  + Cardinality({c \in C!Conns : carried[c] # None /\ passed[carried[c]] = j})
  + Cardinality({i \in DOMAIN delivered : passed[delivered[i]] = j})
  + Cardinality({r \in C!Results : fate[r] # "none" /\ passed[r] = j})

(* From the message of the center to the frame that answers it a job is in *)
(* one place: on its way through the handler; or its result is in the      *)
(* queue, with one write pump, delivered, or gone for a cause that fate    *)
(* names.  Only a job without a payload may leave no trace.                *)
JobsAccounted ==
  \A j \in Jobs :
    IF Underway(j) THEN Copies(j) = 0
    ELSE Copies(j) = 1 \/ (j \in Malformed /\ Copies(j) = 0)

(* What the center sees of the two: a result is known by its job. *)
Reports == INSTANCE ReportService
  WITH Silent    <- Malformed,
       Capacity  <- H!MaxConcurrency,
       status    <- [j \in Jobs |-> H!StatusOf(j)],
       queue     <- [i \in DOMAIN sendCh |-> passed[sendCh[i]]],
       hand      <- IF cur > 0 /\ link[cur] = "up" /\ carried[cur] # None THEN passed[carried[cur]]
                    ELSE None,
       delivered <- [i \in DOMAIN delivered |-> passed[delivered[i]]],
       lost      <- {passed[r] : r \in {n \in C!Results : fate[n] # "none"} \cup C!Doomed}

(* Handler and Client together keep the promise of ReportService: the step *)
(* that settles a job puts its answer in the queue.                        *)
ImplementsReports == Reports!Spec

(* The read pump is back in ReadMessage before it takes the next job, so   *)
(* only as many depth tests are under way as there are connections: with   *)
(* one, queue_size is exact.                                               *)
OvershootBounded == H!OvershootBounded

(* Every job admitted to the channel is settled, whatever the client does: *)
(* with no connection and a full queue no worker waits in h.send.          *)
EveryJobSettles == H!EveryJobSettles
=============================================================================
