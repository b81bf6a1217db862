------------------------------- MODULE Client -------------------------------
(***************************************************************************)
(* The WebSocket client of internal/ws/client.go: the goroutine of Run,    *)
(* which dials, authenticates, serves and backs off, and the three pumps   *)
(* it starts for each connection.  The pumps of a connection outlive it:   *)
(* they end when they see its context cancelled or its socket closed,      *)
(* while Run already works on the next one.                                *)
(*                                                                         *)
(* Frames other than a rejecting auth_ack have no effect on the client     *)
(* (HandleMessage is the module Handler), so reading one is no step here.  *)
(***************************************************************************)
EXTENDS Naturals, Sequences, FiniteSets

CONSTANTS
  MaxConns,      \* bound: how many dials may succeed
  MaxResults,    \* bound: how many times the handler calls Send
  SendCap,       \* capacity of sendCh, 256 in the code
  ReconnectMax,  \* reconnect_max_secs
  None

ASSUME ClientAssumption ==
  /\ MaxConns \in Nat \ {0}
  /\ MaxResults \in Nat
  /\ SendCap \in Nat \ {0}
  /\ ReconnectMax \in Nat \ {0}
  /\ None \notin Nat \cup {"auth", "result", "beat"}

Conns   == 1..MaxConns
Results == 1..MaxResults    \* the n-th is the argument of the n-th Send
Kinds   == {"read", "write", "beat"}

(* BrokenX is a mutation of the definition X, the code with a plausible    *)
(* mistake in it: it shows that a property can fail.  Nothing refers to it.*)

(* Room for one pump. *)
BrokenErrCap == 1

(* Each pump reports at most one error on a channel of this capacity.      *)
ErrCap == 3

VARIABLES
  shutdown,    \* ctx is cancelled: a signal arrived
  main,        \* where Run is
  cur,         \* the connection of the last successful dial
  conn,        \* c.conn
  wait,        \* the last backoff since a connection served, in seconds
  link,        \* the state of each socket
  rejections,  \* on each connection, a rejecting auth_ack not yet read
  first,       \* the first frame written on each connection
  cancelled,   \* connCtx cancelled by connectAndServe
  errCh,       \* for each connection, the number of errors in its channel
  pump,        \* where each pump of each connection is
  connMu,      \* is the mutex held across a write?
  sendCh,
  sent,        \* the number of calls of Send
  carried,     \* the result each write pump took from sendCh
  delivered,   \* the results written on a live connection, in order
  fate,        \* what became of the results that are gone
  failedOn     \* history: the connection whose write of a result failed, or 0

netVars    == <<link, rejections>>
mainVars   == <<main, cur, conn, wait, cancelled>>
resultVars == <<sendCh, sent, carried, delivered, fate, failedOn>>
vars == <<shutdown, mainVars, netVars, first, errCh, pump, connMu, resultVars>>

Init ==
  /\ shutdown = FALSE
  /\ main = "dial"
  /\ cur = 0
  /\ conn = None
  /\ wait = 0
  /\ link = [c \in Conns |-> "none"]
  /\ rejections = {}
  /\ first = [c \in Conns |-> None]
  /\ cancelled = [c \in Conns |-> FALSE]
  /\ errCh = [c \in Conns |-> 0]
  /\ pump = [k \in Kinds |-> [c \in Conns |-> "off"]]
  /\ connMu = FALSE
  /\ sendCh = <<>>
  /\ sent = 0
  /\ carried = [c \in Conns |-> None]
  /\ delivered = <<>>
  /\ fate = [r \in Results |-> "none"]
  /\ failedOn = [r \in Results |-> 0]

Live == {"up", "dead", "dying"}    \* a socket on which a write can succeed

Done(c) == shutdown \/ cancelled[c]

Move(k, c, from, to) ==
  /\ pump[k][c] = from
  /\ pump' = [pump EXCEPT ![k][c] = to]

-----------------------------------------------------------------------------
(* The network and the rest of the process *)

(* The peer vanishes without a word: writes go to the socket buffer.       *)
Die(c) ==
  /\ link[c] = "up"
  /\ link' = [link EXCEPT ![c] = "dead"]
  /\ UNCHANGED <<shutdown, mainVars, rejections, first, errCh, pump, connMu, resultVars>>

(* The peer closes or resets the connection, or TCP gives up on data that  *)
(* is not acknowledged.                                                    *)
Break(c) ==
  /\ link[c] \in {"up", "dying"}
  /\ link' = [link EXCEPT ![c] = "broken"]
  /\ UNCHANGED <<shutdown, mainVars, rejections, first, errCh, pump, connMu, resultVars>>

(* The center answers the auth frame with success = false. *)
Reject(c) ==
  /\ link[c] = "up"
  /\ first[c] = "auth"
  /\ rejections' = rejections \cup {c}
  /\ UNCHANGED <<shutdown, mainVars, link, first, errCh, pump, connMu, resultVars>>

(* The first SIGINT or SIGTERM; main reads no second one. *)
Shutdown ==
  /\ ~shutdown
  /\ shutdown' = TRUE
  /\ UNCHANGED <<mainVars, netVars, first, errCh, pump, connMu, resultVars>>

(* The queue grows as it needs to. *)
BrokenSend ==
  /\ sent < MaxResults
  /\ sent' = sent + 1
  /\ sendCh' = Append(sendCh, sent + 1)
  /\ UNCHANGED <<shutdown, mainVars, netVars, first, errCh, pump, connMu, carried, delivered,
                 fate, failedOn>>

(* Send, called by a worker or a reader: a full queue drops the result.    *)
Send ==
  /\ sent < MaxResults
  /\ sent' = sent + 1
  /\ \/ /\ Len(sendCh) < SendCap
        /\ sendCh' = Append(sendCh, sent + 1)
        /\ UNCHANGED fate
     \/ /\ Len(sendCh) >= SendCap
        /\ fate' = [fate EXCEPT ![sent + 1] = "dropped"]
        /\ UNCHANGED sendCh
  /\ UNCHANGED <<shutdown, mainVars, netVars, first, errCh, pump, connMu, carried, delivered,
                 failedOn>>

-----------------------------------------------------------------------------
(* writeJSON *)

Lock == ~connMu /\ connMu' = TRUE

Unlock == connMu' = FALSE

(* The write of a frame of the given kind returns nil: on a dead link it   *)
(* only filled the buffer, and data now waits for an acknowledgement.      *)
WriteSucceeds(c, kind) ==
  /\ link[c] \in Live
  /\ link' = [link EXCEPT ![c] = IF @ = "up" THEN "up" ELSE "dying"]
  /\ first' = [first EXCEPT ![c] = IF @ = None THEN kind ELSE @]

(* The socket is closed or broken, or the 10 s deadline passed.  A gorilla *)
(* connection never writes again after a failed write.                     *)
WriteFails(c) ==
  /\ link' = [link EXCEPT ![c] = IF @ = "closed" THEN "closed" ELSE "broken"]
  /\ UNCHANGED first

-----------------------------------------------------------------------------
(* Run and connectAndServe *)

(* ctx.Err() is not looked at. *)
BrokenAfterError == "backoff"

(* Run after an error of connectAndServe. *)
AfterError == IF shutdown THEN "done" ELSE "backoff"

(* exponentialBackoff starts from attempt 0 in every call. *)
Backoff == LET attempt == 0
               secs == 2 ^ attempt
           IN  IF secs > ReconnectMax THEN ReconnectMax ELSE secs

Pause == wait' = IF AfterError = "backoff" THEN Backoff ELSE wait

DialFails ==
  /\ main = "dial"
  /\ main' = AfterError
  /\ Pause
  /\ UNCHANGED <<shutdown, cur, conn, cancelled, netVars, first, errCh, pump, connMu, resultVars>>

DialSucceeds ==
  /\ main = "dial"
  /\ ~shutdown
  /\ cur < MaxConns
  /\ cur' = cur + 1
  /\ link' = [link EXCEPT ![cur + 1] = "up"]
  /\ main' = "install"
  /\ UNCHANGED <<shutdown, conn, wait, cancelled, rejections, first, errCh, pump, connMu, resultVars>>

(* The new connection is not recorded. *)
BrokenInstall ==
  /\ main = "install"
  /\ ~connMu
  /\ main' = "fetch"
  /\ UNCHANGED <<shutdown, cur, conn, wait, cancelled, netVars, first, errCh, pump, connMu,
                 resultVars>>

(* The pumps start before the auth frame. *)
BrokenInstallOrder ==
  /\ main = "install"
  /\ ~connMu
  /\ conn' = cur
  /\ pump' = [pump EXCEPT !["read"][cur] = "read",
                          !["write"][cur] = "select",
                          !["beat"][cur] = "select"]
  /\ main' = "fetch"
  /\ UNCHANGED <<shutdown, cur, wait, cancelled, netVars, first, errCh, connMu, resultVars>>

(* c.conn = conn under connMu. *)
Install ==
  /\ main = "install"
  /\ ~connMu
  /\ conn' = cur
  /\ main' = "fetch"
  /\ UNCHANGED <<shutdown, cur, wait, cancelled, netVars, first, errCh, pump, connMu, resultVars>>

(* The auth frame is written without the mutex. *)
BrokenLockAuth ==
  /\ main = "fetch"
  /\ main' = "auth"
  /\ UNCHANGED <<shutdown, cur, conn, wait, cancelled, netVars, first, errCh, pump, connMu,
                 resultVars>>

(* sendAuth: the address lookups do not heed ctx, then the frame.          *)
LockAuth ==
  /\ main = "fetch"
  /\ Lock
  /\ main' = "auth"
  /\ UNCHANGED <<shutdown, cur, conn, wait, cancelled, netVars, first, errCh, pump, resultVars>>

(* After the auth frame the three pumps start; the wait of a later backoff *)
(* has nothing to do with the earlier ones.                                *)
SendAuth ==
  /\ main = "auth"
  /\ Unlock
  /\ WriteSucceeds(cur, "auth")
  /\ pump' = [pump EXCEPT !["read"][cur] = "read",
                          !["write"][cur] = "select",
                          !["beat"][cur] = "select"]
  /\ main' = "serve"
  /\ wait' = 0
  /\ UNCHANGED <<shutdown, cur, conn, cancelled, rejections, errCh, resultVars>>

(* The socket is not closed when the auth frame cannot be written. *)
BrokenAuthFails ==
  /\ main = "auth"
  /\ Unlock
  /\ WriteFails(cur)
  /\ main' = AfterError
  /\ Pause
  /\ UNCHANGED <<shutdown, cur, conn, cancelled, rejections, errCh, pump, resultVars>>

AuthFails ==
  /\ main = "auth"
  /\ Unlock
  /\ WriteFails(cur)
  /\ main' = "abandon"
  /\ UNCHANGED <<shutdown, cur, conn, wait, cancelled, rejections, errCh, pump, resultVars>>

(* One error channel for all connections. *)
BrokenCancel ==
  /\ main = "serve"
  /\ \/ \E c \in Conns :
          /\ errCh[c] > 0
          /\ errCh' = [errCh EXCEPT ![c] = @ - 1]
     \/ /\ shutdown
        /\ UNCHANGED errCh
  /\ cancelled' = [cancelled EXCEPT ![cur] = TRUE]
  /\ main' = "abandon"
  /\ UNCHANGED <<shutdown, cur, conn, wait, netVars, first, pump, connMu, resultVars>>

(* The select of connectAndServe, and cancel(). *)
Cancel ==
  /\ main = "serve"
  /\ \/ /\ errCh[cur] > 0
        /\ errCh' = [errCh EXCEPT ![cur] = @ - 1]
     \/ /\ shutdown
        /\ UNCHANGED errCh
  /\ cancelled' = [cancelled EXCEPT ![cur] = TRUE]
  /\ main' = "abandon"
  /\ UNCHANGED <<shutdown, cur, conn, wait, netVars, first, pump, connMu, resultVars>>

(* conn.Close() *)
Abandon ==
  /\ main = "abandon"
  /\ link' = [link EXCEPT ![cur] = "closed"]
  /\ main' = AfterError
  /\ Pause
  /\ UNCHANGED <<shutdown, cur, conn, cancelled, rejections, first, errCh, pump, connMu, resultVars>>

BackoffEnds ==
  /\ main = "backoff"
  /\ main' = "dial"
  /\ UNCHANGED <<shutdown, cur, conn, wait, cancelled, netVars, first, errCh, pump, connMu, resultVars>>

Run ==
  \/ DialFails \/ DialSucceeds \/ Install \/ LockAuth \/ SendAuth \/ AuthFails
  \/ Cancel \/ Abandon \/ BackoffEnds

-----------------------------------------------------------------------------
(* The pumps *)

(* errCh <- err; a full channel blocks the pump. *)
Report(k, c) ==
  /\ Move(k, c, "report", "ended")
  /\ errCh[c] < ErrCap
  /\ errCh' = [errCh EXCEPT ![c] = @ + 1]
  /\ UNCHANGED <<shutdown, mainVars, netVars, first, connMu, resultVars>>

(* ReadMessage returns a rejection; one that is buffered is returned even  *)
(* after the socket is closed.                                             *)
ReadRejection(c) ==
  /\ Move("read", c, "read", "reject")
  /\ c \in rejections
  /\ rejections' = rejections \ {c}
  /\ UNCHANGED <<shutdown, mainVars, link, first, errCh, connMu, resultVars>>

(* handleAuthAck calls Close, which closes c.conn: the newest connection.  *)
Close(c) ==
  /\ Move("read", c, "reject", "read")
  /\ ~connMu
  /\ link' = [link EXCEPT ![conn] = "closed"]
  /\ UNCHANGED <<shutdown, mainVars, rejections, first, errCh, connMu, resultVars>>

ReadFails(c) ==
  /\ Move("read", c, "read", "report")
  /\ link[c] \in {"broken", "closed"}
  /\ UNCHANGED <<shutdown, mainVars, netVars, first, errCh, connMu, resultVars>>

(* The result stays in the queue until it is written. *)
BrokenTakeResult(c) ==
  /\ Move("write", c, "select", "lock")
  /\ sendCh # <<>>
  /\ carried' = [carried EXCEPT ![c] = Head(sendCh)]
  /\ UNCHANGED <<shutdown, mainVars, netVars, first, errCh, connMu, sendCh, sent, delivered,
                 fate, failedOn>>

(* writePump; select may take a result even when ctx is done. *)
TakeResult(c) ==
  /\ Move("write", c, "select", "lock")
  /\ sendCh # <<>>
  /\ carried' = [carried EXCEPT ![c] = Head(sendCh)]
  /\ sendCh' = Tail(sendCh)
  /\ UNCHANGED <<shutdown, mainVars, netVars, first, errCh, connMu, sent, delivered, fate,
                 failedOn>>

Tick(c) ==
  /\ Move("beat", c, "select", "lock")
  /\ UNCHANGED <<shutdown, mainVars, netVars, first, errCh, connMu, resultVars>>

Stop(k, c) ==
  /\ k # "read"
  /\ Move(k, c, "select", "ended")
  /\ Done(c)
  /\ UNCHANGED <<shutdown, mainVars, netVars, first, errCh, connMu, resultVars>>

LockWrite(k, c) ==
  /\ Move(k, c, "lock", "writing")
  /\ Lock
  /\ UNCHANGED <<shutdown, mainVars, netVars, first, errCh, resultVars>>

(* A result that could not be written goes back to the queue. *)
BrokenWriteResult(c) ==
  /\ Unlock
  /\ \/ /\ Move("write", c, "writing", "select")
        /\ WriteSucceeds(c, "result")
        /\ delivered' = Append(delivered, carried[c])
        /\ UNCHANGED sendCh
     \/ /\ Move("write", c, "writing", "report")
        /\ WriteFails(c)
        /\ sendCh' = Append(sendCh, carried[c])
        /\ UNCHANGED delivered
  /\ carried' = [carried EXCEPT ![c] = None]
  /\ UNCHANGED <<shutdown, mainVars, rejections, errCh, sent, fate, failedOn>>

(* The result whose write failed is lost with the error. *)
Fails(c) ==
  /\ fate' = [fate EXCEPT ![carried[c]] = "failed"]
  /\ failedOn' = [failedOn EXCEPT ![carried[c]] = c]
  /\ UNCHANGED delivered

(* The write pump goes on after an error. *)
BrokenWriteResultEnd(c) ==
  /\ Unlock
  /\ Move("write", c, "writing", "select")
  /\ \/ /\ WriteSucceeds(c, "result")
        /\ delivered' = Append(delivered, carried[c])
        /\ UNCHANGED <<fate, failedOn>>
     \/ /\ WriteFails(c)
        /\ Fails(c)
  /\ carried' = [carried EXCEPT ![c] = None]
  /\ UNCHANGED <<shutdown, mainVars, rejections, errCh, sendCh, sent>>

WriteResult(c) ==
  /\ Unlock
  /\ \/ /\ Move("write", c, "writing", "select")
        /\ WriteSucceeds(c, "result")
        /\ \/ /\ link[c] = "up"
              /\ delivered' = Append(delivered, carried[c])
              /\ UNCHANGED <<fate, failedOn>>
           \/ /\ link[c] # "up"
              /\ fate' = [fate EXCEPT ![carried[c]] = "swallowed"]
              /\ UNCHANGED <<delivered, failedOn>>
     \/ /\ Move("write", c, "writing", "report")
        /\ WriteFails(c)
        /\ Fails(c)
  /\ carried' = [carried EXCEPT ![c] = None]
  /\ UNCHANGED <<shutdown, mainVars, rejections, errCh, sendCh, sent>>

(* The mutex is not released. *)
BrokenWriteBeat(c) ==
  /\ \/ /\ Move("beat", c, "writing", "select")
        /\ WriteSucceeds(c, "beat")
     \/ /\ Move("beat", c, "writing", "report")
        /\ WriteFails(c)
  /\ UNCHANGED <<shutdown, mainVars, rejections, errCh, connMu, resultVars>>

WriteBeat(c) ==
  /\ Unlock
  /\ \/ /\ Move("beat", c, "writing", "select")
        /\ WriteSucceeds(c, "beat")
     \/ /\ Move("beat", c, "writing", "report")
        /\ WriteFails(c)
  /\ UNCHANGED <<shutdown, mainVars, rejections, errCh, resultVars>>

ReadPump(c)      == ReadRejection(c) \/ Close(c) \/ ReadFails(c) \/ Report("read", c)
WritePump(c)     == TakeResult(c) \/ LockWrite("write", c) \/ WriteResult(c)
                    \/ Report("write", c) \/ Stop("write", c)

(* The heartbeat never ticks. *)
BrokenHeartbeatLoop(c) == Stop("beat", c) \/ Report("beat", c)

HeartbeatLoop(c) == Tick(c) \/ LockWrite("beat", c) \/ WriteBeat(c)
                    \/ Report("beat", c) \/ Stop("beat", c)

Network(c) == Die(c) \/ Break(c) \/ Reject(c)

(* Run has returned and no pump is left. *)
Terminated ==
  /\ main = "done"
  /\ \A k \in Kinds, c \in Conns : pump[k][c] \in {"off", "ended"}
  /\ UNCHANGED vars

-----------------------------------------------------------------------------

Next ==
  \/ Shutdown \/ Send \/ Run \/ Terminated
  \/ \E c \in Conns : Network(c) \/ ReadPump(c) \/ WritePump(c) \/ HeartbeatLoop(c)

Spec == Init /\ [][Next]_vars

(* Goroutines are scheduled, tickers tick, dials, lookups and writes time  *)
(* out, and TCP gives up on data nobody acknowledges.  Nothing is assumed  *)
(* of the center, of the signals, or of a link on which nothing is sent.   *)
(* sync.Mutex hands itself to a goroutine that has waited a millisecond,   *)
(* so a pump that waits for it is not passed over for ever: hence SF.      *)
FairSpec ==
  /\ Spec
  /\ WF_vars(Run)
  /\ \A c \in Conns :
       /\ SF_vars(ReadPump(c))
       /\ SF_vars(WritePump(c))
       /\ SF_vars(HeartbeatLoop(c))
       /\ WF_vars(link[c] = "dying" /\ Break(c))
-----------------------------------------------------------------------------

TypeOK ==
  /\ shutdown \in BOOLEAN
  /\ main \in {"dial", "install", "fetch", "auth", "serve", "abandon", "backoff", "done"}
  /\ cur \in 0..MaxConns
  /\ conn \in 1..cur \cup {None}
  /\ wait \in 0..ReconnectMax
  /\ link \in [Conns -> Live \cup {"none", "broken", "closed"}]
  /\ rejections \subseteq 1..cur
  /\ first \in [Conns -> {None, "auth", "result", "beat"}]
  /\ cancelled \in [Conns -> BOOLEAN]
  /\ errCh \in [Conns -> 0..ErrCap]
  /\ pump \in [Kinds -> [Conns -> {"off", "read", "reject", "select", "lock", "writing",
                                   "report", "ended"}]]
  /\ connMu \in BOOLEAN
  /\ sendCh \in Seq(Results) /\ Len(sendCh) <= SendCap
  /\ sent \in 0..MaxResults
  /\ carried \in [Conns -> Results \cup {None}]
  /\ delivered \in Seq(Results)
  /\ fate \in [Results -> {"none", "dropped", "swallowed", "failed"}]
  /\ failedOn \in [Results -> Conns \cup {0}]

(* writeJSON is a critical section: two writes never overlap, and while    *)
(* nobody writes the mutex is free.                                        *)
Writers ==
  {p \in Kinds \X Conns : pump[p[1]][p[2]] = "writing"}
  \cup {<<"main", c>> : c \in IF main = "auth" THEN {cur} ELSE {}}

OneWriter == Cardinality(Writers) = IF connMu THEN 1 ELSE 0

(* The first frame of a connection is its auth frame, although the pumps   *)
(* of older connections are still running.                                 *)
AuthFirst ==
  \A c \in Conns :
    /\ first[c] \in {None, "auth"}
    /\ (\E k \in Kinds : pump[k][c] # "off") => first[c] = "auth"

(* No socket leaks: the only one that may be open is the one Run works on. *)
OneSocket ==
  \A c \in Conns :
    link[c] \notin {"none", "closed"} =>
      c = cur /\ main \in {"install", "fetch", "auth", "serve", "abandon"}

(* Every result passed to Send is in one place: in the queue, with one     *)
(* write pump, delivered, or gone.                                         *)
ResultsAccounted ==
  \A r \in Results :
      Cardinality({i \in DOMAIN sendCh : sendCh[i] = r})
    + Cardinality({c \in Conns : carried[c] = r})
    + Cardinality({i \in DOMAIN delivered : delivered[i] = r})
    + (IF fate[r] = "none" THEN 0 ELSE 1)
    = IF r <= sent THEN 1 ELSE 0

(* Results reach the center in the order of the calls of Send and never    *)
(* twice, whichever connections and write pumps they pass through.         *)
InOrder ==
  LET seq == delivered \o sendCh
  IN  \A i, j \in DOMAIN seq : i < j => seq[i] < seq[j]

(* The results in a pump's hands whose connection can no longer deliver.   *)
Doomed == {carried[c] : c \in {d \in Conns : carried[d] # None /\ link[d] # "up"}}

Service == INSTANCE ResultService
  WITH Results  <- Results,
       Capacity <- SendCap,
       queue    <- sendCh,
       hand     <- IF cur > 0 /\ link[cur] = "up" THEN carried[cur] ELSE None,
       lost     <- {r \in Results : fate[r] # "none"} \cup Doomed

(* The client implements ResultService: although the write pumps of older  *)
(* connections take results from the same queue, to the center they are    *)
(* one server, which writes one result at a time and keeps their order.    *)
ImplementsResults == Service!Spec

(* A failed write loses its result, but the pump and the socket end with   *)
(* it: no connection loses two results that way, although the pump of a    *)
(* connection that was replaced may still take one.                        *)
FailuresBounded ==
  \A r \in Results : fate[r] = "failed" =>
    /\ failedOn[r] \in Conns /\ link[failedOn[r]] \in {"broken", "closed"}
    /\ \A q \in Results : fate[q] = "failed" /\ failedOn[q] = failedOn[r] => q = r

(* Once the rejection of a connection has been handled that connection is  *)
(* closed, be it the current one or not.                                   *)
RejectedLinkCloses ==
  [][\A c \in Conns : pump["read"][c] = "reject" /\ pump'["read"][c] # "reject"
                        => link'[c] = "closed"]_vars

(* Errors that pumps of older connections report late never make Run give  *)
(* up a connection that works.                                             *)
HealthyLinkKept ==
  [][main = "serve" /\ main' # "serve" => shutdown \/ link[cur] # "up"]_vars

(* The wait doubles with each attempt up to reconnect_max_secs, as the     *)
(* name exponentialBackoff says.                                           *)
BackoffGrows ==
  [][main' = "backoff" /\ main # "backoff" /\ wait > 0
       => wait' > wait \/ wait' = ReconnectMax]_vars

(* Run notices that its connection no longer works.  Only the heartbeat    *)
(* can find a silent peer: reads have no deadline.                         *)
DeadLinkNoticed ==
  \A c \in Conns :
    (main = "serve" /\ cur = c /\ link[c] # "up") ~> (link[c] = "closed")

(* After a signal Run returns, wherever it is. *)
ShutdownCompletes == shutdown ~> main = "done"

(* No goroutine outlives its connection for ever: none blocks on errCh or  *)
(* on the mutex.                                                           *)
PumpsEnd ==
  \A c \in Conns : cancelled[c] ~> (\A k \in Kinds : pump[k][c] = "ended")

(* On a connection that stays up the queue drains, whatever the earlier    *)
(* connections left behind.                                                *)
SteadyLinkDrains ==
  []<>(\/ sendCh = <<>> /\ \A c \in Conns : carried[c] = None
       \/ ~(main = "serve" /\ link[cur] = "up" /\ ~shutdown))
=============================================================================
