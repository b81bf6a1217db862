-------------------------------- MODULE Agent --------------------------------
(***************************************************************************)
(* The agent as cmd/agent/main.go puts it together: the store, the handler *)
(* and the client in one process that may crash or be stopped and be       *)
(* started again.  Of a process only the probe id in the bolt file         *)
(* survives.                                                               *)
(*                                                                         *)
(* The handler is JobService and the client's queue is ResultService; that *)
(* Handler and Client implement them is checked there.  A worker or reader *)
(* that answers a job calls h.send, which is Client.Send: one step of      *)
(* both.  The probe id is what the modules share across connections and    *)
(* lives, and the goroutines that read and write it are here in detail.    *)
(***************************************************************************)
EXTENDS Naturals, Sequences

CONSTANTS
  Jobs,
  Silent,      \* the jobs without a payload, which are not answered
  Capacity,    \* of the worker pool
  SendCap,     \* of sendCh
  MaxConns,    \* bound: how many dials may succeed, in all lives
  MaxAcks,     \* bound: how many auth_acks with a probe id the center sends
  MaxLives,    \* bound: how often the process is started
  None

ASSUME AgentAssumption ==
  /\ Silent \subseteq Jobs
  /\ {Capacity, SendCap, MaxConns, MaxLives} \subseteq Nat \ {0}
  /\ MaxAcks \in Nat
  /\ None \notin Jobs \cup Nat
  /\ Jobs \cap Nat = {}

Conns == 1..MaxConns
Acks  == 1..MaxAcks    \* the n-th auth_ack of the center, with its probe id
Kinds == {"read", "write", "beat"}

VARIABLES
  main,       \* where main and Run are
  lives,      \* how often the process was started
  signalled,  \* the context of Run is cancelled
  disk,       \* every probe id SetProbeID committed; the last is in the store
  writers,    \* history: the connection whose reader made each commit
  cur,        \* the newest connection
  link,       \* what is written on a connection reaches the center if it is up
  inbox,      \* on each connection, the auth_acks not yet read
  acked,      \* how many auth_acks the center sent
  pumps,      \* the goroutines of connections that are running
  authAs,     \* how many commits the id in the auth frame is the last of
  beat,       \* the same for a heartbeat between its read and its write
  seen,       \* the same for the last frame with an id that reached the center
  status,     \* of the jobs, see JobService
  queue, hand, delivered, lost    \* see ResultService

storeVars  == <<disk, writers>>
clientVars == <<cur, link, pumps, authAs, beat>>
centerVars == <<acked, seen>>
resultVars == <<queue, hand, delivered, lost>>
vars == <<main, lives, signalled, storeVars, clientVars, inbox, centerVars, status, resultVars>>

Service == INSTANCE JobService
Results == INSTANCE ResultService WITH Results <- Jobs, Capacity <- SendCap

Init ==
  /\ main = "down"
  /\ lives = 0
  /\ signalled = FALSE
  /\ disk = <<>>
  /\ writers = <<>>
  /\ cur = 0
  /\ link = [c \in Conns |-> "none"]
  /\ inbox = [c \in Conns |-> <<>>]
  /\ acked = 0
  /\ pumps = {}
  /\ authAs = 0
  /\ beat = [c \in Conns |-> None]
  /\ seen = 0
  /\ Service!Init
  /\ Results!Init

(* BrokenX is a mutation of the definition X, the code with a plausible    *)
(* mistake in it: it shows that a property can fail.  Nothing refers to it.*)

-----------------------------------------------------------------------------
(* The process *)

(* config.Load, store.Open, handler.New and ws.NewClient: everything but   *)
(* the file starts empty.                                                  *)
Start ==
  /\ main = "down"
  /\ lives < MaxLives
  /\ main' = "dial"
  /\ lives' = lives + 1
  /\ UNCHANGED <<signalled, storeVars, clientVars, inbox, centerVars, status, resultVars>>

Unanswered == {"pending", "running"}

(* SetProbeID returns before the commit is on the disk. *)
BrokenEnd ==
  /\ main' = "down"
  /\ signalled' = FALSE
  /\ \E n \in 0..Len(disk) :
       /\ disk' = SubSeq(disk, 1, n)
       /\ writers' = SubSeq(writers, 1, n)
  /\ link' = [c \in Conns |-> IF link[c] = "up" THEN "down" ELSE link[c]]
  /\ inbox' = [c \in Conns |-> <<>>]
  /\ pumps' = {}
  /\ authAs' = 0
  /\ beat' = [c \in Conns |-> None]
  /\ status' = [j \in Jobs |-> IF status[j] \in Unanswered THEN "forgotten" ELSE status[j]]
  /\ lost' = lost \cup Results!Elements(queue) \cup ({hand} \ {None})
  /\ queue' = <<>>
  /\ hand' = None
  /\ UNCHANGED <<lives, cur, centerVars, delivered>>

(* What is left when the process is gone.  The jobs in the handler are     *)
(* forgotten and the results in the client are lost.                       *)
End ==
  /\ main' = "down"
  /\ signalled' = FALSE
  /\ link' = [c \in Conns |-> IF link[c] = "up" THEN "down" ELSE link[c]]
  /\ inbox' = [c \in Conns |-> <<>>]
  /\ pumps' = {}
  /\ authAs' = 0
  /\ beat' = [c \in Conns |-> None]
  /\ status' = [j \in Jobs |-> IF status[j] \in Unanswered THEN "forgotten" ELSE status[j]]
  /\ lost' = lost \cup Results!Elements(queue) \cup ({hand} \ {None})
  /\ queue' = <<>>
  /\ hand' = None
  /\ UNCHANGED <<lives, storeVars, cur, centerVars, delivered>>

Crash == main # "down" /\ End

Signal ==
  /\ main \notin {"down", "closing", "exiting"}
  /\ ~signalled
  /\ signalled' = TRUE
  /\ UNCHANGED <<main, lives, storeVars, clientVars, inbox, centerVars, status, resultVars>>

(* The deferred s.Close(), after Run has returned. *)
CloseStore ==
  /\ main = "closing"
  /\ main' = "exiting"
  /\ UNCHANGED <<lives, signalled, storeVars, clientVars, inbox, centerVars, status, resultVars>>

(* main returns, and with it every goroutine ends. *)
Exit == main = "exiting" /\ End

-----------------------------------------------------------------------------
(* The store *)

(* GetProbeID: how many commits its answer is the last of.  A closed       *)
(* store is an error, and the caller goes on with an empty id.             *)
GetProbeID == IF main = "exiting" THEN 0 ELSE Len(disk)

(* One bolt transaction of the reader of c, which may fail. *)
SetProbeID(id, c) ==
  \/ /\ main # "exiting"
     /\ disk' = Append(disk, id)
     /\ writers' = Append(writers, c)
  \/ UNCHANGED storeVars

-----------------------------------------------------------------------------
(* Run and connectAndServe *)

(* Nothing written on a connection that is down reaches the center, be it  *)
(* closed, broken or silently dead.                                        *)
Cut(c) ==
  /\ link' = [link EXCEPT ![c] = "down"]
  /\ IF hand # None /\ link[c] = "up" THEN Results!Lose ELSE UNCHANGED resultVars

Break(c) ==
  /\ link[c] = "up"
  /\ Cut(c)
  /\ UNCHANGED <<main, lives, signalled, storeVars, cur, pumps, authAs, beat, inbox, centerVars,
                 status>>

Dial ==
  /\ main = "dial"
  /\ ~signalled
  /\ cur < MaxConns
  /\ cur' = cur + 1
  /\ link' = [link EXCEPT ![cur + 1] = "up"]
  /\ main' = "fetch"
  /\ UNCHANGED <<lives, signalled, storeVars, pumps, authAs, beat, inbox, centerVars, status,
                 resultVars>>

Return ==
  /\ main = "dial"
  /\ signalled
  /\ main' = "closing"
  /\ UNCHANGED <<lives, signalled, storeVars, clientVars, inbox, centerVars, status, resultVars>>

(* sendAuth reads the id, and writes it later. *)
ReadProbeID ==
  /\ main = "fetch"
  /\ authAs' = GetProbeID
  /\ main' = "auth"
  /\ UNCHANGED <<lives, signalled, storeVars, cur, link, pumps, beat, inbox, centerVars, status,
                 resultVars>>

SendAuth ==
  /\ main = "auth"
  /\ main' = "serve"
  /\ pumps' = pumps \cup (Kinds \X {cur})
  /\ seen' = IF link[cur] = "up" THEN authAs ELSE seen
  /\ authAs' = 0
  /\ UNCHANGED <<lives, signalled, storeVars, cur, link, beat, inbox, acked, status,
                 resultVars>>

(* After a failed write of the auth frame, after the error of a pump, or   *)
(* after a signal.                                                         *)
AfterError == IF signalled THEN "closing" ELSE "dial"

(* ctx.Done() returns without closing the socket. *)
BrokenDisconnect ==
  /\ \/ main = "auth" /\ link[cur] = "down"
     \/ main = "serve" /\ (link[cur] = "down" \/ signalled)
  /\ main' = AfterError
  /\ IF signalled THEN UNCHANGED <<link, resultVars>> ELSE Cut(cur)
  /\ authAs' = 0
  /\ UNCHANGED <<lives, signalled, storeVars, cur, pumps, beat, inbox, centerVars, status>>

Disconnect ==
  /\ \/ main = "auth" /\ link[cur] = "down"
     \/ main = "serve" /\ (link[cur] = "down" \/ signalled)
  /\ main' = AfterError
  /\ Cut(cur)
  /\ authAs' = 0
  /\ UNCHANGED <<lives, signalled, storeVars, cur, pumps, beat, inbox, centerVars, status>>

Run == Dial \/ Return \/ ReadProbeID \/ SendAuth \/ Disconnect

-----------------------------------------------------------------------------
(* The center *)

Offer(c) == link[c] = "up" /\ <<"read", c>> \in pumps

CenterAcks(c) ==
  /\ Offer(c)
  /\ acked < MaxAcks
  /\ acked' = acked + 1
  /\ inbox' = [inbox EXCEPT ![c] = Append(@, acked + 1)]
  /\ UNCHANGED <<main, lives, signalled, storeVars, clientVars, seen, status, resultVars>>

-----------------------------------------------------------------------------
(* The pumps *)

(* Each message is handled by a goroutine of its own. *)
BrokenHandleAuthAck(c) ==
  /\ <<"read", c>> \in pumps
  /\ \E i \in DOMAIN inbox[c] :
       /\ SetProbeID(inbox[c][i], c)
       /\ inbox' = [inbox EXCEPT ![c] = SubSeq(@, 1, i - 1) \o SubSeq(@, i + 1, Len(@))]
  /\ UNCHANGED <<main, lives, signalled, clientVars, centerVars, status, resultVars>>

HandleAuthAck(c) ==
  /\ <<"read", c>> \in pumps
  /\ inbox[c] # <<>>
  /\ SetProbeID(Head(inbox[c]), c)
  /\ inbox' = [inbox EXCEPT ![c] = Tail(@)]
  /\ UNCHANGED <<main, lives, signalled, clientVars, centerVars, status, resultVars>>

(* A job is queued, or refused with an answer.  The center sends each once; *)
(* one it has not sent and one that is not yet read are the same here.     *)
HandleJobMessage(c) ==
  /\ <<"read", c>> \in pumps
  /\ \E j \in Jobs :
       \/ Service!Admit(j) /\ UNCHANGED resultVars
       \/ Service!Refuse(j) /\ Results!Put(j)
  /\ UNCHANGED <<main, lives, signalled, storeVars, clientVars, inbox, centerVars>>

(* What is left unread is lost with the socket. *)
ReadFails(c) ==
  /\ <<"read", c>> \in pumps
  /\ link[c] = "down"
  /\ pumps' = pumps \ {<<"read", c>>}
  /\ inbox' = [inbox EXCEPT ![c] = <<>>]
  /\ UNCHANGED <<main, lives, signalled, storeVars, cur, link, authAs, beat, centerVars, status,
                 resultVars>>

(* The pump returns after a write that failed; a write to a peer that      *)
(* vanished may still succeed.                                             *)
EndsOrGoesOn(k, c) ==
  \/ pumps' = pumps \ {<<k, c>>}
  \/ main = "serve" /\ c = cur /\ UNCHANGED pumps

TakeResult(c) ==
  /\ <<"write", c>> \in pumps
  /\ \/ link[c] = "up" /\ Results!Take /\ UNCHANGED pumps
     \/ link[c] = "down" /\ Results!Waste /\ EndsOrGoesOn("write", c)
  /\ UNCHANGED <<main, lives, signalled, storeVars, cur, link, authAs, beat, inbox, centerVars,
                 status>>

(* A result that was written stays in the pump's hands. *)
BrokenWriteResult(c) ==
  /\ <<"write", c>> \in pumps
  /\ link[c] = "up"
  /\ hand # None
  /\ delivered' = Append(delivered, hand)
  /\ UNCHANGED <<main, lives, signalled, storeVars, clientVars, inbox, centerVars, status,
                 queue, hand, lost>>

WriteResult(c) ==
  /\ <<"write", c>> \in pumps
  /\ link[c] = "up"
  /\ Results!Deliver
  /\ UNCHANGED <<main, lives, signalled, storeVars, clientVars, inbox, centerVars, status>>

ReadBeat(c) ==
  /\ <<"beat", c>> \in pumps
  /\ beat[c] = None
  /\ beat' = [beat EXCEPT ![c] = GetProbeID]
  /\ UNCHANGED <<main, lives, signalled, storeVars, cur, link, pumps, authAs, inbox, centerVars,
                 status, resultVars>>

WriteBeat(c) ==
  /\ beat[c] # None
  /\ \/ link[c] = "up" /\ seen' = beat[c] /\ UNCHANGED pumps
     \/ link[c] = "down" /\ EndsOrGoesOn("beat", c) /\ UNCHANGED seen
  /\ beat' = [beat EXCEPT ![c] = None]
  /\ UNCHANGED <<main, lives, signalled, storeVars, cur, link, authAs, inbox, acked,
                 status, resultVars>>

(* All connections share one context. *)
BrokenStop(k, c) ==
  /\ k # "read"
  /\ <<k, c>> \in pumps
  /\ k = "beat" => beat[c] = None
  /\ signalled \/ cur > 1
  /\ pumps' = pumps \ {<<k, c>>}
  /\ UNCHANGED <<main, lives, signalled, storeVars, cur, link, authAs, beat, inbox, centerVars,
                 status, resultVars>>

(* connCtx is done. *)
Stop(k, c) ==
  /\ k # "read"
  /\ <<k, c>> \in pumps
  /\ k = "beat" => beat[c] = None
  /\ signalled \/ c # cur \/ main # "serve"
  /\ pumps' = pumps \ {<<k, c>>}
  /\ UNCHANGED <<main, lives, signalled, storeVars, cur, link, authAs, beat, inbox, centerVars,
                 status, resultVars>>

Pumps(c) ==
  \/ HandleAuthAck(c) \/ HandleJobMessage(c) \/ ReadFails(c)
  \/ TakeResult(c) \/ WriteResult(c) \/ ReadBeat(c) \/ WriteBeat(c)
  \/ \E k \in Kinds : Stop(k, c)

-----------------------------------------------------------------------------
(* The workers *)

StartJob(j) ==
  /\ main # "down"
  /\ Service!Start(j)
  /\ UNCHANGED <<main, lives, signalled, storeVars, clientVars, inbox, centerVars, resultVars>>

(* sendCh has no buffer: the worker waits for a write pump. *)
BrokenSettleJob(j) ==
  /\ Service!Settle(j)
  /\ \/ j \in Silent /\ UNCHANGED resultVars
     \/ (\E c \in Conns : <<"write", c>> \in pumps) /\ Results!Put(j)
  /\ UNCHANGED <<main, lives, signalled, storeVars, clientVars, inbox, centerVars>>

(* The worker passes the result to h.send, if there is one. *)
SettleJob(j) ==
  /\ Service!Settle(j)
  /\ IF j \in Silent THEN UNCHANGED resultVars ELSE Results!Put(j)
  /\ UNCHANGED <<main, lives, signalled, storeVars, clientVars, inbox, centerVars>>

Workers == \E j \in Jobs : StartJob(j) \/ SettleJob(j)

-----------------------------------------------------------------------------
Next ==
  \/ Start \/ Crash \/ Signal \/ CloseStore \/ Exit
  \/ Run \/ Workers
  \/ \E c \in Conns : Break(c) \/ CenterAcks(c) \/ Pumps(c)

Spec == Init /\ [][Next]_vars

(* Goroutines are scheduled and runners return; a write ends within its    *)
(* deadline, which on a connection that stays up means that it succeeds.   *)
FairSpec ==
  /\ Spec
  /\ WF_vars(Workers)
  /\ \A c \in Conns : WF_vars(TakeResult(c) \/ WriteResult(c))

-----------------------------------------------------------------------------
(* Properties *)

TypeOK ==
  /\ main \in {"down", "dial", "fetch", "auth", "serve", "closing", "exiting"}
  /\ lives \in 0..MaxLives
  /\ signalled \in BOOLEAN
  /\ disk \in Seq(Acks)
  /\ writers \in Seq(Conns) /\ Len(writers) = Len(disk)
  /\ cur \in 0..MaxConns
  /\ link \in [Conns -> {"none", "up", "down"}]
  /\ inbox \in [Conns -> Seq(Acks)]
  /\ acked \in 0..MaxAcks
  /\ pumps \subseteq Kinds \X (1..cur)
  /\ {authAs, seen} \subseteq 0..Len(disk)
  /\ beat \in [Conns -> (0..Len(disk)) \cup {None}]
  /\ status \in [Jobs -> Service!Statuses \cup {"forgotten"}]
  /\ queue \in Seq(Jobs) /\ Len(queue) <= SendCap
  /\ hand \in Jobs \cup {None}
  /\ delivered \in Seq(Jobs)
  /\ lost \subseteq Jobs

(* A job is reported to the center at most once, and only after its answer *)
(* was made: what a crash has forgotten and what was lost on the way is    *)
(* never reported by a later life of the process.                          *)
OneReportPerJob ==
  /\ \A i, k \in DOMAIN delivered : delivered[i] = delivered[k] => i = k
  /\ \A i \in DOMAIN delivered :
       /\ status[delivered[i]] \in {"refused", "answered"}
       /\ delivered[i] \notin lost

(* The auth_ack whose probe id the center heard last, 0 for none. *)
Heard == IF seen = 0 THEN 0 ELSE disk[seen]

(* What the center hears follows the store: an id that was overwritten is  *)
(* not heard again after the one that overwrote it, nor is an empty one,   *)
(* be it from a stale heartbeat, a restarted process or one that has       *)
(* closed its store.  So an id of an older auth_ack is heard after that of *)
(* a newer one only if the reader of an older connection stored it after   *)
(* that of a newer connection stored the other, which handler.go:190 lets  *)
(* it do.                                                                  *)
IdentityFollowsStore ==
  [][/\ seen' >= seen
     /\ Heard' < Heard => writers'[seen'] < writers'[seen]]_vars

(* The probe id in the store goes back to that of an older auth_ack only   *)
(* by the reader of a connection that has been replaced: on one connection *)
(* auth_acks are handled in order, also with crashes in between.           *)
OnlyStaleReadersGoBack ==
  [][Len(disk') > Len(disk) /\ disk # <<>> /\ disk'[Len(disk')] < disk[Len(disk)]
       => inbox'[cur] = inbox[cur]]_vars

(* An admitted job is settled or forgotten whatever becomes of the         *)
(* connection: h.send never blocks a worker.                               *)
PoolNeverBlocks == \A j \in Jobs : (status[j] = "pending") ~> (status[j] \notin Unanswered)

Steady == main = "serve" /\ link[cur] = "up" /\ ~signalled

(* On a connection that stays up every answer is reported or lost to a     *)
(* full queue, also those of jobs that came over an earlier connection.    *)
SteadyAgentReports ==
  []<>(\/ \A j \in Jobs :
            /\ status[j] \notin Unanswered
            /\ j \notin Results!Elements(queue) \cup {hand}
       \/ ~Steady)
=============================================================================
