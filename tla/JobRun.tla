------------------------------- MODULE JobRun -------------------------------
(***************************************************************************)
(* One run of a job: what handleJob does from the job's budget (jobTimeout *)
(* of internal/handler/handler.go) through the runner for the job's type   *)
(* (internal/runner) to the status fields sendResult puts in the result.   *)
(* Runs share nothing but last_error, so one is enough.                    *)
(*                                                                         *)
(* Time passes in ticks of 500 ms, the shortest timeout_ms a runner        *)
(* accepts.  A wait ends by itself at any instant up to its deadline, and  *)
(* at the deadline a timer ends it.  An error is what the code can tell    *)
(* about it: which of the words "invalid" and "timeout" its text has, and  *)
(* whether it wraps context.DeadlineExceeded.                              *)
(***************************************************************************)
EXTENDS Integers, FiniteSetsExt

CONSTANTS
  Jobs,          \* the jobs a run may be of
  TraceLength,   \* the longest a traceroute takes, in ticks
  MaxInt64,      \* the largest time.Duration, in ticks; bounds the clock
  None

(* The targets tell apart what the agent looks up: no "plain" target, a    *)
(* "name" for tls and ntp only, and "dn42", a name under .dn42 or          *)
(* .internal, for ping and traceroute too.  Of a dns job it is the         *)
(* resolver, an address ("plain") or a host name.  "bad" stands for every  *)
(* target or option a runner refuses, timeout and count aside.  timeout_ms *)
(* and deadline (from the start) are in ticks, timeout in seconds.         *)
(* jobTimeoutNanos, in ticks, is what the handler's limit is when the run  *)
(* starts; a policy may overflow it.                                       *)
Job == [type : {"ping", "traceroute", "dns", "http", "tls", "ntp"},
        target : {"plain", "name", "dn42", "bad"},
        timeout_ms : Int \cup {None},
        timeout : Int \cup {None},
        count : Int \cup {None},
        deadline : Int \cup {None},
        jobTimeoutNanos : Int]

ASSUME JobRunAssumption ==
  /\ Jobs \subseteq Job
  /\ {TraceLength, MaxInt64} \subseteq Nat \ {0}
  /\ None \notin Int \cup {"invalid", "invalid timeout", "timeout", "deadline", "other"}

Second == 2

Commands == {"ping", "traceroute"}

VARIABLES
  job,
  clock,     \* ticks since handleJob started the run
  phase,     \* what the runner waits for
  budget,    \* when the context handleJob made expires
  own,       \* when the runner's own timer ends the wait, or the command ends
  ended,     \* the timers that were due when one of them ended a wait
  query,     \* lookupDN42DNS: the query it is at, 0 before the first
  queryEnd,  \* when that query gives up, 0 when none runs
  found,     \* a query had an address
  sysErr,    \* the system resolver's error, until the name is resolved after all
  result     \* the status fields of the message passed to h.send

lookupVars == <<query, queryEnd, found, sysErr>>
vars == <<job, clock, phase, budget, own, ended, lookupVars, result>>

-----------------------------------------------------------------------------
(* Errors and results *)

SaysTimeout(e) == e \in {"invalid timeout", "timeout"}
SaysInvalid(e) == e \in {"invalid timeout", "invalid"}

(* errorsIsDeadline compares with ==, and every deadline error that        *)
(* reaches it is wrapped: only the text counts.                            *)
agentStatus(e) == IF e = None THEN "ok" ELSE IF SaysTimeout(e) THEN "timeout" ELSE "error"

classifyError(e) ==
  IF SaysTimeout(e) THEN "timeout" ELSE IF SaysInvalid(e) THEN "validation" ELSE "error"

(* Compared with ==, not unwrapped. *)
BrokenErrorType(e) == IF SaysTimeout(e) THEN "timeout" ELSE "error"

(* errorType and dnsErrorType unwrap the error; httpErrorType does not.    *)
errorType(e)     == IF e = "deadline" \/ SaysTimeout(e) THEN "timeout" ELSE "error"
httpErrorType(e) == IF SaysTimeout(e) THEN "timeout" ELSE "error"

(* What a runner returns: an error, or a map that may name a status. *)
Fail(e)   == [err |-> e, status |-> "", type |-> ""]
Failed(t) == [err |-> None, status |-> "error", type |-> t]
Ok        == [err |-> None, status |-> "ok", type |-> ""]
Plain     == [err |-> None, status |-> "", type |-> ""]

(* The success of the runner, not of the measurement. *)
BrokenSuccess(ret) ==
  LET status == IF ret.err # None THEN "error" ELSE IF ret.status = "" THEN "ok" ELSE ret.status
  IN  [agent_status       |-> agentStatus(ret.err),
       measurement_status |-> status,
       error_type         |-> IF ret.err # None THEN classifyError(ret.err) ELSE ret.type,
       success            |-> ret.err = None]

(* No default for a runner that names no status. *)
BrokenStatus(ret) ==
  [agent_status       |-> agentStatus(ret.err),
   measurement_status |-> IF ret.err # None THEN "error" ELSE ret.status,
   error_type         |-> IF ret.err # None THEN classifyError(ret.err) ELSE ret.type,
   success            |-> ret.err = None /\ ret.status # "error"]

SendResult(ret) ==
  LET status == IF ret.err # None THEN "error" ELSE IF ret.status = "" THEN "ok" ELSE ret.status
  IN  [agent_status       |-> agentStatus(ret.err),
       measurement_status |-> status,
       error_type         |-> IF ret.err # None THEN classifyError(ret.err)
                              ELSE IF status = "error" /\ ret.type = "" THEN "error"
                              ELSE ret.type,
       success            |-> ret.err = None /\ status # "error"]

Finish(ret) ==
  /\ phase' = "done"
  /\ result' = SendResult(ret)

-----------------------------------------------------------------------------
(* The job's budget, and the runner's own reading of the same options *)

Positive(v) == v # None /\ v > 0

Int64(n) == ((n + MaxInt64 + 1) % (2 * (MaxInt64 + 1))) - (MaxInt64 + 1)

CountOr(default) == IF Positive(job.count) THEN job.count ELSE default

(* The two seconds are left out. *)
BrokenBudget ==
  IF job.deadline # None THEN Max({job.deadline, 0})
  ELSE IF Positive(job.timeout_ms) THEN Int64(job.timeout_ms * CountOr(1))
  ELSE job.jobTimeoutNanos

(* jobTimeout *)
Budget ==
  IF job.deadline # None THEN Max({job.deadline, 0})
  ELSE IF Positive(job.timeout_ms) THEN Int64(job.timeout_ms * CountOr(1) + 2 * Second)
  ELSE IF job.type = "ping" /\ Positive(job.timeout)
       THEN Int64(job.timeout * Second * CountOr(4) + 2 * Second)
  ELSE job.jobTimeoutNanos

DefaultTimeout == [ping |-> 3, traceroute |-> 3, dns |-> 5, http |-> 10, tls |-> 10, ntp |-> 5]

Timeout ==
  IF job.type = "ping" /\ Positive(job.timeout) THEN job.timeout * Second
  ELSE IF job.timeout_ms # None THEN job.timeout_ms
  ELSE DefaultTimeout[job.type] * Second

PingCount == IF job.count # None THEN job.count ELSE 4

BadCount   == job.type = "ping" /\ PingCount \notin 1..20
BadTimeout == job.type # "traceroute" /\ Timeout \notin 1..60

(* The error of the first check that fails.  dns has checks on both sides  *)
(* of the one of timeout_ms.                                               *)
Rejections ==
  IF job.target = "bad" /\ job.type \in {"ping", "traceroute"} THEN {"invalid", "other"}
  ELSE IF BadCount THEN {"invalid"}
  ELSE IF BadTimeout
       THEN {"invalid timeout"} \cup {e \in {"other"} : job.type = "dns" /\ job.target = "bad"}
  ELSE IF job.target = "bad" THEN {"invalid"} \cup {e \in {"other"} : job.type # "http"}
  ELSE {}

(* ping sends once a second and waits timeoutSeconds for the last reply.   *)
CommandLength ==
  IF job.type = "ping"
  THEN (PingCount - 1) * Second + ((Timeout + Second - 1) \div Second) * Second
  ELSE TraceLength

-----------------------------------------------------------------------------
(* Waiting *)

(* Ping and traceroute look a name up in the context of the job; tls and   *)
(* ntp in one with their own timeout.                                      *)
ContextTimers == IF job.type \in Commands THEN {"budget"} ELSE {"budget", "own"}

(* No SetDeadline on the socket. *)
BrokenTimers ==
  CASE phase \in {"resolve", "exchange", "connect", "answer", "request", "dial"} -> {"budget", "own"}
    [] phase = "command" -> {"budget"}
    [] phase = "lookup" -> ContextTimers
    [] phase = "fallback" -> ContextTimers \cup {"query"}
    [] OTHER -> {}

(* The timers that end each wait.  The handshake of tls and the read of    *)
(* ntp have a socket deadline and do not heed the context.                 *)
Timers ==
  CASE phase \in {"resolve", "exchange", "connect", "answer", "request", "dial"} -> {"budget", "own"}
    [] phase = "command" -> {"budget"}
    [] phase = "lookup" -> ContextTimers
    [] phase = "fallback" -> ContextTimers \cup {"query"}
    [] phase = "talk" -> {"own"}
    [] OTHER -> {}

When(timer) ==
  CASE timer = "budget" -> budget [] timer = "own" -> own [] OTHER -> queryEnd

Due == {t \in Timers : When(t) <= clock}

(* The wait may still end by itself: no timer ran out before this instant. *)
Waiting(p) == phase = p /\ \A t \in Timers : When(t) >= clock

Tick ==
  /\ phase \notin {"queued", "done"}
  /\ Due = {}
  /\ phase = "command" => clock < own
  /\ clock < MaxInt64
  /\ clock' = clock + 1
  /\ UNCHANGED <<job, phase, budget, own, ended, lookupVars, result>>

Expires(p) ==
  /\ phase = p
  /\ Due # {}
  /\ ended' = Due
  /\ UNCHANGED <<job, clock, budget, own, lookupVars>>

(* exec.CommandContext does not start a command when its context is done.  *)
StartCommand(expiry) ==
  \/ /\ expiry >= clock
     /\ phase' = "command"
     /\ own' = clock + CommandLength
     /\ UNCHANGED <<ended, result>>
  \/ /\ expiry <= clock
     /\ Finish(Fail("deadline"))
     /\ ended' = {"budget"}
     /\ UNCHANGED own

-----------------------------------------------------------------------------
Init ==
  /\ job \in Jobs
  /\ clock = 0
  /\ phase = "queued"
  /\ budget = 0
  /\ own = 0
  /\ ended = {}
  /\ query = 0
  /\ queryEnd = 0
  /\ found = FALSE
  /\ sysErr = None
  /\ result = None

(* The first wait of a runner that has no command.  dns connects for tcp;  *)
(* for udp it waits only to have the name of its resolver looked up.       *)
FirstPhases ==
  CASE job.type = "dns"  ->
         {"connect", IF job.target = "plain" THEN "exchange" ELSE "resolve"}
    [] job.type = "http" -> {"request"}
    [] OTHER -> IF job.target = "plain" THEN {"dial"} ELSE {"lookup"}

(* handleJob up to the runner's first wait. *)
Begin ==
  /\ phase = "queued"
  /\ budget' = clock + Budget
  /\ \/ /\ \E e \in Rejections : Finish(Fail(e))
        /\ UNCHANGED <<own, ended>>
     \/ /\ Rejections = {}
        /\ job.type \in Commands /\ job.target # "dn42"
        /\ StartCommand(clock + Budget)
     \/ /\ Rejections = {}
        /\ job.type \in Commands /\ job.target = "dn42"
        /\ phase' = "lookup"
        /\ UNCHANGED <<own, ended, result>>
     \/ /\ Rejections = {}
        /\ job.type \notin Commands
        /\ phase' \in FirstPhases
        /\ own' = clock + Timeout
        /\ UNCHANGED <<ended, result>>
  /\ UNCHANGED <<job, clock, lookupVars>>

-----------------------------------------------------------------------------
(* Looking a name up: lookupIPAddrWithDN42Fallback, called by tls and ntp, *)
(* and by resolveCommandTarget for ping and traceroute                     *)

(* The two DN42 resolvers are asked for A and for AAAA, one after the      *)
(* other, whatever the earlier queries found; a query takes at most 3 s.   *)
Queries == 4
QueryTimeout == 3 * Second

(* The timeout starts again after the lookup. *)
BrokenResolved ==
  \/ /\ job.type \notin Commands
     /\ phase' = "dial"
     /\ own' = clock + Timeout
     /\ UNCHANGED <<ended, result>>
  \/ job.type \in Commands /\ StartCommand(budget)

Resolved ==
  \/ job.type \notin Commands /\ phase' = "dial" /\ UNCHANGED <<own, ended, result>>
  \/ job.type \in Commands /\ StartCommand(budget)

(* The system's resolver fails with e; the timers due are to blame. *)
Unresolved(e, timers) ==
  \/ /\ job.target = "dn42"
     /\ phase' = "fallback"
     /\ query' = 1
     /\ queryEnd' = clock + QueryTimeout
     /\ sysErr' = e
     /\ UNCHANGED <<ended, result>>
  \/ /\ job.target # "dn42"
     /\ Finish(Failed(errorType(e)))
     /\ ended' = timers
     /\ UNCHANGED <<query, queryEnd, sysErr>>

Lookup ==
  /\ Waiting("lookup")
  /\ \/ Resolved /\ UNCHANGED <<query, queryEnd, sysErr>>
     \/ \E e \in {"other", "timeout"} : Unresolved(e, {}) /\ UNCHANGED own
  /\ UNCHANGED <<job, clock, budget, found>>

LookupExpires ==
  /\ phase = "lookup"
  /\ Due # {}
  /\ \E e \in {"timeout", "deadline"} : Unresolved(e, Due)
  /\ UNCHANGED <<job, clock, budget, own, found>>

(* The error of the fallback instead of the system's. *)
BrokenQueryDone(timers) ==
  \/ /\ query < Queries
     /\ query' = query + 1
     /\ queryEnd' = clock + QueryTimeout
     /\ UNCHANGED <<phase, own, ended, sysErr, result>>
  \/ /\ query = Queries
     /\ queryEnd' = 0
     /\ \/ (found' \/ job.type \in Commands) /\ Resolved /\ sysErr' = None
        \/ /\ ~found' /\ job.type \notin Commands
           /\ Finish(Failed(errorType(IF timers = {} THEN "other" ELSE "deadline")))
           /\ ended' = timers
           /\ UNCHANGED <<own, sysErr>>
     /\ UNCHANGED query

(* After the last query: an address is used; without one tls and ntp       *)
(* report the system's error, ping and traceroute get the name itself.     *)
QueryDone(timers) ==
  \/ /\ query < Queries
     /\ query' = query + 1
     /\ queryEnd' = clock + QueryTimeout
     /\ UNCHANGED <<phase, own, ended, sysErr, result>>
  \/ /\ query = Queries
     /\ queryEnd' = 0
     /\ \/ (found' \/ job.type \in Commands) /\ Resolved /\ sysErr' = None
        \/ /\ ~found' /\ job.type \notin Commands
           /\ Finish(Failed(errorType(sysErr)))
           /\ ended' = timers
           /\ UNCHANGED <<own, sysErr>>
     /\ UNCHANGED query

(* An answer, with an address or without, or an error. *)
Query ==
  /\ Waiting("fallback")
  /\ \E address \in BOOLEAN : found' = (found \/ address)
  /\ QueryDone({})
  /\ UNCHANGED <<job, clock, budget>>

(* Once the context has expired, the queries left fail at once. *)
QueryExpires ==
  /\ phase = "fallback"
  /\ Due # {}
  /\ UNCHANGED found
  /\ QueryDone(Due \ {"query"})
  /\ UNCHANGED <<job, clock, budget>>

-----------------------------------------------------------------------------
(* Ping and Traceroute *)

(* No reply is a timeout of ping; traceroute names no status. *)
Output(replies) == IF job.type = "ping" /\ ~replies THEN Failed("timeout") ELSE Plain

CommandEnds ==
  /\ Waiting("command")
  /\ \/ \E replies \in BOOLEAN : Finish(Output(replies))
     \/ Finish(Fail("other"))
  /\ UNCHANGED <<job, clock, budget, own, ended, lookupVars>>

(* The context kills the command; what it has printed so far counts. *)
CommandKilled ==
  /\ Expires("command")
  /\ \/ \E replies \in BOOLEAN : Finish(Output(replies))
     \/ \E e \in {"other", "deadline"} : Finish(Fail(e))

-----------------------------------------------------------------------------
(* DNS: ExchangeContext gives the dial and the exchange a timeout each.    *)
(* The dial is where the name of the resolver is looked up, with no DN42   *)
(* fallback; over udp it has nothing else to wait for.                     *)

DnsReply ==
  \/ Finish(Ok)
  \/ \E t \in {"nxdomain", "dns_rcode", errorType("other")} : Finish(Failed(t))

Resolve ==
  /\ Waiting("resolve")
  /\ \/ /\ \E e \in {"other", "timeout"} : Finish(Failed(errorType(e)))
        /\ UNCHANGED own
     \/ /\ phase' = "exchange"
        /\ own' = clock + Timeout
        /\ UNCHANGED result
  /\ UNCHANGED <<job, clock, budget, ended, lookupVars>>

Exchange ==
  /\ Waiting("exchange")
  /\ \/ DnsReply /\ UNCHANGED own
     \/ /\ phase' = "connect"      \* the reply is truncated: again over tcp
        /\ own' = clock + Timeout
        /\ UNCHANGED result
  /\ UNCHANGED <<job, clock, budget, ended, lookupVars>>

Connect ==
  /\ Waiting("connect")
  /\ \/ /\ \E e \in {"other", "timeout"} : Finish(Failed(errorType(e)))
        /\ UNCHANGED own
     \/ /\ phase' = "answer"
        /\ own' = clock + Timeout
        /\ UNCHANGED result
  /\ UNCHANGED <<job, clock, budget, ended, lookupVars>>

Answer ==
  /\ Waiting("answer")
  /\ DnsReply
  /\ UNCHANGED <<job, clock, budget, own, ended, lookupVars>>

DnsExpires ==
  /\ \E p \in {"resolve", "exchange", "connect", "answer"} : Expires(p)
  /\ \E e \in {"timeout", "deadline"} : Finish(Failed(errorType(e)))

-----------------------------------------------------------------------------
(* HTTP *)

Request ==
  /\ Waiting("request")
  /\ Finish(Ok) \/ \E e \in {"other", "timeout"} : Finish(Failed(httpErrorType(e)))
  /\ UNCHANGED <<job, clock, budget, own, ended, lookupVars>>

(* The client's timer says "Client.Timeout exceeded"; the context is an    *)
(* i/o timeout while dialling and otherwise only the deadline error.  An   *)
(* error while the body is read is dropped.                                *)
RequestExpires ==
  /\ Expires("request")
  /\ \/ Finish(Failed(httpErrorType("timeout")))
     \/ "budget" \in Due /\ Finish(Failed(httpErrorType("deadline")))
     \/ Finish(Ok)

-----------------------------------------------------------------------------
(* TLS and NTP *)

(* The socket gets a deadline of its own, from now. *)
Dial ==
  /\ Waiting("dial")
  /\ \/ Finish(Failed(errorType("other"))) /\ UNCHANGED own
     \/ /\ phase' = "talk"
        /\ own' = clock + Timeout
        /\ UNCHANGED result
  /\ UNCHANGED <<job, clock, budget, ended, lookupVars>>

Talk ==
  /\ Waiting("talk")
  /\ \/ Finish(Ok)
     \/ Finish(Failed(errorType("other")))
     \/ /\ job.type = "ntp"
        /\ \E t \in {"invalid_mode", "kiss_of_death", "origin_mismatch"} : Finish(Failed(t))
  /\ UNCHANGED <<job, clock, budget, own, ended, lookupVars>>

ConnectionExpires ==
  /\ \E p \in {"dial", "talk"} : Expires(p)
  /\ \E e \in {"timeout", "deadline"} : Finish(Failed(errorType(e)))

Next ==
  \/ Begin \/ Tick
  \/ Lookup \/ LookupExpires \/ Query \/ QueryExpires
  \/ CommandEnds \/ CommandKilled
  \/ Resolve \/ Exchange \/ Connect \/ Answer \/ DnsExpires
  \/ Request \/ RequestExpires
  \/ Dial \/ Talk \/ ConnectionExpires

Spec == Init /\ [][Next]_vars

(* Time passes, timers fire and commands end; the network owes nothing.    *)
Forced ==
  \/ Begin \/ Tick
  \/ DnsExpires \/ RequestExpires \/ ConnectionExpires \/ CommandKilled
  \/ LookupExpires \/ QueryExpires
  \/ CommandEnds /\ clock = own

FairSpec == Spec /\ WF_vars(Forced)

-----------------------------------------------------------------------------
(* Properties *)

(* The values of the status fields of a result. *)
ErrorNames == {"", "timeout", "validation", "error", "nxdomain", "dns_rcode",
               "invalid_mode", "kiss_of_death", "origin_mismatch"}

Statuses == [agent_status : {"ok", "timeout", "error"},
             measurement_status : {"ok", "error"},
             error_type : ErrorNames,
             success : BOOLEAN]

(* A run has a result once it is done, and not before.                     *)
TypeOK ==
  /\ job \in Jobs
  /\ clock \in 0..MaxInt64
  /\ phase \in {"queued", "lookup", "fallback", "command", "exchange", "connect", "answer",
                "resolve", "request", "dial", "talk", "done"}
  /\ budget \in Int /\ own \in Int
  /\ ended \subseteq {"budget", "own"}
  /\ query \in 0..Queries /\ queryEnd \in Nat /\ found \in BOOLEAN
  /\ sysErr \in {None, "other", "timeout", "deadline"}
  /\ IF phase = "done" THEN result \in Statuses ELSE result = None

(* The four status fields of a result tell one story, whichever runner and *)
(* whichever timer produced it: a success has no error_type, a failure has *)
(* one, and the agent's own failure is never a successful measurement      *)
(* (sendResult, with the statuses the six runners return).                 *)
StatusesAgree ==
  phase = "done" =>
    /\ result.success <=> result.measurement_status = "ok"
    /\ result.success <=> result.error_type = ""
    /\ result.agent_status # "ok" => ~result.success

(* How long one job holds its worker.  No run outlives its budget but for  *)
(* the handshake of tls and the read of ntp, which may add one timeout;    *)
(* and a runner with a timer of its own ends within one (http), two (tls   *)
(* and ntp: connect, then talk) or three of them (dns: udp, then connect   *)
(* and tcp when the reply is truncated), however large the budget.  A dns  *)
(* resolver given by name costs a fourth: it is looked up for udp, and     *)
(* again in the time of the tcp connect (dns.go:59-66).                    *)
RunBounded ==
  phase = "done" =>
    /\ clock <= Max({budget, 0}) + IF job.type \in {"tls", "ntp"} THEN Max({Timeout, 0}) ELSE 0
    /\ job.type = "http" => clock <= Max({Timeout, 0})
    /\ job.type \in {"tls", "ntp"} => clock <= 2 * Max({Timeout, 0})
    /\ job.type = "dns" => clock <= (IF job.target = "plain" THEN 3 ELSE 4) * Max({Timeout, 0})

(* The two seconds jobTimeout adds do their work: without a deadline from  *)
(* the center, with a count a ping may have and a policy that leaves the   *)
(* runner its default, the budget never ends the run of an http, tls or    *)
(* ntp job: the runner's own timer does, and an http result says so (a     *)
(* body that is cut off aside).                                            *)
OwnTimerFirst ==
  /\ phase = "done" /\ job.type \in {"http", "tls", "ntp"}
  /\ job.deadline = None /\ (job.count # None => job.count <= 20)
  /\ job.jobTimeoutNanos > Timeout
  /\ ended # {}
  => /\ ended = {"own"}
     /\ job.type = "http" => result.error_type = "timeout" \/ result.success

(* A dns, tls or ntp run that any timer ended says so, whichever of the    *)
(* library's errors it met and however far its lookup was (errorType and   *)
(* dnsErrorType); but a name the system's resolver did not find and that   *)
(* was not found in the time left for DN42 either is what that resolver    *)
(* said of it (lookupIPAddrWithDN42Fallback).                              *)
TimerMeansTimeout ==
  phase = "done" /\ ended # {} /\ job.type \in {"dns", "tls", "ntp"} /\ sysErr # "other" =>
    result.error_type = "timeout"

(* The DN42 fallback hides neither an address nor an error: a lookup fails *)
(* only after all four queries, none of which had an address, and is then  *)
(* reported as the system's resolver failed, not as the last query did;    *)
(* an address any of them had is used, whatever became of the others.      *)
FallbackHidesNothing ==
  phase = "done" /\ job.type \in {"tls", "ntp"} /\ query > 0 =>
    \/ found /\ sysErr = None
    \/ /\ ~found /\ query = Queries
       /\ ~result.success /\ result.error_type = errorType(sysErr)

(* handleJob returns: no option and no network makes a run last for ever.  *)
(* Handler's fairness (a worker that runs a job ends it) rests on this.    *)
EveryRunEnds == <>(phase = "done")

-----------------------------------------------------------------------------
(* What the code means and does not do *)

(* httpErrorType tests for context.DeadlineExceeded: an http run that was  *)
(* ended by a deadline before its response is a timeout.                   *)
HttpDeadlineIsTimeout ==
  phase = "done" /\ job.type = "http" /\ ended # {} /\ ~result.success =>
    result.error_type = "timeout"

(* jobTimeout gives a ping time for every one of its probes: without a     *)
(* deadline from the center, and with no name to look up, it is not killed *)
(* before it has sent them and waited for the last.                        *)
PingNotKilled ==
  phase = "done" /\ job.type = "ping" /\ job.target # "dn42" /\ job.deadline = None =>
    "budget" \notin ended

(* classifyError calls the errors that say "invalid" validation errors:    *)
(* options out of range are not reported as a timeout.                     *)
RejectedIsNoTimeout ==
  phase = "done" /\ own = 0 /\ ended = {} => result.error_type # "timeout"

=============================================================================
