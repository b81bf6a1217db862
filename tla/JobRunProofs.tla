---------------------------- MODULE JobRunProofs ----------------------------
(***************************************************************************)
(* Theorems about JobRun, for any values of the options and any limits.    *)
(***************************************************************************)
EXTENDS JobRun, TLAPS

Texts == {"invalid", "invalid timeout", "timeout", "deadline", "other"}

ErrorTypes == {"timeout", "error", "nxdomain", "dns_rcode",
               "invalid_mode", "kiss_of_death", "origin_mismatch"}

(* sendResult makes an agreeing result of each thing a runner returns: an  *)
(* error, a failed measurement with its error type, or a map with the      *)
(* status ok or none.                                                      *)
LEMMA FailAgrees ==
  ASSUME NEW e \in Texts, Finish(Fail(e))
  PROVE  StatusesAgree'
<1>1. e # None
  BY JobRunAssumption DEF Texts
<1>2. classifyError(e) # ""
  BY DEF classifyError
<1>3. /\ result'.measurement_status = "error"
      /\ result'.error_type = classifyError(e)
      /\ result'.success = FALSE
  BY <1>1 DEF Finish, SendResult, Fail
<1>4. QED  BY <1>2, <1>3 DEF StatusesAgree

LEMMA FailedAgrees ==
  ASSUME NEW t \in ErrorTypes, Finish(Failed(t))
  PROVE  StatusesAgree'
<1>1. /\ result'.measurement_status = "error"
      /\ result'.error_type = t
      /\ result'.success = FALSE
  BY DEF Finish, SendResult, Failed, ErrorTypes
<1>2. QED  BY <1>1 DEF StatusesAgree, ErrorTypes

LEMMA OkAgrees ==
  ASSUME NEW ret, ret = Ok \/ ret = Plain, Finish(ret)
  PROVE  StatusesAgree'
<1>1. ret.err = None /\ ret.status \in {"ok", ""} /\ ret.type = ""
  <2>1. CASE ret = Ok
    BY <2>1 DEF Ok
  <2>2. CASE ret = Plain
    BY <2>2 DEF Plain
  <2>3. QED  BY <2>1, <2>2
<1>2. /\ result'.measurement_status = "ok"
      /\ result'.error_type = ""
      /\ result'.agent_status = "ok"
  BY <1>1 DEF Finish, SendResult, agentStatus
<1>3. result'.success = TRUE
  BY <1>1 DEF Finish, SendResult
<1>4. QED  BY <1>2, <1>3 DEF StatusesAgree

(* A step that does not finish the run keeps the agreement. *)
LEMMA UnfinishedAgrees ==
  ASSUME StatusesAgree,
         phase' # "done" \/ UNCHANGED <<phase, result>>
  PROVE  StatusesAgree'
BY DEF StatusesAgree

LEMMA StatusesStep == StatusesAgree /\ [Next]_vars => StatusesAgree'
<1> SUFFICES ASSUME StatusesAgree, [Next]_vars
             PROVE  StatusesAgree'
    OBVIOUS
<1> USE FailAgrees, FailedAgrees, OkAgrees, UnfinishedAgrees DEF Texts, ErrorTypes
<1>1. CASE Begin
  <2>1. CASE \E e \in Rejections : Finish(Fail(e))
    <3>1. Rejections \subseteq {"invalid", "invalid timeout", "other"}
      BY DEF Rejections
    <3>2. QED  BY <2>1, <3>1
  <2>2. CASE StartCommand(clock + Budget)
    BY <2>2 DEF StartCommand
  <2>3. CASE phase' = "lookup" \/ phase' \in FirstPhases
    BY <2>3 DEF FirstPhases
  <2>4. QED  BY <1>1, <2>1, <2>2, <2>3 DEF Begin
<1>2. CASE Tick
  BY <1>2 DEF Tick
<1>3. CASE Lookup \/ LookupExpires \/ Query \/ QueryExpires
  <2>1. \A e : errorType(e) \in ErrorTypes
    BY DEF errorType
  <2>2. ASSUME Resolved
        PROVE  StatusesAgree'
    BY <2>2 DEF Resolved, StartCommand
  <2>3. ASSUME NEW e, NEW timers, Unresolved(e, timers)
        PROVE  StatusesAgree'
    BY <2>1, <2>3 DEF Unresolved
  <2>4. ASSUME NEW timers, QueryDone(timers), phase = "fallback"
        PROVE  StatusesAgree'
    BY <2>1, <2>2, <2>4 DEF QueryDone
  <2>5. QED  BY <1>3, <2>2, <2>3, <2>4 DEF Lookup, LookupExpires, Query, QueryExpires, Waiting
<1>4. CASE CommandEnds \/ CommandKilled
  <2>1. \A replies \in BOOLEAN : Output(replies) = Plain \/ Output(replies) = Failed("timeout")
    BY DEF Output
  <2>2. QED  BY <1>4, <2>1 DEF CommandEnds, CommandKilled
<1>5. CASE Resolve \/ Exchange \/ Connect \/ Answer
  BY <1>5 DEF Resolve, Exchange, Connect, Answer, DnsReply, errorType, SaysTimeout
<1>6. CASE DnsExpires \/ ConnectionExpires
  BY <1>6 DEF DnsExpires, ConnectionExpires, errorType
<1>7. CASE Request \/ RequestExpires
  BY <1>7 DEF Request, RequestExpires, httpErrorType
<1>8. CASE Dial
  BY <1>8 DEF Dial, errorType
<1>9. CASE Talk
  BY <1>9 DEF Talk, errorType
<1>10. CASE UNCHANGED vars
  BY <1>10 DEF vars
<1>11. QED
  BY <1>1, <1>2, <1>3, <1>4, <1>5, <1>6, <1>7, <1>8, <1>9, <1>10 DEF Next

(* The status fields of every result agree (sendResult, whatever the       *)
(* runner, the options and the timers).                                    *)
THEOREM StatusesConsistent == Spec => []StatusesAgree
<1>1. Init => StatusesAgree
  BY DEF Init, StatusesAgree
<1>2. QED  BY <1>1, StatusesStep, PTL DEF Spec

-----------------------------------------------------------------------------
(* How long a run lasts *)

LEMMA MaxOfTwo ==
  ASSUME NEW a \in Int, NEW b \in Int
  PROVE  Max({a, b}) \in Int /\ Max({a, b}) >= a /\ Max({a, b}) >= b
<1>1. \E x \in {a, b} : \A y \in {a, b} : x >= y
  OBVIOUS
<1>2. Max({a, b}) \in {a, b} /\ \A y \in {a, b} : Max({a, b}) >= y
  BY <1>1 DEF Max
<1>3. QED  BY <1>2

BoundTypes ==
  /\ job \in Jobs
  /\ clock \in Nat
  /\ phase \in {"queued", "lookup", "fallback", "command", "exchange", "connect", "answer",
                "resolve", "request", "dial", "talk", "done"}
  /\ budget \in Int
  /\ own \in Int
  /\ query \in 0..Queries
  /\ queryEnd \in Nat
  /\ found \in BOOLEAN

LEMMA InitTypes == Init => BoundTypes
<1>1. 0 \in 0..Queries /\ 0 \in Nat /\ 0 \in Int
  BY DEF Queries
<1>2. QED  BY <1>1, Zenon DEF Init, BoundTypes

LEMMA JobFields ==
  ASSUME job \in Jobs
  PROVE  /\ job.type \in {"ping", "traceroute", "dns", "http", "tls", "ntp"}
         /\ job.timeout_ms # None => job.timeout_ms \in Int
         /\ job.timeout # None => job.timeout \in Int
         /\ job.count # None => job.count \in Int
         /\ job.deadline # None => job.deadline \in Int
         /\ job.jobTimeoutNanos \in Int
BY JobRunAssumption DEF Job

LEMMA TimeoutInt ==
  ASSUME job \in Jobs
  PROVE  Timeout \in Int
<1>1. DefaultTimeout[job.type] \in Int
  BY JobFields DEF DefaultTimeout
<1>2. QED  BY <1>1, JobFields DEF Timeout, Positive, Second

LEMMA CommandLengthInt ==
  ASSUME job \in Jobs
  PROVE  CommandLength \in Int
<1>1. PingCount \in Int
  BY JobFields DEF PingCount
<1>2. (Timeout + Second - 1) \div Second \in Int
  BY TimeoutInt DEF Second
<1>3. TraceLength \in Nat
  BY JobRunAssumption
<1>4. QED  BY <1>1, <1>2, <1>3 DEF CommandLength, Second

LEMMA Int64Int ==
  ASSUME NEW n \in Int
  PROVE  Int64(n) \in Int
<1>1. MaxInt64 \in Nat
  BY JobRunAssumption
<1>2. \A a \in Int, b \in Nat \ {0} : a % b \in Int
  OBVIOUS
<1>3. n + MaxInt64 + 1 \in Int /\ 2 * (MaxInt64 + 1) \in Nat \ {0}
  BY <1>1
<1>4. (n + MaxInt64 + 1) % (2 * (MaxInt64 + 1)) \in Int
  BY <1>2, <1>3
<1>5. QED  BY <1>1, <1>4 DEF Int64

LEMMA BudgetInt ==
  ASSUME job \in Jobs
  PROVE  Budget \in Int
<1>1. CountOr(1) \in Int /\ CountOr(4) \in Int
  BY JobFields DEF CountOr, Positive
<1>2. CASE job.deadline # None
  <2>1. job.deadline \in Int
    BY <1>2, JobFields
  <2>2. \A d \in Int : Max({d, 0}) \in Int
    BY MaxOfTwo
  <2>3. Max({job.deadline, 0}) \in Int
    BY <2>1, <2>2
  <2>4. QED  BY <1>2, <2>3 DEF Budget
<1>3. CASE job.deadline = None /\ Positive(job.timeout_ms)
  <2>1. job.timeout_ms \in Int
    BY <1>3, JobFields DEF Positive
  <2>2. job.timeout_ms * CountOr(1) \in Int
    BY <1>1, <2>1
  <2>3. job.timeout_ms * CountOr(1) + 2 * Second \in Int
    BY <2>2 DEF Second
  <2>4. QED  BY <1>3, <2>3, Int64Int DEF Budget
<1>4. CASE /\ job.deadline = None /\ ~Positive(job.timeout_ms)
           /\ job.type = "ping" /\ Positive(job.timeout)
  <2>1. job.timeout \in Int
    BY <1>4, JobFields DEF Positive
  <2>2. job.timeout * Second \in Int
    BY <2>1 DEF Second
  <2>3. job.timeout * Second * CountOr(4) \in Int
    BY <1>1, <2>2
  <2>4. job.timeout * Second * CountOr(4) + 2 * Second \in Int
    BY <2>3 DEF Second
  <2>5. QED  BY <1>4, <2>4, Int64Int DEF Budget
<1>5. CASE /\ job.deadline = None /\ ~Positive(job.timeout_ms)
           /\ ~(job.type = "ping" /\ Positive(job.timeout))
  BY <1>5, JobFields DEF Budget
<1>6. QED  BY <1>2, <1>3, <1>4, <1>5

(* A dns resolver given by name is looked up before the udp exchange. *)
ResolveTime == IF job.target = "plain" THEN 0 ELSE Timeout

(* The waits of each runner, and the latest time its timers let them last. *)
InTime ==
  /\ phase = "queued" => clock = 0
  /\ phase = "command" => job.type \in Commands
  /\ phase \in {"lookup", "fallback"} => job.type \in Commands \cup {"tls", "ntp"}
  /\ phase \notin {"queued", "talk", "done"} => clock <= budget \/ clock = 0
  /\ phase \in {"resolve", "exchange", "connect", "answer", "request",
               "lookup", "fallback", "dial"} =>
       (job.type \notin Commands => Timeout >= 1 /\ clock <= own)
  /\ phase \in {"resolve", "exchange", "connect", "answer"} => job.type = "dns"
  /\ phase = "resolve" => job.target # "plain" /\ own <= ResolveTime
  /\ phase = "exchange" => own <= ResolveTime + Timeout
  /\ phase = "connect" => own <= ResolveTime + 2 * Timeout
  /\ phase = "answer" => own <= ResolveTime + 3 * Timeout
  /\ phase = "request" => job.type = "http" /\ own <= Timeout
  /\ phase \in {"lookup", "fallback"} => (job.type \notin Commands => own <= Timeout)
  /\ phase = "dial" => job.type \in {"tls", "ntp"} /\ own <= Timeout
  /\ phase = "talk" =>
       /\ job.type \in {"tls", "ntp"}
       /\ Timeout >= 1 /\ clock <= own /\ own <= 2 * Timeout
       /\ own <= budget + Timeout \/ own <= Timeout
  /\ phase = "done" => RunBounded

LEMMA TypesStep == BoundTypes /\ [Next]_vars => BoundTypes'
<1> SUFFICES ASSUME BoundTypes, [Next]_vars
             PROVE  BoundTypes'
    OBVIOUS
<1> USE DEF BoundTypes
<1>1. Timeout \in Int /\ CommandLength \in Int /\ Budget \in Int
  BY TimeoutInt, CommandLengthInt, BudgetInt
<1>2. clock + Timeout \in Int /\ clock + CommandLength \in Int /\ clock + Budget \in Int
  BY <1>1
<1>3. CASE Begin
  BY <1>2, <1>3 DEF lookupVars, Begin, StartCommand, Finish, FirstPhases
<1>4. CASE Tick
  BY <1>4 DEF lookupVars, Tick
<1>5. CASE Lookup \/ LookupExpires \/ Query \/ QueryExpires
  <2>1. /\ clock + QueryTimeout \in Nat
        /\ 1 \in 0..Queries /\ (query < Queries => query + 1 \in 0..Queries)
    BY DEF QueryTimeout, Second, Queries
  <2>2. found' \in BOOLEAN /\ job' = job /\ clock' = clock /\ budget' = budget
    BY <1>5 DEF Lookup, LookupExpires, Query, QueryExpires
  <2>3. query' \in 0..Queries /\ queryEnd' \in Nat
    BY <1>5, <2>1 DEF Lookup, LookupExpires, Query, QueryExpires, Unresolved, QueryDone
  <2>4. own' \in Int
    BY <1>2, <1>5 DEF Lookup, LookupExpires, Query, QueryExpires, Unresolved, QueryDone,
                      Resolved, StartCommand
  <2>5. phase' \in {phase, "fallback", "done", "dial", "command"}
    BY <1>5 DEF Lookup, LookupExpires, Query, QueryExpires, Unresolved, QueryDone,
                Resolved, StartCommand, Finish
  <2>6. QED  BY <2>2, <2>3, <2>4, <2>5
<1>6. CASE CommandEnds \/ CommandKilled \/ Answer \/ DnsExpires
  BY <1>6 DEF lookupVars, CommandEnds, CommandKilled, Answer, DnsReply, DnsExpires, Expires, Finish
<1>7. CASE Resolve \/ Exchange \/ Connect \/ Dial
  BY <1>2, <1>7 DEF lookupVars, Resolve, Exchange, Connect, Dial, DnsReply, Finish
<1>8. CASE Request \/ RequestExpires \/ Talk \/ ConnectionExpires
  BY <1>8 DEF lookupVars, Request, RequestExpires, Talk, ConnectionExpires, Expires,
                 Finish
<1>9. CASE UNCHANGED vars
  BY <1>9 DEF vars, lookupVars
<1>10. QED  BY <1>3, <1>4, <1>5, <1>6, <1>7, <1>8, <1>9 DEF Next

(* A run that is in time may end now. *)
LEMMA MayEnd ==
  ASSUME BoundTypes, InTime, phase # "done", phase' = "done",
         UNCHANGED <<job, clock, budget>>
  PROVE  InTime'
<1> DEFINE t == Timeout
           top == Max({t, 0})
           ceiling == Max({budget, 0})
<1>1. t \in Int /\ Timeout' = Timeout
  BY TimeoutInt DEF BoundTypes, Timeout
<1>2. /\ top \in Int /\ top >= t /\ top >= 0
      /\ ceiling \in Int /\ ceiling >= budget /\ ceiling >= 0
  <2>1. \A a \in Int : Max({a, 0}) \in Int /\ Max({a, 0}) >= a /\ Max({a, 0}) >= 0
    BY MaxOfTwo
  <2>2. budget \in Int
    BY DEF BoundTypes
  <2>3. QED  BY <1>1, <2>1, <2>2
<1> HIDE DEF t, top, ceiling
<1>3. /\ clock <= ceiling + IF job.type \in {"tls", "ntp"} THEN top ELSE 0
      /\ job.type = "http" => clock <= top
      /\ job.type \in {"tls", "ntp"} => clock <= 2 * top
      /\ job.type = "dns" => clock <= (IF job.target = "plain" THEN 3 ELSE 4) * top
  <2>1. CASE phase \in {"queued", "command"}
    BY <1>2, <2>1 DEF InTime, BoundTypes, Commands
  <2>2. CASE phase \in {"resolve", "exchange", "connect", "answer"}
    BY <1>1, <1>2, <2>2 DEF InTime, BoundTypes, Commands, ResolveTime, t
  <2>3. CASE phase \in {"request", "lookup", "fallback", "dial"}
    BY <1>1, <1>2, <2>3 DEF InTime, BoundTypes, Commands, t
  <2>4. CASE phase = "talk"
    BY <1>1, <1>2, <2>4 DEF InTime, BoundTypes, t
  <2>5. QED  BY <2>1, <2>2, <2>3, <2>4 DEF BoundTypes
<1>4. QED  BY <1>1, <1>3 DEF InTime, RunBounded, t, top, ceiling

(* A run that ends in its first instant is in time. *)
LEMMA MayEndAtOnce ==
  ASSUME BoundTypes, BoundTypes', job' = job, phase' = "done", clock' = 0
  PROVE  InTime'
<1> DEFINE t == Timeout'
           top == Max({t, 0})
           ceiling == Max({budget', 0})
<1>1. t \in Int
  BY TimeoutInt DEF BoundTypes, Timeout
<1>2. \A a \in Int : Max({a, 0}) \in Int /\ Max({a, 0}) >= 0
  BY MaxOfTwo
<1>3. top \in Int /\ top >= 0 /\ ceiling \in Int /\ ceiling >= 0
  BY <1>1, <1>2 DEF BoundTypes
<1> HIDE DEF t, top, ceiling
<1>4. /\ 0 <= ceiling + IF job'.type \in {"tls", "ntp"} THEN top ELSE 0
      /\ 0 <= top /\ 0 <= 2 * top /\ 0 <= (IF job'.target = "plain" THEN 3 ELSE 4) * top
  BY <1>3
<1>5. QED  BY <1>4 DEF InTime, RunBounded, t, top, ceiling

(* A job that passed the checks has a timeout. *)
LEMMA AcceptedTimeout ==
  ASSUME job \in Jobs, Rejections = {}, job.type # "traceroute"
  PROVE  Timeout >= 1
<1>1. ~BadTimeout
  BY DEF Rejections
<1>2. QED  BY <1>1 DEF BadTimeout

LEMMA InTimeBegin ==
  ASSUME BoundTypes, BoundTypes', InTime, Begin
  PROVE  InTime'
<1>1. clock = 0 /\ clock' = 0 /\ job' = job /\ Timeout' = Timeout /\ Timeout \in Int
  BY TimeoutInt DEF Begin, InTime, Timeout, BoundTypes
<1>2. CASE phase' = "done"
  BY <1>1, <1>2, MayEndAtOnce
<1>3. CASE phase' \in {"lookup", "command"} /\ job.type \in Commands
  BY <1>1, <1>3 DEF InTime
<1>4. CASE phase' # "done" /\ ~(phase' \in {"lookup", "command"} /\ job.type \in Commands)
  <2>1. /\ Rejections = {} /\ job.type \notin Commands
        /\ phase' \in FirstPhases /\ own' = clock + Timeout
    BY <1>4 DEF Begin, StartCommand, Finish
  <2>2. Timeout >= 1
    BY <2>1, AcceptedTimeout DEF BoundTypes, Commands
  <2>3. job.type \in {"dns", "http", "tls", "ntp"}
    BY <2>1, JobFields DEF BoundTypes, Commands
  <2>4. own' = Timeout
    BY <1>1, <2>1
  <2>5. \/ /\ job.type = "dns" /\ phase' \in {"resolve", "exchange", "connect"}
           /\ phase' = "resolve" => job.target # "plain"
        \/ job.type = "http" /\ phase' = "request"
        \/ job.type \in {"tls", "ntp"} /\ phase' \in {"lookup", "dial"}
    BY <2>1, <2>3 DEF FirstPhases
  <2>6. QED  BY <1>1, <2>2, <2>4, <2>5 DEF InTime, Commands, ResolveTime
<1>5. QED  BY <1>2, <1>3, <1>4

LEMMA InTimeStep == BoundTypes /\ InTime /\ [Next]_vars => InTime'
<1> SUFFICES ASSUME BoundTypes, InTime, [Next]_vars
             PROVE  InTime'
    OBVIOUS
<1>1. BoundTypes'
  BY TypesStep
<1>2. CASE Begin
  BY <1>1, <1>2, InTimeBegin
<1>3. Timeout \in Int /\ ResolveTime \in Int
  BY TimeoutInt DEF BoundTypes, ResolveTime
<1>4. ASSUME job' = job
      PROVE  Timeout' = Timeout /\ ResolveTime' = ResolveTime
  BY <1>4 DEF Timeout, ResolveTime
<1>5. CASE Tick
  <2>1. \A x \in Timers : clock < When(x)
    BY <1>5 DEF Tick, Due, When, BoundTypes
  <2>2. /\ phase \notin {"queued", "talk", "done"} => clock < budget
        /\ phase \in {"resolve", "exchange", "connect", "answer", "request", "dial", "talk"} =>
             clock < own
        /\ phase \in {"lookup", "fallback"} /\ job.type \notin Commands => clock < own
    BY <2>1 DEF Timers, ContextTimers, When, BoundTypes
  <2>3. UNCHANGED <<job, phase, budget, own>> /\ clock' = clock + 1 /\ phase \notin {"queued", "done"}
    BY <1>5 DEF Tick
  <2>4. QED  BY <1>3, <1>4, <2>2, <2>3 DEF InTime, BoundTypes
<1>6. CASE Lookup \/ LookupExpires \/ Query \/ QueryExpires
  <2>1. UNCHANGED <<job, clock, budget>> /\ phase \in {"lookup", "fallback"}
    BY <1>6 DEF Lookup, LookupExpires, Query, QueryExpires, Waiting
  <2>2. CASE phase' = "done"
    BY <2>1, <2>2, MayEnd
  <2>3. CASE phase' = "command"
    <3>1. job.type \in Commands
      BY <1>6, <2>1, <2>3 DEF Lookup, LookupExpires, Query, QueryExpires, Unresolved, QueryDone,
                              Resolved, Finish
    <3>2. QED  BY <1>4, <2>1, <2>3, <3>1 DEF InTime, BoundTypes
  <2>4. CASE phase' = "fallback"
    <3>1. own' = own
      BY <1>6, <2>1, <2>4 DEF Lookup, LookupExpires, Query, QueryExpires, Unresolved, QueryDone,
                              Resolved, StartCommand, Finish
    <3>2. QED  BY <1>4, <2>1, <2>4, <3>1 DEF InTime, BoundTypes
  <2>5. CASE phase' = "dial"
    <3>1. job.type \notin Commands /\ own' = own
      BY <1>6, <2>1, <2>5 DEF Lookup, LookupExpires, Query, QueryExpires, Unresolved, QueryDone,
                              Resolved, StartCommand, Finish
    <3>2. QED  BY <1>4, <2>1, <2>5, <3>1 DEF InTime, BoundTypes, Commands
  <2>6. ASSUME Resolved
        PROVE  phase' \in {"dial", "command", "done"}
    BY <2>6 DEF Resolved, StartCommand, Finish
  <2>7. ASSUME NEW timers, QueryDone(timers), phase = "fallback"
        PROVE  phase' \in {"fallback", "dial", "command", "done"}
    BY <2>6, <2>7 DEF QueryDone, Finish
  <2>8. ASSUME NEW e, NEW timers, Unresolved(e, timers)
        PROVE  phase' \in {"fallback", "done"}
    BY <2>8 DEF Unresolved, Finish
  <2>9. phase' \in {"fallback", "dial", "command", "done"}
    BY <1>6, <2>6, <2>7, <2>8 DEF Lookup, LookupExpires, Query, QueryExpires, Waiting
  <2>10. QED  BY <2>2, <2>3, <2>4, <2>5, <2>9
<1>7. CASE CommandEnds \/ CommandKilled \/ Answer \/ DnsExpires
  BY <1>7, MayEnd DEF CommandEnds, CommandKilled, Answer, DnsReply, DnsExpires, Waiting, Expires, Finish
<1>8. CASE Request \/ RequestExpires \/ Talk \/ ConnectionExpires
  BY <1>8, MayEnd DEF Request, RequestExpires, Talk, ConnectionExpires, Waiting, Expires, Finish
<1>9. ASSUME NEW p \in {"resolve", "exchange", "connect", "dial"}, Waiting(p)
      PROVE  phase = p /\ clock <= budget /\ clock <= own
  BY <1>9 DEF Waiting, Timers, When, BoundTypes
<1>10. CASE Resolve
  <2>1. CASE phase' = "done"
    BY <1>10, <2>1, MayEnd DEF Resolve, Waiting
  <2>2. CASE phase' = "exchange" /\ own' = clock + Timeout
    BY <1>3, <1>4, <1>9, <1>10, <2>2 DEF Resolve, InTime, BoundTypes
  <2>3. QED  BY <1>10, <2>1, <2>2 DEF Resolve, Finish
<1>11. CASE Exchange
  <2>1. CASE phase' = "done"
    BY <1>11, <2>1, MayEnd DEF Exchange, Waiting
  <2>2. CASE phase' = "connect" /\ own' = clock + Timeout
    BY <1>3, <1>4, <1>9, <1>11, <2>2 DEF Exchange, InTime, BoundTypes
  <2>3. QED  BY <1>11, <2>1, <2>2 DEF Exchange, DnsReply, Finish
<1>12. CASE Connect
  <2>1. CASE phase' = "done"
    BY <1>12, <2>1, MayEnd DEF Connect, Waiting
  <2>2. CASE phase' = "answer" /\ own' = clock + Timeout
    BY <1>3, <1>4, <1>9, <1>12, <2>2 DEF Connect, InTime, BoundTypes
  <2>3. QED  BY <1>12, <2>1, <2>2 DEF Connect, Finish
<1>13. CASE Dial
  <2>1. CASE phase' = "done"
    BY <1>13, <2>1, MayEnd DEF Dial, Waiting
  <2>2. CASE phase' = "talk" /\ own' = clock + Timeout
    BY <1>3, <1>4, <1>9, <1>13, <2>2 DEF Dial, InTime, BoundTypes, Commands
  <2>3. QED  BY <1>13, <2>1, <2>2 DEF Dial, Finish
<1>14. CASE UNCHANGED vars
  BY <1>14 DEF vars, InTime, RunBounded, Timeout, ResolveTime
<1>15. QED
  BY <1>2, <1>5, <1>6, <1>7, <1>8, <1>10, <1>11, <1>12, <1>13, <1>14 DEF Next

(* One job holds its worker no longer than its budget and the timeouts of  *)
(* its runner allow (handleJob, jobTimeout and the timers of the runners). *)
THEOREM RunsAreBounded == Spec => []RunBounded
<1>1. Init => BoundTypes /\ InTime
  <2>1. Init => InTime
    BY DEF Init, InTime
  <2>2. QED  BY <2>1, InitTypes
<1>2. BoundTypes /\ InTime => RunBounded
  BY DEF InTime, RunBounded
<1>3. BoundTypes /\ InTime /\ [Next]_vars => (BoundTypes /\ InTime)'
  BY TypesStep, InTimeStep
<1>4. QED  BY <1>1, <1>2, <1>3, PTL DEF Spec
-----------------------------------------------------------------------------
(* What a lookup leaves behind *)

(* Only the fallback counts queries, and only an address leads out of it.  *)
LookupInv ==
  /\ phase \notin {"fallback", "command", "dial", "talk", "done"} => query = 0
  /\ phase \in {"dial", "talk"} /\ query > 0 => found /\ sysErr = None
  /\ phase = "command" => job.type \in Commands
  /\ FallbackHidesNothing

LEMMA FailedResult ==
  ASSUME NEW t \in {"timeout", "error"}, Finish(Failed(t))
  PROVE  phase' = "done" /\ ~result'.success /\ result'.error_type = t
BY DEF Finish, SendResult, Failed

(* A run that ends outside its lookup. *)
LEMMA EndsElsewhere ==
  ASSUME BoundTypes, LookupInv, phase \notin {"fallback", "done"}, phase' = "done",
         UNCHANGED <<job, lookupVars>>
  PROVE  LookupInv'
BY DEF BoundTypes, LookupInv, FallbackHidesNothing, lookupVars, Commands

LEMMA LookupStep == BoundTypes /\ LookupInv /\ [Next]_vars => LookupInv'
<1> SUFFICES ASSUME BoundTypes, LookupInv, [Next]_vars
             PROVE  LookupInv'
    OBVIOUS
<1>1. BoundTypes'
  BY TypesStep
<1>2. CASE Begin
  <2>1. UNCHANGED <<job, query, found, sysErr>> /\ query = 0
    BY <1>2 DEF Begin, lookupVars, LookupInv
  <2>2. phase' = "command" => job.type \in Commands
    BY <1>2 DEF Begin, StartCommand, FirstPhases, Finish
  <2>3. QED  BY <2>1, <2>2 DEF LookupInv, FallbackHidesNothing
<1>3. CASE Lookup \/ LookupExpires
  <2>1. phase = "lookup" /\ query = 0 /\ UNCHANGED <<job, found>>
    BY <1>3 DEF Lookup, LookupExpires, Waiting, LookupInv
  <2>2. CASE Resolved /\ UNCHANGED <<query, queryEnd, sysErr>>
    BY <2>1, <2>2 DEF Resolved, StartCommand, Finish, LookupInv, FallbackHidesNothing
  <2>3. ASSUME NEW e, NEW timers, Unresolved(e, timers)
        PROVE  LookupInv'
    BY <2>1, <2>3 DEF Unresolved, Finish, LookupInv, FallbackHidesNothing
  <2>4. QED  BY <1>3, <2>2, <2>3 DEF Lookup, LookupExpires
<1>4. CASE Query \/ QueryExpires
  <2>1. phase = "fallback" /\ UNCHANGED job
    BY <1>4 DEF Query, QueryExpires, Waiting
  <2>2. ASSUME NEW timers, QueryDone(timers)
        PROVE  LookupInv'
    <3>1. CASE query < Queries /\ UNCHANGED phase
      BY <2>1, <3>1 DEF LookupInv, FallbackHidesNothing
    <3>2. CASE (found' \/ job.type \in Commands) /\ Resolved /\ sysErr' = None
      BY <2>1, <3>2 DEF Resolved, StartCommand, Finish, LookupInv, FallbackHidesNothing, Commands
    <3>3. CASE /\ query = Queries /\ UNCHANGED <<query, sysErr>>
               /\ ~found' /\ Finish(Failed(errorType(sysErr)))
      <4>1. errorType(sysErr) \in {"timeout", "error"} /\ errorType(sysErr)' = errorType(sysErr)
        BY <3>3 DEF errorType, SaysTimeout
      <4>2. /\ phase' = "done"
            /\ ~result'.success /\ result'.error_type = errorType(sysErr)
        BY <3>3, <4>1, FailedResult
      <4>3. QED  BY <2>1, <3>3, <4>1, <4>2 DEF LookupInv, FallbackHidesNothing
    <3>4. QED  BY <2>2, <3>1, <3>2, <3>3 DEF QueryDone
  <2>3. QED  BY <1>4, <2>2 DEF Query, QueryExpires
<1>5. CASE Tick \/ Resolve \/ Exchange \/ Connect \/ Dial
  <2>1. UNCHANGED <<job, lookupVars>> /\ phase # "done"
    BY <1>5 DEF Tick, Resolve, Exchange, Connect, Dial, Waiting
  <2>2. CASE Tick
    BY <2>2 DEF Tick, LookupInv, FallbackHidesNothing, lookupVars
  <2>3. CASE phase' = "done" /\ (Resolve \/ Exchange \/ Connect \/ Dial)
    BY <2>1, <2>3, EndsElsewhere DEF Resolve, Exchange, Connect, Dial, Waiting
  <2>4. CASE phase' # "done" /\ (Resolve \/ Exchange \/ Connect \/ Dial)
    BY <2>1, <2>4 DEF Resolve, Exchange, Connect, Dial, Waiting, DnsReply, Finish, LookupInv,
                      FallbackHidesNothing, lookupVars
  <2>5. QED  BY <1>5, <2>2, <2>3, <2>4
<1>6. CASE CommandEnds \/ CommandKilled \/ Answer \/ DnsExpires
  BY <1>6, EndsElsewhere DEF CommandEnds, CommandKilled, Answer, DnsReply, DnsExpires,
                             Waiting, Expires, Finish
<1>7. CASE Request \/ RequestExpires \/ Talk \/ ConnectionExpires
  BY <1>7, EndsElsewhere DEF Request, RequestExpires, Talk, ConnectionExpires,
                             Waiting, Expires, Finish
<1>8. CASE UNCHANGED vars
  BY <1>8 DEF vars, lookupVars, LookupInv, FallbackHidesNothing, errorType, SaysTimeout
<1>9. QED  BY <1>2, <1>3, <1>4, <1>5, <1>6, <1>7, <1>8 DEF Next

(* A lookup under .dn42 fails only after every query, with the error of    *)
(* the system's resolver, and never when a query had an address            *)
(* (lookupIPAddrWithDN42Fallback, lookupDN42DNS).                          *)
THEOREM FallbackSound == Spec => []FallbackHidesNothing
<1>1. Init => LookupInv
  BY DEF Init, LookupInv, FallbackHidesNothing
<1>2. LookupInv => FallbackHidesNothing
  BY DEF LookupInv
<1>3. Init => BoundTypes
  BY InitTypes
<1>4. BoundTypes /\ LookupInv /\ [Next]_vars => (BoundTypes /\ LookupInv)'
  BY TypesStep, LookupStep
<1>5. QED  BY <1>1, <1>2, <1>3, <1>4, PTL DEF Spec
-----------------------------------------------------------------------------
(* What a timer leaves behind *)

TimerInv ==
  /\ phase # "done" => ended = {}
  /\ sysErr \in {None, "other", "timeout", "deadline"}
  /\ phase = "fallback" => sysErr # None
  /\ phase = "command" => job.type \in Commands
  /\ phase = "request" => job.type = "http"
  /\ TimerMeansTimeout

(* A run that no timer ends, and one that is none of dns, tls and ntp.     *)
LEMMA EndsQuietly ==
  ASSUME TimerInv, phase' = "done", UNCHANGED <<job, sysErr>>,
         ended' = {} \/ job.type \notin {"dns", "tls", "ntp"}
  PROVE  TimerInv'
BY DEF TimerInv, TimerMeansTimeout

(* A run that a timer ends with an error of the library. *)
LEMMA EndsByTimer ==
  ASSUME TimerInv, UNCHANGED <<job, sysErr>>,
         NEW e \in {"timeout", "deadline"}, Finish(Failed(errorType(e)))
  PROVE  TimerInv'
<1>1. errorType(e) = "timeout"
  BY DEF errorType, SaysTimeout
<1>2. phase' = "done" /\ result'.error_type = "timeout"
  BY <1>1, FailedResult
<1>3. QED  BY <1>2 DEF TimerInv, TimerMeansTimeout

LEMMA TimerStep == TimerInv /\ [Next]_vars => TimerInv'
<1> SUFFICES ASSUME TimerInv, [Next]_vars
             PROVE  TimerInv'
    OBVIOUS
<1>1. CASE Begin
  <2>1. UNCHANGED <<job, sysErr>> /\ phase = "queued" /\ ended = {}
    BY <1>1 DEF Begin, lookupVars, TimerInv
  <2>2. ended' = {} \/ (job.type \in Commands /\ phase' = "done")
    BY <1>1, <2>1 DEF Begin, StartCommand, Finish
  <2>3. CASE phase' = "done"
    BY <2>1, <2>2, <2>3, EndsQuietly DEF Commands
  <2>4. CASE phase' # "done"
    <3>1. \/ phase' \in {"command", "lookup"} /\ job.type \in Commands
          \/ phase' \in FirstPhases
      BY <1>1, <2>4 DEF Begin, StartCommand, Finish
    <3>2. QED  BY <2>1, <2>2, <2>4, <3>1 DEF FirstPhases, TimerInv, TimerMeansTimeout
  <2>5. QED  BY <2>3, <2>4
<1>2. ASSUME Resolved, UNCHANGED job, sysErr' = sysErr \/ sysErr' = None,
             phase \in {"lookup", "fallback"}
      PROVE  TimerInv'
  BY <1>2 DEF Resolved, StartCommand, Finish, Commands, TimerInv, TimerMeansTimeout
<1>3. CASE Lookup
  <2>1. phase = "lookup" /\ UNCHANGED job
    BY <1>3 DEF Lookup, Waiting
  <2>2. ASSUME NEW e \in {"other", "timeout"}, Unresolved(e, {})
        PROVE  TimerInv'
    <3>1. e # None
      BY JobRunAssumption
    <3>2. QED  BY <2>1, <2>2, <3>1, EndsQuietly DEF Unresolved, Finish, TimerInv, TimerMeansTimeout
  <2>3. QED  BY <1>2, <1>3, <2>1, <2>2 DEF Lookup
<1>4. CASE LookupExpires
  <2>1. phase = "lookup" /\ UNCHANGED job
    BY <1>4 DEF LookupExpires
  <2>2. ASSUME NEW e \in {"timeout", "deadline"}, Unresolved(e, Due)
        PROVE  TimerInv'
    <3>1. e # None
      BY JobRunAssumption
    <3>2. CASE phase' = "fallback" /\ sysErr' = e /\ UNCHANGED ended
      BY <2>1, <3>1, <3>2 DEF TimerInv, TimerMeansTimeout
    <3>3. CASE Finish(Failed(errorType(e))) /\ UNCHANGED sysErr
      BY <2>1, <3>3, EndsByTimer
    <3>4. QED  BY <2>2, <3>2, <3>3 DEF Unresolved
  <2>3. QED  BY <1>4, <2>2 DEF LookupExpires
<1>5. CASE Query \/ QueryExpires
  <2>1. phase = "fallback" /\ UNCHANGED job
    BY <1>5 DEF Query, QueryExpires, Waiting
  <2>2. ASSUME NEW timers, QueryDone(timers)
        PROVE  TimerInv'
    <3>1. CASE UNCHANGED <<phase, ended, sysErr>>
      BY <2>1, <3>1 DEF TimerInv, TimerMeansTimeout
    <3>2. CASE Resolved /\ sysErr' = None
      BY <1>2, <2>1, <3>2
    <3>3. CASE Finish(Failed(errorType(sysErr))) /\ UNCHANGED sysErr
      <4>1. CASE sysErr \in {"timeout", "deadline"}
        BY <2>1, <3>3, <4>1, EndsByTimer
      <4>2. CASE sysErr = "other"
        BY <2>1, <3>3, <4>2 DEF Finish, TimerInv, TimerMeansTimeout
      <4>3. QED  BY <2>1, <4>1, <4>2 DEF TimerInv
    <3>4. QED  BY <2>2, <3>1, <3>2, <3>3 DEF QueryDone
  <2>3. QED  BY <1>5, <2>2 DEF Query, QueryExpires
<1>6. CASE CommandEnds \/ CommandKilled \/ Request \/ RequestExpires
  BY <1>6, EndsQuietly DEF CommandEnds, CommandKilled, Request, RequestExpires, Waiting, Expires,
                           Finish, lookupVars, Commands, TimerInv
<1>7. CASE Resolve \/ Exchange \/ Connect \/ Answer \/ Dial \/ Talk
  <2>1. UNCHANGED <<job, ended, sysErr>> /\ ended = {}
    BY <1>7 DEF Resolve, Exchange, Connect, Answer, Dial, Talk, Waiting, lookupVars, TimerInv
  <2>2. phase' \in {"exchange", "connect", "answer", "talk", "done"}
    BY <1>7 DEF Resolve, Exchange, Connect, Answer, Dial, Talk, DnsReply, Finish
  <2>3. QED  BY <2>1, <2>2, EndsQuietly DEF TimerInv, TimerMeansTimeout
<1>8. CASE DnsExpires \/ ConnectionExpires
  BY <1>8, EndsByTimer DEF DnsExpires, ConnectionExpires, Expires, lookupVars
<1>9. CASE Tick \/ UNCHANGED vars
  BY <1>9 DEF Tick, vars, lookupVars, TimerInv, TimerMeansTimeout
<1>10. QED
  BY <1>1, <1>3, <1>4, <1>5, <1>6, <1>7, <1>8, <1>9 DEF Next

(* Every dns, tls and ntp run that a timer ended is reported as a timeout  *)
(* or as the system's resolver failed (errorType, dnsErrorType).           *)
THEOREM TimersAreReported == Spec => []TimerMeansTimeout
<1>1. Init => TimerInv
  BY DEF Init, TimerInv, TimerMeansTimeout
<1>2. TimerInv => TimerMeansTimeout
  BY DEF TimerInv
<1>3. QED  BY <1>1, <1>2, TimerStep, PTL DEF Spec
-----------------------------------------------------------------------------
(* Which timer fires first *)

(* The jobs OwnTimerFirst speaks of. *)
Patient ==
  /\ job.type \in {"http", "tls", "ntp"}
  /\ job.deadline = None /\ (job.count # None => job.count <= 20)
  /\ job.jobTimeoutNanos > Timeout

FirstInv ==
  /\ phase # "done" => ended = {}
  /\ Patient /\ phase # "queued" =>
       /\ phase \in {"request", "lookup", "fallback", "dial", "talk", "done"}
       /\ phase \in {"request", "lookup", "fallback", "dial"} => own < budget
  /\ phase = "request" => job.type = "http"
  /\ phase \in {"lookup", "fallback", "dial", "talk"} => job.type # "http"
  /\ OwnTimerFirst

LEMMA SmallProducts ==
  ASSUME NEW a \in 1..60, NEW b \in 1..20
  PROVE  a * b \in Int /\ a <= a * b /\ a * b <= 1200
<1>1. b - 1 \in Nat /\ 20 - b \in Nat
  OBVIOUS
<1>2. a * (b - 1) >= 0 /\ a * (20 - b) >= 0
  BY <1>1
<1>3. QED  BY <1>2

LEMMA SmallInt64 ==
  ASSUME MaxInt64 >= 1204, NEW n \in 0..1204
  PROVE  Int64(n) = n
<1>1. MaxInt64 \in Nat
  BY JobRunAssumption
<1>2. n + MaxInt64 + 1 \in 0..(2 * (MaxInt64 + 1) - 1)
  BY <1>1
<1>3. \A b \in Nat \ {0} : \A a \in 0..(b - 1) : a % b = a
  OBVIOUS
<1>4. (n + MaxInt64 + 1) % (2 * (MaxInt64 + 1)) = n + MaxInt64 + 1
  BY <1>1, <1>2, <1>3
<1>5. QED  BY <1>1, <1>4 DEF Int64

LEMMA PatientBudget ==
  ASSUME MaxInt64 >= 1204, job \in Jobs, Patient, Rejections = {}
  PROVE  Budget > Timeout
<1>1. Timeout \in 1..60 /\ job.type \notin Commands
  BY DEF Rejections, BadTimeout, Patient, Commands
<1>2. CASE job.timeout_ms = None
  BY <1>1, <1>2 DEF Budget, Positive, Patient, Commands
<1>3. CASE job.timeout_ms # None
  <2>1. Timeout = job.timeout_ms /\ Positive(job.timeout_ms)
    BY <1>1, <1>3 DEF Timeout, Positive, Commands
  <2>2. CountOr(1) \in 1..20
    BY JobFields DEF CountOr, Positive, Patient
  <2>3. /\ Timeout * CountOr(1) \in Int
        /\ Timeout <= Timeout * CountOr(1) /\ Timeout * CountOr(1) <= 1200
    BY <1>1, <2>2, SmallProducts
  <2>4. Timeout * CountOr(1) + 2 * Second \in 0..1204
    BY <1>1, <2>3 DEF Second
  <2>5. Int64(Timeout * CountOr(1) + 2 * Second) = Timeout * CountOr(1) + 2 * Second
    BY <2>4, SmallInt64
  <2>6. Budget = Timeout * CountOr(1) + 2 * Second
    BY <2>1, <2>5 DEF Budget, Patient
  <2>7. QED  BY <1>1, <2>3, <2>6 DEF Second
<1>4. QED  BY <1>2, <1>3

(* A run that ends with no timer, or with its own. *)
LEMMA EndsOwn ==
  ASSUME FirstInv, phase' = "done", UNCHANGED job,
         Patient => ended' \subseteq {"own"},
         job.type = "http" /\ ended' # {} => result'.error_type = "timeout" \/ result'.success
  PROVE  FirstInv'
<1>1. Patient' = Patient
  BY DEF Patient, Timeout
<1>2. ASSUME Patient', ended' # {}
      PROVE  ended' = {"own"} /\ (job'.type = "http" => result'.error_type = "timeout" \/ result'.success)
  BY <1>1, <1>2
<1>3. OwnTimerFirst'
  BY <1>2 DEF OwnTimerFirst, Patient
<1>4. QED  BY <1>1, <1>3 DEF FirstInv

LEMMA FirstStep ==
  ASSUME MaxInt64 >= 1204, BoundTypes, InTime, FirstInv, [Next]_vars
  PROVE  FirstInv'
<1>1. BoundTypes'
  BY TypesStep
<1>2. ASSUME UNCHANGED job
      PROVE  Patient' = Patient
  BY <1>2 DEF Patient, Timeout
<1>3. ASSUME Patient, phase \notin {"queued", "done"}
      PROVE  Due \ {"query"} \subseteq {"own"} /\ (phase # "fallback" => Due \subseteq {"own"})
  <2>1. phase # "talk" => clock < budget
    BY <1>3 DEF FirstInv, InTime, BoundTypes, Patient, Commands
  <2>2. phase = "talk" => Timers = {"own"}
    BY DEF Timers
  <2>3. /\ Timers \subseteq {"own", "budget", "query"}
        /\ phase # "fallback" => Timers \subseteq {"own", "budget"}
    BY <1>3 DEF Timers, ContextTimers
  <2>4. phase # "talk" => "budget" \notin Due
    BY <2>1 DEF Due, When, BoundTypes
  <2>5. QED  BY <2>2, <2>3, <2>4 DEF Due
<1>4. CASE Begin
  <2>1. UNCHANGED job /\ phase = "queued" /\ ended = {} /\ clock = 0
    BY <1>4 DEF Begin, FirstInv, InTime
  <2>2. CASE \E e \in Rejections : Finish(Fail(e)) /\ UNCHANGED ended
    BY <2>1, <2>2, EndsOwn DEF Finish
  <2>3. CASE Rejections = {} /\ job.type \in Commands
    <3>1. ~Patient' /\ job'.type # "http"
      BY <1>2, <2>1, <2>3 DEF Patient, Commands
    <3>2. phase' \in {"command", "lookup", "done"} /\ (phase' # "done" => UNCHANGED ended)
      BY <1>4, <2>3 DEF Begin, StartCommand, Finish
    <3>3. QED  BY <2>1, <3>1, <3>2 DEF FirstInv, OwnTimerFirst, Patient
  <2>4. CASE Rejections = {} /\ job.type \notin Commands
    <3>1. /\ phase' \in FirstPhases /\ UNCHANGED ended
          /\ own' = clock + Timeout /\ budget' = clock + Budget
      BY <1>4, <2>4 DEF Begin
    <3>2. Patient => own' < budget'
      BY <2>1, <2>4, <3>1, PatientBudget, TimeoutInt, BudgetInt DEF BoundTypes
    <3>3. \/ job.type = "dns" /\ phase' \in {"resolve", "exchange", "connect"}
          \/ job.type = "http" /\ phase' = "request"
          \/ job.type \in {"tls", "ntp"} /\ phase' \in {"lookup", "dial"}
      BY <2>4, <3>1, JobFields DEF FirstPhases, Commands, BoundTypes
    <3>4. QED  BY <1>2, <2>1, <3>1, <3>2, <3>3 DEF FirstInv, OwnTimerFirst, Patient
  <2>5. QED  BY <1>4, <2>2, <2>3, <2>4 DEF Begin
<1>5. ASSUME UNCHANGED <<job, budget>>, phase \in {"lookup", "fallback"}, Resolved
      PROVE  FirstInv'
  <2>1. CASE job.type \in Commands
    <3>1. ~Patient' /\ job'.type # "http"
      BY <1>2, <1>5, <2>1 DEF Patient, Commands
    <3>2. phase' \in {"command", "done"} /\ (phase' # "done" => UNCHANGED ended)
      BY <1>5, <2>1 DEF Resolved, StartCommand, Finish
    <3>3. QED  BY <1>5, <3>1, <3>2 DEF FirstInv, OwnTimerFirst, Patient
  <2>2. CASE phase' = "dial" /\ UNCHANGED <<own, ended>>
    BY <1>2, <1>5, <2>2 DEF FirstInv, OwnTimerFirst
  <2>3. QED  BY <1>5, <2>1, <2>2 DEF Resolved
<1>6. ASSUME UNCHANGED <<job, budget, own>>, phase = "lookup", NEW e, NEW timers,
             Unresolved(e, timers), Patient => timers \subseteq {"own"}
      PROVE  FirstInv'
  <2>1. CASE phase' = "fallback" /\ UNCHANGED ended
    BY <1>2, <1>6, <2>1 DEF FirstInv, OwnTimerFirst
  <2>2. CASE phase' = "done" /\ ended' = timers
    BY <1>6, <2>2, EndsOwn DEF FirstInv
  <2>3. QED  BY <1>6, <2>1, <2>2 DEF Unresolved, Finish
<1>7. ASSUME UNCHANGED <<job, budget>>, phase = "fallback", NEW timers,
             QueryDone(timers), Patient => timers \subseteq {"own"}
      PROVE  FirstInv'
  <2>1. CASE UNCHANGED <<phase, own, ended>>
    BY <1>2, <1>7, <2>1 DEF FirstInv, OwnTimerFirst
  <2>2. CASE phase' = "done" /\ ended' = timers
    BY <1>7, <2>2, EndsOwn DEF FirstInv
  <2>3. QED  BY <1>5, <1>7, <2>1, <2>2 DEF QueryDone, Finish
<1>8. CASE Lookup \/ LookupExpires
  BY <1>3, <1>5, <1>6, <1>8 DEF Lookup, LookupExpires, Waiting
<1>9. CASE Query \/ QueryExpires
  BY <1>3, <1>7, <1>9 DEF Query, QueryExpires, Waiting
<1>10. CASE CommandEnds \/ CommandKilled \/ Resolve \/ Exchange \/ Connect \/ Answer \/ DnsExpires
  <2>1. phase \in {"command", "resolve", "exchange", "connect", "answer"} /\ UNCHANGED job
    BY <1>10 DEF CommandEnds, CommandKilled, Resolve, Exchange, Connect, Answer, DnsExpires,
                 Waiting, Expires
  <2>2. job.type # "http" /\ ~Patient
    BY <2>1 DEF FirstInv, InTime, Commands, Patient
  <2>3. phase' \in {"exchange", "connect", "answer", "done"} /\ (phase' # "done" => UNCHANGED ended)
    BY <1>10 DEF CommandEnds, CommandKilled, Resolve, Exchange, Connect, Answer, DnsExpires, DnsReply,
                 Waiting, Expires, Finish
  <2>4. QED  BY <1>2, <2>1, <2>2, <2>3 DEF FirstInv, OwnTimerFirst, Patient
<1>11. CASE Request \/ Talk
  BY <1>11, EndsOwn DEF Request, Talk, Waiting, Finish, FirstInv
<1>12. CASE RequestExpires
  <2>1. phase = "request" /\ UNCHANGED job /\ ended' = Due /\ phase' = "done"
    BY <1>12 DEF RequestExpires, Expires, Finish
  <2>2. Patient => "budget" \notin Due /\ Due \subseteq {"own"}
    BY <1>3, <2>1
  <2>3. ASSUME Patient
        PROVE  result'.error_type = "timeout" \/ result'.success
    <3>1. \/ Finish(Failed(httpErrorType("timeout")))
          \/ Finish(Ok)
      BY <1>12, <2>2, <2>3 DEF RequestExpires
    <3>2. httpErrorType("timeout") = "timeout"
      BY DEF httpErrorType, SaysTimeout
    <3>3. CASE Finish(Ok)
      BY <3>3 DEF Finish, SendResult, Ok
    <3>4. QED  BY <3>1, <3>2, <3>3, FailedResult
  <2>4. OwnTimerFirst'
    <3>1. Patient' = Patient
      BY <1>2, <2>1
    <3>2. Patient' /\ ended' # {} => ended' = {"own"}
      BY <2>1, <2>2, <3>1
    <3>3. QED  BY <2>3, <3>1, <3>2 DEF OwnTimerFirst, Patient
  <2>5. QED  BY <2>1, <2>4 DEF FirstInv
<1>13. CASE Dial
  <2>1. phase = "dial" /\ UNCHANGED <<job, ended>> /\ phase' \in {"talk", "done"}
    BY <1>13 DEF Dial, Waiting, Finish
  <2>2. QED  BY <1>2, <2>1, EndsOwn DEF FirstInv, OwnTimerFirst
<1>14. CASE ConnectionExpires
  <2>1. phase \in {"dial", "talk"} /\ UNCHANGED job /\ ended' = Due /\ phase' = "done"
    BY <1>14 DEF ConnectionExpires, Expires, Finish
  <2>2. QED  BY <1>3, <2>1, EndsOwn DEF FirstInv
<1>15. CASE Tick
  BY <1>2, <1>15 DEF Tick, FirstInv, OwnTimerFirst
<1>16. CASE UNCHANGED vars
  BY <1>2, <1>16 DEF vars, FirstInv, OwnTimerFirst, Patient
<1>17. QED
  BY <1>4, <1>8, <1>9, <1>10, <1>11, <1>12, <1>13, <1>14, <1>15, <1>16 DEF Next

(* With a time.Duration that holds the largest product of a timeout and a  *)
(* count (30 s times 20, and 2 s), the budget of jobTimeout leaves every   *)
(* http, tls and ntp runner the time to end by its own timer.              *)
THEOREM OwnTimerFires ==
  ASSUME MaxInt64 >= 1204
  PROVE  Spec => []OwnTimerFirst
<1>1. Init => BoundTypes /\ InTime
  BY InitTypes DEF Init, InTime
<1>2. Init => FirstInv
  BY DEF Init, FirstInv, OwnTimerFirst
<1>3. FirstInv => OwnTimerFirst
  BY DEF FirstInv
<1>4. BoundTypes /\ InTime /\ FirstInv /\ [Next]_vars => (BoundTypes /\ InTime /\ FirstInv)'
  BY TypesStep, InTimeStep, FirstStep
<1>5. QED  BY <1>1, <1>2, <1>3, <1>4, PTL DEF Spec
-----------------------------------------------------------------------------
(* Types *)

(* What the other invariants leave of TypeOK: no clock passes MaxInt64,    *)
(* only timers of contexts end a run, and its fields have their values.    *)
RestTypes ==
  /\ clock <= MaxInt64
  /\ ended \subseteq {"budget", "own"}
  /\ IF phase = "done" THEN result \in Statuses ELSE result = None

LEMMA FailTyped ==
  ASSUME NEW e \in Texts
  PROVE  SendResult(Fail(e)) \in Statuses
<1>1. e # None
  BY JobRunAssumption DEF Texts
<1>2. classifyError(e) \in ErrorNames /\ agentStatus(e) \in {"ok", "timeout", "error"}
  BY Zenon DEF classifyError, agentStatus, ErrorNames
<1>3. SendResult(Fail(e)) = [agent_status |-> agentStatus(e), measurement_status |-> "error",
                            error_type |-> classifyError(e), success |-> FALSE]
  BY <1>1 DEF SendResult, Fail
<1>4. QED  BY <1>2, <1>3 DEF Statuses

LEMMA FailedTyped ==
  ASSUME NEW t \in ErrorTypes
  PROVE  SendResult(Failed(t)) \in Statuses
<1>1. t # ""
  BY DEF ErrorTypes
<1>2. SendResult(Failed(t)) = [agent_status |-> "ok", measurement_status |-> "error",
                              error_type |-> t, success |-> FALSE]
  BY <1>1 DEF SendResult, Failed, agentStatus
<1>3. t \in ErrorNames
  BY Zenon DEF ErrorNames, ErrorTypes
<1>4. QED  BY <1>2, <1>3 DEF Statuses

LEMMA OkTyped ==
  ASSUME NEW ret \in {Ok, Plain}
  PROVE  SendResult(ret) \in Statuses
<1>1. PICK t \in ErrorNames : t = ""
  BY Zenon DEF ErrorNames
<1>2. ret.err = None /\ (ret.status = "ok" \/ ret.status = "") /\ ret.type = t
  <2>1. CASE ret = Ok
    BY <1>1, <2>1 DEF Ok
  <2>2. CASE ret = Plain
    BY <1>1, <2>2 DEF Plain
  <2>3. QED  BY <2>1, <2>2
<1>3. SendResult(ret) = [agent_status |-> "ok", measurement_status |-> "ok",
                        error_type |-> t, success |-> TRUE]
  BY <1>2 DEF SendResult, agentStatus
<1>4. QED  BY <1>3 DEF Statuses

(* A run ends with one of the things a runner returns. *)
LEMMA EndTyped ==
  ASSUME RestTypes, clock' = clock, ended' \subseteq {"budget", "own"}, NEW ret, Finish(ret),
         \/ \E e \in Texts : ret = Fail(e)
         \/ \E t \in ErrorTypes : ret = Failed(t)
         \/ ret \in {Ok, Plain}
  PROVE  RestTypes'
<1>1. SendResult(ret) \in Statuses
  BY FailTyped, FailedTyped, OkTyped
<1>2. phase' = "done" /\ result' \in Statuses
  BY <1>1 DEF Finish
<1>3. QED  BY <1>2 DEF RestTypes

(* A run that goes on has no result yet. *)
LEMMA GoesOn ==
  ASSUME RestTypes, phase # "done", phase' # "done", result' = result, ended' = ended, clock' <= MaxInt64
  PROVE  RestTypes'
BY DEF RestTypes

LEMMA ContextTimersOnly ==
  /\ phase # "fallback" => Due \subseteq {"budget", "own"}
  /\ Due \ {"query"} \subseteq {"budget", "own"}
BY DEF Due, Timers, ContextTimers

LEMMA ErrorTypesOf ==
  \A e : errorType(e) \in ErrorTypes /\ httpErrorType(e) \in ErrorTypes
BY DEF errorType, httpErrorType, ErrorTypes

LEMMA RestStep == BoundTypes /\ TimerInv /\ RestTypes /\ [Next]_vars => RestTypes'
<1> SUFFICES ASSUME BoundTypes, TimerInv, RestTypes, [Next]_vars
             PROVE  RestTypes'
    OBVIOUS
<1> DEFINE Returns(ret) == \/ \E e \in Texts : ret = Fail(e)
                           \/ \E t \in ErrorTypes : ret = Failed(t)
                           \/ ret \in {Ok, Plain}
           Ends == \E ret : Returns(ret) /\ Finish(ret)
<1>1. ASSUME Ends, clock' = clock, ended' \subseteq {"budget", "own"}
      PROVE  RestTypes'
  BY <1>1, EndTyped
<1>2. /\ phase # "fallback" => Due \subseteq {"budget", "own"}
      /\ Due \ {"query"} \subseteq {"budget", "own"}
      /\ clock <= MaxInt64 /\ ended \subseteq {"budget", "own"}
  BY ContextTimersOnly DEF RestTypes
<1>3. /\ \A e \in Texts : Returns(Fail(e))
      /\ \A t \in ErrorTypes : Returns(Failed(t))
      /\ \A e : Returns(Failed(errorType(e))) /\ Returns(Failed(httpErrorType(e)))
      /\ Returns(Ok) /\ Returns(Plain)
  BY ErrorTypesOf
<1> HIDE DEF Returns
<1>4. ASSUME NEW expiry, StartCommand(expiry), clock' = clock, phase # "done"
      PROVE  RestTypes'
  <2>1. CASE phase' = "command" /\ UNCHANGED <<ended, result>>
    BY <1>2, <1>4, <2>1, GoesOn
  <2>2. CASE Finish(Fail("deadline")) /\ ended' = {"budget"}
    BY <1>1, <1>3, <1>4, <2>2 DEF Texts
  <2>3. QED  BY <1>4, <2>1, <2>2 DEF StartCommand
<1>5. CASE Begin
  <2>1. phase = "queued" /\ clock' = clock
    BY <1>5 DEF Begin
  <2>2. ASSUME NEW e \in Rejections, Finish(Fail(e)), UNCHANGED ended
        PROVE  RestTypes'
    <3>1. e \in Texts
      BY DEF Rejections, Texts
    <3>2. QED  BY <1>1, <1>2, <1>3, <2>1, <2>2, <3>1
  <2>3. CASE UNCHANGED <<ended, result>> /\ (phase' = "lookup" \/ phase' \in FirstPhases)
    <3>1. "done" \notin FirstPhases
      <4>1. CASE job.type = "dns"
        BY <4>1 DEF FirstPhases
      <4>2. CASE job.type = "http"
        BY <4>2 DEF FirstPhases
      <4>3. CASE job.type \notin {"dns", "http"}
        BY <4>3 DEF FirstPhases
      <4>4. QED  BY <4>1, <4>2, <4>3
    <3>2. QED  BY <1>2, <2>1, <2>3, <3>1, GoesOn
  <2>4. CASE StartCommand(clock + Budget)
    BY <1>4, <2>1, <2>4
  <2>5. QED  BY <1>5, <2>2, <2>3, <2>4 DEF Begin
<1>6. CASE Tick
  <2>1. MaxInt64 \in Nat
    BY JobRunAssumption
  <2>2. clock' <= MaxInt64
    BY <1>6, <2>1 DEF Tick, BoundTypes
  <2>3. QED  BY <1>6, <2>2, GoesOn DEF Tick
<1>7. ASSUME Resolved, clock' = clock, phase # "done"
      PROVE  RestTypes'
  BY <1>2, <1>4, <1>7, GoesOn DEF Resolved
<1>8. CASE Lookup \/ LookupExpires
  <2>1. phase = "lookup" /\ clock' = clock
    BY <1>8 DEF Lookup, LookupExpires, Waiting
  <2>2. ASSUME NEW e, NEW timers, Unresolved(e, timers), timers \subseteq {"budget", "own"}
        PROVE  RestTypes'
    <3>1. CASE phase' = "fallback" /\ UNCHANGED <<ended, result>>
      BY <1>2, <2>1, <3>1, GoesOn
    <3>2. CASE Finish(Failed(errorType(e))) /\ ended' = timers
      BY <1>1, <1>3, <2>1, <2>2, <3>2
    <3>3. QED  BY <2>2, <3>1, <3>2 DEF Unresolved
  <2>3. Due \subseteq {"budget", "own"}
    BY <1>2, <2>1
  <2>4. QED  BY <1>7, <1>8, <2>1, <2>2, <2>3 DEF Lookup, LookupExpires
<1>9. CASE Query \/ QueryExpires
  <2>1. phase = "fallback" /\ clock' = clock
    BY <1>9 DEF Query, QueryExpires, Waiting
  <2>2. ASSUME NEW timers, QueryDone(timers), timers \subseteq {"budget", "own"}
        PROVE  RestTypes'
    <3>1. CASE UNCHANGED <<phase, ended, result>>
      BY <1>2, <2>1, <3>1, GoesOn
    <3>2. CASE Resolved
      BY <1>7, <2>1, <3>2
    <3>3. CASE Finish(Failed(errorType(sysErr))) /\ ended' = timers
      BY <1>1, <1>3, <2>1, <2>2, <3>3
    <3>4. QED  BY <2>2, <3>1, <3>2, <3>3 DEF QueryDone
  <2>3. QED  BY <1>2, <1>9, <2>2 DEF Query, QueryExpires
<1>10. CASE CommandEnds \/ CommandKilled
  <2>1. clock' = clock /\ ended' \subseteq {"budget", "own"}
    BY <1>2, <1>10 DEF CommandEnds, CommandKilled, Expires
  <2>2. \A replies \in BOOLEAN : Returns(Output(replies))
    BY <1>3 DEF Output, ErrorTypes
  <2>3. Ends
    BY <1>3, <1>10, <2>2 DEF CommandEnds, CommandKilled, Texts
  <2>4. QED  BY <1>1, <2>1, <2>3
<1>11. CASE Resolve \/ Exchange \/ Connect \/ Answer \/ Dial
  <2>1. clock' = clock /\ ended' = ended /\ phase # "done"
    BY <1>11 DEF Resolve, Exchange, Connect, Answer, Dial, Waiting
  <2>2. DnsReply => Ends
    BY <1>3 DEF DnsReply, ErrorTypes
  <2>3. Ends \/ (phase' \in {"exchange", "connect", "answer", "talk"} /\ result' = result)
    BY <1>3, <1>11, <2>2 DEF Resolve, Exchange, Connect, Answer, Dial
  <2>4. QED  BY <1>1, <1>2, <2>1, <2>3, GoesOn
<1>12. CASE DnsExpires \/ ConnectionExpires \/ RequestExpires
  <2>1. clock' = clock /\ ended' \subseteq {"budget", "own"}
    BY <1>2, <1>12 DEF DnsExpires, ConnectionExpires, RequestExpires, Expires
  <2>2. Ends
    BY <1>3, <1>12 DEF DnsExpires, ConnectionExpires, RequestExpires
  <2>3. QED  BY <1>1, <2>1, <2>2
<1>13. CASE Request \/ Talk
  <2>1. clock' = clock /\ ended' = ended
    BY <1>13 DEF Request, Talk
  <2>2. Ends
    BY <1>3, <1>13 DEF Request, Talk, ErrorTypes
  <2>3. QED  BY <1>1, <1>2, <2>1, <2>2
<1>14. CASE UNCHANGED vars
  BY <1>14 DEF vars, RestTypes
<1>15. QED  BY <1>5, <1>6, <1>8, <1>9, <1>10, <1>11, <1>12, <1>13, <1>14 DEF Next

(* Every variable keeps its type, and a run has a result exactly when it   *)
(* is done.                                                                *)
THEOREM TypeCorrect == Spec => []TypeOK
<1>1. Init => BoundTypes /\ TimerInv /\ RestTypes
  <2>1. MaxInt64 \in Nat
    BY JobRunAssumption
  <2>2. Init => RestTypes
    BY <2>1 DEF Init, RestTypes
  <2>3. Init => TimerInv
    BY DEF Init, TimerInv, TimerMeansTimeout
  <2>4. QED  BY <2>2, <2>3, InitTypes
<1>2. BoundTypes /\ TimerInv /\ RestTypes /\ [Next]_vars => (BoundTypes /\ TimerInv /\ RestTypes)'
  BY TypesStep, TimerStep, RestStep
<1>3. BoundTypes /\ TimerInv /\ RestTypes => TypeOK
  <2> SUFFICES ASSUME BoundTypes, TimerInv, RestTypes PROVE TypeOK
    OBVIOUS
  <2>1. MaxInt64 \in Nat
    BY JobRunAssumption
  <2>2. clock \in 0..MaxInt64
    BY <2>1 DEF BoundTypes, RestTypes
  <2>3. QED  BY <2>2 DEF BoundTypes, TimerInv, RestTypes, TypeOK
<1>4. QED  BY <1>1, <1>2, <1>3, PTL DEF Spec
=============================================================================
