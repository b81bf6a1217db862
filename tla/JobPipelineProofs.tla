-------------------------- MODULE JobPipelineProofs --------------------------
(***************************************************************************)
(* Theorems about JobPipeline: what is proved of Handler and of Client     *)
(* holds of the two together, and together they keep a promise that        *)
(* neither could keep alone.                                               *)
(***************************************************************************)
EXTENDS JobPipeline, FiniteSetTheorems, TLAPS

(* The theorems of the parts, for the parts as JobPipeline joins them.     *)
HP == INSTANCE HandlerAnswersProofs WITH Readers <- C!Conns
CP == INSTANCE ClientResultsProofs WITH MaxResults <- Cardinality(Jobs)

-----------------------------------------------------------------------------
(* H and HP are two names of the handler, C and CP of the client. *)

LEMMA SameHandler ==
  /\ H!Init <=> HP!Init
  /\ [H!Next]_(H!vars) <=> [HP!Next]_(HP!vars)
  /\ \A r : H!Reader(r) <=> HP!Reader(r)
  /\ \A w : H!Worker(w) <=> HP!Worker(w)
BY DEF H!readerVars, H!limitVars, H!workerVars, H!replyVars, H!vars, H!Init, H!CheckDepth,
        H!Enqueue, H!Refuse, H!HandleAuthAck, H!Clamp, H!MaxConcurrency, H!Cardinality,
        H!SetConcurrency, H!SetQueueSize, H!Int64, H!SetJobTimeout, H!PolicyNotify, H!Reader,
        H!Receive, H!CheckSlot, H!Wake, H!Start, H!Verdict, H!HandleJob, H!Leave, H!NotifyWorkers,
        H!Worker, H!Next, HP!readerVars, HP!limitVars, HP!workerVars, HP!replyVars, HP!vars,
        HP!Init, HP!CheckDepth, HP!Enqueue, HP!Refuse, HP!HandleAuthAck, HP!Clamp,
        HP!MaxConcurrency, HP!Cardinality, HP!SetConcurrency, HP!SetQueueSize, HP!Int64,
        HP!SetJobTimeout, HP!PolicyNotify, HP!Reader, HP!Receive, HP!CheckSlot, HP!Wake, HP!Start,
        HP!Verdict, HP!HandleJob, HP!Leave, HP!NotifyWorkers, HP!Worker, HP!Next

LEMMA SameClient ==
  /\ C!Init <=> CP!Init
  /\ [C!Next]_(C!vars) <=> [CP!Next]_(CP!vars)
  /\ C!Send <=> CP!Send
BY DEF C!Conns, C!Results, C!Kinds, C!ErrCap, C!netVars, C!mainVars, C!resultVars, C!vars, C!Init,
        C!Live, C!Done, C!Move, C!Die, C!Break, C!Reject, C!Shutdown, C!Send, C!Lock, C!Unlock,
        C!WriteSucceeds, C!WriteFails, C!AfterError, C!Backoff, C!Pause, C!DialFails,
        C!DialSucceeds, C!Install, C!LockAuth, C!SendAuth, C!AuthFails, C!Cancel, C!Abandon,
        C!BackoffEnds, C!Run, C!Report, C!ReadRejection, C!Close, C!ReadFails, C!TakeResult, C!Tick,
        C!Stop, C!LockWrite, C!Fails, C!WriteResult, C!WriteBeat, C!ReadPump, C!WritePump,
        C!HeartbeatLoop,
        C!Network, C!Terminated, C!Next, CP!Conns, CP!Results, CP!Kinds, CP!ErrCap, CP!netVars,
        CP!mainVars, CP!resultVars, CP!vars, CP!Init, CP!Live, CP!Done, CP!Move, CP!Die, CP!Break,
        CP!Reject, CP!Shutdown, CP!Send, CP!Lock, CP!Unlock, CP!WriteSucceeds, CP!WriteFails,
        CP!AfterError, CP!Backoff, CP!Pause, CP!DialFails, CP!DialSucceeds, CP!Install, CP!LockAuth,
        CP!SendAuth, CP!AuthFails, CP!Cancel, CP!Abandon, CP!BackoffEnds, CP!Run, CP!Report,
        CP!ReadRejection, CP!Close, CP!ReadFails, CP!TakeResult, CP!Tick, CP!Stop, CP!LockWrite,
        CP!Fails, CP!WriteResult, CP!WriteBeat, CP!ReadPump, CP!WritePump, CP!HeartbeatLoop, CP!Network,
        CP!Terminated, CP!Next

LEMMA HandlerAssumed == HP!HandlerAssumption
BY PipelineAssumption DEF H!HandlerAssumption, H!MaxConcurrency, H!Cardinality, H!IsFiniteSet, H!Policy,
   HP!HandlerAssumption, HP!MaxConcurrency, HP!Cardinality, HP!IsFiniteSet, HP!Policy

LEMMA ClientAssumed == CP!ClientAssumption
BY PipelineAssumption DEF C!ClientAssumption, CP!ClientAssumption

LEMMA HandlerStep == [Next]_vars => [H!Next]_(H!vars)
<1> SUFFICES ASSUME [Next]_vars PROVE [H!Next]_(H!vars)
  OBVIOUS
<1>1. ASSUME UNCHANGED handlerVars
      PROVE  UNCHANGED H!vars
  BY <1>1 DEF handlerVars, H!vars, H!readerVars, H!limitVars, H!workerVars, H!replyVars
<1>2. QED
  BY <1>1 DEF Next, ClientStep, HandleMessage, Work, H!Next, vars

LEMMA ClientStepOrSend == [Next]_vars => [C!Next]_(C!vars)
<1> SUFFICES ASSUME [Next]_vars PROVE [C!Next]_(C!vars)
  OBVIOUS
<1>1. ASSUME UNCHANGED clientVars
      PROVE  UNCHANGED C!vars
  BY <1>1 DEF clientVars, C!vars, C!mainVars, C!netVars, C!resultVars
<1>2. QED
  BY <1>1 DEF Next, ClientStep, HandleMessage, Work, Send, KeepsClient, ReadPump, C!Next, vars

(* What Handler does with the center's messages it also does here: reading *)
(* only one message at a time and answering to Send take nothing from it.  *)
THEOREM HandlerRuns == Spec => H!Spec
<1>1. Init => H!Init
  BY DEF Init
<1>2. QED  BY <1>1, HandlerStep, PTL DEF Spec, H!Spec

(* The client runs as in Client, where anyone may call Send at any time.   *)
THEOREM ClientRuns == Spec => C!Spec
<1>1. Init => C!Init
  BY DEF Init
<1>2. QED  BY <1>1, ClientStepOrSend, PTL DEF Spec, C!Spec

LEMMA HandlerFacts == Spec => [](HP!TypeOK /\ HP!PlaceInv /\ HP!Mapping)
<1>1. H!Spec => HP!Spec
  BY SameHandler, PTL DEF H!Spec, HP!Spec
<1>2. HP!Spec => [](HP!TypeOK /\ HP!PlaceInv)
  BY HP!PlacesHold, HandlerAssumed
<1>3. HP!TypeOK => HP!Mapping
  BY HP!MappingIsTrue, HandlerAssumed
<1>4. QED  BY <1>1, <1>2, <1>3, HandlerRuns, PTL

(* Only the read pumps of other connections exceed queue_size. *)
THEOREM Overshoot == Spec => []OvershootBounded
<1>1. H!Spec => HP!Spec
  BY SameHandler, PTL DEF H!Spec, HP!Spec
<1>2. HP!Spec => []HP!OvershootBounded
  BY HP!Overshoot, HandlerAssumed
<1>3. HP!OvershootBounded => OvershootBounded
  BY DEF OvershootBounded, H!OvershootBounded, H!QueueSizes, H!Admitted, H!Cardinality,
         HP!OvershootBounded, HP!QueueSizes, HP!Admitted, HP!Cardinality
<1>4. QED  BY <1>1, <1>2, <1>3, HandlerRuns, PTL

LEMMA ClientFacts == Spec => [](CP!ConnAll /\ CP!ResultInv /\ CP!HandIs)
<1>1. C!Spec => CP!Spec
  BY SameClient, PTL DEF C!Spec, CP!Spec
<1>2. CP!Spec => [](CP!ConnAll /\ CP!ResultInv)
  BY CP!ResultsHold, ClientAssumed
<1>3. CP!Spec => []CP!HandIs
  BY CP!HandHolds, ClientAssumed
<1>4. QED  BY <1>1, <1>2, <1>3, ClientRuns, PTL

-----------------------------------------------------------------------------
(* A step of the two together *)

(* A job gets its answer, and Send is called with it. *)
Answering(j) ==
  /\ Send(j)
  /\ answers[j] = <<>> /\ \E a : a # <<>> /\ answers' = [answers EXCEPT ![j] = a]
  /\ HP!Service!Refuse(j) \/ (j \notin Malformed /\ HP!Service!Settle(j))

(* The handler goes on without an answer. *)
Proceeding ==
  /\ KeepsClient /\ answers' = answers
  /\ \/ HP!status' = HP!status
     \/ \E j \in Jobs : \/ HP!Service!Admit(j) \/ HP!Service!Start(j)
                        \/ j \in Malformed /\ HP!Service!Settle(j)

(* The client does something with the results it has. *)
Serving == CP!Serves /\ sent' = sent /\ UNCHANGED <<handlerVars, passed>>

HandlerInv == HP!TypeOK /\ HP!PlaceInv /\ HP!Mapping
ClientInv  == CP!ConnAll /\ CP!ResultInv /\ CP!HandIs

LEMMA ReaderStep ==
  ASSUME HandlerInv, HandlerInv', NEW c \in C!Conns, HandleMessage(c)
  PROVE  Proceeding \/ \E j \in Jobs : Answering(j)
<1>1. HP!Reader(c)
  BY SameHandler DEF HandleMessage
<1>2. IF rpc[c] = "refuse"
      THEN \E j \in Jobs : /\ taken[c] = j
                           /\ answers[j] = <<>> /\ answers' = [answers EXCEPT ![j] = <<"queue full">>]
                           /\ HP!Service!Refuse(j)
      ELSE answers' = answers /\ (HP!status' = HP!status \/ \E j \in Jobs : HP!Service!Admit(j))
  BY <1>1, HP!ReaderImplements, HandlerAssumed DEF HandlerInv
<1>3. CASE rpc[c] = "refuse"
  <2>1. PICK j \in Jobs : /\ taken[c] = j
                          /\ answers[j] = <<>> /\ answers' = [answers EXCEPT ![j] = <<"queue full">>]
                          /\ HP!Service!Refuse(j)
    BY <1>2, <1>3
  <2>2. Send(j)
    BY <1>3, <2>1 DEF HandleMessage, Send
  <2>3. <<"queue full">> # <<>>
    OBVIOUS
  <2>4. Answering(j)
    BY <2>1, <2>2, <2>3 DEF Answering
  <2>5. QED  BY <2>4
<1>4. CASE rpc[c] # "refuse"
  BY <1>2, <1>4 DEF HandleMessage, Proceeding
<1>5. QED  BY <1>3, <1>4

LEMMA WorkerStep ==
  ASSUME HandlerInv, HandlerInv', NEW w \in Workers, Work(w)
  PROVE  Proceeding \/ \E j \in Jobs : Answering(j)
<1>1. HP!Worker(w)
  BY SameHandler DEF Work
<1>2. IF wpc[w] = "run"
      THEN \E j \in Jobs : /\ held[w] = j
                           /\ answers[j] = <<>> /\ answers' = [answers EXCEPT ![j] = HP!Verdict(j)]
                           /\ HP!Service!Settle(j)
      ELSE answers' = answers /\ (HP!status' = HP!status \/ \E j \in Jobs : HP!Service!Start(j))
  BY <1>1, HP!WorkerImplements, HandlerAssumed DEF HandlerInv
<1>3. CASE wpc[w] = "run"
  <2>1. PICK j \in Jobs : /\ held[w] = j
                          /\ answers[j] = <<>> /\ answers' = [answers EXCEPT ![j] = HP!Verdict(j)]
                          /\ HP!Service!Settle(j)
    BY <1>2, <1>3
  <2>2. CASE j \in Malformed
    <3>1. HP!Verdict(j) = <<>>
      BY <2>2 DEF HP!Verdict
    <3>2. answers' = answers
      BY <2>1, <3>1 DEF HandlerInv, HP!TypeOK
    <3>3. KeepsClient
      BY <1>3, <2>1, <2>2 DEF Work
    <3>4. QED  BY <2>1, <2>2, <3>2, <3>3 DEF Proceeding
  <2>3. CASE j \notin Malformed
    <3>1. <<"measured">> # <<>> /\ <<"unknown type">> # <<>>
      OBVIOUS
    <3>2. HP!Verdict(j) # <<>>
      BY <2>3, <3>1, Zenon DEF HP!Verdict
    <3>3. Send(j)
      BY <1>3, <2>1, <2>3 DEF Work, Send
    <3>4. Answering(j)
      BY <2>1, <2>3, <3>2, <3>3 DEF Answering
    <3>5. QED  BY <3>4
  <2>4. QED  BY <2>2, <2>3
<1>4. CASE wpc[w] # "run"
  BY <1>2, <1>4 DEF Work, Proceeding
<1>5. QED  BY <1>3, <1>4

LEMMA ServeStep ==
  ASSUME ClientInv, ClientInv', ClientStep
  PROVE  Serving
<1>1. [CP!Next]_(CP!vars)
  BY SameClient, ClientStepOrSend DEF Next
<1>2. sent' = sent
  BY DEF ClientStep, ReadPump,
     C!netVars, C!mainVars, C!resultVars, C!vars, C!Die, C!Break, C!Reject, C!Shutdown,
     C!DialFails, C!DialSucceeds, C!Install, C!LockAuth, C!SendAuth, C!AuthFails, C!Cancel,
     C!Abandon, C!BackoffEnds, C!Run, C!Report, C!ReadRejection, C!Close, C!ReadFails,
     C!TakeResult, C!Tick, C!Stop, C!LockWrite, C!WriteResult, C!WriteBeat, C!ReadPump,
     C!WritePump, C!HeartbeatLoop, C!Network, C!Terminated
<1>3. CP!Serves \/ CP!Send
  BY <1>1, CP!StepServes, ClientAssumed DEF ClientInv
<1>4. ~CP!Send
  <2>1. sent \in Nat
    BY CP!ResultNumbers, ClientAssumed DEF ClientInv, CP!ResultInv
  <2>2. QED  BY <1>2, <2>1 DEF CP!Send
<1>5. QED  BY <1>2, <1>3, <1>4 DEF Serving, ClientStep

LEMMA JointStep ==
  ASSUME HandlerInv, HandlerInv', ClientInv, ClientInv', [Next]_vars
  PROVE  Serving \/ Proceeding \/ \E j \in Jobs : Answering(j)
<1>1. CASE UNCHANGED vars
  <2>1. KeepsClient /\ answers' = answers
    BY <1>1 DEF vars, KeepsClient, handlerVars
  <2>2. UNCHANGED HP!jobVars /\ wpc' = wpc
    BY <1>1 DEF vars, handlerVars, HP!jobVars
  <2>3. \A j \in Jobs : HP!Same(j)
    BY <2>2, HP!PlacesSame, HandlerAssumed DEF HandlerInv
  <2>4. HP!status' = HP!status
    BY <2>3, HP!Stutter, HandlerAssumed DEF HandlerInv
  <2>5. QED  BY <2>1, <2>4 DEF Proceeding
<1>2. QED  BY <1>1, ReaderStep, WorkerStep, ServeStep DEF Next

LEMMA PartsHold == Spec => [](HandlerInv /\ ClientInv)
BY HandlerFacts, ClientFacts, PTL DEF HandlerInv, ClientInv

-----------------------------------------------------------------------------
(* Send is called once for each answer *)

PassedInv == TypeOK /\ SentOnce

LEMMA PassedStep == HandlerInv /\ ClientInv /\ PassedInv /\ (Serving \/ Proceeding \/ \E j \in Jobs : Answering(j)) => PassedInv'
<1> SUFFICES ASSUME HandlerInv, ClientInv, PassedInv, Serving \/ Proceeding \/ \E j \in Jobs : Answering(j)
             PROVE  PassedInv'
  OBVIOUS
<1>1. CASE Serving \/ Proceeding
  <2>1. passed' = passed /\ sent' = sent /\ answers' = answers
    BY <1>1 DEF Serving, Proceeding, KeepsClient, clientVars, handlerVars
  <2>2. QED  BY <2>1 DEF PassedInv, TypeOK, SentOnce
<1>2. ASSUME NEW j \in Jobs, Answering(j)
      PROVE  PassedInv'
  <2>1. /\ passed \in Seq(Jobs) /\ Len(passed) = sent /\ sent \in Nat
        /\ passed' = Append(passed, j) /\ sent' = sent + 1
    BY <1>2, CP!ResultNumbers, ClientAssumed
    DEF Answering, Send, C!Send, PassedInv, TypeOK, ClientInv, CP!ResultInv
  <2>2. /\ DOMAIN passed = 1..sent /\ DOMAIN passed' = 1..(sent + 1)
        /\ passed'[sent + 1] = j
        /\ \A i \in DOMAIN passed : passed'[i] = passed[i]
        /\ passed' \in Seq(Jobs) /\ Len(passed') = sent'
    BY <2>1
  <2>3. PICK a : a # <<>> /\ answers[j] = <<>> /\ answers' = [answers EXCEPT ![j] = a]
    BY <1>2 DEF Answering
  <2>4. answers'[j] # <<>> /\ \A k \in Jobs : k # j => answers'[k] = answers[k]
    BY <2>3 DEF HandlerInv, HP!TypeOK
  <2>5. \A i \in DOMAIN passed : passed[i] # j
    BY <2>3 DEF PassedInv, SentOnce
  <2>6. \A i \in DOMAIN passed' : i = sent + 1 \/ i \in DOMAIN passed
    BY <2>1, <2>2
  <2>7. \A i, k \in DOMAIN passed' : passed'[i] = passed'[k] => i = k
    BY <2>2, <2>5, <2>6 DEF PassedInv, SentOnce
  <2>8. ASSUME NEW k \in Jobs
        PROVE  answers'[k] # <<>> <=> \E i \in DOMAIN passed' : passed'[i] = k
    <3>1. CASE k = j
      <4>1. sent + 1 \in DOMAIN passed'
        BY <2>1, <2>2
      <4>2. QED  BY <2>2, <2>4, <3>1, <4>1
    <3>2. CASE k # j
      <4>1. answers'[k] # <<>> <=> \E i \in DOMAIN passed : passed[i] = k
        BY <2>4, <3>2 DEF PassedInv, SentOnce
      <4>2. DOMAIN passed \subseteq DOMAIN passed'
        BY <2>1, <2>2
      <4>3. QED  BY <2>2, <2>6, <3>2, <4>1, <4>2
    <3>3. QED  BY <3>1, <3>2
  <2>9. SentOnce'
    BY <2>7, <2>8 DEF SentOnce
  <2>10. QED  BY <2>2, <2>9 DEF PassedInv, TypeOK
<1>3. QED  BY <1>1, <1>2

LEMMA PassedHolds == Spec => []PassedInv
<1>1. Init => PassedInv
  <2> SUFFICES ASSUME Init PROVE PassedInv
    OBVIOUS
  <2>1. passed = <<>> /\ sent = 0 /\ \A j \in Jobs : answers[j] = <<>>
    BY DEF Init, H!Init, C!Init
  <2>2. DOMAIN passed = {} /\ Len(passed) = 0 /\ passed \in Seq(Jobs)
    BY <2>1
  <2>3. QED  BY <2>1, <2>2 DEF PassedInv, TypeOK, SentOnce
<1>2. HandlerInv /\ HandlerInv' /\ ClientInv /\ ClientInv' /\ PassedInv /\ [Next]_vars => PassedInv'
  BY JointStep, PassedStep
<1>3. QED  BY <1>1, <1>2, PartsHold, PTL DEF Spec

(* The results passed to Send are counted. *)
THEOREM TypeCorrect == Spec => []TypeOK
BY PassedHolds, PTL DEF PassedInv

(* Send is called once for each job that is answered. *)
THEOREM EveryAnswerSent == Spec => []SentOnce
BY PassedHolds, PTL DEF PassedInv

-----------------------------------------------------------------------------
(* Nobody is kept from Send *)

(* Whoever is about to answer a job finds that Send was called for fewer   *)
(* jobs than there are: the bound on its calls, which the code does not    *)
(* have, keeps no step of the handler from happening.                      *)
SendIsFree ==
  /\ \A c \in C!Conns : rpc[c] = "refuse" => sent < Cardinality(Jobs)
  /\ \A w \in Workers : wpc[w] = "run" => sent < Cardinality(Jobs)

LEMMA RoomLeft ==
  ASSUME PassedInv, NEW j \in Jobs, answers[j] = <<>>
  PROVE  sent < Cardinality(Jobs)
<1> DEFINE S == Jobs \ {j}
<1>1. IsFiniteSet(Jobs)
  BY HandlerAssumed DEF HP!HandlerAssumption, HP!IsFiniteSet, IsFiniteSet
<1>2. IsFiniteSet(S) /\ Cardinality(S) = Cardinality(Jobs) - 1 /\ Cardinality(Jobs) \in Nat
  BY <1>1, FS_RemoveElement, FS_CardinalityType
<1>3. DOMAIN passed = 1..sent /\ sent \in Nat /\ \A i \in 1..sent : passed[i] \in S
  BY DEF PassedInv, TypeOK, SentOnce
<1>4. passed \in Injection(1..sent, S)
  BY <1>3 DEF PassedInv, TypeOK, SentOnce, Injection, IsInjective
<1>5. sent <= Cardinality(S)
  <2>1. IsFiniteSet(1..sent) /\ Cardinality(1..sent) = sent
    BY <1>3, FS_Interval
  <2>2. QED  BY <1>2, <1>4, <2>1, FS_Injection
<1>6. QED  BY <1>2, <1>3, <1>5

(* Send can always be called. *)
THEOREM SendNeverWaits == Spec => []SendIsFree
<1>1. HandlerInv /\ PassedInv => SendIsFree
  <2> SUFFICES ASSUME HandlerInv, PassedInv PROVE SendIsFree
    OBVIOUS
  <2>1. ASSUME NEW c \in C!Conns, rpc[c] = "refuse"
        PROVE  sent < Cardinality(Jobs)
    <3>1. taken[c] \in Jobs /\ answers[taken[c]] = <<>>
      BY <2>1 DEF HandlerInv, HP!TypeOK, HP!Busy, HP!Admitted, HP!Refusing, HP!PlaceInv, HP!Answered, HP!OnTheWay
    <3>2. QED  BY <3>1, RoomLeft
  <2>2. ASSUME NEW w \in Workers, wpc[w] = "run"
        PROVE  sent < Cardinality(Jobs)
    <3>1. held[w] \in Jobs /\ answers[held[w]] = <<>>
      BY <2>2 DEF HandlerInv, HP!TypeOK, HP!Holding, HP!PlaceInv, HP!Answered, HP!OnTheWay
    <3>2. QED  BY <3>1, RoomLeft
  <2>3. QED  BY <2>1, <2>2 DEF SendIsFree
<1>2. QED  BY <1>1, PartsHold, PassedHolds, PTL

-----------------------------------------------------------------------------
(* Where the result of a job is *)

LEMMA NumbersKnown ==
  ASSUME ClientInv, PassedInv
  PROVE  /\ sent \in Nat /\ DOMAIN passed = 1..sent
         /\ \A n \in 1..sent : n \in CP!Results /\ passed[n] \in Jobs
         /\ \A i \in DOMAIN sendCh : sendCh[i] \in 1..sent
         /\ \A c \in C!Conns : carried[c] # None => carried[c] \in 1..sent
         /\ \A i \in DOMAIN delivered : delivered[i] \in 1..sent
         /\ \A r \in CP!Results : fate[r] # "none" => r \in 1..sent
<1>1. /\ None \notin CP!Results /\ CP!Results = 1..Cardinality(Jobs) /\ Cardinality(Jobs) \in Nat
      /\ sent \in 0..Cardinality(Jobs)
  BY ClientAssumed DEF CP!ClientAssumption, CP!Results, ClientInv, CP!ResultInv, CP!ResultTypes
<1>2. sent \in Nat /\ DOMAIN passed = 1..sent /\ \A n \in 1..sent : n \in CP!Results /\ passed[n] \in Jobs
  BY <1>1 DEF PassedInv, TypeOK
<1>3. \A r \in CP!Results : CP!InHand(r) \/ fate[r] # "none" => r \in 1..sent
  BY <1>1 DEF ClientInv, CP!ResultInv, CP!Fated
<1>4. C!Conns = CP!Conns
  BY DEF C!Conns, CP!Conns
<1>5. /\ \A i \in DOMAIN sendCh : sendCh[i] \in CP!Results /\ CP!InHand(sendCh[i])
      /\ \A i \in DOMAIN delivered : delivered[i] \in CP!Results /\ CP!InHand(delivered[i])
      /\ \A c \in CP!Conns : carried[c] # None => carried[c] \in CP!Results /\ CP!InHand(carried[c])
  BY DEF ClientInv, CP!ResultInv, CP!ResultTypes, CP!InHand
<1>6. QED  BY <1>2, <1>3, <1>4, <1>5

LEMMA NotCopied ==
  ASSUME ClientInv, PassedInv, NEW j \in Jobs, \A n \in DOMAIN passed : passed[n] # j
  PROVE  Copies(j) = 0
<1>1. C!Results = CP!Results
  BY DEF C!Results, CP!Results
<1>2. /\ {i \in DOMAIN sendCh : passed[sendCh[i]] = j} = {}
      /\ {c \in C!Conns : carried[c] # None /\ passed[carried[c]] = j} = {}
      /\ {i \in DOMAIN delivered : passed[delivered[i]] = j} = {}
      /\ {r \in C!Results : fate[r] # "none" /\ passed[r] = j} = {}
  BY <1>1, NumbersKnown
<1>3. Cardinality({}) = 0
  BY FS_EmptySet
<1>4. Copies(j) = 0 + 0 + 0 + 0
  BY <1>2, <1>3, Zenon DEF Copies
<1>5. QED  BY <1>4

LEMMA CopiedAsNumbered ==
  ASSUME ClientInv, PassedInv, CP!ResultsAccounted, NEW n \in DOMAIN passed, NEW j \in Jobs, passed[n] = j
  PROVE  Copies(j) = 1
<1>1. C!Results = CP!Results /\ C!Conns = CP!Conns /\ \A S : CP!Cardinality(S) = Cardinality(S)
  BY DEF C!Results, CP!Results, C!Conns, CP!Conns, CP!Cardinality, Cardinality
<1>2. n \in CP!Results /\ n <= sent /\ n # None /\ \A m \in 1..sent : passed[m] = j <=> m = n
  BY NumbersKnown, ClientAssumed DEF PassedInv, SentOnce, CP!ClientAssumption
<1>3. /\ {i \in DOMAIN sendCh : passed[sendCh[i]] = j} = {i \in DOMAIN sendCh : sendCh[i] = n}
      /\ {c \in C!Conns : carried[c] # None /\ passed[carried[c]] = j} = {c \in CP!Conns : carried[c] = n}
      /\ {i \in DOMAIN delivered : passed[delivered[i]] = j} = {i \in DOMAIN delivered : delivered[i] = n}
  BY <1>1, <1>2, NumbersKnown
<1>4. Cardinality({r \in C!Results : fate[r] # "none" /\ passed[r] = j})
        = IF fate[n] = "none" THEN 0 ELSE 1
  <2>1. CASE fate[n] = "none"
    <3>1. {r \in C!Results : fate[r] # "none" /\ passed[r] = j} = {}
      BY <1>1, <1>2, <2>1, NumbersKnown
    <3>2. QED  BY <2>1, <3>1, FS_EmptySet
  <2>2. CASE fate[n] # "none"
    <3>1. {r \in C!Results : fate[r] # "none" /\ passed[r] = j} = {n}
      BY <1>1, <1>2, <2>2, NumbersKnown
    <3>2. QED  BY <2>2, <3>1, FS_Singleton
  <2>3. QED  BY <2>1, <2>2
<1>5.   Cardinality({i \in DOMAIN sendCh : sendCh[i] = n})
      + Cardinality({c \in CP!Conns : carried[c] = n})
      + Cardinality({i \in DOMAIN delivered : delivered[i] = n})
      + (IF fate[n] = "none" THEN 0 ELSE 1) = 1
  BY <1>1, <1>2 DEF CP!ResultsAccounted
<1>6. QED  BY <1>3, <1>4, <1>5 DEF Copies

(* From the message of the center to the frame that answers it a job is in *)
(* one place.                                                              *)
THEOREM NoJobVanishes == Spec => []JobsAccounted
<1>1. HandlerInv /\ ClientInv /\ PassedInv /\ CP!ResultsAccounted => JobsAccounted
  <2> SUFFICES ASSUME HandlerInv, ClientInv, PassedInv, CP!ResultsAccounted, NEW j \in Jobs
               PROVE  IF Underway(j) THEN Copies(j) = 0
                      ELSE Copies(j) = 1 \/ (j \in Malformed /\ Copies(j) = 0)
    BY DEF JobsAccounted
  <2>1. Underway(j) <=> HP!OnTheWay(j)
    <3>1. H!InFlight = HP!InFlight
      BY DEF H!InFlight, H!Busy, H!Admitted, H!Refusing, H!Queued, H!Holding,
             HP!InFlight, HP!Busy, HP!Admitted, HP!Refusing, HP!Queued, HP!Holding
    <3>2. HP!OnTheWay(j) <=> j \in inbox \cup HP!InFlight
      BY HP!FlightIsPlaces, HandlerAssumed DEF HandlerInv
    <3>3. QED  BY <3>1, <3>2 DEF Underway
  <2>2. /\ Underway(j) => answers[j] = <<>>
        /\ Underway(j) \/ j \in Malformed \/ answers[j] # <<>>
    BY <2>1 DEF HandlerInv, HP!PlaceInv, HP!Answered
  <2>3. CASE answers[j] = <<>>
    <3>1. Copies(j) = 0
      BY <2>3, NotCopied DEF PassedInv, SentOnce
    <3>2. QED  BY <2>2, <2>3, <3>1
  <2>4. CASE answers[j] # <<>>
    <3>1. Copies(j) = 1
      BY <2>4, CopiedAsNumbered DEF PassedInv, SentOnce
    <3>2. QED  BY <2>2, <2>4, <3>1
  <2>5. QED  BY <2>3, <2>4
<1>2. Spec => []CP!ResultsAccounted
  <2>1. C!Spec => CP!Spec
    BY SameClient, PTL DEF C!Spec, CP!Spec
  <2>2. CP!Spec => []CP!ResultsAccounted
    BY CP!ResultsAreSomewhere, ClientAssumed
  <2>3. QED  BY <2>1, <2>2, ClientRuns, PTL
<1>3. QED  BY <1>1, <1>2, PartsHold, PassedHolds, PTL

-----------------------------------------------------------------------------
(* A result known by its job *)

(* What Reports calls the state of the client, in terms of Client's own    *)
(* mapping to ResultService.                                               *)
Named(q) == [i \in DOMAIN q |-> passed[q[i]]]

handOf == IF CP!hand = None THEN None ELSE passed[CP!hand]

lostOf == {passed[r] : r \in CP!lost}

(* Renaming the elements of a queue keeps its length. *)
LEMMA NamedSeq ==
  ASSUME NEW p \in Seq(Jobs), NEW q \in Seq(DOMAIN p)
  PROVE  /\ [i \in DOMAIN q |-> p[q[i]]] \in Seq(Jobs)
         /\ Len([i \in DOMAIN q |-> p[q[i]]]) = Len(q)
         /\ DOMAIN q = 1..Len(q) /\ Len(q) \in Nat
<1>1. DOMAIN q = 1..Len(q) /\ Len(q) \in Nat
  OBVIOUS
<1>2. \A i \in DOMAIN q : q[i] \in DOMAIN p
  OBVIOUS
<1>3. \A k \in DOMAIN p : p[k] \in Jobs
  OBVIOUS
<1>4. \A i \in 1..Len(q) : p[q[i]] \in Jobs
  BY <1>1, <1>2, <1>3
<1>5. [i \in 1..Len(q) |-> p[q[i]]] \in Seq(Jobs)
      /\ Len([i \in 1..Len(q) |-> p[q[i]]]) = Len(q)
  <2> DEFINE e(i) == p[q[i]]
  <2>1. Len(q) \in Nat /\ \A i \in 1..Len(q) : e(i) \in Jobs
    BY <1>1, <1>4
  <2> HIDE DEF e
  <2>2. [i \in 1..Len(q) |-> e(i)] \in Seq(Jobs) /\ Len([i \in 1..Len(q) |-> e(i)]) = Len(q)
    BY <2>1
  <2>3. QED  BY <2>2 DEF e
<1>6. QED  BY <1>1, <1>5

LEMMA SameSeq ==
  ASSUME NEW S, NEW s \in Seq(S), NEW t \in Seq(S), NEW n, Len(s) = n, Len(t) = n,
         \A i \in 1..n : t[i] = s[i]
  PROVE  t = s
OBVIOUS

LEMMA NamedTail ==
  ASSUME NEW p \in Seq(Jobs), NEW q \in Seq(DOMAIN p), q # <<>>
  PROVE  /\ [i \in DOMAIN q |-> p[q[i]]] # <<>>
         /\ Head([i \in DOMAIN q |-> p[q[i]]]) = p[Head(q)]
         /\ [i \in DOMAIN Tail(q) |-> p[Tail(q)[i]]] = Tail([i \in DOMAIN q |-> p[q[i]]])
<1> DEFINE s == [i \in DOMAIN q |-> p[q[i]]]
           t == [i \in DOMAIN Tail(q) |-> p[Tail(q)[i]]]
<1>1. s \in Seq(Jobs) /\ Len(s) = Len(q) /\ DOMAIN q = 1..Len(q) /\ Len(q) \in Nat
  BY NamedSeq
<1>2. Len(q) > 0 /\ Tail(q) \in Seq(DOMAIN p) /\ Len(Tail(q)) = Len(q) - 1
      /\ \A i \in 1..(Len(q) - 1) : Tail(q)[i] = q[i + 1]
  BY <1>1
<1>3. t \in Seq(Jobs) /\ Len(t) = Len(q) - 1 /\ DOMAIN Tail(q) = 1..(Len(q) - 1)
  BY <1>2, NamedSeq
<1>4. \A i \in 1..(Len(q) - 1) : t[i] = p[q[i + 1]] /\ s[i + 1] = p[q[i + 1]]
  BY <1>1, <1>2, <1>3
<1>5. Head(s) = p[Head(q)]
  BY <1>1, <1>2
<1> HIDE DEF s, t
<1>6. s # <<>> /\ t = Tail(s)
  <2>1. s # <<>>
    BY <1>1, <1>2
  <2>2. Tail(s) \in Seq(Jobs) /\ Len(Tail(s)) = Len(q) - 1
        /\ \A i \in 1..(Len(q) - 1) : Tail(s)[i] = s[i + 1]
    BY <1>1, <2>1
  <2>3. \A i \in 1..(Len(q) - 1) : t[i] = Tail(s)[i]
    BY <1>4, <2>2
  <2>4. QED  BY <1>3, <2>1, <2>2, <2>3, SameSeq
<1>7. QED  BY <1>5, <1>6 DEF s, t

(* A new number names only the new job. *)
LEMMA NamedAgain ==
  ASSUME NEW p \in Seq(Jobs), NEW q \in Seq(DOMAIN p), NEW j \in Jobs
  PROVE  [i \in DOMAIN q |-> Append(p, j)[q[i]]] = [i \in DOMAIN q |-> p[q[i]]]
<1>1. \A k \in DOMAIN p : Append(p, j)[k] = p[k]
  OBVIOUS
<1>2. \A i \in DOMAIN q : q[i] \in DOMAIN p
  OBVIOUS
<1>3. QED  BY <1>1, <1>2

LEMMA SeqAppend ==
  ASSUME NEW S, NEW s \in Seq(S), NEW e \in S, NEW t \in Seq(S), Len(t) = Len(s) + 1,
         \A i \in 1..Len(s) : t[i] = s[i], t[Len(s) + 1] = e
  PROVE  t = Append(s, e)
OBVIOUS

LEMMA NamedAppend ==
  ASSUME NEW p \in Seq(Jobs), NEW q \in Seq(DOMAIN p), NEW r \in DOMAIN p
  PROVE  [i \in DOMAIN Append(q, r) |-> p[Append(q, r)[i]]]
           = Append([i \in DOMAIN q |-> p[q[i]]], p[r])
<1> DEFINE s == [i \in DOMAIN q |-> p[q[i]]]
           t == [i \in DOMAIN Append(q, r) |-> p[Append(q, r)[i]]]
<1>1. s \in Seq(Jobs) /\ Len(s) = Len(q) /\ DOMAIN q = 1..Len(q) /\ Len(q) \in Nat
  BY NamedSeq
<1>2. Append(q, r) \in Seq(DOMAIN p) /\ Len(Append(q, r)) = Len(q) + 1
      /\ Append(q, r)[Len(q) + 1] = r /\ \A i \in 1..Len(q) : Append(q, r)[i] = q[i]
  BY <1>1
<1>3. t \in Seq(Jobs) /\ Len(t) = Len(q) + 1 /\ DOMAIN Append(q, r) = 1..(Len(q) + 1)
  BY <1>2, NamedSeq
<1>4. t[Len(q) + 1] = p[r] /\ \A i \in 1..Len(q) : t[i] = s[i]
  BY <1>1, <1>2, <1>3
<1>5. p[r] \in Jobs
  OBVIOUS
<1> HIDE DEF s, t
<1>6. t = Append(s, p[r])
  BY <1>1, <1>3, <1>4, <1>5, SeqAppend
<1>7. QED  BY <1>6 DEF s, t

(* The numbers in the hand and among the lost results are known too. *)
LEMMA HandAndLost ==
  ASSUME ClientInv, PassedInv
  PROVE  /\ CP!hand # None => CP!hand \in 1..sent
         /\ CP!lost \subseteq 1..sent
         /\ None \notin Nat /\ None \notin Jobs
<1>1. C!Conns = CP!Conns
  BY DEF C!Conns, CP!Conns
<1>2. CP!hand # None => CP!hand \in 1..sent
  BY <1>1, NumbersKnown, CP!HandHolder, ClientAssumed DEF ClientInv
<1>3. ASSUME NEW r \in CP!lost
      PROVE  r \in 1..sent
  BY <1>1, <1>3, NumbersKnown, CP!LostIs, ClientAssumed DEF CP!Carries
<1>4. QED  BY <1>2, <1>3, HandlerAssumed, ClientAssumed DEF HP!HandlerAssumption, CP!ClientAssumption

LEMMA QueuesTyped ==
  ASSUME ClientInv, PassedInv
  PROVE  /\ passed \in Seq(Jobs) /\ DOMAIN passed = 1..sent /\ sent \in Nat
         /\ sendCh \in Seq(DOMAIN passed) /\ delivered \in Seq(DOMAIN passed)
<1>1. sendCh \in Seq(CP!Results) /\ delivered \in Seq(CP!Results)
  BY DEF ClientInv, CP!ResultInv, CP!ResultTypes
<1>2. ASSUME NEW S, NEW q \in Seq(S), NEW T, \A i \in DOMAIN q : q[i] \in T
      PROVE  q \in Seq(T)
  BY <1>2
<1>3. /\ \A i \in DOMAIN sendCh : sendCh[i] \in DOMAIN passed
      /\ \A i \in DOMAIN delivered : delivered[i] \in DOMAIN passed
  BY NumbersKnown
<1>4. sendCh \in Seq(DOMAIN passed) /\ delivered \in Seq(DOMAIN passed)
  BY <1>1, <1>2, <1>3
<1>5. QED  BY <1>4, NumbersKnown DEF PassedInv, TypeOK

-----------------------------------------------------------------------------
(* The two together are a ReportService *)

queueOf     == Named(sendCh)
deliveredOf == Named(delivered)

R == INSTANCE ReportService
  WITH Silent    <- Malformed,
       Capacity  <- HP!MaxConcurrency,
       status    <- HP!status,
       queue     <- queueOf,
       hand      <- handOf,
       delivered <- deliveredOf,
       lost      <- lostOf

(* What the client does with the results it has, with their jobs' names.   *)
LEMMA ServeNamed ==
  ASSUME ClientInv, ClientInv', PassedInv, PassedInv', Serving
  PROVE  R!Report \/ UNCHANGED R!vars
<1>1. /\ passed' = passed /\ HP!status' = HP!status
      /\ passed \in Seq(Jobs) /\ DOMAIN passed = 1..sent /\ sent \in Nat
      /\ sendCh \in Seq(DOMAIN passed) /\ delivered \in Seq(DOMAIN passed)
      /\ \A n \in 1..sent : passed[n] \in Jobs
      /\ CP!hand # None => CP!hand \in 1..sent
      /\ None \notin Nat /\ None \notin Jobs
  <2>1. passed' = passed /\ UNCHANGED handlerVars
    BY DEF Serving
  <2>2. HP!status' = HP!status
    BY <2>1 DEF handlerVars, HP!status, HP!StatusOf, HP!Busy, HP!Admitted, HP!Refusing, HP!Running,
                HP!InFlight, HP!Queued, HP!Holding
  <2>3. QED  BY <2>1, <2>2, QueuesTyped, HandAndLost, NumbersKnown
<1>2. CASE UNCHANGED <<sendCh, CP!hand, delivered, CP!lost>>
  BY <1>1, <1>2 DEF R!vars, queueOf, deliveredOf, handOf, lostOf, Named
<1>3. CASE CP!Service!Take
  <2>1. /\ CP!hand = None /\ sendCh # <<>> /\ CP!hand' = Head(sendCh) /\ sendCh' = Tail(sendCh)
        /\ UNCHANGED <<delivered, CP!lost>>
    BY <1>3 DEF CP!Service!Take, CP!hand, CP!lost
  <2>2. queueOf # <<>> /\ Head(queueOf) = passed[Head(sendCh)] /\ queueOf' = Tail(queueOf)
    BY <1>1, <2>1, NamedTail DEF queueOf, Named
  <2>3. Head(sendCh) \in 1..sent
    BY <1>1, <2>1
  <2>4. handOf = None /\ handOf' = passed[Head(sendCh)]
    BY <1>1, <2>1, <2>3 DEF handOf
  <2>5. UNCHANGED <<deliveredOf, lostOf>>
    BY <1>1, <2>1 DEF deliveredOf, lostOf, Named
  <2>6. QED  BY <1>1, <2>2, <2>4, <2>5 DEF R!Report, R!Results!Take
<1>4. CASE CP!Service!Waste
  <2>1. /\ sendCh # <<>> /\ sendCh' = Tail(sendCh) /\ CP!lost' = CP!lost \cup {Head(sendCh)}
        /\ UNCHANGED <<CP!hand, delivered>>
    BY <1>4 DEF CP!Service!Waste, CP!hand, CP!lost
  <2>2. queueOf # <<>> /\ Head(queueOf) = passed[Head(sendCh)] /\ queueOf' = Tail(queueOf)
    BY <1>1, <2>1, NamedTail DEF queueOf, Named
  <2>3. lostOf' = lostOf \cup {passed[Head(sendCh)]}
    BY <1>1, <2>1 DEF lostOf
  <2>4. UNCHANGED <<handOf, deliveredOf>>
    BY <1>1, <2>1 DEF deliveredOf, handOf, Named
  <2>5. QED  BY <1>1, <2>2, <2>3, <2>4 DEF R!Report, R!Results!Waste
<1>5. CASE CP!Service!Deliver
  <2>1. /\ CP!hand # None /\ delivered' = Append(delivered, CP!hand) /\ CP!hand' = None
        /\ UNCHANGED <<sendCh, CP!lost>>
    BY <1>5 DEF CP!Service!Deliver, CP!hand, CP!lost
  <2>2. handOf # None /\ handOf = passed[CP!hand] /\ handOf' = None
    BY <1>1, <2>1 DEF handOf
  <2>3. deliveredOf' = Append(deliveredOf, passed[CP!hand])
    BY <1>1, <2>1, NamedAppend DEF deliveredOf, Named
  <2>4. UNCHANGED <<queueOf, lostOf>>
    BY <1>1, <2>1 DEF queueOf, lostOf, Named
  <2>5. QED  BY <1>1, <2>2, <2>3, <2>4 DEF R!Report, R!Results!Deliver
<1>6. CASE CP!Service!Lose
  <2>1. /\ CP!hand # None /\ CP!lost' = CP!lost \cup {CP!hand} /\ CP!hand' = None
        /\ UNCHANGED <<sendCh, delivered>>
    BY <1>6 DEF CP!Service!Lose, CP!hand, CP!lost
  <2>2. handOf # None /\ handOf = passed[CP!hand] /\ handOf' = None
    BY <1>1, <2>1 DEF handOf
  <2>3. lostOf' = lostOf \cup {passed[CP!hand]}
    BY <1>1, <2>1 DEF lostOf
  <2>4. UNCHANGED <<queueOf, deliveredOf>>
    BY <1>1, <2>1 DEF queueOf, deliveredOf, Named
  <2>5. QED  BY <1>1, <2>2, <2>3, <2>4 DEF R!Report, R!Results!Lose
<1>7. QED  BY <1>2, <1>3, <1>4, <1>5, <1>6 DEF Serving, CP!Serves

(* The answer to a job is put in the queue under the job's name.           *)
LEMMA PutNamed ==
  ASSUME ClientInv, ClientInv', PassedInv, NEW j \in Jobs, Answering(j)
  PROVE  R!Results!Put(j)
<1>1. PICK n \in CP!Results : n = sent + 1 /\ CP!Service!Put(n)
  <2>1. CP!Send
    BY SameClient DEF Answering, Send
  <2>2. QED  BY <2>1, CP!SendMoves, ClientAssumed DEF ClientInv
<1>2. /\ passed \in Seq(Jobs) /\ DOMAIN passed = 1..sent /\ sent \in Nat
      /\ sendCh \in Seq(DOMAIN passed) /\ delivered \in Seq(DOMAIN passed)
      /\ \A i \in 1..sent : passed[i] \in Jobs
      /\ CP!hand # None => CP!hand \in 1..sent
      /\ CP!lost \subseteq 1..sent
      /\ None \notin Nat /\ None \notin Jobs
  BY QueuesTyped, HandAndLost, NumbersKnown
<1>3. passed' = Append(passed, j)
  BY DEF Answering, Send
<1>4. /\ passed' \in Seq(Jobs) /\ DOMAIN passed' = 1..(sent + 1) /\ passed'[n] = j /\ n \in DOMAIN passed'
      /\ \A i \in 1..sent : passed'[i] = passed[i]
  BY <1>1, <1>2, <1>3
<1>5. /\ UNCHANGED <<CP!hand, delivered>>
      /\ \/ Len(sendCh) < SendCap /\ sendCh' = Append(sendCh, n) /\ CP!lost' = CP!lost
         \/ Len(sendCh) >= SendCap /\ CP!lost' = CP!lost \cup {n} /\ sendCh' = sendCh
  BY <1>1 DEF CP!Service!Put, CP!hand, CP!lost
<1>6. handOf' = handOf
  BY <1>2, <1>4, <1>5 DEF handOf
<1>7. deliveredOf' = deliveredOf
  BY <1>2, <1>3, <1>5, NamedAgain DEF deliveredOf, Named
<1>8. ASSUME sendCh' = Append(sendCh, n)
      PROVE  queueOf' = Append(queueOf, j)
  <2>1. sendCh \in Seq(DOMAIN passed')
    BY <1>2, <1>4
  <2>2. queueOf' = Append([i \in DOMAIN sendCh |-> passed'[sendCh[i]]], passed'[n])
    BY <1>4, <1>8, <2>1, NamedAppend DEF queueOf, Named
  <2>3. [i \in DOMAIN sendCh |-> passed'[sendCh[i]]] = queueOf
    BY <1>2, <1>3, NamedAgain DEF queueOf, Named
  <2>4. QED  BY <1>4, <2>2, <2>3
<1>9. ASSUME sendCh' = sendCh
      PROVE  queueOf' = queueOf
  BY <1>2, <1>3, <1>9, NamedAgain DEF queueOf, Named
<1>10. /\ CP!lost' = CP!lost => lostOf' = lostOf
       /\ CP!lost' = CP!lost \cup {n} => lostOf' = lostOf \cup {j}
  <2>1. \A r \in CP!lost : passed'[r] = passed[r]
    BY <1>2, <1>4
  <2>2. {passed'[r] : r \in CP!lost} = lostOf
    BY <2>1 DEF lostOf
  <2>3. {passed'[r] : r \in CP!lost \cup {n}} = lostOf \cup {j}
    BY <1>4, <2>2
  <2>4. lostOf' = {passed'[r] : r \in CP!lost'}
    BY DEF lostOf
  <2>5. QED  BY <2>2, <2>3, <2>4
<1>11. Len(queueOf) = Len(sendCh)
  BY <1>2, NamedSeq DEF queueOf, Named
<1>12. j \notin R!Results!Known
  <2>1. \A i \in 1..sent : passed[i] # j
    BY <1>2 DEF Answering, PassedInv, SentOnce
  <2>2. /\ \A i \in DOMAIN sendCh : sendCh[i] \in 1..sent
        /\ \A i \in DOMAIN delivered : delivered[i] \in 1..sent
    BY NumbersKnown
  <2>3. j \notin R!Results!Elements(queueOf) /\ j \notin R!Results!Elements(deliveredOf)
    BY <2>1, <2>2 DEF R!Results!Elements, queueOf, deliveredOf, Named
  <2>4. j # handOf /\ j \notin lostOf
    BY <1>2, <2>1 DEF handOf, lostOf
  <2>5. QED  BY <2>3, <2>4 DEF R!Results!Known
<1>13. QED  BY <1>5, <1>6, <1>7, <1>8, <1>9, <1>10, <1>11, <1>12 DEF R!Results!Put

(* The handler's service in R is HP's.                                     *)
LEMMA SameService ==
  /\ R!Service!Init <=> HP!Service!Init
  /\ \A j \in Jobs : /\ R!Service!Refuse(j) <=> HP!Service!Refuse(j)
                     /\ R!Service!Admit(j) <=> HP!Service!Admit(j)
                     /\ R!Service!Start(j) <=> HP!Service!Start(j)
                     /\ R!Service!Settle(j) <=> HP!Service!Settle(j)
BY DEF R!Service!Init, R!Service!Refuse, R!Service!Admit, R!Service!Start, R!Service!Settle, R!Service!Move,
       R!Service!In, R!Service!Cardinality, HP!Service!Init, HP!Service!Refuse, HP!Service!Admit,
       HP!Service!Start, HP!Service!Settle, HP!Service!Move, HP!Service!In, HP!Service!Cardinality,
       HP!status

(* The names used here are those of Reports. *)
LEMMA SameReports ==
  /\ R!Init <=> Reports!Init
  /\ [R!Next]_(R!vars) <=> [Reports!Next]_(Reports!vars)
<1>1. /\ HP!status = [j \in Jobs |-> H!StatusOf(j)]
      /\ HP!status' = [j \in Jobs |-> H!StatusOf(j)]'
  BY DEF HP!status, HP!StatusOf, HP!Busy, HP!Admitted, HP!Refusing, HP!Running, HP!InFlight, HP!Queued,
         HP!Holding, H!StatusOf, H!Busy, H!Admitted, H!Refusing, H!Running, H!InFlight, H!Queued, H!Holding
<1>2. /\ handOf = (IF cur > 0 /\ link[cur] = "up" /\ carried[cur] # None THEN passed[carried[cur]] ELSE None)
      /\ handOf' = (IF cur > 0 /\ link[cur] = "up" /\ carried[cur] # None THEN passed[carried[cur]] ELSE None)'
  BY DEF handOf, CP!hand
<1>3. /\ lostOf = {passed[r] : r \in {n \in C!Results : fate[n] # "none"} \cup C!Doomed}
      /\ lostOf' = {passed[r] : r \in {n \in C!Results : fate[n] # "none"} \cup C!Doomed}'
  BY DEF lostOf, CP!lost, CP!Results, CP!Doomed, CP!Conns, C!Results, C!Doomed, C!Conns
<1>4. H!MaxConcurrency = HP!MaxConcurrency
  BY DEF H!MaxConcurrency, HP!MaxConcurrency, H!Cardinality, HP!Cardinality
<1>5. /\ R!Service!Init <=> Reports!Service!Init
      /\ \A j \in Jobs : /\ R!Service!Refuse(j) <=> Reports!Service!Refuse(j)
                         /\ R!Service!Admit(j) <=> Reports!Service!Admit(j)
                         /\ R!Service!Start(j) <=> Reports!Service!Start(j)
                         /\ R!Service!Settle(j) <=> Reports!Service!Settle(j)
  BY <1>1, <1>4
  DEF R!Service!Init, R!Service!Refuse, R!Service!Admit, R!Service!Start, R!Service!Settle, R!Service!Move,
      R!Service!In, R!Service!Cardinality,
      Reports!Service!Init, Reports!Service!Refuse, Reports!Service!Admit, Reports!Service!Start,
      Reports!Service!Settle, Reports!Service!Move, Reports!Service!In, Reports!Service!Cardinality
<1>6. /\ R!Results!Init <=> Reports!Results!Init
      /\ \A j \in Jobs : R!Results!Put(j) <=> Reports!Results!Put(j)
  BY <1>2, <1>3
  DEF queueOf, deliveredOf, Named, R!Results!Init, R!Results!Put, R!Results!Known, R!Results!Elements,
      Reports!Results!Init, Reports!Results!Put, Reports!Results!Known, Reports!Results!Elements
<1>7. /\ R!Results!Take <=> Reports!Results!Take
      /\ R!Results!Waste <=> Reports!Results!Waste
      /\ R!Results!Deliver <=> Reports!Results!Deliver
      /\ R!Results!Lose <=> Reports!Results!Lose
  BY <1>2, <1>3
  DEF queueOf, deliveredOf, Named, R!Results!Take, R!Results!Waste, R!Results!Deliver, R!Results!Lose,
      Reports!Results!Take, Reports!Results!Waste, Reports!Results!Deliver, Reports!Results!Lose
<1>8. /\ UNCHANGED HP!status <=> UNCHANGED [j \in Jobs |-> H!StatusOf(j)]
      /\ UNCHANGED R!resultVars <=> UNCHANGED Reports!resultVars
      /\ UNCHANGED R!vars <=> UNCHANGED Reports!vars
  BY <1>1, <1>2, <1>3
  DEF queueOf, deliveredOf, Named, R!resultVars, R!vars, Reports!resultVars, Reports!vars
<1>9. QED
  BY <1>5, <1>6, <1>7, <1>8
  DEF R!Init, R!Next, R!Report, R!Refuse, R!Settle, R!Proceed,
      Reports!Init, Reports!Next, Reports!Report, Reports!Refuse, Reports!Settle, Reports!Proceed

(* Handler and Client together keep the promise of ReportService: the step *)
(* that settles a job is the one that puts its answer in the queue, and    *)
(* from there on only a full queue or a lost connection keeps it from the  *)
(* center.                                                                 *)
THEOREM PipelineImplementsReports == Spec => ImplementsReports
<1>1. Init => Reports!Init
  <2> SUFFICES ASSUME Init PROVE R!Init
    BY SameReports
  <2>1. R!Service!Init
    <3>1. HP!Init
      BY SameHandler DEF Init
    <3>2. HP!Service!Init
      BY <3>1, HP!InitServes, HandlerAssumed
    <3>3. QED  BY <3>2, SameService
  <2>2. /\ sendCh = <<>> /\ CP!hand = None /\ delivered = <<>> /\ CP!lost = {}
    BY SameClient, CP!InitQueue, ClientAssumed DEF Init, CP!Service!Init, CP!hand, CP!lost
  <2>3. queueOf = <<>> /\ deliveredOf = <<>>
    BY <2>2 DEF queueOf, deliveredOf, Named
  <2>4. handOf = None /\ lostOf = {}
    BY <2>2 DEF handOf, lostOf
  <2>5. QED  BY <2>1, <2>3, <2>4 DEF R!Init, R!Results!Init
<1>2. HandlerInv /\ HandlerInv' /\ ClientInv /\ ClientInv' /\ PassedInv /\ PassedInv' /\ [Next]_vars
        => [Reports!Next]_(Reports!vars)
  <2> SUFFICES ASSUME HandlerInv, HandlerInv', ClientInv, ClientInv', PassedInv, PassedInv', [Next]_vars
               PROVE  R!Next \/ UNCHANGED R!vars
    BY SameReports
  <2>1. CASE Serving
    BY <2>1, ServeNamed DEF R!Next
  <2>2. CASE Proceeding
    <3>1. UNCHANGED <<queueOf, handOf, deliveredOf, lostOf>>
      BY <2>2 DEF Proceeding, KeepsClient, clientVars, queueOf, handOf, deliveredOf, lostOf, Named,
                  CP!hand, CP!lost, CP!Doomed
    <3>2. CASE HP!status' = HP!status
      BY <3>1, <3>2 DEF R!vars
    <3>3. ASSUME NEW j \in Jobs, HP!Service!Admit(j) \/ HP!Service!Start(j)
          PROVE  R!Proceed(j)
      BY <3>1, <3>3, SameService DEF R!Proceed, R!resultVars
    <3>4. ASSUME NEW j \in Jobs, j \in Malformed, HP!Service!Settle(j)
          PROVE  R!Settle(j)
      BY <3>1, <3>4, SameService DEF R!Settle, R!resultVars
    <3>5. QED  BY <2>2, <3>2, <3>3, <3>4 DEF Proceeding, R!Next
  <2>3. ASSUME NEW j \in Jobs, Answering(j)
        PROVE  R!Next
    <3>1. R!Results!Put(j)
      BY <2>3, PutNamed
    <3>2. R!Refuse(j) \/ R!Settle(j)
      BY <2>3, <3>1, SameService DEF Answering, R!Refuse, R!Settle
    <3>3. QED  BY <3>2 DEF R!Next
  <2>4. QED  BY <2>1, <2>2, <2>3, JointStep
<1>3. QED
  BY <1>1, <1>2, PartsHold, PassedHolds, PTL DEF Spec, ImplementsReports, Reports!Spec
=============================================================================
