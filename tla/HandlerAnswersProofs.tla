------------------------ MODULE HandlerAnswersProofs ------------------------
(***************************************************************************)
(* Theorems about where a job of Handler is, how it is answered, and that  *)
(* the handler keeps the promise of JobService, for any readers, workers,  *)
(* jobs and policies.                                                      *)
(***************************************************************************)
EXTENDS HandlerProofs, FunctionTheorems

(* The places of a job are disjoint.  A reader or worker with no job has   *)
(* None (TypeOK), so the conjuncts need not speak of program counters.     *)
OneHolder ==
  /\ \A r1, r2 \in Readers : taken[r1] # None /\ taken[r1] = taken[r2] => r1 = r2
  /\ \A i1, i2 \in DOMAIN jobs : jobs[i1] = jobs[i2] => i1 = i2
  /\ \A w1, w2 \in Workers : held[w1] # None /\ held[w1] = held[w2] => w1 = w2

Apart ==
  /\ \A r \in Readers : \A i \in DOMAIN jobs : taken[r] # jobs[i]
  /\ \A r \in Readers : \A w \in Workers : taken[r] # None => taken[r] # held[w]
  /\ \A i \in DOMAIN jobs : \A w \in Workers : jobs[i] # held[w]
  /\ \A r \in Readers : taken[r] \notin inbox
  /\ \A i \in DOMAIN jobs : jobs[i] \notin inbox
  /\ \A w \in Workers : held[w] \notin inbox

Places == OneHolder /\ Apart

OnTheWay(j) ==
  \/ j \in inbox
  \/ \E r \in Readers : j = taken[r]
  \/ \E i \in DOMAIN jobs : j = jobs[i]
  \/ \E w \in Workers : j = held[w]

(* A job on its way has no answer, any other has one it may have. *)
Answered ==
  \A j \in Jobs :
    /\ Len(answers[j]) <= 1
    /\ OnTheWay(j) => answers[j] = <<>>
    /\ OnTheWay(j) \/ j \in Malformed \/ answers[j] # <<>>
    /\ answers[j] \in Answers(j)

PlaceInv == Places /\ Answered

jobVars == <<inbox, taken, jobs, held, answers>>

-----------------------------------------------------------------------------
(* The places of TypeOK and those of the properties are the same. *)

LEMMA FlightIsPlaces ==
  ASSUME TypeOK, NEW j \in Jobs
  PROVE  OnTheWay(j) <=> j \in inbox \cup InFlight
<1>1. j # None
  BY HandlerAssumption
<1>2. \A r \in Readers : j = taken[r] => r \in Busy
  BY <1>1 DEF TypeOK
<1>3. \A w \in Workers : j = held[w] => w \in Holding
  BY <1>1 DEF TypeOK
<1>4. Busy \subseteq Readers /\ Holding \subseteq Workers
  BY DEF Busy, Admitted, Refusing, Holding
<1>5. QED  BY <1>2, <1>3, <1>4 DEF OnTheWay, InFlight, Queued

LEMMA PlacesImply == TypeOK /\ PlaceInv => OnePlacePerJob /\ OneAnswerPerJob
<1> SUFFICES ASSUME TypeOK, PlaceInv PROVE OnePlacePerJob /\ OneAnswerPerJob
  OBVIOUS
<1>1. /\ Busy \subseteq Readers /\ \A r \in Busy : taken[r] # None /\ taken[r] \in Jobs
      /\ Holding \subseteq Workers /\ \A w \in Holding : held[w] # None /\ held[w] \in Jobs
      /\ inbox \subseteq Jobs /\ \A i \in DOMAIN jobs : jobs[i] \in Jobs
  BY DEF TypeOK, Busy, Admitted, Refusing, Holding
<1>2. InFlight \subseteq Jobs
  BY <1>1 DEF InFlight, Queued
<1>3. \A j \in inbox \cup InFlight : answers[j] = <<>>
  BY <1>1, <1>2, FlightIsPlaces DEF PlaceInv, Answered
<1>4. inbox \cap InFlight = {}
  BY <1>1 DEF InFlight, Queued, PlaceInv, Places, Apart
<1>5. /\ \A r1, r2 \in Busy : taken[r1] = taken[r2] => r1 = r2
      /\ \A i1, i2 \in DOMAIN jobs : jobs[i1] = jobs[i2] => i1 = i2
      /\ \A w1, w2 \in Holding : held[w1] = held[w2] => w1 = w2
  BY <1>1 DEF PlaceInv, Places, OneHolder
<1>6. /\ {taken[r] : r \in Busy} \cap Queued = {}
      /\ {taken[r] : r \in Busy} \cap {held[w] : w \in Holding} = {}
      /\ Queued \cap {held[w] : w \in Holding} = {}
  BY <1>1 DEF Queued, PlaceInv, Places, Apart
<1>7. OneAnswerPerJob
  BY FlightIsPlaces DEF OneAnswerPerJob, PlaceInv, Answered
<1>8. QED  BY <1>3, <1>4, <1>5, <1>6, <1>7 DEF OnePlacePerJob

-----------------------------------------------------------------------------
(* Each move of a job keeps the invariant. *)

LEMMA NothingMoves ==
  ASSUME PlaceInv, UNCHANGED jobVars
  PROVE  PlaceInv'
BY DEF jobVars, PlaceInv, Places, OneHolder, Apart, Answered, OnTheWay

(* from the connection to a reader *)
LEMMA JobIsRead ==
  ASSUME TypeOK, PlaceInv, NEW r \in Readers, NEW j \in inbox, rpc[r] = "idle",
         inbox' = inbox \ {j}, taken' = [taken EXCEPT ![r] = j], UNCHANGED <<jobs, held, answers>>
  PROVE  PlaceInv'
<1>1. taken[r] = None /\ j # None /\ j \in Jobs
  BY HandlerAssumption DEF TypeOK, Busy, Admitted, Refusing
<1>2. taken'[r] = j /\ \A q \in Readers : q # r => taken'[q] = taken[q]
  BY DEF TypeOK
<1>3. OneHolder'
  BY <1>1, <1>2 DEF PlaceInv, Places, OneHolder, Apart
<1>4. Apart'
  BY <1>1, <1>2 DEF PlaceInv, Places, Apart
<1>5. \A k \in Jobs : OnTheWay(k)' <=> OnTheWay(k)
  BY <1>1, <1>2, HandlerAssumption DEF OnTheWay
<1>6. Answered'
  BY <1>5 DEF PlaceInv, Answered
<1>7. QED  BY <1>3, <1>4, <1>6 DEF PlaceInv, Places

(* from a reader to the channel *)
LEMMA JobIsQueued ==
  ASSUME TypeOK, PlaceInv, NEW r \in Readers, rpc[r] = "send",
         jobs' = Append(jobs, taken[r]), taken' = [taken EXCEPT ![r] = None],
         UNCHANGED <<inbox, held, answers>>
  PROVE  PlaceInv'
<1>1. taken[r] \in Jobs /\ taken[r] # None /\ jobs \in Seq(Jobs) /\ None \notin Jobs
  BY HandlerAssumption DEF TypeOK, Busy, Admitted
<1>2. taken'[r] = None /\ \A q \in Readers : q # r => taken'[q] = taken[q]
  BY DEF TypeOK
<1>3. /\ \A i \in DOMAIN jobs' : IF i = Len(jobs) + 1 THEN jobs'[i] = taken[r]
                                 ELSE i \in DOMAIN jobs /\ jobs'[i] = jobs[i]
      /\ \A i \in DOMAIN jobs : i \in DOMAIN jobs' /\ jobs'[i] = jobs[i] /\ jobs[i] \in Jobs
      /\ Len(jobs) + 1 \in DOMAIN jobs' /\ jobs'[Len(jobs) + 1] = taken[r]
  BY <1>1
<1>4. OneHolder'
  BY <1>1, <1>2, <1>3 DEF PlaceInv, Places, OneHolder, Apart
<1>5. Apart'
  <2>1. \A q \in Readers : \A i \in DOMAIN jobs' : taken'[q] # jobs'[i]
    BY <1>1, <1>2, <1>3 DEF PlaceInv, Places, OneHolder, Apart
  <2>2. \A i \in DOMAIN jobs' : \A w \in Workers : jobs'[i] # held[w]
    BY <1>1, <1>3 DEF PlaceInv, Places, Apart
  <2>3. /\ \A q \in Readers : taken'[q] \notin inbox
        /\ \A i \in DOMAIN jobs' : jobs'[i] \notin inbox
    BY <1>1, <1>2, <1>3 DEF TypeOK, PlaceInv, Places, Apart
  <2>4. QED  BY <1>2, <2>1, <2>2, <2>3 DEF PlaceInv, Places, Apart
<1>6. \A k \in Jobs : OnTheWay(k)' <=> OnTheWay(k)
  BY <1>1, <1>2, <1>3 DEF OnTheWay
<1>7. Answered'
  BY <1>6 DEF PlaceInv, Answered
<1>8. QED  BY <1>4, <1>5, <1>7 DEF PlaceInv, Places

(* from the channel to a worker *)
LEMMA JobIsReceived ==
  ASSUME TypeOK, PlaceInv, NEW w \in Workers, wpc[w] = "recv", jobs # <<>>,
         held' = [held EXCEPT ![w] = Head(jobs)], jobs' = Tail(jobs),
         UNCHANGED <<inbox, taken, answers>>
  PROVE  PlaceInv'
<1>1. held[w] = None /\ jobs \in Seq(Jobs) /\ None \notin Jobs
  BY HandlerAssumption DEF TypeOK, Holding
<1>2. /\ 1 \in DOMAIN jobs /\ Head(jobs) = jobs[1] /\ jobs[1] \in Jobs
      /\ \A i \in DOMAIN jobs' : i \in Nat /\ i + 1 \in DOMAIN jobs /\ i + 1 # 1 /\ jobs'[i] = jobs[i + 1]
      /\ \A i \in DOMAIN jobs : i = 1 \/ (i - 1 \in DOMAIN jobs' /\ jobs'[i - 1] = jobs[i])
  BY <1>1
<1>3. held'[w] = jobs[1] /\ \A v \in Workers : v # w => held'[v] = held[v]
  BY <1>2 DEF TypeOK
<1>4. OneHolder'
  BY <1>1, <1>2, <1>3 DEF PlaceInv, Places, OneHolder, Apart
<1>5. Apart'
  BY <1>1, <1>2, <1>3 DEF PlaceInv, Places, OneHolder, Apart
<1>6. \A k \in Jobs : OnTheWay(k)' <=> OnTheWay(k)
  <2>1. ASSUME NEW k \in Jobs, NEW i \in DOMAIN jobs, k = jobs[i]
        PROVE  k = held'[w] \/ \E n \in DOMAIN jobs' : k = jobs'[n]
    BY <1>2, <1>3, <2>1
  <2>2. ASSUME NEW k \in Jobs, NEW v \in Workers, k = held[v]
        PROVE  k = held'[v]
    BY <1>1, <1>3, <2>2
  <2>3. ASSUME NEW k \in Jobs, NEW v \in Workers, k = held'[v]
        PROVE  k = held[v] \/ k = jobs[1]
    BY <1>3, <2>3
  <2>4. ASSUME NEW k \in Jobs, NEW n \in DOMAIN jobs', k = jobs'[n]
        PROVE  \E i \in DOMAIN jobs : k = jobs[i]
    BY <1>2, <2>4
  <2>5. QED  BY <1>2, <2>1, <2>2, <2>3, <2>4 DEF OnTheWay
<1>7. Answered'
  BY <1>6 DEF PlaceInv, Answered
<1>8. QED  BY <1>4, <1>5, <1>7 DEF PlaceInv, Places

(* from a reader to an answer *)
LEMMA RefuseAnswers ==
  ASSUME TypeOK, PlaceInv, NEW r \in Readers, Refuse(r)
  PROVE  /\ taken[r] \in Jobs /\ answers[taken[r]] = <<>>
         /\ answers' = [answers EXCEPT ![taken[r]] = <<"queue full">>]
<1>1. taken[r] \in Jobs
  BY DEF TypeOK, Refuse, Busy, Refusing
<1>2. answers[taken[r]] = <<>>
  BY <1>1 DEF PlaceInv, Answered, OnTheWay
<1>3. <<>> \in Seq(Verdicts) /\ "queue full" \in Verdicts /\ <<"queue full">> \in Seq(Verdicts)
  BY DEF Verdicts
<1>4. Append(<<>>, "queue full") = <<>> \o <<"queue full">>
  BY <1>3, AppendIsConcat
<1>5. Append(<<>>, "queue full") = <<"queue full">>
  BY <1>3, <1>4, ConcatEmptySeq, Zenon
<1>6. answers' = [answers EXCEPT ![taken[r]] = Append(answers[taken[r]], "queue full")]
  BY DEF Refuse
<1>7. QED  BY <1>1, <1>2, <1>5, <1>6, Zenon

LEMMA JobIsRefused ==
  ASSUME TypeOK, PlaceInv, NEW r \in Readers, rpc[r] = "refuse",
         NEW answer, Len(answer) <= 1, answer # <<>>, answer \in Answers(taken[r]),
         answers' = [answers EXCEPT ![taken[r]] = answer],
         taken' = [taken EXCEPT ![r] = None], UNCHANGED <<inbox, jobs, held>>
  PROVE  PlaceInv'
<1>1. taken[r] \in Jobs /\ taken[r] # None /\ None \notin Jobs
  BY HandlerAssumption DEF TypeOK, Busy, Refusing
<1>2. taken'[r] = None /\ \A q \in Readers : q # r => taken'[q] = taken[q]
  BY DEF TypeOK
<1>3. /\ answers'[taken[r]] = answer
      /\ \A k \in Jobs : k # taken[r] => answers'[k] = answers[k]
  BY <1>1 DEF TypeOK
<1>4. OneHolder'
  BY <1>1, <1>2 DEF PlaceInv, Places, OneHolder
<1>5. Apart'
  <2>1. None \notin inbox /\ \A i \in DOMAIN jobs : jobs[i] # None
    <3>1. inbox \subseteq Jobs /\ jobs \in Seq(Jobs)
      BY DEF TypeOK
    <3>2. QED  BY <1>1, <3>1
  <2>2. \A q \in Readers : taken'[q] = taken[q] \/ taken'[q] = None
    BY <1>2
  <2>3. QED  BY <2>1, <2>2 DEF PlaceInv, Places, Apart
<1>6. \A k \in Jobs : OnTheWay(k)' <=> OnTheWay(k) /\ k # taken[r]
  BY <1>1, <1>2 DEF OnTheWay, PlaceInv, Places, OneHolder, Apart
<1>7. Answered'
  BY <1>3, <1>6 DEF PlaceInv, Answered
<1>8. QED  BY <1>4, <1>5, <1>7 DEF PlaceInv, Places

(* from a worker to an answer *)
LEMMA JobIsHandled ==
  ASSUME TypeOK, PlaceInv, NEW w \in Workers, wpc[w] = "run",
         answers' = [answers EXCEPT ![held[w]] = @ \o Verdict(held[w])],
         held' = [held EXCEPT ![w] = None], UNCHANGED <<inbox, taken, jobs>>
  PROVE  /\ PlaceInv' /\ held[w] \in Jobs /\ answers[held[w]] = <<>>
         /\ answers' = [answers EXCEPT ![held[w]] = Verdict(held[w])]
<1>1. held[w] \in Jobs /\ held[w] # None /\ None \notin Jobs
  BY HandlerAssumption DEF TypeOK, Holding
<1>2. held'[w] = None /\ \A v \in Workers : v # w => held'[v] = held[v]
  BY DEF TypeOK
<1>3. answers[held[w]] = <<>>
  BY <1>1 DEF PlaceInv, Answered, OnTheWay
<1>4. <<>> \o Verdict(held[w]) = Verdict(held[w])
  <2>1. <<>> \in Seq(Verdicts) /\ <<"unknown type">> \in Seq(Verdicts) /\ <<"measured">> \in Seq(Verdicts)
    BY DEF Verdicts
  <2>2. Verdict(held[w]) \in Seq(Verdicts)
    BY <2>1 DEF Verdict
  <2>3. QED  BY <2>2, ConcatEmptySeq
<1>5. answers' = [answers EXCEPT ![held[w]] = Verdict(held[w])]
  BY <1>3, <1>4
<1>6. /\ answers'[held[w]] = Verdict(held[w])
      /\ Len(Verdict(held[w])) <= 1 /\ (held[w] \in Malformed \/ Verdict(held[w]) # <<>>)
      /\ Verdict(held[w]) \in Answers(held[w])
      /\ \A k \in Jobs : k # held[w] => answers'[k] = answers[k]
  <2>1. /\ Len(<<>>) = 0 /\ Len(<<"unknown type">>) = 1 /\ Len(<<"measured">>) = 1
        /\ <<"unknown type">> # <<>> /\ <<"measured">> # <<>>
    OBVIOUS
  <2>2. /\ Verdict(held[w]) \in {<<>>, <<"unknown type">>, <<"measured">>}
        /\ held[w] \in Malformed \/ Verdict(held[w]) # <<>>
    BY <2>1, Zenon DEF Verdict
  <2>3. Len(Verdict(held[w])) \in {0, 1}
    BY <2>1, <2>2, Zenon
  <2>4. answers'[held[w]] = Verdict(held[w]) /\ \A k \in Jobs : k # held[w] => answers'[k] = answers[k]
    BY <1>1, <1>5 DEF TypeOK
  <2>5. \A n \in {0, 1} : n <= 1
    OBVIOUS
  <2>6. Verdict(held[w]) \in Answers(held[w])
    BY Zenon DEF Verdict, Answers
  <2>7. QED  BY <2>2, <2>3, <2>4, <2>5, <2>6, Zenon
<1>7. OneHolder'
  BY <1>1, <1>2 DEF PlaceInv, Places, OneHolder
<1>8. Apart'
  <2>1. None \notin inbox /\ \A i \in DOMAIN jobs : jobs[i] # None
    BY <1>1 DEF TypeOK
  <2>2. QED  BY <1>2, <2>1 DEF PlaceInv, Places, Apart
<1>9. \A k \in Jobs : OnTheWay(k)' <=> OnTheWay(k) /\ k # held[w]
  BY <1>1, <1>2 DEF OnTheWay, PlaceInv, Places, OneHolder, Apart
<1>10. Answered'
  BY <1>6, <1>9 DEF PlaceInv, Answered
<1>11. QED  BY <1>1, <1>3, <1>5, <1>7, <1>8, <1>10 DEF PlaceInv, Places

LEMMA PlaceStep == TypeOK /\ PlaceInv /\ [Next]_vars => PlaceInv'
<1> SUFFICES ASSUME TypeOK, PlaceInv, [Next]_vars
             PROVE  PlaceInv'
  OBVIOUS
<1>1. ASSUME NEW r \in Readers, CheckDepth(r)
      PROVE  PlaceInv'
  BY <1>1, JobIsRead DEF CheckDepth, workerVars
<1>2. ASSUME NEW r \in Readers, Enqueue(r)
      PROVE  PlaceInv'
  BY <1>2, JobIsQueued, NothingMoves DEF Enqueue, workerVars, jobVars
<1>3. ASSUME NEW r \in Readers, Refuse(r)
      PROVE  PlaceInv'
  <2>1. <<"queue full">> # <<>> /\ Len(<<"queue full">>) <= 1
    OBVIOUS
  <2>2. answers' = [answers EXCEPT ![taken[r]] = <<"queue full">>]
    BY <1>3, RefuseAnswers
  <2>3. /\ rpc[r] = "refuse" /\ taken' = [taken EXCEPT ![r] = None] /\ UNCHANGED <<inbox, jobs, held>>
    BY <1>3 DEF Refuse, workerVars
  <2>4. <<"queue full">> \in Answers(taken[r])
    BY Zenon DEF Answers
  <2>5. QED  BY <2>1, <2>2, <2>3, <2>4, JobIsRefused, Zenon
<1>4. ASSUME NEW w \in Workers, Receive(w)
      PROVE  PlaceInv'
  BY <1>4, JobIsReceived DEF Receive, readerVars, replyVars
<1>5. ASSUME NEW w \in Workers, HandleJob(w)
      PROVE  PlaceInv'
  BY <1>5, JobIsHandled DEF HandleJob, readerVars
<1>6. ASSUME NEW r \in Readers,
             \/ HandleAuthAck(r) \/ SetConcurrency(r) \/ SetQueueSize(r) \/ SetJobTimeout(r)
             \/ PolicyNotify(r)
      PROVE  PlaceInv'
  BY <1>6, NothingMoves
  DEF HandleAuthAck, SetConcurrency, SetQueueSize, SetJobTimeout, PolicyNotify, workerVars,
      replyVars, jobVars
<1>7. ASSUME NEW w \in Workers,
             CheckSlot(w) \/ Wake(w) \/ Start(w) \/ Leave(w) \/ NotifyWorkers(w)
      PROVE  PlaceInv'
  BY <1>7, NothingMoves
  DEF CheckSlot, Wake, Start, Leave, NotifyWorkers, readerVars, replyVars, jobVars
<1>8. CASE UNCHANGED vars
  BY <1>8, NothingMoves DEF vars, readerVars, workerVars, replyVars, jobVars
<1>9. QED
  BY <1>1, <1>2, <1>3, <1>4, <1>5, <1>6, <1>7, <1>8 DEF Next, Reader, Worker

LEMMA PlaceInit == Init => PlaceInv
<1> SUFFICES ASSUME Init PROVE PlaceInv
  OBVIOUS
<1>1. None \notin Jobs /\ DOMAIN (<<>>) = {} /\ Len(<<>>) = 0
  BY HandlerAssumption
<1>2. Places
  BY <1>1 DEF Init, Places, OneHolder, Apart
<1>3. Answered
  <2>1. \A j \in Jobs : <<>> \in Answers(j)
    BY Zenon DEF Answers
  <2>2. QED  BY <1>1, <2>1 DEF Init, Answered, OnTheWay
<1>4. QED  BY <1>2, <1>3 DEF PlaceInv

LEMMA PlacesHold == Spec => [](TypeOK /\ PlaceInv)
BY PlaceInit, PlaceStep, TypeCorrect, PTL DEF Spec

(* Two goroutines never hold the same job, and a job on its way through    *)
(* the handler has not been answered.                                      *)
THEOREM JobsHaveOnePlace == Spec => []OnePlacePerJob
BY PlacesHold, PlacesImply, PTL

(* No job is answered twice and none disappears, and each has an answer    *)
(* that its admission, its payload and its type justify.                   *)
THEOREM JobsHaveOneAnswer == Spec => []OneAnswerPerJob
BY PlacesHold, PlacesImply, PTL

-----------------------------------------------------------------------------
(* dropped_jobs *)

Refused == {j \in Jobs : answers[j] = <<"queue full">>}

Dropped == droppedJobs = Cardinality(Refused) + Cardinality(Refusing)

LEMMA DroppedStep == TypeOK /\ PlaceInv /\ Dropped /\ [Next]_vars => Dropped'
<1> SUFFICES ASSUME TypeOK, PlaceInv, Dropped, [Next]_vars
             PROVE  Dropped'
  OBVIOUS
<1>a. /\ IsFiniteSet(Refused) /\ Cardinality(Refused) \in Nat
      /\ IsFiniteSet(Refusing) /\ Cardinality(Refusing) \in Nat
  BY HandlerAssumption, FS_Subset, FS_CardinalityType DEF Refused, Refusing
(* A reader is about to refuse a job that was counted. *)
<1>1. ASSUME NEW r \in Readers, rpc[r] # "refuse", rpc' = [rpc EXCEPT ![r] = "refuse"],
             droppedJobs' = droppedJobs + 1, answers' = answers
      PROVE  Dropped'
  <2>1. Refusing' = Refusing \cup {r} /\ r \notin Refusing
    BY <1>1 DEF Refusing, TypeOK
  <2>2. Cardinality(Refusing') = Cardinality(Refusing) + 1
    BY <1>a, <2>1, FS_AddElement
  <2>3. Refused' = Refused
    BY <1>1 DEF Refused
  <2>4. QED  BY <1>1, <1>a, <2>2, <2>3 DEF Dropped
<1>2. ASSUME droppedJobs' = droppedJobs, Refused' = Refused, Refusing' = Refusing
      PROVE  Dropped'
  BY <1>2 DEF Dropped
<1>3. ASSUME NEW r \in Readers, CheckDepth(r) \/ Enqueue(r)
      PROVE  Dropped'
  <2>1. CASE rpc' = [rpc EXCEPT ![r] = "refuse"] /\ droppedJobs' = droppedJobs + 1
    BY <1>1, <1>3, <2>1 DEF CheckDepth, Enqueue
  <2>2. CASE rpc' \in {[rpc EXCEPT ![r] = "send"], [rpc EXCEPT ![r] = "idle"]} /\ droppedJobs' = droppedJobs
    <3>1. Refusing' = Refusing
      BY <1>3, <2>2 DEF CheckDepth, Enqueue, Refusing, TypeOK
    <3>2. Refused' = Refused
      BY <1>3 DEF CheckDepth, Enqueue, Refused
    <3>3. QED  BY <1>2, <2>2, <3>1, <3>2
  <2>3. QED  BY <1>3, <2>1, <2>2 DEF CheckDepth, Enqueue
<1>4. ASSUME NEW r \in Readers, Refuse(r)
      PROVE  Dropped'
  <2>1. /\ taken[r] \in Jobs /\ answers[taken[r]] = <<>>
        /\ answers' = [answers EXCEPT ![taken[r]] = <<"queue full">>]
    BY <1>4, RefuseAnswers
  <2>2. <<"queue full">> # <<>>
    OBVIOUS
  <2>3. Refused' = Refused \cup {taken[r]} /\ taken[r] \notin Refused
    BY <2>1, <2>2 DEF Refused, TypeOK
  <2>4. Refusing' = Refusing \ {r} /\ r \in Refusing
    BY <1>4 DEF Refuse, Refusing, TypeOK
  <2>5. /\ Cardinality(Refused') = Cardinality(Refused) + 1
        /\ Cardinality(Refusing') = Cardinality(Refusing) - 1
    BY <1>a, <2>3, <2>4, FS_AddElement, FS_RemoveElement
  <2>6. droppedJobs' = droppedJobs
    BY <1>4 DEF Refuse
  <2>7. QED  BY <1>a, <2>5, <2>6 DEF Dropped
<1>5. ASSUME NEW w \in Workers, HandleJob(w)
      PROVE  Dropped'
  <2>1. /\ held[w] \in Jobs /\ answers[held[w]] = <<>>
        /\ answers' = [answers EXCEPT ![held[w]] = Verdict(held[w])]
    BY <1>5, JobIsHandled DEF HandleJob, readerVars
  <2>2. /\ <<"queue full">> # <<>> /\ <<"queue full">> # <<"measured">>
        /\ <<"queue full">> # <<"unknown type">>
    OBVIOUS
  <2>3. Verdict(held[w]) # <<"queue full">>
    BY <2>2 DEF Verdict
  <2>4. Refused' = Refused
    BY <2>1, <2>2, <2>3 DEF Refused, TypeOK
  <2>5. droppedJobs' = droppedJobs /\ rpc' = rpc
    BY <1>5 DEF HandleJob, readerVars
  <2>6. QED  BY <1>2, <2>4, <2>5 DEF Refusing
<1>6. ASSUME UNCHANGED replyVars,
             \A r \in Readers : rpc'[r] = "refuse" <=> rpc[r] = "refuse"
      PROVE  Dropped'
  BY <1>2, <1>6 DEF replyVars, Refused, Refusing
<1>7. ASSUME NEW r \in Readers,
             \/ HandleAuthAck(r) \/ SetConcurrency(r) \/ SetQueueSize(r) \/ SetJobTimeout(r)
             \/ PolicyNotify(r)
      PROVE  Dropped'
  BY <1>6, <1>7
  DEF TypeOK, HandleAuthAck, SetConcurrency, SetQueueSize, SetJobTimeout, PolicyNotify
<1>8. ASSUME NEW w \in Workers,
             \/ Receive(w) \/ CheckSlot(w) \/ Wake(w) \/ Start(w) \/ Leave(w) \/ NotifyWorkers(w)
      PROVE  Dropped'
  BY <1>6, <1>8 DEF Receive, CheckSlot, Wake, Start, Leave, NotifyWorkers, readerVars
<1>9. CASE UNCHANGED vars
  BY <1>6, <1>9 DEF vars, readerVars
<1>10. QED
  BY <1>3, <1>4, <1>5, <1>7, <1>8, <1>9 DEF Next, Reader, Worker

(* running_jobs and dropped_jobs are true at every step. *)
THEOREM CountersTrue == Spec => []CountersAccurate
<1>1. Init => Dropped
  <2> SUFFICES ASSUME Init PROVE Dropped
    OBVIOUS
  <2>1. <<"queue full">> # <<>>
    OBVIOUS
  <2>2. Refused = {} /\ Refusing = {} /\ droppedJobs = 0
    BY <2>1 DEF Init, Refused, Refusing
  <2>3. QED  BY <2>2, FS_EmptySet DEF Dropped
<1>2. RunningAccurate /\ Dropped => CountersAccurate
  BY DEF Dropped, Refused, DroppedAccurate, CountersAccurate
<1>3. QED  BY <1>1, <1>2, DroppedStep, PlacesHold, TypeCorrect, PTL DEF Spec

-----------------------------------------------------------------------------
(* The handler as JobService *)

(* The refinement mapping, without the program counters of readers. *)
Offered(j) == j \in inbox \/ \E r \in Readers : j = taken[r]

BeingRun(j) == \E w \in Workers : j = held[w] /\ wpc[w] = "run"

Outcome(a) == IF a = <<>> THEN "discarded" ELSE IF a = <<"queue full">> THEN "refused" ELSE "answered"

Mapping ==
  \A j \in Jobs :
    StatusOf(j) = IF Offered(j) THEN "offered"
                  ELSE IF BeingRun(j) THEN "running"
                  ELSE IF OnTheWay(j) THEN "pending"
                  ELSE Outcome(answers[j])

LEMMA MappingIsTrue == TypeOK => Mapping
<1> SUFFICES ASSUME TypeOK, NEW j \in Jobs
             PROVE  StatusOf(j) = IF Offered(j) THEN "offered"
                                  ELSE IF BeingRun(j) THEN "running"
                                  ELSE IF OnTheWay(j) THEN "pending"
                                  ELSE Outcome(answers[j])
  BY DEF Mapping
<1>1. j # None
  BY HandlerAssumption
<1>2. Offered(j) <=> j \in inbox \cup {taken[r] : r \in Busy}
  <2>1. Busy \subseteq Readers /\ \A r \in Readers : j = taken[r] => r \in Busy
    BY <1>1 DEF TypeOK, Busy, Admitted, Refusing
  <2>2. QED  BY <2>1 DEF Offered
<1>3. BeingRun(j) <=> \E w \in Running : held[w] = j
  <2>1. \A w \in Workers : j = held[w] => wpc[w] # "leave"
    BY <1>1 DEF TypeOK, Holding
  <2>2. QED  BY <2>1 DEF BeingRun, Running
<1>4. ~Offered(j) => (OnTheWay(j) <=> j \in InFlight)
  BY FlightIsPlaces DEF Offered
<1>5. QED  BY <1>2, <1>3, <1>4, Zenon DEF StatusOf, Outcome

-----------------------------------------------------------------------------
(* Steps of the handler and of the service *)

status == [j \in Jobs |-> StatusOf(j)]

(* What decides the status of a job. *)
Same(j) ==
  /\ Offered(j)' <=> Offered(j)
  /\ BeingRun(j)' <=> BeingRun(j)
  /\ OnTheWay(j)' <=> OnTheWay(j)
  /\ answers'[j] = answers[j]

LEMMA Stutter ==
  ASSUME Mapping, Mapping', \A j \in Jobs : Same(j)
  PROVE  status' = status
<1>1. \A j \in Jobs : StatusOf(j)' = StatusOf(j)
  BY DEF Mapping, Same
<1>2. QED  BY <1>1 DEF status

LEMMA OneMoves ==
  ASSUME Mapping, Mapping', NEW j \in Jobs, NEW from, NEW to,
         \A k \in Jobs : k # j => Same(k), StatusOf(j) = from, StatusOf(j)' = to
  PROVE  Service!Move(j, from, to)
<1>1. \A k \in Jobs : k # j => StatusOf(k)' = StatusOf(k)
  BY DEF Mapping, Same
<1>2. [k \in Jobs |-> StatusOf(k)]' = [[k \in Jobs |-> StatusOf(k)] EXCEPT ![j] = to]
  BY <1>1
<1>3. QED  BY <1>2 DEF Service!Move

(* The steps that move a job where the center does not see it, or none.    *)
LEMMA PlacesSame ==
  ASSUME UNCHANGED jobVars, TypeOK, TypeOK',
         \A w \in Workers : held[w] # None => (wpc'[w] = "run" <=> wpc[w] = "run")
  PROVE  \A j \in Jobs : Same(j)
BY HandlerAssumption DEF Same, Offered, BeingRun, OnTheWay, jobVars

LEMMA ReadSame ==
  ASSUME TypeOK, NEW r \in Readers, CheckDepth(r)
  PROVE  \A j \in Jobs : Same(j)
<1>1. PICK i \in inbox : inbox' = inbox \ {i} /\ taken' = [taken EXCEPT ![r] = i]
  BY DEF CheckDepth
<1>2. taken[r] = None /\ None \notin Jobs
  BY HandlerAssumption DEF CheckDepth, TypeOK, Busy, Admitted, Refusing
<1>3. taken'[r] = i /\ \A q \in Readers : q # r => taken'[q] = taken[q]
  BY <1>1 DEF TypeOK
<1>4. UNCHANGED <<jobs, held, wpc, answers>>
  BY DEF CheckDepth, workerVars
<1>5. \A j \in Jobs : Offered(j)' <=> Offered(j)
  BY <1>1, <1>2, <1>3 DEF Offered
<1>6. \A j \in Jobs : BeingRun(j)' <=> BeingRun(j)
  BY <1>4 DEF BeingRun
<1>7. \A j \in Jobs : OnTheWay(j)' <=> OnTheWay(j)
  BY <1>4, <1>5 DEF OnTheWay, Offered
<1>8. QED  BY <1>4, <1>5, <1>6, <1>7 DEF Same

LEMMA QueuedMoves ==
  ASSUME TypeOK, PlaceInv, Mapping, Mapping', NEW r \in Readers, NEW j \in Jobs, taken[r] = j,
         jobs' = Append(jobs, j), taken' = [taken EXCEPT ![r] = None],
         UNCHANGED <<inbox, held, wpc, answers>>
  PROVE  Service!Admit(j)
<1>1. j # None /\ jobs \in Seq(Jobs) /\ None \notin Jobs
  BY HandlerAssumption DEF TypeOK
<1>2. taken'[r] = None /\ \A q \in Readers : q # r => taken'[q] = taken[q]
  BY DEF TypeOK
<1>3. /\ \A i \in DOMAIN jobs' : (i \in DOMAIN jobs /\ jobs'[i] = jobs[i]) \/ jobs'[i] = j
      /\ \A i \in DOMAIN jobs : i \in DOMAIN jobs' /\ jobs'[i] = jobs[i]
      /\ \E i \in DOMAIN jobs' : jobs'[i] = j
  BY <1>1
<1>4. \A k \in Jobs : OnTheWay(k)' <=> OnTheWay(k)
  BY <1>1, <1>2, <1>3 DEF OnTheWay
<1>5. \A k \in Jobs : BeingRun(k)' <=> BeingRun(k)
  BY DEF BeingRun
<1>6. \A k \in Jobs : k # j => (Offered(k)' <=> Offered(k))
  BY <1>1, <1>2 DEF Offered
<1>7. \A k \in Jobs : k # j => Same(k)
  BY <1>4, <1>5, <1>6 DEF Same
<1>8. StatusOf(j) = "offered"
  BY DEF Mapping, Offered
<1>9. ~(\E q \in Readers : j = taken'[q]) /\ j \notin inbox /\ \A w \in Workers : j # held[w]
  BY <1>1, <1>2 DEF PlaceInv, Places, OneHolder, Apart
<1>10. ~Offered(j)' /\ ~BeingRun(j)' /\ OnTheWay(j)'
  BY <1>3, <1>9 DEF Offered, BeingRun, OnTheWay
<1>11. StatusOf(j)' = "pending"
  BY <1>10 DEF Mapping
<1>12. QED  BY <1>7, <1>8, <1>11, OneMoves DEF Service!Admit

LEMMA RefusedMoves ==
  ASSUME TypeOK, PlaceInv, Mapping, Mapping', NEW r \in Readers, NEW j \in Jobs, taken[r] = j,
         answers' = [answers EXCEPT ![j] = <<"queue full">>], taken' = [taken EXCEPT ![r] = None],
         UNCHANGED <<inbox, jobs, held, wpc>>
  PROVE  Service!Refuse(j)
<1>1. j # None /\ None \notin Jobs
  BY HandlerAssumption
<1>2. taken'[r] = None /\ \A q \in Readers : q # r => taken'[q] = taken[q]
  BY DEF TypeOK
<1>3. answers'[j] = <<"queue full">> /\ \A k \in Jobs : k # j => answers'[k] = answers[k]
  BY DEF TypeOK
<1>4. \A k \in Jobs : k # j => (Offered(k)' <=> Offered(k))
  BY <1>1, <1>2 DEF Offered
<1>5. \A k \in Jobs : BeingRun(k)' <=> BeingRun(k)
  BY DEF BeingRun
<1>6. \A k \in Jobs : k # j => (OnTheWay(k)' <=> OnTheWay(k))
  BY <1>4 DEF OnTheWay, Offered
<1>7. \A k \in Jobs : k # j => Same(k)
  BY <1>3, <1>4, <1>5, <1>6 DEF Same
<1>8. StatusOf(j) = "offered"
  BY DEF Mapping, Offered
<1>9. /\ ~(\E q \in Readers : j = taken'[q]) /\ j \notin inbox
      /\ \A w \in Workers : j # held[w]
      /\ \A i \in DOMAIN jobs : j # jobs[i]
  BY <1>1, <1>2 DEF PlaceInv, Places, OneHolder, Apart
<1>10. ~Offered(j)' /\ ~BeingRun(j)' /\ ~OnTheWay(j)'
  BY <1>9 DEF Offered, BeingRun, OnTheWay
<1>11. StatusOf(j)' = Outcome(answers'[j])
  BY <1>10 DEF Mapping
<1>12. <<"queue full">> # <<>>
  OBVIOUS
<1>13. StatusOf(j)' = "refused"
  BY <1>3, <1>11, <1>12, Zenon DEF Outcome
<1>14. QED  BY <1>7, <1>8, <1>13, OneMoves DEF Service!Refuse

LEMMA ReceivedSame ==
  ASSUME TypeOK, NEW w \in Workers, Receive(w)
  PROVE  \A j \in Jobs : Same(j)
<1>1. held[w] = None /\ jobs \in Seq(Jobs) /\ None \notin Jobs /\ wpc[w] = "recv" /\ jobs # <<>>
  BY HandlerAssumption DEF Receive, TypeOK, Holding
<1>2. held' = [held EXCEPT ![w] = Head(jobs)] /\ jobs' = Tail(jobs) /\ wpc' = [wpc EXCEPT ![w] = "check"]
  BY DEF Receive
<1>3. /\ 1 \in DOMAIN jobs /\ Head(jobs) = jobs[1] /\ jobs[1] \in Jobs
      /\ \A i \in DOMAIN jobs' : i \in Nat /\ i + 1 \in DOMAIN jobs /\ jobs'[i] = jobs[i + 1]
      /\ \A i \in DOMAIN jobs : i = 1 \/ (i - 1 \in DOMAIN jobs' /\ jobs'[i - 1] = jobs[i])
  BY <1>1, <1>2
<1>4. /\ held'[w] = jobs[1] /\ wpc'[w] = "check"
      /\ \A v \in Workers : v # w => held'[v] = held[v] /\ wpc'[v] = wpc[v]
  BY <1>2, <1>3 DEF TypeOK
<1>5. UNCHANGED <<inbox, taken, answers>>
  BY DEF Receive, readerVars, replyVars
<1>6. \A j \in Jobs : Offered(j)' <=> Offered(j)
  BY <1>5 DEF Offered
<1>7. \A j \in Jobs : BeingRun(j)' <=> BeingRun(j)
  BY <1>1, <1>4 DEF BeingRun
<1>8. \A j \in Jobs : OnTheWay(j)' <=> OnTheWay(j)
  <2>1. ASSUME NEW j \in Jobs, NEW i \in DOMAIN jobs, j = jobs[i]
        PROVE  j = held'[w] \/ \E n \in DOMAIN jobs' : j = jobs'[n]
    BY <1>3, <1>4, <2>1
  <2>2. ASSUME NEW j \in Jobs, NEW v \in Workers, j = held[v]
        PROVE  j = held'[v]
    BY <1>1, <1>4, <2>2
  <2>3. ASSUME NEW j \in Jobs, NEW v \in Workers, j = held'[v]
        PROVE  j = held[v] \/ j = jobs[1]
    BY <1>4, <2>3
  <2>4. ASSUME NEW j \in Jobs, NEW n \in DOMAIN jobs', j = jobs'[n]
        PROVE  \E i \in DOMAIN jobs : j = jobs[i]
    BY <1>3, <2>4
  <2>5. QED  BY <1>3, <1>5, <2>1, <2>2, <2>3, <2>4 DEF OnTheWay
<1>9. QED  BY <1>5, <1>6, <1>7, <1>8 DEF Same

(* Cardinality seen through the instance is Cardinality.                   *)
LEMMA SameCardinality ==
  ASSUME NEW S
  PROVE  Service!Cardinality(S) = Cardinality(S)
BY DEF Service!Cardinality, Cardinality

(* Fewer jobs run than there are workers while one of them is not running. *)
LEMMA SpareWorker ==
  ASSUME TypeOK, PlaceInv, Mapping, NEW w \in Workers, wpc[w] # "run"
  PROVE  Cardinality(Service!In("running")) < MaxConcurrency
<1> DEFINE R == {v \in Workers : wpc[v] = "run"}
           J == Service!In("running")
           f == [v \in R |-> held[v]]
<1>1. J = {j \in Jobs : StatusOf(j) = "running"}
  BY DEF Service!In
<1>2. \A j \in J : \E v \in R : held[v] = j
  <2>1. \A j \in Jobs : Outcome(answers[j]) # "running"
    BY DEF Outcome
  <2>2. \A j \in Jobs : StatusOf(j) = "running" => BeingRun(j)
    BY <2>1 DEF Mapping
  <2>3. QED  BY <1>1, <2>2 DEF BeingRun
<1>3. ASSUME NEW v \in R
      PROVE  held[v] \in J
  <2>1. v \in Workers /\ wpc[v] = "run" /\ held[v] \in Jobs /\ held[v] # None
    BY HandlerAssumption DEF TypeOK, Holding
  <2>2. ~Offered(held[v]) /\ BeingRun(held[v])
    BY <2>1 DEF Offered, BeingRun, PlaceInv, Places, Apart
  <2>3. StatusOf(held[v]) = "running"
    BY <2>1, <2>2 DEF Mapping
  <2>4. QED  BY <1>1, <2>1, <2>3
<1>4. f \in Surjection(R, J)
  BY <1>2, <1>3 DEF Surjection
<1>5. IsFiniteSet(Workers) /\ Cardinality(Workers) \in Nat
  BY HandlerAssumption, FS_CardinalityType
<1>6. /\ IsFiniteSet(Workers \ {w})
      /\ Cardinality(Workers \ {w}) = Cardinality(Workers) - 1
  BY <1>5, FS_RemoveElement
<1>7. R \in SUBSET (Workers \ {w})
  OBVIOUS
<1>8. IsFiniteSet(R) /\ Cardinality(R) <= Cardinality(Workers) - 1
  BY <1>6, <1>7, FS_Subset
<1> HIDE DEF R, J, f
<1>9. IsFiniteSet(J) /\ Cardinality(J) <= Cardinality(R)
  BY <1>4, <1>8, FS_Surjection
<1>10. Cardinality(J) \in Nat /\ Cardinality(R) \in Nat
  BY <1>8, <1>9, FS_CardinalityType
<1>11. Cardinality(J) < MaxConcurrency
  BY <1>5, <1>8, <1>9, <1>10 DEF MaxConcurrency
<1>12. QED  BY <1>11 DEF J

LEMMA StartMoves ==
  ASSUME TypeOK, PlaceInv, Mapping, Mapping', NEW w \in Workers, NEW j \in Jobs, held[w] = j, Start(w)
  PROVE  Service!Start(j)
<1>1. j # None /\ wpc[w] = "start" /\ wpc' = [wpc EXCEPT ![w] = "run"]
  BY HandlerAssumption DEF Start
<1>2. UNCHANGED jobVars
  BY DEF Start, readerVars, replyVars, jobVars
<1>3. wpc'[w] = "run" /\ \A v \in Workers : v # w => wpc'[v] = wpc[v]
  BY <1>1 DEF TypeOK
<1>4. \A k \in Jobs : (Offered(k)' <=> Offered(k)) /\ (OnTheWay(k)' <=> OnTheWay(k))
  BY <1>2 DEF jobVars, Offered, OnTheWay
<1>5. \A k \in Jobs : k # j => (BeingRun(k)' <=> BeingRun(k))
  BY <1>2, <1>3 DEF jobVars, BeingRun
<1>6. \A k \in Jobs : k # j => Same(k)
  BY <1>2, <1>4, <1>5 DEF Same, jobVars
<1>7. ~Offered(j) /\ OnTheWay(j) /\ ~BeingRun(j) /\ BeingRun(j)'
  BY <1>1, <1>2, <1>3 DEF jobVars, Offered, OnTheWay, BeingRun, PlaceInv, Places, OneHolder, Apart
<1>8. StatusOf(j) = "pending" /\ StatusOf(j)' = "running"
  BY <1>4, <1>7 DEF Mapping
<1>9. Service!Move(j, "pending", "running")
  BY <1>6, <1>8, OneMoves
<1>10. wpc[w] # "run"
  BY <1>1
<1>11. Cardinality(Service!In("running")) < MaxConcurrency
  BY <1>10, SpareWorker
<1>12. QED  BY <1>9, <1>11, SameCardinality DEF Service!Start

LEMMA HandledMoves ==
  ASSUME TypeOK, PlaceInv, Mapping, Mapping', NEW w \in Workers, NEW j \in Jobs, held[w] = j,
         wpc[w] = "run", wpc' = [wpc EXCEPT ![w] = "leave"],
         answers' = [answers EXCEPT ![j] = Verdict(j)],
         held' = [held EXCEPT ![w] = None], UNCHANGED <<inbox, taken, jobs>>
  PROVE  Service!Settle(j)
<1>1. j # None /\ None \notin Jobs
  BY HandlerAssumption
<1>2. held'[w] = None /\ \A v \in Workers : v # w => held'[v] = held[v] /\ wpc'[v] = wpc[v]
  BY DEF TypeOK
<1>3. answers'[j] = Verdict(j) /\ \A k \in Jobs : k # j => answers'[k] = answers[k]
  BY DEF TypeOK
<1>4. \A k \in Jobs : Offered(k)' <=> Offered(k)
  BY DEF Offered
<1>5. \A k \in Jobs : k # j => (BeingRun(k)' <=> BeingRun(k))
  BY <1>1, <1>2 DEF BeingRun
<1>6. \A k \in Jobs : k # j => (OnTheWay(k)' <=> OnTheWay(k))
  BY <1>1, <1>2 DEF OnTheWay
<1>7. \A k \in Jobs : k # j => Same(k)
  BY <1>3, <1>4, <1>5, <1>6 DEF Same
<1>8. ~Offered(j) /\ BeingRun(j)
  BY <1>1 DEF Offered, BeingRun, PlaceInv, Places, Apart
<1>9. StatusOf(j) = "running"
  BY <1>8 DEF Mapping
<1>10. /\ \A q \in Readers : j # taken[q]
       /\ j \notin inbox
       /\ \A v \in Workers : j # held'[v]
       /\ \A i \in DOMAIN jobs : j # jobs[i]
  BY <1>1, <1>2 DEF PlaceInv, Places, OneHolder, Apart
<1>11. ~Offered(j)' /\ ~BeingRun(j)' /\ ~OnTheWay(j)'
  BY <1>10 DEF Offered, BeingRun, OnTheWay
<1>12. StatusOf(j)' = Outcome(answers'[j])
  BY <1>11 DEF Mapping
<1>13. /\ <<"measured">> # <<>> /\ <<"unknown type">> # <<>>
       /\ <<"measured">> # <<"queue full">> /\ <<"unknown type">> # <<"queue full">>
  OBVIOUS
<1>14. Outcome(Verdict(j)) = IF j \in Malformed THEN "discarded" ELSE "answered"
  BY <1>13, Zenon DEF Outcome, Verdict
<1>15. StatusOf(j)' = IF j \in Malformed THEN "discarded" ELSE "answered"
  BY <1>3, <1>12, <1>14
<1>16. QED  BY <1>7, <1>9, <1>15, OneMoves DEF Service!Settle

-----------------------------------------------------------------------------
(* What a reader does to the service: it answers a job only by refusing it. *)
LEMMA ReaderImplements ==
  ASSUME TypeOK, TypeOK', PlaceInv, Mapping, Mapping', NEW r \in Readers, Reader(r)
  PROVE  IF rpc[r] = "refuse"
         THEN \E j \in Jobs : /\ taken[r] = j
                             /\ answers[j] = <<>> /\ answers' = [answers EXCEPT ![j] = <<"queue full">>]
                             /\ Service!Refuse(j)
         ELSE answers' = answers /\ (status' = status \/ \E j \in Jobs : Service!Admit(j))
<1>1. CASE CheckDepth(r)
  <2>1. rpc[r] # "refuse" /\ answers' = answers
    BY <1>1 DEF CheckDepth
  <2>2. status' = status
    BY <1>1, ReadSame, Stutter
  <2>3. QED  BY <2>1, <2>2
<1>2. CASE Enqueue(r)
  <2>1. PICK j \in Jobs : taken[r] = j
    BY <1>2 DEF Enqueue, TypeOK, Busy, Admitted
  <2>2. rpc[r] # "refuse" /\ UNCHANGED <<inbox, held, wpc, answers>>
    BY <1>2 DEF Enqueue, workerVars
  <2>3. CASE jobs' = Append(jobs, taken[r]) /\ taken' = [taken EXCEPT ![r] = None]
    <3>1. Service!Admit(j)
      BY <2>1, <2>2, <2>3, QueuedMoves
    <3>2. QED  BY <2>2, <3>1
  <2>4. CASE UNCHANGED <<taken, jobs>>
    <3>1. UNCHANGED jobVars /\ wpc' = wpc
      BY <2>2, <2>4 DEF jobVars
    <3>2. QED  BY <2>2, <3>1, PlacesSame, Stutter
  <2>5. QED  BY <1>2, <2>3, <2>4 DEF Enqueue
<1>3. CASE Refuse(r)
  <2>1. PICK j \in Jobs : taken[r] = j
    BY <1>3, RefuseAnswers
  <2>2. answers' = [answers EXCEPT ![j] = <<"queue full">>] /\ answers[j] = <<>>
    BY <1>3, <2>1, RefuseAnswers DEF PlaceInv, Answered, OnTheWay
  <2>3. rpc[r] = "refuse" /\ taken' = [taken EXCEPT ![r] = None] /\ UNCHANGED <<inbox, jobs, held, wpc>>
    BY <1>3 DEF Refuse, workerVars
  <2>4. Service!Refuse(j)
    BY <2>1, <2>2, <2>3, RefusedMoves
  <2>5. QED  BY <2>1, <2>2, <2>3, <2>4
<1>4. CASE \/ HandleAuthAck(r) \/ SetConcurrency(r) \/ SetQueueSize(r) \/ SetJobTimeout(r)
           \/ PolicyNotify(r)
  <2>1. rpc[r] # "refuse" /\ UNCHANGED jobVars /\ wpc' = wpc
    BY <1>4 DEF HandleAuthAck, SetConcurrency, SetQueueSize, SetJobTimeout, PolicyNotify, workerVars,
                replyVars, jobVars
  <2>2. QED  BY <2>1, PlacesSame, Stutter DEF jobVars
<1>5. QED  BY <1>1, <1>2, <1>3, <1>4 DEF Reader

(* What a worker does to the service: it answers the job it has run. *)
LEMMA WorkerImplements ==
  ASSUME TypeOK, TypeOK', PlaceInv, Mapping, Mapping', NEW w \in Workers, Worker(w)
  PROVE  IF wpc[w] = "run"
         THEN \E j \in Jobs : /\ held[w] = j
                             /\ answers[j] = <<>> /\ answers' = [answers EXCEPT ![j] = Verdict(j)]
                             /\ Service!Settle(j)
         ELSE answers' = answers /\ (status' = status \/ \E j \in Jobs : Service!Start(j))
<1>1. CASE Receive(w)
  <2>1. wpc[w] # "run" /\ answers' = answers
    BY <1>1 DEF Receive, replyVars
  <2>2. status' = status
    BY <1>1, ReceivedSame, Stutter
  <2>3. QED  BY <2>1, <2>2
<1>2. CASE Start(w)
  <2>1. wpc[w] # "run" /\ answers' = answers
    BY <1>2 DEF Start, replyVars
  <2>2. PICK j \in Jobs : held[w] = j
    BY <1>2 DEF Start, TypeOK, Holding
  <2>3. Service!Start(j)
    BY <1>2, <2>2, StartMoves
  <2>4. QED  BY <2>1, <2>3
<1>3. CASE HandleJob(w)
  <2>1. PICK j \in Jobs : held[w] = j
    BY <1>3 DEF HandleJob, TypeOK, Holding
  <2>2. /\ wpc[w] = "run" /\ wpc' = [wpc EXCEPT ![w] = "leave"]
        /\ held' = [held EXCEPT ![w] = None] /\ UNCHANGED <<inbox, taken, jobs>>
        /\ answers' = [answers EXCEPT ![held[w]] = @ \o Verdict(held[w])]
    BY <1>3 DEF HandleJob, readerVars
  <2>3. answers' = [answers EXCEPT ![j] = Verdict(j)]
    BY <2>1, <2>2, JobIsHandled
  <2>4. answers[j] = <<>>
    BY <2>1 DEF PlaceInv, Answered, OnTheWay
  <2>5. Service!Settle(j)
    BY <2>1, <2>2, <2>3, HandledMoves
  <2>6. QED  BY <2>1, <2>2, <2>3, <2>4, <2>5
<1>4. CASE CheckSlot(w) \/ Wake(w) \/ Leave(w) \/ NotifyWorkers(w)
  <2>1. UNCHANGED jobVars
    BY <1>4 DEF CheckSlot, Wake, Leave, NotifyWorkers, readerVars, replyVars, jobVars
  <2>2. /\ wpc[w] # "run"
        /\ \E pc \in {"wait", "start", "check", "notify", "recv"} : wpc' = [wpc EXCEPT ![w] = pc]
    BY <1>4 DEF CheckSlot, Wake, Leave, NotifyWorkers
  <2>3. \A v \in Workers : wpc'[v] = "run" <=> wpc[v] = "run"
    BY <2>2 DEF TypeOK
  <2>4. QED  BY <2>1, <2>2, <2>3, PlacesSame, Stutter DEF jobVars
<1>5. QED  BY <1>1, <1>2, <1>3, <1>4 DEF Worker

LEMMA StepImplements ==
  ASSUME TypeOK, TypeOK', PlaceInv, Mapping, Mapping', [Next]_vars
  PROVE  [Service!Next]_status
<1>1. ASSUME NEW r \in Readers, Reader(r)
      PROVE  [Service!Next]_status
  <2>1. status' = status \/ \E j \in Jobs : Service!Refuse(j) \/ Service!Admit(j)
    BY <1>1, ReaderImplements
  <2>2. QED  BY <2>1 DEF Service!Next
<1>2. ASSUME NEW w \in Workers, Worker(w)
      PROVE  [Service!Next]_status
  <2>1. status' = status \/ \E j \in Jobs : Service!Settle(j) \/ Service!Start(j)
    BY <1>2, WorkerImplements
  <2>2. QED  BY <2>1 DEF Service!Next
<1>3. CASE UNCHANGED vars
  <2>1. UNCHANGED jobVars /\ wpc' = wpc
    BY <1>3 DEF vars, readerVars, workerVars, replyVars, jobVars
  <2>2. QED  BY <2>1, PlacesSame, Stutter
<1>4. QED  BY <1>1, <1>2, <1>3 DEF Next

LEMMA InitServes == Init => Service!Init
<1> SUFFICES ASSUME Init PROVE \A j \in Jobs : StatusOf(j) = "offered"
  BY DEF Service!Init
<1>1. QED  BY DEF Init, StatusOf

(* Every behaviour of the handler is one of JobService: a job is refused   *)
(* or admitted, an admitted one started once with a worker to spare, and   *)
(* settled.                                                                *)
THEOREM HandlerImplementsService == Spec => ImplementsService
<1>1. Init => Service!Init
  BY InitServes
<1>2. TypeOK /\ PlaceInv /\ Mapping /\ [Next]_vars /\ TypeOK' /\ Mapping' => [Service!Next]_status
  BY StepImplements
<1>3. QED  BY <1>1, <1>2, MappingIsTrue, PlacesHold, PTL DEF Spec, ImplementsService, Service!Spec, status
=============================================================================
